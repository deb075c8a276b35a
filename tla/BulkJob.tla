------------------------------- MODULE BulkJob -------------------------------
(***************************************************************************)
(* The bulk jobs of Mercado Libre: a stock job and a promotion job follow   *)
(* one protocol, a job row and item rows in Supabase that messages of a     *)
(* queue carry forward one item at a time.  A promotion job has no skipped  *)
(* items, no automatic retry, no stop and no retry of its errors.           *)
(*                                                                          *)
(* A request is one step.  A request that fails and an invocation that dies *)
(* are the action Fail: the exception leaves processNext and the queue      *)
(* delivers the message again.  Sending the next message is part of the     *)
(* step before it: a message sent later is one delivered later.             *)
(***************************************************************************)
EXTENDS Naturals, FiniteSets

CONSTANTS
    N,              \* items of the job, at positions 1 to N
    Workers,        \* invocations of the queue consumer
    Kinds,          \* which of stock and promotion
    MaxAttempts,    \* MAX_ATTEMPTS of StockBulkErrorPolicy
    MaxRetries,     \* bound: times the user retries the errors
    MaxTakeovers,   \* bound: holders that outlive their two minutes
    MaxFaults       \* bound: failed requests, deaths, duplicated messages

ASSUME BulkAssumption ==
    /\ N \in Nat \ {0} /\ Kinds \subseteq {"stock", "promotion"}
    /\ MaxAttempts \in Nat /\ MaxRetries \in Nat /\ MaxTakeovers \in Nat /\ MaxFaults \in Nat

VARIABLES
    kind, skip,     \* which job; its items not editable or unchanged
    job, item,      \* the row of the job, the status of each item row
    attempts,       \* attempt_count of an item
    messages,       \* messages of the job in the queue
    dispatched,     \* no message that was due failed to be sent
    pc, wk,         \* stage of an invocation and its locals
    sent,           \* items whose change Mercado Libre has made
    retries, takeovers, faults

rowVars == <<job, item, attempts>>
boundVars == <<retries, takeovers, faults>>
vars == <<kind, skip, rowVars, messages, dispatched, pc, wk, sent, boundVars>>

-----------------------------------------------------------------------------

Items == 1 .. N
Final == {"SUCCESS", "ERROR", "SKIPPED"}
ItemStatus == {"PENDING", "PROCESSING"} \cup Final
Completed == {"COMPLETED", "COMPLETED_WITH_ERRORS"}
Terminal == Completed \cup {"FAILED"}

\* finish: a write inside the try of processItem; record: one outside it.
Inside == {"pick", "take", "apply", "finish", "record", "retry", "release",
           "stopItem", "stopJob", "stopAnyway", "list", "update"}
Stage == Inside \cup {"idle", "find", "claim"}

Counts == [successful : 0 .. N, failed : 0 .. N, skipped : 0 .. N]
NoCounts == [successful |-> 0, failed |-> 0, skipped |-> 0]
Local == [item : Items, attempt : Nat, verdict : Final, counts : Counts]
Blank == [item |-> 1, attempt |-> 0, verdict |-> "ERROR", counts |-> NoCounts]

With(status) == {i \in Items : item[i] = status}
Count == [successful |-> Cardinality(With("SUCCESS")), failed |-> Cardinality(With("ERROR")),
          skipped |-> Cardinality(With("SKIPPED"))]
Total(c) == c.successful + c.failed + c.skipped

Init ==
    /\ kind \in Kinds /\ skip \in SUBSET Items /\ (kind = "promotion" => skip = {})
    /\ job = [status |-> "QUEUED", processed |-> 0, counts |-> NoCounts]
    /\ item = [i \in Items |-> "PENDING"] /\ attempts = [i \in Items |-> 0]
    /\ messages = 1 /\ dispatched = TRUE
    /\ pc = [w \in Workers |-> "idle"] /\ wk = [w \in Workers |-> Blank]
    /\ sent = {} /\ retries = 0 /\ takeovers = 0 /\ faults = 0

-----------------------------------------------------------------------------

At(w, stage) == pc[w] = stage
Goto(w, stage, local) == /\ pc' = [pc EXCEPT ![w] = stage] /\ wk' = [wk EXCEPT ![w] = local]
                         /\ messages' = messages
Then(w, stage) == Goto(w, stage, wk[w])
SetItem(i, status) == item' = [item EXCEPT ![i] = status]
SetStatus(status) == job' = [job EXCEPT !.status = status]
Fault == faults < MaxFaults /\ faults' = faults + 1

\* Mutant: nothing follows an invocation that has more to do.
ReturnAlone(w, hasMore) == /\ pc' = [pc EXCEPT ![w] = "idle"] /\ wk' = [wk EXCEPT ![w] = Blank]
                           /\ messages' = messages

\* hasMore puts the next message in the queue, as an exception puts back its own.
Return(w, hasMore) ==
    /\ pc' = [pc EXCEPT ![w] = "idle"] /\ wk' = [wk EXCEPT ![w] = Blank]
    /\ messages' = messages + (IF hasMore THEN 1 ELSE 0)
Throw(w) == Return(w, TRUE)

Deliver(w) ==
    /\ At(w, "idle") /\ messages > 0
    /\ pc' = [pc EXCEPT ![w] = "find"] /\ messages' = messages - 1
    /\ UNCHANGED <<kind, skip, rowVars, dispatched, wk, sent, boundVars>>

Find(w) ==
    /\ At(w, "find")
    /\ IF job.status \in Terminal THEN Return(w, FALSE) ELSE Then(w, "claim")
    /\ UNCHANGED <<kind, skip, rowVars, dispatched, sent, boundVars>>

Held(w) == \E v \in Workers \ {w} : pc[v] \in Inside

\* Mutant: whoever finds the job RUNNING takes it, however long it is held.
ClaimableAlways(w) ==
    job.status \in {"QUEUED", "RUNNING"} /\ takeovers' = takeovers

\* A RUNNING job is claimed when its lock is older than two minutes, as a dead
\* holder leaves it; one that is still at work counts as a takeover.
Claimable(w) ==
    \/ job.status = "QUEUED" /\ takeovers' = takeovers
    \/ job.status = "RUNNING" /\ ~Held(w) /\ takeovers' = takeovers
    \/ job.status = "RUNNING" /\ Held(w) /\ takeovers < MaxTakeovers
       /\ takeovers' = takeovers + 1

Recovered(status) == IF status = "PROCESSING" THEN "PENDING" ELSE status

ClaimJob(w) ==
    /\ At(w, "claim") /\ Claimable(w)
    /\ SetStatus("RUNNING") /\ item' = [i \in Items |-> Recovered(item[i])]
    /\ Then(w, "pick")
    /\ UNCHANGED <<kind, skip, attempts, dispatched, sent, retries, faults>>

ClaimRefused(w) ==
    /\ At(w, "claim") /\ job.status # "QUEUED"
    /\ Return(w, TRUE)
    /\ UNCHANGED <<kind, skip, rowVars, dispatched, sent, boundVars>>

\* claimNextItem reads the first PENDING row, then takes it if it still is.
PickItem(w) ==
    /\ At(w, "pick")
    /\ \/ With("PENDING") = {} /\ Then(w, "list")
       \/ \E i \in With("PENDING") :
             /\ \A j \in With("PENDING") : i <= j
             /\ Goto(w, "take", [wk[w] EXCEPT !.item = i, !.attempt = attempts[i] + 1])
    /\ UNCHANGED <<kind, skip, rowVars, dispatched, sent, boundVars>>

TakeItem(w) ==
    LET i == wk[w].item IN
    /\ At(w, "take")
    /\ IF item[i] = "PENDING"
         THEN /\ SetItem(i, "PROCESSING") /\ Then(w, "apply")
              /\ attempts' = [attempts EXCEPT ![i] = wk[w].attempt]
         ELSE Then(w, "list") /\ UNCHANGED <<item, attempts>>
    /\ UNCHANGED <<kind, skip, job, dispatched, sent, boundVars>>

Verdict(w, stage, verdict) == Goto(w, stage, [wk[w] EXCEPT !.verdict = verdict])

\* decide: what the catch of processItem does with an error.
Caught(w, error) ==
    IF kind = "stock" /\ error = "authorization" THEN Then(w, "stopItem")
    ELSE IF kind = "stock" /\ error = "temporary" /\ wk[w].attempt < MaxAttempts
      THEN Then(w, "retry")
      ELSE Verdict(w, "record", "ERROR")

\* Mutant: an item there is nothing to change of is a success.
SkipAsSuccess(w) ==
    /\ At(w, "apply") /\ wk[w].item \in skip
    /\ Verdict(w, "record", "SUCCESS")
    /\ UNCHANGED <<kind, skip, rowVars, dispatched, sent, boundVars>>

Skip(w) ==
    /\ At(w, "apply") /\ wk[w].item \in skip
    /\ Verdict(w, "record", "SKIPPED")
    /\ UNCHANGED <<kind, skip, rowVars, dispatched, sent, boundVars>>

\* A temporary error, a timeout for instance, may hide that the change was made.
UpdateStock(w) ==
    /\ At(w, "apply") /\ kind = "stock" /\ wk[w].item \notin skip
    /\ \/ sent' = sent \cup {wk[w].item} /\ Verdict(w, "finish", "SUCCESS")
       \/ sent' = sent \cup {wk[w].item} /\ Caught(w, "temporary")
       \/ sent' = sent /\ \E error \in {"authorization", "temporary", "permanent"} :
             Caught(w, error)
    /\ UNCHANGED <<kind, skip, rowVars, dispatched, boundVars>>

\* SCHEDULED and ACTIVE are one success here.
ApplyPromotion(w) ==
    /\ At(w, "apply") /\ kind = "promotion"
    /\ \/ sent' = sent \cup {wk[w].item} /\ Verdict(w, "finish", "SUCCESS")
       \/ sent' = sent /\ Verdict(w, "finish", "ERROR")
       \/ sent' \in {sent, sent \cup {wk[w].item}} /\ Caught(w, "any")
    /\ UNCHANGED <<kind, skip, rowVars, dispatched, boundVars>>

-----------------------------------------------------------------------------

\* The verdict is written if the item is still PROCESSING.
Written(w) == [item EXCEPT ![wk[w].item] = IF @ = "PROCESSING" THEN wk[w].verdict ELSE @]

\* A SUCCESS or an answered ERROR is written under the catch, a caught error after it.
Unsaved(w) == IF At(w, "finish") THEN Caught(w, "temporary") ELSE Throw(w)

\* finishItem; the write or its answer may be lost.
FinishItem(w) ==
    /\ pc[w] \in {"finish", "record"} /\ item' \in {item, Written(w)}
    /\ \/ item[wk[w].item] = "PROCESSING" /\ item' = Written(w) /\ Then(w, "list")
          /\ faults' = faults
       \/ item[wk[w].item] # "PROCESSING" /\ Unsaved(w) /\ faults' = faults
       \/ Fault /\ Unsaved(w)
    /\ UNCHANGED <<kind, skip, job, attempts, dispatched, sent, retries, takeovers>>

RetryItem(w) ==
    LET i == wk[w].item IN
    /\ At(w, "retry")
    /\ IF item[i] = "PROCESSING"
         THEN SetItem(i, "PENDING") /\ Then(w, "release")
         ELSE item' = item /\ Throw(w)
    /\ UNCHANGED <<kind, skip, job, attempts, dispatched, sent, boundVars>>

ReleaseForRetry(w) ==
    /\ At(w, "release")
    /\ IF job.status = "RUNNING" THEN SetStatus("QUEUED") ELSE job' = job
    /\ Return(w, TRUE)
    /\ UNCHANGED <<kind, skip, item, attempts, dispatched, sent, boundVars>>

\* failJob writes the job whether or not the write of the item failed.
StopItem(w) ==
    LET i == wk[w].item IN
    /\ At(w, "stopItem")
    /\ \/ /\ item' = IF item[i] = "PROCESSING" THEN [item EXCEPT ![i] = "PENDING"] ELSE item
          /\ Then(w, "stopJob") /\ faults' = faults
       \/ Fault /\ item' = item /\ Then(w, "stopAnyway")
    /\ UNCHANGED <<kind, skip, job, attempts, dispatched, sent, retries, takeovers>>

StopJob(w) ==
    /\ pc[w] \in {"stopJob", "stopAnyway"}
    /\ IF job.status = "RUNNING" THEN SetStatus("FAILED") ELSE job' = job
    /\ Return(w, At(w, "stopAnyway"))
    /\ UNCHANGED <<kind, skip, item, attempts, dispatched, sent, boundVars>>

\* refreshProgress lists the items in one request and writes the row in another.
ListItems(w) ==
    /\ At(w, "list")
    /\ Goto(w, "update", [wk[w] EXCEPT !.counts = Count])
    /\ UNCHANGED <<kind, skip, rowVars, dispatched, sent, boundVars>>

\* Mutant: the job completes one item early.
StatusOfAlmost(c) == IF Total(c) + 1 < N THEN "QUEUED"
                     ELSE IF c.failed > 0 THEN "COMPLETED_WITH_ERRORS" ELSE "COMPLETED"

StatusOf(c) == IF Total(c) < N THEN "QUEUED"
               ELSE IF c.failed > 0 THEN "COMPLETED_WITH_ERRORS" ELSE "COMPLETED"

UpdateProgress(w) ==
    LET c == wk[w].counts IN
    /\ At(w, "update")
    /\ IF job.status = "RUNNING"
         THEN /\ job' = [status |-> StatusOf(c), processed |-> Total(c), counts |-> c]
              /\ Return(w, Total(c) < N)
         ELSE job' = job /\ Throw(w)
    /\ UNCHANGED <<kind, skip, item, attempts, dispatched, sent, boundVars>>

-----------------------------------------------------------------------------

\* The check on processed_items refuses a count below zero.
RetryErrors ==
    LET retried == With("ERROR") IN
    /\ kind = "stock" /\ job.status = "COMPLETED_WITH_ERRORS" /\ retries < MaxRetries
    /\ retried # {} /\ job.processed >= Cardinality(retried)
    /\ item' = [i \in Items |-> IF i \in retried THEN "PENDING" ELSE item[i]]
    /\ job' = [job EXCEPT !.status = "QUEUED", !.processed = @ - Cardinality(retried),
                          !.counts.failed = 0]
    /\ retries' = retries + 1
    /\ \/ messages' = messages + 1 /\ UNCHANGED <<dispatched, faults>>
       \/ Fault /\ dispatched' = FALSE /\ messages' = messages
    /\ UNCHANGED <<kind, skip, attempts, pc, wk, sent, takeovers>>

Fail(w) ==
    /\ pc[w] # "idle" /\ Fault /\ Throw(w)
    /\ UNCHANGED <<kind, skip, rowVars, dispatched, sent, retries, takeovers>>

\* The queue delivers at least once.
Duplicate ==
    /\ Fault /\ messages' = messages + 1
    /\ UNCHANGED <<kind, skip, rowVars, dispatched, pc, wk, sent, retries, takeovers>>

Work(w) ==
    \/ Find(w) \/ ClaimJob(w) \/ ClaimRefused(w) \/ PickItem(w) \/ TakeItem(w)
    \/ Skip(w) \/ UpdateStock(w) \/ ApplyPromotion(w) \/ FinishItem(w)
    \/ RetryItem(w) \/ ReleaseForRetry(w) \/ StopItem(w) \/ StopJob(w)
    \/ ListItems(w) \/ UpdateProgress(w)

Next == \/ \E w \in Workers : Deliver(w) \/ Work(w) \/ Fail(w)
        \/ Duplicate \/ RetryErrors

Spec == Init /\ [][Next]_vars

\* The consumers keep running, and a lock nobody renews gets old while the
\* message that meets it comes back every fifteen seconds.
FairSpec ==
    /\ Spec
    /\ \A w \in Workers : WF_vars(Deliver(w)) /\ WF_vars(Work(w))
                          /\ SF_vars(ClaimJob(w) /\ takeovers' = takeovers)

-----------------------------------------------------------------------------
(* Properties                                                                *)

\* TypeOK: every variable has the type its columns and locals have in the code.
TypeOK ==
    /\ kind \in Kinds /\ skip \subseteq Items /\ sent \subseteq Items
    /\ job \in [status : {"QUEUED", "RUNNING"} \cup Terminal, processed : 0 .. N, counts : Counts]
    /\ item \in [Items -> ItemStatus] /\ attempts \in [Items -> Nat]
    /\ messages \in Nat /\ dispatched \in BOOLEAN
    /\ pc \in [Workers -> Stage] /\ wk \in [Workers -> Local]
    /\ retries \in 0 .. MaxRetries /\ takeovers \in 0 .. MaxTakeovers /\ faults \in 0 .. MaxFaults

\* CompletedIsSettled: when refreshProgress completes a job, every item has its
\* verdict and the counters are those of the items, unless a holder that was
\* overtaken comes back after the user has retried the errors.
CompletedIsSettled ==
    job.status \in Completed /\ (takeovers = 0 \/ retries = 0) =>
        /\ \A i \in Items : item[i] \in Final
        /\ job.counts = Count /\ job.processed = N

\* SuccessIsSent: an item ends in SUCCESS only if Mercado Libre made its change,
\* whichever of two invocations that took it wrote the verdict.
SuccessIsSent == With("SUCCESS") \subseteq sent

\* OneHolder: until a holder is overtaken, at most one invocation works on the job
\* and only while it is RUNNING.
OneHolder ==
    takeovers = 0 => \A w \in Workers : pc[w] \in Inside =>
        job.status = "RUNNING" /\ ~Held(w)

\* JobSettles: a job all of whose messages were sent ends.
JobSettles == job.status \in {"QUEUED", "RUNNING"} /\ dispatched ~> job.status \in Terminal
=============================================================================

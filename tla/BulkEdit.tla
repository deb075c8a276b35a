------------------------------- MODULE BulkEdit -------------------------------
(***************************************************************************)
(* The bulk edit of Tiendanube: a job that sets prices and stock of the      *)
(* variants of a category.  A message of the queue takes a lease on the job, *)
(* takes a batch of items, sends them in one PATCH and stores what it was    *)
(* told of each.  The SQL functions ask for the execution token and most of  *)
(* them for a live lease, none of them for whose lease it is.                *)
(*                                                                          *)
(* A request is one step.  A request that fails and an invocation that dies  *)
(* are the action Fail, which gives the message back.                        *)
(***************************************************************************)
EXTENDS Naturals, FiniteSets

CONSTANTS
    Items, Workers,
    Batch,          \* p_limit of claim_tiendanube_bulk_edit_items
    MaxAttempts,    \* attempts after which an item is not retried
    MaxTokens,      \* bound: executions, the first and the retries of the user
    MaxSlow,        \* bound: leases that expire while somebody is at work
    MaxFaults       \* bound: deaths, failed requests, messages twice or not sent

ASSUME BulkEditAssumption ==
    /\ IsFiniteSet(Items) /\ Items # {}
    /\ Batch \in Nat \ {0} /\ MaxAttempts \in Nat \ {0} /\ MaxTokens \in Nat \ {0}
    /\ MaxSlow \in Nat /\ MaxFaults \in Nat

VARIABLES
    job,            \* row of the job: status, execution token, lease, counters
    item, attempts, \* rows of the items
    age,            \* of processing_started_at, next to the lease and two minutes
    messages,       \* tokens of the messages in the queue, with how many there are
    pc, wk,         \* stage of an invocation and its locals
    applied,        \* variants that show the requested values in Tiendanube
    dispatched,     \* no message that was due failed to be sent
    slow, faults

rowVars == <<job, item, attempts, age>>
vars == <<rowVars, messages, pc, wk, applied, dispatched, slow, faults>>

-----------------------------------------------------------------------------

Tokens == 1 .. MaxTokens
Completed == {"COMPLETED", "COMPLETED_WITH_ERRORS"}
ItemStatus == {"PENDING", "PROCESSING", "SUCCESS", "ERROR"}
AtWork == {"take", "patch", "verify", "finish", "retry", "refresh"}
Job == [status : {"QUEUED", "RUNNING"} \cup Completed, token : Tokens,
        lease : {"none", "live", "past"}, ok : Nat, bad : Nat]
Local == [token : Tokens, items : SUBSET Items, yes : SUBSET Items,
          unsure : SUBSET Items, trying : BOOLEAN]
Blank == [token |-> 1, items |-> {}, yes |-> {}, unsure |-> {}, trying |-> FALSE]

With(status) == {i \in Items : item[i] = status}

Init ==
    /\ job = [status |-> "QUEUED", token |-> 1, lease |-> "none", ok |-> 0, bad |-> 0]
    /\ item = [i \in Items |-> "PENDING"] /\ attempts = [i \in Items |-> 0]
    /\ age = [i \in Items |-> "old"]
    /\ messages = [t \in Tokens |-> IF t = 1 THEN 1 ELSE 0]
    /\ pc = [w \in Workers |-> "idle"] /\ wk = [w \in Workers |-> Blank]
    /\ applied = {} /\ dispatched = TRUE /\ slow = 0 /\ faults = 0

At(w, stage) == pc[w] = stage
Goto(w, stage, local) == /\ pc' = [pc EXCEPT ![w] = stage] /\ wk' = [wk EXCEPT ![w] = local]
                         /\ messages' = messages
Then(w, stage) == Goto(w, stage, wk[w])
Fault == faults < MaxFaults /\ faults' = faults + 1

\* Mutant: nothing follows an invocation that has more to do.
ReturnAlone(w, hasMore) == /\ pc' = [pc EXCEPT ![w] = "idle"] /\ wk' = [wk EXCEPT ![w] = Blank]
                           /\ messages' = messages

\* hasMore sends the message again, as an exception gives it back.
Return(w, hasMore) ==
    /\ pc' = [pc EXCEPT ![w] = "idle"] /\ wk' = [wk EXCEPT ![w] = Blank]
    /\ messages' = [messages EXCEPT ![wk[w].token] = @ + (IF hasMore THEN 1 ELSE 0)]
Throw(w) == Return(w, TRUE)

\* The end of a lease: its items may now get two minutes old.
Left == age' = [i \in Items |-> IF age[i] = "held" THEN "young" ELSE age[i]]

\* What claim_items, finish_items and retry_items ask for.
Leased(w) == job.token = wk[w].token /\ job.status = "RUNNING" /\ job.lease = "live"

-----------------------------------------------------------------------------
(* processNext                                                               *)

Deliver(w) ==
    /\ At(w, "idle")
    /\ \E t \in Tokens :
          /\ messages[t] > 0 /\ messages' = [messages EXCEPT ![t] = @ - 1]
          /\ pc' = [pc EXCEPT ![w] = "find"] /\ wk' = [wk EXCEPT ![w].token = t]
    /\ UNCHANGED <<rowVars, applied, dispatched, slow, faults>>

Find(w) ==
    /\ At(w, "find")
    /\ IF job.token # wk[w].token \/ job.status \in Completed
         THEN Return(w, FALSE) ELSE Then(w, "claim")
    /\ UNCHANGED <<rowVars, applied, dispatched, slow, faults>>

Claimable(w) == /\ job.token = wk[w].token /\ job.status \in {"QUEUED", "RUNNING"}
                /\ job.lease # "live"

ClaimJob(w) ==
    /\ At(w, "claim")
    /\ IF Claimable(w)
         THEN job' = [job EXCEPT !.status = "RUNNING", !.lease = "live"] /\ Then(w, "take")
         ELSE job' = job /\ Return(w, TRUE)
    /\ UNCHANGED <<item, attempts, age, applied, dispatched, slow, faults>>

\* bound: counts stop one above every number they are compared with.
Counted(n) == IF n > MaxAttempts + MaxFaults THEN n ELSE n + 1

\* Items taken more than two minutes ago are free again.
Free == With("PENDING") \cup {i \in With("PROCESSING") : age[i] = "old"}

ClaimItems(w) ==
    /\ At(w, "take")
    /\ \E picked \in SUBSET Free :
         /\ Cardinality(picked) = IF ~Leased(w) THEN 0
              ELSE IF Cardinality(Free) < Batch THEN Cardinality(Free) ELSE Batch
         /\ item' = [i \in Items |-> IF i \in picked THEN "PROCESSING"
                       ELSE IF Leased(w) /\ i \in Free THEN "PENDING" ELSE item[i]]
         /\ attempts' = [i \in Items |-> IF i \in picked THEN Counted(attempts[i]) ELSE attempts[i]]
         /\ age' = [i \in Items |-> IF i \in picked THEN "held" ELSE age[i]]
         /\ IF picked = {} THEN Then(w, "refresh")
            ELSE Goto(w, "patch", [wk[w] EXCEPT !.items = picked])
    /\ UNCHANGED <<job, applied, dispatched, slow, faults>>

\* Finish inside the try, or in its catch where a rejection is final.
Finishing(w, yes, trying) ==
    Goto(w, "finish", [wk[w] EXCEPT !.yes = yes, !.unsure = {}, !.trying = trying])

\* One PATCH: done variants show the new values.  An answer names some of them,
\* a 4xx none; after a timeout nobody knows.
Patch(w) ==
    /\ At(w, "patch")
    /\ \E done \in SUBSET wk[w].items :
         /\ applied' = applied \cup done
         /\ \/ \E unsure \in SUBSET wk[w].items :
                 Goto(w, "verify", [wk[w] EXCEPT !.yes = done \ unsure, !.unsure = unsure])
            \/ done = {} /\ Finishing(w, {}, FALSE)
            \/ Then(w, "retry")
    /\ UNCHANGED <<rowVars, dispatched, slow, faults>>

\* Mutant: a variant the answer does not name is taken for done.
VerifyNothing(w) ==
    /\ At(w, "verify") /\ Finishing(w, wk[w].yes \cup wk[w].unsure, TRUE)
    /\ UNCHANGED <<rowVars, applied, dispatched, slow, faults>>

\* A read that fails rejects or retries the whole batch.
Verify(w) ==
    /\ At(w, "verify")
    /\ \/ Finishing(w, wk[w].yes \cup (wk[w].unsure \cap applied), TRUE)
       \/ wk[w].unsure # {} /\ (Finishing(w, {}, FALSE) \/ Then(w, "retry"))
    /\ UNCHANGED <<rowVars, applied, dispatched, slow, faults>>

\* Mutant: the verdict of a batch is written whatever became of its items.
VerdictAnyway(w, i) == i \in wk[w].items
Verdict(w, i) == i \in wk[w].items /\ item[i] = "PROCESSING"

Judged(w) == [i \in Items |-> IF ~Verdict(w, i) THEN item[i]
                 ELSE IF i \in wk[w].yes THEN "SUCCESS" ELSE "ERROR"]

FinishItems(w) ==
    /\ At(w, "finish")
    /\ IF Leased(w)
         THEN item' = Judged(w) /\ Then(w, "refresh")
         ELSE /\ item' = item
              /\ IF wk[w].trying THEN Then(w, "retry") ELSE Throw(w)
    /\ UNCHANGED <<job, attempts, age, applied, dispatched, slow, faults>>

\* The request of the try fails, stored or not: its catch retries the batch.
FinishFails(w) ==
    /\ At(w, "finish") /\ wk[w].trying /\ Fault /\ Then(w, "retry")
    /\ item' \in {item, IF Leased(w) THEN Judged(w) ELSE item}
    /\ UNCHANGED <<job, attempts, age, applied, dispatched, slow>>

\* Mutant: the attempts are not counted.
ExhaustedNever(i) == FALSE
Exhausted(i) == attempts[i] >= MaxAttempts

RetryItems(w) ==
    /\ At(w, "retry")
    /\ IF Leased(w)
         THEN /\ item' = [i \in Items |-> IF i \notin wk[w].items \/ item[i] # "PROCESSING"
                            THEN item[i] ELSE IF Exhausted(i) THEN "ERROR" ELSE "PENDING"]
              /\ job' = [job EXCEPT !.status = "QUEUED", !.lease = "none"] /\ Left
         ELSE UNCHANGED <<job, item, age>>
    /\ Return(w, TRUE)
    /\ UNCHANGED <<attempts, applied, dispatched, slow, faults>>

\* Mutant: items somebody is working on do not keep the job open.
OpenIfPending == With("PENDING") # {}
Open == With("PENDING") \cup With("PROCESSING") # {}

StatusOf(bad) == IF Open THEN "QUEUED"
    ELSE IF bad > 0 THEN "COMPLETED_WITH_ERRORS" ELSE "COMPLETED"

\* refresh asks for the token and RUNNING, not for a live lease.
Refresh(w) ==
    LET ok == Cardinality(With("SUCCESS"))
        bad == Cardinality(With("ERROR"))
    IN
    /\ At(w, "refresh")
    /\ IF job.token = wk[w].token /\ job.status = "RUNNING"
         THEN /\ job' = [job EXCEPT !.ok = ok, !.bad = bad, !.lease = "none",
                           !.status = StatusOf(bad)]
              /\ Left /\ Return(w, Open)
         ELSE UNCHANGED <<job, age>> /\ Throw(w)
    /\ UNCHANGED <<item, attempts, applied, dispatched, slow, faults>>

-----------------------------------------------------------------------------
(* The user, time and the platform                                           *)

Retried == {i \in With("ERROR") : ~Exhausted(i)}

RetryFailures ==
    /\ job.status = "COMPLETED_WITH_ERRORS" /\ job.token < MaxTokens /\ Retried # {}
    /\ item' = [i \in Items |-> IF i \in Retried THEN "PENDING" ELSE item[i]]
    /\ job' = [job EXCEPT !.status = "QUEUED", !.token = @ + 1, !.lease = "none", !.bad = 0]
    /\ Left
    /\ \/ messages' = [messages EXCEPT ![job.token + 1] = 1] /\ UNCHANGED <<dispatched, faults>>
       \/ Fault /\ dispatched' = FALSE /\ messages' = messages
    /\ UNCHANGED <<attempts, pc, wk, applied, slow>>

LeaseExpires ==
    /\ job.lease = "live" /\ job' = [job EXCEPT !.lease = "past"] /\ Left
    /\ IF \E w \in Workers : pc[w] \in AtWork
         THEN slow < MaxSlow /\ slow' = slow + 1 ELSE slow' = slow
    /\ UNCHANGED <<item, attempts, messages, pc, wk, applied, dispatched, faults>>

\* An item is taken after its lease began: it gets old after its lease.
GetsOld(i) ==
    /\ age[i] = "young" /\ age' = [age EXCEPT ![i] = "old"]
    /\ UNCHANGED <<job, item, attempts, messages, pc, wk, applied, dispatched, slow, faults>>

Fail(w) ==
    /\ pc[w] # "idle" /\ Fault /\ Throw(w)
    /\ UNCHANGED <<rowVars, applied, dispatched, slow>>

Duplicate ==
    /\ Fault /\ messages' = [messages EXCEPT ![job.token] = @ + 1]
    /\ UNCHANGED <<rowVars, pc, wk, applied, dispatched, slow>>

Work(w) ==
    \/ Find(w) \/ ClaimJob(w) \/ ClaimItems(w) \/ Patch(w) \/ Verify(w)
    \/ FinishItems(w) \/ RetryItems(w) \/ Refresh(w)

Next == \/ \E w \in Workers : Deliver(w) \/ Work(w) \/ FinishFails(w) \/ Fail(w)
        \/ \E i \in Items : GetsOld(i)
        \/ RetryFailures \/ LeaseExpires \/ Duplicate

Spec == Init /\ [][Next]_vars

\* Consumers run on, messages are delivered, and time passes.
FairSpec == /\ Spec /\ WF_vars(LeaseExpires)
            /\ \A i \in Items : WF_vars(GetsOld(i))
            /\ \A w \in Workers : WF_vars(Deliver(w)) /\ WF_vars(Work(w))

-----------------------------------------------------------------------------
(* Properties                                                                *)

\* TypeOK: every variable has the type its columns and locals have in the code.
TypeOK ==
    /\ job \in Job /\ item \in [Items -> ItemStatus] /\ attempts \in [Items -> Nat]
    /\ age \in [Items -> {"held", "young", "old"}] /\ messages \in [Tokens -> Nat]
    /\ pc \in [Workers -> {"idle", "find", "claim"} \cup AtWork] /\ wk \in [Workers -> Local]
    /\ applied \subseteq Items /\ dispatched \in BOOLEAN
    /\ slow \in 0 .. MaxSlow /\ faults \in 0 .. MaxFaults

\* CompletedIsSettled: in a completed job every item has its verdict and the
\* counters are those of the items, however late a holder comes back.
CompletedIsSettled ==
    job.status \in Completed =>
        /\ With("PENDING") \cup With("PROCESSING") = {}
        /\ job.ok = Cardinality(With("SUCCESS")) /\ job.bad = Cardinality(With("ERROR"))

\* SuccessIsApplied: SUCCESS is only reported of variants that show the change,
\* whichever invocation reported it and whatever the answer left open.
SuccessIsApplied == With("SUCCESS") \subseteq applied

\* AttemptsAreBounded: while no holder outlives its lease, an item is not taken
\* more often than it may be tried, plus once for every fault.
AttemptsAreBounded == slow = 0 => \A i \in Items : attempts[i] <= MaxAttempts + faults

\* VerdictStands: a verdict is only taken back by the retry of the user, and only
\* an error; no late holder and no repeated batch overwrites it.
VerdictStands ==
    [][\A i \in Items : item[i] \in {"SUCCESS", "ERROR"} /\ item'[i] # item[i] =>
          item[i] = "ERROR" /\ job'.token > job.token]_vars

\* JobSettles: a job all of whose messages were sent ends, whatever fails or is
\* delivered twice; once a holder outlived its lease, it and its successor may go
\* on freeing each other's leases, so such behaviours are left out.
JobSettles == job.status \in {"QUEUED", "RUNNING"} /\ dispatched
                 ~> job.status \in Completed \/ slow > 0
=============================================================================

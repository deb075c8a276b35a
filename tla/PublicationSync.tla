--------------------------- MODULE PublicationSync ---------------------------
(***************************************************************************)
(* The full synchronisation of a seller's publications: the job row, the   *)
(* queue that carries it forward ten items at a time, the snapshot of       *)
(* parents it writes, and what goes on meanwhile: the seller changes the    *)
(* catalogue, the webhook saves single publications, the user cancels and   *)
(* starts again.                                                            *)
(*                                                                          *)
(* A request to Supabase or to Mercado Libre is one step; between two of    *)
(* them any other actor can act.  Times are compared with one another only  *)
(* through started_at, so the clock counts the moments started_at is set.   *)
(***************************************************************************)
EXTENDS Naturals, FiniteSets

CONSTANTS
    Items,         \* publications of the seller, now or later
    Parents,       \* external keys: an item of its own or a family
    ParentOf,      \* external key each publication is stored under
    Workers,       \* invocations of the queue consumer
    Clients,       \* requests that start a synchronisation
    MaxJobs,       \* bound: jobs created
    PageSize,      \* PUBLICATION_SCAN_SIZE
    BatchSize,     \* PUBLICATION_SYNC_BATCH_SIZE
    MaxRetries,    \* MAX_CONSECUTIVE_RETRIES
    FaultKinds,    \* which of AllFaults may happen
    MaxFaults,     \* bound: faults in a behaviour
    MaxChanges,    \* bound: publications added or withdrawn
    MaxNotices     \* bound: publications the webhook saves

AllFaults == {"error", "fatal", "item", "lost", "unwritten", "unsent", "crash", "again"}

ASSUME SetsAssumption ==
    /\ IsFiniteSet(Items) /\ IsFiniteSet(Workers) /\ IsFiniteSet(Clients)
    /\ ParentOf \in [Items -> Parents]
ASSUME BoundsAssumption ==
    /\ PageSize \in Nat \ {0} /\ BatchSize \in Nat \ {0} /\ MaxRetries \in Nat
    /\ MaxJobs \in Nat /\ MaxFaults \in Nat /\ MaxChanges \in Nat /\ MaxNotices \in Nat
    /\ FaultKinds \subseteq AllFaults

VARIABLES
    catalogue,     \* what Mercado Libre lists for the seller
    cursor,        \* what the scroll of each job has still to return
    job, last,     \* rows of mercadolibre_sync_jobs and their number
    count,         \* total a starting request has read, or NoCount
    queue,         \* jobs with a message waiting
    pc, wk,        \* stage of each invocation and its local variables
    stored,        \* external keys with a row in mercadolibre_products
    seen,          \* last_full_sync_id of a row, 0 for null
    stamp,         \* last_synced_at of a row
    notice,        \* publication the webhook has read and not yet saved
    clock,
    scanned,       \* history: listed since the scan of a job began
    faults, changes, notices

rowVars  == <<job, last>>
snapVars == <<stored, seen, stamp>>
workVars == <<pc, wk>>
sellerVars == <<catalogue, changes>>
hookVars == <<notice, notices>>
vars == <<catalogue, cursor, job, last, count, queue, pc, wk, stored, seen, stamp,
          notice, clock, scanned, faults, changes, notices>>

-----------------------------------------------------------------------------

Jobs == 1 .. MaxJobs
NoCount == Cardinality(Items) + 1     \* larger than any total
NoNotice == [parent |-> "none", at |-> 0]
Active == {"PENDING", "RUNNING"}
Status == Active \cup {"NEW", "COMPLETED", "FAILED", "CANCELLED"}

\* failed: failed_items > 0 or errors_count > 0; saved: products_saved > 0.
Row == [status: Status, started: Nat, scanStarted: BOOLEAN, scroll: BOOLEAN,
        buffer: SUBSET Items, total: Nat, processed: Nat,
        failed: BOOLEAN, saved: BOOLEAN, retries: Nat]

NewRow(total) ==
    [status |-> "NEW", started |-> 0, scanStarted |-> FALSE, scroll |-> FALSE, buffer |-> {},
     total |-> total, processed |-> 0, failed |-> FALSE, saved |-> FALSE, retries |-> 0]

Stage == {"idle", "claim", "scan", "save", "send", "finish", "complete", "handle"}
Inside == {"scan", "save", "finish", "complete", "handle"}
ErrorClass == {"none", "retryable", "fatal", "conflict"}

\* row: the job as the claim returned it, with the page ensureBuffer adds to it.
Local == [job: 0 .. MaxJobs, unstarted: BOOLEAN, row: Row, batch: SUBSET Items,
          bad: SUBSET Items, todo: SUBSET Parents, open: SUBSET Parents,
          at: Nat, error: ErrorClass]
Blank == [job |-> 0, unstarted |-> FALSE, row |-> NewRow(0), batch |-> {},
          bad |-> {}, todo |-> {}, open |-> {}, at |-> 0, error |-> "none"]

ParentsOf(S) == {ParentOf[i] : i \in S}
SmallerOf(a, b) == IF a < b THEN a ELSE b
Portions(S, n) == {P \in SUBSET S : Cardinality(P) = SmallerOf(n, Cardinality(S))}

Fault(kind) == /\ kind \in FaultKinds /\ faults < MaxFaults
               /\ faults' = faults + 1
NoFault == faults' = faults

Init ==
    /\ catalogue \in SUBSET Items /\ stored \in SUBSET Parents
    /\ cursor = [j \in Jobs |-> {}]
    /\ job = [j \in Jobs |-> NewRow(0)] /\ last = 0
    /\ count = [c \in Clients |-> NoCount] /\ queue = {}
    /\ pc = [w \in Workers |-> "idle"] /\ wk = [w \in Workers |-> Blank]
    /\ seen = [p \in Parents |-> 0] /\ stamp = [p \in Parents |-> 0]
    /\ notice = NoNotice /\ clock = 0
    /\ scanned = [j \in Jobs |-> {}] 
    /\ faults = 0 /\ changes = 0 /\ notices = 0

-----------------------------------------------------------------------------
(* The seller, the webhook and the user                                      *)

IsActive(j) == job[j].status \in Active

Publish(i) ==
    /\ i \notin catalogue /\ changes < MaxChanges
    /\ catalogue' = catalogue \cup {i} /\ changes' = changes + 1
    /\ UNCHANGED <<cursor, rowVars, count, queue, workVars, snapVars, hookVars,
                   clock, scanned, faults>>

Withdraw(i) ==
    /\ i \in catalogue /\ changes < MaxChanges
    /\ catalogue' = catalogue \ {i} /\ changes' = changes + 1
    /\ scanned' = [j \in Jobs |-> scanned[j] \ {i}]
    /\ UNCHANGED <<cursor, rowVars, count, queue, workVars, snapVars, hookVars,
                   clock, faults>>

\* Mutant: the upsert writes every column and clears last_full_sync_id.
UpsertedWhole(p, at) ==
    /\ stored' = stored \cup {p}
    /\ stamp' = [stamp EXCEPT ![p] = at]
    /\ seen' = [seen EXCEPT ![p] = 0]

\* A row that is written keeps last_full_sync_id: the upsert does not name it.
Upserted(p, at) ==
    /\ stored' = stored \cup {p}
    /\ stamp' = [stamp EXCEPT ![p] = at]
    /\ seen' = seen

\* syncItem reads the publication and takes its syncedAt before it saves.
NoticeRead(i) ==
    /\ notice = NoNotice /\ notices < MaxNotices /\ i \in catalogue
    /\ notice' = [parent |-> ParentOf[i], at |-> clock] /\ notices' = notices + 1
    /\ UNCHANGED <<sellerVars, cursor, rowVars, count, queue, workVars, snapVars,
                   clock, scanned, faults>>

NoticeSaved ==
    /\ notice # NoNotice /\ notice' = NoNotice
    /\ Upserted(notice.parent, notice.at)
    /\ UNCHANGED <<sellerVars, cursor, rowVars, count, queue, workVars, notices,
                   clock, scanned, faults>>

\* The controller sends a message for a PENDING job, or dies before it does.
Announce(j, row) ==
    \/ /\ queue' = IF row.status = "PENDING" THEN queue \cup {j} ELSE queue
       /\ NoFault
    \/ /\ queue' = queue /\ Fault("unsent")

StartActive ==
    /\ \E j \in Jobs : IsActive(j) /\ Announce(j, job[j])
    /\ UNCHANGED <<sellerVars, cursor, rowVars, count, workVars, snapVars, hookVars,
                   clock, scanned>>

CountItems(c) ==
    /\ count[c] = NoCount /\ \A j \in Jobs : ~IsActive(j)
    /\ last < MaxJobs
    /\ count' = [count EXCEPT ![c] = Cardinality(catalogue)]
    /\ UNCHANGED <<sellerVars, cursor, rowVars, queue, workVars, snapVars, hookVars,
                   clock, scanned, faults>>

\* One active job per seller: whoever comes second continues with the first.
CreateJob(c) ==
    /\ count[c] # NoCount
    /\ count' = [count EXCEPT ![c] = NoCount]
    /\ \/ /\ \A j \in Jobs : ~IsActive(j)
          /\ last < MaxJobs /\ last' = last + 1
          /\ LET row == [NewRow(count[c]) EXCEPT !.status = "PENDING"]
             IN  job' = [job EXCEPT ![last'] = row] /\ Announce(last', row)
       \/ /\ \E j \in Jobs : IsActive(j) /\ Announce(j, job[j])
          /\ UNCHANGED rowVars
    /\ UNCHANGED <<sellerVars, cursor, workVars, snapVars, hookVars, clock, scanned>>

Cancel(j) ==
    /\ IsActive(j)
    /\ job' = [job EXCEPT ![j].status = "CANCELLED"]
    /\ UNCHANGED <<sellerVars, cursor, last, count, queue, workVars, snapVars, hookVars,
                   clock, scanned, faults>>

-----------------------------------------------------------------------------
(* The consumer: a message is delivered, acknowledged or given back          *)

Goto(w, stage, local) ==
    /\ pc' = [pc EXCEPT ![w] = stage]
    /\ wk' = [wk EXCEPT ![w] = local]

Idle(w) == Goto(w, "idle", Blank)
Acknowledge(w) == Idle(w) /\ queue' = queue
\* Mutant: every error is swallowed, not only a conflict.
GiveBackNever(w) == Idle(w) /\ queue' = queue
GiveBack(w) == Idle(w) /\ queue' = queue \cup {wk[w].job}

\* consume swallows a ConflictException; any other error is given back.
Throw(w, error) == /\ Goto(w, "handle", [wk[w] EXCEPT !.error = error])
                   /\ queue' = queue

Deliver(w) ==
    /\ pc[w] = "idle"
    /\ \E j \in queue :
         /\ \/ queue' = queue \ {j} /\ NoFault
            \/ queue' = queue /\ Fault("again")
         /\ IF IsActive(j)
              THEN Goto(w, "claim", [Blank EXCEPT !.job = j, !.unstarted = (job[j].started = 0)])
              ELSE Idle(w)
    /\ UNCHANGED <<sellerVars, cursor, rowVars, count, snapVars, hookVars, clock, scanned>>

\* started_at is written if the row read before the claim had none.
Claimed(w) ==
    LET j == wk[w].job IN
    /\ clock' = IF wk[w].unstarted THEN clock + 1 ELSE clock
    /\ job' = [job EXCEPT ![j].status = "RUNNING",
                          ![j].started = IF wk[w].unstarted THEN clock' ELSE @]

\* Mutant: the claim does not ask for PENDING.
ClaimAnyActive(w) ==
    /\ pc[w] = "claim"
    /\ \/ /\ IsActive(wk[w].job) /\ Claimed(w)
          /\ Goto(w, "scan", [wk[w] EXCEPT !.row = job'[wk[w].job]])
          /\ queue' = queue /\ NoFault
       \/ /\ ~IsActive(wk[w].job) /\ Acknowledge(w)
          /\ NoFault /\ UNCHANGED <<job, clock>>
    /\ UNCHANGED <<sellerVars, cursor, last, count, snapVars, hookVars, scanned>>

Claim(w) ==
    /\ pc[w] = "claim"
    /\ \/ /\ job[wk[w].job].status = "PENDING" /\ Claimed(w)
          /\ \/ /\ Goto(w, "scan", [wk[w] EXCEPT !.row = job'[wk[w].job]])
                /\ queue' = queue /\ NoFault
             \/ GiveBack(w) /\ Fault("lost")
       \/ /\ job[wk[w].job].status # "PENDING" /\ Acknowledge(w)
          /\ NoFault /\ UNCHANGED <<job, clock>>
    /\ UNCHANGED <<sellerVars, cursor, last, count, snapVars, hookVars, scanned>>

-----------------------------------------------------------------------------
(* A batch: scan, save, checkpoint                                           *)

row(w) == wk[w].row

\* Mercado Libre keeps the position: the same scroll id returns the next page.
FetchPage(w) ==
    /\ pc[w] = "scan" /\ row(w).buffer = {}
    /\ row(w).scanStarted => row(w).scroll
    /\ LET j == wk[w].job
           rest == IF row(w).scanStarted THEN cursor[j] ELSE catalogue
       IN  /\ \E page \in Portions(rest, PageSize) :
                /\ cursor' = [cursor EXCEPT ![j] = rest \ page]
                /\ Goto(w, "scan", [wk[w] EXCEPT !.row.scanStarted = TRUE,
                                                 !.row.scroll = (page # {}),
                                                 !.row.buffer = page])
           /\ scanned' = IF row(w).scanStarted THEN scanned
                                               ELSE [scanned EXCEPT ![j] = catalogue]
    /\ UNCHANGED <<catalogue, changes, rowVars, count, queue, snapVars, hookVars,
                   clock, faults>>

ScanEnded(w) ==
    /\ pc[w] = "scan" /\ row(w).buffer = {}
    /\ row(w).scanStarted /\ ~row(w).scroll
    /\ Goto(w, "finish", wk[w])
    /\ UNCHANGED <<sellerVars, cursor, rowVars, count, queue, snapVars, hookVars,
                   clock, scanned, faults>>

\* The details of a batch: bad is what one error each keeps from being saved.
ReadBatch(w) ==
    /\ pc[w] = "scan"
    /\ \E batch \in Portions(row(w).buffer, BatchSize) \ {{}}, bad \in SUBSET Items :
         /\ bad \subseteq batch
         /\ IF bad = {} THEN NoFault ELSE Fault("item")
         /\ Goto(w, "save", [wk[w] EXCEPT !.batch = batch, !.bad = bad,
                                          !.todo = ParentsOf(batch \ bad), !.at = clock])
    /\ UNCHANGED <<sellerVars, cursor, rowVars, count, queue, snapVars, hookVars,
                   clock, scanned>>

\* The writer saves a parent in several requests and marks it with the last one.
SaveParent(w) ==
    /\ pc[w] = "save"
    /\ \E p \in wk[w].todo :
         /\ Upserted(p, wk[w].at)
         /\ wk' = [wk EXCEPT ![w].todo = @ \ {p}, ![w].open = @ \cup {p}]
    /\ UNCHANGED <<sellerVars, cursor, rowVars, count, queue, pc, hookVars,
                   clock, scanned, faults>>

MarkSeen(w) ==
    /\ pc[w] = "save"
    /\ \E p \in wk[w].open :
         /\ wk' = [wk EXCEPT ![w].open = @ \ {p}]
         /\ IF p \in stored
              THEN /\ seen' = [seen EXCEPT ![p] = wk[w].job]
                   /\ stamp' = [stamp EXCEPT ![p] = clock]
              ELSE UNCHANGED <<seen, stamp>>
    /\ UNCHANGED <<sellerVars, cursor, rowVars, count, queue, pc, stored, hookVars,
                   clock, scanned, faults>>

\* Any request of the invocation may fail, and leave what was saved before it.
StepFails(w) ==
    /\ pc[w] \in {"scan", "save", "finish"}
    /\ \/ Throw(w, "retryable") /\ Fault("error")
       \/ Throw(w, "fatal") /\ Fault("fatal")
    /\ UNCHANGED <<sellerVars, cursor, rowVars, count, snapVars, hookVars, clock, scanned>>

Progress(w) ==
    [job[wk[w].job] EXCEPT
        !.scanStarted = TRUE, !.scroll = row(w).scroll,
        !.buffer = row(w).buffer \ wk[w].batch,
        !.processed = row(w).processed + Cardinality(wk[w].batch),
        !.failed = row(w).failed \/ wk[w].bad # {},
        !.saved = row(w).saved \/ wk[w].batch # wk[w].bad,
        !.retries = 0]

FirstBatchFailed(w) ==
    /\ row(w).processed = 0
    /\ Cardinality(wk[w].batch) = BatchSize /\ wk[w].bad = wk[w].batch

Saved(w) == pc[w] = "save" /\ wk[w].todo = {} /\ wk[w].open = {}
Running(w) == job[wk[w].job].status = "RUNNING"

\* An update of a row that is not RUNNING any more changes nothing.
NotRunning(w) ==
    /\ ~Running(w) /\ Throw(w, "conflict") /\ NoFault /\ UNCHANGED rowVars

Checkpoint(w) ==
    /\ Saved(w)
    /\ \/ /\ Running(w) /\ last' = last
          /\ job' = [job EXCEPT ![wk[w].job] =
                [Progress(w) EXCEPT !.status =
                    IF FirstBatchFailed(w) THEN "FAILED" ELSE "PENDING"]]
          /\ \/ /\ queue' = queue /\ NoFault
                /\ IF FirstBatchFailed(w) THEN Idle(w) ELSE Goto(w, "send", wk[w])
             \/ Throw(w, "retryable") /\ Fault("lost")
       \/ NotRunning(w)
    /\ UNCHANGED <<sellerVars, cursor, count, snapVars, hookVars, clock, scanned>>

\* If the message of the next batch cannot be sent, this one is given back.
SendNext(w) ==
    /\ pc[w] = "send" /\ GiveBack(w)
    /\ UNCHANGED <<sellerVars, cursor, rowVars, count, snapVars, hookVars,
                   clock, scanned, faults>>

-----------------------------------------------------------------------------
(* The end of the scan                                                       *)

\* Mutant: processed and total items are not compared.
CompletionFailsLoosely(r) == r.failed \/ (r.total > 0 /\ ~r.saved)

CompletionFails(r) ==
    \/ r.processed # r.total
    \/ r.failed
    \/ r.total > 0 /\ ~r.saved

SetStatus(j, new) == job' = [job EXCEPT ![j].status = new] /\ last' = last

\* Mutant: a job that must not clean up is left for another try.
RefuseCompletionAgain(w) ==
    /\ pc[w] = "finish" /\ CompletionFails(row(w))
    /\ \/ Running(w) /\ SetStatus(wk[w].job, "PENDING") /\ GiveBack(w) /\ NoFault
       \/ NotRunning(w)
    /\ UNCHANGED <<sellerVars, cursor, count, snapVars, hookVars, clock, scanned>>

RefuseCompletion(w) ==
    /\ pc[w] = "finish" /\ CompletionFails(row(w))
    /\ \/ /\ Running(w) /\ SetStatus(wk[w].job, "FAILED")
          /\ \/ Acknowledge(w) /\ NoFault
             \/ Throw(w, "retryable") /\ Fault("lost")
       \/ NotRunning(w)
    /\ UNCHANGED <<sellerVars, cursor, count, snapVars, hookVars, clock, scanned>>

\* Mutant: the age of the row does not protect it.
NotSeenOfAnyAge(w) == {p \in stored : seen[p] # wk[w].job}

\* deleteNotSeenInFullSync
NotSeen(w) == {p \in stored : stamp[p] < row(w).started /\ seen[p] # wk[w].job}

CleanUp(w) ==
    /\ pc[w] = "finish" /\ ~CompletionFails(row(w))
    /\ stored' = stored \ NotSeen(w)
    /\ seen' = [p \in Parents |-> IF p \in NotSeen(w) THEN 0 ELSE seen[p]]
    /\ stamp' = [p \in Parents |-> IF p \in NotSeen(w) THEN 0 ELSE stamp[p]]
    /\ \/ Goto(w, "complete", wk[w]) /\ queue' = queue /\ NoFault
       \/ Throw(w, "retryable") /\ Fault("lost")
    /\ UNCHANGED <<sellerVars, cursor, rowVars, count, hookVars, clock, scanned>>

\* An error here is thrown on as it is: the job stays as the update left it.
Complete(w) ==
    /\ pc[w] = "complete"
    /\ \/ /\ Running(w) /\ SetStatus(wk[w].job, "COMPLETED")
          /\ \/ Acknowledge(w) /\ NoFault
             \/ GiveBack(w) /\ Fault("lost")
       \/ Running(w) /\ GiveBack(w) /\ Fault("unwritten") /\ UNCHANGED rowVars
       \/ ~Running(w) /\ Acknowledge(w) /\ NoFault /\ UNCHANGED rowVars
    /\ UNCHANGED <<sellerVars, cursor, count, snapVars, hookVars, clock, scanned>>

-----------------------------------------------------------------------------
(* handleClaimedError                                                        *)

AfterError(w) ==
    IF wk[w].error = "retryable" /\ row(w).retries < MaxRetries
      THEN [job[wk[w].job] EXCEPT !.status = "PENDING", !.retries = row(w).retries + 1]
      ELSE [job[wk[w].job] EXCEPT !.status = "FAILED"]

\* The first error is thrown on; a conflict in its place is swallowed.
HandleError(w) ==
    /\ pc[w] = "handle"
    /\ \/ /\ Running(w) /\ last' = last
          /\ job' = [job EXCEPT ![wk[w].job] = AfterError(w)]
          /\ IF wk[w].error = "conflict" THEN Acknowledge(w) ELSE GiveBack(w)
          /\ NoFault
       \/ Running(w) /\ GiveBack(w) /\ Fault("unwritten") /\ UNCHANGED rowVars
       \/ ~Running(w) /\ Acknowledge(w) /\ NoFault /\ UNCHANGED rowVars
    /\ UNCHANGED <<sellerVars, cursor, count, snapVars, hookVars, clock, scanned>>

\* The function is killed: the queue delivers its message again.
Crash(w) ==
    /\ pc[w] # "idle" /\ Fault("crash") /\ GiveBack(w)
    /\ UNCHANGED <<sellerVars, cursor, rowVars, count, snapVars, hookVars, clock, scanned>>

-----------------------------------------------------------------------------

Work(w) ==
    \/ Claim(w) \/ FetchPage(w) \/ ScanEnded(w) \/ ReadBatch(w) \/ SaveParent(w) \/ MarkSeen(w)
    \/ Checkpoint(w) \/ SendNext(w) \/ RefuseCompletion(w) \/ CleanUp(w) \/ Complete(w)
    \/ HandleError(w)

Next ==
    \/ \E i \in Items : Publish(i) \/ Withdraw(i) \/ NoticeRead(i)
    \/ NoticeSaved
    \/ StartActive
    \/ \E c \in Clients : CountItems(c) \/ CreateJob(c)
    \/ \E j \in Jobs : Cancel(j)
    \/ \E w \in Workers : Deliver(w) \/ Work(w) \/ StepFails(w) \/ Crash(w)

Spec == Init /\ [][Next]_vars

\* A function that is not killed runs on, and the queue delivers what it holds.
FairSpec == Spec /\ \A w \in Workers : WF_vars(Work(w)) /\ WF_vars(Deliver(w))

-----------------------------------------------------------------------------
(* Properties                                                                *)

\* TypeOK: every variable has the type its columns and locals have in the code.
TypeOK ==
    /\ catalogue \subseteq Items /\ cursor \in [Jobs -> SUBSET Items]
    /\ job \in [Jobs -> Row] /\ last \in 0 .. MaxJobs
    /\ count \in [Clients -> 0 .. NoCount] /\ queue \subseteq Jobs
    /\ pc \in [Workers -> Stage] /\ wk \in [Workers -> Local]
    /\ stored \subseteq Parents /\ seen \in [Parents -> 0 .. MaxJobs]
    /\ stamp \in [Parents -> Nat] /\ clock \in Nat
    /\ notice \in [parent : Parents, at : Nat] \cup {NoNotice}
    /\ scanned \in [Jobs -> SUBSET Items]
    /\ faults \in 0 .. MaxFaults /\ changes \in 0 .. MaxChanges /\ notices \in 0 .. MaxNotices

\* KeepsListed: the clean-up deletes no publication that has been listed ever
\* since the scan of its job began, whoever else saves or marks rows meanwhile.
KeepsListed ==
    [][\A w \in Workers : pc[w] = "finish" /\ pc'[w] # "finish" =>
          (stored \ stored') \cap ParentsOf(scanned[wk[w].job]) = {}]_vars

\* CompletedIsExact: while the catalogue does not change, the snapshot of a
\* completed job has a row for what is listed and for nothing else.
CompletedIsExact ==
    last > 0 /\ job[last].status = "COMPLETED" =>
        stored = ParentsOf(catalogue)

\* CompletedIsWhole: after a completed job nothing it scanned and that is still
\* listed lacks a row.
CompletedIsWhole ==
    last > 0 /\ job[last].status = "COMPLETED" => ParentsOf(scanned[last]) \subseteq stored

\* An invocation that works on a job a later one has replaced.
Stale(w) == pc[w] \in Inside /\ wk[w].job # last

\* Orderly: what CompletedIsExact and CompletedIsWhole ask of the schedule.  Of the
\* invocations of earlier jobs at most one is still at work, and nobody who read the
\* job before it was started is about to claim it after that.
Orderly ==
    /\ \A v, w \in Workers : Stale(v) /\ Stale(w) => v = w
    /\ \A w \in Workers : pc[w] = "claim" /\ wk[w].unstarted /\ wk[w].job = last =>
          job[last].started = 0

WorksOn(w, j) == wk[w].job = j /\ pc[w] \in Inside

\* OneHolder: two invocations never work on one running job.
OneHolder ==
    \A j \in Jobs : job[j].status = "RUNNING" =>
        \A v, w \in Workers : WorksOn(v, j) /\ WorksOn(w, j) => v = w

\* ActiveIsDriven: an active job always has an invocation or a message that will
\* carry it on; no conflict, error or duplicate swallows the last one.
ActiveIsDriven ==
    \A j \in Jobs :
        /\ job[j].status = "RUNNING" => \E w \in Workers : WorksOn(w, j)
        /\ job[j].status = "PENDING" =>
              \/ j \in queue
              \/ \E w \in Workers : wk[w].job = j /\ pc[w] \in {"claim", "send"}

\* JobSettles: a job that is started ends.
JobSettles == \A j \in Jobs : IsActive(j) ~> ~IsActive(j)

-----------------------------------------------------------------------------
(* The inductive invariant behind OneHolder and ActiveIsDriven               *)

\* An invocation at work has taken the message of a job.
Busy == \A w \in Workers : pc[w] # "idle" => wk[w].job \in Jobs

\* Jobs are created in the order of their numbers.
Numbered == \A j \in Jobs : j > last => job[j].status = "NEW"

\* Nobody works on a job that waits to be claimed.
Unheld == \A j \in Jobs : job[j].status \in {"NEW", "PENDING"} =>
              \A w \in Workers : ~WorksOn(w, j)

HolderInv == TypeOK /\ Busy /\ Numbered /\ Unheld /\ OneHolder

\* A conflict says that the job has ended.
ConflictIsFinal ==
    \A w \in Workers : pc[w] = "handle" /\ wk[w].error = "conflict" =>
        job[wk[w].job].status \notin {"NEW", "PENDING", "RUNNING"}

DrivenInv == HolderInv /\ ConflictIsFinal /\ ActiveIsDriven
=============================================================================

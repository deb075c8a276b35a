------------------------ MODULE PublicationSyncProofs ------------------------
(***************************************************************************)
(* Proofs about PublicationSync, for every catalogue, every number of      *)
(* invocations, requests and jobs, and every bound.                        *)
(***************************************************************************)
EXTENDS PublicationSync, FiniteSetTheorems, TLAPS

-----------------------------------------------------------------------------
(* Type correctness *)

\* Publications are counted by natural numbers, up to all of them.
LEMMA CountType ==
    ASSUME NEW S \in SUBSET Items
    PROVE  Cardinality(S) \in Nat /\ Cardinality(S) < NoCount /\ NoCount \in Nat
BY SetsAssumption, FS_Subset, FS_CardinalityType DEF NoCount

\* A new row is a row, whatever its total.
LEMMA NewRowType == \A n \in Nat : NewRow(n) \in Row
BY DEF NewRow, Row, Status, Active

\* The empty local state is a local state.
LEMMA BlankType == Blank \in Local
BY NewRowType, BoundsAssumption DEF Blank, Local, ErrorClass

\* A step of an invocation leaves the types of its stage and locals alone when
\* what it writes has them.
LEMMA GotoType ==
    ASSUME TypeOK, NEW w \in Workers, NEW stage \in Stage, NEW local \in Local,
           Goto(w, stage, local)
    PROVE  pc' \in [Workers -> Stage] /\ wk' \in [Workers -> Local]
BY DEF TypeOK, Goto

\* So do the ends of an invocation, which also write the queue.
LEMMA EndType ==
    ASSUME TypeOK, Busy, NEW w \in Workers, pc[w] # "idle",
           Acknowledge(w) \/ GiveBack(w) \/ \E e \in ErrorClass : Throw(w, e)
    PROVE  pc' \in [Workers -> Stage] /\ wk' \in [Workers -> Local] /\ queue' \subseteq Jobs
<1>1. CASE Acknowledge(w) \/ GiveBack(w)
  <2>1. "idle" \in Stage
    BY DEF Stage
  <2>2. wk[w].job \in Jobs
    BY DEF Busy
  <2> QED
    BY <1>1, <2>1, <2>2, BlankType, GotoType DEF Acknowledge, GiveBack, Idle, TypeOK
<1>2. ASSUME NEW e \in ErrorClass, Throw(w, e)
      PROVE  pc' \in [Workers -> Stage] /\ wk' \in [Workers -> Local] /\ queue' \subseteq Jobs
  <2>1. "handle" \in Stage
    BY DEF Stage
  <2>2. [wk[w] EXCEPT !.error = e] \in Local
    BY DEF TypeOK, Local
  <2> QED
    BY <1>2, <2>1, <2>2, GotoType DEF Throw, TypeOK
<1> QED
  BY <1>1, <1>2

\* Every fault counts towards its bound.
LEMMA FaultType ==
    ASSUME TypeOK, NEW kind, Fault(kind) \/ NoFault
    PROVE  faults' \in 0 .. MaxFaults
BY BoundsAssumption DEF TypeOK, Fault, NoFault

\* What a save and a mark write has the types of the snapshot.
LEMMA UpsertedType ==
    ASSUME TypeOK, NEW p \in Parents, NEW at \in Nat, Upserted(p, at)
    PROVE  stored' \subseteq Parents /\ seen' \in [Parents -> 0 .. MaxJobs]
           /\ stamp' \in [Parents -> Nat]
BY DEF Upserted, TypeOK

\* The columns of a row that the steps of a job write.
LEMMA RowType ==
    ASSUME NEW r \in Row
    PROVE  /\ \A s \in Status : [r EXCEPT !.status = s] \in Row
           /\ \A s \in Status, n \in Nat : [r EXCEPT !.status = s, !.started = n] \in Row
           /\ \A s \in Status, n \in Nat : [r EXCEPT !.status = s, !.retries = n] \in Row
BY DEF Row

\* The initial states have the right types, and no job has been created.
LEMMA InitHolds == Init => DrivenInv
<1> SUFFICES ASSUME Init PROVE DrivenInv
  OBVIOUS
<1>1. job \in [Jobs -> Row] /\ \A j \in Jobs : job[j].status = "NEW"
  BY NewRowType DEF Init, NewRow
<1>2. wk \in [Workers -> Local] /\ pc \in [Workers -> Stage]
  BY BlankType DEF Init, Stage
<1>3. NoCount \in 0 .. NoCount
  BY CountType DEF NoCount
<1>4. TypeOK
  BY <1>1, <1>2, <1>3, BoundsAssumption DEF Init, TypeOK
<1> QED
  BY <1>1, <1>4 DEF Init, DrivenInv, HolderInv, Busy, Numbered, Unheld, OneHolder,
                     ConflictIsFinal, ActiveIsDriven, WorksOn, Inside

-----------------------------------------------------------------------------

\* Every step of the seller, the webhook and the user preserves the types.
LEMMA UserTypes ==
    ASSUME TypeOK,
           \/ \E i \in Items : Publish(i) \/ Withdraw(i) \/ NoticeRead(i)
           \/ NoticeSaved \/ StartActive
           \/ \E c \in Clients : CountItems(c) \/ CreateJob(c)
           \/ \E j \in Jobs : Cancel(j)
    PROVE  TypeOK'
<1> USE BoundsAssumption DEF rowVars, snapVars, workVars, sellerVars, hookVars
<1>1. ASSUME NEW i \in Items, Publish(i) PROVE TypeOK'
  BY <1>1 DEF Publish, TypeOK
<1>2. ASSUME NEW i \in Items, Withdraw(i) PROVE TypeOK'
  BY <1>2 DEF Withdraw, TypeOK
<1>3. ASSUME NEW i \in Items, NoticeRead(i) PROVE TypeOK'
  <2>1. ParentOf[i] \in Parents
    BY SetsAssumption
  <2> QED
    BY <1>3, <2>1 DEF NoticeRead, TypeOK
<1>4. CASE NoticeSaved
  <2>1. notice.parent \in Parents /\ notice.at \in Nat
    BY <1>4 DEF NoticeSaved, TypeOK
  <2> QED
    BY <1>4, <2>1, UpsertedType DEF NoticeSaved, TypeOK
<1>5. CASE StartActive
  <2>1. queue' \subseteq Jobs /\ faults' \in 0 .. MaxFaults
    BY <1>5, FaultType DEF StartActive, Announce, TypeOK
  <2> QED
    BY <1>5, <2>1 DEF StartActive, TypeOK
<1>6. ASSUME NEW c \in Clients, CountItems(c) PROVE TypeOK'
  <2>1. Cardinality(catalogue) \in 0 .. NoCount
    BY CountType DEF TypeOK
  <2> QED
    BY <1>6, <2>1 DEF CountItems, TypeOK
<1>7. ASSUME NEW c \in Clients, CreateJob(c) PROVE TypeOK'
  <2>1. NoCount \in 0 .. NoCount
    BY CountType DEF NoCount
  <2>2. count[c] \in Nat
    BY DEF TypeOK
  <2>3. [NewRow(count[c]) EXCEPT !.status = "PENDING"] \in Row
    BY <2>2, NewRowType, RowType DEF Status, Active
  <2> DEFINE r == [NewRow(count[c]) EXCEPT !.status = "PENDING"]
  <2>4. CASE last < MaxJobs /\ last' = last + 1 /\ job' = [job EXCEPT ![last'] = r]
             /\ Announce(last', r)
    <3>1. last' \in Jobs /\ last' \in 0 .. MaxJobs
      BY <2>4 DEF Jobs, TypeOK
    <3>2. job' \in [Jobs -> Row]
      BY <2>3, <2>4, <3>1 DEF TypeOK
    <3>3. queue' \subseteq Jobs
      BY <2>4, <3>1 DEF Announce, TypeOK
    <3>4. faults' \in 0 .. MaxFaults
      BY <2>4, FaultType DEF Announce
    <3> QED
      BY <1>7, <2>1, <3>1, <3>2, <3>3, <3>4 DEF CreateJob, TypeOK
  <2>5. CASE (\E j \in Jobs : IsActive(j) /\ Announce(j, job[j])) /\ UNCHANGED rowVars
    <3>1. PICK j \in Jobs : Announce(j, job[j])
      BY <2>5
    <3>2. queue' \subseteq Jobs
      BY <3>1 DEF Announce, TypeOK
    <3>3. faults' \in 0 .. MaxFaults
      BY <3>1, FaultType DEF Announce
    <3> QED
      BY <1>7, <2>1, <2>5, <3>2, <3>3 DEF CreateJob, TypeOK
  <2> QED
    BY <1>7, <2>4, <2>5 DEF CreateJob
<1>8. ASSUME NEW j \in Jobs, Cancel(j) PROVE TypeOK'
  <2>1. [job[j] EXCEPT !.status = "CANCELLED"] \in Row
    BY RowType DEF TypeOK, Status
  <2> QED
    BY <1>8, <2>1 DEF Cancel, TypeOK
<1> QED
  BY <1>1, <1>2, <1>3, <1>4, <1>5, <1>6, <1>7, <1>8

\* Every step of an invocation preserves the types.
LEMMA WorkerTypes ==
    ASSUME TypeOK, Busy, NEW w \in Workers, Deliver(w) \/ Work(w) \/ StepFails(w) \/ Crash(w)
    PROVE  TypeOK'
<1> USE BoundsAssumption DEF rowVars, snapVars, workVars, sellerVars, hookVars
<1>0. /\ wk[w] \in Local /\ row(w) \in Row
      /\ wk[w].batch \in SUBSET Items /\ wk[w].at \in Nat /\ wk[w].open \in SUBSET Parents
      /\ pc[w] # "idle" => wk[w].job \in Jobs /\ job[wk[w].job] \in Row
  BY DEF TypeOK, Local, row, Busy
<1>1. CASE Deliver(w)
  <2>1. PICK j \in queue :
           /\ queue' = queue \ {j} \/ queue' = queue
           /\ IF IsActive(j)
                THEN Goto(w, "claim", [Blank EXCEPT !.job = j, !.unstarted = (job[j].started = 0)])
                ELSE Idle(w)
    BY <1>1 DEF Deliver
  <2>2. j \in 0 .. MaxJobs
    BY DEF TypeOK, Jobs
  <2>3. [Blank EXCEPT !.job = j, !.unstarted = (job[j].started = 0)] \in Local
    BY <2>2, BlankType DEF Local
  <2>4. "idle" \in Stage /\ "claim" \in Stage
    BY DEF Stage
  <2>5. pc' \in [Workers -> Stage] /\ wk' \in [Workers -> Local]
    BY <2>1, <2>3, <2>4, BlankType, GotoType DEF Idle
  <2>6. queue' \subseteq Jobs /\ faults' \in 0 .. MaxFaults
    BY <1>1, <2>1, FaultType DEF Deliver, TypeOK
  <2> QED
    BY <1>1, <2>5, <2>6 DEF Deliver, TypeOK
<1>2. CASE Claim(w)
  <2> DEFINE j == wk[w].job
  <2>1. pc[w] # "idle"
    BY <1>2 DEF Claim
  <2>2. faults' \in 0 .. MaxFaults
    BY <1>2, FaultType DEF Claim
  <2>3. CASE Claimed(w)
    <3>1. clock' \in Nat
      BY <2>3 DEF Claimed, TypeOK
    <3>2. (IF wk[w].unstarted THEN clock' ELSE job[j].started) \in Nat
      BY <1>0, <2>1, <3>1 DEF Row
    <3>3. [job[j] EXCEPT !.status = "RUNNING",
                         !.started = IF wk[w].unstarted THEN clock' ELSE job[j].started] \in Row
      BY <1>0, <2>1, <3>2, RowType DEF Status, Active
    <3>4. job' = [job EXCEPT ![j] = [job[j] EXCEPT !.status = "RUNNING",
                         !.started = IF wk[w].unstarted THEN clock' ELSE job[j].started]]
      BY <1>0, <2>1, <2>3 DEF Claimed, TypeOK
    <3>5. job' \in [Jobs -> Row] /\ job'[j] \in Row
      BY <1>0, <2>1, <3>3, <3>4 DEF TypeOK
    <3>7. [wk[w] EXCEPT !.row = job'[j]] \in Local
      BY <1>0, <3>5 DEF Local
    <3>8. "scan" \in Stage
      BY DEF Stage
    <3>9. pc' \in [Workers -> Stage] /\ wk' \in [Workers -> Local] /\ queue' \subseteq Jobs
      <4>1. CASE Goto(w, "scan", [wk[w] EXCEPT !.row = job'[j]]) /\ queue' = queue
        BY <3>7, <3>8, <4>1, GotoType DEF TypeOK
      <4>2. CASE Acknowledge(w) \/ GiveBack(w)
        BY <2>1, <4>2, EndType
      <4> QED
        BY <1>2, <4>1, <4>2 DEF Claim
    <3> QED
      BY <1>2, <2>2, <3>1, <3>5, <3>9 DEF Claim, TypeOK
  <2>4. CASE Acknowledge(w) /\ UNCHANGED <<job, clock>>
    BY <1>2, <2>1, <2>2, <2>4, EndType DEF Claim, TypeOK
  <2> QED
    BY <1>2, <2>3, <2>4 DEF Claim
<1>3. CASE FetchPage(w)
  <2> DEFINE j == wk[w].job
             rest == IF row(w).scanStarted THEN cursor[j] ELSE catalogue
  <2>1. PICK page \in Portions(rest, PageSize) :
           /\ cursor' = [cursor EXCEPT ![j] = rest \ page]
           /\ Goto(w, "scan", [wk[w] EXCEPT !.row.scanStarted = TRUE,
                                            !.row.scroll = (page # {}), !.row.buffer = page])
    BY <1>3 DEF FetchPage
  <2>2. j \in Jobs
    BY <1>0, <1>3 DEF FetchPage
  <2>3. rest \in SUBSET Items
    BY <2>2 DEF TypeOK
  <2>4. page \in SUBSET Items
    BY <2>3 DEF Portions
  <2>5. [row(w) EXCEPT !.scanStarted = TRUE, !.scroll = (page # {}), !.buffer = page] \in Row
    BY <1>0, <2>4 DEF Row
  <2>6. [wk[w] EXCEPT !.row.scanStarted = TRUE, !.row.scroll = (page # {}),
                      !.row.buffer = page] \in Local
    BY <1>0, <2>5 DEF Local, row
  <2>7. "scan" \in Stage
    BY DEF Stage
  <2>8. pc' \in [Workers -> Stage] /\ wk' \in [Workers -> Local]
    BY <2>1, <2>6, <2>7, GotoType
  <2>9. cursor' \in [Jobs -> SUBSET Items] /\ scanned' \in [Jobs -> SUBSET Items]
    BY <1>3, <2>1, <2>3 DEF FetchPage, TypeOK
  <2> QED
    BY <1>3, <2>8, <2>9 DEF FetchPage, TypeOK
<1>4. CASE ScanEnded(w)
  <2>1. "finish" \in Stage
    BY DEF Stage
  <2> QED
    BY <1>0, <1>4, <2>1, GotoType DEF ScanEnded, TypeOK
<1>5. CASE ReadBatch(w)
  <2>1. PICK batch \in Portions(row(w).buffer, BatchSize) \ {{}}, bad \in SUBSET Items :
           /\ bad \subseteq batch
           /\ Fault("item") \/ NoFault
           /\ Goto(w, "save", [wk[w] EXCEPT !.batch = batch, !.bad = bad,
                                   !.todo = ParentsOf(batch \ bad), !.at = clock])
    BY <1>5 DEF ReadBatch
  <2>2. batch \in SUBSET Items
    BY <1>0 DEF Portions, Row
  <2>3. ParentsOf(batch \ bad) \in SUBSET Parents
    BY <2>2, SetsAssumption DEF ParentsOf
  <2>4. [wk[w] EXCEPT !.batch = batch, !.bad = bad,
                      !.todo = ParentsOf(batch \ bad), !.at = clock] \in Local
    BY <1>0, <2>2, <2>3 DEF TypeOK, Local
  <2>5. "save" \in Stage
    BY DEF Stage
  <2>6. pc' \in [Workers -> Stage] /\ wk' \in [Workers -> Local] /\ faults' \in 0 .. MaxFaults
    BY <2>1, <2>4, <2>5, GotoType, FaultType
  <2> QED
    BY <1>5, <2>6 DEF ReadBatch, TypeOK
<1>6. CASE SaveParent(w)
  <2>1. PICK p \in wk[w].todo :
           /\ Upserted(p, wk[w].at)
           /\ wk' = [wk EXCEPT ![w].todo = @ \ {p}, ![w].open = @ \cup {p}]
    BY <1>6 DEF SaveParent
  <2>2. p \in Parents
    BY <1>0 DEF Local
  <2>3. [wk[w] EXCEPT !.todo = @ \ {p}, !.open = @ \cup {p}] \in Local
    BY <1>0, <2>2 DEF Local
  <2>4. wk' \in [Workers -> Local]
    BY <2>1, <2>3 DEF TypeOK
  <2> QED
    BY <1>0, <1>6, <2>1, <2>2, <2>4, UpsertedType DEF SaveParent, TypeOK
<1>7. CASE MarkSeen(w)
  <2>1. PICK p \in wk[w].open :
           /\ wk' = [wk EXCEPT ![w].open = @ \ {p}]
           /\ \/ seen' = [seen EXCEPT ![p] = wk[w].job] /\ stamp' = [stamp EXCEPT ![p] = clock]
              \/ UNCHANGED <<seen, stamp>>
    BY <1>7 DEF MarkSeen
  <2>2. [wk[w] EXCEPT !.open = @ \ {p}] \in Local
    BY <1>0 DEF Local
  <2>3. wk' \in [Workers -> Local]
    BY <2>1, <2>2 DEF TypeOK
  <2>4. wk[w].job \in 0 .. MaxJobs
    BY <1>0 DEF Local
  <2>5. seen' \in [Parents -> 0 .. MaxJobs] /\ stamp' \in [Parents -> Nat]
    BY <2>1, <2>4 DEF TypeOK
  <2> QED
    BY <1>7, <2>3, <2>5 DEF MarkSeen, TypeOK
<1>8. CASE Checkpoint(w)
  <2>1. pc[w] # "idle" /\ faults' \in 0 .. MaxFaults
    BY <1>8, FaultType DEF Checkpoint, Saved, NotRunning
  <2>2. Cardinality(wk[w].batch) \in Nat
    BY <1>0, CountType
  <2>3. Progress(w) \in Row
    <3> DEFINE r == job[wk[w].job]
    <3>1. r \in Row
      BY <1>0, <2>1
    <3>2. /\ row(w).processed + Cardinality(wk[w].batch) \in Nat
          /\ row(w).buffer \ wk[w].batch \in SUBSET Items
          /\ row(w).scroll \in BOOLEAN
          /\ (row(w).failed \/ wk[w].bad # {}) \in BOOLEAN
          /\ (row(w).saved \/ wk[w].batch # wk[w].bad) \in BOOLEAN
      BY <1>0, <2>2 DEF Row
    <3> HIDE DEF r
    <3>3. \A b, f, v \in BOOLEAN, u \in SUBSET Items, n \in Nat :
             [r EXCEPT !.scanStarted = TRUE, !.scroll = b, !.buffer = u, !.processed = n,
                       !.failed = f, !.saved = v, !.retries = 0] \in Row
      BY <3>1 DEF Row
    <3> QED
      BY <3>2, <3>3 DEF Progress, r
  <2>4. job' \in [Jobs -> Row] /\ last' = last
    <3>1. CASE UNCHANGED rowVars
      BY <3>1 DEF TypeOK
    <3>2. ASSUME NEW s \in Status, job' = [job EXCEPT ![wk[w].job] = [Progress(w) EXCEPT !.status = s]]
          PROVE  job' \in [Jobs -> Row]
      BY <2>3, <3>2, RowType DEF TypeOK
    <3> QED
      BY <1>8, <3>1, <3>2 DEF Checkpoint, NotRunning, Status, Active
  <2>5. pc' \in [Workers -> Stage] /\ wk' \in [Workers -> Local] /\ queue' \subseteq Jobs
    <3>1. CASE Goto(w, "send", wk[w]) /\ queue' = queue
      <4>1. "send" \in Stage
        BY DEF Stage
      <4> QED
        BY <1>0, <3>1, <4>1, GotoType DEF TypeOK
    <3>2. CASE Acknowledge(w)
      BY <2>1, <3>2, EndType
    <3>3. CASE \E e \in ErrorClass : Throw(w, e)
      BY <2>1, <3>3, EndType
    <3> QED
      BY <1>8, <3>1, <3>2, <3>3 DEF Checkpoint, NotRunning, Acknowledge, ErrorClass
  <2> QED
    BY <1>8, <2>1, <2>4, <2>5 DEF Checkpoint, TypeOK
<1>9. CASE SendNext(w)
  <2>1. pc[w] # "idle" /\ GiveBack(w)
    BY <1>9 DEF SendNext
  <2> QED
    BY <1>9, <2>1, EndType DEF SendNext, TypeOK
<1>10. CASE RefuseCompletion(w)
  <2>1. pc[w] # "idle" /\ faults' \in 0 .. MaxFaults
    BY <1>10, FaultType DEF RefuseCompletion, NotRunning
  <2>2. job' \in [Jobs -> Row] /\ last' = last
    <3>1. CASE UNCHANGED rowVars
      BY <3>1 DEF TypeOK
    <3>2. CASE SetStatus(wk[w].job, "FAILED")
      <4>1. [job[wk[w].job] EXCEPT !.status = "FAILED"] \in Row
        BY <1>0, <2>1, RowType DEF Status
      <4>2. job' = [job EXCEPT ![wk[w].job] = [job[wk[w].job] EXCEPT !.status = "FAILED"]]
        BY <1>0, <2>1, <3>2 DEF SetStatus, TypeOK
      <4> QED
        BY <3>2, <4>1, <4>2 DEF SetStatus, TypeOK
    <3> QED
      BY <1>10, <3>1, <3>2 DEF RefuseCompletion, NotRunning
  <2>3. Acknowledge(w) \/ \E e \in ErrorClass : Throw(w, e)
    BY <1>10 DEF RefuseCompletion, NotRunning, ErrorClass
  <2> QED
    BY <1>10, <2>1, <2>2, <2>3, EndType DEF RefuseCompletion, TypeOK
<1>11. CASE CleanUp(w)
  <2>1. pc[w] # "idle" /\ faults' \in 0 .. MaxFaults
    BY <1>11, FaultType DEF CleanUp
  <2>2. pc' \in [Workers -> Stage] /\ wk' \in [Workers -> Local] /\ queue' \subseteq Jobs
    <3>1. CASE Goto(w, "complete", wk[w]) /\ queue' = queue
      <4>1. "complete" \in Stage
        BY DEF Stage
      <4> QED
        BY <1>0, <3>1, <4>1, GotoType DEF TypeOK
    <3>2. CASE \E e \in ErrorClass : Throw(w, e)
      BY <2>1, <3>2, EndType
    <3> QED
      BY <1>11, <3>1, <3>2 DEF CleanUp, ErrorClass
  <2>3. /\ stored' \subseteq Parents /\ seen' \in [Parents -> 0 .. MaxJobs]
        /\ stamp' \in [Parents -> Nat]
    BY <1>11 DEF CleanUp, TypeOK
  <2> QED
    BY <1>11, <2>1, <2>2, <2>3 DEF CleanUp, TypeOK
<1>12. CASE Complete(w)
  <2>1. pc[w] # "idle" /\ faults' \in 0 .. MaxFaults
    BY <1>12, FaultType DEF Complete
  <2>2. job' \in [Jobs -> Row] /\ last' = last
    <3>1. CASE UNCHANGED rowVars
      BY <3>1 DEF TypeOK
    <3>2. CASE SetStatus(wk[w].job, "COMPLETED")
      <4>1. [job[wk[w].job] EXCEPT !.status = "COMPLETED"] \in Row
        BY <1>0, <2>1, RowType DEF Status
      <4>2. job' = [job EXCEPT ![wk[w].job] = [job[wk[w].job] EXCEPT !.status = "COMPLETED"]]
        BY <1>0, <2>1, <3>2 DEF SetStatus, TypeOK
      <4> QED
        BY <3>2, <4>1, <4>2 DEF SetStatus, TypeOK
    <3> QED
      BY <1>12, <3>1, <3>2 DEF Complete, NotRunning
  <2>3. Acknowledge(w) \/ GiveBack(w)
    BY <1>12 DEF Complete
  <2> QED
    BY <1>12, <2>1, <2>2, <2>3, EndType DEF Complete, TypeOK
<1>13. CASE HandleError(w)
  <2>1. pc[w] # "idle" /\ faults' \in 0 .. MaxFaults
    BY <1>13, FaultType DEF HandleError
  <2>2. AfterError(w) \in Row
    <3> DEFINE r == job[wk[w].job]
    <3>1. r \in Row /\ row(w).retries + 1 \in Nat
      BY <1>0, <2>1 DEF Row
    <3> HIDE DEF r
    <3>2. /\ [r EXCEPT !.status = "PENDING", !.retries = row(w).retries + 1] \in Row
          /\ [r EXCEPT !.status = "FAILED"] \in Row
      BY <3>1, RowType DEF Status, Active
    <3> QED
      BY <3>2 DEF AfterError, r
  <2>3. job' \in [Jobs -> Row] /\ last' = last
    BY <1>13, <2>2 DEF HandleError, TypeOK
  <2>4. Acknowledge(w) \/ GiveBack(w)
    BY <1>13 DEF HandleError
  <2> QED
    BY <1>13, <2>1, <2>3, <2>4, EndType DEF HandleError, TypeOK
<1>14. CASE StepFails(w)
  <2>1. pc[w] # "idle" /\ faults' \in 0 .. MaxFaults
    BY <1>14, FaultType DEF StepFails
  <2>2. \E e \in ErrorClass : Throw(w, e)
    BY <1>14 DEF StepFails, ErrorClass
  <2> QED
    BY <1>14, <2>1, <2>2, EndType DEF StepFails, TypeOK
<1>15. CASE Crash(w)
  <2>1. faults' \in 0 .. MaxFaults
    BY <1>15, FaultType DEF Crash
  <2> QED
    BY <1>15, <2>1, EndType DEF Crash, TypeOK
<1> QED
  BY <1>1, <1>2, <1>3, <1>4, <1>5, <1>6, <1>7, <1>8, <1>9, <1>10, <1>11, <1>12,
     <1>13, <1>14, <1>15 DEF Work

\* Saving and marking parents leaves every invocation its stage and its job.
LEMMA SavingMoves ==
    ASSUME TypeOK, NEW w \in Workers, SaveParent(w) \/ MarkSeen(w)
    PROVE  /\ pc' = pc /\ UNCHANGED rowVars /\ queue' = queue
           /\ \A v \in Workers : wk'[v].job = wk[v].job /\ wk'[v].error = wk[v].error
<1>1. pc' = pc /\ UNCHANGED rowVars /\ queue' = queue
  BY DEF SaveParent, MarkSeen
<1>2. wk[w] \in Local
  BY DEF TypeOK
<1>3. PICK todo, open : wk' = [wk EXCEPT ![w] = [wk[w] EXCEPT !.todo = todo, !.open = open]]
  <2>1. CASE SaveParent(w)
    <3>1. PICK p \in wk[w].todo :
             wk' = [wk EXCEPT ![w].todo = @ \ {p}, ![w].open = @ \cup {p}]
      BY <2>1 DEF SaveParent
    <3>2. wk' = [wk EXCEPT ![w] = [wk[w] EXCEPT !.todo = @ \ {p}, !.open = @ \cup {p}]]
      BY <3>1 DEF TypeOK
    <3> QED
      BY <3>2
  <2>2. CASE MarkSeen(w)
    <3>1. PICK p \in wk[w].open : wk' = [wk EXCEPT ![w].open = @ \ {p}]
      BY <2>2 DEF MarkSeen
    <3>2. [wk[w] EXCEPT !.open = @ \ {p}]
            = [wk[w] EXCEPT !.todo = wk[w].todo, !.open = @ \ {p}]
      BY <1>2 DEF Local
    <3>3. wk' = [wk EXCEPT ![w] = [wk[w] EXCEPT !.open = @ \ {p}]]
      BY <3>1
    <3> QED
      BY <3>2, <3>3
  <2> QED
    BY <2>1, <2>2
<1>4. /\ [wk[w] EXCEPT !.todo = todo, !.open = open].job = wk[w].job
      /\ [wk[w] EXCEPT !.todo = todo, !.open = open].error = wk[w].error
  BY <1>2 DEF Local
<1> QED
  BY <1>1, <1>3, <1>4 DEF TypeOK

\* An invocation that is not idle keeps the job whose message it took.
LEMMA BusyStep ==
    ASSUME TypeOK, Busy, [Next]_vars
    PROVE  Busy'
<1> USE DEF rowVars, snapVars, workVars, sellerVars, hookVars
<1>1. ASSUME NEW w \in Workers, NEW stage, NEW local, Goto(w, stage, local),
             stage # "idle" => local.job \in Jobs
      PROVE  Busy'
  BY <1>1 DEF Goto, Busy, TypeOK
<1>2. CASE UNCHANGED workVars
  BY <1>2 DEF Busy
<1>3. ASSUME NEW w \in Workers, Deliver(w) \/ Work(w) \/ StepFails(w) \/ Crash(w)
      PROVE  Busy'
  <2>0. wk[w] \in Local /\ (pc[w] # "idle" => wk[w].job \in Jobs)
    BY DEF TypeOK, Busy
  <2>1. CASE Idle(w)
    BY <1>1, <2>1 DEF Idle
  <2>2. ASSUME NEW e, Throw(w, e), pc[w] # "idle" PROVE Busy'
    <3>1. [wk[w] EXCEPT !.error = e].job \in Jobs
      BY <2>0, <2>2 DEF Local
    <3> QED
      BY <1>1, <2>2, <3>1 DEF Throw
  <2>3. CASE Deliver(w)
    <3>1. PICK j \in queue :
             IF IsActive(j)
               THEN Goto(w, "claim", [Blank EXCEPT !.job = j, !.unstarted = (job[j].started = 0)])
               ELSE Idle(w)
      BY <2>3 DEF Deliver
    <3>2. [Blank EXCEPT !.job = j, !.unstarted = (job[j].started = 0)].job \in Jobs
      BY DEF Blank, TypeOK
    <3> QED
      BY <1>1, <2>1, <3>1, <3>2
  <2>4. CASE Claim(w)
    <3>1. pc[w] # "idle" /\ [wk[w] EXCEPT !.row = job'[wk[w].job]].job = wk[w].job
      BY <2>0, <2>4 DEF Claim, Local
    <3> QED
      BY <1>1, <2>0, <2>1, <2>4, <3>1 DEF Claim, Acknowledge, GiveBack
  <2>5. CASE FetchPage(w)
    <3>1. PICK page : Goto(w, "scan", [wk[w] EXCEPT !.row.scanStarted = TRUE,
                                          !.row.scroll = (page # {}), !.row.buffer = page])
      BY <2>5 DEF FetchPage
    <3>2. [wk[w] EXCEPT !.row.scanStarted = TRUE, !.row.scroll = (page # {}),
                        !.row.buffer = page].job \in Jobs
      BY <2>0, <2>5 DEF FetchPage, Local
    <3> QED
      BY <1>1, <3>1, <3>2
  <2>6. CASE ReadBatch(w)
    <3>1. PICK batch, bad : Goto(w, "save", [wk[w] EXCEPT !.batch = batch, !.bad = bad,
                                   !.todo = ParentsOf(batch \ bad), !.at = clock])
      BY <2>6 DEF ReadBatch
    <3>2. [wk[w] EXCEPT !.batch = batch, !.bad = bad,
                        !.todo = ParentsOf(batch \ bad), !.at = clock].job \in Jobs
      BY <2>0, <2>6 DEF ReadBatch, Local
    <3> QED
      BY <1>1, <3>1, <3>2
  <2>7. CASE SaveParent(w) \/ MarkSeen(w)
    BY <2>7, SavingMoves DEF Busy
  <2>8. CASE ScanEnded(w)
    BY <1>1, <2>0, <2>8 DEF ScanEnded
  <2>9. CASE Checkpoint(w)
    BY <1>1, <2>0, <2>1, <2>2, <2>9 DEF Checkpoint, Saved, NotRunning
  <2>10. CASE SendNext(w) \/ Complete(w) \/ HandleError(w) \/ Crash(w)
    BY <2>1, <2>10 DEF SendNext, Complete, HandleError, Crash, Acknowledge, GiveBack
  <2>11. CASE RefuseCompletion(w)
    BY <2>1, <2>2, <2>11 DEF RefuseCompletion, NotRunning, Acknowledge
  <2>12. CASE CleanUp(w)
    <3>1. pc[w] # "idle" /\ (Goto(w, "complete", wk[w]) \/ Throw(w, "retryable"))
      BY <2>12 DEF CleanUp
    <3> QED
      BY <1>1, <2>0, <2>2, <3>1
  <2>13. CASE StepFails(w)
    BY <2>2, <2>13 DEF StepFails
  <2> QED
    BY <1>3, <2>3, <2>4, <2>5, <2>6, <2>7, <2>8, <2>9, <2>10, <2>11, <2>12, <2>13 DEF Work
<1> QED
  <2>1. CASE \E w \in Workers : Deliver(w) \/ Work(w) \/ StepFails(w) \/ Crash(w)
    BY <1>3, <2>1
  <2>2. CASE \/ \E i \in Items : Publish(i) \/ Withdraw(i) \/ NoticeRead(i)
             \/ NoticeSaved \/ StartActive
             \/ \E c \in Clients : CountItems(c) \/ CreateJob(c)
             \/ \E j \in Jobs : Cancel(j)
    BY <1>2, <2>2 DEF Publish, Withdraw, NoticeRead, NoticeSaved, StartActive, CountItems,
                      CreateJob, Cancel
  <2>3. CASE UNCHANGED vars
    BY <1>2, <2>3 DEF vars
  <2> QED
    BY <2>1, <2>2, <2>3 DEF Next

\* Every step preserves the types.
LEMMA TypeStep ==
    ASSUME TypeOK, Busy, [Next]_vars
    PROVE  TypeOK'
<1>1. CASE UNCHANGED vars
  BY <1>1 DEF vars, TypeOK
<1> QED
  BY <1>1, UserTypes, WorkerTypes DEF Next

\* TypeCorrect: the rows, the messages and the local variables of the invocations
\* have their types in every state, whatever fails.
THEOREM TypeCorrect == Spec => []TypeOK
<1>1. Init => TypeOK /\ Busy
  BY InitHolds DEF DrivenInv, HolderInv
<1>2. TypeOK /\ Busy /\ [Next]_vars => (TypeOK /\ Busy)'
  BY TypeStep, BusyStep
<1> QED
  BY <1>1, <1>2, PTL DEF Spec

-----------------------------------------------------------------------------
(* One invocation per running job *)

\* Nobody but the claimer enters the work on a job.
LEMMA GotoFrame ==
    ASSUME TypeOK, NEW w \in Workers, NEW stage, NEW local, Goto(w, stage, local),
           stage \in Inside => pc[w] \in Inside /\ local.job = wk[w].job
    PROVE  \A v \in Workers, k \in Jobs : WorksOn(v, k)' => WorksOn(v, k)
BY DEF TypeOK, Goto, WorksOn

\* Nor does the end of an invocation, or an error it handles, let anyone in.
LEMMA EndFrame ==
    ASSUME TypeOK, NEW w \in Workers,
           \/ Idle(w) \/ Acknowledge(w) \/ GiveBack(w)
           \/ pc[w] \in Inside /\ \E e : Throw(w, e)
    PROVE  \A v \in Workers, k \in Jobs : WorksOn(v, k)' => WorksOn(v, k)
<1>1. CASE Idle(w) \/ Acknowledge(w) \/ GiveBack(w)
  BY <1>1, GotoFrame DEF Idle, Acknowledge, GiveBack, Inside
<1>2. ASSUME NEW e, Throw(w, e), pc[w] \in Inside
      PROVE  \A v \in Workers, k \in Jobs : WorksOn(v, k)' => WorksOn(v, k)
  <2>1. [wk[w] EXCEPT !.error = e].job = wk[w].job
    BY DEF TypeOK, Local
  <2> QED
    BY <1>2, <2>1, GotoFrame DEF Throw
<1> QED
  BY <1>1, <1>2

\* So nobody but Claim does.
LEMMA WorkFrame ==
    ASSUME TypeOK, NEW w \in Workers,
           Deliver(w) \/ (Work(w) /\ ~Claim(w)) \/ StepFails(w) \/ Crash(w)
    PROVE  \A v \in Workers, k \in Jobs : WorksOn(v, k)' => WorksOn(v, k)
<1>0. wk[w] \in Local
  BY DEF TypeOK
<1>1. CASE Deliver(w)
  <2>1. PICK j \in queue :
           \/ Goto(w, "claim", [Blank EXCEPT !.job = j, !.unstarted = (job[j].started = 0)])
           \/ Idle(w)
    BY <1>1 DEF Deliver
  <2>2. "claim" \notin Inside
    BY DEF Inside
  <2> QED
    BY <2>1, <2>2, GotoFrame, EndFrame
<1>2. CASE FetchPage(w)
  <2>1. PICK page : Goto(w, "scan", [wk[w] EXCEPT !.row.scanStarted = TRUE,
                                        !.row.scroll = (page # {}), !.row.buffer = page])
    BY <1>2 DEF FetchPage
  <2>2. [wk[w] EXCEPT !.row.scanStarted = TRUE, !.row.scroll = (page # {}),
                      !.row.buffer = page].job = wk[w].job
    BY <1>0 DEF Local
  <2>3. pc[w] \in Inside
    BY <1>2 DEF FetchPage, Inside
  <2> QED
    BY <2>1, <2>2, <2>3, GotoFrame
<1>3. CASE ScanEnded(w)
  BY <1>3, GotoFrame DEF ScanEnded, Inside
<1>4. CASE ReadBatch(w)
  <2>1. PICK batch, bad : Goto(w, "save", [wk[w] EXCEPT !.batch = batch, !.bad = bad,
                                 !.todo = ParentsOf(batch \ bad), !.at = clock])
    BY <1>4 DEF ReadBatch
  <2>2. [wk[w] EXCEPT !.batch = batch, !.bad = bad,
                      !.todo = ParentsOf(batch \ bad), !.at = clock].job = wk[w].job
    BY <1>0 DEF Local
  <2>3. pc[w] \in Inside
    BY <1>4 DEF ReadBatch, Inside
  <2> QED
    BY <2>1, <2>2, <2>3, GotoFrame
<1>5. CASE SaveParent(w) \/ MarkSeen(w)
  BY <1>5, SavingMoves DEF WorksOn
<1>6. CASE Checkpoint(w)
  <2>1. pc[w] \in Inside /\ "send" \notin Inside
    BY <1>6 DEF Checkpoint, Saved, NotRunning, Inside
  <2>2. Goto(w, "send", wk[w]) \/ Idle(w) \/ \E e : Throw(w, e)
    BY <1>6 DEF Checkpoint, NotRunning
  <2> QED
    BY <2>1, <2>2, GotoFrame, EndFrame
<1>7. CASE SendNext(w) \/ Complete(w) \/ HandleError(w) \/ Crash(w)
  BY <1>7, EndFrame DEF SendNext, Complete, HandleError, Crash
<1>8. CASE RefuseCompletion(w)
  BY <1>8, EndFrame DEF RefuseCompletion, NotRunning, Inside
<1>9. CASE CleanUp(w)
  <2>1. pc[w] \in Inside /\ (Goto(w, "complete", wk[w]) \/ \E e : Throw(w, e))
    BY <1>9 DEF CleanUp, Inside
  <2> QED
    BY <2>1, GotoFrame, EndFrame
<1>10. CASE StepFails(w)
  BY <1>10, EndFrame DEF StepFails, Inside
<1> QED
  BY <1>1, <1>2, <1>3, <1>4, <1>5, <1>6, <1>7, <1>8, <1>9, <1>10 DEF Work

\* A step that writes no row and lets nobody in keeps the holders.
LEMMA QuietStep ==
    ASSUME HolderInv, UNCHANGED rowVars,
           \A v \in Workers, k \in Jobs : WorksOn(v, k)' => WorksOn(v, k)
    PROVE  Numbered' /\ Unheld' /\ OneHolder'
BY DEF HolderInv, Numbered, Unheld, OneHolder, rowVars

\* So does one that takes a job out of RUNNING, if no one goes on with a job
\* that is to be claimed again.
LEMMA RowStep ==
    ASSUME HolderInv, NEW j \in Jobs, NEW r, job[j].status # "NEW",
           r.status \notin {"NEW", "RUNNING"},
           job' = [job EXCEPT ![j] = r], last' = last,
           \A v \in Workers, k \in Jobs : WorksOn(v, k)' => WorksOn(v, k),
           r.status = "PENDING" => \A v \in Workers : ~WorksOn(v, j)'
    PROVE  Numbered' /\ Unheld' /\ OneHolder'
<1>1. \A k \in Jobs : job'[k] = IF k = j THEN r ELSE job[k]
  BY DEF HolderInv, TypeOK
<1>2. Numbered'
  BY <1>1 DEF HolderInv, Numbered
<1>3. Unheld'
  BY <1>1 DEF HolderInv, Unheld
<1>4. OneHolder'
  BY <1>1 DEF HolderInv, OneHolder
<1> QED
  BY <1>2, <1>3, <1>4

\* What the seller, the webhook and the user do.
LEMMA UserHolders ==
    ASSUME HolderInv,
           \/ \E i \in Items : Publish(i) \/ Withdraw(i) \/ NoticeRead(i)
           \/ NoticeSaved \/ StartActive
           \/ \E c \in Clients : CountItems(c) \/ CreateJob(c)
           \/ \E j \in Jobs : Cancel(j)
    PROVE  Numbered' /\ Unheld' /\ OneHolder'
<1>1. UNCHANGED workVars
  BY DEF Publish, Withdraw, NoticeRead, NoticeSaved, StartActive, CountItems, CreateJob, Cancel
<1>2. \A v \in Workers, k \in Jobs : WorksOn(v, k)' => WorksOn(v, k)
  BY <1>1 DEF workVars, WorksOn
<1>3. CASE UNCHANGED rowVars
  BY <1>2, <1>3, QuietStep
<1>4. ASSUME NEW c \in Clients, CreateJob(c), ~UNCHANGED rowVars
      PROVE  Numbered' /\ Unheld' /\ OneHolder'
  <2> DEFINE r == [NewRow(count[c]) EXCEPT !.status = "PENDING"]
  <2>1. last < MaxJobs /\ last' = last + 1 /\ job' = [job EXCEPT ![last'] = r]
    BY <1>4 DEF CreateJob
  <2>2. last' \in Jobs /\ job[last'].status = "NEW" /\ last \in Nat
    BY <2>1, BoundsAssumption DEF HolderInv, Numbered, TypeOK, Jobs
  <2>3. r.status = "PENDING"
    BY DEF NewRow
  <2> HIDE DEF r
  <2>4. \A k \in Jobs : job'[k] = IF k = last' THEN r ELSE job[k]
    BY <2>1, <2>2 DEF HolderInv, TypeOK
  <2>5. Numbered'
    BY <2>1, <2>2, <2>4 DEF HolderInv, Numbered, Jobs
  <2>6. Unheld'
    BY <1>2, <2>2, <2>4 DEF HolderInv, Unheld
  <2>7. OneHolder'
    BY <1>2, <2>3, <2>4 DEF HolderInv, OneHolder
  <2> QED
    BY <2>5, <2>6, <2>7
<1>5. ASSUME NEW j \in Jobs, Cancel(j) PROVE Numbered' /\ Unheld' /\ OneHolder'
  <2> DEFINE r == [job[j] EXCEPT !.status = "CANCELLED"]
  <2>1. r.status = "CANCELLED" /\ job[j].status # "NEW"
    BY <1>5 DEF HolderInv, TypeOK, Row, Cancel, IsActive, Active
  <2>2. job' = [job EXCEPT ![j] = r] /\ last' = last
    BY <1>5 DEF Cancel
  <2> HIDE DEF r
  <2> QED
    BY <1>2, <2>1, <2>2, RowStep
<1> QED
  BY <1>3, <1>4, <1>5
  DEF Publish, Withdraw, NoticeRead, NoticeSaved, StartActive, CountItems, rowVars

\* A claim takes a job nobody works on.
LEMMA ClaimHolders ==
    ASSUME "lost" \notin FaultKinds, HolderInv, NEW w \in Workers, Claim(w)
    PROVE  Numbered' /\ Unheld' /\ OneHolder'
<1> DEFINE j == wk[w].job
<1>1. j \in Jobs /\ wk[w] \in Local /\ job[j] \in Row /\ pc[w] \notin Inside
  BY DEF HolderInv, TypeOK, Busy, Claim, Inside
<1>2. CASE Acknowledge(w) /\ job' = job
  BY <1>2, EndFrame, QuietStep DEF Claim, HolderInv, rowVars
<1>3. CASE job[j].status = "PENDING" /\ Claimed(w) /\ Goto(w, "scan", [wk[w] EXCEPT !.row = job'[j]])
  <2>1. \A v \in Workers : ~WorksOn(v, j)
    BY <1>1, <1>3 DEF HolderInv, Unheld
  <2>2. \A k \in Jobs : job'[k].status = IF k = j THEN "RUNNING" ELSE job[k].status
    BY <1>1, <1>3 DEF Claimed, HolderInv, TypeOK, Row
  <2>3. [wk[w] EXCEPT !.row = job'[j]].job = j
    BY <1>1 DEF Local
  <2>4. \A v \in Workers, k \in Jobs :
           WorksOn(v, k)' <=> IF v = w THEN k = j ELSE WorksOn(v, k)
    BY <1>1, <1>3, <2>3 DEF Goto, WorksOn, HolderInv, TypeOK, Inside
  <2>5. last' = last
    BY DEF Claim
  <2>6. Numbered'
    BY <1>3, <2>2, <2>5 DEF HolderInv, Numbered
  <2>7. Unheld'
    BY <1>3, <2>2, <2>4 DEF HolderInv, Unheld
  <2>8. OneHolder'
    BY <2>1, <2>2, <2>4 DEF HolderInv, OneHolder
  <2> QED
    BY <2>6, <2>7, <2>8
<1> QED
  BY <1>2, <1>3 DEF Claim, Fault

\* Every other step of an invocation.
LEMMA WorkerHolders ==
    ASSUME "lost" \notin FaultKinds, HolderInv, NEW w \in Workers,
           Deliver(w) \/ Work(w) \/ StepFails(w) \/ Crash(w)
    PROVE  Numbered' /\ Unheld' /\ OneHolder'
<1> DEFINE j == wk[w].job
<1>1. TypeOK /\ wk[w] \in Local
  BY DEF HolderInv, TypeOK
<1>2. CASE Claim(w)
  BY <1>2, ClaimHolders
<1>3. CASE ~Claim(w)
  <2>1. \A v \in Workers, k \in Jobs : WorksOn(v, k)' => WorksOn(v, k)
    BY <1>1, <1>3, WorkFrame
  <2>2. CASE UNCHANGED rowVars
    BY <2>1, <2>2, QuietStep
  <2>3. CASE ~UNCHANGED rowVars
    <3>1. /\ Running(w) /\ last' = last /\ pc[w] \in Inside
          /\ \/ /\ job' = [job EXCEPT ![j] = [Progress(w) EXCEPT !.status =
                                     IF FirstBatchFailed(w) THEN "FAILED" ELSE "PENDING"]]
                /\ Idle(w) \/ Goto(w, "send", wk[w])
             \/ job' = [job EXCEPT ![j].status = "FAILED"]
             \/ job' = [job EXCEPT ![j].status = "COMPLETED"]
             \/ job' = [job EXCEPT ![j] = AfterError(w)] /\ Idle(w)
      <4>1. CASE Checkpoint(w)
        BY <2>3, <4>1 DEF Checkpoint, Saved, NotRunning, Fault, Inside
      <4>2. CASE RefuseCompletion(w)
        BY <2>3, <4>2 DEF RefuseCompletion, SetStatus, NotRunning, Inside
      <4>3. CASE Complete(w)
        BY <2>3, <4>3 DEF Complete, SetStatus, Inside
      <4>4. CASE HandleError(w)
        BY <2>3, <4>4 DEF HandleError, Acknowledge, GiveBack, Inside
      <4>5. CASE SaveParent(w) \/ MarkSeen(w)
        BY <1>1, <2>3, <4>5, SavingMoves
      <4> QED
        BY <1>3, <2>3, <4>1, <4>2, <4>3, <4>4, <4>5
        DEF Work, Deliver, StepFails, Crash, FetchPage, ScanEnded, ReadBatch, SendNext, CleanUp,
            rowVars
    <3>2. j \in Jobs /\ job[j] \in Row
      BY <3>1 DEF HolderInv, TypeOK, Busy, Inside
    <3>3. PICK k \in Jobs : k = j
      BY <3>2
    <3>4. job[k].status = "RUNNING" /\ WorksOn(w, k)
      BY <3>1, <3>3 DEF Running, WorksOn
    <3>5. ASSUME Idle(w) \/ Goto(w, "send", wk[w]) PROVE \A v \in Workers : ~WorksOn(v, k)'
      <4>1. ~WorksOn(w, k)'
        BY <1>1, <3>5 DEF Idle, Goto, WorksOn, Inside, TypeOK
      <4>2. \A v \in Workers : WorksOn(v, k) => v = w
        BY <3>4 DEF HolderInv, OneHolder
      <4> QED
        BY <2>1, <4>1, <4>2 DEF WorksOn
    <3>6. PICK r : /\ job' = [job EXCEPT ![j] = r] /\ r.status \in {"FAILED", "COMPLETED", "PENDING"}
                   /\ r.status = "PENDING" => Idle(w) \/ Goto(w, "send", wk[w])
      <4>1. CASE job' = [job EXCEPT ![j] = [Progress(w) EXCEPT !.status =
                                     IF FirstBatchFailed(w) THEN "FAILED" ELSE "PENDING"]]
                 /\ (Idle(w) \/ Goto(w, "send", wk[w]))
        <5> DEFINE r == [Progress(w) EXCEPT !.status =
                                     IF FirstBatchFailed(w) THEN "FAILED" ELSE "PENDING"]
        <5>1. r.status \in {"FAILED", "PENDING"}
          BY <3>2 DEF Progress, Row
        <5> HIDE DEF r
        <5> QED
          BY <4>1, <5>1 DEF r
      <4>2. ASSUME NEW s \in {"FAILED", "COMPLETED"}, job' = [job EXCEPT ![j].status = s]
            PROVE  \E r : /\ job' = [job EXCEPT ![j] = r]
                          /\ r.status \in {"FAILED", "COMPLETED"}
        <5>1. [job[j] EXCEPT !.status = s].status = s
          BY <3>2 DEF Row
        <5>2. job' = [job EXCEPT ![j] = [job[j] EXCEPT !.status = s]]
          BY <4>2
        <5> QED
          BY <5>1, <5>2
      <4>3. CASE job' = [job EXCEPT ![j] = AfterError(w)] /\ Idle(w)
        <5>1. AfterError(w).status \in {"FAILED", "PENDING"}
          BY <3>2 DEF AfterError, Row
        <5> QED
          BY <4>3, <5>1
      <4> QED
        BY <3>1, <4>1, <4>2, <4>3
    <3>7. last' = last /\ job[k].status # "NEW" /\ r.status \notin {"NEW", "RUNNING"}
          /\ job' = [job EXCEPT ![k] = r]
      BY <3>1, <3>3, <3>4, <3>6
    <3>8. r.status = "PENDING" => \A v \in Workers : ~WorksOn(v, k)'
      BY <3>5, <3>6
    <3> QED
      BY <2>1, <3>7, <3>8, RowStep
  <2> QED
    BY <2>2, <2>3
<1> QED
  BY <1>2, <1>3

\* While no answer is lost, every step keeps the invariant.
LEMMA HolderStep ==
    ASSUME "lost" \notin FaultKinds, HolderInv, [Next]_vars
    PROVE  HolderInv'
<1>1. TypeOK' /\ Busy'
  BY TypeStep, BusyStep DEF HolderInv
<1>2. Numbered' /\ Unheld' /\ OneHolder'
  <2>1. CASE UNCHANGED vars
    BY <2>1, QuietStep DEF vars, rowVars, WorksOn
  <2> QED
    BY <2>1, UserHolders, WorkerHolders DEF Next
<1> QED
  BY <1>1, <1>2 DEF HolderInv

\* SingleHolder: while no answer of the database is lost, two invocations never
\* work on one running job, whatever is delivered twice, fails, is cancelled or
\* killed: nobody works on a job that waits for a claim.
THEOREM SingleHolder ==
    ASSUME "lost" \notin FaultKinds
    PROVE  Spec => []OneHolder
<1>1. Init => HolderInv
  BY InitHolds DEF DrivenInv
<1>2. HolderInv /\ [Next]_vars => HolderInv'
  BY HolderStep
<1>3. HolderInv => OneHolder
  BY DEF HolderInv
<1> QED
  BY <1>1, <1>2, <1>3, PTL DEF Spec

-----------------------------------------------------------------------------
(* No active job is left behind *)

\* The kinds of fault after which a job can lose whoever carries it on.
Severing == {"lost", "unwritten", "unsent", "crash"}

\* A step of one invocation that concerns one job leaves every other job to the
\* invocation or message that carries it.
LEMMA DriverStep ==
    ASSUME HolderInv, ActiveIsDriven, NEW w \in Workers, NEW j \in Jobs,
           wk[w].job = j \/ pc[w] = "idle",
           \A v \in Workers \ {w} : pc'[v] = pc[v] /\ wk'[v].job = wk[v].job,
           \A k \in Jobs \ {j} : job'[k].status = job[k].status,
           queue \ {j} \subseteq queue',
           job'[j].status = "RUNNING" =>
               \/ wk'[w].job = j /\ pc'[w] \in Inside
               \/ job[j].status = "RUNNING" /\ ~WorksOn(w, j),
           job'[j].status = "PENDING" =>
               \/ j \in queue'
               \/ wk'[w].job = j /\ pc'[w] \in {"claim", "send"}
    PROVE  ActiveIsDriven'
<1>1. ASSUME NEW k \in Jobs, job'[k].status = "RUNNING"
      PROVE  \E v \in Workers : wk'[v].job = k /\ pc'[v] \in Inside
  <2>1. CASE k = j /\ wk'[w].job = j /\ pc'[w] \in Inside
    BY <2>1
  <2>2. CASE job[k].status = "RUNNING" /\ ~WorksOn(w, k)
    BY <2>2 DEF ActiveIsDriven, WorksOn
  <2>3. k # j => ~WorksOn(w, k)
    BY DEF WorksOn, Inside
  <2> QED
    BY <1>1, <2>1, <2>2, <2>3
<1>2. ASSUME NEW k \in Jobs, job'[k].status = "PENDING"
      PROVE  \/ k \in queue'
             \/ \E v \in Workers : wk'[v].job = k /\ pc'[v] \in {"claim", "send"}
  <2>1. CASE k = j
    BY <1>2, <2>1
  <2>2. CASE k # j
    BY <1>2, <2>2 DEF ActiveIsDriven
  <2> QED
    BY <2>1, <2>2
<1> QED
  BY <1>1, <1>2 DEF ActiveIsDriven, WorksOn

\* What the seller, the webhook and the user do.
LEMMA UserDriven ==
    ASSUME "unsent" \notin FaultKinds, DrivenInv,
           \/ \E i \in Items : Publish(i) \/ Withdraw(i) \/ NoticeRead(i)
           \/ NoticeSaved \/ StartActive
           \/ \E c \in Clients : CountItems(c) \/ CreateJob(c)
           \/ \E j \in Jobs : Cancel(j)
    PROVE  ConflictIsFinal' /\ ActiveIsDriven'
<1>1. UNCHANGED workVars
  BY DEF Publish, Withdraw, NoticeRead, NoticeSaved, StartActive, CountItems, CreateJob, Cancel
<1>2. \A w \in Workers : pc[w] = "handle" => wk[w].job \in Jobs
  BY DEF DrivenInv, HolderInv, Busy
<1>3. queue \subseteq queue'
  BY DEF Publish, Withdraw, NoticeRead, NoticeSaved, StartActive, CountItems, CreateJob, Cancel,
         Announce
<1>4. \A k \in Jobs :
         \/ job'[k].status = job[k].status
         \/ job'[k].status = "PENDING" /\ job[k].status = "NEW" /\ k \in queue'
         \/ job'[k].status = "CANCELLED"
  <2>1. CASE UNCHANGED rowVars
    BY <2>1 DEF rowVars
  <2>2. ASSUME NEW c \in Clients, CreateJob(c), ~UNCHANGED rowVars
        PROVE  \A k \in Jobs :
                  \/ job'[k].status = job[k].status
                  \/ job'[k].status = "PENDING" /\ job[k].status = "NEW" /\ k \in queue'
    <3> DEFINE r == [NewRow(count[c]) EXCEPT !.status = "PENDING"]
    <3>1. last < MaxJobs /\ last' = last + 1 /\ job' = [job EXCEPT ![last'] = r]
          /\ Announce(last', r)
      BY <2>2 DEF CreateJob
    <3>2. last' \in Jobs => job[last'].status = "NEW"
      BY <3>1 DEF DrivenInv, HolderInv, Numbered, TypeOK, Jobs
    <3>3. r.status = "PENDING"
      BY DEF NewRow
    <3>4. last' \in queue'
      BY <3>1, <3>3 DEF Announce, Fault
    <3> HIDE DEF r
    <3>5. \A k \in Jobs : job'[k] = IF k = last' THEN r ELSE job[k]
      BY <3>1 DEF DrivenInv, HolderInv, TypeOK
    <3> QED
      BY <3>2, <3>3, <3>4, <3>5
  <2>3. ASSUME NEW j \in Jobs, Cancel(j)
        PROVE  \A k \in Jobs : job'[k].status = job[k].status \/ job'[k].status = "CANCELLED"
    BY <2>3 DEF Cancel, DrivenInv, HolderInv, TypeOK, Row
  <2> QED
    BY <2>1, <2>2, <2>3
    DEF Publish, Withdraw, NoticeRead, NoticeSaved, StartActive, CountItems, rowVars
<1>5. ConflictIsFinal'
  BY <1>1, <1>2, <1>4 DEF DrivenInv, ConflictIsFinal, workVars
<1>6. ActiveIsDriven'
  BY <1>1, <1>3, <1>4 DEF DrivenInv, ActiveIsDriven, workVars, WorksOn
<1> QED
  BY <1>5, <1>6

\* What an invocation does to the job it works on.
LEMMA WorkerDriven ==
    ASSUME FaultKinds \cap Severing = {}, DrivenInv, NEW w \in Workers,
           Deliver(w) \/ Work(w) \/ StepFails(w) \/ Crash(w)
    PROVE  ActiveIsDriven'
<1>0. HolderInv /\ TypeOK /\ ActiveIsDriven /\ wk[w] \in Local
      /\ (pc[w] # "idle" => wk[w].job \in Jobs /\ job[wk[w].job] \in Row)
  BY DEF DrivenInv, HolderInv, TypeOK, Busy
<1>a. ~Fault("lost") /\ ~Fault("unwritten") /\ ~Fault("crash")
  BY DEF Fault, Severing
<1>1. ASSUME NEW stage, NEW local, Goto(w, stage, local)
      PROVE  /\ \A v \in Workers \ {w} : pc'[v] = pc[v] /\ wk'[v].job = wk[v].job
             /\ pc'[w] = stage /\ wk'[w].job = local.job
  BY <1>0, <1>1 DEF Goto, TypeOK
\* Inside a batch and at its end, the invocation goes on with its job.
<1>2. ASSUME NEW stage \in Inside, NEW local, Goto(w, stage, local), local.job = wk[w].job,
             pc[w] \in Inside, UNCHANGED rowVars, queue' = queue
      PROVE  ActiveIsDriven'
  <2>1. PICK j \in Jobs : j = wk[w].job
    BY <1>0, <1>2 DEF Inside
  <2>2. job[j].status # "PENDING"
    BY <1>2, <2>1 DEF DrivenInv, HolderInv, Unheld, WorksOn
  <2> QED
    BY <1>0, <1>1, <1>2, <2>1, <2>2, DriverStep DEF rowVars
<1>3. ASSUME NEW e, Throw(w, e), pc[w] \in Inside, UNCHANGED rowVars PROVE ActiveIsDriven'
  <2>1. [wk[w] EXCEPT !.error = e].job = wk[w].job /\ "handle" \in Inside
    BY <1>0 DEF Local, Inside
  <2> QED
    BY <1>2, <1>3, <2>1 DEF Throw
\* It leaves a job that is not its to carry on, or leaves a message for it.
<1>4. ASSUME Idle(w), pc[w] # "idle", queue \subseteq queue',
             \A k \in Jobs \ {wk[w].job} : job'[k].status = job[k].status,
             \/ job'[wk[w].job].status \notin Active
             \/ job'[wk[w].job].status = "PENDING" /\ wk[w].job \in queue'
      PROVE  ActiveIsDriven'
  <2>1. PICK j \in Jobs : j = wk[w].job
    BY <1>0, <1>4
  <2>2. \A v \in Workers \ {w} : pc'[v] = pc[v] /\ wk'[v].job = wk[v].job
    BY <1>1, <1>4 DEF Idle
  <2> QED
    BY <1>0, <1>4, <2>1, <2>2, DriverStep DEF Active
<1>5. CASE Deliver(w)
  <2>1. PICK j \in queue :
           /\ queue \ {j} \subseteq queue'
           /\ IF IsActive(j)
                THEN Goto(w, "claim", [Blank EXCEPT !.job = j, !.unstarted = (job[j].started = 0)])
                ELSE Idle(w)
    BY <1>5 DEF Deliver
  <2>2. j \in Jobs /\ pc[w] = "idle" /\ UNCHANGED rowVars
    BY <1>0, <1>5 DEF Deliver, TypeOK
  <2>3. [Blank EXCEPT !.job = j, !.unstarted = (job[j].started = 0)].job = j
    BY DEF Blank
  <2>4. ~WorksOn(w, j)
    BY <2>2 DEF WorksOn, Inside
  <2>5. CASE IsActive(j)
    <3>1. /\ \A v \in Workers \ {w} : pc'[v] = pc[v] /\ wk'[v].job = wk[v].job
          /\ pc'[w] = "claim" /\ wk'[w].job = j
      BY <1>1, <2>1, <2>3, <2>5
    <3>2. job' = job
      BY <2>2 DEF rowVars
    <3> QED
      BY <1>0, <2>1, <2>2, <2>4, <3>1, <3>2, DriverStep
  <2>6. CASE ~IsActive(j)
    BY <1>0, <1>1, <2>1, <2>2, <2>4, <2>6, DriverStep DEF rowVars, Idle, IsActive, Active
  <2> QED
    BY <2>5, <2>6
<1>6. CASE Claim(w)
  <2>1. PICK j \in Jobs : j = wk[w].job
    BY <1>0, <1>6 DEF Claim
  <2>2. pc[w] = "claim" /\ ~WorksOn(w, j) /\ queue' = queue
    BY <1>6, <1>a DEF Claim, WorksOn, Inside, Acknowledge
  <2>3. CASE Acknowledge(w) /\ job' = job /\ job[j].status # "PENDING"
    BY <1>0, <1>1, <2>1, <2>2, <2>3, DriverStep DEF Acknowledge, Idle
  <2>4. CASE Claimed(w) /\ Goto(w, "scan", [wk[w] EXCEPT !.row = job'[wk[w].job]])
    <3>1. \A k \in Jobs : job'[k].status = IF k = j THEN "RUNNING" ELSE job[k].status
      BY <1>0, <2>1, <2>2, <2>4 DEF Claimed, TypeOK, Row
    <3>2. [wk[w] EXCEPT !.row = job'[wk[w].job]].job = j /\ "scan" \in Inside
      BY <1>0, <2>1 DEF Local, Inside
    <3>3. /\ \A v \in Workers \ {w} : pc'[v] = pc[v] /\ wk'[v].job = wk[v].job
          /\ pc'[w] \in Inside /\ wk'[w].job = j
      BY <1>1, <2>4, <3>2
    <3> QED
      BY <1>0, <2>1, <2>2, <3>1, <3>3, DriverStep
  <2> QED
    BY <1>6, <1>a, <2>1, <2>3, <2>4 DEF Claim
<1>7. CASE FetchPage(w)
  <2>1. PICK page : Goto(w, "scan", [wk[w] EXCEPT !.row.scanStarted = TRUE,
                                        !.row.scroll = (page # {}), !.row.buffer = page])
    BY <1>7 DEF FetchPage
  <2>2. [wk[w] EXCEPT !.row.scanStarted = TRUE, !.row.scroll = (page # {}),
                      !.row.buffer = page].job = wk[w].job
    BY <1>0 DEF Local
  <2>3. pc[w] \in Inside /\ "scan" \in Inside /\ UNCHANGED rowVars /\ queue' = queue
    BY <1>7 DEF FetchPage, Inside
  <2> QED
    BY <1>2, <2>1, <2>2, <2>3
<1>8. CASE ReadBatch(w)
  <2>1. PICK batch, bad : Goto(w, "save", [wk[w] EXCEPT !.batch = batch, !.bad = bad,
                                 !.todo = ParentsOf(batch \ bad), !.at = clock])
    BY <1>8 DEF ReadBatch
  <2>2. [wk[w] EXCEPT !.batch = batch, !.bad = bad,
                      !.todo = ParentsOf(batch \ bad), !.at = clock].job = wk[w].job
    BY <1>0 DEF Local
  <2>3. pc[w] \in Inside /\ "save" \in Inside /\ UNCHANGED rowVars /\ queue' = queue
    BY <1>8 DEF ReadBatch, Inside
  <2> QED
    BY <1>2, <2>1, <2>2, <2>3
<1>9. CASE ScanEnded(w)
  BY <1>2, <1>9 DEF ScanEnded, Inside
<1>10. CASE SaveParent(w) \/ MarkSeen(w)
  BY <1>0, <1>10, SavingMoves DEF ActiveIsDriven, WorksOn, rowVars
<1>11. CASE StepFails(w)
  BY <1>3, <1>11 DEF StepFails, Inside
<1>12. CASE CleanUp(w)
  <2>1. pc[w] \in Inside /\ "complete" \in Inside /\ UNCHANGED rowVars
        /\ Goto(w, "complete", wk[w]) /\ queue' = queue
    BY <1>12, <1>a DEF CleanUp, Inside
  <2> QED
    BY <1>2, <2>1
<1>13. CASE SendNext(w)
  <2>1. PICK j \in Jobs : j = wk[w].job
    BY <1>0, <1>13 DEF SendNext
  <2>2. ~WorksOn(w, j) /\ Idle(w) /\ queue' = queue \cup {j} /\ UNCHANGED rowVars
    BY <1>13, <2>1 DEF SendNext, WorksOn, Inside, GiveBack
  <2> QED
    BY <1>0, <1>1, <2>1, <2>2, DriverStep DEF Idle, rowVars
<1>14. CASE Crash(w)
  BY <1>a, <1>14 DEF Crash
<1>15. CASE Checkpoint(w) \/ RefuseCompletion(w) \/ Complete(w) \/ HandleError(w)
  <2>1. pc[w] \in Inside
    BY <1>15 DEF Checkpoint, Saved, NotRunning, RefuseCompletion, Complete, HandleError, Inside
  <2>2. PICK j \in Jobs : j = wk[w].job /\ job[j] \in Row
    BY <1>0, <2>1 DEF Inside
  <2>3. job[j].status # "PENDING"
    BY <2>1, <2>2 DEF DrivenInv, HolderInv, Unheld, WorksOn
  <2>4. CASE NotRunning(w)
    BY <1>3, <2>1, <2>4 DEF NotRunning
  <2>5. CASE ~Running(w) /\ Acknowledge(w) /\ UNCHANGED rowVars
    <3>1. job'[j].status \notin Active /\ job' = job
      BY <2>2, <2>3, <2>5 DEF Running, Active, rowVars
    <3> QED
      BY <1>4, <2>1, <2>2, <2>5, <3>1 DEF Acknowledge, Inside
  <2>6. CASE SetStatus(wk[w].job, "FAILED") /\ Acknowledge(w)
    <3>1. \A k \in Jobs : job'[k].status = IF k = j THEN "FAILED" ELSE job[k].status
      BY <1>0, <2>2, <2>6 DEF SetStatus, TypeOK, Row
    <3> QED
      BY <1>4, <2>1, <2>2, <2>6, <3>1 DEF Acknowledge, Inside, Active
  <2>7. CASE SetStatus(wk[w].job, "COMPLETED") /\ Acknowledge(w)
    <3>1. \A k \in Jobs : job'[k].status = IF k = j THEN "COMPLETED" ELSE job[k].status
      BY <1>0, <2>2, <2>7 DEF SetStatus, TypeOK, Row
    <3> QED
      BY <1>4, <2>1, <2>2, <2>7, <3>1 DEF Acknowledge, Inside, Active
  <2>8. CASE Checkpoint(w) /\ Running(w)
    <3>1. /\ queue' = queue
          /\ job' = [job EXCEPT ![wk[w].job] = [Progress(w) EXCEPT !.status =
                IF FirstBatchFailed(w) THEN "FAILED" ELSE "PENDING"]]
          /\ IF FirstBatchFailed(w) THEN Idle(w) ELSE Goto(w, "send", wk[w])
      BY <1>a, <2>8 DEF Checkpoint, NotRunning
    <3>2. /\ \A k \in Jobs \ {j} : job'[k].status = job[k].status
          /\ job'[j].status = IF FirstBatchFailed(w) THEN "FAILED" ELSE "PENDING"
      BY <1>0, <2>2, <3>1 DEF Progress, TypeOK, Row
    <3>3. CASE FirstBatchFailed(w)
      BY <1>4, <2>1, <2>2, <3>1, <3>2, <3>3 DEF Inside, Active
    <3>4. CASE ~FirstBatchFailed(w)
      BY <1>0, <1>1, <2>2, <3>1, <3>2, <3>4, DriverStep
    <3> QED
      BY <3>3, <3>4
  <2>9. CASE HandleError(w) /\ Running(w)
    <3>1. wk[w].error # "conflict"
      BY <2>2, <2>9 DEF DrivenInv, ConflictIsFinal, HandleError, Running
    <3>2. GiveBack(w) /\ job' = [job EXCEPT ![wk[w].job] = AfterError(w)]
      BY <1>a, <2>9, <3>1 DEF HandleError
    <3>3. /\ \A k \in Jobs \ {j} : job'[k].status = job[k].status
          /\ job'[j].status \in {"FAILED", "PENDING"}
      BY <1>0, <2>2, <3>2 DEF AfterError, TypeOK, Row
    <3> QED
      BY <1>4, <2>1, <2>2, <3>2, <3>3 DEF GiveBack, Inside, Active
  <2> QED
    BY <1>a, <1>15, <2>4, <2>5, <2>6, <2>7, <2>8, <2>9
    DEF Checkpoint, RefuseCompletion, Complete, HandleError
<1> QED
  BY <1>5, <1>6, <1>7, <1>8, <1>9, <1>10, <1>11, <1>12, <1>13, <1>14, <1>15 DEF Work

\* A conflict is thrown by whoever finds its job not running, which by Unheld is
\* a job that has ended; and no step gives a status to a job that has ended.
LEMMA WorkerConflicts ==
    ASSUME DrivenInv, NEW w \in Workers,
           Deliver(w) \/ Work(w) \/ StepFails(w) \/ Crash(w)
    PROVE  ConflictIsFinal'
<1> DEFINE Ended(k) == job[k].status \notin {"NEW", "PENDING", "RUNNING"}
<1>0. /\ TypeOK /\ wk[w] \in Local /\ row(w) \in Row
      /\ \A v \in Workers : pc[v] # "idle" => wk[v].job \in Jobs
      /\ pc[w] # "idle" => job[wk[w].job] \in Row
  BY DEF DrivenInv, HolderInv, TypeOK, Busy, Local, row
<1>1. \A k \in Jobs : Ended(k) => job'[k].status = job[k].status
  <2>1. CASE UNCHANGED rowVars
    BY <2>1 DEF rowVars
  <2>2. ASSUME NEW r, job' = [job EXCEPT ![wk[w].job] = r],
               job[wk[w].job].status \in {"PENDING", "RUNNING"}
        PROVE  \A k \in Jobs : Ended(k) => job'[k].status = job[k].status
    BY <1>0, <2>2 DEF TypeOK
  <2>3. CASE Claim(w)
    <3>1. CASE job' = job
      BY <3>1
    <3>2. CASE job[wk[w].job].status = "PENDING" /\ Claimed(w)
      <4>1. PICK t : job' = [job EXCEPT ![wk[w].job].status = "RUNNING", ![wk[w].job].started = t]
        BY <3>2 DEF Claimed
      <4>2. \A k \in Jobs \ {wk[w].job} : job'[k] = job[k]
        BY <1>0, <4>1 DEF TypeOK
      <4> QED
        BY <3>2, <4>2
    <3> QED
      BY <2>3, <3>1, <3>2 DEF Claim
  <2>4. CASE Checkpoint(w)
    BY <2>1, <2>2, <2>4 DEF Checkpoint, NotRunning, Running
  <2>5. CASE RefuseCompletion(w)
    BY <2>1, <2>2, <2>5 DEF RefuseCompletion, SetStatus, NotRunning, Running
  <2>6. CASE Complete(w)
    BY <2>1, <2>2, <2>6 DEF Complete, SetStatus, Running
  <2>7. CASE HandleError(w)
    BY <2>1, <2>2, <2>7 DEF HandleError, Running
  <2>8. CASE SaveParent(w) \/ MarkSeen(w)
    BY <1>0, <2>1, <2>8, SavingMoves
  <2> QED
    BY <2>1, <2>3, <2>4, <2>5, <2>6, <2>7, <2>8
    DEF Work, Deliver, StepFails, Crash, FetchPage, ScanEnded, ReadBatch, SendNext, CleanUp
<1>2. CASE SaveParent(w) \/ MarkSeen(w)
  BY <1>0, <1>1, <1>2, SavingMoves DEF DrivenInv, ConflictIsFinal
<1>3. ASSUME NEW stage, NEW local, Goto(w, stage, local),
             stage = "handle" /\ local.error = "conflict" => local.job \in Jobs /\ Ended(local.job)
      PROVE  ConflictIsFinal'
  BY <1>0, <1>1, <1>3 DEF Goto, TypeOK, DrivenInv, ConflictIsFinal
<1>4. CASE \E stage \in Stage \ {"handle"} : \E local : Goto(w, stage, local)
  BY <1>3, <1>4
<1>5. ASSUME NEW e \in {"retryable", "fatal"}, Throw(w, e) PROVE ConflictIsFinal'
  <2>1. [wk[w] EXCEPT !.error = e].error = e
    BY <1>0 DEF Local
  <2> QED
    BY <1>3, <1>5, <2>1 DEF Throw
<1>6. CASE NotRunning(w) /\ pc[w] \in Inside
  <2>1. PICK j \in Jobs : j = wk[w].job
    BY <1>0, <1>6 DEF Inside
  <2>2. Ended(j)
    BY <1>6, <2>1 DEF NotRunning, Running, DrivenInv, HolderInv, Unheld, WorksOn
  <2>3. [wk[w] EXCEPT !.error = "conflict"].job = j
    BY <1>0, <2>1 DEF Local
  <2> QED
    BY <1>3, <1>6, <2>2, <2>3 DEF NotRunning, Throw
<1>7. CASE Checkpoint(w) \/ RefuseCompletion(w)
  <2>1. pc[w] \in Inside
    BY <1>7 DEF Checkpoint, Saved, RefuseCompletion, Inside
  <2> QED
    BY <1>4, <1>5, <1>6, <1>7, <2>1
    DEF Checkpoint, RefuseCompletion, Acknowledge, Idle, Stage
<1>8. CASE StepFails(w) \/ CleanUp(w)
  BY <1>4, <1>5, <1>8 DEF StepFails, CleanUp, Stage
<1>9. CASE Deliver(w) \/ Claim(w) \/ FetchPage(w) \/ ScanEnded(w) \/ ReadBatch(w)
           \/ SendNext(w) \/ Complete(w) \/ HandleError(w) \/ Crash(w)
  BY <1>4, <1>9 DEF Deliver, Claim, FetchPage, ScanEnded, ReadBatch, SendNext, Complete,
                    HandleError, Crash, Acknowledge, GiveBack, Idle, Stage
<1> QED
  BY <1>2, <1>7, <1>8, <1>9 DEF Work

\* NoJobLost: while no answer and no update is lost and no function is killed, an
\* active job always has an invocation or a message that carries it on, whatever
\* fails, is delivered twice, started twice or cancelled.
THEOREM NoJobLost ==
    ASSUME FaultKinds \cap Severing = {}
    PROVE  Spec => []ActiveIsDriven
<1>1. Init => DrivenInv
  BY InitHolds
<1>2. DrivenInv /\ [Next]_vars => DrivenInv'
  <2> SUFFICES ASSUME DrivenInv, [Next]_vars PROVE DrivenInv'
    OBVIOUS
  <2>1. "lost" \notin FaultKinds /\ "unsent" \notin FaultKinds
    BY DEF Severing
  <2>2. HolderInv'
    BY <2>1, HolderStep DEF DrivenInv
  <2>3. ConflictIsFinal' /\ ActiveIsDriven'
    <3>1. CASE UNCHANGED vars
      BY <3>1 DEF vars, DrivenInv, ConflictIsFinal, ActiveIsDriven, WorksOn
    <3> QED
      BY <2>1, <3>1, UserDriven, WorkerDriven, WorkerConflicts DEF Next
  <2> QED
    BY <2>2, <2>3 DEF DrivenInv
<1>3. DrivenInv => ActiveIsDriven
  BY DEF DrivenInv
<1> QED
  BY <1>1, <1>2, <1>3, PTL DEF Spec

-----------------------------------------------------------------------------
(* What the clean-up leaves: as long as no invocation works on an earlier   *)
(* job.                                                                     *)

LatestOnly == \A w \in Workers : ~Stale(w)

\* Only the last job can be active, and nobody has the message of a later one.
OnlyLast == \A j \in Jobs : IsActive(j) => j = last
Taken == \A w \in Workers : pc[w] # "idle" => wk[w].job <= last

JobsInv == TypeOK /\ Busy /\ Numbered /\ OnlyLast /\ Taken

Listed == ParentsOf(catalogue)
Exact == stored = Listed

\* Rows the last job has marked, and the publications they are for.
Marked == {p \in stored : seen[p] = last}
MarkedItems == {i \in Items : ParentOf[i] \in Marked}

\* The publications a row has counted: they are out of its buffer and of the scroll,
\* and marked unless one of them failed.
Traced(r) == \E done \in SUBSET catalogue :
    /\ Cardinality(done) = r.processed /\ done \cap r.buffer = {}
    /\ (done \cup r.buffer) \cap cursor[last] = {}
    /\ r.failed \/ done \subseteq MarkedItems

RowFine(r) ==
    /\ r.buffer \subseteq catalogue /\ r.total = Cardinality(catalogue)
    /\ r.scanStarted \/ (r.buffer = {} /\ r.processed = 0)
    /\ Traced(r)

\* A batch that is saved: its parents are to be saved, to be marked or marked.
SaveFine(l) ==
    /\ l.batch # {} /\ l.batch \subseteq l.row.buffer
    /\ l.todo \cup l.open \subseteq Listed /\ l.open \subseteq stored
    /\ ParentsOf(l.batch \ l.bad) \subseteq l.todo \cup l.open \cup Marked

\* What an invocation knows at a stage, with l for its local variables.
FineAt(stage, l) ==
    /\ stage = "claim" => l.unstarted \/ l.job # last \/ job[last].started > 0
    /\ stage \in {"claim", "scan"} => l.open = {}
    /\ stage \in Inside =>
          /\ RowFine(l.row) /\ l.row.started > 0
          /\ job[last].scanStarted => l.row.scanStarted
    /\ stage = "save" => SaveFine(l)
    /\ stage = "complete" => Exact

Fine(w) == FineAt(pc[w], wk[w])

\* Until the first checkpoint one invocation at most works on the job.
FirstAlone ==
    last > 0 /\ ~job[last].scanStarted =>
        /\ \A v, w \in Workers : pc[v] \in Inside /\ pc[w] \in Inside => v = w
        /\ job[last].status = "PENDING" => \A w \in Workers : pc[w] \notin Inside

\* Nothing is known of what is not listed.
Foreign ==
    /\ \A p \in Parents \ Listed : stamp[p] = 0 /\ seen[p] = 0
    /\ notice # NoNotice => notice.parent \in Listed

Totals ==
    /\ \A c \in Clients : count[c] \in {NoCount, Cardinality(catalogue)}
    /\ \A j \in Jobs : scanned[j] \subseteq catalogue /\ cursor[j] \subseteq catalogue

LastFine == last > 0 => RowFine(job[last]) /\ (job[last].status = "COMPLETED" => Exact)

ExactInv ==
    /\ JobsInv /\ Foreign /\ Totals /\ FirstAlone /\ LastFine
    /\ \A w \in Workers : Fine(w)

\* A step of one invocation leaves the others where they are.
LEMMA OthersStay ==
    ASSUME TypeOK, NEW w \in Workers, Deliver(w) \/ Work(w) \/ StepFails(w) \/ Crash(w)
    PROVE  \A v \in Workers \ {w} : pc'[v] = pc[v] /\ wk'[v] = wk[v]
<1>1. ASSUME NEW stage, NEW local, Goto(w, stage, local)
      PROVE  \A v \in Workers \ {w} : pc'[v] = pc[v] /\ wk'[v] = wk[v]
  BY <1>1 DEF Goto, TypeOK
<1>2. CASE SaveParent(w)
  <2>1. PICK p \in wk[w].todo :
           wk' = [wk EXCEPT ![w].todo = @ \ {p}, ![w].open = @ \cup {p}]
    BY <1>2 DEF SaveParent
  <2> QED
    BY <1>2, <2>1 DEF SaveParent, TypeOK
<1>3. CASE MarkSeen(w)
  <2>1. PICK p \in wk[w].open : wk' = [wk EXCEPT ![w].open = @ \ {p}]
    BY <1>3 DEF MarkSeen
  <2> QED
    BY <1>3, <2>1 DEF MarkSeen, TypeOK
<1>4. CASE Deliver(w)
  BY <1>1, <1>4 DEF Deliver, Idle
<1>5. CASE Claim(w) \/ Checkpoint(w) \/ RefuseCompletion(w)
  BY <1>1, <1>5 DEF Claim, Checkpoint, RefuseCompletion, NotRunning, Acknowledge, GiveBack, Idle, Throw
<1>6. CASE FetchPage(w)
  BY <1>1, <1>6 DEF FetchPage
<1>7. CASE ReadBatch(w)
  BY <1>1, <1>7 DEF ReadBatch
<1>8. CASE ScanEnded(w) \/ SendNext(w) \/ CleanUp(w) \/ Complete(w) \/ HandleError(w)
           \/ StepFails(w) \/ Crash(w)
  BY <1>1, <1>8 DEF ScanEnded, SendNext, CleanUp, Complete, HandleError, StepFails, Crash,
                    Acknowledge, GiveBack, Idle, Throw
<1> QED
  BY <1>2, <1>3, <1>4, <1>5, <1>6, <1>7, <1>8 DEF Work

\* What a step does to the rows of the jobs: nothing, a new job when none is active,
\* or a change of one that is.
NewJob == /\ last < MaxJobs /\ last' = last + 1 /\ \A j \in Jobs : ~IsActive(j)
          /\ \E c \in Clients : count[c] # NoCount /\
                job' = [job EXCEPT ![last'] = [NewRow(count[c]) EXCEPT !.status = "PENDING"]]
Changes(j) == /\ IsActive(j) /\ last' = last /\ job'[j].status # "NEW"
              /\ \A k \in Jobs \ {j} : job'[k] = job[k]

\* No step does anything else to them.
LEMMA RowsStep ==
    ASSUME TypeOK, Busy, [Next]_vars
    PROVE  UNCHANGED rowVars \/ NewJob \/ \E j \in Jobs : Changes(j)
<1>1. CASE \/ UNCHANGED vars \/ NoticeSaved \/ StartActive
           \/ \E i \in Items : Publish(i) \/ Withdraw(i) \/ NoticeRead(i)
           \/ \E c \in Clients : CountItems(c)
  BY <1>1 DEF vars, rowVars, NoticeSaved, StartActive, Publish, Withdraw, NoticeRead, CountItems
<1>2. ASSUME NEW c \in Clients, CreateJob(c) PROVE UNCHANGED rowVars \/ NewJob
  BY <1>2 DEF CreateJob, NewJob
<1>3. ASSUME NEW j \in Jobs, Cancel(j) PROVE Changes(j)
  BY <1>3 DEF Cancel, Changes, TypeOK, Row
<1>4. ASSUME NEW w \in Workers, Deliver(w) \/ Work(w) \/ StepFails(w) \/ Crash(w)
      PROVE  UNCHANGED rowVars \/ \E j \in Jobs : Changes(j)
  <2>1. CASE \/ Deliver(w) \/ FetchPage(w) \/ ScanEnded(w) \/ ReadBatch(w) \/ SaveParent(w)
             \/ MarkSeen(w) \/ SendNext(w) \/ CleanUp(w) \/ StepFails(w) \/ Crash(w)
    BY <2>1 DEF Deliver, FetchPage, ScanEnded, ReadBatch, SaveParent, MarkSeen, SendNext,
                CleanUp, StepFails, Crash, rowVars
  <2>2. ASSUME pc[w] # "idle"
        PROVE  wk[w].job \in Jobs /\ job[wk[w].job] \in Row
    BY <2>2 DEF TypeOK, Busy
  <2>3. ASSUME NEW j \in Jobs, IsActive(j), last' = last, NEW r, r.status # "NEW",
               job' = [job EXCEPT ![j] = r]
        PROVE  Changes(j)
    BY <2>3 DEF Changes, TypeOK
  <2>4. CASE Claim(w)
    <3>1. PICK j \in Jobs : j = wk[w].job
      BY <2>2, <2>4 DEF Claim
    <3>2. last' = last
      BY <2>4 DEF Claim
    <3>3. CASE job' = job
      BY <3>2, <3>3 DEF rowVars
    <3>4. CASE job[j].status = "PENDING" /\ Claimed(w)
      <4>1. /\ \A k \in Jobs \ {j} : job'[k] = job[k]
            /\ job'[j].status = "RUNNING"
        BY <3>1, <3>4 DEF Claimed, TypeOK, Row
      <4>2. IsActive(j)
        BY <3>4 DEF IsActive, Active
      <4> QED
        BY <3>2, <4>1, <4>2 DEF Changes
    <3> QED
      BY <2>4, <3>1, <3>3, <3>4 DEF Claim
  <2>5. CASE Checkpoint(w) \/ RefuseCompletion(w) \/ Complete(w) \/ HandleError(w)
    <3>1. PICK j \in Jobs : j = wk[w].job /\ job[j] \in Row
      BY <2>2, <2>5 DEF Checkpoint, Saved, RefuseCompletion, Complete, HandleError
    <3>2. CASE UNCHANGED rowVars
      BY <3>2
    <3>3. ASSUME ~UNCHANGED rowVars PROVE Running(w) /\ last' = last
      BY <2>5, <3>3 DEF Checkpoint, RefuseCompletion, Complete, HandleError, NotRunning, SetStatus
    <3>4. Running(w) => IsActive(j)
      BY <3>1 DEF Running, IsActive, Active
    <3>5. ASSUME ~UNCHANGED rowVars
          PROVE  \E r : r.status # "NEW" /\ job' = [job EXCEPT ![j] = r]
      <4>1. CASE Checkpoint(w)
        <5>1. [Progress(w) EXCEPT !.status = IF FirstBatchFailed(w) THEN "FAILED" ELSE "PENDING"].status
                 # "NEW"
          BY <3>1 DEF Progress, Row
        <5> QED
          BY <3>1, <3>5, <4>1, <5>1 DEF Checkpoint, NotRunning
      <4>2. ASSUME NEW s \in {"FAILED", "COMPLETED"}, SetStatus(wk[w].job, s)
            PROVE  \E r : r.status # "NEW" /\ job' = [job EXCEPT ![j] = r]
        <5>1. job' = [job EXCEPT ![j] = [job[j] EXCEPT !.status = s]]
          BY <3>1, <4>2 DEF SetStatus
        <5>2. [job[j] EXCEPT !.status = s].status # "NEW"
          BY <3>1 DEF Row
        <5> QED
          BY <5>1, <5>2
      <4>3. CASE HandleError(w)
        <5>1. AfterError(w).status # "NEW"
          BY <3>1 DEF AfterError, Row
        <5> QED
          BY <3>1, <3>5, <4>3, <5>1 DEF HandleError
      <4> QED
        BY <2>5, <3>5, <4>1, <4>2, <4>3 DEF RefuseCompletion, Complete, NotRunning
    <3> QED
      BY <2>3, <3>2, <3>3, <3>4, <3>5
  <2> QED
    BY <1>4, <2>1, <2>4, <2>5 DEF Work
<1> QED
  BY <1>1, <1>2, <1>3, <1>4 DEF Next

\* An invocation keeps its job, or takes the message of an active one.
LEMMA TakenStep ==
    ASSUME TypeOK, Busy, OnlyLast, Taken, [Next]_vars
    PROVE  \A v \in Workers : pc'[v] # "idle" => wk'[v].job <= last
<1>1. CASE UNCHANGED workVars
  BY <1>1 DEF workVars, Taken
<1>2. CASE \/ UNCHANGED vars \/ NoticeSaved \/ StartActive
           \/ \E i \in Items : Publish(i) \/ Withdraw(i) \/ NoticeRead(i)
           \/ \E c \in Clients : CountItems(c) \/ CreateJob(c)
           \/ \E j \in Jobs : Cancel(j)
  <2>1. UNCHANGED workVars
    BY <1>2 DEF vars, workVars, NoticeSaved, StartActive, Publish, Withdraw, NoticeRead,
                CountItems, CreateJob, Cancel
  <2> QED
    BY <1>1, <2>1
<1>3. ASSUME NEW w \in Workers, Deliver(w) \/ Work(w) \/ StepFails(w) \/ Crash(w)
      PROVE  \A v \in Workers : pc'[v] # "idle" => wk'[v].job <= last
  <2>1. \A v \in Workers \ {w} : pc'[v] = pc[v] /\ wk'[v] = wk[v]
    BY <1>3, OthersStay
  <2>2. wk[w] \in Local /\ (pc[w] # "idle" => wk[w].job <= last)
    BY DEF TypeOK, Taken
  <2>3. pc'[w] # "idle" => wk'[w].job <= last
    <3>1. ASSUME NEW stage, NEW local, Goto(w, stage, local),
                 stage # "idle" => local.job <= last
          PROVE  pc'[w] # "idle" => wk'[w].job <= last
      BY <3>1 DEF Goto, TypeOK
    <3>2. CASE SaveParent(w) \/ MarkSeen(w)
      BY <2>2, <3>2, SavingMoves
    <3>3. ASSUME NEW e, Throw(w, e), pc[w] # "idle" PROVE pc'[w] # "idle" => wk'[w].job <= last
      <4>1. [wk[w] EXCEPT !.error = e].job <= last
        BY <2>2, <3>3 DEF Local
      <4> QED
        BY <3>1, <3>3, <4>1 DEF Throw
    <3>4. CASE Idle(w)
      BY <3>1, <3>4 DEF Idle
    <3>5. CASE Deliver(w)
      <4>1. PICK j \in queue :
               IF IsActive(j)
                 THEN Goto(w, "claim", [Blank EXCEPT !.job = j, !.unstarted = (job[j].started = 0)])
                 ELSE Idle(w)
        BY <3>5 DEF Deliver
      <4>2. IsActive(j) => j <= last
        BY DEF OnlyLast, TypeOK
      <4>3. [Blank EXCEPT !.job = j, !.unstarted = (job[j].started = 0)].job = j
        BY DEF Blank
      <4> QED
        BY <3>1, <3>4, <4>1, <4>2, <4>3
    <3>6. CASE Claim(w)
      <4>1. pc[w] # "idle" /\ [wk[w] EXCEPT !.row = job'[wk[w].job]].job = wk[w].job
        BY <2>2, <3>6 DEF Claim, Local
      <4> QED
        BY <2>2, <3>1, <3>4, <3>6, <4>1 DEF Claim, Acknowledge, GiveBack
    <3>7. CASE FetchPage(w)
      <4>1. PICK page : Goto(w, "scan", [wk[w] EXCEPT !.row.scanStarted = TRUE,
                                            !.row.scroll = (page # {}), !.row.buffer = page])
        BY <3>7 DEF FetchPage
      <4>2. [wk[w] EXCEPT !.row.scanStarted = TRUE, !.row.scroll = (page # {}),
                          !.row.buffer = page].job <= last
        BY <2>2, <3>7 DEF FetchPage, Local
      <4> QED
        BY <3>1, <4>1, <4>2
    <3>8. CASE ReadBatch(w)
      <4>1. PICK batch, bad : Goto(w, "save", [wk[w] EXCEPT !.batch = batch, !.bad = bad,
                                     !.todo = ParentsOf(batch \ bad), !.at = clock])
        BY <3>8 DEF ReadBatch
      <4>2. [wk[w] EXCEPT !.batch = batch, !.bad = bad,
                          !.todo = ParentsOf(batch \ bad), !.at = clock].job <= last
        BY <2>2, <3>8 DEF ReadBatch, Local
      <4> QED
        BY <3>1, <4>1, <4>2
    <3>9. CASE ScanEnded(w) \/ Checkpoint(w) \/ RefuseCompletion(w) \/ CleanUp(w) \/ StepFails(w)
      <4>1. pc[w] # "idle"
        BY <3>9 DEF ScanEnded, Checkpoint, Saved, RefuseCompletion, CleanUp, StepFails
      <4>2. Idle(w) \/ (\E stage : Goto(w, stage, wk[w])) \/ \E e : Throw(w, e)
        BY <3>9 DEF ScanEnded, Checkpoint, RefuseCompletion, CleanUp, StepFails, NotRunning,
                    Acknowledge
      <4> QED
        BY <2>2, <3>1, <3>3, <3>4, <4>1, <4>2
    <3>10. CASE SendNext(w) \/ Complete(w) \/ HandleError(w) \/ Crash(w)
      BY <3>4, <3>10 DEF SendNext, Complete, HandleError, Crash, Acknowledge, GiveBack
    <3> QED
      BY <1>3, <3>2, <3>5, <3>6, <3>7, <3>8, <3>9, <3>10 DEF Work
  <2> QED
    BY <2>1, <2>3 DEF Taken
<1> QED
  BY <1>2, <1>3 DEF Next

\* JobsInv holds under every fault: jobs that are not the last have ended.
LEMMA JobsStep == ASSUME JobsInv, [Next]_vars PROVE JobsInv'
<1>1. TypeOK' /\ Busy'
  BY TypeStep, BusyStep DEF JobsInv
<1>2. UNCHANGED rowVars \/ NewJob \/ \E j \in Jobs : Changes(j)
  BY RowsStep DEF JobsInv
<1>3. last \in Nat /\ last' \in Nat /\ last <= last'
  BY <1>1, <1>2 DEF JobsInv, TypeOK, rowVars, NewJob, Changes
<1>4. Taken'
  <2>1. \A v \in Workers : pc'[v] # "idle" => wk'[v].job <= last /\ wk'[v].job \in Nat
    BY <1>1, TakenStep DEF JobsInv, TypeOK, Local
  <2> QED
    BY <1>3, <2>1 DEF Taken
<1>5. Numbered' /\ OnlyLast'
  <2>1. CASE UNCHANGED rowVars
    BY <2>1 DEF JobsInv, Numbered, OnlyLast, IsActive, rowVars
  <2>2. CASE NewJob
    <3>1. PICK c \in Clients :
            job' = [job EXCEPT ![last'] = [NewRow(count[c]) EXCEPT !.status = "PENDING"]]
      BY <2>2 DEF NewJob
    <3>2. \A k \in Jobs \ {last'} : job'[k] = job[k]
      BY <3>1 DEF JobsInv, TypeOK
    <3> QED
      BY <1>3, <2>2, <3>2 DEF NewJob, JobsInv, Numbered, OnlyLast, IsActive, Jobs
  <2>3. ASSUME NEW j \in Jobs, Changes(j) PROVE Numbered' /\ OnlyLast'
    BY <1>3, <2>3 DEF Changes, JobsInv, Numbered, OnlyLast, IsActive, Jobs
  <2> QED
    BY <1>2, <2>1, <2>2, <2>3
<1> QED
  BY <1>1, <1>4, <1>5 DEF JobsInv

\* At the start there is no job.
LEMMA JobsInit == Init => JobsInv
<1> SUFFICES ASSUME Init PROVE JobsInv
  OBVIOUS
<1>1. TypeOK /\ Busy /\ Numbered
  BY InitHolds DEF DrivenInv, HolderInv
<1>2. \A j \in Jobs : job[j].status = "NEW"
  BY DEF Init, NewRow
<1>3. OnlyLast /\ Taken
  BY <1>2 DEF Init, OnlyLast, IsActive, Active, Taken
<1> QED
  BY <1>1, <1>3 DEF JobsInv

\* What every step keeps, but the creation of a job.
Grow ==
    /\ catalogue' = catalogue /\ last' = last
    /\ Marked \subseteq Marked' /\ stored \cap Listed \subseteq stored'
    /\ Exact => stored' = Listed

\* What a row has counted stays true of it.
LEMMA RowGrows ==
    ASSUME TypeOK, NEW r \in Row, RowFine(r), Grow,
           r.scanStarted => cursor'[last] \subseteq cursor[last]
    PROVE  RowFine(r)'
<1>1. PICK done \in SUBSET catalogue :
         /\ Cardinality(done) = r.processed /\ done \cap r.buffer = {}
         /\ (done \cup r.buffer) \cap cursor[last] = {}
         /\ r.failed \/ done \subseteq MarkedItems
  BY DEF RowFine, Traced
<1>2. r.failed \/ done \subseteq MarkedItems'
  BY <1>1 DEF Grow, MarkedItems
<1>3. (done \cup r.buffer) \cap cursor'[last] = {}
  <2>1. CASE r.scanStarted
    BY <1>1, <2>1
  <2>2. CASE ~r.scanStarted
    <3>1. IsFiniteSet(done)
      BY SetsAssumption, FS_Subset DEF TypeOK
    <3>2. done = {} /\ r.buffer = {}
      BY <1>1, <2>2, <3>1, FS_EmptySet DEF RowFine
    <3> QED
      BY <3>2
  <2> QED
    BY <2>1, <2>2
<1>4. Traced(r)'
  BY <1>1, <1>2, <1>3 DEF Traced, Grow
<1> QED
  BY <1>4 DEF RowFine, Grow

\* And so does what an invocation that is left alone knows.
LEMMA FineGrows ==
    ASSUME TypeOK, NEW stage, NEW l \in Local, FineAt(stage, l), Grow,
           job[last].started > 0 => job'[last].started > 0,
           stage \in Inside =>
              /\ job'[last].scanStarted => l.row.scanStarted
              /\ l.row.scanStarted => cursor'[last] \subseteq cursor[last]
    PROVE  FineAt(stage, l)'
<1>0. Listed' = Listed /\ l.row \in Row
  BY DEF Grow, Listed, Local
<1>1. stage \in Inside => RowFine(l.row)'
  <2>1. PICK r \in Row : r = l.row
    BY <1>0
  <2> QED
    BY <2>1, RowGrows DEF FineAt
<1>2. stage = "save" => SaveFine(l)'
  <2>1. ASSUME SaveFine(l) PROVE SaveFine(l)'
    BY <1>0, <2>1 DEF SaveFine, Grow
  <2> QED
    BY <2>1 DEF FineAt
<1>3. stage = "complete" => Exact'
  BY <1>0 DEF FineAt, Exact, Grow
<1> QED
  BY <1>1, <1>2, <1>3 DEF FineAt, Grow

\* A row that has processed all there is, without failures, has marked it.
LEMMA AllMarked ==
    ASSUME TypeOK, NEW r, RowFine(r), r.processed = r.total, ~r.failed
    PROVE  Listed \subseteq Marked
<1>1. PICK done \in SUBSET catalogue :
         Cardinality(done) = Cardinality(catalogue) /\ done \subseteq MarkedItems
  BY DEF RowFine, Traced
<1>2. IsFiniteSet(catalogue)
  BY SetsAssumption, FS_Subset DEF TypeOK
<1>3. done = catalogue
  BY <1>1, <1>2, FS_Subset
<1> QED
  BY <1>1, <1>3 DEF Listed, ParentsOf, MarkedItems

\* An invocation at work is on the last job.
LEMMA AtLast ==
    ASSUME JobsInv, LatestOnly, NEW w \in Workers, pc[w] \in Inside
    PROVE  wk[w].job = last /\ last \in Jobs /\ last > 0
BY DEF JobsInv, LatestOnly, Stale, Busy, Inside, Jobs

\* What a clean-up leaves is what is listed, as far as the job has seen it.
LEMMA CleanUpLeaves ==
    ASSUME ExactInv, LatestOnly, NEW w \in Workers, CleanUp(w)
    PROVE  /\ NotSeen(w) \subseteq stored \ Listed /\ stored' = Listed
           /\ Listed \subseteq Marked
<1>0. pc[w] \in Inside /\ TypeOK /\ JobsInv
  BY DEF CleanUp, Inside, ExactInv, JobsInv
<1>1. wk[w].job = last
  BY <1>0, AtLast
<1>2. RowFine(row(w)) /\ row(w).started > 0
  BY <1>0 DEF ExactInv, Fine, FineAt, row
<1>3. row(w).processed = row(w).total /\ ~row(w).failed
  BY DEF CleanUp, CompletionFails
<1>4. Listed \subseteq Marked
  <2>1. PICK r : r = row(w)
    OBVIOUS
  <2> QED
    BY <1>0, <1>2, <1>3, <2>1, AllMarked
<1>5. NotSeen(w) = {p \in stored : stamp[p] < row(w).started /\ seen[p] # last}
  BY <1>1 DEF NotSeen
<1>6. NotSeen(w) \subseteq stored \ Listed
  BY <1>4, <1>5 DEF Marked
<1>7. \A p \in stored \ Listed : p \in NotSeen(w)
  <2>1. SUFFICES ASSUME NEW p \in stored \ Listed PROVE p \in NotSeen(w)
    OBVIOUS
  <2>2. stamp[p] = 0 /\ seen[p] = 0
    BY <1>0 DEF ExactInv, Foreign, TypeOK
  <2>3. last > 0
    BY <1>0, AtLast
  <2> QED
    BY <1>2, <1>5, <2>2, <2>3
<1>8. stored' = stored \ NotSeen(w)
  BY DEF CleanUp
<1> QED
  BY <1>4, <1>6, <1>7, <1>8 DEF Marked

\* While the catalogue stands, no step that creates no job takes away what is known.
LEMMA GrowStep ==
    ASSUME MaxChanges = 0, ExactInv, LatestOnly, [Next]_vars, last' = last
    PROVE  Grow /\ Foreign' /\ Totals'
<1>0. TypeOK /\ JobsInv /\ Foreign /\ Totals
  BY DEF ExactInv, JobsInv
<1>1. changes = 0
  BY <1>0 DEF TypeOK
<1>2. ASSUME UNCHANGED snapVars, catalogue' = catalogue PROVE Grow
  BY <1>2 DEF snapVars, Grow, Marked, Listed, Exact
<1>3. ASSUME UNCHANGED snapVars, catalogue' = catalogue, notice' = notice PROVE Grow /\ Foreign'
  BY <1>0, <1>2, <1>3 DEF Foreign, Listed, snapVars
<1>4. ASSUME UNCHANGED <<catalogue, cursor, scanned, count>> PROVE Totals'
  BY <1>0, <1>4 DEF Totals
<1>5. ASSUME NEW p \in Listed, NEW at, Upserted(p, at), catalogue' = catalogue, notice' \in {notice, NoNotice}
      PROVE  Grow /\ Foreign'
  <2>1. Listed' = Listed /\ p \in Parents /\ p \in Listed
    BY <1>0, <1>5, SetsAssumption DEF Listed, ParentsOf, TypeOK
  <2>2. /\ stored' = stored \cup {p} /\ seen' = seen
        /\ \A q \in Parents \ {p} : stamp'[q] = stamp[q]
    BY <1>0, <1>5 DEF Upserted, TypeOK
  <2>3. Grow
    BY <1>5, <2>1, <2>2 DEF Grow, Marked, Exact
  <2>4. Foreign'
    BY <1>0, <1>5, <2>1, <2>2 DEF Foreign
  <2> QED
    BY <2>3, <2>4
<1>6. CASE UNCHANGED vars
  BY <1>3, <1>4, <1>6 DEF vars, snapVars
<1>7. ASSUME NEW i \in Items, Publish(i) \/ Withdraw(i) PROVE FALSE
  BY <1>1, <1>7 DEF Publish, Withdraw
<1>8. ASSUME NEW i \in Items, NoticeRead(i) PROVE Grow /\ Foreign' /\ Totals'
  <2>1. Grow /\ Totals'
    BY <1>2, <1>4, <1>8 DEF NoticeRead, sellerVars
  <2>2. notice'.parent \in Listed
    BY <1>8 DEF NoticeRead, Listed, ParentsOf
  <2>3. Listed' = Listed /\ UNCHANGED snapVars
    BY <1>8 DEF NoticeRead, Listed, sellerVars
  <2> QED
    BY <1>0, <2>1, <2>2, <2>3 DEF Foreign, snapVars
<1>9. CASE NoticeSaved
  <2>1. notice.parent \in Listed
    BY <1>0, <1>9 DEF NoticeSaved, Foreign
  <2>2. PICK p \in Listed : p = notice.parent
    BY <2>1
  <2>3. PICK at : at = notice.at
    OBVIOUS
  <2>4. Upserted(p, at) /\ catalogue' = catalogue /\ notice' = NoNotice
    BY <1>9, <2>2, <2>3 DEF NoticeSaved, sellerVars
  <2> QED
    BY <1>4, <1>5, <1>9, <2>4 DEF NoticeSaved, sellerVars
<1>10. CASE StartActive \/ \E j \in Jobs : Cancel(j)
  BY <1>3, <1>4, <1>10 DEF StartActive, Cancel, sellerVars, hookVars
<1>11. ASSUME NEW c \in Clients, CountItems(c) \/ CreateJob(c) PROVE Grow /\ Foreign' /\ Totals'
  <2>1. UNCHANGED <<snapVars, catalogue, notice, cursor, scanned>>
    BY <1>11 DEF CountItems, CreateJob, sellerVars, hookVars
  <2>2. \A d \in Clients : count'[d] \in {NoCount, Cardinality(catalogue)}
    <3>1. \E n \in {NoCount, Cardinality(catalogue)} : count' = [count EXCEPT ![c] = n]
      BY <1>11 DEF CountItems, CreateJob
    <3> QED
      BY <1>0, <3>1 DEF Totals, TypeOK
  <2>3. Totals'
    BY <1>0, <2>1, <2>2 DEF Totals
  <2> QED
    BY <1>3, <2>1, <2>3 DEF snapVars
<1>12. ASSUME NEW w \in Workers, Deliver(w) \/ Work(w) \/ StepFails(w) \/ Crash(w)
       PROVE  Grow /\ Foreign' /\ Totals'
  <2>1. CASE \/ Deliver(w) \/ Claim(w) \/ ScanEnded(w) \/ ReadBatch(w) \/ Checkpoint(w)
             \/ SendNext(w) \/ RefuseCompletion(w) \/ Complete(w) \/ HandleError(w)
             \/ StepFails(w) \/ Crash(w)
    <3>1. UNCHANGED <<snapVars, catalogue, notice, cursor, scanned, count>>
      BY <2>1 DEF Deliver, Claim, ScanEnded, ReadBatch, Checkpoint, SendNext, RefuseCompletion,
                  Complete, HandleError, StepFails, Crash, sellerVars, hookVars
    <3> QED
      BY <1>3, <1>4, <3>1 DEF snapVars
  <2>2. CASE FetchPage(w)
    <3>1. UNCHANGED <<snapVars, catalogue, notice, count>>
      BY <2>2 DEF FetchPage, hookVars
    <3>2. PICK j \in Jobs : j = wk[w].job
      BY <1>0, <2>2 DEF FetchPage, JobsInv, Busy
    <3>3. PICK page : cursor' = [cursor EXCEPT ![j] =
             (IF row(w).scanStarted THEN cursor[j] ELSE catalogue) \ page]
      BY <2>2, <3>2 DEF FetchPage
    <3>4. \A k \in Jobs : cursor'[k] \subseteq catalogue
      BY <1>0, <3>3 DEF Totals, TypeOK
    <3>5. \A k \in Jobs : scanned'[k] \subseteq catalogue
      BY <1>0, <2>2, <3>2 DEF Totals, TypeOK, FetchPage
    <3>6. Totals'
      BY <1>0, <3>1, <3>4, <3>5 DEF Totals
    <3> QED
      BY <1>3, <3>1, <3>6 DEF snapVars
  <2>3. CASE SaveParent(w)
    <3>1. wk[w].todo \subseteq Listed
      BY <2>3 DEF SaveParent, ExactInv, Fine, FineAt, SaveFine
    <3>2. PICK p \in wk[w].todo : Upserted(p, wk[w].at)
      BY <2>3 DEF SaveParent
    <3>3. PICK at : at = wk[w].at
      OBVIOUS
    <3>4. UNCHANGED <<catalogue, notice, cursor, scanned, count>>
      BY <2>3 DEF SaveParent, sellerVars, hookVars
    <3> QED
      BY <1>4, <1>5, <3>1, <3>2, <3>3, <3>4
  <2>4. CASE MarkSeen(w)
    <3>1. wk[w].open \subseteq Listed /\ wk[w].job = last /\ Listed \subseteq Parents
      <4>1. pc[w] \in Inside
        BY <2>4 DEF MarkSeen, Inside
      <4> QED
        BY <1>0, <2>4, <4>1, AtLast, SetsAssumption
        DEF MarkSeen, ExactInv, Fine, FineAt, SaveFine, Listed, ParentsOf, TypeOK
    <3>2. PICK p \in wk[w].open :
             \/ seen' = [seen EXCEPT ![p] = last] /\ stamp' = [stamp EXCEPT ![p] = clock]
             \/ UNCHANGED <<seen, stamp>>
      BY <2>4, <3>1 DEF MarkSeen
    <3>3. UNCHANGED <<catalogue, notice, cursor, scanned, count, stored>>
      BY <2>4 DEF MarkSeen, sellerVars, hookVars
    <3>4. \A q \in Parents : q # p => seen'[q] = seen[q] /\ stamp'[q] = stamp[q]
      BY <1>0, <3>2 DEF TypeOK
    <3>5. seen'[p] \in {seen[p], last}
      BY <1>0, <3>1, <3>2 DEF TypeOK
    <3>6. Listed' = Listed /\ p \in Listed
      BY <3>1, <3>3 DEF Listed
    <3>7. Marked \subseteq Marked'
      BY <1>0, <3>3, <3>4, <3>5 DEF Marked, TypeOK
    <3>8. Grow
      BY <3>3, <3>7 DEF Grow, Exact
    <3>9. Foreign'
      BY <1>0, <3>3, <3>4, <3>6 DEF Foreign
    <3> QED
      BY <1>4, <3>3, <3>8, <3>9
  <2>5. CASE CleanUp(w)
    <3>1. NotSeen(w) \subseteq stored \ Listed /\ stored' = Listed /\ Listed \subseteq Marked
      BY <2>5, CleanUpLeaves
    <3>2. UNCHANGED <<catalogue, notice, cursor, scanned, count>>
      BY <2>5 DEF CleanUp, sellerVars, hookVars
    <3>3. \A q \in Parents : /\ seen'[q] = IF q \in NotSeen(w) THEN 0 ELSE seen[q]
                             /\ stamp'[q] = IF q \in NotSeen(w) THEN 0 ELSE stamp[q]
      BY <2>5 DEF CleanUp
    <3>4. wk[w].job = last
      BY <1>0, <2>5, AtLast DEF CleanUp, Inside
    <3>5. Marked \subseteq Marked'
      <4>1. SUFFICES ASSUME NEW p \in Marked PROVE p \in Marked'
        OBVIOUS
      <4>2. p \in stored /\ p \in Parents /\ p \notin NotSeen(w)
        BY <1>0, <3>4 DEF Marked, NotSeen, TypeOK
      <4>3. p \in stored' /\ seen'[p] = last
        BY <2>5, <3>3, <4>2 DEF CleanUp, Marked
      <4> QED
        BY <4>3 DEF Marked
    <3>6. Grow
      BY <3>1, <3>2, <3>5 DEF Grow
    <3>7. Foreign'
      BY <1>0, <3>2, <3>3 DEF Foreign, Listed
    <3> QED
      BY <1>4, <3>2, <3>6, <3>7
  <2> QED
    BY <1>12, <2>1, <2>2, <2>3, <2>4, <2>5 DEF Work
<1> QED
  BY <1>6, <1>7, <1>8, <1>9, <1>10, <1>11, <1>12 DEF Next

\* The columns of a row that tell how far its scan has come.
SameScan(r, s) ==
    /\ s.total = r.total /\ s.buffer = r.buffer /\ s.processed = r.processed
    /\ s.failed = r.failed /\ s.scanStarted = r.scanStarted

CheckpointOf(j) == \E w \in Workers : Checkpoint(w) /\ Running(w) /\ wk[w].job = j

\* Only a checkpoint writes them, and started_at is never taken back.
LEMMA RowsKept ==
    ASSUME TypeOK, Busy, [Next]_vars, last' = last, NEW j \in Jobs
    PROVE  /\ SameScan(job[j], job'[j]) \/ CheckpointOf(j)
           /\ job[j].started > 0 => job'[j].started > 0
<1> DEFINE Kept == /\ SameScan(job[j], job'[j])
                   /\ job[j].started > 0 => job'[j].started > 0
<1>0. job[j] \in Row /\ job \in [Jobs -> Row]
  BY DEF TypeOK
<1>1. ASSUME UNCHANGED rowVars PROVE Kept
  BY <1>1 DEF rowVars, SameScan
<1>2. ASSUME NEW k, NEW s, job' = [job EXCEPT ![k].status = s] PROVE Kept
  BY <1>0, <1>2 DEF SameScan, Row
<1>3. CASE \/ UNCHANGED vars \/ NoticeSaved \/ StartActive
           \/ \E i \in Items : Publish(i) \/ Withdraw(i) \/ NoticeRead(i)
           \/ \E c \in Clients : CountItems(c)
  BY <1>1, <1>3 DEF vars, rowVars, NoticeSaved, StartActive, Publish, Withdraw, NoticeRead, CountItems
<1>4. ASSUME NEW c \in Clients, CreateJob(c) PROVE Kept
  <2>1. last' # last + 1
    BY DEF TypeOK
  <2>2. UNCHANGED rowVars
    BY <1>4, <2>1 DEF CreateJob
  <2> QED
    BY <1>1, <2>2
<1>5. ASSUME NEW k \in Jobs, Cancel(k) PROVE Kept
  BY <1>2, <1>5 DEF Cancel
<1>6. ASSUME NEW w \in Workers, Deliver(w) \/ Work(w) \/ StepFails(w) \/ Crash(w)
      PROVE  Kept \/ (CheckpointOf(j) /\ (job[j].started > 0 => job'[j].started > 0))
  <2>1. CASE \/ Deliver(w) \/ FetchPage(w) \/ ScanEnded(w) \/ ReadBatch(w) \/ SaveParent(w)
             \/ MarkSeen(w) \/ SendNext(w) \/ CleanUp(w) \/ StepFails(w) \/ Crash(w)
    BY <1>1, <2>1 DEF Deliver, FetchPage, ScanEnded, ReadBatch, SaveParent, MarkSeen, SendNext,
                CleanUp, StepFails, Crash
  <2>2. CASE Claim(w)
    <3>1. CASE job' = job
      BY <1>1, <2>2, <3>1 DEF Claim, rowVars
    <3>2. CASE Claimed(w)
      <4>1. PICK t : /\ job' = [job EXCEPT ![wk[w].job].status = "RUNNING", ![wk[w].job].started = t]
                     /\ t = IF wk[w].unstarted THEN clock + 1 ELSE job[wk[w].job].started
        BY <1>0, <3>2 DEF Claimed
      <4>2. clock \in Nat
        BY DEF TypeOK
      <4>3. SameScan(job[j], job'[j])
        BY <1>0, <4>1 DEF SameScan, Row
      <4>4. job[j].started > 0 => job'[j].started > 0
        BY <1>0, <4>1, <4>2 DEF Row
      <4> QED
        BY <4>3, <4>4
    <3> QED
      BY <2>2, <3>1, <3>2 DEF Claim
  <2>3. CASE Checkpoint(w)
    <3>1. CASE NotRunning(w)
      BY <1>1, <3>1 DEF NotRunning
    <3>2. CASE ~NotRunning(w)
      <4>1. PICK s : job' = [job EXCEPT ![wk[w].job] = [Progress(w) EXCEPT !.status = s]]
        BY <2>3, <3>2 DEF Checkpoint
      <4>2. Running(w)
        BY <2>3, <3>2 DEF Checkpoint
      <4>3. CASE wk[w].job = j
        <5>1. job'[j].started = job[j].started
          BY <1>0, <4>1, <4>3 DEF Progress, Row
        <5> QED
          BY <2>3, <4>2, <4>3, <5>1 DEF CheckpointOf
      <4>4. CASE wk[w].job # j
        BY <1>0, <4>1, <4>4 DEF SameScan
      <4> QED
        BY <4>3, <4>4
    <3> QED
      BY <3>1, <3>2
  <2>4. CASE RefuseCompletion(w) \/ Complete(w)
    BY <1>1, <1>2, <2>4 DEF RefuseCompletion, Complete, NotRunning, SetStatus
  <2>5. CASE HandleError(w)
    <3>1. CASE UNCHANGED rowVars
      BY <1>1, <3>1
    <3>2. CASE job' = [job EXCEPT ![wk[w].job] = AfterError(w)]
      <4>1. CASE wk[w].job = j
        BY <1>0, <3>2, <4>1 DEF AfterError, SameScan, Row
      <4>2. CASE wk[w].job # j
        BY <1>0, <3>2, <4>2 DEF SameScan
      <4> QED
        BY <4>1, <4>2
    <3> QED
      BY <2>5, <3>1, <3>2 DEF HandleError
  <2> QED
    BY <1>6, <2>1, <2>2, <2>3, <2>4, <2>5 DEF Work
<1> QED
  BY <1>3, <1>4, <1>5, <1>6 DEF Next

\* A row that is as far as another is as right.
LEMMA SameFine ==
    ASSUME NEW r, NEW s, RowFine(r), SameScan(r, s)
    PROVE  RowFine(s)
BY DEF RowFine, Traced, SameScan

\* What is left of the scroll only shrinks, once the scan is in a row.
LEMMA CursorShrinks ==
    ASSUME ExactInv, LatestOnly, [Next]_vars, last > 0
    PROVE  \/ cursor'[last] \subseteq cursor[last]
           \/ ~job[last].scanStarted /\ \E w \in Workers : FetchPage(w) /\ ~row(w).scanStarted
<1>0. TypeOK /\ last \in Jobs
  BY DEF ExactInv, JobsInv, TypeOK, Jobs
<1>1. CASE cursor' = cursor
  BY <1>1
<1>2. ASSUME NEW w \in Workers, FetchPage(w)
      PROVE  \/ cursor'[last] \subseteq cursor[last]
             \/ ~job[last].scanStarted /\ ~row(w).scanStarted
  <2>1. pc[w] \in Inside /\ wk[w].job = last
    BY <1>2, AtLast DEF FetchPage, Inside, ExactInv
  <2>2. job[last].scanStarted => row(w).scanStarted
    BY <2>1 DEF ExactInv, Fine, FineAt, row
  <2>3. CASE row(w).scanStarted
    BY <1>0, <1>2, <2>1, <2>3 DEF FetchPage, TypeOK
  <2> QED
    BY <2>2, <2>3
<1>3. cursor' = cursor \/ \E w \in Workers : FetchPage(w)
  <2>1. CASE \E w \in Workers : Deliver(w) \/ Work(w) \/ StepFails(w) \/ Crash(w)
    BY <2>1 DEF Work, Deliver, StepFails, Crash, Claim, ScanEnded, ReadBatch, SaveParent, MarkSeen,
       Checkpoint, SendNext, RefuseCompletion, CleanUp, Complete, HandleError
  <2>2. CASE \/ UNCHANGED vars \/ NoticeSaved \/ StartActive
             \/ \E i \in Items : Publish(i) \/ Withdraw(i) \/ NoticeRead(i)
             \/ \E c \in Clients : CountItems(c) \/ CreateJob(c)
             \/ \E j \in Jobs : Cancel(j)
    BY <2>2 DEF vars, NoticeSaved, StartActive, Publish, Withdraw, NoticeRead, CountItems,
                CreateJob, Cancel
  <2> QED
    BY <2>1, <2>2 DEF Next
<1> QED
  BY <1>1, <1>2, <1>3

\* A checkpoint counts its batch.
LEMMA CheckpointFine ==
    ASSUME MaxChanges = 0, ExactInv, LatestOnly, NEW w \in Workers, Checkpoint(w), Running(w)
    PROVE  RowFine(job[last])' /\ wk[w].job = last
<1>0. TypeOK /\ JobsInv /\ pc[w] = "save" /\ pc[w] \in Inside /\ wk[w].todo = {} /\ wk[w].open = {}
  BY DEF Checkpoint, Saved, ExactInv, JobsInv, Inside
<1>1. wk[w].job = last /\ last \in Jobs /\ last > 0
  BY <1>0, AtLast
<1>2. RowFine(row(w)) /\ SaveFine(wk[w]) /\ RowFine(job[last])
  BY <1>0, <1>1 DEF ExactInv, LastFine, Fine, FineAt, row
<1>3. row(w) \in Row /\ job[last] \in Row /\ wk[w].batch \in SUBSET Items
  BY <1>0, <1>1 DEF TypeOK, Local, row
<1>4. PICK done \in SUBSET catalogue :
         /\ Cardinality(done) = row(w).processed /\ done \cap row(w).buffer = {}
         /\ (done \cup row(w).buffer) \cap cursor[last] = {}
         /\ row(w).failed \/ done \subseteq MarkedItems
  BY <1>2 DEF RowFine, Traced
<1>5. wk[w].batch \subseteq row(w).buffer /\ row(w).buffer \subseteq catalogue
      /\ row(w).total = Cardinality(catalogue) /\ row(w).scanStarted
  BY <1>2 DEF SaveFine, RowFine, row
<1>6. IsFiniteSet(done) /\ IsFiniteSet(wk[w].batch)
  BY <1>0, <1>3, SetsAssumption, FS_Subset DEF TypeOK
<1>7. Cardinality(done \cup wk[w].batch) = row(w).processed + Cardinality(wk[w].batch)
  <2>1. done \cap wk[w].batch = {}
    BY <1>4, <1>5
  <2>2. Cardinality(done \cap wk[w].batch) = 0
    BY <2>1, FS_EmptySet
  <2>3. /\ Cardinality(done \cup wk[w].batch)
             = Cardinality(done) + Cardinality(wk[w].batch) - Cardinality(done \cap wk[w].batch)
        /\ Cardinality(done) \in Nat /\ Cardinality(wk[w].batch) \in Nat
    BY <1>6, FS_Union, FS_CardinalityType
  <2> QED
    BY <1>4, <2>2, <2>3
<1>8. wk[w].bad = {} => wk[w].batch \subseteq MarkedItems
  <2>1. SUFFICES ASSUME wk[w].bad = {}, NEW i \in wk[w].batch PROVE i \in MarkedItems
    OBVIOUS
  <2>2. ParentOf[i] \in ParentsOf(wk[w].batch \ wk[w].bad)
    BY <2>1 DEF ParentsOf
  <2>3. ParentOf[i] \in Marked
    BY <1>0, <1>2, <2>2 DEF SaveFine
  <2> QED
    BY <1>3, <2>3 DEF MarkedItems
<1>9. PICK s : job' = [job EXCEPT ![last] = [Progress(w) EXCEPT !.status = s]]
  BY <1>1 DEF Checkpoint, NotRunning
<1>10. /\ job'[last].total = Cardinality(catalogue) /\ job'[last].scanStarted
       /\ job'[last].buffer = row(w).buffer \ wk[w].batch
       /\ job'[last].processed = row(w).processed + Cardinality(wk[w].batch)
       /\ job'[last].failed = (row(w).failed \/ wk[w].bad # {})
  <2>1. job'[last] = [Progress(w) EXCEPT !.status = s]
    BY <1>0, <1>1, <1>9 DEF TypeOK
  <2>2. job[last].total = Cardinality(catalogue)
    BY <1>2 DEF RowFine
  <2> QED
    BY <1>1, <1>3, <2>1, <2>2 DEF Progress, Row
<1>11. UNCHANGED <<catalogue, cursor, stored, seen, last>>
  BY DEF Checkpoint, sellerVars, snapVars, NotRunning, rowVars
<1>12. MarkedItems' = MarkedItems
  BY <1>11 DEF MarkedItems, Marked
<1> DEFINE d == done \cup wk[w].batch
<1>13. /\ d \in SUBSET catalogue' /\ Cardinality(d) = job'[last].processed
       /\ d \cap job'[last].buffer = {}
       /\ (d \cup job'[last].buffer) \cap cursor'[last'] = {}
       /\ job'[last].failed \/ d \subseteq MarkedItems'
  BY <1>4, <1>5, <1>7, <1>8, <1>10, <1>11, <1>12
<1>14. PICK r : r = job'[last]
  OBVIOUS
<1>15. PICK e : e = d
  OBVIOUS
<1>16. Traced(r)'
  <2>1. /\ e \in SUBSET catalogue' /\ Cardinality(e) = r.processed /\ e \cap r.buffer = {}
        /\ (e \cup r.buffer) \cap cursor'[last'] = {} /\ (r.failed \/ e \subseteq MarkedItems')
    BY <1>13, <1>14, <1>15
  <2> QED
    BY <2>1 DEF Traced
<1>17. RowFine(r)'
  BY <1>5, <1>10, <1>11, <1>14, <1>16 DEF RowFine
<1>18. job'[last'] = r
  BY <1>11, <1>14
<1> QED
  BY <1>1, <1>17, <1>18

\* Only Complete completes a job.
LEMMA OnlyCompleteCompletes ==
    ASSUME TypeOK, Busy, [Next]_vars, last' = last, NEW j \in Jobs,
           job[j].status # "COMPLETED", job'[j].status = "COMPLETED"
    PROVE  \E w \in Workers : Complete(w) /\ Running(w) /\ wk[w].job = j
<1>0. job[j] \in Row /\ job \in [Jobs -> Row]
  BY DEF TypeOK
<1>1. ~UNCHANGED rowVars
  BY DEF rowVars
<1>2. ASSUME NEW k, NEW s, s.status # "COMPLETED", job' = [job EXCEPT ![k] = s] PROVE FALSE
  BY <1>0, <1>2
<1>3. ASSUME NEW k \in Jobs, NEW s, s # "COMPLETED", job' = [job EXCEPT ![k].status = s]
      PROVE  FALSE
  BY <1>0, <1>3 DEF Row
<1>4. CASE \/ UNCHANGED vars \/ NoticeSaved \/ StartActive
           \/ \E i \in Items : Publish(i) \/ Withdraw(i) \/ NoticeRead(i)
           \/ \E c \in Clients : CountItems(c)
  BY <1>1, <1>4 DEF vars, rowVars, NoticeSaved, StartActive, Publish, Withdraw, NoticeRead, CountItems
<1>5. ASSUME NEW c \in Clients, CreateJob(c) PROVE FALSE
  <2>1. last' # last + 1
    BY DEF TypeOK
  <2> QED
    BY <1>1, <1>5, <2>1 DEF CreateJob
<1>6. ASSUME NEW k \in Jobs, Cancel(k) PROVE FALSE
  BY <1>3, <1>6 DEF Cancel
<1>7. ASSUME NEW w \in Workers, Deliver(w) \/ Work(w) \/ StepFails(w) \/ Crash(w)
      PROVE  Complete(w) /\ Running(w) /\ wk[w].job = j
  <2>1. CASE \/ Deliver(w) \/ FetchPage(w) \/ ScanEnded(w) \/ ReadBatch(w) \/ SaveParent(w)
             \/ MarkSeen(w) \/ SendNext(w) \/ CleanUp(w) \/ StepFails(w) \/ Crash(w)
    BY <1>1, <2>1 DEF Deliver, FetchPage, ScanEnded, ReadBatch, SaveParent, MarkSeen, SendNext,
                CleanUp, StepFails, Crash
  <2>2. ASSUME pc[w] # "idle" PROVE wk[w].job \in Jobs /\ job[wk[w].job] \in Row
    BY <1>0, <2>2 DEF Busy
  <2>3. CASE Claim(w)
    <3>1. Claimed(w) /\ wk[w].job \in Jobs
      BY <1>1, <2>2, <2>3 DEF Claim, rowVars
    <3>2. PICK t : job' = [job EXCEPT ![wk[w].job].status = "RUNNING", ![wk[w].job].started = t]
      BY <3>1 DEF Claimed
    <3> QED
      BY <1>0, <3>1, <3>2 DEF Row
  <2>4. CASE Checkpoint(w)
    <3>1. PICK s \in {"FAILED", "PENDING"} :
             job' = [job EXCEPT ![wk[w].job] = [Progress(w) EXCEPT !.status = s]]
      BY <1>1, <2>4 DEF Checkpoint, NotRunning
    <3>2. [Progress(w) EXCEPT !.status = s].status = s
      BY <2>2, <2>4 DEF Checkpoint, Saved, Progress, Row
    <3>3. PICK q : q = [Progress(w) EXCEPT !.status = s]
      OBVIOUS
    <3>4. PICK k : k = wk[w].job
      OBVIOUS
    <3> QED
      BY <1>2, <3>1, <3>2, <3>3, <3>4
  <2>5. CASE RefuseCompletion(w)
    BY <1>1, <1>3, <2>2, <2>5 DEF RefuseCompletion, NotRunning, SetStatus
  <2>6. CASE Complete(w)
    <3>1. Running(w) /\ SetStatus(wk[w].job, "COMPLETED")
      BY <1>1, <2>6 DEF Complete
    <3>2. wk[w].job = j
      BY <1>0, <3>1 DEF SetStatus
    <3> QED
      BY <2>6, <3>1, <3>2
  <2>7. CASE HandleError(w)
    <3>1. job' = [job EXCEPT ![wk[w].job] = AfterError(w)]
      BY <1>1, <2>7 DEF HandleError
    <3>2. AfterError(w).status # "COMPLETED"
      BY <2>2, <2>7 DEF HandleError, AfterError, Row
    <3>3. PICK q : q = AfterError(w)
      OBVIOUS
    <3>4. PICK k : k = wk[w].job
      OBVIOUS
    <3> QED
      BY <1>2, <3>1, <3>2, <3>3, <3>4
  <2> QED
    BY <1>7, <2>1, <2>3, <2>4, <2>5, <2>6, <2>7 DEF Work
<1> QED
  BY <1>4, <1>5, <1>6, <1>7 DEF Next

\* The rows stay right.
LEMMA LastStep ==
    ASSUME MaxChanges = 0, ExactInv, LatestOnly, [Next]_vars, last' = last
    PROVE  LastFine'
<1> SUFFICES ASSUME last > 0
             PROVE  RowFine(job[last])' /\ (job'[last].status = "COMPLETED" => Exact')
  BY DEF LastFine
<1>0. /\ TypeOK /\ JobsInv /\ Busy /\ last \in Jobs /\ job[last] \in Row /\ job \in [Jobs -> Row]
      /\ RowFine(job[last]) /\ (job[last].status = "COMPLETED" => Exact)
  BY DEF ExactInv, JobsInv, LastFine, TypeOK, Jobs
<1>1. Grow
  BY GrowStep
<1>2. RowFine(job[last])'
  <2>1. CASE CheckpointOf(last)
    BY <2>1, CheckpointFine DEF CheckpointOf
  <2>2. CASE SameScan(job[last], job'[last])
    <3>1. PICK r \in Row : r = job[last]
      BY <1>0
    <3>2. r.scanStarted => cursor'[last] \subseteq cursor[last]
      BY <3>1, CursorShrinks
    <3>3. RowFine(r)'
      BY <1>0, <1>1, <3>1, <3>2, RowGrows
    <3>4. PICK s : s = job'[last]
      OBVIOUS
    <3>5. SameScan(r, s)
      BY <2>2, <3>1, <3>4
    <3>6. RowFine(s)'
      BY <3>3, <3>5 DEF RowFine, Traced, SameScan
    <3> QED
      BY <3>4, <3>6
  <2> QED
    BY <1>0, <2>1, <2>2, RowsKept
<1>3. job'[last].status = "COMPLETED" => Exact'
  <2>1. CASE job[last].status = "COMPLETED"
    BY <1>0, <1>1, <2>1 DEF Grow, Exact, Listed
  <2>2. CASE job[last].status # "COMPLETED"
    <3>1. SUFFICES ASSUME job'[last].status = "COMPLETED" PROVE Exact'
      OBVIOUS
    <3>2. PICK w \in Workers : Complete(w) /\ Running(w) /\ wk[w].job = last
      BY <1>0, <2>2, <3>1, OnlyCompleteCompletes
    <3>3. Exact
      BY <3>2 DEF Complete, ExactInv, Fine, FineAt
    <3> QED
      BY <1>1, <3>3 DEF Grow, Exact, Listed
  <2> QED
    BY <2>1, <2>2
<1> QED
  BY <1>2, <1>3

\* What an invocation knows is not disturbed by the steps of the others.
LEMMA OthersFine ==
    ASSUME MaxChanges = 0, ExactInv, LatestOnly, [Next]_vars, last' = last,
           NEW v \in Workers, pc'[v] = pc[v], wk'[v] = wk[v]
    PROVE  Fine(v)'
<1>0. /\ TypeOK /\ JobsInv /\ Busy /\ Fine(v) /\ wk[v] \in Local /\ last \in Nat
  BY DEF ExactInv, JobsInv, TypeOK
<1>1. Grow
  BY GrowStep
<1>2. ASSUME pc[v] \in Inside
      PROVE  /\ job'[last].scanStarted => row(v).scanStarted
             /\ row(v).scanStarted => cursor'[last] \subseteq cursor[last]
             /\ job[last].started > 0 => job'[last].started > 0
  <2>1. last \in Jobs /\ last > 0
    BY <1>0, <1>2, AtLast
  <2>2. job[last].scanStarted => row(v).scanStarted
    BY <1>0, <1>2 DEF Fine, FineAt, row
  <2>3. ASSUME NEW w \in Workers, w # v, pc[w] \in Inside PROVE job[last].scanStarted
    BY <1>2, <2>1, <2>3 DEF ExactInv, FirstAlone
  <2>4. job'[last].scanStarted => row(v).scanStarted
    <3>1. CASE SameScan(job[last], job'[last])
      BY <2>2, <3>1 DEF SameScan
    <3>2. CASE CheckpointOf(last)
      <4>1. PICK w \in Workers : Checkpoint(w)
        BY <3>2 DEF CheckpointOf
      <4>2. pc[w] \in Inside /\ pc[w] = "save"
        BY <4>1 DEF Checkpoint, Saved, Inside
      <4>3. pc'[w] # "save"
        BY <1>0, <4>1 DEF Checkpoint, NotRunning, Goto, Idle, Throw, TypeOK
      <4> QED
        BY <2>2, <2>3, <4>2, <4>3
    <3> QED
      BY <1>0, <2>1, <3>1, <3>2, RowsKept
  <2>5. cursor'[last] \subseteq cursor[last]
    <3>1. ASSUME NEW w \in Workers, FetchPage(w), ~job[last].scanStarted, ~row(w).scanStarted
          PROVE  FALSE
      <4>1. pc[w] \in Inside
        BY <3>1 DEF FetchPage, Inside
      <4>2. PICK page : wk' = [wk EXCEPT ![w] = [wk[w] EXCEPT !.row.scanStarted = TRUE,
                                  !.row.scroll = (page # {}), !.row.buffer = page]]
        BY <3>1 DEF FetchPage, Goto
      <4>3. wk'[w].row.scanStarted = TRUE
        BY <1>0, <4>2 DEF TypeOK, Local, Row
      <4> QED
        BY <2>3, <3>1, <4>1, <4>3 DEF row
    <3> QED
      BY <2>1, <3>1, CursorShrinks
  <2>6. job[last].started > 0 => job'[last].started > 0
    BY <1>0, <2>1, RowsKept
  <2> QED
    BY <2>4, <2>5, <2>6
<1>3. ASSUME pc[v] = "claim" PROVE job[last].started > 0 => job'[last].started > 0
  <2>1. last \in Jobs
    <3>1. wk[v].job \in Jobs /\ wk[v].job <= last
      BY <1>0, <1>3 DEF JobsInv, Taken, Busy
    <3>2. last \in 0 .. MaxJobs
      BY <1>0 DEF TypeOK
    <3> QED
      BY <3>1, <3>2, BoundsAssumption DEF Jobs
  <2> QED
    BY <1>0, <2>1, RowsKept
<1>4. CASE pc[v] \in Inside \cup {"claim"}
  <2>1. PICK l \in Local : l = wk[v]
    BY <1>0
  <2>1a. PICK stage : stage = pc[v]
    OBVIOUS
  <2>2. FineAt(stage, l)
    BY <1>0, <2>1, <2>1a DEF Fine
  <2>3. FineAt(stage, l)'
    BY <1>0, <1>1, <1>2, <1>3, <1>4, <2>1, <2>1a, <2>2, FineGrows DEF row, Inside
  <2> QED
    BY <2>1, <2>1a, <2>3 DEF Fine
<1>5. CASE pc[v] \notin Inside \cup {"claim"}
  BY <1>5 DEF Fine, FineAt, Inside
<1> QED
  BY <1>4, <1>5

\* An invocation that fetches a page.
LEMMA FetchFine ==
    ASSUME MaxChanges = 0, ExactInv, LatestOnly, [Next]_vars, NEW w \in Workers, FetchPage(w)
    PROVE  Fine(w)'
<1>0. /\ TypeOK /\ JobsInv /\ pc[w] = "scan" /\ pc[w] \in Inside /\ row(w).buffer = {}
      /\ wk[w] \in Local /\ row(w) \in Row /\ IsFiniteSet(catalogue)
  BY SetsAssumption, FS_Subset DEF FetchPage, ExactInv, JobsInv, Inside, TypeOK, Local, row
<1>1. wk[w].job = last /\ last \in Jobs
  BY <1>0, AtLast
<1>2. RowFine(row(w)) /\ row(w).started > 0 /\ wk[w].open = {}
  BY <1>0 DEF ExactInv, Fine, FineAt, row
<1> DEFINE rest == IF row(w).scanStarted THEN cursor[last] ELSE catalogue
<1>3. PICK page \in Portions(rest, PageSize) :
         /\ cursor' = [cursor EXCEPT ![last] = rest \ page]
         /\ Goto(w, "scan", [wk[w] EXCEPT !.row.scanStarted = TRUE,
                                          !.row.scroll = (page # {}), !.row.buffer = page])
  BY <1>1 DEF FetchPage
<1>4. page \subseteq rest /\ rest \subseteq catalogue
  BY <1>1 DEF Portions, ExactInv, Totals
<1>5. cursor'[last] = rest \ page
  BY <1>0, <1>1, <1>3 DEF TypeOK
<1>6. UNCHANGED <<catalogue, job, last, stored, seen>>
  BY DEF FetchPage, rowVars, snapVars
<1>7. PICK done \in SUBSET catalogue :
         /\ Cardinality(done) = row(w).processed /\ done \cap rest = {}
         /\ row(w).failed \/ done \subseteq MarkedItems
  <2>1. PICK done \in SUBSET catalogue :
           /\ Cardinality(done) = row(w).processed /\ done \cap cursor[last] = {}
           /\ row(w).failed \/ done \subseteq MarkedItems
    BY <1>2 DEF RowFine, Traced
  <2>2. ~row(w).scanStarted => done = {}
    <3>1. IsFiniteSet(done)
      BY <1>0, FS_Subset
    <3> QED
      BY <1>2, <2>1, <3>1, FS_EmptySet DEF RowFine
  <2> QED
    BY <2>1, <2>2
<1>8. /\ pc'[w] = "scan" /\ wk'[w].open = {} /\ wk'[w].row.started > 0
      /\ wk'[w].row.scanStarted = TRUE /\ wk'[w].row.buffer = page
      /\ wk'[w].row.total = row(w).total /\ wk'[w].row.processed = row(w).processed
      /\ wk'[w].row.failed = row(w).failed
  BY <1>0, <1>2, <1>3 DEF Goto, TypeOK, Local, Row, row
<1>9. PICK r : r = wk'[w].row
  OBVIOUS
<1>10. Traced(r)'
  <2>1. /\ Cardinality(done) = r.processed /\ done \cap r.buffer = {}
        /\ (done \cup r.buffer) \cap cursor'[last'] = {} /\ done \in SUBSET catalogue'
        /\ r.failed \/ done \subseteq MarkedItems'
    BY <1>4, <1>5, <1>6, <1>7, <1>8, <1>9 DEF MarkedItems, Marked
  <2> QED
    BY <2>1 DEF Traced
<1>11. RowFine(r)'
  BY <1>2, <1>4, <1>6, <1>8, <1>9, <1>10 DEF RowFine
<1>12. pc'[w] \in Inside /\ pc'[w] \notin {"claim", "save", "complete"}
  BY <1>8 DEF Inside
<1> QED
  BY <1>8, <1>9, <1>11, <1>12 DEF Fine, FineAt

\* An invocation that reads the details of a batch.
LEMMA ReadFine ==
    ASSUME MaxChanges = 0, ExactInv, LatestOnly, [Next]_vars, NEW w \in Workers, ReadBatch(w)
    PROVE  Fine(w)'
<1>0. /\ TypeOK /\ JobsInv /\ pc[w] = "scan" /\ pc[w] \in Inside
      /\ wk[w] \in Local /\ row(w) \in Row
  BY DEF ReadBatch, ExactInv, JobsInv, Inside, TypeOK, Local, row
<1>2. /\ RowFine(row(w)) /\ row(w).started > 0 /\ wk[w].open = {}
      /\ job[last].scanStarted => row(w).scanStarted
  BY <1>0 DEF ExactInv, Fine, FineAt, row
<1>3. PICK batch \in Portions(row(w).buffer, BatchSize) \ {{}}, bad \in SUBSET Items :
         Goto(w, "save", [wk[w] EXCEPT !.batch = batch, !.bad = bad,
                                       !.todo = ParentsOf(batch \ bad), !.at = clock])
  BY DEF ReadBatch
<1>4. batch # {} /\ batch \subseteq row(w).buffer /\ row(w).buffer \subseteq catalogue
  BY <1>2 DEF Portions, RowFine
<1>6. UNCHANGED <<catalogue, job, last, stored, seen, cursor>>
  BY DEF ReadBatch, rowVars, snapVars, sellerVars
<1>8. /\ pc'[w] = "save" /\ wk'[w].open = {} /\ wk'[w].row = row(w)
      /\ wk'[w].batch = batch /\ wk'[w].bad = bad /\ wk'[w].todo = ParentsOf(batch \ bad)
  BY <1>0, <1>2, <1>3 DEF Goto, TypeOK, Local, row
<1>9. PICK r : r = row(w)
  OBVIOUS
<1>10. RowFine(r)'
  BY <1>2, <1>6, <1>9 DEF RowFine, Traced, MarkedItems, Marked
<1>11. SaveFine(wk[w])'
  <2>1. wk'[w].todo \subseteq Listed'
    BY <1>4, <1>6, <1>8 DEF Listed, ParentsOf
  <2> QED
    BY <1>4, <1>8, <2>1 DEF SaveFine
<1>12. pc'[w] \in Inside /\ pc'[w] \notin {"claim", "scan", "complete"}
  BY <1>8 DEF Inside
<1> QED
  BY <1>2, <1>6, <1>8, <1>9, <1>10, <1>11, <1>12 DEF Fine, FineAt

\* An invocation that saves or marks a parent.
LEMMA SavingFine ==
    ASSUME MaxChanges = 0, ExactInv, LatestOnly, [Next]_vars, NEW w \in Workers,
           SaveParent(w) \/ MarkSeen(w)
    PROVE  Fine(w)'
<1>0. /\ TypeOK /\ JobsInv /\ pc[w] = "save" /\ pc[w] \in Inside
      /\ wk[w] \in Local /\ row(w) \in Row
  BY DEF SaveParent, MarkSeen, ExactInv, JobsInv, Inside, TypeOK, Local, row
<1>1. wk[w].job = last /\ last \in Jobs
  BY <1>0, AtLast
<1>2. /\ RowFine(row(w)) /\ row(w).started > 0 /\ SaveFine(wk[w])
      /\ job[last].scanStarted => row(w).scanStarted
  BY <1>0 DEF ExactInv, Fine, FineAt, row
<1>3. UNCHANGED <<catalogue, job, last, cursor, pc>>
  BY DEF SaveParent, MarkSeen, rowVars, sellerVars
<1>4. Grow
  BY <1>3, GrowStep
<1>5. /\ wk'[w].row = wk[w].row /\ wk'[w].batch = wk[w].batch /\ wk'[w].bad = wk[w].bad
  <2>1. CASE SaveParent(w)
    <3>1. PICK p : wk' = [wk EXCEPT ![w].todo = @ \ {p}, ![w].open = @ \cup {p}]
      BY <2>1 DEF SaveParent
    <3> QED
      BY <1>0, <3>1 DEF TypeOK, Local
  <2>2. CASE MarkSeen(w)
    <3>1. PICK p : wk' = [wk EXCEPT ![w].open = @ \ {p}]
      BY <2>2 DEF MarkSeen
    <3> QED
      BY <1>0, <3>1 DEF TypeOK, Local
  <2> QED
    BY <2>1, <2>2
<1>6. RowFine(row(w))'
  <2>1. PICK r \in Row : r = row(w)
    BY <1>0
  <2>2. RowFine(r)'
    BY <1>0, <1>2, <1>3, <1>4, <2>1, RowGrows
  <2>3. row(w)' = r
    BY <1>5, <2>1 DEF row
  <2> QED
    BY <2>2, <2>3
<1>7. /\ wk'[w].open \subseteq stored'
      /\ wk'[w].todo \cup wk'[w].open \subseteq wk[w].todo \cup wk[w].open
      /\ wk[w].todo \cup wk[w].open \subseteq wk'[w].todo \cup wk'[w].open \cup Marked'
  <2>1. CASE SaveParent(w)
    <3>1. PICK p \in wk[w].todo :
             /\ wk' = [wk EXCEPT ![w].todo = @ \ {p}, ![w].open = @ \cup {p}]
             /\ stored' = stored \cup {p}
      BY <2>1 DEF SaveParent, Upserted
    <3>2. wk'[w].todo = wk[w].todo \ {p} /\ wk'[w].open = wk[w].open \cup {p}
      BY <1>0, <3>1 DEF TypeOK, Local
    <3> QED
      BY <1>2, <3>1, <3>2 DEF SaveFine
  <2>2. CASE MarkSeen(w)
    <3>1. PICK p \in wk[w].open :
             /\ wk' = [wk EXCEPT ![w].open = @ \ {p}]
             /\ p \in stored => seen' = [seen EXCEPT ![p] = wk[w].job]
      BY <2>2 DEF MarkSeen
    <3>2. stored' = stored /\ p \in stored /\ p \in Parents
      BY <1>0, <1>2, <2>2, <3>1 DEF MarkSeen, SaveFine, TypeOK
    <3>3. p \in Marked'
      BY <1>0, <1>1, <1>3, <3>1, <3>2 DEF Marked, TypeOK
    <3>4. wk'[w].todo = wk[w].todo /\ wk'[w].open = wk[w].open \ {p}
      BY <1>0, <3>1 DEF TypeOK, Local
    <3> QED
      BY <1>2, <3>2, <3>3, <3>4 DEF SaveFine
  <2> QED
    BY <2>1, <2>2
<1>8. SaveFine(wk[w])'
  <2>1. Listed' = Listed /\ Marked \subseteq Marked'
    BY <1>4 DEF Grow, Listed
  <2> QED
    BY <1>2, <1>5, <1>7, <2>1 DEF SaveFine
<1>9. pc'[w] \in Inside /\ pc'[w] \notin {"claim", "scan", "complete"}
  BY <1>0, <1>3 DEF Inside
<1> QED
  BY <1>2, <1>3, <1>5, <1>6, <1>8, <1>9 DEF Fine, FineAt, row

\* An invocation that goes on with its row, or hands it to its error handling.
LEMMA SameRowFine ==
    ASSUME MaxChanges = 0, ExactInv, LatestOnly, [Next]_vars, last' = last,
           NEW w \in Workers, pc[w] \in Inside,
           pc'[w] \in {"finish", "complete", "handle"}, wk'[w].row = row(w),
           cursor' = cursor, pc'[w] = "complete" => Exact'
    PROVE  Fine(w)'
<1>0. TypeOK /\ JobsInv /\ Busy /\ wk[w] \in Local /\ row(w) \in Row
  BY DEF ExactInv, JobsInv, TypeOK, Local, row
<1>1. wk[w].job = last /\ last \in Jobs
  BY <1>0, AtLast
<1>2. /\ RowFine(row(w)) /\ row(w).started > 0
      /\ job[last].scanStarted => row(w).scanStarted
      /\ pc[w] = "save" => SaveFine(wk[w])
  BY DEF ExactInv, Fine, FineAt, row
<1>3. PICK r \in Row : r = row(w)
  BY <1>0
<1>4. RowFine(r)'
  <2>1. Grow
    BY GrowStep
  <2> QED
    BY <1>0, <1>2, <1>3, <2>1, RowGrows
<1>5. job'[last].scanStarted => r.scanStarted
  <2>1. CASE SameScan(job[last], job'[last])
    BY <1>2, <1>3, <2>1 DEF SameScan
  <2>2. ASSUME NEW v \in Workers, Checkpoint(v), wk[v].job = last PROVE r.scanStarted
    <3>1. pc[v] = "save" /\ pc[v] \in Inside
      BY <2>2 DEF Checkpoint, Saved, Inside
    <3>2. SaveFine(wk[v]) /\ RowFine(row(v))
      BY <3>1 DEF ExactInv, Fine, FineAt, row
    <3>3. row(v).scanStarted
      BY <3>2 DEF SaveFine, RowFine, row
    <3>4. CASE v = w
      BY <1>3, <3>3, <3>4
    <3>5. CASE v # w
      <4>1. last > 0
        BY <1>1 DEF Jobs
      <4>2. job[last].scanStarted
        BY <3>1, <3>5, <4>1 DEF ExactInv, FirstAlone
      <4> QED
        BY <1>2, <1>3, <4>2
    <3> QED
      BY <3>4, <3>5
  <2> QED
    BY <1>0, <1>1, <2>1, <2>2, RowsKept DEF CheckpointOf
<1>6. pc'[w] \in Inside /\ pc'[w] \notin {"claim", "scan", "save"}
  BY DEF Inside
<1> QED
  BY <1>2, <1>3, <1>4, <1>5, <1>6 DEF Fine, FineAt

\* An invocation that claims a job has the row as it stands.
LEMMA ClaimFine ==
    ASSUME MaxChanges = 0, ExactInv, LatestOnly, [Next]_vars, last' = last,
           NEW w \in Workers, Claim(w), pc'[w] # "idle"
    PROVE  Fine(w)'
<1>0. /\ TypeOK /\ JobsInv /\ Busy /\ wk[w] \in Local /\ pc[w] = "claim" /\ clock \in Nat
      /\ wk[w].job \in Jobs /\ job \in [Jobs -> Row]
  BY DEF Claim, ExactInv, JobsInv, Busy, TypeOK
<1>1. /\ job[wk[w].job].status = "PENDING" /\ Claimed(w)
      /\ Goto(w, "scan", [wk[w] EXCEPT !.row = job'[wk[w].job]])
  BY <1>0 DEF Claim, Acknowledge, GiveBack, Idle, Goto, TypeOK
<1>2. wk[w].job = last
  BY <1>0, <1>1 DEF JobsInv, OnlyLast, IsActive, Active
<1>3. /\ pc'[w] = "scan" /\ wk'[w].row = job'[last] /\ wk'[w].open = wk[w].open
  BY <1>0, <1>1, <1>2 DEF Goto, TypeOK, Local
<1>4. wk[w].open = {} /\ (wk[w].unstarted \/ job[last].started > 0)
  BY <1>0, <1>2 DEF ExactInv, Fine, FineAt
<1>5. job'[last].started > 0
  <2>1. PICK t : /\ job' = [job EXCEPT ![last].status = "RUNNING", ![last].started = t]
                 /\ t = IF wk[w].unstarted THEN clock + 1 ELSE job[last].started
    BY <1>0, <1>1, <1>2 DEF Claimed
  <2>2. job'[last].started = t
    BY <1>0, <1>2, <2>1 DEF Row
  <2> QED
    BY <1>0, <1>4, <2>1, <2>2
<1>6. RowFine(job[last])'
  <2>1. last > 0
    BY <1>0, <1>2 DEF Jobs
  <2> QED
    BY <2>1, LastStep DEF LastFine
<1>7. PICK r : r = job'[last]
  OBVIOUS
<1>8. pc'[w] \in Inside /\ pc'[w] \notin {"claim", "save", "complete"}
  BY <1>3 DEF Inside
<1> QED
  BY <1>3, <1>4, <1>5, <1>6, <1>7, <1>8 DEF Fine, FineAt

\* What the invocation that moves knows after its step.
LEMMA MoverFine ==
    ASSUME MaxChanges = 0, ExactInv, LatestOnly, [Next]_vars, last' = last,
           NEW w \in Workers, Deliver(w) \/ Work(w) \/ StepFails(w) \/ Crash(w)
    PROVE  Fine(w)'
<1>0. TypeOK /\ JobsInv /\ wk[w] \in Local
  BY DEF ExactInv, JobsInv, TypeOK
<1>1. ASSUME pc'[w] \in {"idle", "send"} PROVE Fine(w)'
  BY <1>1 DEF Fine, FineAt, Inside
<1>2. ASSUME Idle(w) PROVE Fine(w)'
  BY <1>0, <1>1, <1>2 DEF Idle, Goto, TypeOK
<1>3. ASSUME NEW e, Throw(w, e), pc[w] \in Inside, cursor' = cursor PROVE Fine(w)'
  <2>1. pc'[w] = "handle" /\ wk'[w].row = row(w)
    BY <1>0, <1>3 DEF Throw, Goto, TypeOK, Local, row
  <2> QED
    BY <1>3, <2>1, SameRowFine
<1>4. ASSUME NEW stage \in {"finish", "complete"}, Goto(w, stage, wk[w]), pc[w] \in Inside,
             cursor' = cursor, stage = "complete" => Exact'
      PROVE  Fine(w)'
  <2>1. pc'[w] = stage /\ wk'[w].row = row(w)
    BY <1>0, <1>4 DEF Goto, TypeOK, row
  <2> QED
    BY <1>4, <2>1, SameRowFine
<1>5. CASE Deliver(w)
  <2>1. PICK j \in queue :
           IF IsActive(j)
             THEN Goto(w, "claim", [Blank EXCEPT !.job = j, !.unstarted = (job[j].started = 0)])
             ELSE Idle(w)
    BY <1>5 DEF Deliver
  <2>2. CASE IsActive(j)
    <3>1. j \in Jobs /\ job[j].started \in Nat /\ job' = job
      BY <1>0, <1>5 DEF Deliver, rowVars, TypeOK, Row
    <3>2. PICK b \in BOOLEAN : b = (job[j].started = 0)
      OBVIOUS
    <3>3. b \/ job[j].started > 0
      <4>1. job[j].started = 0 \/ job[j].started > 0
        BY <3>1
      <4>2. job[j].started = 0 => b
        BY <3>2, Zenon
      <4> QED
        BY <4>1, <4>2
    <3>4. Goto(w, "claim", [Blank EXCEPT !.job = j, !.unstarted = b])
      BY <2>1, <2>2, <3>2
    <3>5. /\ pc'[w] = "claim" /\ wk'[w].job = j /\ wk'[w].unstarted = b /\ wk'[w].open = {}
      BY <1>0, <3>4 DEF Goto, TypeOK, Blank
    <3>6. pc'[w] \notin Inside
      BY <3>5 DEF Inside
    <3> QED
      BY <3>1, <3>3, <3>5, <3>6 DEF Fine, FineAt
  <2> QED
    BY <1>2, <2>1, <2>2
<1>6. CASE Claim(w)
  BY <1>1, <1>6, ClaimFine
<1>7. CASE ScanEnded(w)
  BY <1>4, <1>7 DEF ScanEnded, Inside
<1>8. CASE Checkpoint(w)
  <2>1. pc[w] \in Inside /\ cursor' = cursor
    BY <1>8 DEF Checkpoint, Saved, Inside
  <2>2. (\E e : Throw(w, e)) \/ Idle(w) \/ Goto(w, "send", wk[w])
    BY <1>8 DEF Checkpoint, NotRunning
  <2>3. Goto(w, "send", wk[w]) => pc'[w] = "send"
    BY <1>0 DEF Goto, TypeOK
  <2> QED
    BY <1>1, <1>2, <1>3, <2>1, <2>2, <2>3
<1>9. CASE RefuseCompletion(w)
  <2>1. pc[w] \in Inside /\ cursor' = cursor
    BY <1>9 DEF RefuseCompletion, Inside
  <2>2. (\E e : Throw(w, e)) \/ Idle(w)
    BY <1>9 DEF RefuseCompletion, NotRunning, Acknowledge
  <2> QED
    BY <1>2, <1>3, <2>1, <2>2
<1>10. CASE CleanUp(w)
  <2>1. pc[w] \in Inside /\ cursor' = cursor /\ catalogue' = catalogue
    BY <1>10 DEF CleanUp, Inside, sellerVars
  <2>2. Exact'
    BY <1>10, <2>1, CleanUpLeaves DEF Exact, Listed
  <2>3. (\E e : Throw(w, e)) \/ Goto(w, "complete", wk[w])
    BY <1>10 DEF CleanUp
  <2> QED
    BY <1>3, <1>4, <2>1, <2>2, <2>3
<1>11. CASE StepFails(w)
  BY <1>3, <1>11 DEF StepFails, Inside, sellerVars
<1>12. CASE SendNext(w) \/ Complete(w) \/ HandleError(w) \/ Crash(w)
  BY <1>2, <1>12 DEF SendNext, Complete, HandleError, Crash, Acknowledge, GiveBack
<1> QED
  BY <1>5, <1>6, <1>7, <1>8, <1>9, <1>10, <1>11, <1>12, FetchFine, ReadFine, SavingFine DEF Work

\* Until the first checkpoint of a job nobody but a claimer comes to work on it.
LEMMA AloneStep ==
    ASSUME ExactInv, LatestOnly, LatestOnly', [Next]_vars, last' = last
    PROVE  FirstAlone'
<1> SUFFICES ASSUME last > 0, ~job'[last].scanStarted
             PROVE  /\ \A u, v \in Workers : pc'[u] \in Inside /\ pc'[v] \in Inside => u = v
                    /\ job'[last].status = "PENDING" => \A v \in Workers : pc'[v] \notin Inside
  BY DEF FirstAlone
<1>0. /\ TypeOK /\ JobsInv /\ Busy /\ last \in Jobs /\ job[last] \in Row /\ job \in [Jobs -> Row]
  <2>1. TypeOK /\ JobsInv /\ Busy
    BY DEF ExactInv, JobsInv
  <2>2. last \in Jobs
    BY <2>1 DEF TypeOK, Jobs
  <2> QED
    BY <2>1, <2>2 DEF TypeOK
<1>1. ~job[last].scanStarted
  <2>1. CASE SameScan(job[last], job'[last])
    BY <2>1 DEF SameScan
  <2>2. ASSUME NEW w \in Workers, Checkpoint(w), Running(w), wk[w].job = last PROVE FALSE
    <3>1. PICK s : job' = [job EXCEPT ![last] = [Progress(w) EXCEPT !.status = s]]
      BY <2>2 DEF Checkpoint, NotRunning
    <3>2. job'[last].scanStarted = TRUE
      BY <1>0, <2>2, <3>1 DEF Progress, Row
    <3> QED
      BY <3>2
  <2> QED
    BY <1>0, <2>1, <2>2, RowsKept DEF CheckpointOf
<1>2. /\ \A u, v \in Workers : pc[u] \in Inside /\ pc[v] \in Inside => u = v
      /\ job[last].status = "PENDING" => \A v \in Workers : pc[v] \notin Inside
  BY <1>1 DEF ExactInv, FirstAlone
<1>3. ASSUME \A v \in Workers : pc'[v] \in Inside => pc[v] \in Inside,
             job'[last].status = "PENDING" =>
                job[last].status = "PENDING" \/ \A v \in Workers : pc'[v] \notin Inside
      PROVE  /\ \A u, v \in Workers : pc'[u] \in Inside /\ pc'[v] \in Inside => u = v
             /\ job'[last].status = "PENDING" => \A v \in Workers : pc'[v] \notin Inside
  BY <1>2, <1>3
<1>4. CASE \/ UNCHANGED vars \/ NoticeSaved \/ StartActive
           \/ \E i \in Items : Publish(i) \/ Withdraw(i) \/ NoticeRead(i)
           \/ \E c \in Clients : CountItems(c)
  BY <1>3, <1>4 DEF vars, rowVars, workVars, NoticeSaved, StartActive, Publish, Withdraw, NoticeRead, CountItems
<1>5. ASSUME NEW c \in Clients, CreateJob(c)
      PROVE  \A v \in Workers : pc'[v] = pc[v] /\ job'[last] = job[last]
  <2>1. last' # last + 1
    BY <1>0 DEF TypeOK
  <2> QED
    BY <1>5, <2>1 DEF CreateJob, rowVars, workVars
<1>6. ASSUME NEW k \in Jobs, Cancel(k)
      PROVE  \A v \in Workers : pc'[v] = pc[v]
                  /\ (job'[last].status = "PENDING" => job[last].status = "PENDING")
  <2>1. job'[last].status \in {job[last].status, "CANCELLED"}
    BY <1>0, <1>6 DEF Cancel, Row
  <2> QED
    BY <1>6, <2>1 DEF Cancel, workVars
<1>7. ASSUME NEW w \in Workers, Deliver(w) \/ (Work(w) /\ ~Claim(w)) \/ StepFails(w) \/ Crash(w)
      PROVE  /\ \A u, v \in Workers : pc'[u] \in Inside /\ pc'[v] \in Inside => u = v
             /\ job'[last].status = "PENDING" => \A v \in Workers : pc'[v] \notin Inside
  <2>1. \A v \in Workers : pc'[v] \in Inside => pc[v] \in Inside
    <3>1. \A v \in Workers, k \in Jobs : WorksOn(v, k)' => WorksOn(v, k)
      BY <1>0, <1>7, WorkFrame
    <3>2. \A v \in Workers : pc'[v] \in Inside => wk'[v].job = last
      BY DEF LatestOnly, Stale
    <3> QED
      BY <1>0, <3>1, <3>2 DEF WorksOn
  <2>2. job'[last].status = "PENDING" /\ job[last].status # "PENDING" => HandleError(w) /\ ~UNCHANGED rowVars
    <3>1. SUFFICES ASSUME job'[last].status = "PENDING", job[last].status # "PENDING"
                   PROVE  HandleError(w) /\ ~UNCHANGED rowVars
      OBVIOUS
    <3>2. ~UNCHANGED rowVars
      BY <3>1 DEF rowVars
    <3>3. ASSUME NEW k, NEW s \in {"FAILED", "COMPLETED"}, job' = [job EXCEPT ![k].status = s]
          PROVE  FALSE
      BY <1>0, <3>1, <3>3 DEF Row
    <3>4. CASE Checkpoint(w)
      <4>1. PICK s : job' = [job EXCEPT ![wk[w].job] = [Progress(w) EXCEPT !.status = s]]
        BY <3>2, <3>4 DEF Checkpoint, NotRunning
      <4>2. wk[w].job = last
        BY <1>0, <3>1, <4>1
      <4>3. job'[last].scanStarted = TRUE
        BY <1>0, <4>1, <4>2 DEF Progress, Row
      <4> QED
        BY <4>3
    <3>5. ~(RefuseCompletion(w) \/ Complete(w))
      BY <3>2, <3>3 DEF RefuseCompletion, Complete, NotRunning, SetStatus
    <3>6. CASE \/ Deliver(w) \/ FetchPage(w) \/ ScanEnded(w) \/ ReadBatch(w) \/ SaveParent(w)
               \/ MarkSeen(w) \/ SendNext(w) \/ CleanUp(w) \/ StepFails(w) \/ Crash(w)
      BY <3>2, <3>6 DEF Deliver, FetchPage, ScanEnded, ReadBatch, SaveParent, MarkSeen, SendNext,
                CleanUp, StepFails, Crash
    <3> QED
      BY <1>7, <3>2, <3>4, <3>5, <3>6 DEF Work
  <2>3. ASSUME HandleError(w), ~UNCHANGED rowVars PROVE \A v \in Workers : pc'[v] \notin Inside
    <3>1. pc[w] \in Inside /\ Idle(w)
      BY <2>3 DEF HandleError, Inside, Acknowledge, GiveBack
    <3>2. pc'[w] \notin Inside
      BY <1>0, <3>1 DEF Idle, Goto, TypeOK, Inside
    <3> QED
      BY <1>2, <2>1, <3>1, <3>2
  <2> QED
    BY <1>3, <2>1, <2>2, <2>3
<1>8. ASSUME NEW w \in Workers, Claim(w)
      PROVE  /\ \A u, v \in Workers : pc'[u] \in Inside /\ pc'[v] \in Inside => u = v
             /\ job'[last].status = "PENDING" => \A v \in Workers : pc'[v] \notin Inside
  <2>1. pc[w] = "claim" /\ pc[w] \notin Inside /\ wk[w].job \in Jobs
        /\ \A v \in Workers \ {w} : pc'[v] = pc[v]
    BY <1>0, <1>8, OthersStay DEF Claim, Busy, Inside, Work
  <2>2. CASE Idle(w)
    <3>1. pc'[w] \notin Inside
      BY <1>0, <2>2 DEF Idle, Goto, TypeOK, Inside
    <3>2. job'[last].status = "PENDING" => job[last].status = "PENDING"
      <4>1. CASE job' = job
        BY <4>1
      <4>2. CASE job[wk[w].job].status = "PENDING"
        BY <1>0, <2>1, <4>2 DEF JobsInv, OnlyLast, IsActive, Active
      <4> QED
        BY <1>8, <4>1, <4>2 DEF Claim
    <3> QED
      BY <1>3, <2>1, <3>1, <3>2
  <2>3. CASE ~Idle(w)
    <3>1. job[wk[w].job].status = "PENDING" /\ Claimed(w)
      BY <1>8, <2>3 DEF Claim, Acknowledge, GiveBack
    <3>2. wk[w].job = last
      BY <1>0, <2>1, <3>1 DEF JobsInv, OnlyLast, IsActive, Active
    <3>3. \A v \in Workers : pc[v] \notin Inside
      BY <1>2, <3>1, <3>2
    <3>4. job'[last].status = "RUNNING"
      BY <1>0, <3>1, <3>2 DEF Claimed, Row
    <3> QED
      BY <2>1, <3>3, <3>4
  <2> QED
    BY <2>2, <2>3
<1> QED
  BY <1>3, <1>4, <1>5, <1>6, <1>7, <1>8 DEF Next, Work

\* Only a request that creates a job changes the number of jobs.
LEMMA NewJobQuiet ==
    ASSUME [Next]_vars, last' # last
    PROVE  /\ \E c \in Clients : CreateJob(c)
           /\ stored' = stored
<1>1. PICK c \in Clients : CreateJob(c)
  <2>1. ASSUME NEW w \in Workers, Deliver(w) \/ Work(w) \/ StepFails(w) \/ Crash(w) PROVE last' = last
    BY <2>1 DEF Work, Deliver, StepFails, Crash, Claim, FetchPage, ScanEnded, ReadBatch, SaveParent,
       MarkSeen, Checkpoint, SendNext, RefuseCompletion, CleanUp, Complete, HandleError, NotRunning,
       SetStatus, rowVars
  <2>2. ASSUME \/ UNCHANGED vars \/ NoticeSaved \/ StartActive
               \/ \E i \in Items : Publish(i) \/ Withdraw(i) \/ NoticeRead(i)
               \/ \E c \in Clients : CountItems(c)
               \/ \E j \in Jobs : Cancel(j)
        PROVE  last' = last
    BY <2>2 DEF vars, NoticeSaved, StartActive, Publish, Withdraw, NoticeRead, CountItems, Cancel,
                rowVars
  <2> QED
    BY <2>1, <2>2 DEF Next
<1> QED
  BY <1>1 DEF CreateJob, snapVars

\* A new job starts from nothing, and nobody works on it.
LEMMA NewJobStep ==
    ASSUME MaxChanges = 0, ExactInv, LatestOnly, LatestOnly', [Next]_vars, last' # last
    PROVE  ExactInv'
<1>0. TypeOK /\ JobsInv /\ Busy /\ JobsInv' /\ last \in Nat
  BY JobsStep DEF ExactInv, JobsInv, TypeOK
<1>1. PICK c \in Clients : CreateJob(c)
  BY NewJobQuiet
<1> DEFINE n == Cardinality(catalogue)
<1>2. /\ last' = last + 1 /\ last' \in Jobs
      /\ job' = [job EXCEPT ![last'] = [NewRow(n) EXCEPT !.status = "PENDING"]]
      /\ count' = [count EXCEPT ![c] = NoCount]
      /\ UNCHANGED <<catalogue, cursor, pc, wk, stored, seen, stamp, notice, scanned>>
  <2>1. count[c] = n
    BY <1>1 DEF CreateJob, ExactInv, Totals
  <2>2. last < MaxJobs /\ last' = last + 1
        /\ job' = [job EXCEPT ![last'] = [NewRow(count[c]) EXCEPT !.status = "PENDING"]]
    BY <1>1 DEF CreateJob, rowVars
  <2> QED
    BY <1>0, <1>1, <2>1, <2>2, BoundsAssumption
    DEF CreateJob, sellerVars, workVars, snapVars, hookVars, Jobs
<1>3. \A v \in Workers : pc[v] \notin Inside
  <2>1. SUFFICES ASSUME NEW v \in Workers, pc[v] \in Inside PROVE FALSE
    OBVIOUS
  <2>2. wk[v].job = last /\ wk[v].job = last'
    BY <1>2, <2>1 DEF LatestOnly, Stale
  <2> QED
    BY <1>0, <1>2, <2>2
<1>4. Foreign' /\ Totals'
  <2>1. \A d \in Clients : count'[d] \in {NoCount, n}
    BY <1>0, <1>2 DEF ExactInv, Totals, TypeOK
  <2> QED
    BY <1>2, <2>1 DEF ExactInv, Foreign, Totals, Listed
<1>5. FirstAlone'
  BY <1>2, <1>3 DEF FirstAlone
<1>6. job'[last'] = [NewRow(n) EXCEPT !.status = "PENDING"]
  BY <1>0, <1>2 DEF TypeOK
<1>7. LastFine'
  <2>1. PICK r : r = job'[last']
    OBVIOUS
  <2>2. /\ r.status = "PENDING" /\ r.buffer = {} /\ r.processed = 0 /\ r.total = n
    BY <1>6, <2>1 DEF NewRow
  <2>3. Traced(r)'
    <3>1. PICK d \in SUBSET catalogue' : d = {}
      OBVIOUS
    <3>2. Cardinality(d) = r.processed
      BY <2>2, <3>1, FS_EmptySet
    <3> QED
      BY <2>2, <3>1, <3>2 DEF Traced
  <2>4. RowFine(r)'
    BY <1>2, <2>2, <2>3 DEF RowFine
  <2> QED
    BY <2>1, <2>2, <2>4 DEF LastFine
<1>8. \A v \in Workers : Fine(v)'
  <2>1. SUFFICES ASSUME NEW v \in Workers PROVE Fine(v)'
    OBVIOUS
  <2>2. Fine(v) /\ wk[v] \in Local
    BY <1>0 DEF ExactInv, TypeOK
  <2>3. pc[v] = "claim" => wk[v].open = {} /\ wk[v].job <= last
    BY <1>0, <2>2 DEF Fine, FineAt, JobsInv, Taken
  <2>4. pc[v] = "claim" => wk[v].job # last'
    BY <1>0, <1>2, <2>2, <2>3 DEF Local
  <2> QED
    BY <1>2, <1>3, <2>3, <2>4 DEF Fine, FineAt, Inside
<1> QED
  BY <1>0, <1>4, <1>5, <1>7, <1>8 DEF ExactInv

\* ExactInv is inductive while LatestOnly holds and the catalogue does not change.
LEMMA ExactStep ==
    ASSUME MaxChanges = 0, ExactInv, LatestOnly, LatestOnly', [Next]_vars
    PROVE  ExactInv'
<1>1. CASE last' # last
  BY <1>1, NewJobStep
<1>2. CASE last' = last
  <2>1. JobsInv' /\ Foreign' /\ Totals' /\ FirstAlone' /\ LastFine'
    BY <1>2, JobsStep, GrowStep, AloneStep, LastStep DEF ExactInv
  <2>2. TypeOK
    BY DEF ExactInv, JobsInv
  <2>3. \A v \in Workers : Fine(v)'
    <3>1. CASE UNCHANGED workVars
      BY <1>2, <3>1, OthersFine DEF workVars
    <3>2. CASE \/ UNCHANGED vars \/ NoticeSaved \/ StartActive
               \/ \E i \in Items : Publish(i) \/ Withdraw(i) \/ NoticeRead(i)
               \/ \E c \in Clients : CountItems(c) \/ CreateJob(c)
               \/ \E j \in Jobs : Cancel(j)
      <4>1. UNCHANGED workVars
        BY <3>2 DEF vars, workVars, NoticeSaved, StartActive, Publish, Withdraw, NoticeRead,
                    CountItems, CreateJob, Cancel
      <4> QED
        BY <3>1, <4>1
    <3>3. ASSUME NEW w \in Workers, Deliver(w) \/ Work(w) \/ StepFails(w) \/ Crash(w)
          PROVE  \A v \in Workers : Fine(v)'
      <4>1. \A v \in Workers \ {w} : pc'[v] = pc[v] /\ wk'[v] = wk[v]
        BY <2>2, <3>3, OthersStay
      <4>2. \A v \in Workers \ {w} : Fine(v)'
        BY <1>2, <4>1, OthersFine
      <4>3. Fine(w)'
        BY <1>2, <3>3, MoverFine
      <4> QED
        BY <4>2, <4>3
    <3> QED
      BY <3>2, <3>3 DEF Next
  <2> QED
    BY <2>1, <2>3 DEF ExactInv
<1> QED
  BY <1>1, <1>2


\* At the start no invocation is at work and nothing is known of any row.
LEMMA ExactInit == Init => ExactInv
<1> SUFFICES ASSUME Init PROVE ExactInv
  OBVIOUS
<1>1. JobsInv /\ last = 0 /\ \A w \in Workers : pc[w] = "idle"
  BY JobsInit DEF Init
<1>2. Foreign /\ Totals
  BY DEF Init, Foreign, Totals
<1>3. FirstAlone /\ LastFine
  BY <1>1 DEF FirstAlone, LastFine
<1>4. \A w \in Workers : Fine(w)
  BY <1>1 DEF Fine, FineAt, Inside
<1> QED
  BY <1>1, <1>2, <1>3, <1>4 DEF ExactInv

\* SnapshotIsExact: while the seller lists the same publications and no invocation
\* is left on a job that another has replaced, a completed job leaves a row for what
\* is listed and for nothing else, whatever fails, is lost, repeated or cancelled.
THEOREM SnapshotIsExact ==
    ASSUME MaxChanges = 0
    PROVE  Spec /\ []LatestOnly => []CompletedIsExact
<1>1. Init => ExactInv
  BY ExactInit
<1>2. ExactInv /\ LatestOnly /\ LatestOnly' /\ [Next]_vars => ExactInv'
  BY ExactStep
<1>3. ExactInv => CompletedIsExact
  BY DEF ExactInv, LastFine, CompletedIsExact, Exact, Listed
<1> QED
  BY <1>1, <1>2, <1>3, PTL DEF Spec

\* ListedIsKept: and on the way its clean-up deletes nothing that is listed, not
\* even when the webhook or a lost answer has touched the rows meanwhile.
THEOREM ListedIsKept ==
    ASSUME MaxChanges = 0
    PROVE  Spec /\ []LatestOnly => KeepsListed
<1> DEFINE Kept == \A w \in Workers : pc[w] = "finish" /\ pc'[w] # "finish" =>
                     (stored \ stored') \cap ParentsOf(scanned[wk[w].job]) = {}
<1>1. Init => ExactInv
  BY ExactInit
<1>2. ExactInv /\ LatestOnly /\ LatestOnly' /\ [Next]_vars => ExactInv'
  BY ExactStep
<1>3. ExactInv /\ LatestOnly /\ LatestOnly' /\ [Next]_vars => [Kept]_vars
  <2> SUFFICES ASSUME ExactInv, LatestOnly, LatestOnly', [Next]_vars,
                      NEW w \in Workers, pc[w] = "finish", pc'[w] # "finish"
               PROVE  (stored \ stored') \cap ParentsOf(scanned[wk[w].job]) = {}
    OBVIOUS
  <2>1. pc[w] \in Inside
    BY DEF Inside
  <2>2. wk[w].job = last /\ last \in Jobs
    BY <2>1, AtLast DEF ExactInv
  <2>3. ParentsOf(scanned[last]) \subseteq Listed
    BY <2>2 DEF ExactInv, Totals, ParentsOf, Listed
  <2>4. CASE last' = last
    <3>1. stored \cap Listed \subseteq stored'
      BY <2>4, GrowStep DEF Grow
    <3> QED
      BY <2>2, <2>3, <3>1
  <2>5. CASE last' # last
    <3>1. stored' = stored
      BY <2>5, NewJobQuiet DEF ExactInv, JobsInv
    <3> QED
      BY <3>1
  <2> QED
    BY <2>4, <2>5
<1>4. QED
  BY <1>1, <1>2, <1>3, PTL DEF Spec, KeepsListed

-----------------------------------------------------------------------------
(* The clean-up while the seller changes the catalogue                       *)

\* What has been listed since the scan of the last job began is marked, in the
\* buffer of the row or still to come, unless an item of the row failed.
Cover(r) == r.scanStarted /\ ~r.failed =>
                scanned[last] \subseteq MarkedItems \cup r.buffer \cup cursor[last]

WholeRow(r) ==
    /\ Cover(r)
    /\ ~r.scanStarted => r.buffer = {}
    /\ r.scanStarted /\ ~r.scroll => cursor[last] = {}

WholeSave(l) ==
    /\ l.batch # {} /\ l.batch \subseteq l.row.buffer /\ l.open \subseteq stored
    /\ ParentsOf(l.batch \ l.bad) \subseteq l.todo \cup l.open \cup Marked

WholeAt(stage, l) ==
    /\ stage \in {"claim", "scan"} => l.open = {}
    /\ stage \in {"scan", "save", "finish", "complete"} => WholeRow(l.row)
    /\ stage = "save" => WholeSave(l)
    /\ stage \in {"finish", "complete"} =>
          l.row.scanStarted /\ ~l.row.scroll /\ l.row.buffer = {}
    /\ stage = "complete" => ~l.row.failed
    /\ stage = "handle" => l.error # "retryable"

Alone == \A v, w \in Workers : pc[v] \in Inside /\ pc[w] \in Inside => v = w

WholeLast == last > 0 =>
    /\ job[last].status = "PENDING" => WholeRow(job[last])
    /\ job[last].status = "COMPLETED" =>
          /\ ParentsOf(scanned[last]) \subseteq stored
          /\ \A w \in Workers : pc[w] \notin Inside

WholeInv ==
    /\ HolderInv /\ JobsInv /\ Alone /\ WholeLast
    /\ \A w \in Workers : WholeAt(pc[w], wk[w])

\* The faults that give back a job with a page it has fetched and not written.
Retrying == {"error", "lost"}

\* What every step keeps but the creation of a job, a page and a clean-up.
Steady ==
    /\ last' = last /\ cursor' = cursor
    /\ scanned'[last] \subseteq scanned[last]
    /\ stored \subseteq stored' /\ Marked \subseteq Marked'

\* Such a step keeps what a row covers,
LEMMA SteadyRow ==
    ASSUME NEW r, WholeRow(r), Steady
    PROVE  WholeRow(r)'
<1>1. MarkedItems \subseteq MarkedItems'
  BY DEF Steady, MarkedItems
<1> QED
  BY <1>1 DEF WholeRow, Cover, Steady

\* and what an invocation knows.
LEMMA SteadyAt ==
    ASSUME NEW stage, NEW l, WholeAt(stage, l), Steady
    PROVE  WholeAt(stage, l)'
<1>1. stage \in {"scan", "save", "finish", "complete"} => WholeRow(l.row)'
  <2>1. PICK r : r = l.row
    OBVIOUS
  <2> QED
    BY <2>1, SteadyRow DEF WholeAt
<1>2. stage = "save" => WholeSave(l)'
  BY DEF WholeAt, WholeSave, Steady
<1> QED
  BY <1>1, <1>2 DEF WholeAt

\* Outside the work on a job nothing but open is looked at.
LEMMA OutsideAt ==
    ASSUME NEW stage, NEW l, stage \notin Inside, stage = "claim" => l.open = {}
    PROVE  WholeAt(stage, l) /\ WholeAt(stage, l)'
BY DEF WholeAt, Inside

\* An invocation at work is on the last job, and the only one at work.
LEMMA WholeHolder ==
    ASSUME WholeInv, LatestOnly, NEW w \in Workers, pc[w] \in Inside
    PROVE  /\ wk[w].job = last /\ last \in Jobs /\ last > 0
           /\ \A v \in Workers \ {w} : pc[v] \notin Inside
           /\ job[last].status \notin {"NEW", "PENDING", "COMPLETED"}
<1>1. wk[w].job = last /\ last \in Jobs /\ last > 0
  BY AtLast DEF WholeInv
<1>2. \A v \in Workers \ {w} : pc[v] \notin Inside
  BY DEF WholeInv, Alone
<1>3. job[last].status \notin {"NEW", "PENDING"}
  BY <1>1 DEF WholeInv, HolderInv, Unheld, WorksOn
<1>4. job[last].status # "COMPLETED"
  BY <1>1 DEF WholeInv, WholeLast
<1> QED
  BY <1>1, <1>2, <1>3, <1>4

\* What a clean-up deletes has not been listed since the scan began.
LEMMA WholeCleanUp ==
    ASSUME WholeInv, LatestOnly, NEW w \in Workers, CleanUp(w)
    PROVE  /\ ParentsOf(scanned[last]) \subseteq Marked
           /\ NotSeen(w) \cap Marked = {}
           /\ WholeRow(row(w)) /\ ~row(w).failed
<1>0. TypeOK /\ pc[w] = "finish" /\ pc[w] \in Inside
  BY DEF CleanUp, Inside, WholeInv, JobsInv
<1>1. wk[w].job = last /\ last \in Jobs
  BY <1>0, WholeHolder
<1>2. /\ WholeRow(row(w)) /\ row(w).scanStarted /\ ~row(w).scroll /\ row(w).buffer = {}
  BY <1>0 DEF WholeInv, WholeAt, row
<1>3. ~row(w).failed
  BY DEF CleanUp, CompletionFails
<1>4. scanned[last] \subseteq MarkedItems
  BY <1>2, <1>3 DEF WholeRow, Cover
<1>5. ParentsOf(scanned[last]) \subseteq Marked
  BY <1>4 DEF ParentsOf, MarkedItems
<1>6. NotSeen(w) \cap Marked = {}
  BY <1>1 DEF NotSeen, Marked
<1> QED
  BY <1>2, <1>3, <1>5, <1>6

\* Nobody but a claimer comes to work on a job.
LEMMA AloneWhole ==
    ASSUME WholeInv, LatestOnly, LatestOnly', [Next]_vars, last' = last
    PROVE  Alone'
<1>0. TypeOK /\ JobsInv /\ HolderInv
  BY DEF WholeInv, JobsInv
<1>1. ASSUME \A v \in Workers : pc'[v] \in Inside => pc[v] \in Inside PROVE Alone'
  BY <1>1 DEF WholeInv, Alone
<1>2. CASE \/ UNCHANGED vars \/ NoticeSaved \/ StartActive
           \/ \E i \in Items : Publish(i) \/ Withdraw(i) \/ NoticeRead(i)
           \/ \E c \in Clients : CountItems(c) \/ CreateJob(c)
           \/ \E j \in Jobs : Cancel(j)
  <2>1. pc' = pc
    BY <1>2 DEF vars, workVars, NoticeSaved, StartActive, Publish, Withdraw, NoticeRead, CountItems,
                CreateJob, Cancel
  <2> QED
    BY <1>1, <2>1
<1>3. ASSUME NEW w \in Workers, Deliver(w) \/ (Work(w) /\ ~Claim(w)) \/ StepFails(w) \/ Crash(w)
      PROVE  Alone'
  <2>1. \A v \in Workers, k \in Jobs : WorksOn(v, k)' => WorksOn(v, k)
    BY <1>0, <1>3, WorkFrame
  <2>2. \A v \in Workers : pc'[v] \in Inside => wk'[v].job = last /\ wk'[v].job \in Jobs
    <3>1. Busy'
      BY JobsStep DEF WholeInv, JobsInv
    <3> QED
      BY <3>1 DEF LatestOnly, Stale, Busy, Inside
  <2> QED
    BY <1>1, <2>1, <2>2 DEF WorksOn
<1>4. ASSUME NEW w \in Workers, Claim(w) PROVE Alone'
  <2>1. pc[w] = "claim" /\ pc[w] \notin Inside /\ wk[w].job \in Jobs
        /\ \A v \in Workers \ {w} : pc'[v] = pc[v]
    BY <1>0, <1>4, OthersStay DEF Claim, JobsInv, Busy, Inside, Work
  <2>2. CASE Idle(w)
    <3>1. pc'[w] \notin Inside
      BY <1>0, <2>2 DEF Idle, Goto, TypeOK, Inside
    <3> QED
      BY <1>1, <2>1, <3>1
  <2>3. CASE ~Idle(w)
    <3>1. job[wk[w].job].status = "PENDING"
      BY <1>4, <2>3 DEF Claim, Acknowledge, GiveBack
    <3>2. wk[w].job = last
      BY <1>0, <2>1, <3>1 DEF JobsInv, OnlyLast, IsActive, Active
    <3>3. \A v \in Workers : pc[v] \notin Inside
      BY <3>1, <3>2, WholeHolder
    <3> QED
      BY <2>1, <3>3 DEF Alone
  <2> QED
    BY <2>2, <2>3
<1> QED
  BY <1>2, <1>3, <1>4 DEF Next, Work

\* The seller, the webhook and the user.
LEMMA UserWhole ==
    ASSUME WholeInv, last' = last,
           \/ UNCHANGED vars
           \/ \E i \in Items : Publish(i) \/ Withdraw(i) \/ NoticeRead(i)
           \/ NoticeSaved \/ StartActive
           \/ \E c \in Clients : CountItems(c) \/ CreateJob(c)
           \/ \E j \in Jobs : Cancel(j)
    PROVE  /\ WholeLast' /\ \A v \in Workers : WholeAt(pc[v], wk[v])'
           /\ stored \subseteq stored'
<1>0. TypeOK /\ last \in Nat
  BY DEF WholeInv, JobsInv, TypeOK
<1>1. UNCHANGED workVars
  BY DEF vars, workVars, Publish, Withdraw, NoticeRead, NoticeSaved, StartActive, CountItems,
         CreateJob, Cancel
<1>2. UNCHANGED <<cursor, seen>> /\ stored \subseteq stored'
  BY DEF vars, snapVars, Publish, Withdraw, NoticeRead, NoticeSaved, Upserted, StartActive,
         CountItems, CreateJob, Cancel
<1>3. last > 0 => scanned'[last] \subseteq scanned[last]
  <2>1. CASE \E i \in Items : Withdraw(i)
    BY <1>0, <2>1 DEF Withdraw, TypeOK, Jobs
  <2>2. CASE scanned' = scanned
    BY <2>2
  <2> QED
    BY <2>1, <2>2 DEF vars, Publish, NoticeRead, NoticeSaved, StartActive, CountItems, CreateJob,
                      Cancel
<1>4. last > 0 => Steady
  BY <1>2, <1>3 DEF Steady, Marked
<1>5. \A v \in Workers : WholeAt(pc[v], wk[v])'
  <2>1. SUFFICES ASSUME NEW v \in Workers PROVE WholeAt(pc[v], wk[v])'
    OBVIOUS
  <2>2. PICK stage : stage = pc[v]
    OBVIOUS
  <2>3. PICK l : l = wk[v]
    OBVIOUS
  <2>4. WholeAt(stage, l)
    BY <2>2, <2>3 DEF WholeInv
  <2>5. stage \in Inside => last > 0
    BY <1>0, <2>2, <2>3 DEF WholeInv, JobsInv, Taken, Busy, Inside, Jobs
  <2>6. WholeAt(stage, l)'
    <3>1. CASE stage \in Inside
      BY <1>4, <2>4, <2>5, <3>1, SteadyAt
    <3>2. CASE stage \notin Inside
      BY <2>4, <3>2, OutsideAt DEF WholeAt
    <3> QED
      BY <3>1, <3>2
  <2> QED
    BY <1>1, <2>2, <2>3, <2>6 DEF workVars
<1>6. WholeLast'
  <2>1. SUFFICES ASSUME last > 0
                 PROVE  /\ job'[last].status = "PENDING" => WholeRow(job[last])'
                        /\ job'[last].status = "COMPLETED" =>
                              /\ ParentsOf(scanned'[last]) \subseteq stored'
                              /\ \A w \in Workers : pc'[w] \notin Inside
    BY DEF WholeLast
  <2>2. job'[last] = job[last] \/ job'[last].status = "CANCELLED"
    <3>1. CASE \E j \in Jobs : Cancel(j)
      BY <1>0, <2>1, <3>1 DEF Cancel, TypeOK, Row, Jobs
    <3>2. ASSUME NEW c \in Clients, CreateJob(c) PROVE job'[last] = job[last]
      <4>1. last' # last + 1
        BY <1>0
      <4> QED
        BY <3>2, <4>1 DEF CreateJob, rowVars
    <3> QED
      BY <3>1, <3>2 DEF vars, rowVars, Publish, Withdraw, NoticeRead, NoticeSaved, StartActive, CountItems
  <2>3. CASE job'[last] = job[last]
    <3>1. PICK r : r = job[last]
      OBVIOUS
    <3>2. r.status = "PENDING" => WholeRow(r)'
      BY <1>4, <2>1, <3>1, SteadyRow DEF WholeInv, WholeLast
    <3>3. ParentsOf(scanned'[last]) \subseteq ParentsOf(scanned[last])
      BY <1>3, <2>1 DEF ParentsOf
    <3> QED
      BY <1>1, <1>2, <2>1, <2>3, <3>1, <3>2, <3>3 DEF WholeInv, WholeLast, workVars
  <2> QED
    BY <2>2, <2>3
<1> QED
  BY <1>2, <1>5, <1>6

\* An invocation that is not at work: it reads a message, claims or sends the next.
LEMMA OutsideWhole ==
    ASSUME WholeInv, LatestOnly, NEW w \in Workers, pc[w] \notin Inside,
           Deliver(w) \/ Work(w) \/ StepFails(w) \/ Crash(w)
    PROVE  WholeLast' /\ \A v \in Workers : WholeAt(pc[v], wk[v])'
<1>0. TypeOK /\ wk[w] \in Local /\ job \in [Jobs -> Row] /\ Busy
  BY DEF WholeInv, JobsInv, TypeOK
<1>1. Deliver(w) \/ Claim(w) \/ SendNext(w) \/ Crash(w)
  BY DEF Work, StepFails, FetchPage, ScanEnded, ReadBatch, SaveParent, MarkSeen, Checkpoint, Saved,
         RefuseCompletion, CleanUp, Complete, HandleError, Inside
<1>2. Steady
  BY <1>1 DEF Steady, Deliver, Claim, SendNext, Crash, snapVars, rowVars, Marked
<1>3. \A v \in Workers \ {w} : pc'[v] = pc[v] /\ wk'[v] = wk[v]
  BY <1>0, OthersStay
<1>4. ASSUME NEW v \in Workers \ {w} PROVE WholeAt(pc[v], wk[v])'
  <2>1. PICK stage : stage = pc[v]
    OBVIOUS
  <2>2. PICK l : l = wk[v]
    OBVIOUS
  <2>3. WholeAt(stage, l)'
    BY <1>2, <2>1, <2>2, SteadyAt DEF WholeInv
  <2> QED
    BY <1>3, <2>1, <2>2, <2>3
<1>5. ASSUME NEW r, NEW s, WholeRow(r), s = [r EXCEPT !.status = "RUNNING", !.started = s.started], r \in Row
      PROVE  WholeRow(s)
  <2>1. s.scanStarted = r.scanStarted /\ s.scroll = r.scroll /\ s.buffer = r.buffer /\ s.failed = r.failed
    BY <1>5 DEF Row
  <2> QED
    BY <1>5, <2>1 DEF WholeRow, Cover
<1>6. CASE Idle(w) /\ \A j \in Jobs : job'[j] = job[j]
           \/ (job'[j].status = "RUNNING" /\ job[j].status = "PENDING")
  <2>1. pc'[w] = "idle"
    BY <1>0, <1>6 DEF Idle, Goto, TypeOK
  <2>2. WholeAt(pc[w], wk[w])'
    BY <2>1 DEF WholeAt
  <2>3. WholeLast'
    <3>1. SUFFICES ASSUME last > 0
                   PROVE  /\ job'[last].status = "PENDING" => WholeRow(job[last])'
                          /\ job'[last].status = "COMPLETED" =>
                                /\ ParentsOf(scanned'[last]) \subseteq stored'
                                /\ \A v \in Workers : pc'[v] \notin Inside
      BY <1>2 DEF WholeLast, Steady
    <3>2. last \in Jobs
      BY <1>0, <3>1 DEF TypeOK, Jobs
    <3>3. PICK r : r = job[last]
      OBVIOUS
    <3>4. r.status = "PENDING" => WholeRow(r)'
      BY <1>2, <3>1, <3>3, SteadyRow DEF WholeInv, WholeLast
    <3>5. ParentsOf(scanned'[last]) \subseteq ParentsOf(scanned[last])
      BY <1>2 DEF ParentsOf, Steady
    <3>6. pc'[w] \notin Inside
      BY <2>1 DEF Inside
    <3> QED
      BY <1>2, <1>3, <1>6, <3>1, <3>2, <3>3, <3>4, <3>5, <3>6 DEF WholeInv, WholeLast, Steady
  <2> QED
    BY <1>4, <2>2, <2>3
<1>7. CASE Deliver(w) /\ ~Idle(w)
  <2>1. PICK j \in queue : Goto(w, "claim", [Blank EXCEPT !.job = j, !.unstarted = (job[j].started = 0)])
    BY <1>7 DEF Deliver
  <2>2. pc'[w] = "claim" /\ wk'[w].open = {} /\ job' = job
    BY <1>0, <1>7, <2>1 DEF Goto, TypeOK, Blank, Deliver, rowVars
  <2>3. WholeAt(pc[w], wk[w])'
    BY <2>2 DEF WholeAt
  <2>4. WholeLast'
    <3>1. SUFFICES ASSUME last > 0
                   PROVE  /\ job[last].status = "PENDING" => WholeRow(job[last])'
                          /\ job[last].status = "COMPLETED" =>
                                /\ ParentsOf(scanned'[last]) \subseteq stored'
                                /\ \A v \in Workers : pc'[v] \notin Inside
      BY <1>2, <2>2 DEF WholeLast, Steady
    <3>3. PICK r : r = job[last]
      OBVIOUS
    <3>4. r.status = "PENDING" => WholeRow(r)'
      BY <1>2, <3>1, <3>3, SteadyRow DEF WholeInv, WholeLast
    <3>5. ParentsOf(scanned'[last]) \subseteq ParentsOf(scanned[last])
      BY <1>2 DEF ParentsOf, Steady
    <3>6. pc'[w] \notin Inside
      BY <2>2 DEF Inside
    <3> QED
      BY <1>2, <1>3, <2>2, <3>1, <3>3, <3>4, <3>5, <3>6 DEF WholeInv, WholeLast, Steady
  <2> QED
    BY <1>4, <2>3, <2>4
<1>8. CASE Claim(w) /\ ~Idle(w)
  <2>1. /\ job[wk[w].job].status = "PENDING" /\ Claimed(w)
        /\ Goto(w, "scan", [wk[w] EXCEPT !.row = job'[wk[w].job]])
    BY <1>8 DEF Claim, Acknowledge, GiveBack
  <2>2. wk[w].job = last /\ last \in Jobs /\ last > 0 /\ pc[w] = "claim"
    <3>1. wk[w].job \in Jobs /\ pc[w] = "claim"
      BY <1>0, <1>8 DEF Claim, Busy
    <3>2. wk[w].job = last
      BY <2>1, <3>1 DEF WholeInv, JobsInv, OnlyLast, IsActive, Active
    <3> QED
      BY <3>1, <3>2 DEF Jobs
  <2>3. pc'[w] = "scan" /\ wk'[w].row = job'[last] /\ wk'[w].open = wk[w].open
    BY <1>0, <2>1, <2>2 DEF Goto, TypeOK, Local
  <2>4. PICK t : job' = [job EXCEPT ![last].status = "RUNNING", ![last].started = t]
    BY <2>1, <2>2 DEF Claimed
  <2>5. job'[last].status = "RUNNING"
        /\ job'[last] = [job[last] EXCEPT !.status = "RUNNING", !.started = job'[last].started]
    BY <1>0, <2>2, <2>4 DEF Row
  <2>6. PICK s : s = job'[last]
    OBVIOUS
  <2>7. WholeRow(s)'
    <3>1. WholeRow(job[last]) /\ job[last] \in Row
      BY <1>0, <2>1, <2>2 DEF WholeInv, WholeLast
    <3>2. WholeRow(s)
      BY <1>5, <2>5, <2>6, <3>1
    <3> QED
      BY <1>2, <3>2, SteadyRow
  <2>8. wk[w].open = {}
    BY <2>2 DEF WholeInv, WholeAt
  <2>9. WholeAt(pc[w], wk[w])'
    BY <2>3, <2>6, <2>7, <2>8 DEF WholeAt
  <2>10. WholeLast'
    BY <1>2, <2>5 DEF WholeLast, Steady
  <2> QED
    BY <1>4, <2>9, <2>10
<1>9. CASE Claim(w) /\ Idle(w)
  <2>1. job' = job \/ (job[wk[w].job].status = "PENDING" /\ Claimed(w))
    BY <1>9 DEF Claim
  <2>2. \A j \in Jobs : job'[j] = job[j] \/ (job'[j].status = "RUNNING" /\ job[j].status = "PENDING")
    <3>1. CASE job' = job
      BY <3>1
    <3>2. CASE job[wk[w].job].status = "PENDING" /\ Claimed(w)
      BY <1>0, <3>2 DEF Claimed, Row
    <3> QED
      BY <2>1, <3>1, <3>2
  <2> QED
    BY <1>6, <1>9, <2>2
<1>10. CASE Idle(w) /\ (Deliver(w) \/ SendNext(w) \/ Crash(w))
  BY <1>6, <1>10 DEF Deliver, SendNext, Crash, rowVars
<1> QED
  BY <1>1, <1>7, <1>8, <1>9, <1>10 DEF SendNext, Crash, GiveBack

\* The others are not at work, and of them nothing is asked.
LEMMA OthersWhole ==
    ASSUME WholeInv, LatestOnly, NEW w \in Workers, pc[w] \in Inside, Work(w) \/ StepFails(w) \/ Crash(w)
    PROVE  \A v \in Workers \ {w} : pc'[v] \notin Inside /\ WholeAt(pc[v], wk[v])'
<1>1. \A v \in Workers \ {w} : pc'[v] = pc[v] /\ wk'[v] = wk[v] /\ pc[v] \notin Inside
  BY OthersStay, WholeHolder DEF WholeInv, JobsInv
<1>2. SUFFICES ASSUME NEW v \in Workers \ {w}
               PROVE  pc'[v] \notin Inside /\ WholeAt(pc[v], wk[v])'
  OBVIOUS
<1>3. PICK stage : stage = pc[v]
  OBVIOUS
<1>4. PICK l : l = wk[v]
  OBVIOUS
<1>5. stage = "claim" => l.open = {}
  BY <1>3, <1>4 DEF WholeInv, WholeAt
<1>6. WholeAt(stage, l)'
  BY <1>1, <1>3, <1>5, OutsideAt
<1> QED
  BY <1>1, <1>3, <1>4, <1>6

\* A holder that leaves without an update of the row, or hands it to its error handling.
LEMMA HolderStays ==
    ASSUME WholeInv, LatestOnly, NEW w \in Workers, pc[w] \in Inside,
           Work(w) \/ StepFails(w) \/ Crash(w), WholeAt(pc[w], wk[w])',
           last' = last, job'[last].status \notin {"PENDING", "COMPLETED"}
    PROVE  WholeLast' /\ \A v \in Workers : WholeAt(pc[v], wk[v])'
BY OthersWhole DEF WholeLast

\* A page of the scroll.
LEMMA FetchWhole ==
    ASSUME WholeInv, LatestOnly, NEW w \in Workers, FetchPage(w)
    PROVE  WholeAt(pc[w], wk[w])'
<1>0. /\ TypeOK /\ pc[w] = "scan" /\ pc[w] \in Inside /\ row(w).buffer = {}
      /\ wk[w] \in Local /\ row(w) \in Row
  BY DEF FetchPage, WholeInv, JobsInv, Inside, TypeOK, Local, row
<1>1. wk[w].job = last /\ last \in Jobs
  BY <1>0, WholeHolder
<1>2. WholeRow(row(w)) /\ wk[w].open = {}
  BY <1>0 DEF WholeInv, WholeAt, row
<1> DEFINE rest == IF row(w).scanStarted THEN cursor[last] ELSE catalogue
<1>3. PICK page \in Portions(rest, PageSize) :
         /\ cursor' = [cursor EXCEPT ![last] = rest \ page]
         /\ Goto(w, "scan", [wk[w] EXCEPT !.row.scanStarted = TRUE,
                                          !.row.scroll = (page # {}), !.row.buffer = page])
  BY <1>1 DEF FetchPage
<1>4. page \subseteq rest /\ rest \in SUBSET Items
  BY <1>0, <1>1 DEF Portions, TypeOK
<1>5. page = {} => rest = {}
  <2>1. IsFiniteSet(rest) /\ IsFiniteSet(page)
    BY <1>4, SetsAssumption, FS_Subset
  <2>2. Cardinality(rest) \in Nat /\ PageSize \in Nat \ {0}
    BY <2>1, FS_CardinalityType, BoundsAssumption
  <2>3. Cardinality(page) = SmallerOf(PageSize, Cardinality(rest))
    BY DEF Portions
  <2>4. page = {} => Cardinality(page) = 0
    BY FS_EmptySet
  <2>5. Cardinality(page) = 0 => Cardinality(rest) = 0
    BY <2>2, <2>3 DEF SmallerOf
  <2> QED
    BY <2>1, <2>4, <2>5, FS_EmptySet
<1>6. cursor'[last] = rest \ page
  BY <1>0, <1>1, <1>3 DEF TypeOK
<1>7. last' = last /\ MarkedItems' = MarkedItems
  BY DEF FetchPage, rowVars, snapVars, MarkedItems, Marked
<1>8. PICK more \in BOOLEAN : more = (page # {})
  OBVIOUS
<1>9. Goto(w, "scan", [wk[w] EXCEPT !.row.scanStarted = TRUE,
                                    !.row.scroll = more, !.row.buffer = page])
  BY <1>3, <1>8
<1>10. /\ pc'[w] = "scan" /\ wk'[w].open = {} /\ wk'[w].row.scroll = more
       /\ wk'[w].row.scanStarted = TRUE /\ wk'[w].row.buffer = page
       /\ wk'[w].row.failed = row(w).failed
  BY <1>0, <1>2, <1>9 DEF Goto, TypeOK, Local, Row, row
<1>11. ~more => cursor'[last] = {}
  <2>1. ~more => page = {}
    BY <1>8, Zenon
  <2> QED
    BY <1>5, <1>6, <2>1
<1>12. ~row(w).failed => scanned'[last] \subseteq MarkedItems \cup rest
  <2>1. CASE row(w).scanStarted
    <3>1. scanned' = scanned
      BY <2>1 DEF FetchPage
    <3> QED
      BY <1>0, <1>2, <2>1, <3>1 DEF WholeRow, Cover
  <2>2. CASE ~row(w).scanStarted
    <3>1. scanned' = [scanned EXCEPT ![last] = catalogue]
      BY <1>1, <2>2 DEF FetchPage
    <3> QED
      BY <1>0, <1>1, <2>2, <3>1 DEF TypeOK
  <2> QED
    BY <2>1, <2>2
<1>13. PICK r : r = wk'[w].row
  OBVIOUS
<1>14. WholeRow(r)'
  <2>1. ~r.failed => scanned'[last] \subseteq MarkedItems' \cup r.buffer \cup cursor'[last]
    BY <1>4, <1>6, <1>7, <1>10, <1>12, <1>13
  <2> QED
    BY <1>7, <1>10, <1>11, <1>13, <2>1 DEF WholeRow, Cover
<1> QED
  BY <1>10, <1>13, <1>14 DEF WholeAt

\* The details of a batch, and the saves and marks of its parents.
LEMMA ReadWhole ==
    ASSUME WholeInv, LatestOnly, NEW w \in Workers, ReadBatch(w)
    PROVE  WholeAt(pc[w], wk[w])'
<1>0. TypeOK /\ pc[w] = "scan" /\ wk[w] \in Local
  BY DEF ReadBatch, WholeInv, JobsInv, TypeOK
<1>2. WholeRow(row(w)) /\ wk[w].open = {}
  BY <1>0 DEF WholeInv, WholeAt, row
<1>3. PICK batch \in Portions(row(w).buffer, BatchSize) \ {{}}, bad \in SUBSET Items :
         Goto(w, "save", [wk[w] EXCEPT !.batch = batch, !.bad = bad,
                                       !.todo = ParentsOf(batch \ bad), !.at = clock])
  BY DEF ReadBatch
<1>4. batch # {} /\ batch \subseteq row(w).buffer
  BY DEF Portions
<1>6. Steady
  BY DEF ReadBatch, rowVars, snapVars, sellerVars, Steady, Marked
<1>8. /\ pc'[w] = "save" /\ wk'[w].open = {} /\ wk'[w].row = row(w)
      /\ wk'[w].batch = batch /\ wk'[w].bad = bad /\ wk'[w].todo = ParentsOf(batch \ bad)
  BY <1>0, <1>2, <1>3 DEF Goto, TypeOK, Local, row
<1>9. PICK r : r = row(w)
  OBVIOUS
<1>10. WholeRow(r)'
  BY <1>2, <1>6, <1>9, SteadyRow
<1>11. WholeSave(wk[w])'
  BY <1>4, <1>8 DEF WholeSave
<1> QED
  BY <1>8, <1>9, <1>10, <1>11 DEF WholeAt

\* A parent is in todo, in open or marked, whichever of the two steps is next.
LEMMA SavingWhole ==
    ASSUME WholeInv, LatestOnly, NEW w \in Workers, SaveParent(w) \/ MarkSeen(w)
    PROVE  WholeAt(pc[w], wk[w])' /\ stored \subseteq stored'
<1>0. TypeOK /\ pc[w] = "save" /\ pc[w] \in Inside /\ wk[w] \in Local
  BY DEF SaveParent, MarkSeen, WholeInv, JobsInv, Inside, TypeOK
<1>1. wk[w].job = last /\ last \in Jobs
  BY <1>0, WholeHolder
<1>2. WholeRow(row(w)) /\ WholeSave(wk[w])
  BY <1>0 DEF WholeInv, WholeAt, row
<1>3. UNCHANGED <<scanned, last, cursor, pc>>
  BY DEF SaveParent, MarkSeen, rowVars, sellerVars
<1>4. stored \subseteq stored' /\ Marked \subseteq Marked'
  <2>1. CASE SaveParent(w)
    BY <1>3, <2>1 DEF SaveParent, Upserted, Marked
  <2>2. CASE MarkSeen(w)
    <3>1. PICK p \in wk[w].open : seen' = [seen EXCEPT ![p] = last] \/ seen' = seen
      BY <1>1, <2>2 DEF MarkSeen
    <3>2. stored' = stored /\ \A q \in stored : seen'[q] \in {seen[q], last}
      BY <1>0, <2>2, <3>1 DEF MarkSeen, TypeOK
    <3> QED
      BY <1>3, <3>2 DEF Marked
  <2> QED
    BY <2>1, <2>2
<1>5. /\ wk'[w].row = row(w) /\ wk'[w].batch = wk[w].batch /\ wk'[w].bad = wk[w].bad
      /\ wk'[w].open \subseteq stored'
      /\ wk[w].todo \cup wk[w].open \subseteq wk'[w].todo \cup wk'[w].open \cup Marked'
  <2>1. CASE SaveParent(w)
    <3>1. PICK p \in wk[w].todo :
             /\ wk' = [wk EXCEPT ![w].todo = @ \ {p}, ![w].open = @ \cup {p}]
             /\ stored' = stored \cup {p}
      BY <2>1 DEF SaveParent, Upserted
    <3>2. /\ wk'[w].todo = wk[w].todo \ {p} /\ wk'[w].open = wk[w].open \cup {p}
          /\ wk'[w].row = wk[w].row /\ wk'[w].batch = wk[w].batch /\ wk'[w].bad = wk[w].bad
      BY <1>0, <3>1 DEF TypeOK, Local
    <3> QED
      BY <1>2, <3>1, <3>2 DEF WholeSave, row
  <2>2. CASE MarkSeen(w)
    <3>1. PICK p \in wk[w].open :
             /\ wk' = [wk EXCEPT ![w].open = @ \ {p}]
             /\ p \in stored => seen' = [seen EXCEPT ![p] = wk[w].job]
      BY <2>2 DEF MarkSeen
    <3>2. stored' = stored /\ p \in stored /\ p \in Parents
      BY <1>0, <1>2, <2>2, <3>1 DEF MarkSeen, WholeSave, TypeOK
    <3>3. p \in Marked'
      BY <1>0, <1>1, <1>3, <3>1, <3>2 DEF Marked, TypeOK
    <3>4. /\ wk'[w].todo = wk[w].todo /\ wk'[w].open = wk[w].open \ {p}
          /\ wk'[w].row = wk[w].row /\ wk'[w].batch = wk[w].batch /\ wk'[w].bad = wk[w].bad
      BY <1>0, <3>1 DEF TypeOK, Local
    <3> QED
      BY <1>2, <3>2, <3>3, <3>4 DEF WholeSave, row
  <2> QED
    BY <2>1, <2>2
<1>6. WholeSave(wk[w])'
  BY <1>2, <1>4, <1>5 DEF WholeSave, row
<1>7. PICK r : r = row(w)
  OBVIOUS
<1>8. WholeRow(r)'
  BY <1>2, <1>3, <1>4, <1>7, SteadyRow DEF Steady
<1> QED
  BY <1>0, <1>3, <1>4, <1>5, <1>6, <1>7, <1>8 DEF WholeAt

\* The checkpoint of a batch, as the row that is to be claimed next.
LEMMA CheckpointWhole ==
    ASSUME WholeInv, LatestOnly, NEW w \in Workers, Checkpoint(w), Running(w)
    PROVE  /\ WholeRow(job[last])' /\ last' = last
           /\ job'[last].status \in {"FAILED", "PENDING"}
<1>0. TypeOK /\ pc[w] = "save" /\ pc[w] \in Inside /\ wk[w].todo = {} /\ wk[w].open = {}
  BY DEF Checkpoint, Saved, WholeInv, JobsInv, Inside
<1>1. wk[w].job = last /\ last \in Jobs
  BY <1>0, WholeHolder
<1>2. WholeRow(row(w)) /\ WholeSave(wk[w])
  BY <1>0 DEF WholeInv, WholeAt, row
<1>3. job[last] \in Row /\ row(w) \in Row /\ wk[w].batch \in SUBSET Items /\ job \in [Jobs -> Row]
  BY <1>0, <1>1 DEF TypeOK, Local, row
<1>4. row(w).scanStarted
  BY <1>2 DEF WholeRow, WholeSave, row
<1>5. PICK s \in {"FAILED", "PENDING"} : job' = [job EXCEPT ![last] = [Progress(w) EXCEPT !.status = s]]
  BY <1>1 DEF Checkpoint, NotRunning
<1>6. /\ job'[last].scanStarted /\ job'[last].scroll = row(w).scroll
      /\ job'[last].buffer = row(w).buffer \ wk[w].batch
      /\ job'[last].failed = (row(w).failed \/ wk[w].bad # {})
      /\ job'[last].status = s
  <2>1. job'[last] = [Progress(w) EXCEPT !.status = s]
    BY <1>1, <1>3, <1>5
  <2> QED
    BY <1>1, <1>3, <2>1 DEF Progress, Row
<1>7. UNCHANGED <<cursor, stored, seen, last, scanned>>
  BY DEF Checkpoint, sellerVars, snapVars, NotRunning, rowVars
<1>8. wk[w].bad = {} => wk[w].batch \subseteq MarkedItems
  <2>1. SUFFICES ASSUME wk[w].bad = {}, NEW i \in wk[w].batch PROVE i \in MarkedItems
    OBVIOUS
  <2>2. ParentOf[i] \in ParentsOf(wk[w].batch \ wk[w].bad)
    BY <2>1 DEF ParentsOf
  <2>3. ParentOf[i] \in Marked
    BY <1>0, <1>2, <2>2 DEF WholeSave
  <2> QED
    BY <1>3, <2>3 DEF MarkedItems
<1>9. PICK r : r = job'[last]
  OBVIOUS
<1>10. ~r.failed => scanned[last] \subseteq MarkedItems \cup r.buffer \cup cursor[last]
  BY <1>2, <1>4, <1>6, <1>8, <1>9 DEF WholeRow, Cover
<1>11. r.scanStarted /\ (~r.scroll => cursor[last] = {})
  BY <1>2, <1>4, <1>6, <1>9 DEF WholeRow
<1>12. WholeRow(r)'
  BY <1>7, <1>10, <1>11 DEF WholeRow, Cover, MarkedItems, Marked
<1> QED
  BY <1>6, <1>7, <1>9, <1>12

\* The invocation that holds the job.
LEMMA InsideWhole ==
    ASSUME FaultKinds \cap Retrying = {}, WholeInv, LatestOnly, NEW w \in Workers,
           pc[w] \in Inside, Work(w) \/ StepFails(w) \/ Crash(w)
    PROVE  WholeLast' /\ \A v \in Workers : WholeAt(pc[v], wk[v])'
<1>0. /\ TypeOK /\ wk[w] \in Local /\ wk[w].job = last /\ last \in Jobs /\ last > 0
      /\ job[last].status \notin {"NEW", "PENDING", "COMPLETED"}
      /\ job \in [Jobs -> Row]
      /\ \A v \in Workers \ {w} : pc[v] \notin Inside
  BY WholeHolder DEF WholeInv, JobsInv, TypeOK
<1>1. ~Fault("error") /\ ~Fault("lost")
  BY DEF Retrying, Fault
<1>2. ASSUME Idle(w) PROVE WholeAt(pc[w], wk[w])' /\ pc'[w] \notin Inside
  <2>1. pc'[w] = "idle"
    BY <1>0, <1>2 DEF Idle, Goto, TypeOK
  <2> QED
    BY <2>1 DEF WholeAt, Inside
<1>3. ASSUME NEW e \in {"fatal", "conflict"}, Throw(w, e) PROVE WholeAt(pc[w], wk[w])'
  <2>1. pc'[w] = "handle" /\ wk'[w].error = e
    BY <1>0, <1>3 DEF Throw, Goto, TypeOK, Local
  <2> QED
    BY <2>1 DEF WholeAt
<1>4. ASSUME WholeAt(pc[w], wk[w])', UNCHANGED rowVars
      PROVE  WholeLast' /\ \A v \in Workers : WholeAt(pc[v], wk[v])'
  BY <1>0, <1>4, HolderStays DEF rowVars
<1>5. ASSUME NEW s \in {"FAILED", "COMPLETED"}, SetStatus(last, s) PROVE last' = last /\ job'[last].status = s
  BY <1>0, <1>5 DEF SetStatus, Row
<1>6. ASSUME NotRunning(w) PROVE WholeAt(pc[w], wk[w])' /\ UNCHANGED rowVars
  BY <1>3, <1>6 DEF NotRunning
<1>7. CASE FetchPage(w)
  BY <1>4, <1>7, FetchWhole DEF FetchPage
<1>8. CASE ReadBatch(w)
  BY <1>4, <1>8, ReadWhole DEF ReadBatch
<1>9. CASE SaveParent(w) \/ MarkSeen(w)
  BY <1>4, <1>9, SavingWhole DEF SaveParent, MarkSeen
<1>10. CASE ScanEnded(w)
  <2>1. pc'[w] = "finish" /\ wk'[w] = wk[w]
    BY <1>0, <1>10 DEF ScanEnded, Goto, TypeOK
  <2>2. Steady
    BY <1>10 DEF ScanEnded, rowVars, snapVars, Steady, Marked
  <2>3. WholeRow(row(w)) /\ row(w).scanStarted /\ ~row(w).scroll /\ row(w).buffer = {}
    BY <1>10 DEF ScanEnded, WholeInv, WholeAt, row
  <2>4. PICK r : r = row(w)
    OBVIOUS
  <2>5. WholeRow(r)'
    BY <2>2, <2>3, <2>4, SteadyRow
  <2>6. WholeAt(pc[w], wk[w])'
    BY <2>1, <2>3, <2>4, <2>5 DEF WholeAt, row
  <2> QED
    BY <1>4, <1>10, <2>6 DEF ScanEnded
<1>11. CASE StepFails(w)
  <2>1. Throw(w, "fatal")
    BY <1>1, <1>11 DEF StepFails
  <2> QED
    BY <1>3, <1>4, <1>11, <2>1 DEF StepFails
<1>12. CASE Checkpoint(w)
  <2>1. CASE NotRunning(w)
    BY <1>4, <1>6, <2>1
  <2>2. CASE ~NotRunning(w)
    <3>1. Running(w) /\ (Idle(w) \/ Goto(w, "send", wk[w]))
      BY <1>1, <1>12, <2>2 DEF Checkpoint
    <3>2. WholeAt(pc[w], wk[w])' /\ pc'[w] \notin Inside
      <4>1. ASSUME Goto(w, "send", wk[w]) PROVE pc'[w] = "send"
        BY <1>0, <4>1 DEF Goto, TypeOK
      <4>2. ASSUME pc'[w] = "send" PROVE WholeAt(pc[w], wk[w])' /\ pc'[w] \notin Inside
        BY <4>2 DEF WholeAt, Inside
      <4> QED
        BY <1>2, <3>1, <4>1, <4>2
    <3>3. WholeRow(job[last])' /\ last' = last /\ job'[last].status \in {"FAILED", "PENDING"}
      BY <1>12, <3>1, CheckpointWhole
    <3>4. WholeLast'
      BY <3>3 DEF WholeLast
    <3> QED
      BY <1>12, <3>2, <3>4, OthersWhole DEF Work
  <2> QED
    BY <2>1, <2>2
<1>13. CASE RefuseCompletion(w)
  <2>1. CASE NotRunning(w)
    BY <1>4, <1>6, <2>1
  <2>2. CASE ~NotRunning(w)
    <3>1. SetStatus(last, "FAILED") /\ Idle(w)
      BY <1>0, <1>1, <1>13, <2>2 DEF RefuseCompletion, Acknowledge
    <3> QED
      BY <1>2, <1>5, <1>13, <3>1, HolderStays DEF Work
  <2> QED
    BY <2>1, <2>2
<1>14. CASE CleanUp(w)
  <2>1. Goto(w, "complete", wk[w])
    BY <1>1, <1>14 DEF CleanUp
  <2>2. pc'[w] = "complete" /\ wk'[w] = wk[w]
    BY <1>0, <2>1 DEF Goto, TypeOK
  <2>3. Marked \subseteq Marked' /\ UNCHANGED <<cursor, scanned, last>>
    <3>1. UNCHANGED <<cursor, scanned, last>> /\ stored' = stored \ NotSeen(w)
          /\ \A q \in Parents : q \notin NotSeen(w) => seen'[q] = seen[q]
      BY <1>14 DEF CleanUp, rowVars
    <3>2. Marked \cap NotSeen(w) = {} /\ Marked \subseteq Parents /\ Marked \subseteq stored
      BY <1>0, <1>14, WholeCleanUp DEF Marked, TypeOK
    <3>3. \A p \in Marked : p \in stored' /\ seen'[p] = last'
      BY <3>1, <3>2 DEF Marked
    <3> QED
      BY <3>1, <3>3 DEF Marked
  <2>4. /\ WholeRow(row(w)) /\ row(w).scanStarted /\ ~row(w).scroll /\ row(w).buffer = {}
        /\ ~row(w).failed
    BY <1>14, WholeCleanUp DEF CleanUp, WholeInv, WholeAt, row
  <2>5. PICK r : r = row(w)
    OBVIOUS
  <2>6. WholeRow(r)'
    BY <2>3, <2>4, <2>5 DEF WholeRow, Cover, MarkedItems
  <2>7. WholeAt(pc[w], wk[w])'
    BY <2>2, <2>4, <2>5, <2>6 DEF WholeAt, row
  <2> QED
    BY <1>4, <1>14, <2>7 DEF CleanUp
<1>15. CASE Complete(w)
  <2>1. Idle(w)
    BY <1>15 DEF Complete, Acknowledge, GiveBack
  <2>2. CASE UNCHANGED rowVars
    BY <1>2, <1>4, <2>1, <2>2
  <2>3. CASE SetStatus(last, "COMPLETED")
    <3>1. WholeRow(row(w)) /\ row(w).scanStarted /\ ~row(w).scroll /\ row(w).buffer = {} /\ ~row(w).failed
      BY <1>15 DEF Complete, WholeInv, WholeAt, row
    <3>2. scanned[last] \subseteq MarkedItems
      BY <3>1 DEF WholeRow, Cover
    <3>3. ParentsOf(scanned[last]) \subseteq stored
      BY <3>2 DEF ParentsOf, MarkedItems, Marked
    <3>4. UNCHANGED <<scanned, stored>>
      BY <1>15 DEF Complete, snapVars
    <3>5. \A v \in Workers : pc'[v] \notin Inside /\ WholeAt(pc[v], wk[v])'
      BY <1>2, <1>15, <2>1, OthersWhole DEF Work
    <3>6. ParentsOf(scanned'[last']) \subseteq stored' /\ job'[last'].status = "COMPLETED"
      BY <1>5, <2>3, <3>3, <3>4
    <3>7. WholeLast'
      BY <3>5, <3>6 DEF WholeLast
    <3> QED
      BY <3>5, <3>7
  <2> QED
    BY <1>0, <1>15, <2>2, <2>3 DEF Complete
<1>16. CASE HandleError(w)
  <2>1. Idle(w)
    BY <1>16 DEF HandleError, Acknowledge, GiveBack
  <2>2. CASE UNCHANGED rowVars
    BY <1>2, <1>4, <2>1, <2>2
  <2>3. CASE job' = [job EXCEPT ![last] = AfterError(w)] /\ last' = last
    <3>1. wk[w].error # "retryable"
      BY <1>16 DEF HandleError, WholeInv, WholeAt
    <3>2. AfterError(w) = [job[last] EXCEPT !.status = "FAILED"]
      BY <1>0, <3>1 DEF AfterError
    <3>3. job'[last].status = "FAILED"
      BY <1>0, <2>3, <3>2 DEF Row
    <3> QED
      BY <1>2, <1>16, <2>1, <2>3, <3>3, HolderStays DEF Work
  <2> QED
    BY <1>0, <1>16, <2>2, <2>3 DEF HandleError
<1>17. CASE Crash(w)
  BY <1>2, <1>4, <1>17 DEF Crash, GiveBack
<1>18. CASE Claim(w) \/ SendNext(w)
  BY <1>18 DEF Claim, SendNext, Inside
<1> QED
  BY <1>7, <1>8, <1>9, <1>10, <1>11, <1>12, <1>13, <1>14, <1>15, <1>16, <1>17, <1>18 DEF Work

\* A new job: nobody is at work, and its row is empty.
LEMMA NewJobWhole ==
    ASSUME WholeInv, LatestOnly, LatestOnly', [Next]_vars, last' # last
    PROVE  Alone' /\ WholeLast' /\ \A v \in Workers : WholeAt(pc[v], wk[v])'
<1>0. TypeOK /\ last \in Nat
  BY DEF WholeInv, JobsInv, TypeOK
<1>1. PICK c \in Clients : CreateJob(c)
  BY NewJobQuiet
<1>2. /\ last' = last + 1 /\ last' \in Jobs
      /\ job' = [job EXCEPT ![last'] = [NewRow(count[c]) EXCEPT !.status = "PENDING"]]
      /\ UNCHANGED <<pc, wk>>
  <2>1. last < MaxJobs /\ last' = last + 1
        /\ job' = [job EXCEPT ![last'] = [NewRow(count[c]) EXCEPT !.status = "PENDING"]]
    BY <1>1 DEF CreateJob, rowVars
  <2> QED
    BY <1>0, <1>1, <2>1, BoundsAssumption DEF CreateJob, workVars, Jobs
<1>3. \A v \in Workers : pc[v] \notin Inside
  <2>1. SUFFICES ASSUME NEW v \in Workers, pc[v] \in Inside PROVE FALSE
    OBVIOUS
  <2>2. wk[v].job = last /\ wk[v].job = last'
    BY <1>2, <2>1 DEF LatestOnly, Stale
  <2> QED
    BY <1>0, <1>2, <2>2
<1>4. job'[last'] = [NewRow(count[c]) EXCEPT !.status = "PENDING"]
  BY <1>0, <1>2 DEF TypeOK
<1>5. WholeLast'
  <2>1. PICK r : r = job'[last']
    OBVIOUS
  <2>2. r.status = "PENDING" /\ r.buffer = {} /\ ~r.scanStarted
    BY <1>4, <2>1 DEF NewRow
  <2>3. WholeRow(r)'
    BY <2>2 DEF WholeRow, Cover
  <2> QED
    BY <2>1, <2>2, <2>3 DEF WholeLast
<1>6. \A v \in Workers : WholeAt(pc[v], wk[v])'
  <2>1. SUFFICES ASSUME NEW v \in Workers PROVE WholeAt(pc[v], wk[v])'
    OBVIOUS
  <2>2. PICK stage : stage = pc[v]
    OBVIOUS
  <2>3. PICK l : l = wk[v]
    OBVIOUS
  <2>4. WholeAt(stage, l)'
    BY <1>3, <2>2, <2>3, OutsideAt DEF WholeInv, WholeAt
  <2> QED
    BY <1>2, <2>2, <2>3, <2>4
<1> QED
  BY <1>2, <1>3, <1>5, <1>6 DEF Alone

\* WholeInv is inductive while LatestOnly holds and nothing is retried.
LEMMA WholeStep ==
    ASSUME FaultKinds \cap Retrying = {}, WholeInv, LatestOnly, LatestOnly', [Next]_vars
    PROVE  WholeInv'
<1>1. HolderInv' /\ JobsInv'
  <2>1. "lost" \notin FaultKinds
    BY DEF Retrying
  <2> QED
    BY <2>1, HolderStep, JobsStep DEF WholeInv
<1>2. CASE last' # last
  BY <1>1, <1>2, NewJobWhole DEF WholeInv
<1>3. CASE last' = last
  <2>1. Alone'
    BY <1>3, AloneWhole
  <2>2. WholeLast' /\ \A v \in Workers : WholeAt(pc[v], wk[v])'
    <3>1. CASE \/ UNCHANGED vars \/ NoticeSaved \/ StartActive
               \/ \E i \in Items : Publish(i) \/ Withdraw(i) \/ NoticeRead(i)
               \/ \E c \in Clients : CountItems(c) \/ CreateJob(c)
               \/ \E j \in Jobs : Cancel(j)
      BY <1>3, <3>1, UserWhole
    <3>2. ASSUME NEW w \in Workers, Deliver(w) \/ Work(w) \/ StepFails(w) \/ Crash(w)
          PROVE  WholeLast' /\ \A v \in Workers : WholeAt(pc[v], wk[v])'
      <4>1. CASE pc[w] \notin Inside
        BY <3>2, <4>1, OutsideWhole
      <4>2. CASE pc[w] \in Inside
        <5>1. ~Deliver(w)
          BY <4>2 DEF Deliver, Inside
        <5> QED
          BY <3>2, <4>2, <5>1, InsideWhole
      <4> QED
        BY <4>1, <4>2
    <3> QED
      BY <3>1, <3>2 DEF Next
  <2> QED
    BY <1>1, <2>1, <2>2 DEF WholeInv
<1> QED
  BY <1>2, <1>3

\* At the start there is no job and no invocation is at work.
LEMMA WholeInit == Init => WholeInv
<1> SUFFICES ASSUME Init PROVE WholeInv
  OBVIOUS
<1>1. JobsInv /\ HolderInv /\ last = 0 /\ \A w \in Workers : pc[w] = "idle"
  BY JobsInit, InitHolds DEF Init, DrivenInv
<1>2. Alone /\ WholeLast
  BY <1>1 DEF Alone, WholeLast, Inside
<1>3. \A w \in Workers : WholeAt(pc[w], wk[w])
  BY <1>1 DEF WholeAt
<1> QED
  BY <1>1, <1>2, <1>3 DEF WholeInv

\* SnapshotIsWhole: while the seller adds and withdraws publications, as long as no
\* invocation is left on a job that another has replaced and no answer of the update
\* of a row is lost, nothing a completed job has listed lacks a row.
THEOREM SnapshotIsWhole ==
    ASSUME FaultKinds \cap Retrying = {}
    PROVE  Spec /\ []LatestOnly => []CompletedIsWhole
<1>1. Init => WholeInv
  BY WholeInit
<1>2. WholeInv /\ LatestOnly /\ LatestOnly' /\ [Next]_vars => WholeInv'
  BY WholeStep
<1>3. WholeInv => CompletedIsWhole
  BY DEF WholeInv, WholeLast, CompletedIsWhole
<1> QED
  BY <1>1, <1>2, <1>3, PTL DEF Spec

\* CleanUpIsSafe: and its clean-up deletes nothing that has been listed ever since
\* its scan began.
THEOREM CleanUpIsSafe ==
    ASSUME FaultKinds \cap Retrying = {}
    PROVE  Spec /\ []LatestOnly => KeepsListed
<1> DEFINE Kept == \A w \in Workers : pc[w] = "finish" /\ pc'[w] # "finish" =>
                     (stored \ stored') \cap ParentsOf(scanned[wk[w].job]) = {}
<1>1. Init => WholeInv
  BY WholeInit
<1>2. WholeInv /\ LatestOnly /\ LatestOnly' /\ [Next]_vars => WholeInv'
  BY WholeStep
<1>3. WholeInv /\ LatestOnly /\ [Next]_vars => [Kept]_vars
  <2> SUFFICES ASSUME WholeInv, LatestOnly, [Next]_vars,
                      NEW w \in Workers, pc[w] = "finish", pc'[w] # "finish"
               PROVE  (stored \ stored') \cap ParentsOf(scanned[wk[w].job]) = {}
    OBVIOUS
  <2>1. pc[w] \in Inside /\ wk[w].job = last
    BY WholeHolder DEF Inside
  <2>2. ASSUME NEW v \in Workers, CleanUp(v)
        PROVE  (stored \ stored') \cap ParentsOf(scanned[wk[w].job]) = {}
    <3>1. stored' = stored \ NotSeen(v)
      BY <2>2 DEF CleanUp
    <3> QED
      BY <2>1, <2>2, <3>1, WholeCleanUp
  <2>3. CASE \A v \in Workers : ~CleanUp(v)
    <3>1. CASE \/ UNCHANGED vars \/ NoticeSaved \/ StartActive
               \/ \E i \in Items : Publish(i) \/ Withdraw(i) \/ NoticeRead(i)
               \/ \E c \in Clients : CountItems(c) \/ CreateJob(c)
               \/ \E j \in Jobs : Cancel(j)
      BY <3>1 DEF vars, snapVars, NoticeSaved, Upserted, StartActive, Publish, Withdraw, NoticeRead,
                  CountItems, CreateJob, Cancel
    <3>2. ASSUME NEW v \in Workers, Deliver(v) \/ Work(v) \/ StepFails(v) \/ Crash(v)
          PROVE  stored \subseteq stored'
      BY <2>3, <3>2 DEF Deliver, Work, StepFails, Crash, Claim, FetchPage, ScanEnded, ReadBatch,
         SaveParent, Upserted, MarkSeen, Checkpoint, SendNext, RefuseCompletion, Complete, HandleError,
         snapVars
    <3> QED
      BY <3>1, <3>2 DEF Next
  <2> QED
    BY <2>2, <2>3
<1>4. QED
  BY <1>1, <1>2, <1>3, PTL DEF Spec, KeepsListed

=============================================================================

--------------------- MODULE TiendanubeMigrationProofs ---------------------
(***************************************************************************)
(* Proofs about TiendanubeMigration, for every catalogue, every number of  *)
(* workers and every bound.                                                *)
(***************************************************************************)
EXTENDS TiendanubeMigration, FiniteSetTheorems, TLAPS

-----------------------------------------------------------------------------
(* Type correctness *)

\* A subset of the catalogue has a natural number of elements.
LEMMA CountType == \A S \in SUBSET Keys : Cardinality(S) \in Nat
BY KeysAssumption, FS_Subset, FS_CardinalityType

\* Attempts are counted up to a natural bound.
LEMMA BudgetType == LargestBudget \in Nat
BY NumbersAssumption DEF LargestBudget

\* The empty tally is a tally.
LEMMA NoTallyType == NoTally \in Tallies
BY DEF NoTally, Tallies

\* The empty local state is a local state.
LEMMA BlankType == Blank \in Local
BY BudgetType, NumbersAssumption, NoTallyType
   DEF Blank, Local, Messages, Tokens, AllModes, Verdict

\* The ends of an invocation preserve the types of what they write.
LEMMA ReturnType ==
    ASSUME TypeOK, NEW w \in Workers, NEW b \in BOOLEAN, Return(w, b)
    PROVE  /\ link' \in [Keys -> LinkStatus]
           /\ holder' \in [Keys -> Workers \cup {NoWorker}]
           /\ queue' \subseteq Messages
           /\ pc' \in [Workers -> Stage]
           /\ wk' \in [Workers -> Local]
<1>1. wk[w].msg \in Messages
  BY DEF TypeOK, Local
<1>2. pc' \in [Workers -> Stage]
  BY DEF TypeOK, Return, Leave, Stage
<1> QED
  BY <1>1, <1>2, BlankType DEF TypeOK, Return, Leave, Forget

\* A move from stage to stage preserves the types of what it writes.
LEMMA GotoType ==
    ASSUME TypeOK, NEW w \in Workers, NEW stage \in Stage, Goto(w, stage)
    PROVE  queue' \subseteq Messages /\ pc' \in [Workers -> Stage] /\ wk' \in [Workers -> Local]
BY DEF TypeOK, Goto

\* A move that writes the local state keeps the types when the new one has its.
LEMMA GotoWithType ==
    ASSUME TypeOK, NEW w \in Workers, NEW stage \in Stage, NEW local \in Local,
           GotoWith(w, stage, local)
    PROVE  queue' \subseteq Messages /\ pc' \in [Workers -> Stage] /\ wk' \in [Workers -> Local]
BY DEF TypeOK, GotoWith

\* A verdict, the sent flag or an empty tally is written into a local state.
LEMMA VerdictType ==
    ASSUME NEW local \in Local, NEW verdict \in Verdict
    PROVE  /\ [local EXCEPT !.verdict = verdict] \in Local
           /\ [local EXCEPT !.sent = TRUE] \in Local
           /\ [local EXCEPT !.verdict = verdict, !.sent = TRUE] \in Local
           /\ [local EXCEPT !.tally = NoTally] \in Local
           /\ [local EXCEPT !.verdict = verdict, !.tally = NoTally] \in Local
BY NoTallyType DEF Local

\* Every fault counts towards its bound.
LEMMA FaultType ==
    ASSUME TypeOK, NEW kind, Fault(kind) \/ NoFault
    PROVE  faults' \in 0 .. MaxFaults
BY NumbersAssumption DEF TypeOK, Fault, NoFault

\* The initial states have the right types.
LEMMA TypeInit == Init => TypeOK
<1> SUFFICES ASSUME Init PROVE TypeOK
  OBVIOUS
<1>1. PICK s \in [Keys -> Situations] :
         /\ link = [k \in Keys |->
               CASE s[k] = "linked" -> "COMPLETED"
                 [] s[k] \in {"pending", "unconfirmed"} -> "PENDING"
                 [] s[k] \in {"failed", "released"} -> "FAILED"
                 [] OTHER -> "NONE"]
         /\ shop = [k \in Keys |->
               CASE s[k] \in {"linked", "released"} -> "indexed"
                 [] s[k] = "unconfirmed" -> "created"
                 [] s[k] = "foreign" -> "foreign"
                 [] OTHER -> "absent"]
  BY DEF Init
<1>2. link \in [Keys -> LinkStatus] /\ shop \in [Keys -> ShopStatus]
  BY <1>1 DEF LinkStatus, ShopStatus
<1> QED
  BY <1>2, BlankType, BudgetType, NumbersAssumption
     DEF Init, TypeOK, JobStatus, Completed, ItemStatus, Terminal, Tokens, Stage

\* The number of POSTs, counted up to two.
LEMMA PostsType ==
    ASSUME TypeOK, NEW k
    PROVE  [posts EXCEPT ![k] = IF @ = 0 THEN 1 ELSE 2] \in [Keys -> 0 .. 2]
<1>1. posts \in [Keys -> 0 .. 2]
  BY DEF TypeOK
<1>2. (IF posts[k] = 0 THEN 1 ELSE 2) \in 0 .. 2
  OBVIOUS
<1> QED
  BY <1>1, <1>2

\* The counts that a finish makes are natural numbers.
LEMMA TallyType ==
    ASSUME TypeOK, NEW w \in Workers
    PROVE  [wk[w] EXCEPT !.tally = Tally(w)] \in Local
<1>1. /\ Judged(w, "APPROVED") \cap Keys \in SUBSET Keys
      /\ Judged(w, "REJECTED") \cap Keys \in SUBSET Keys
      /\ Items \in SUBSET Keys
  BY DEF Items
<1>2. \A s : IsFiniteSet(Judged(w, s))
  <2> TAKE s
  <2>1. IsFiniteSet(InState(s)) /\ IsFiniteSet({wk[w].key})
    BY KeysAssumption, FS_Subset, FS_Singleton DEF InState
  <2>2. IsFiniteSet({k \in {wk[w].key} : Result(w) = s})
    BY <2>1, FS_Subset
  <2> QED
    BY <2>1, <2>2, FS_Union DEF Judged
<1>3. Tally(w) \in Tallies
  BY <1>1, <1>2, CountType, FS_CardinalityType DEF Tally, Tallies
<1> QED
  BY <1>3 DEF TypeOK, Local

\* A verdict leaves the item, the progress and the job with the right types.
LEMMA FinishItemType ==
    ASSUME TypeOK, NEW w \in Workers, FinishItem(wk[w].key, Result(w), wk[w].tally)
    PROVE  /\ item' \in [Keys -> ItemStatus]
           /\ approved' \in Nat /\ rejected' \in Nat
           /\ status' \in JobStatus /\ lock' \in {"none", "live", "past"}
<1>1. wk[w].tally \in Tallies /\ Result(w) \in Terminal
  BY DEF TypeOK, Local, Result, Terminal
<1>2. approved' \in Nat /\ rejected' \in Nat
  BY <1>1 DEF FinishItem, Tallies
<1>3. status' \in JobStatus
  BY DEF FinishItem, JobStatus, Completed
<1> QED
  BY <1>1, <1>2, <1>3 DEF FinishItem, TypeOK, ItemStatus

\* What follows a finish, and its beginning, preserve the types of what they write.
LEMMA FinishType ==
    ASSUME TypeOK, NEW w \in Workers,
           Begin(w) \/ FinishFails(w) \/ AfterTerminal(w)
    PROVE  /\ link' \in [Keys -> LinkStatus]
           /\ holder' \in [Keys -> Workers \cup {NoWorker}]
           /\ queue' \subseteq Messages
           /\ pc' \in [Workers -> Stage]
           /\ wk' \in [Workers -> Local]
<1>1. wk[w] \in Local /\ wk[w].more \in BOOLEAN /\ wk[w].verdict \in Verdict
        /\ "temporary" \in Verdict
  BY DEF TypeOK, Local, Verdict, AllErrors
<1>2. CASE Begin(w)
  BY <1>2, TallyType, GotoWithType DEF Begin, linkVars, TypeOK, Stage
<1>3. CASE FinishFails(w)
  <2>1. \/ Return(w, TRUE)
        \/ /\ UNCHANGED linkVars
           /\ \/ GotoWith(w, "defer", [wk[w] EXCEPT !.verdict = wk[w].verdict, !.tally = NoTally])
              \/ GotoWith(w, "handle", [wk[w] EXCEPT !.verdict = "temporary", !.tally = NoTally])
    BY <1>3 DEF FinishFails, Throw
  <2>2. /\ [wk[w] EXCEPT !.verdict = wk[w].verdict, !.tally = NoTally] \in Local
        /\ [wk[w] EXCEPT !.verdict = "temporary", !.tally = NoTally] \in Local
    BY <1>1, VerdictType
  <2>3. CASE Return(w, TRUE)
    BY <2>3, ReturnType
  <2>4. CASE UNCHANGED linkVars
    BY <2>1, <2>2, <2>4, ReturnType, GotoWithType DEF linkVars, TypeOK, Stage
  <2> QED
    BY <2>1, <2>3, <2>4
<1>4. CASE AfterTerminal(w)
  <2>1. [wk[w] EXCEPT !.tally = NoTally] \in Local
    BY <1>1, VerdictType
  <2>2. CASE Return(w, wk[w].more)
    BY <1>1, <2>2, ReturnType
  <2>3. CASE GotoWith(w, "pauseSingle", [wk[w] EXCEPT !.tally = NoTally]) /\ UNCHANGED linkVars
    BY <2>1, <2>3, GotoWithType DEF linkVars, TypeOK, Stage
  <2> QED
    BY <1>4, <2>2, <2>3 DEF AfterTerminal
<1> QED
  BY <1>2, <1>3, <1>4

\* Every step preserves the types.
LEMMA TypeStep == TypeOK /\ [Next]_vars => TypeOK'
<1> SUFFICES ASSUME TypeOK, [Next]_vars PROVE TypeOK'
  OBVIOUS
<1> USE NumbersAssumption DEF jobVars, itemVars, linkVars, shopVars
<1>1. CASE StartNewJob
  <2>1. [token |-> token, mode |-> "CONTINUE"] \in Messages
    BY DEF TypeOK, Messages, AllModes
  <2> QED
    BY <1>1, <2>1 DEF StartNewJob, TypeOK, JobStatus, Fault, NoFault
<1>2. CASE StartAgain
  <2>1. [token |-> token, mode |-> "CONTINUE"] \in Messages
    BY DEF TypeOK, Messages, AllModes
  <2> QED
    BY <1>2, <2>1 DEF StartAgain, TypeOK
<1>3. CASE Resume
  <2>1. token' \in Tokens /\ status' \in JobStatus /\ due' \in BOOLEAN
    BY <1>3 DEF Resume, TypeOK, Tokens, JobStatus
  <2>2. PICK mode \in ResumeModes :
           \/ queue' = queue \cup {[token |-> token', mode |-> mode]}
           \/ queue' = queue
    BY <1>3 DEF Resume
  <2>3. queue' \subseteq Messages
    BY <2>1, <2>2, SetsAssumption DEF TypeOK, Messages
  <2>4. item' \in [Keys -> ItemStatus]
    BY <1>3 DEF Resume, RecoverItems, Recovered, TypeOK, ItemStatus
  <2>5. cycle' \in [Keys -> 0 .. LargestBudget]
    BY <1>3, BudgetType DEF Resume, TypeOK
  <2>6. faults' \in 0 .. MaxFaults
    BY <1>3 DEF Resume, Fault, NoFault, TypeOK
  <2> QED
    BY <1>3, <2>1, <2>3, <2>4, <2>5, <2>6 DEF Resume, TypeOK
<1>4. CASE LeaseExpires
  BY <1>4 DEF LeaseExpires, TypeOK, workerVars
<1>5. CASE RunDue
  BY <1>5 DEF RunDue, TypeOK, workerVars
<1>6. ASSUME NEW k \in Keys, LatePost(k) PROVE TypeOK'
  BY <1>6 DEF LatePost, TypeOK, ShopStatus, workerVars
<1>7. ASSUME NEW k \in Keys, ShopIndexes(k) PROVE TypeOK'
  BY <1>7 DEF ShopIndexes, TypeOK, ShopStatus, workerVars
<1>8. ASSUME NEW w \in Workers, Observe(w) PROVE TypeOK'
  <2>1. PICK m \in queue :
          /\ queue' = queue \ {m}
          /\ \/ /\ pc' = [pc EXCEPT ![w] = "observed"]
                /\ wk' = [wk EXCEPT ![w] =
                     [Blank EXCEPT !.msg = m,
                                   !.halted = status \in {"PAUSED"} \cup Completed]]
             \/ pc' = pc /\ wk' = wk
    BY <1>8 DEF Observe
  <2>2. m \in Messages /\ (status \in {"PAUSED"} \cup Completed) \in BOOLEAN
    BY <2>1 DEF TypeOK
  <2>3. [Blank EXCEPT !.msg = m, !.halted = status \in {"PAUSED"} \cup Completed] \in Local
    BY <2>2, BlankType DEF Local
  <2>4. pc' \in [Workers -> Stage] /\ wk' \in [Workers -> Local] /\ queue' \subseteq Messages
    BY <2>1, <2>3 DEF TypeOK, Stage
  <2> QED
    BY <1>8, <2>4 DEF Observe, TypeOK
<1>9. ASSUME NEW w \in Workers, Crash(w) PROVE TypeOK'
  <2>1. faults' \in 0 .. MaxFaults /\ scroll' \in SUBSET Keys
    BY <1>9, FaultType DEF Crash, Stopped, TypeOK
  <2>2. /\ link' \in [Keys -> LinkStatus]
        /\ holder' \in [Keys -> Workers \cup {NoWorker}]
        /\ queue' \subseteq Messages
        /\ pc' \in [Workers -> Stage]
        /\ wk' \in [Workers -> Local]
    BY <1>9, ReturnType DEF Crash, Throw
  <2>3. inflight' \in [Keys -> BOOLEAN] /\ posts' \in [Keys -> 0 .. 2]
    <3>1. inflight' = inflight \/ inflight' = [inflight EXCEPT ![wk[w].key] = TRUE]
      BY <1>9 DEF Crash
    <3>2. \/ posts' = posts
          \/ posts' = [posts EXCEPT ![wk[w].key] = IF @ = 0 THEN 1 ELSE 2]
      BY <1>9 DEF Crash
    <3>3. posts' \in [Keys -> 0 .. 2]
      <4>1. [posts EXCEPT ![wk[w].key] = IF @ = 0 THEN 1 ELSE 2] \in [Keys -> 0 .. 2]
        BY PostsType
      <4> QED
        BY <3>2, <4>1 DEF TypeOK
    <3> QED
      BY <3>1, <3>3 DEF TypeOK
  <2> QED
    BY <1>9, <2>1, <2>2, <2>3 DEF Crash, TypeOK
<1>10. ASSUME NEW w \in Workers, Redeliver(w) PROVE TypeOK'
  <2>1. wk[w].msg \in Messages
    BY DEF TypeOK, Local
  <2> QED
    BY <1>10, <2>1, FaultType DEF Redeliver, TypeOK
<1>11. ASSUME NEW w \in Workers, Work(w) PROVE TypeOK'
  <2>0. /\ \A stage \in Stage : Goto(w, stage) =>
             queue' \subseteq Messages /\ pc' \in [Workers -> Stage] /\ wk' \in [Workers -> Local]
        /\ \A stage \in Stage, local \in Local : GotoWith(w, stage, local) =>
             queue' \subseteq Messages /\ pc' \in [Workers -> Stage] /\ wk' \in [Workers -> Local]
        /\ \A b \in BOOLEAN : Return(w, b) =>
             /\ link' \in [Keys -> LinkStatus]
             /\ holder' \in [Keys -> Workers \cup {NoWorker}]
             /\ queue' \subseteq Messages
             /\ pc' \in [Workers -> Stage]
             /\ wk' \in [Workers -> Local]
        /\ Throw(w) => Return(w, TRUE)
    BY GotoType, GotoWithType, ReturnType DEF Throw
  <2>1. CASE ClaimJob(w)
    <3>1. item' \in [Keys -> ItemStatus]
      BY <2>1 DEF ClaimJob, RecoverItems, Recovered, TypeOK, ItemStatus
    <3> QED
      BY <2>0, <2>1, <3>1 DEF ClaimJob, TypeOK, JobStatus, Stage, NoFault
  <2>2. CASE ClaimDenied(w)
    <3>1. (~wk[w].halted) \in BOOLEAN
      BY DEF TypeOK, Local
    <3> QED
      BY <2>0, <2>2, <3>1 DEF ClaimDenied, TypeOK
  <2>3. CASE Reread(w)
    <3>1. MaxProducts \in Nat
      <4>1. Cardinality(Keys) \in Nat
        BY CountType
      <4> QED
        BY <4>1 DEF MaxProducts, TypeOK
    <3>2. [wk[w] EXCEPT !.rest = scroll, !.max = MaxProducts] \in Local
      BY <3>1 DEF TypeOK, Local
    <3>3. [wk[w] EXCEPT !.more = approved + rejected + 1 < total] \in Local
      <4>1. (approved + rejected + 1 < total) \in BOOLEAN
        OBVIOUS
      <4> QED
        BY <4>1 DEF TypeOK, Local
    <3>4. /\ link' \in [Keys -> LinkStatus]
          /\ holder' \in [Keys -> Workers \cup {NoWorker}]
          /\ queue' \subseteq Messages
          /\ pc' \in [Workers -> Stage]
          /\ wk' \in [Workers -> Local]
      BY <2>0, <2>3, <3>2, <3>3 DEF Reread, TypeOK, Stage
    <3> QED
      BY <2>3, <3>4 DEF Reread, TypeOK
  <2>4. CASE PickItem(w)
    <3>1. PICK k \in Offered :
            LET attempts == IF cycle[k] < LargestBudget THEN cycle[k] + 1 ELSE cycle[k]
            IN  /\ item' = [item EXCEPT ![k] = "PROCESSING"]
                /\ cycle' = [cycle EXCEPT ![k] = attempts]
                /\ GotoWith(w, IF item[k] = "RECONCILING" THEN "reconcile" ELSE "prepare",
                            [wk[w] EXCEPT !.key = k, !.cyc = attempts])
      BY <2>4 DEF PickItem
    <3> DEFINE attempts == IF cycle[k] < LargestBudget THEN cycle[k] + 1 ELSE cycle[k]
    <3>2. k \in Keys
      BY DEF Offered, InState
    <3>3. attempts \in 0 .. LargestBudget
      BY <3>2, BudgetType DEF TypeOK
    <3>4. [wk[w] EXCEPT !.key = k, !.cyc = attempts] \in Local
      BY <3>2, <3>3 DEF TypeOK, Local
    <3>5. queue' \subseteq Messages /\ pc' \in [Workers -> Stage] /\ wk' \in [Workers -> Local]
      <4>1. (IF item[k] = "RECONCILING" THEN "reconcile" ELSE "prepare") \in Stage
        BY DEF Stage
      <4> QED
        BY <2>0, <3>1, <3>4, <4>1
    <3>6. item' \in [Keys -> ItemStatus] /\ cycle' \in [Keys -> 0 .. LargestBudget]
      BY <3>1, <3>2, <3>3 DEF TypeOK, ItemStatus
    <3> QED
      BY <2>4, <3>5, <3>6 DEF PickItem, TypeOK
  <2>5. CASE PickNothing(w)
    <3>1. status' \in JobStatus /\ approved' \in Nat /\ rejected' \in Nat
             /\ lock' \in {"none", "live", "past"}
      BY <2>5 DEF PickNothing, TypeOK, JobStatus, Completed
    <3> QED
      BY <2>0, <2>5, <3>1 DEF PickNothing, TypeOK
  <2>6. CASE DiscoverPage(w)
    <3>1. PICK left \in Ahead(wk[w].rest) : \E page \in SUBSET left, finished \in BOOLEAN :
            \E kept \in SUBSET page : RecordPage(kept, left \ page, finished)
      BY <2>6 DEF DiscoverPage
    <3>a. PICK page \in SUBSET left, finished \in BOOLEAN :
            \E kept \in SUBSET page : RecordPage(kept, left \ page, finished)
      BY <3>1
    <3>2. PICK kept \in SUBSET page : RecordPage(kept, left \ page, finished)
      BY <3>a
    <3>3. left \in SUBSET Keys
      BY DEF TypeOK, Local, Ahead
    <3>4. PICK new \in SUBSET (kept \ Items) :
            /\ item' = [k \in Keys |-> IF k \in new THEN "PENDING" ELSE item[k]]
            /\ total' = Cardinality(Items \cup new)
            /\ status' \in {"QUEUED", "DISCOVERING"}
            /\ scroll' = IF finished THEN Keys ELSE left \ page
            /\ lock' = "none" /\ due' = TRUE
      BY <3>2 DEF RecordPage
    <3>5. Items \cup new \in SUBSET Keys
      BY <3>1, <3>2, <3>3, <3>4 DEF Items
    <3>6. item' \in [Keys -> ItemStatus] /\ total' \in Nat /\ scroll' \in SUBSET Keys
      BY <3>a, <3>3, <3>4, <3>5, CountType DEF TypeOK, ItemStatus
    <3>7. /\ link' \in [Keys -> LinkStatus]
          /\ holder' \in [Keys -> Workers \cup {NoWorker}]
          /\ queue' \subseteq Messages
          /\ pc' \in [Workers -> Stage]
          /\ wk' \in [Workers -> Local]
      BY <2>0, <2>6 DEF DiscoverPage, TypeOK, Stage
    <3>8. faults' \in 0 .. MaxFaults
      BY <2>6, FaultType DEF DiscoverPage
    <3> QED
      BY <2>6, <3>4, <3>6, <3>7, <3>8 DEF DiscoverPage, TypeOK, JobStatus
  <2>7. CASE DiscoveryFails(w)
    <3>1. faults' \in 0 .. MaxFaults /\ scroll' \in SUBSET Keys
      BY <2>7, FaultType DEF DiscoveryFails, Stopped, TypeOK
    <3>2. \/ PauseJob /\ Return(w, FALSE)
          \/ RetryDiscovery /\ Return(w, TRUE)
      BY <2>7 DEF DiscoveryFails
    <3> QED
      BY <2>0, <2>7, <3>1, <3>2 DEF DiscoveryFails, PauseJob, RetryDiscovery, TypeOK, JobStatus
  <2>8. CASE PrePostError(w)
    <3>1. PICK kind \in ErrorKinds : GotoWith(w, "handle", [wk[w] EXCEPT !.verdict = kind])
      BY <2>8 DEF PrePostError
    <3>2. [wk[w] EXCEPT !.verdict = kind] \in Local
      BY SetsAssumption, VerdictType DEF TypeOK, Verdict
    <3> QED
      BY <2>0, <2>8, <3>1, <3>2, FaultType DEF PrePostError, TypeOK, Stage
  <2>9. CASE Reserve(w)
    <3>1. faults' \in 0 .. MaxFaults
      BY <2>9, FaultType DEF Reserve
    <3>2. link' \in [Keys -> LinkStatus] /\ holder' \in [Keys -> Workers \cup {NoWorker}]
      BY <2>9 DEF Reserve, TypeOK, LinkStatus
    <3>3. /\ [wk[w] EXCEPT !.verdict = "ALREADY_EXISTS"] \in Local
          /\ [wk[w] EXCEPT !.verdict = "conflict"] \in Local
          /\ [wk[w] EXCEPT !.verdict = "temporary"] \in Local
      BY VerdictType DEF TypeOK, Verdict, AllErrors
    <3>4. queue' \subseteq Messages /\ pc' \in [Workers -> Stage] /\ wk' \in [Workers -> Local]
      BY <2>0, <2>9, <3>3 DEF Reserve, Stage
    <3> QED
      BY <2>9, <3>1, <3>2, <3>4 DEF Reserve, TypeOK
  <2>10. CASE MatchSku(w)
    <3>1. faults' \in 0 .. MaxFaults
      BY <2>10, FaultType DEF MatchSku
    <3>2. link' \in [Keys -> LinkStatus] /\ holder' \in [Keys -> Workers \cup {NoWorker}]
      BY <2>10 DEF MatchSku, TypeOK, LinkStatus
    <3>3. /\ [wk[w] EXCEPT !.verdict = "REVIEW"] \in Local
          /\ [wk[w] EXCEPT !.verdict = "temporary"] \in Local
      BY VerdictType DEF TypeOK, Verdict, AllErrors
    <3>4. queue' \subseteq Messages /\ pc' \in [Workers -> Stage] /\ wk' \in [Workers -> Local]
      BY <2>0, <2>10, <3>3 DEF MatchSku, Stage
    <3> QED
      BY <2>10, <3>1, <3>2, <3>4 DEF MatchSku, TypeOK
  <2>11. CASE MarkPostStarted(w)
    <3>1. faults' \in 0 .. MaxFaults
      BY <2>11, FaultType DEF MarkPostStarted
    <3>2. posted' \in [Keys -> BOOLEAN]
      BY <2>11 DEF MarkPostStarted, TypeOK
    <3>3. /\ [wk[w] EXCEPT !.sent = TRUE] \in Local
          /\ [wk[w] EXCEPT !.verdict = "temporary"] \in Local
      BY VerdictType DEF TypeOK, Verdict, AllErrors
    <3>4. queue' \subseteq Messages /\ pc' \in [Workers -> Stage] /\ wk' \in [Workers -> Local]
      BY <2>0, <2>11, <3>3 DEF MarkPostStarted, Stage
    <3> QED
      BY <2>11, <3>1, <3>2, <3>4 DEF MarkPostStarted, TypeOK
  <2>12. CASE PostProduct(w)
    <3>1. faults' \in 0 .. MaxFaults
      BY <2>12, FaultType DEF PostProduct
    <3>2. shop' \in [Keys -> ShopStatus] /\ inflight' \in [Keys -> BOOLEAN]
            /\ posts' \in [Keys -> 0 .. 2]
      <4>1. posts' \in [Keys -> 0 .. 2]
        BY <2>12, PostsType DEF PostProduct
      <4> QED
        BY <2>12, <4>1 DEF PostProduct, TypeOK, ShopStatus
    <3>3. queue' \subseteq Messages /\ pc' \in [Workers -> Stage] /\ wk' \in [Workers -> Local]
      BY <2>0, <2>12 DEF PostProduct, Stage
    <3> QED
      BY <2>12, <3>1, <3>2, <3>3 DEF PostProduct, TypeOK
  <2>13. CASE CompleteLink(w)
    <3>1. faults' \in 0 .. MaxFaults
      BY <2>13, FaultType DEF CompleteLink
    <3>2. link' \in [Keys -> LinkStatus] /\ holder' \in [Keys -> Workers \cup {NoWorker}]
      BY <2>13 DEF CompleteLink, TypeOK, LinkStatus
    <3>3. [wk[w] EXCEPT !.verdict = "CREATED"] \in Local
      BY VerdictType DEF TypeOK, Verdict
    <3>4. queue' \subseteq Messages /\ pc' \in [Workers -> Stage] /\ wk' \in [Workers -> Local]
      BY <2>0, <2>13, <3>3 DEF CompleteLink, Stage
    <3> QED
      BY <2>13, <3>1, <3>2, <3>4 DEF CompleteLink, TypeOK
  <2>14. CASE ReadLink(w)
    <3>1. [wk[w] EXCEPT !.verdict = "ALREADY_EXISTS", !.sent = TRUE] \in Local
      BY VerdictType DEF TypeOK, Verdict
    <3>2. queue' \subseteq Messages /\ pc' \in [Workers -> Stage] /\ wk' \in [Workers -> Local]
      BY <2>0, <2>14, <3>1 DEF ReadLink, Stage
    <3> QED
      BY <2>14, <3>2 DEF ReadLink, TypeOK
  <2>15. CASE Confirm(w)
    <3>1. faults' \in 0 .. MaxFaults
      BY <2>15, FaultType DEF Confirm
    <3>2. link' \in [Keys -> LinkStatus] /\ holder' \in [Keys -> Workers \cup {NoWorker}]
      BY <2>15 DEF Confirm, TypeOK, LinkStatus
    <3>3. [wk[w] EXCEPT !.verdict = "CREATED", !.sent = TRUE] \in Local
      BY VerdictType DEF TypeOK, Verdict
    <3>4. queue' \subseteq Messages /\ pc' \in [Workers -> Stage] /\ wk' \in [Workers -> Local]
      BY <2>0, <2>15, <3>3 DEF Confirm, Stage
    <3> QED
      BY <2>15, <3>1, <3>2, <3>4 DEF Confirm, TypeOK
  <2>16. CASE ReconcileError(w)
    BY <2>0, <2>16, FaultType DEF ReconcileError, TypeOK, Stage
  <2>17. CASE Finish(w)
    <3>1. Begin(w) \/ FinishFails(w)
      BY <2>17 DEF Finish
    <3> QED
      BY <2>17, <3>1, FinishType DEF Finish, TypeOK
  <2>23. CASE Commit(w)
    <3>1. faults' \in 0 .. MaxFaults
      BY <2>23, FaultType DEF Commit
    <3>2. AfterTerminal(w) \/ FinishFails(w)
      BY <2>23 DEF Commit
    <3>3. \/ FinishItem(wk[w].key, Result(w), wk[w].tally)
          \/ UNCHANGED <<item, approved, rejected, status, lock>>
      BY <2>23 DEF Commit
    <3> QED
      BY <2>23, <3>1, <3>2, <3>3, FinishType, FinishItemType DEF Commit, TypeOK
  <2>18. CASE PauseSingle(w)
    BY <2>0, <2>18 DEF PauseSingle, PauseJob, TypeOK, JobStatus
  <2>19. CASE HandleReject(w)
    <3>1. Begin(w) \/ Return(w, TRUE)
      BY <2>0, <2>19 DEF HandleReject
    <3> QED
      BY <2>19, <3>1, FinishType, ReturnType DEF HandleReject, TypeOK
  <2>20. CASE HandlePause(w)
    BY <2>0, <2>20 DEF HandlePause, PauseJob, TypeOK, JobStatus
  <2>21. CASE HandleRetry(w)
    <3>1. Return(w, TRUE)
      BY <2>0, <2>21 DEF HandleRetry
    <3>2. item' \in [Keys -> ItemStatus] /\ status' \in JobStatus
            /\ lock' \in {"none", "live", "past"} /\ due' \in BOOLEAN
      BY <2>21 DEF HandleRetry, TypeOK, ItemStatus, JobStatus
    <3> QED
      BY <2>0, <2>21, <3>1, <3>2 DEF HandleRetry, TypeOK
  <2>22. CASE Defer(w)
    <3>1. Return(w, TRUE) \/ Return(w, FALSE)
      BY <2>0, <2>22 DEF Defer
    <3>2. item' \in [Keys -> ItemStatus] /\ status' \in JobStatus
            /\ lock' \in {"none", "live", "past"} /\ due' \in BOOLEAN
      BY <2>22 DEF Defer, PauseJob, TypeOK, ItemStatus, JobStatus
    <3> QED
      BY <2>0, <2>22, <3>1, <3>2 DEF Defer, TypeOK
  <2> QED
    BY <1>11, <2>1, <2>2, <2>3, <2>4, <2>5, <2>6, <2>7, <2>8, <2>9, <2>10, <2>11, <2>12,
       <2>13, <2>14, <2>15, <2>16, <2>17, <2>18, <2>19, <2>20, <2>21, <2>22, <2>23 DEF Work
<1>12. CASE UNCHANGED vars
  BY <1>12 DEF vars, workerVars, TypeOK
<1> QED
  BY <1>1, <1>2, <1>3, <1>4, <1>5, <1>6, <1>7, <1>8, <1>9, <1>10, <1>11, <1>12 DEF Next

\* TypeOK: every variable keeps its type in every behaviour of the migration.
THEOREM TypeCorrect == Spec => []TypeOK
BY TypeInit, TypeStep, PTL DEF Spec

-----------------------------------------------------------------------------
(* The inductive invariant, by worker and by source key                      *)

\* What IInv says of one invocation.
WorkerFine(w) ==
    LET k == wk[w].key IN
    /\ pc[w] \in OnItem => k \in Keys
    /\ pc[w] \in Reserving =>
         (link[k] = "PENDING" /\ holder[k] = w) \/ link[k] = "COMPLETED"
    /\ pc[w] = "post" => /\ posted[k] /\ posts[k] = 0
                         /\ \A v \in Workers : pc[v] = "post" /\ wk[v].key = k => v = w
    /\ pc[w] = "match" /\ link[k] = "PENDING" /\ holder[k] = w => posts[k] = 0
    /\ pc[w] \in {"mark", "post"} => shop[k] # "foreign"
    /\ pc[w] \in {"reconcile", "confirm"} => posted[k]
    /\ pc[w] = "link" => shop[k] \in {"created", "indexed"}
    /\ pc[w] \in {"finish", "commit"} => Result(w) = "REJECTED" \/ link[k] = "COMPLETED"
    /\ pc[w] = "match" /\ posts[k] = 0 => shop[k] # "created"
    /\ pc[w] \in {"mark", "post"} /\ posts[k] = 0 => shop[k] = "absent"

\* What IInv says of the POST, the link and the product of one source key.
KeyFine(k) ==
    /\ posts[k] <= 1
    /\ posts[k] > 0 => posted[k] /\ link[k] \in {"PENDING", "COMPLETED"}
    /\ posted[k] => shop[k] # "foreign"
    /\ link[k] = "COMPLETED" => shop[k] \in {"created", "indexed"}
    /\ inflight[k] => posts[k] > 0
    /\ posts[k] = 0 /\ shop[k] = "created" => link[k] \in {"PENDING", "COMPLETED"}
    /\ posts[k] = 0 /\ posted[k] => shop[k] = "absent"

\* What IInv says of the item of one source key.
ItemFine(k) ==
    /\ item[k] \in {"ABSENT", "PENDING"} => ~posted[k]
    /\ item[k] = "RECONCILING" => posted[k]
    /\ item[k] = "APPROVED" => link[k] = "COMPLETED" /\ shop[k] \in {"created", "indexed"}

AllFine == /\ TypeOK
           /\ \A w \in Workers : WorkerFine(w)
           /\ \A k \in Keys : KeyFine(k) /\ ItemFine(k)

\* IInv speaks of every invocation and of every source key on its own.
LEMMA Fine == IInv <=> AllFine
<1> USE DEF AllFine, IInv, AtMostOnePost, KeyTaken, HoldsLink, MarkedBeforePost, ReleasedUnposted,
            PostedKeepsReservation, MarkedByStatus, OwnProducts, LinkedIsMade,
            MadeByPost, ApprovedIsPublished
<1>1. IInv => \A w \in Workers : WorkerFine(w)
  BY DEF WorkerFine, OnItem, Reserving
<1>2. IInv => \A k \in Keys : KeyFine(k) /\ ItemFine(k)
  BY DEF KeyFine, ItemFine
<1>3. ASSUME TypeOK, \A w \in Workers : WorkerFine(w),
             \A k \in Keys : KeyFine(k) /\ ItemFine(k)
      PROVE  IInv
  <2>1. KeyTaken /\ HoldsLink /\ ReleasedUnposted
    BY <1>3 DEF WorkerFine
  <2>2. AtMostOnePost /\ MarkedBeforePost /\ PostedKeepsReservation /\ MarkedByStatus
    BY <1>3 DEF WorkerFine, KeyFine, ItemFine
  <2>3. OwnProducts /\ LinkedIsMade
    BY <1>3 DEF WorkerFine, KeyFine
  <2>4. MadeByPost /\ ApprovedIsPublished
    BY <1>3 DEF WorkerFine, KeyFine, ItemFine
  <2> QED
    BY <1>3, <2>1, <2>2, <2>3, <2>4
<1> QED
  BY <1>1, <1>2, <1>3

\* And so it does of the next state.
LEMMA FineNext == AllFine' => IInv'
BY Fine, PTL

\* A step that the links, marks and products survive, as seen by the
\* invocation v that does not take it.
Harmless(v) ==
    /\ pc'[v] = pc[v] /\ wk'[v] = wk[v]
    /\ \A k \in Keys : /\ link[k] = "COMPLETED" => link'[k] = "COMPLETED"
                       /\ link[k] = "PENDING" /\ holder[k] = v =>
                            \/ link'[k] = "PENDING" /\ holder'[k] = v
                            \/ link'[k] = "COMPLETED"
                       /\ posted[k] => posted'[k]
                       /\ \/ posts'[k] = posts[k]
                          \/ \E w \in Workers \ {v} : pc[w] = "post" /\ wk[w].key = k
                       /\ shop[k] # "foreign" => shop'[k] # "foreign"
                       /\ shop[k] \in {"created", "indexed"} =>
                            shop'[k] \in {"created", "indexed"}
                       /\ posts'[k] = 0 => shop'[k] = shop[k] \/ shop[k] = "created"
    /\ \A w \in Workers : pc'[w] = "post" =>
         \/ pc[w] = "post" /\ wk'[w].key = wk[w].key
         \/ ~posted[wk'[w].key]

\* Such a step leaves what IInv says of v alone.
LEMMA Bystander ==
    ASSUME IInv, NEW v \in Workers, Harmless(v)
    PROVE  WorkerFine(v)'
<1> DEFINE k == wk[v].key
<1>1. WorkerFine(v) /\ TypeOK /\ \A w \in Workers : WorkerFine(w)
  BY Fine DEF AllFine
<1>2. pc'[v] = pc[v] /\ wk'[v] = wk[v] /\ wk'[v].key = k
  BY DEF Harmless
<1>3. CASE pc[v] \notin OnItem
  BY <1>2, <1>3 DEF WorkerFine, OnItem, Reserving
<1>4. CASE pc[v] \in OnItem
  <2>1. k \in Keys
    BY <1>1, <1>4 DEF WorkerFine
  <2>2. pc[v] \in Reserving => (link'[k] = "PENDING" /\ holder'[k] = v) \/ link'[k] = "COMPLETED"
    BY <1>1, <2>1 DEF WorkerFine, Harmless
  <2>3. pc[v] \in {"match", "mark", "post"} =>
           posts'[k] = posts[k] \/ link[k] = "COMPLETED" \/ ~(link[k] = "PENDING" /\ holder[k] = v)
    BY <1>1, <2>1 DEF WorkerFine, Harmless, Reserving
  <2>4. pc[v] = "post" => posted'[k] /\ posts'[k] = 0
    BY <1>1, <2>1 DEF WorkerFine, Harmless
  <2>5. ASSUME pc[v] = "post", NEW w \in Workers, pc'[w] = "post", wk'[w].key = k PROVE w = v
    <3>1. posted[k]
      BY <1>1, <2>5 DEF WorkerFine
    <3>2. pc[w] = "post" /\ wk[w].key = k
      BY <2>5, <3>1 DEF Harmless
    <3> QED
      BY <1>1, <2>5, <3>2 DEF WorkerFine
  <2>6. pc[v] = "match" /\ link'[k] = "PENDING" /\ holder'[k] = v => posts'[k] = 0
    <3> SUFFICES ASSUME pc[v] = "match", link'[k] = "PENDING", holder'[k] = v
                 PROVE  posts'[k] = 0
      OBVIOUS
    <3>1. link[k] = "PENDING" /\ holder[k] = v
      BY <1>1, <2>1 DEF WorkerFine, Harmless, Reserving
    <3> QED
      BY <1>1, <2>3, <3>1 DEF WorkerFine
  <2>7. ASSUME pc[v] \in {"match", "mark", "post"}, posts'[k] = 0
        PROVE  /\ pc[v] = "match" => shop'[k] # "created"
               /\ pc[v] \in {"mark", "post"} => shop'[k] = "absent"
    <3>1. posts[k] = 0
      BY <1>1, <2>1, <2>7 DEF WorkerFine, Harmless
    <3>2. shop'[k] = shop[k] \/ shop[k] = "created"
      BY <2>1, <2>7 DEF Harmless
    <3> QED
      BY <1>1, <2>7, <3>1, <3>2 DEF WorkerFine
  <2> QED
    BY <1>1, <1>2, <1>4, <2>1, <2>2, <2>4, <2>5, <2>6, <2>7 DEF WorkerFine, Harmless, Result
<1> QED
  BY <1>3, <1>4

\* A step of w, or of nobody, that IInv survives: what remains to be shown for
\* each action.
LEMMA Combine ==
    ASSUME IInv, TypeOK', NEW w,
           \A v \in Workers \ {w} : Harmless(v),
           w \in Workers => WorkerFine(w)',
           \A k \in Keys : KeyFine(k)' /\ ItemFine(k)'
    PROVE  IInv'
<1>1. \A v \in Workers : WorkerFine(v)'
  BY Bystander
<1> QED
  BY <1>1, FineNext DEF AllFine

\* A step of w that writes no mark, link or product.
LEMMA Quiet ==
    ASSUME IInv, TypeOK', NEW w,
           \A v \in Workers \ {w} : pc'[v] = pc[v] /\ wk'[v] = wk[v],
           UNCHANGED <<link, posted, posts, shop, inflight>>,
           \A v \in Workers \ {w}, k \in Keys : holder[k] = v => holder'[k] = v,
           w \in Workers => pc'[w] # "post" /\ WorkerFine(w)',
           \A k \in Keys : ItemFine(k)'
    PROVE  IInv'
<1>1. \A v \in Workers \ {w} : Harmless(v)
  BY DEF Harmless
<1>2. \A k \in Keys : KeyFine(k)'
  BY Fine DEF AllFine, KeyFine
<1> QED
  BY <1>1, <1>2, Combine

\* The end of an invocation.
LEMMA Ended ==
    ASSUME IInv, NEW w \in Workers, NEW b, Return(w, b)
    PROVE  /\ \A v \in Workers \ {w} : pc'[v] = pc[v] /\ wk'[v] = wk[v]
           /\ link' = link
           /\ \A v \in Workers \ {w}, k \in Keys : holder[k] = v => holder'[k] = v
           /\ pc'[w] = "idle" /\ WorkerFine(w)'
<1>1. /\ \A v \in Workers \ {w} : pc'[v] = pc[v] /\ wk'[v] = wk[v]
      /\ link' = link
      /\ \A v \in Workers \ {w}, k \in Keys : holder[k] = v => holder'[k] = v
      /\ pc'[w] = "idle"
  BY DEF Return, Leave, Forget, IInv, TypeOK
<1>2. WorkerFine(w)'
  BY <1>1 DEF WorkerFine, OnItem, Reserving
<1> QED
  BY <1>1, <1>2

\* A move of w from stage to stage.
LEMMA Moved ==
    ASSUME IInv, NEW w \in Workers, NEW stage, NEW local,
           (Goto(w, stage) /\ local = wk[w]) \/ GotoWith(w, stage, local)
    PROVE  /\ \A v \in Workers \ {w} : pc'[v] = pc[v] /\ wk'[v] = wk[v]
           /\ pc'[w] = stage /\ wk'[w] = local
BY DEF Goto, GotoWith, IInv, TypeOK

\* Outside the stages that work on an item, nothing is asked of an invocation.
LEMMA OffItem ==
    ASSUME NEW w, pc'[w] \in Stage \ OnItem
    PROVE  pc'[w] # "post" /\ WorkerFine(w)'
BY DEF WorkerFine, OnItem, Reserving, Stage

\* Items that a step leaves alone, while links and products only get better.
LEMMA SameItems ==
    ASSUME IInv, UNCHANGED <<item, posted>>,
           \A k \in Keys : link[k] = "COMPLETED" => link'[k] = "COMPLETED",
           \A k \in Keys : shop[k] \in {"created", "indexed"} => shop'[k] \in {"created", "indexed"}
    PROVE  \A k \in Keys : ItemFine(k)'
BY Fine DEF AllFine, ItemFine

\* The recovery of interrupted items follows the mark.
LEMMA RecoveredItems ==
    ASSUME IInv, RecoverItems, UNCHANGED <<posted, link, shop>>
    PROVE  \A k \in Keys : ItemFine(k)'
BY Fine DEF AllFine, ItemFine, RecoverItems, Recovered

\* The inductive invariant holds initially.
LEMMA SafeInit == Init => IInv
<1> SUFFICES ASSUME Init PROVE IInv
  OBVIOUS
<1>1. TypeOK
  BY TypeInit
<1>2. \A w \in Workers : WorkerFine(w)
  BY DEF Init, WorkerFine, OnItem, Reserving
<1>3. PICK s \in [Keys -> Situations] :
         /\ link = [k \in Keys |->
               CASE s[k] = "linked" -> "COMPLETED"
                 [] s[k] \in {"pending", "unconfirmed"} -> "PENDING"
                 [] s[k] \in {"failed", "released"} -> "FAILED"
                 [] OTHER -> "NONE"]
         /\ shop = [k \in Keys |->
               CASE s[k] \in {"linked", "released"} -> "indexed"
                 [] s[k] = "unconfirmed" -> "created"
                 [] s[k] = "foreign" -> "foreign"
                 [] OTHER -> "absent"]
  BY DEF Init
<1>4. \A k \in Keys : /\ link[k] = "COMPLETED" => shop[k] = "indexed"
                      /\ shop[k] = "created" => link[k] = "PENDING"
  BY <1>3
<1>5. \A k \in Keys : KeyFine(k) /\ ItemFine(k)
  BY <1>4 DEF Init, KeyFine, ItemFine
<1> QED
  BY <1>1, <1>2, <1>5, Fine DEF AllFine

\* Steps of the user, of time and of the store.
LEMMA SafeOutside ==
    ASSUME IInv, TypeOK',
           \/ StartNewJob \/ StartAgain \/ Resume \/ LeaseExpires \/ RunDue
           \/ \E k \in Keys : LatePost(k) \/ ShopIndexes(k)
           \/ UNCHANGED vars
    PROVE  IInv'
<1> USE DEF jobVars, itemVars, linkVars, shopVars, workerVars
<1>1. CASE StartNewJob \/ StartAgain \/ LeaseExpires \/ RunDue \/ UNCHANGED vars
  <2>1. UNCHANGED <<item, posted, link, holder, shop, inflight, posts, pc, wk>>
    BY <1>1 DEF StartNewJob, StartAgain, LeaseExpires, RunDue, vars
  <2>2. \A k \in Keys : ItemFine(k)'
    BY <2>1, SameItems
  <2> QED
    BY <2>1, <2>2, Quiet, WorkersAssumption
<1>2. CASE Resume
  <2>1. UNCHANGED <<posted, link, holder, shop, inflight, posts, pc, wk>> /\ RecoverItems
    BY <1>2 DEF Resume
  <2>2. \A k \in Keys : ItemFine(k)'
    BY <2>1, RecoveredItems
  <2> QED
    BY <2>1, <2>2, Quiet, WorkersAssumption
<1>3. ASSUME NEW k \in Keys, LatePost(k) PROVE IInv'
  <2>1. posts[k] > 0 /\ KeyFine(k)
    BY <1>3, Fine DEF AllFine, KeyFine, LatePost
  <2>2. \A v \in Workers : Harmless(v)
    BY <1>3, <2>1 DEF LatePost, Harmless, IInv, TypeOK, ShopStatus
  <2>3. \A i \in Keys : KeyFine(i)'
    BY <1>3, <2>1, Fine DEF AllFine, LatePost, KeyFine, TypeOK, ShopStatus
  <2>4. \A i \in Keys : ItemFine(i)'
    BY <1>3, SameItems DEF LatePost, IInv, TypeOK
  <2> QED
    BY <2>2, <2>3, <2>4, Combine, WorkersAssumption
<1>4. ASSUME NEW k \in Keys, ShopIndexes(k) PROVE IInv'
  <2>1. \A v \in Workers : Harmless(v)
    BY <1>4 DEF ShopIndexes, Harmless, IInv, TypeOK
  <2>2. \A i \in Keys : KeyFine(i)'
    BY <1>4, Fine DEF AllFine, ShopIndexes, KeyFine, TypeOK
  <2>3. \A i \in Keys : ItemFine(i)'
    BY <1>4, SameItems DEF ShopIndexes, IInv, TypeOK
  <2> QED
    BY <2>1, <2>2, <2>3, Combine, WorkersAssumption
<1> QED
  BY <1>1, <1>2, <1>3, <1>4

\* The delivery, the death and the duplication of an invocation's message.
LEMMA SafeDelivery ==
    ASSUME IInv, TypeOK', NEW w \in Workers, Observe(w) \/ Crash(w) \/ Redeliver(w)
    PROVE  IInv'
<1> USE DEF jobVars, itemVars, linkVars, shopVars
<1>1. CASE Observe(w)
  <2>1. /\ UNCHANGED <<item, posted, link, holder, shop, inflight, posts>>
        /\ \A v \in Workers \ {w} : pc'[v] = pc[v] /\ wk'[v] = wk[v]
        /\ pc'[w] \in {"idle", "observed"}
    BY <1>1 DEF Observe, IInv, TypeOK
  <2>2. pc'[w] # "post" /\ WorkerFine(w)'
    BY <2>1 DEF WorkerFine, OnItem, Reserving
  <2>3. \A k \in Keys : ItemFine(k)'
    BY <2>1, SameItems
  <2> QED
    BY <2>1, <2>2, <2>3, Quiet
<1>2. CASE Crash(w)
  <2>1. /\ \A v \in Workers \ {w} : pc'[v] = pc[v] /\ wk'[v] = wk[v]
        /\ link' = link
        /\ \A v \in Workers \ {w}, k \in Keys : holder[k] = v => holder'[k] = v
        /\ pc'[w] = "idle" /\ WorkerFine(w)'
    BY <1>2, Ended DEF Crash, Throw
  <2>2. UNCHANGED <<item, posted, shop>>
    BY <1>2 DEF Crash
  <2>3. \A k \in Keys : ItemFine(k)'
    BY <2>1, <2>2, SameItems
  <2>4. CASE UNCHANGED <<inflight, posts>>
    BY <2>1, <2>2, <2>3, <2>4, Quiet
  <2>5. CASE ~UNCHANGED <<inflight, posts>>
    <3> DEFINE k == wk[w].key
    <3>1. /\ pc[w] = "post" /\ inflight' = [inflight EXCEPT ![k] = TRUE]
          /\ posts' = [posts EXCEPT ![k] = IF @ = 0 THEN 1 ELSE 2]
      BY <1>2, <2>5 DEF Crash
    <3>2. /\ k \in Keys /\ posted[k] /\ posts[k] = 0 /\ shop[k] # "foreign"
          /\ link[k] \in {"PENDING", "COMPLETED"}
      BY <3>1, Fine DEF AllFine, WorkerFine, OnItem, Reserving
    <3>3. /\ \A i \in Keys \ {k} : posts'[i] = posts[i] /\ inflight'[i] = inflight[i]
          /\ posts'[k] = 1 /\ inflight'[k]
      BY <3>1, <3>2 DEF IInv, TypeOK
    <3>4. \A v \in Workers \ {w} : Harmless(v)
      BY <2>1, <2>2, <3>1, <3>3 DEF Harmless
    <3>5. \A i \in Keys : KeyFine(i)'
      BY <2>1, <2>2, <3>2, <3>3, Fine DEF AllFine, KeyFine
    <3> QED
      BY <2>1, <2>3, <3>4, <3>5, Combine
  <2> QED
    BY <2>4, <2>5
<1>3. CASE Redeliver(w)
  <2>1. UNCHANGED <<item, posted, link, holder, shop, inflight, posts, pc, wk>>
    BY <1>3 DEF Redeliver
  <2>2. \A k \in Keys : ItemFine(k)'
    BY <2>1, SameItems
  <2> QED
    BY <2>1, <2>2, Quiet, WorkersAssumption
<1> QED
  BY <1>1, <1>2, <1>3

\* The claims of a job and of an item, and the discovery.
LEMMA SafeClaim ==
    ASSUME IInv, TypeOK', NEW w \in Workers,
           \/ ClaimJob(w) \/ ClaimDenied(w) \/ Reread(w) \/ PickItem(w) \/ PickNothing(w)
           \/ DiscoverPage(w) \/ DiscoveryFails(w)
    PROVE  IInv'
<1> USE DEF jobVars, itemVars, linkVars, shopVars
<1>0. UNCHANGED <<posted, shop, inflight, posts>>
  BY DEF ClaimJob, ClaimDenied, Reread, PickItem, PickNothing, DiscoverPage, DiscoveryFails
<1>1. CASE ClaimJob(w)
  <2>1. UNCHANGED linkVars /\ RecoverItems /\ Goto(w, "claimed")
    BY <1>1 DEF ClaimJob
  <2>2. /\ \A v \in Workers \ {w} : pc'[v] = pc[v] /\ wk'[v] = wk[v]
        /\ pc'[w] \in Stage \ OnItem
    BY <2>1 DEF Goto, Stage, OnItem, IInv, TypeOK
  <2>3. \A k \in Keys : ItemFine(k)'
    BY <1>0, <2>1, RecoveredItems
  <2> QED
    BY <1>0, <2>1, <2>2, <2>3, OffItem, Quiet
<1>2. CASE ClaimDenied(w) \/ Reread(w) \/ PickNothing(w) \/ DiscoveryFails(w)
  <2>1. item' = item
    BY <1>2 DEF ClaimDenied, Reread, PickNothing, DiscoveryFails
  <2>2. \/ \E b : Return(w, b)
        \/ UNCHANGED linkVars /\ \E stage \in {"discover", "pick"} : \E local : GotoWith(w, stage, local)
    BY <1>2 DEF ClaimDenied, Reread, PickNothing, DiscoveryFails
  <2>3. \A k \in Keys : link'[k] = link[k]
    BY <2>2, Ended
  <2>4. \A k \in Keys : ItemFine(k)'
    BY <1>0, <2>1, <2>3, SameItems
  <2>5. ASSUME NEW b, Return(w, b) PROVE IInv'
    BY <1>0, <2>4, <2>5, Ended, Quiet
  <2>6. ASSUME UNCHANGED linkVars, NEW stage \in {"discover", "pick"}, NEW local,
               GotoWith(w, stage, local)
        PROVE  IInv'
    <3>1. /\ \A v \in Workers \ {w} : pc'[v] = pc[v] /\ wk'[v] = wk[v]
          /\ pc'[w] \in Stage \ OnItem
      BY <2>6, Moved DEF Stage, OnItem
    <3> QED
      BY <1>0, <2>4, <2>6, <3>1, OffItem, Quiet
  <2> QED
    BY <2>2, <2>5, <2>6
<1>3. CASE PickItem(w)
  <2>0. PICK k \in Offered : \E n :
          /\ item' = [item EXCEPT ![k] = "PROCESSING"]
          /\ GotoWith(w, IF item[k] = "RECONCILING" THEN "reconcile" ELSE "prepare",
                      [wk[w] EXCEPT !.key = k, !.cyc = n])
    BY <1>3 DEF PickItem
  <2>1. PICK attempts :
          /\ item' = [item EXCEPT ![k] = "PROCESSING"]
          /\ GotoWith(w, IF item[k] = "RECONCILING" THEN "reconcile" ELSE "prepare",
                      [wk[w] EXCEPT !.key = k, !.cyc = attempts])
    BY <2>0
  <2>2. k \in Keys /\ item[k] \in {"RECONCILING", "PENDING"} /\ UNCHANGED linkVars
    BY <1>3 DEF Offered, InState, PickItem
  <2>3. [wk[w] EXCEPT !.key = k, !.cyc = attempts].key = k
    BY DEF IInv, TypeOK, Local
  <2>4. /\ \A v \in Workers \ {w} : pc'[v] = pc[v] /\ wk'[v] = wk[v]
        /\ pc'[w] = IF item[k] = "RECONCILING" THEN "reconcile" ELSE "prepare"
        /\ wk'[w].key = k
    BY <2>1, <2>3 DEF GotoWith, IInv, TypeOK
  <2>5. item[k] = "RECONCILING" => posted'[k]
    BY <1>0, <2>2, Fine DEF AllFine, ItemFine
  <2>6. pc'[w] # "post" /\ WorkerFine(w)'
    BY <2>2, <2>4, <2>5 DEF WorkerFine, OnItem, Reserving
  <2>7. \A i \in Keys : ItemFine(i)'
    BY <1>0, <2>1, <2>2, Fine DEF AllFine, ItemFine, TypeOK
  <2> QED
    BY <1>0, <2>2, <2>4, <2>6, <2>7, Quiet
<1>4. CASE DiscoverPage(w)
  <2>1. PICK left \in Ahead(wk[w].rest) : \E page \in SUBSET left, finished \in BOOLEAN :
          \E kept \in SUBSET page : RecordPage(kept, left \ page, finished)
    BY <1>4 DEF DiscoverPage
  <2>a. PICK page \in SUBSET left, finished \in BOOLEAN :
          \E kept \in SUBSET page : RecordPage(kept, left \ page, finished)
    BY <2>1
  <2>2. PICK kept \in SUBSET page : RecordPage(kept, left \ page, finished)
    BY <2>a
  <2>3. PICK new \in SUBSET (kept \ Items) :
          item' = [k \in Keys |-> IF k \in new THEN "PENDING" ELSE item[k]]
    BY <2>2 DEF RecordPage
  <2>4. \/ Return(w, TRUE)
        \/ Goto(w, "rediscover") /\ UNCHANGED linkVars
    BY <1>4 DEF DiscoverPage
  <2>5. \A k \in Keys : link'[k] = link[k]
    BY <2>4, Ended
  <2>6. \A k \in Keys : ItemFine(k)'
    BY <1>0, <2>3, <2>5, Fine DEF AllFine, ItemFine, Items
  <2>7. CASE Return(w, TRUE)
    BY <1>0, <2>6, <2>7, Ended, Quiet
  <2>8. CASE Goto(w, "rediscover") /\ UNCHANGED linkVars
    <3>1. /\ \A v \in Workers \ {w} : pc'[v] = pc[v] /\ wk'[v] = wk[v]
          /\ pc'[w] \in Stage \ OnItem
      BY <2>8 DEF Goto, Stage, OnItem, IInv, TypeOK
    <3> QED
      BY <1>0, <2>6, <2>8, <3>1, OffItem, Quiet
  <2> QED
    BY <2>4, <2>7, <2>8
<1> QED
  BY <1>1, <1>2, <1>3, <1>4

\* The preparation of an item: reservation and search by SKU.
LEMMA SafePrepare ==
    ASSUME IInv, TypeOK', NEW w \in Workers,
           PrePostError(w) \/ Reserve(w) \/ MatchSku(w)
    PROVE  IInv'
<1> USE DEF jobVars, itemVars, linkVars, shopVars
<1> DEFINE k == wk[w].key
<1>0. /\ UNCHANGED <<item, posted, shop, inflight, posts>>
      /\ pc[w] \in {"prepare", "match", "mark"}
  BY DEF PrePostError, Reserve, MatchSku
<1>1. k \in Keys /\ WorkerFine(w) /\ KeyFine(k)
  BY <1>0, Fine DEF AllFine, WorkerFine, OnItem
<1>2. /\ \A v \in Workers \ {w} : pc'[v] = pc[v] /\ wk'[v] = wk[v]
      /\ pc'[w] \in {"finish", "handle", "match", "mark"}
      /\ wk'[w].key = k
  BY DEF PrePostError, Reserve, MatchSku, Goto, GotoWith, IInv, TypeOK, Local
<1>3. CASE UNCHANGED <<link, holder>>
  <2>1. \A i \in Keys : ItemFine(i)'
    BY <1>0, <1>3, SameItems
  <2>2. CASE pc'[w] = "handle"
    BY <1>0, <1>1, <1>2, <1>3, <2>1, <2>2, Quiet DEF WorkerFine, OnItem, Reserving
  <2>3. CASE pc'[w] = "mark"
    <3>1. pc[w] = "match" /\ shop[k] \in {"absent", "created"}
      BY <1>2, <1>3, <2>3 DEF PrePostError, Reserve, MatchSku, Goto, GotoWith, IInv, TypeOK
    <3>2. WorkerFine(w)'
      BY <1>0, <1>1, <1>2, <1>3, <2>3, <3>1 DEF WorkerFine, OnItem, Reserving
    <3> QED
      BY <1>0, <1>2, <1>3, <2>1, <2>3, <3>2, Quiet
  <2>4. CASE pc'[w] = "finish"
    <3>1. wk'[w].verdict = "REVIEW" \/ link[k] = "COMPLETED"
      BY <1>3, <2>4 DEF PrePostError, Reserve, MatchSku, Goto, GotoWith, IInv, TypeOK, Local
    <3>2. WorkerFine(w)'
      BY <1>0, <1>1, <1>2, <1>3, <2>4, <3>1 DEF WorkerFine, OnItem, Reserving, Result
    <3> QED
      BY <1>0, <1>2, <1>3, <2>1, <2>4, <3>2, Quiet
  <2>5. CASE pc'[w] = "match"
    <3>1. FALSE
      BY <1>1, <1>3, <2>5 DEF PrePostError, Reserve, MatchSku, Goto, GotoWith, IInv, TypeOK
    <3> QED
      BY <3>1
  <2> QED
    BY <1>2, <2>2, <2>3, <2>4, <2>5
<1>4. CASE Reserve(w) /\ ~UNCHANGED <<link, holder>>
  <2>1. /\ link[k] \in {"NONE", "FAILED"} /\ link' = [link EXCEPT ![k] = "PENDING"]
        /\ \/ holder' = [holder EXCEPT ![k] = w] /\ pc'[w] = "match"
           \/ holder' = [holder EXCEPT ![k] = NoWorker] /\ pc'[w] = "handle"
    BY <1>4 DEF Reserve, Goto, GotoWith, IInv, TypeOK
  <2>2. posts[k] = 0 /\ shop[k] # "created"
    BY <1>1, <2>1 DEF KeyFine, IInv, TypeOK, ShopStatus
  <2>3. /\ \A i \in Keys \ {k} : link'[i] = link[i] /\ holder'[i] = holder[i]
        /\ link'[k] = "PENDING" /\ pc'[w] = "match" => holder'[k] = w
        /\ link'[k] = "PENDING"
    BY <1>1, <2>1 DEF IInv, TypeOK
  <2>4. \A v \in Workers \ {w} : Harmless(v)
    BY <1>0, <1>2, <2>1, <2>3 DEF Harmless
  <2>5. WorkerFine(w)'
    BY <1>0, <1>1, <1>2, <2>1, <2>2, <2>3 DEF WorkerFine, OnItem, Reserving
  <2>6. \A i \in Keys : KeyFine(i)'
    BY <1>0, <2>2, <2>3, Fine DEF AllFine, KeyFine
  <2>7. \A i \in Keys : ItemFine(i)'
    BY <1>0, <2>1, <2>3, SameItems
  <2> QED
    BY <2>4, <2>5, <2>6, <2>7, Combine
<1>5. CASE MatchSku(w) /\ ~UNCHANGED <<link, holder>>
  <2>1. /\ link[k] = "PENDING" /\ holder[k] = w /\ pc[w] = "match"
        /\ link' = [link EXCEPT ![k] = "FAILED"]
        /\ holder' = [holder EXCEPT ![k] = NoWorker]
        /\ shop[k] # "created"
        /\ \/ pc'[w] = "finish" /\ wk'[w].verdict = "REVIEW"
           \/ pc'[w] = "handle"
    BY <1>5 DEF MatchSku, Goto, GotoWith, IInv, TypeOK, Local
  <2>2. posts[k] = 0
    BY <1>1, <2>1 DEF WorkerFine
  <2>3. /\ \A i \in Keys \ {k} : link'[i] = link[i] /\ holder'[i] = holder[i]
        /\ link'[k] = "FAILED"
    BY <1>1, <2>1 DEF IInv, TypeOK
  <2>4. \A v \in Workers \ {w} : Harmless(v)
    BY <1>0, <1>2, <2>1, <2>3 DEF Harmless
  <2>5. WorkerFine(w)'
    BY <1>0, <1>1, <1>2, <2>1 DEF WorkerFine, OnItem, Reserving, Result
  <2>6. \A i \in Keys : KeyFine(i)'
    BY <1>0, <2>1, <2>2, <2>3, Fine DEF AllFine, KeyFine
  <2>7. \A i \in Keys : ItemFine(i)'
    BY <1>0, <2>1, <2>3, SameItems
  <2> QED
    BY <2>4, <2>5, <2>6, <2>7, Combine
<1>6. CASE PrePostError(w) /\ ~UNCHANGED <<link, holder>>
  BY <1>6 DEF PrePostError
<1> QED
  BY <1>3, <1>4, <1>5, <1>6

\* The creation of a product: mark, POST, link.
LEMMA SafeCreate ==
    ASSUME IInv, TypeOK', NEW w \in Workers,
           MarkPostStarted(w) \/ PostProduct(w) \/ CompleteLink(w)
    PROVE  IInv'
<1> USE DEF jobVars, itemVars, linkVars, shopVars
<1> DEFINE k == wk[w].key
<1>0. pc[w] \in {"mark", "post", "link"} /\ item' = item
  BY DEF MarkPostStarted, PostProduct, CompleteLink
<1>1. k \in Keys /\ WorkerFine(w) /\ KeyFine(k) /\ ItemFine(k)
  BY <1>0, Fine DEF AllFine, WorkerFine, OnItem
<1>2. /\ \A v \in Workers \ {w} : pc'[v] = pc[v] /\ wk'[v] = wk[v]
      /\ wk'[w].key = k
  BY DEF MarkPostStarted, PostProduct, CompleteLink, Goto, GotoWith, IInv, TypeOK, Local
<1>3. CASE MarkPostStarted(w)
  <2>1. UNCHANGED <<link, holder, shop, inflight, posts>> /\ pc[w] = "mark"
    BY <1>3 DEF MarkPostStarted
  <2>2. CASE ~MayMark(k)
    <3>1. posted' = posted /\ pc'[w] = "handle"
      BY <1>3, <2>2 DEF MarkPostStarted, GotoWith, IInv, TypeOK
    <3>2. WorkerFine(w)'
      BY <1>1, <1>2, <3>1 DEF WorkerFine, OnItem, Reserving
    <3> QED
      BY <1>0, <1>2, <2>1, <3>1, <3>2, SameItems, Quiet
  <2>3. CASE MayMark(k)
    <3>1. posted' = [posted EXCEPT ![k] = TRUE] /\ pc'[w] \in {"post", "handle"}
      BY <1>3, <2>3 DEF MarkPostStarted, GotoWith, IInv, TypeOK
    <3>2. item[k] = "PROCESSING" /\ ~posted[k] /\ posts[k] = 0 /\ shop[k] = "absent"
      BY <1>1, <2>1, <2>3 DEF MayMark, WorkerFine, KeyFine, IInv, TypeOK
    <3>3. posted'[k] /\ \A i \in Keys \ {k} : posted'[i] = posted[i]
      BY <1>1, <3>1 DEF IInv, TypeOK
    <3>4. \A v \in Workers \ {w} : pc[v] = "post" => wk[v].key # k
      BY <3>2, Fine DEF AllFine, WorkerFine
    <3>5. \A v \in Workers \ {w} : Harmless(v)
      BY <1>2, <2>1, <3>2, <3>3 DEF Harmless
    <3>6. WorkerFine(w)'
      BY <1>1, <1>2, <2>1, <3>1, <3>2, <3>3, <3>4 DEF WorkerFine, OnItem, Reserving
    <3>7. \A i \in Keys : KeyFine(i)' /\ ItemFine(i)'
      BY <1>0, <2>1, <3>2, <3>3, Fine DEF AllFine, KeyFine, ItemFine
    <3> QED
      BY <3>5, <3>6, <3>7, Combine
  <2> QED
    BY <2>2, <2>3
<1>4. CASE PostProduct(w)
  <2>1. /\ UNCHANGED <<posted, link, holder>> /\ pc[w] = "post"
        /\ posts' = [posts EXCEPT ![k] = IF @ = 0 THEN 1 ELSE 2]
    BY <1>4 DEF PostProduct
  <2>2. posted[k] /\ posts[k] = 0 /\ shop[k] = "absent" /\ link[k] \in {"PENDING", "COMPLETED"}
    BY <1>1, <2>1 DEF WorkerFine, Reserving
  <2>3. posts'[k] = 1 /\ \A i \in Keys \ {k} : posts'[i] = posts[i]
    BY <1>1, <2>1, <2>2 DEF IInv, TypeOK
  <2>4. /\ \A i \in Keys \ {k} : shop'[i] = shop[i] /\ inflight'[i] = inflight[i]
        /\ \/ shop'[k] = "created" /\ pc'[w] = "link"
           \/ shop'[k] = "absent" /\ pc'[w] = "defer"
    BY <1>1, <1>4, <2>2 DEF PostProduct, Goto, IInv, TypeOK
  <2>5. \A v \in Workers \ {w} : Harmless(v)
    BY <1>2, <2>1, <2>2, <2>3, <2>4 DEF Harmless
  <2>6. WorkerFine(w)'
    BY <1>1, <1>2, <2>1, <2>2, <2>4 DEF WorkerFine, OnItem, Reserving
  <2>7. \A i \in Keys : KeyFine(i)'
    BY <2>1, <2>2, <2>3, <2>4, Fine DEF AllFine, KeyFine
  <2>8. \A i \in Keys : ItemFine(i)'
    BY <1>0, <2>1, <2>2, <2>4, SameItems
  <2> QED
    BY <2>5, <2>6, <2>7, <2>8, Combine
<1>5. CASE CompleteLink(w)
  <2>1. UNCHANGED <<posted, shop, inflight, posts>> /\ pc[w] = "link"
    BY <1>5 DEF CompleteLink
  <2>2. shop[k] \in {"created", "indexed"}
    BY <1>1, <2>1 DEF WorkerFine
  <2>3. /\ \A i \in Keys \ {k} : link'[i] = link[i] /\ holder'[i] = holder[i]
        /\ link'[k] = "COMPLETED"
    BY <1>1, <1>5, <2>1 DEF CompleteLink, WorkerFine, Reserving, IInv, TypeOK
  <2>4. pc'[w] \in {"finish", "defer"}
    BY <1>5 DEF CompleteLink, Goto, GotoWith, IInv, TypeOK
  <2>5. \A v \in Workers \ {w} : Harmless(v)
    BY <1>2, <2>1, <2>3, <2>4 DEF Harmless
  <2>6. WorkerFine(w)'
    BY <1>1, <1>2, <2>3, <2>4 DEF WorkerFine, OnItem, Reserving
  <2>7. \A i \in Keys : KeyFine(i)'
    BY <2>1, <2>2, <2>3, Fine DEF AllFine, KeyFine
  <2>8. \A i \in Keys : ItemFine(i)'
    BY <1>0, <2>1, <2>3, SameItems
  <2> QED
    BY <2>5, <2>6, <2>7, <2>8, Combine
<1> QED
  BY <1>3, <1>4, <1>5

\* The reconciliation of a posted item.
LEMMA SafeReconcile ==
    ASSUME IInv, TypeOK', NEW w \in Workers,
           ReadLink(w) \/ Confirm(w) \/ ReconcileError(w)
    PROVE  IInv'
<1> USE DEF jobVars, itemVars, linkVars, shopVars
<1> DEFINE k == wk[w].key
<1>0. /\ pc[w] \in {"reconcile", "confirm"}
      /\ UNCHANGED <<item, posted, shop, inflight, posts>>
  BY DEF ReadLink, Confirm, ReconcileError
<1>1. k \in Keys /\ WorkerFine(w) /\ KeyFine(k)
  BY <1>0, Fine DEF AllFine, WorkerFine, OnItem
<1>2. /\ \A v \in Workers \ {w} : pc'[v] = pc[v] /\ wk'[v] = wk[v]
      /\ wk'[w].key = k
      /\ pc'[w] \in {"finish", "confirm", "defer"}
  <2>0. /\ [wk[w] EXCEPT !.verdict = "ALREADY_EXISTS", !.sent = TRUE].key = k
        /\ [wk[w] EXCEPT !.verdict = "CREATED", !.sent = TRUE].key = k
    BY DEF IInv, TypeOK, Local
  <2>1. CASE ReadLink(w)
    <3>1. \/ GotoWith(w, "finish", [wk[w] EXCEPT !.verdict = "ALREADY_EXISTS", !.sent = TRUE])
          \/ Goto(w, "confirm")
          \/ Goto(w, "defer")
      BY <2>1 DEF ReadLink
    <3> QED
      BY <2>0, <3>1 DEF Goto, GotoWith, IInv, TypeOK
  <2>2. CASE Confirm(w)
    <3>1. \/ GotoWith(w, "finish", [wk[w] EXCEPT !.verdict = "CREATED", !.sent = TRUE])
          \/ Goto(w, "defer")
      BY <2>2 DEF Confirm
    <3> QED
      BY <2>0, <3>1 DEF Goto, GotoWith, IInv, TypeOK
  <2>3. CASE ReconcileError(w)
    BY <2>3 DEF ReconcileError, Goto, IInv, TypeOK
  <2> QED
    BY <2>1, <2>2, <2>3
<1>3. CASE UNCHANGED <<link, holder>>
  <2>1. pc'[w] = "finish" => link[k] = "COMPLETED"
    BY <1>1, <1>3 DEF ReadLink, Confirm, ReconcileError, Goto, GotoWith, IInv, TypeOK
  <2>2. WorkerFine(w)'
    BY <1>0, <1>1, <1>2, <1>3, <2>1 DEF WorkerFine, OnItem, Reserving
  <2>3. \A i \in Keys : ItemFine(i)'
    BY <1>0, <1>3, SameItems
  <2> QED
    BY <1>0, <1>2, <1>3, <2>2, <2>3, Quiet
<1>4. CASE ~UNCHANGED <<link, holder>>
  <2>1. /\ shop[k] \in {"foreign", "indexed"} /\ pc[w] = "confirm"
        /\ link' = [link EXCEPT ![k] = "COMPLETED"]
        /\ holder' = [holder EXCEPT ![k] = NoWorker]
        /\ pc'[w] \in {"finish", "defer"}
    BY <1>4 DEF ReadLink, Confirm, ReconcileError, Goto, GotoWith, IInv, TypeOK
  <2>2. shop[k] = "indexed"
    BY <1>1, <2>1 DEF WorkerFine, KeyFine
  <2>3. /\ \A i \in Keys \ {k} : link'[i] = link[i] /\ holder'[i] = holder[i]
        /\ link'[k] = "COMPLETED"
    BY <1>1, <2>1 DEF IInv, TypeOK
  <2>4. \A v \in Workers \ {w} : Harmless(v)
    BY <1>0, <1>2, <2>1, <2>3 DEF Harmless
  <2>5. WorkerFine(w)'
    BY <1>1, <1>2, <2>1, <2>3 DEF WorkerFine, OnItem, Reserving
  <2>6. \A i \in Keys : KeyFine(i)'
    BY <1>0, <2>2, <2>3, Fine DEF AllFine, KeyFine
  <2>7. \A i \in Keys : ItemFine(i)'
    BY <1>0, <2>1, <2>3, SameItems
  <2> QED
    BY <2>4, <2>5, <2>6, <2>7, Combine
<1> QED
  BY <1>3, <1>4

\* How the work on an item ends: with the invocation, with a finish that begins,
\* or with what follows one.
LEMMA Endings ==
    ASSUME IInv, NEW w \in Workers,
           \/ Finish(w) \/ Commit(w) \/ PauseSingle(w) \/ HandleReject(w)
           \/ HandlePause(w) \/ HandleRetry(w) \/ Defer(w)
    PROVE  \/ \E b : Return(w, b)
           \/ Begin(w) /\ pc[w] \in {"finish", "handle"} /\ item[wk[w].key] = "PROCESSING"
                /\ wk[w].key \notin Locked /\ UNCHANGED <<jobVars, itemVars>>
                /\ (pc[w] = "handle" => Decide(wk[w].verdict, wk[w].cyc) = "REJECT")
           \/ /\ UNCHANGED <<link, holder>> /\ pc[w] \in {"finish", "commit"}
              /\ \E verdict : \E stage \in {"pauseSingle", "defer", "handle"} :
                   GotoWith(w, stage, [wk[w] EXCEPT !.verdict = verdict, !.tally = NoTally])
<1>1. [wk[w] EXCEPT !.tally = NoTally] = [wk[w] EXCEPT !.verdict = wk[w].verdict, !.tally = NoTally]
  BY DEF IInv, TypeOK, Local
<1> QED
  BY <1>1 DEF Finish, Commit, PauseSingle, HandleReject, HandlePause, HandleRetry, Defer,
              AfterTerminal, FinishFails, Throw, linkVars, itemVars

\* The verdicts, retries and waits at the end of an item.
LEMMA SafeEnd ==
    ASSUME IInv, TypeOK', NEW w \in Workers,
           \/ Finish(w) \/ Commit(w) \/ PauseSingle(w) \/ HandleReject(w)
           \/ HandlePause(w) \/ HandleRetry(w) \/ Defer(w)
    PROVE  IInv'
<1> USE DEF jobVars, itemVars, linkVars, shopVars
<1> DEFINE k == wk[w].key
<1>0. UNCHANGED <<posted, shop, inflight, posts>>
  BY DEF Finish, Commit, PauseSingle, HandleReject, HandlePause, HandleRetry, Defer
<1>1. \/ \E b : Return(w, b)
      \/ Begin(w) /\ pc[w] \in {"finish", "handle"}
           /\ (pc[w] = "handle" => Decide(wk[w].verdict, wk[w].cyc) = "REJECT")
      \/ /\ UNCHANGED <<link, holder>> /\ pc[w] \in {"finish", "commit"}
         /\ \E verdict : \E stage \in {"pauseSingle", "defer", "handle"} :
              GotoWith(w, stage, [wk[w] EXCEPT !.verdict = verdict, !.tally = NoTally])
  BY Endings
<1>2. /\ \A v \in Workers \ {w} : pc'[v] = pc[v] /\ wk'[v] = wk[v]
      /\ \A i \in Keys : link'[i] = link[i]
      /\ \A v \in Workers \ {w}, i \in Keys : holder[i] = v => holder'[i] = v
      /\ pc'[w] # "post" /\ WorkerFine(w)'
  <2>1. CASE \E b : Return(w, b)
    BY <2>1, Ended
  <2>2. CASE Begin(w) /\ pc[w] \in {"finish", "handle"}
               /\ (pc[w] = "handle" => Decide(wk[w].verdict, wk[w].cyc) = "REJECT")
    <3>1. k \in Keys /\ WorkerFine(w)
      BY <2>2, Fine DEF AllFine, WorkerFine, OnItem
    <3>2. /\ \A v \in Workers \ {w} : pc'[v] = pc[v] /\ wk'[v] = wk[v]
          /\ pc'[w] = "commit" /\ wk'[w].key = k /\ wk'[w].verdict = wk[w].verdict
          /\ UNCHANGED <<link, holder>>
      BY <2>2 DEF Begin, GotoWith, IInv, TypeOK, Local
    <3>3. pc[w] = "handle" => Result(w) = "REJECTED"
      BY <2>2 DEF Decide, Result, AllErrors
    <3>4. Result(w)' = Result(w)
      BY <3>2 DEF Result
    <3> QED
      BY <2>2, <3>1, <3>2, <3>3, <3>4 DEF WorkerFine, OnItem, Reserving
  <2>3. CASE UNCHANGED <<link, holder>> /\ pc[w] \in {"finish", "commit"} /\
               \E verdict : \E stage \in {"pauseSingle", "defer", "handle"} :
                 GotoWith(w, stage, [wk[w] EXCEPT !.verdict = verdict, !.tally = NoTally])
    <3>1. k \in Keys
      BY <2>3, Fine DEF AllFine, WorkerFine, OnItem
    <3>2. /\ \A v \in Workers \ {w} : pc'[v] = pc[v] /\ wk'[v] = wk[v]
          /\ pc'[w] \in {"pauseSingle", "defer", "handle"} /\ wk'[w].key = k
      BY <2>3 DEF GotoWith, IInv, TypeOK, Local
    <3> QED
      BY <2>3, <3>1, <3>2 DEF WorkerFine, OnItem, Reserving
  <2> QED
    BY <1>1, <2>1, <2>2, <2>3
<1>3. link' = link
  BY <1>1, Ended DEF Begin
<1>4. \A i \in Keys : ItemFine(i)'
  <2>1. CASE item' = item
    BY <1>0, <1>2, <2>1, SameItems
  <2>2. CASE item' # item
    <3>1. \/ /\ item[k] = "PROCESSING"
             /\ \/ item' = [item EXCEPT ![k] = "PENDING"] /\ ~posted[k]
                \/ item' = [item EXCEPT ![k] = "RECONCILING"] /\ posted[k]
          \/ pc[w] = "commit" /\ item' = [item EXCEPT ![k] = Result(w)]
      BY <2>2 DEF Finish, Commit, PauseSingle, HandleReject, HandlePause, HandleRetry, Defer,
                  FinishItem
    <3>2. pc[w] = "commit" /\ Result(w) # "REJECTED" =>
             link[k] = "COMPLETED" /\ shop[k] \in {"created", "indexed"}
      BY Fine DEF AllFine, WorkerFine, KeyFine, OnItem
    <3>3. Result(w) \in {"APPROVED", "REJECTED"}
      BY DEF Result
    <3> QED
      BY <1>0, <1>2, <3>1, <3>2, <3>3, Fine DEF AllFine, ItemFine, TypeOK
  <2> QED
    BY <2>1, <2>2
<1> QED
  BY <1>0, <1>2, <1>3, <1>4, Quiet

\* Every step preserves the inductive invariant.
LEMMA SafeStep == IInv /\ [Next]_vars => IInv'
<1> SUFFICES ASSUME IInv, [Next]_vars PROVE IInv'
  OBVIOUS
<1>1. TypeOK'
  BY TypeStep DEF IInv
<1>2. CASE \/ StartNewJob \/ StartAgain \/ Resume \/ LeaseExpires \/ RunDue
           \/ \E k \in Keys : LatePost(k) \/ ShopIndexes(k)
           \/ UNCHANGED vars
  BY <1>1, <1>2, SafeOutside
<1>3. ASSUME NEW w \in Workers, Observe(w) \/ Work(w) \/ Crash(w) \/ Redeliver(w) PROVE IInv'
  BY <1>1, <1>3, SafeDelivery, SafeClaim, SafePrepare, SafeCreate, SafeReconcile, SafeEnd DEF Work
<1> QED
  BY <1>2, <1>3 DEF Next

\* IInv: the inductive invariant holds in every reachable state.
THEOREM Invariance == Spec => []IInv
BY SafeInit, SafeStep, PTL DEF Spec

\* AtMostOnePost: for any number of invocations, resumes, crashes, lost answers
\* and duplicate deliveries, a source key is sent to POST /products at most once.
THEOREM PostedOnce == Spec => []AtMostOnePost
<1>1. IInv => AtMostOnePost
  BY DEF IInv
<1> QED
  BY <1>1, Invariance, PTL

\* PostedKeepsReservation: a source key that may have been sent stays reserved.
THEOREM StaysReserved == Spec => []PostedKeepsReservation
<1>1. IInv => PostedKeepsReservation
  BY DEF IInv
<1> QED
  BY <1>1, Invariance, PTL

\* ForeignNeverPosted: a product of the seller's own is never duplicated.
THEOREM ForeignIsLeft == Spec => []ForeignNeverPosted
<1>1. IInv => ForeignNeverPosted
  BY Fine DEF AllFine, KeyFine, ForeignNeverPosted, TypeOK
<1> QED
  BY <1>1, Invariance, PTL

\* ApprovedIsPublished: an approved item has its link and its product.
THEOREM ApprovalIsSound == Spec => []ApprovedIsPublished
<1>1. IInv => ApprovedIsPublished
  BY DEF IInv
<1> QED
  BY <1>1, Invariance, PTL

\* PostLifecycle: the check constraint of the items table is never violated.
THEOREM LifecycleHolds == Spec => []PostLifecycle
<1>1. IInv => PostLifecycle
  BY DEF IInv, MarkedByStatus, PostLifecycle
<1> QED
  BY <1>1, Invariance, PTL
=============================================================================

-------------------- MODULE TiendanubeMigrationPromises --------------------
(***************************************************************************)
(* What the migration promises: verdicts are final, the job row overstates   *)
(* nothing and the migration implements PublishOnce, under every fault.      *)
(* While no invocation outlives its lease (Discipline) at most one is at     *)
(* work, the counters are those of the items, a posted item is never         *)
(* rejected, a resume revokes the right to create and a completed job stays  *)
(* so; a catalogue whose pages are not lost is read to its end (Scanning).   *)
(***************************************************************************)
EXTENDS TiendanubeMigrationProofs

-----------------------------------------------------------------------------
(* A finish has its item to itself *)

\* What w does when it begins to finish an item.
Begins(w) == /\ Begin(w) /\ pc[w] \in {"finish", "handle"} /\ UNCHANGED <<jobVars, itemVars>>
             /\ item[wk[w].key] = "PROCESSING" /\ wk[w].key \notin Locked

\* A step of an invocation ends it, moves it to a stage that finishes nothing, or
\* begins a finish.
LEMMA WorkMoves ==
    ASSUME IInv, NEW w \in Workers, Work(w)
    PROVE  \/ \E b : Return(w, b)
           \/ \E stage : stage # "commit" /\ (Goto(w, stage) \/ \E local : GotoWith(w, stage, local))
           \/ Begins(w)
<1>1. CASE \/ ClaimJob(w) \/ ClaimDenied(w) \/ Reread(w) \/ PickNothing(w) \/ DiscoverPage(w)
           \/ DiscoveryFails(w)
  BY <1>1 DEF ClaimJob, ClaimDenied, Reread, PickNothing, DiscoverPage, DiscoveryFails
<1>2. CASE PickItem(w)
  <2>1. \E stage \in {"reconcile", "prepare"} : \E local : GotoWith(w, stage, local)
    BY <1>2 DEF PickItem
  <2> QED
    BY <2>1
<1>3. CASE PrePostError(w) \/ Reserve(w) \/ MatchSku(w)
  BY <1>3 DEF PrePostError, Reserve, MatchSku
<1>4. CASE MarkPostStarted(w) \/ PostProduct(w) \/ CompleteLink(w)
  BY <1>4 DEF MarkPostStarted, PostProduct, CompleteLink
<1>5. CASE ReadLink(w) \/ Confirm(w) \/ ReconcileError(w)
  BY <1>5 DEF ReadLink, Confirm, ReconcileError
<1>6. CASE \/ Finish(w) \/ Commit(w) \/ PauseSingle(w) \/ HandleReject(w)
           \/ HandlePause(w) \/ HandleRetry(w) \/ Defer(w)
  BY <1>6, Endings DEF Begins
<1> QED
  BY <1>1, <1>2, <1>3, <1>4, <1>5, <1>6 DEF Work

\* A finish that is under way was so before, or begins.
LEMMA CommitMoves ==
    ASSUME IInv, [Next]_vars
    PROVE  \A v \in Workers : pc'[v] = "commit" =>
             \/ pc[v] = "commit" /\ wk'[v] = wk[v]
             \/ Begins(v) /\ \A u \in Workers \ {v} : pc'[u] = pc[u] /\ wk'[u] = wk[u]
<1> USE DEF jobVars, itemVars, linkVars, shopVars, workerVars
<1>1. CASE UNCHANGED <<pc, wk>>
  BY <1>1
<1>2. CASE \/ StartNewJob \/ StartAgain \/ Resume \/ LeaseExpires \/ RunDue \/ UNCHANGED vars
           \/ \E k \in Keys : LatePost(k) \/ ShopIndexes(k)
  BY <1>1, <1>2 DEF StartNewJob, StartAgain, Resume, LeaseExpires, RunDue, LatePost, ShopIndexes, vars
<1>3. ASSUME NEW w \in Workers, Observe(w) \/ Redeliver(w) \/ Crash(w) \/ Work(w),
             NEW v \in Workers, pc'[v] = "commit"
      PROVE  \/ pc[v] = "commit" /\ wk'[v] = wk[v]
             \/ Begins(v) /\ \A u \in Workers \ {v} : pc'[u] = pc[u] /\ wk'[u] = wk[u]
  <2>1. CASE Redeliver(w)
    BY <1>1, <1>3, <2>1 DEF Redeliver
  <2>2. CASE Observe(w)
    BY <1>3, <2>2 DEF Observe, IInv, TypeOK
  <2>3. CASE \E b : Return(w, b)
    BY <1>3, <2>3, Ended
  <2>4. CASE \E stage : stage # "commit" /\ (Goto(w, stage) \/ \E local : GotoWith(w, stage, local))
    BY <1>3, <2>4, Moved
  <2>5. CASE Begins(w)
    <3>1. \A u \in Workers \ {w} : pc'[u] = pc[u] /\ wk'[u] = wk[u]
      BY <2>5 DEF Begins, Begin, GotoWith, IInv, TypeOK
    <3> QED
      BY <1>3, <2>5, <3>1
  <2> QED
    BY <1>3, <2>1, <2>2, <2>3, <2>4, <2>5, WorkMoves DEF Crash, Throw
<1> QED
  BY <1>2, <1>3 DEF Next

\* A page of the scan makes items only of source keys that are none.
LEMMA PageItems ==
    ASSUME IInv, NEW w \in Workers, DiscoverPage(w)
    PROVE  \E new \in SUBSET (Keys \ Items) :
             item' = [k \in Keys |-> IF k \in new THEN "PENDING" ELSE item[k]]
<1>1. PICK left \in Ahead(wk[w].rest) : \E page \in SUBSET left, finished \in BOOLEAN :
        \E kept \in SUBSET page : RecordPage(kept, left \ page, finished)
  BY DEF DiscoverPage
<1>2. PICK page \in SUBSET left, finished \in BOOLEAN :
        \E kept \in SUBSET page : RecordPage(kept, left \ page, finished)
  BY <1>1
<1>3. PICK kept \in SUBSET page : RecordPage(kept, left \ page, finished)
  BY <1>2
<1>4. left \in SUBSET Keys
  BY DEF IInv, TypeOK, Local, Ahead
<1> QED
  BY <1>3, <1>4 DEF RecordPage

\* A step leaves the items of the finishes under way alone, but for their own end.
LEMMA LockedStays ==
    ASSUME IInv, FinishesAlone, [Next]_vars,
           NEW v \in Workers, pc[v] = "commit", pc'[v] = "commit"
    PROVE  item'[wk[v].key] = item[wk[v].key]
<1> USE DEF jobVars, itemVars, linkVars, shopVars, workerVars
<1> DEFINE k == wk[v].key
<1>0. k \in Locked /\ k \in Keys /\ item[k] = "PROCESSING"
  BY Fine DEF AllFine, WorkerFine, OnItem, FinishesAlone, Locked
<1>1. CASE \/ StartNewJob \/ StartAgain \/ LeaseExpires \/ RunDue \/ UNCHANGED vars
           \/ \E i \in Keys : LatePost(i) \/ ShopIndexes(i)
  BY <1>1 DEF StartNewJob, StartAgain, LeaseExpires, RunDue, LatePost, ShopIndexes, vars
<1>2. CASE Resume \/ \E w \in Workers : ClaimJob(w)
  BY <1>0, <1>2 DEF Resume, ClaimJob
<1>3. ASSUME NEW w \in Workers, Observe(w) \/ Crash(w) \/ Redeliver(w) PROVE item' = item
  BY <1>3 DEF Observe, Crash, Redeliver
<1>4. ASSUME NEW w \in Workers,
             \/ ClaimDenied(w) \/ Reread(w) \/ PickNothing(w) \/ DiscoveryFails(w)
             \/ PrePostError(w) \/ Reserve(w) \/ MatchSku(w) \/ MarkPostStarted(w)
             \/ PostProduct(w) \/ CompleteLink(w) \/ ReadLink(w) \/ Confirm(w)
             \/ ReconcileError(w) \/ Finish(w) \/ PauseSingle(w) \/ HandleReject(w) \/ HandlePause(w)
      PROVE  item' = item
  BY <1>4 DEF ClaimDenied, Reread, PickNothing, DiscoveryFails, PrePostError, Reserve,
              MatchSku, MarkPostStarted, PostProduct, CompleteLink, ReadLink, Confirm,
              ReconcileError, Finish, PauseSingle, HandleReject, HandlePause
<1>5. ASSUME NEW w \in Workers, PickItem(w) PROVE item'[k] = item[k]
  <2>1. PICK i \in Offered : item' = [item EXCEPT ![i] = "PROCESSING"]
    BY <1>5 DEF PickItem
  <2> QED
    BY <1>0, <2>1 DEF Offered, InState, IInv, TypeOK
<1>6. ASSUME NEW w \in Workers, DiscoverPage(w) PROVE item'[k] = item[k]
  <2>1. PICK new \in SUBSET (Keys \ Items) :
          item' = [i \in Keys |-> IF i \in new THEN "PENDING" ELSE item[i]]
    BY <1>6, PageItems
  <2> QED
    BY <1>0, <2>1 DEF Items
<1>7. ASSUME NEW w \in Workers, HandleRetry(w) \/ Defer(w) PROVE item'[k] = item[k]
  BY <1>0, <1>7 DEF HandleRetry, Defer, IInv, TypeOK
<1>8. ASSUME NEW w \in Workers, Commit(w) PROVE item'[k] = item[k]
  <2>1. pc'[w] # "commit" \/ w # v
    <3>1. CASE \E b : Return(w, b)
      BY <3>1, Ended
    <3>2. CASE \E stage \in {"pauseSingle", "defer", "handle"} : \E local : GotoWith(w, stage, local)
      BY <3>2, Moved
    <3> QED
      BY <1>8, <3>1, <3>2 DEF Commit, AfterTerminal, FinishFails, Throw
  <2>2. wk[w].key # k
    BY <1>8, <2>1 DEF Commit, FinishesAlone
  <2> QED
    BY <1>0, <1>8, <2>2 DEF Commit, FinishItem, IInv, TypeOK
<1> QED
  BY <1>1, <1>2, <1>3, <1>4, <1>5, <1>6, <1>7, <1>8 DEF Next, Work

\* FinishesAlone: from its count to its commit a finish has the item, being
\* processed, to itself.
THEOREM FinishAlone == Spec => []FinishesAlone
<1>1. Init => FinishesAlone
  BY DEF Init, FinishesAlone
<1>2. IInv /\ FinishesAlone /\ [Next]_vars => FinishesAlone'
  <2> SUFFICES ASSUME IInv, FinishesAlone, [Next]_vars PROVE FinishesAlone'
    OBVIOUS
  <2>1. ASSUME NEW v \in Workers, Begins(v)
        PROVE  /\ wk'[v].key = wk[v].key /\ item' = item /\ item[wk[v].key] = "PROCESSING"
               /\ \A u \in Workers : pc[u] = "commit" => wk[u].key # wk[v].key
    BY <2>1 DEF Begins, Begin, GotoWith, Locked, IInv, TypeOK, Local, itemVars
  <2>2. ASSUME NEW v \in Workers, pc'[v] = "commit" PROVE item'[wk'[v].key] = "PROCESSING"
    <3>1. CASE pc[v] = "commit" /\ wk'[v] = wk[v]
      BY <2>2, <3>1, LockedStays DEF FinishesAlone
    <3>2. CASE Begins(v)
      BY <2>1, <3>2
    <3> QED
      BY <2>2, <3>1, <3>2, CommitMoves
  <2>3. ASSUME NEW v \in Workers, NEW u \in Workers, pc'[v] = "commit", pc'[u] = "commit",
               wk'[v].key = wk'[u].key
        PROVE  v = u
    <3>1. CASE pc[v] = "commit" /\ wk'[v] = wk[v] /\ pc[u] = "commit" /\ wk'[u] = wk[u]
      BY <2>3, <3>1 DEF FinishesAlone
    <3>2. ASSUME NEW x \in Workers, NEW y \in Workers, pc'[y] = "commit", wk'[x].key = wk'[y].key,
                 Begins(x), \A z \in Workers \ {x} : pc'[z] = pc[z] /\ wk'[z] = wk[z]
          PROVE  x = y
      BY <2>1, <3>2
    <3> QED
      BY <2>3, <3>1, <3>2, CommitMoves
  <2> QED
    BY <2>2, <2>3 DEF FinishesAlone
<1> QED
  BY <1>1, <1>2, Invariance, PTL DEF Spec

-----------------------------------------------------------------------------
(* Verdicts *)

\* A step in which no item gets or loses a verdict.
NoVerdict == \A k \in Keys : item[k] \in Terminal \/ item'[k] \in Terminal => item'[k] = item[k]

\* A step in which one item that is being processed gets its verdict.
GivesVerdict(k, result) ==
    /\ k \in Keys /\ item[k] = "PROCESSING" /\ result \in Terminal
    /\ item' = [item EXCEPT ![k] = result]
    /\ UNCHANGED <<link, shop, posts>>
    /\ result = "APPROVED" => link[k] = "COMPLETED"

\* The recovery of interrupted items gives no verdict and takes none back.
LEMMA RecoveryIsNoVerdict ==
    ASSUME IInv, RecoverItems
    PROVE  NoVerdict
BY DEF RecoverItems, Recovered, NoVerdict, Terminal, IInv, TypeOK

\* Nor does the change of an item without a verdict to another such status.
LEMMA MoveIsNoVerdict ==
    ASSUME IInv, NEW k \in Keys, item[k] \notin Terminal, NEW s \in ItemStatus \ Terminal,
           item' = [item EXCEPT ![k] = s]
    PROVE  NoVerdict
BY DEF NoVerdict, Terminal, ItemStatus, IInv, TypeOK

\* Every step of the migration is one or the other.
LEMMA VerdictStep ==
    ASSUME IInv, FinishesAlone, [Next]_vars
    PROVE  \/ NoVerdict
           \/ \E k \in Keys, result \in Terminal : GivesVerdict(k, result)
<1> USE DEF jobVars, itemVars, linkVars, shopVars, workerVars
<1>1. ASSUME item' = item PROVE NoVerdict
  BY <1>1 DEF NoVerdict
<1>2. CASE \/ StartNewJob \/ StartAgain \/ LeaseExpires \/ RunDue \/ UNCHANGED vars
           \/ \E k \in Keys : LatePost(k) \/ ShopIndexes(k)
  BY <1>1, <1>2 DEF StartNewJob, StartAgain, LeaseExpires, RunDue, LatePost, ShopIndexes, vars
<1>3. CASE Resume
  BY <1>3, RecoveryIsNoVerdict DEF Resume
<1>4. ASSUME NEW w \in Workers, Observe(w) \/ Crash(w) \/ Redeliver(w) PROVE NoVerdict
  BY <1>1, <1>4 DEF Observe, Crash, Redeliver
<1>5. ASSUME NEW w \in Workers,
             \/ ClaimDenied(w) \/ Reread(w) \/ PickNothing(w) \/ DiscoveryFails(w)
             \/ PrePostError(w) \/ Reserve(w) \/ MatchSku(w) \/ MarkPostStarted(w)
             \/ PostProduct(w) \/ CompleteLink(w) \/ ReadLink(w) \/ Confirm(w)
             \/ ReconcileError(w) \/ Finish(w) \/ PauseSingle(w) \/ HandleReject(w) \/ HandlePause(w)
      PROVE  NoVerdict
  BY <1>1, <1>5 DEF ClaimDenied, Reread, PickNothing, DiscoveryFails, PrePostError, Reserve,
                    MatchSku, MarkPostStarted, PostProduct, CompleteLink, ReadLink, Confirm,
                    ReconcileError, Finish, PauseSingle, HandleReject, HandlePause
<1>6. ASSUME NEW w \in Workers, ClaimJob(w) PROVE NoVerdict
  BY <1>6, RecoveryIsNoVerdict DEF ClaimJob
<1>7. ASSUME NEW w \in Workers, PickItem(w) PROVE NoVerdict
  <2>1. PICK k \in Offered : item' = [item EXCEPT ![k] = "PROCESSING"]
    BY <1>7 DEF PickItem
  <2>2. k \in Keys /\ item[k] \notin Terminal
    BY DEF Offered, InState, Terminal
  <2> QED
    BY <2>1, <2>2, MoveIsNoVerdict DEF ItemStatus, Terminal
<1>8. ASSUME NEW w \in Workers, DiscoverPage(w) PROVE NoVerdict
  <2>1. PICK new \in SUBSET (Keys \ Items) :
          item' = [k \in Keys |-> IF k \in new THEN "PENDING" ELSE item[k]]
    BY <1>8, PageItems
  <2> QED
    BY <2>1 DEF NoVerdict, Items, Terminal
<1>9. ASSUME NEW w \in Workers, HandleRetry(w) \/ Defer(w) PROVE NoVerdict
  <2> DEFINE k == wk[w].key
  <2>1. k \in Keys
    BY <1>9, Fine DEF AllFine, WorkerFine, OnItem, HandleRetry, Defer
  <2>2. \/ item' = item
        \/ item[k] = "PROCESSING" /\ \E s \in {"PENDING", "RECONCILING"} :
             item' = [item EXCEPT ![k] = s]
    BY <1>9 DEF HandleRetry, Defer
  <2> QED
    BY <1>1, <2>1, <2>2, MoveIsNoVerdict DEF ItemStatus, Terminal
<1>10. ASSUME NEW w \in Workers, Commit(w)
       PROVE  NoVerdict \/ \E k \in Keys, result \in Terminal : GivesVerdict(k, result)
  <2> DEFINE k == wk[w].key
  <2>1. k \in Keys /\ WorkerFine(w) /\ pc[w] = "commit" /\ item[k] = "PROCESSING"
    BY <1>10, Fine DEF AllFine, WorkerFine, OnItem, Commit, FinishesAlone
  <2>2. link' = link
    <3>1. CASE \E b : Return(w, b)
      BY <3>1, Ended
    <3> QED
      BY <1>10, <3>1, Endings DEF Begin
  <2>3. UNCHANGED <<shop, posts>>
    BY <1>10 DEF Commit
  <2>4. Result(w) \in Terminal /\ (Result(w) = "APPROVED" => link[k] = "COMPLETED")
    BY <2>1 DEF WorkerFine, Result, Terminal
  <2>5. item' = item \/ item' = [item EXCEPT ![k] = Result(w)]
    BY <1>10 DEF Commit, FinishItem
  <2>6. CASE item' = [item EXCEPT ![k] = Result(w)]
    <3>1. GivesVerdict(k, Result(w))
      BY <2>1, <2>2, <2>3, <2>4, <2>6 DEF GivesVerdict
    <3> QED
      BY <2>1, <2>4, <3>1
  <2> QED
    BY <1>1, <2>5, <2>6
<1> QED
  BY <1>2, <1>3, <1>4, <1>5, <1>6, <1>7, <1>8, <1>9, <1>10 DEF Next, Work

\* VerdictIsFinal: whatever worker comes late, and with whatever message, an
\* approved or rejected item keeps its verdict.
THEOREM VerdictsStand == Spec => VerdictIsFinal
<1>1. IInv /\ FinishesAlone /\ [Next]_vars =>
        [\A k \in Keys : item[k] \in Terminal => item'[k] = item[k]]_vars
  <2> SUFFICES ASSUME IInv, FinishesAlone, [Next]_vars, NEW k \in Keys, item[k] \in Terminal
               PROVE  item'[k] = item[k]
    OBVIOUS
  <2>1. CASE NoVerdict
    BY <2>1 DEF NoVerdict
  <2>2. CASE \E i \in Keys, result \in Terminal : GivesVerdict(i, result)
    BY <2>2 DEF GivesVerdict, Terminal, IInv, TypeOK
  <2> QED
    BY <2>1, <2>2, VerdictStep
<1> QED
  BY <1>1, Invariance, FinishAlone, PTL DEF Spec, VerdictIsFinal

-----------------------------------------------------------------------------
(* The refinement of PublishOnce *)

Own == {"created", "indexed"}

\* Source keys that a step leaves as they are in the store, and in their links.
SameSent(K) == \A i \in K : posts'[i] > 0 <=> posts[i] > 0
SameMade(K) == \A i \in K : shop'[i] \in Own <=> shop[i] \in Own
SameLinked(K) == \A i \in K : link'[i] = "COMPLETED" <=> link[i] = "COMPLETED"

\* Without a verdict, the approved and the rejected stay the same.
LEMMA SameVerdicts ==
    ASSUME NoVerdict
    PROVE  InState("APPROVED")' = InState("APPROVED") /\ InState("REJECTED")' = InState("REJECTED")
BY DEF NoVerdict, InState, Terminal

\* A step that touches neither is a stuttering step of PublishOnce.
LEMMA StuttersWhen ==
    ASSUME NoVerdict, SameSent(Keys), SameMade(Keys), SameLinked(Keys)
    PROVE  UNCHANGED Publishing!vars
BY SameVerdicts DEF SameSent, SameMade, SameLinked, Own, Publishing!vars

\* A POST that leaves for a source key without a product is a Send.
LEMMA SendsWhen ==
    ASSUME NoVerdict, NEW k \in Keys,
           ~(posts[k] > 0), posts'[k] > 0, shop[k] \notin Own,
           SameSent(Keys \ {k}), SameMade(Keys \ {k}), SameLinked(Keys)
    PROVE  Publishing!Send(k)
<1>1. {i \in Keys : posts'[i] > 0} = {i \in Keys : posts[i] > 0} \cup {k}
  BY DEF SameSent
<1>2. {i \in Keys : shop'[i] \in Own} \in
         {{i \in Keys : shop[i] \in Own}, {i \in Keys : shop[i] \in Own} \cup {k}}
  <2>1. CASE shop'[k] \in Own
    <3>1. {i \in Keys : shop'[i] \in Own} = {i \in Keys : shop[i] \in Own} \cup {k}
      BY <2>1 DEF SameMade
    <3> QED
      BY <3>1
  <2>2. CASE shop'[k] \notin Own
    <3>1. {i \in Keys : shop'[i] \in Own} = {i \in Keys : shop[i] \in Own}
      BY <2>2 DEF SameMade
    <3> QED
      BY <3>1
  <2> QED
    BY <2>1, <2>2
<1>3. {i \in Keys : link'[i] = "COMPLETED"} = {i \in Keys : link[i] = "COMPLETED"}
  BY DEF SameLinked
<1>4. k \notin {i \in Keys : posts[i] > 0} \cup {i \in Keys : shop[i] \in Own}
  OBVIOUS
<1> QED
  BY <1>1, <1>2, <1>3, <1>4, SameVerdicts DEF Own, Publishing!Send

\* A product that appears for a source key that was sent is a Make.
LEMMA MakesWhen ==
    ASSUME NoVerdict, NEW k \in Keys,
           posts[k] > 0, shop[k] \notin Own, shop'[k] \in Own,
           SameSent(Keys), SameMade(Keys \ {k}), SameLinked(Keys)
    PROVE  Publishing!Make(k)
<1>1. {i \in Keys : shop'[i] \in Own} = {i \in Keys : shop[i] \in Own} \cup {k}
  BY DEF SameMade
<1>2. {i \in Keys : posts'[i] > 0} = {i \in Keys : posts[i] > 0}
  BY DEF SameSent
<1>3. {i \in Keys : link'[i] = "COMPLETED"} = {i \in Keys : link[i] = "COMPLETED"}
  BY DEF SameLinked
<1>4. k \in {i \in Keys : posts[i] > 0} \ {i \in Keys : shop[i] \in Own}
  OBVIOUS
<1> QED
  BY <1>1, <1>2, <1>3, <1>4, SameVerdicts DEF Own, Publishing!Make

\* The completion of the link of a source key with a product is a Link.
LEMMA LinksWhen ==
    ASSUME NoVerdict, NEW k \in Keys,
           shop[k] \in Own, link[k] # "COMPLETED", link'[k] = "COMPLETED",
           SameSent(Keys), SameMade(Keys), SameLinked(Keys \ {k})
    PROVE  Publishing!Link(k)
<1>1. {i \in Keys : link'[i] = "COMPLETED"} = {i \in Keys : link[i] = "COMPLETED"} \cup {k}
  BY DEF SameLinked
<1>2. {i \in Keys : posts'[i] > 0} = {i \in Keys : posts[i] > 0}
  BY DEF SameSent
<1>3. {i \in Keys : shop'[i] \in Own} = {i \in Keys : shop[i] \in Own}
  BY DEF SameMade
<1>4. k \in {i \in Keys : shop[i] \in Own} \ {i \in Keys : link[i] = "COMPLETED"}
  OBVIOUS
<1> QED
  BY <1>1, <1>2, <1>3, <1>4, SameVerdicts DEF Own, Publishing!Link

\* A verdict is an Approve of a linked source key, or a Reject.
LEMMA VerdictIsApproveOrReject ==
    ASSUME IInv, NEW k \in Keys, NEW result \in Terminal, GivesVerdict(k, result)
    PROVE  Publishing!Approve(k) \/ Publishing!Reject(k)
<1>0. /\ item[k] \notin Terminal /\ item'[k] = result
      /\ \A i \in Keys \ {k} : item'[i] = item[i]
      /\ UNCHANGED <<link, shop, posts>>
  BY DEF GivesVerdict, Terminal, IInv, TypeOK
<1>1. k \notin InState("APPROVED") \cup InState("REJECTED")
  BY <1>0 DEF InState, Terminal
<1>2. CASE result = "APPROVED"
  <2>1. InState("APPROVED")' = InState("APPROVED") \cup {k} /\ InState("REJECTED")' = InState("REJECTED")
    BY <1>0, <1>2 DEF InState, Terminal
  <2>2. link[k] = "COMPLETED"
    BY <1>2 DEF GivesVerdict
  <2>3. Publishing!Approve(k)
    BY <1>0, <1>1, <2>1, <2>2 DEF Publishing!Approve
  <2> QED
    BY <2>3
<1>3. CASE result = "REJECTED"
  <2>1. InState("APPROVED")' = InState("APPROVED") /\ InState("REJECTED")' = InState("REJECTED") \cup {k}
    BY <1>0, <1>3 DEF InState, Terminal
  <2>2. Publishing!Reject(k)
    BY <1>0, <1>1, <2>1 DEF Publishing!Reject
  <2> QED
    BY <2>2
<1> QED
  BY <1>2, <1>3 DEF Terminal

\* A step of PublishOnce, or none.
Published == (\E k \in Keys : Publishing!Send(k) \/ Publishing!Make(k) \/ Publishing!Link(k)
                                \/ Publishing!Approve(k) \/ Publishing!Reject(k))
             \/ UNCHANGED Publishing!vars

\* What earlier replications left: the linked source keys have a product.
LEMMA PublishInit == Init => Publishing!Init
<1> SUFFICES ASSUME Init PROVE Publishing!Init
  OBVIOUS
<1>1. \A k \in Keys : link[k] = "COMPLETED" => shop[k] \in {"created", "indexed"}
  BY SafeInit, Fine DEF AllFine, KeyFine
<1>2. {k \in Keys : link[k] = "COMPLETED"} \in SUBSET {k \in Keys : shop[k] \in {"created", "indexed"}}
  BY <1>1
<1>3. {k \in Keys : posts[k] > 0} = {}
  BY DEF Init
<1>4. InState("APPROVED") = {} /\ InState("REJECTED") = {}
  BY DEF Init, InState
<1> QED
  BY <1>2, <1>3, <1>4 DEF Publishing!Init

\* Steps that issue no POST, make no product and complete no link.
LEMMA PublishQuiet ==
    ASSUME IInv, FinishesAlone, [Next]_vars, UNCHANGED <<posts, shop>>, SameLinked(Keys)
    PROVE  Published
<1>1. CASE NoVerdict
  BY <1>1, StuttersWhen DEF Published, SameSent, SameMade
<1>2. CASE \E k \in Keys, result \in Terminal : GivesVerdict(k, result)
  BY <1>2, VerdictIsApproveOrReject DEF Published
<1> QED
  BY <1>1, <1>2, VerdictStep

\* The steps that issue a POST: the POST itself, and a crash with it on the wire.
LEMMA PublishSend ==
    ASSUME IInv, NEW w \in Workers, PostProduct(w) \/ (Crash(w) /\ posts' # posts)
    PROVE  Published
<1> USE DEF jobVars, itemVars, linkVars, shopVars
<1>0. wk[w].key \in Keys
  BY Fine DEF AllFine, WorkerFine, OnItem, PostProduct, Crash
<1>a. PICK k \in Keys : k = wk[w].key
  BY <1>0
<1>1. pc[w] = "post" /\ posts' = [posts EXCEPT ![k] = IF @ = 0 THEN 1 ELSE 2]
  BY <1>a DEF PostProduct, Crash
<1>2. k \in Keys /\ posts[k] = 0 /\ posted[k] /\ shop[k] \in {"absent", "foreign"}
  BY <1>a, <1>1, Fine DEF AllFine, WorkerFine, OnItem
<1>3. posts'[k] = 1 /\ \A i \in Keys \ {k} : posts'[i] = posts[i]
  BY <1>1, <1>2 DEF IInv, TypeOK
<1>4. \A i \in Keys \ {k} : shop'[i] = shop[i]
  BY <1>a, <1>2 DEF PostProduct, Crash, IInv, TypeOK
<1>5. item' = item /\ link' = link
  BY DEF PostProduct, Crash, Throw, Return, Leave
<1>6. NoVerdict /\ SameSent(Keys \ {k}) /\ SameMade(Keys \ {k}) /\ SameLinked(Keys)
  BY <1>3, <1>4, <1>5 DEF NoVerdict, SameSent, SameMade, SameLinked
<1>7. Publishing!Send(k)
  BY <1>2, <1>3, <1>6, SendsWhen DEF Own
<1> QED
  BY <1>2, <1>7 DEF Published

\* The steps of the store.
LEMMA PublishStore ==
    ASSUME IInv, NEW k \in Keys, LatePost(k) \/ ShopIndexes(k)
    PROVE  Published
<1> USE DEF jobVars, itemVars, linkVars, shopVars
<1>1. UNCHANGED <<item, link, posts>>
  BY DEF LatePost, ShopIndexes
<1>2. NoVerdict /\ SameSent(Keys) /\ SameLinked(Keys)
  BY <1>1 DEF NoVerdict, SameSent, SameLinked
<1>3. \A i \in Keys \ {k} : shop'[i] = shop[i]
  BY DEF LatePost, ShopIndexes, IInv, TypeOK
<1>4. SameMade(Keys \ {k})
  BY <1>3 DEF SameMade
<1>5. CASE LatePost(k) /\ shop[k] = "absent"
  <2>1. shop'[k] = "created" /\ posts[k] > 0
    BY <1>5, Fine DEF AllFine, KeyFine, LatePost, IInv, TypeOK
  <2> QED
    BY <1>2, <1>4, <1>5, <2>1, MakesWhen DEF Own, Published
<1>6. CASE ShopIndexes(k) \/ shop[k] # "absent"
  <2>1. shop'[k] \in Own <=> shop[k] \in Own
    BY <1>6 DEF LatePost, ShopIndexes, Own, IInv, TypeOK
  <2>2. SameMade(Keys)
    BY <1>4, <2>1 DEF SameMade
  <2> QED
    BY <1>2, <2>2, StuttersWhen DEF Published
<1> QED
  BY <1>5, <1>6

\* The steps that complete a link.
LEMMA PublishLink ==
    ASSUME IInv, NEW w \in Workers, CompleteLink(w) \/ Confirm(w)
    PROVE  Published
<1> USE DEF jobVars, itemVars, linkVars, shopVars
<1>0. wk[w].key \in Keys
  BY Fine DEF AllFine, WorkerFine, OnItem, CompleteLink, Confirm
<1>a. PICK k \in Keys : k = wk[w].key
  BY <1>0
<1>1. WorkerFine(w) /\ KeyFine(k)
  BY Fine DEF AllFine
<1>2. UNCHANGED <<item, shop, posts>>
  BY DEF CompleteLink, Confirm
<1>3. NoVerdict /\ SameSent(Keys) /\ SameMade(Keys)
  BY <1>2 DEF NoVerdict, SameSent, SameMade
<1>4. \/ link' = link
      \/ link' = [link EXCEPT ![k] = "COMPLETED"] /\ shop[k] \in Own
  BY <1>a, <1>1 DEF CompleteLink, Confirm, WorkerFine, KeyFine, Own
<1>5. CASE link' = link \/ link[k] = "COMPLETED"
  <2>1. SameLinked(Keys)
    BY <1>1, <1>4, <1>5 DEF SameLinked, IInv, TypeOK
  <2> QED
    BY <1>3, <2>1, StuttersWhen DEF Published
<1>6. CASE link' # link /\ link[k] # "COMPLETED"
  <2>1. link'[k] = "COMPLETED" /\ shop[k] \in Own /\ SameLinked(Keys \ {k})
    BY <1>1, <1>4, <1>6 DEF SameLinked, IInv, TypeOK
  <2>2. Publishing!Link(k)
    BY <1>1, <1>3, <1>6, <2>1, LinksWhen
  <2> QED
    BY <1>1, <2>2 DEF Published
<1> QED
  BY <1>5, <1>6

\* Every step of the migration maps to a step of PublishOnce or to none.
LEMMA PublishStep ==
    ASSUME IInv, FinishesAlone, [Next]_vars
    PROVE  [Publishing!Next]_(Publishing!vars)
<1> USE DEF jobVars, itemVars, linkVars, shopVars, workerVars
<1>1. CASE \/ StartNewJob \/ StartAgain \/ Resume \/ LeaseExpires \/ RunDue \/ UNCHANGED vars
  <2>1. UNCHANGED <<link, posts, shop>>
    BY <1>1 DEF StartNewJob, StartAgain, Resume, LeaseExpires, RunDue, vars
  <2> QED
    BY <2>1, PublishQuiet DEF SameLinked, Published, Publishing!Next
<1>2. ASSUME NEW k \in Keys, LatePost(k) \/ ShopIndexes(k) PROVE Published
  BY <1>2, PublishStore
<1>3. ASSUME NEW w \in Workers, Observe(w) \/ Redeliver(w) \/ Crash(w) PROVE Published
  <2>1. CASE Crash(w) /\ posts' # posts
    BY <2>1, PublishSend
  <2>2. CASE ~(Crash(w) /\ posts' # posts)
    <3>1. UNCHANGED <<link, posts, shop>>
      BY <1>3, <2>2 DEF Observe, Redeliver, Crash, Throw, Return, Leave
    <3> QED
      BY <3>1, PublishQuiet DEF SameLinked
  <2> QED
    BY <2>1, <2>2
<1>4. ASSUME NEW w \in Workers, Work(w) PROVE Published
  <2>1. CASE PostProduct(w)
    BY <2>1, PublishSend
  <2>2. CASE CompleteLink(w) \/ Confirm(w)
    BY <2>2, PublishLink
  <2>3. CASE Reserve(w) \/ MatchSku(w)
    <3>1. UNCHANGED <<posts, shop>>
      BY <2>3 DEF Reserve, MatchSku
    <3>2. SameLinked(Keys)
      BY <2>3 DEF Reserve, MatchSku, SameLinked, IInv, TypeOK
    <3> QED
      BY <3>1, <3>2, PublishQuiet
  <2>4. CASE \/ ClaimJob(w) \/ ClaimDenied(w) \/ Reread(w) \/ PickItem(w) \/ PickNothing(w)
             \/ DiscoverPage(w) \/ DiscoveryFails(w) \/ PrePostError(w) \/ MarkPostStarted(w)
             \/ ReadLink(w) \/ ReconcileError(w)
    <3>1. UNCHANGED <<posts, shop>>
      BY <2>4 DEF ClaimJob, ClaimDenied, Reread, PickItem, PickNothing, DiscoverPage,
                  DiscoveryFails, PrePostError, MarkPostStarted, ReadLink, ReconcileError
    <3>2. link' = link
      BY <2>4 DEF ClaimJob, ClaimDenied, Reread, PickItem, PickNothing, DiscoverPage,
                  DiscoveryFails, PrePostError, MarkPostStarted, ReadLink, ReconcileError,
                  Return, Leave
    <3> QED
      BY <3>1, <3>2, PublishQuiet DEF SameLinked
  <2>5. CASE \/ Finish(w) \/ Commit(w) \/ PauseSingle(w) \/ HandleReject(w) \/ HandlePause(w)
             \/ HandleRetry(w) \/ Defer(w)
    <3>1. UNCHANGED <<posts, shop>>
      BY <2>5 DEF Finish, Commit, PauseSingle, HandleReject, HandlePause, HandleRetry, Defer
    <3>2. link' = link
      BY <2>5, Endings, Ended DEF Begin
    <3> QED
      BY <3>1, <3>2, PublishQuiet DEF SameLinked
  <2> QED
    BY <1>4, <2>1, <2>2, <2>3, <2>4, <2>5 DEF Work
<1> QED
  BY <1>1, <1>2, <1>3, <1>4 DEF Next, Published, Publishing!Next

\* PublishesOnce: the migration with its jobs, leases, messages, crashes and lost
\* answers implements PublishOnce: every step sends a source key for the first
\* time, makes, links or judges one, or changes nothing that PublishOnce sees.
THEOREM Refinement == Spec => PublishesOnce
BY PublishInit, PublishStep, Invariance, FinishAlone, PTL DEF Spec, PublishesOnce, Publishing!Spec

-----------------------------------------------------------------------------
(* The progress that the job row shows *)

\* Before a job is started there are no items.
NoItemsBefore == status = "NONE" => Items = {}

\* What a finish counted is still there when it writes it, and it counts its own.
TalliesStand == \A w \in Workers : pc[w] = "commit" =>
    /\ wk[w].tally.yes <= Cardinality(Judged(w, "APPROVED"))
    /\ wk[w].tally.no <= Cardinality(Judged(w, "REJECTED"))

\* The progress as an inductive invariant.
ProgressInv == NothingOverstated /\ NoItemsBefore /\ TalliesStand

\* What a step that neither adds an item, nor gives a verdict, nor completes
\* the job leaves alone.
KeepsProgress ==
    /\ NoVerdict /\ Items' = Items
    /\ UNCHANGED <<total, approved, rejected, limit>>
    /\ status' \in Completed \cup {"NONE"} => status' = status

\* A page of the scan is recorded.
RecordsPage == /\ \E page \in SUBSET Keys : \E rest, finished : RecordPage(page, rest, finished)
               /\ UNCHANGED <<limit, approved, rejected>>

\* A finish writes its verdict, and what it counted.
Judges(w) == /\ pc[w] = "commit" /\ FinishItem(wk[w].key, Result(w), wk[w].tally)
             /\ UNCHANGED <<total, limit>>

\* The recovery of interrupted items keeps every item.
LEMMA RecoveryKeepsItems ==
    ASSUME IInv, RecoverItems
    PROVE  Items' = Items
BY DEF RecoverItems, Recovered, Items, IInv, TypeOK

\* So does the move of an item that exists to any status of an item.
LEMMA MoveKeepsItems ==
    ASSUME IInv, NEW k \in Keys, item[k] # "ABSENT", NEW s \in ItemStatus \ {"ABSENT"},
           item' = [item EXCEPT ![k] = s]
    PROVE  Items' = Items
BY DEF Items, IInv, TypeOK

\* Every step keeps the progress, starts the job, records a page, finds nothing
\* to do or gives a verdict.
LEMMA ProgressKinds ==
    ASSUME IInv, [Next]_vars
    PROVE  \/ KeepsProgress
           \/ StartNewJob \/ RecordsPage
           \/ \E w \in Workers : PickNothing(w) \/ Judges(w)
<1> USE DEF jobVars, itemVars, linkVars, shopVars, workerVars
<1>0. ASSUME item' = item, UNCHANGED <<total, approved, rejected, limit>>,
             status' \in Completed \cup {"NONE"} => status' = status
      PROVE  KeepsProgress
  BY <1>0 DEF KeepsProgress, NoVerdict, Items
<1>2. CASE \/ StartAgain \/ LeaseExpires \/ RunDue \/ UNCHANGED vars
           \/ \E k \in Keys : LatePost(k) \/ ShopIndexes(k)
  BY <1>0, <1>2 DEF StartAgain, LeaseExpires, RunDue, LatePost, ShopIndexes, vars
<1>3. CASE Resume
  BY <1>3, RecoveryIsNoVerdict, RecoveryKeepsItems DEF Resume, KeepsProgress, Completed
<1>4. ASSUME NEW w \in Workers, Observe(w) \/ Crash(w) \/ Redeliver(w) PROVE KeepsProgress
  BY <1>0, <1>4 DEF Observe, Crash, Redeliver
<1>5. ASSUME NEW w \in Workers,
             \/ ClaimDenied(w) \/ Reread(w) \/ DiscoveryFails(w)
             \/ PrePostError(w) \/ Reserve(w) \/ MatchSku(w) \/ MarkPostStarted(w)
             \/ PostProduct(w) \/ CompleteLink(w) \/ ReadLink(w) \/ Confirm(w)
             \/ ReconcileError(w) \/ Finish(w) \/ PauseSingle(w) \/ HandleReject(w) \/ HandlePause(w)
      PROVE  KeepsProgress
  BY <1>0, <1>5 DEF ClaimDenied, Reread, DiscoveryFails, PrePostError, Reserve,
                    MatchSku, MarkPostStarted, PostProduct, CompleteLink, ReadLink, Confirm,
                    ReconcileError, Finish, PauseSingle, HandleReject, HandlePause, PauseJob,
                    RetryDiscovery, Completed
<1>6. ASSUME NEW w \in Workers, ClaimJob(w) PROVE KeepsProgress
  BY <1>6, RecoveryIsNoVerdict, RecoveryKeepsItems DEF ClaimJob, Claimable, KeepsProgress, Completed
<1>7. ASSUME NEW w \in Workers, PickItem(w) PROVE KeepsProgress
  <2>1. PICK k \in Offered : item' = [item EXCEPT ![k] = "PROCESSING"]
    BY <1>7 DEF PickItem
  <2>2. k \in Keys /\ item[k] \notin Terminal /\ item[k] # "ABSENT"
    BY DEF Offered, InState, Terminal
  <2>3. NoVerdict /\ Items' = Items
    BY <2>1, <2>2, MoveIsNoVerdict, MoveKeepsItems DEF ItemStatus, Terminal
  <2> QED
    BY <1>7, <2>3 DEF PickItem, KeepsProgress
<1>8. ASSUME NEW w \in Workers, DiscoverPage(w) PROVE RecordsPage
  <2>1. PICK left \in Ahead(wk[w].rest) : \E page \in SUBSET left, finished \in BOOLEAN :
          \E kept \in SUBSET page : RecordPage(kept, left \ page, finished)
    BY <1>8 DEF DiscoverPage
  <2>2. left \in SUBSET Keys
    BY DEF IInv, TypeOK, Local, Ahead
  <2>3. \E kept \in SUBSET Keys : \E rest, finished : RecordPage(kept, rest, finished)
    BY <2>1, <2>2
  <2> QED
    BY <1>8, <2>3 DEF DiscoverPage, RecordsPage
<1>9. ASSUME NEW w \in Workers, HandleRetry(w) \/ Defer(w) PROVE KeepsProgress
  <2>0. wk[w].key \in Keys
    BY <1>9, Fine DEF AllFine, WorkerFine, OnItem, HandleRetry, Defer
  <2>1. PICK k \in Keys : k = wk[w].key
    BY <2>0
  <2>2. \/ item' = item
        \/ item[k] = "PROCESSING" /\ \E s \in {"PENDING", "RECONCILING"} :
             item' = [item EXCEPT ![k] = s]
    BY <1>9, <2>1 DEF HandleRetry, Defer
  <2>3. NoVerdict /\ Items' = Items
    <3>1. CASE item' = item
      BY <3>1 DEF NoVerdict, Items
    <3>2. CASE item[k] = "PROCESSING" /\ \E s \in {"PENDING", "RECONCILING"} :
                 item' = [item EXCEPT ![k] = s]
      BY <3>2, MoveIsNoVerdict, MoveKeepsItems DEF ItemStatus, Terminal
    <3> QED
      BY <2>2, <3>1, <3>2
  <2> QED
    BY <1>9, <2>3 DEF HandleRetry, Defer, PauseJob, KeepsProgress, Completed
<1>10. ASSUME NEW w \in Workers, Commit(w) PROVE KeepsProgress \/ Judges(w)
  BY <1>0, <1>10 DEF Commit, Judges
<1> QED
  BY <1>2, <1>3, <1>4, <1>5, <1>6, <1>7, <1>8, <1>9, <1>10 DEF Next, Work

\* What a finish makes of the items in a terminal status is what it has judged.
LEMMA JudgedBy ==
    ASSUME IInv, FinishesAlone, NEW w \in Workers, Judges(w)
    PROVE  /\ Items' = Items
           /\ \A s \in Terminal : InState(s)' = Judged(w, s)
<1>1. PICK k \in Keys : k = wk[w].key
  BY Fine DEF AllFine, WorkerFine, OnItem, Judges
<1>2. item[k] = "PROCESSING" /\ item' = [item EXCEPT ![k] = Result(w)] /\ Result(w) \in Terminal
  BY <1>1 DEF Judges, FinishItem, FinishesAlone, Result, Terminal
<1>3. Items' = Items
  BY <1>2, MoveKeepsItems DEF Terminal, ItemStatus
<1>4. ASSUME NEW s \in Terminal PROVE InState(s)' = Judged(w, s)
  <2>1. item'[k] = Result(w) /\ \A i \in Keys \ {k} : item'[i] = item[i]
    BY <1>2 DEF IInv, TypeOK
  <2> QED
    BY <1>1, <1>2, <2>1 DEF InState, Judged, Terminal
<1> QED
  BY <1>3, <1>4

\* Source keys, and possibly one more, are finite in number.
LEMMA OneMoreFinite ==
    ASSUME NEW S \in SUBSET Keys, NEW k, NEW T \in SUBSET {k}
    PROVE  /\ IsFiniteSet(S) /\ IsFiniteSet(S \cup T)
           /\ Cardinality(S) \in Nat /\ Cardinality(S \cup T) \in Nat
<1>1. IsFiniteSet(S) /\ IsFiniteSet({k})
  BY KeysAssumption, FS_Subset, FS_Singleton
<1>2. IsFiniteSet(T)
  BY <1>1, FS_Subset
<1> QED
  BY <1>1, <1>2, FS_Union, FS_CardinalityType

\* So the items in a status are, now and after a step, with or without a verdict.
LEMMA JudgedFinite ==
    ASSUME NEW w, NEW s
    PROVE  /\ IsFiniteSet(InState(s)) /\ Cardinality(InState(s)) \in Nat
           /\ IsFiniteSet(Judged(w, s)) /\ Cardinality(Judged(w, s)) \in Nat
           /\ IsFiniteSet(InState(s)') /\ Cardinality(InState(s)') \in Nat
           /\ IsFiniteSet(Judged(w, s)') /\ Cardinality(Judged(w, s)') \in Nat
<1>1. InState(s) \in SUBSET Keys /\ InState(s)' \in SUBSET Keys
  BY DEF InState
<1>2. /\ \E T \in SUBSET {wk[w].key} : Judged(w, s) = InState(s) \cup T
      /\ \E T \in SUBSET {wk'[w].key} : Judged(w, s)' = InState(s)' \cup T
  BY DEF Judged
<1> QED
  BY <1>1, <1>2, OneMoreFinite

\* What a finish begins with is an exact count of what it will have judged.
LEMMA TallyOfBegin ==
    ASSUME IInv, NEW w \in Workers, Begins(w)
    PROVE  /\ wk'[w].tally = Tally(w) /\ Tally(w)' = Tally(w)
           /\ wk'[w].tally.yes = Cardinality(Judged(w, "APPROVED")')
           /\ wk'[w].tally.no = Cardinality(Judged(w, "REJECTED")')
<1>1. /\ wk'[w].tally = Tally(w) /\ wk'[w].key = wk[w].key /\ wk'[w].verdict = wk[w].verdict
      /\ item' = item
  BY DEF Begins, Begin, GotoWith, itemVars, IInv, TypeOK, Local
<1>2. ASSUME NEW s PROVE Judged(w, s)' = Judged(w, s)
  BY <1>1 DEF Judged, InState, Result
<1>3. Items' = Items
  BY <1>1 DEF Items
<1>4. Judged(w, "APPROVED")' = Judged(w, "APPROVED") /\ Judged(w, "REJECTED")' = Judged(w, "REJECTED")
  BY <1>2
<1>5. /\ Tally(w).yes = Cardinality(Judged(w, "APPROVED"))
      /\ Tally(w).no = Cardinality(Judged(w, "REJECTED"))
  BY DEF Tally
<1>6. Tally(w)' = Tally(w)
  BY <1>3, <1>4 DEF Tally
<1> QED
  BY <1>1, <1>4, <1>5, <1>6

\* Verdicts are final, so no count becomes too high.
LEMMA TalliesStandStep ==
    ASSUME IInv, FinishesAlone, TalliesStand, [Next]_vars
    PROVE  TalliesStand'
<1> SUFFICES ASSUME NEW w \in Workers, pc'[w] = "commit"
             PROVE  /\ wk'[w].tally.yes <= Cardinality(Judged(w, "APPROVED")')
                    /\ wk'[w].tally.no <= Cardinality(Judged(w, "REJECTED")')
  BY DEF TalliesStand
<1>0. wk \in [Workers -> Local]
  BY DEF IInv, TypeOK
<1>1. CASE Begins(w)
  <2>1. /\ wk'[w].tally.yes = Cardinality(Judged(w, "APPROVED")')
        /\ wk'[w].tally.no = Cardinality(Judged(w, "REJECTED")')
    BY <1>1, TallyOfBegin
  <2>2. /\ Cardinality(Judged(w, "APPROVED")') \in Nat
        /\ Cardinality(Judged(w, "REJECTED")') \in Nat
    BY JudgedFinite
  <2> QED
    BY <2>1, <2>2
<1>2. CASE pc[w] = "commit" /\ wk'[w] = wk[w]
  <2>1. \A k \in Keys : item[k] \in Terminal => item'[k] = item[k]
    BY VerdictStep DEF NoVerdict, GivesVerdict, Terminal, IInv, TypeOK
  <2>2. ASSUME NEW s \in Terminal
        PROVE  Cardinality(Judged(w, s)) <= Cardinality(Judged(w, s)')
    <3>1. Judged(w, s) \subseteq Judged(w, s)'
      BY <1>2, <2>1, <2>2 DEF Judged, InState, Result
    <3>2. IsFiniteSet(Judged(w, s)')
      BY JudgedFinite
    <3> QED
      BY <3>1, <3>2, FS_Subset
  <2>3. /\ wk[w].tally.yes \in Nat /\ wk[w].tally.no \in Nat
        /\ \A s : Cardinality(Judged(w, s)) \in Nat
    BY <1>0, JudgedFinite DEF Local, Tallies
  <2>4. \A s : Cardinality(Judged(w, s)') \in Nat
    BY JudgedFinite
  <2> QED
    BY <1>2, <2>2, <2>3, <2>4 DEF TalliesStand, Terminal
<1> QED
  BY <1>1, <1>2, CommitMoves

\* A job that is started has no items yet, whatever limit it is given.
LEMMA ProgressOfStart ==
    ASSUME IInv, NothingOverstated, NoItemsBefore, StartNewJob
    PROVE  NothingOverstated' /\ NoItemsBefore'
<1>1. Items = {} /\ total = 0
  BY FS_EmptySet DEF StartNewJob, NoItemsBefore, NothingOverstated
<1>2. item' = item /\ UNCHANGED <<total, approved, rejected>> /\ limit' \in TestLimits
      /\ status' = "DISCOVERING"
  BY DEF StartNewJob, itemVars
<1>3. Items' = Items /\ InState("APPROVED")' = InState("APPROVED")
      /\ InState("REJECTED")' = InState("REJECTED")
  BY <1>2 DEF Items, InState
<1>4. limit' \in Nat
  BY <1>2, NumbersAssumption
<1> QED
  BY <1>1, <1>2, <1>3, <1>4 DEF NoItemsBefore, NothingOverstated

\* A page adds at most as many items as the test limit has room for.
LEMMA ProgressOfPage ==
    ASSUME IInv, NothingOverstated, NEW page \in SUBSET Keys, NEW rest, NEW finished,
           RecordPage(page, rest, finished), UNCHANGED <<limit, approved, rejected>>
    PROVE  /\ NothingOverstated' /\ NoItemsBefore'
           /\ status' \in {"QUEUED", "DISCOVERING"}
           /\ InState("APPROVED")' = InState("APPROVED") /\ InState("REJECTED")' = InState("REJECTED")
<1> DEFINE room == IF limit = 0 THEN Cardinality(Keys)
                   ELSE IF limit > Cardinality(Items) THEN limit - Cardinality(Items) ELSE 0
<1> HIDE DEF room
<1>1. PICK new \in SUBSET (page \ Items) :
         /\ Cardinality(new) = IF Cardinality(page \ Items) < room
                                 THEN Cardinality(page \ Items) ELSE room
         /\ item' = [k \in Keys |-> IF k \in new THEN "PENDING" ELSE item[k]]
         /\ total' = Cardinality(Items \cup new)
         /\ status' \in {"QUEUED", "DISCOVERING"}
  BY DEF RecordPage, room
<1>2. Items \in SUBSET Keys /\ new \in SUBSET Keys /\ page \ Items \in SUBSET Keys
      /\ Items \cup new \in SUBSET Keys
  BY <1>1 DEF Items
<1>3. Items' = Items \cup new
  BY <1>1 DEF Items
<1>4. InState("APPROVED")' = InState("APPROVED") /\ InState("REJECTED")' = InState("REJECTED")
  BY <1>1 DEF Items, InState
<1>5. limit # 0 => Cardinality(Items \cup new) <= limit
  <2> SUFFICES ASSUME limit # 0 PROVE Cardinality(Items \cup new) <= limit
    OBVIOUS
  <2>1. /\ Cardinality(Items) \in Nat /\ Cardinality(new) \in Nat /\ Cardinality(page \ Items) \in Nat
        /\ Cardinality(Items \cup new) \in Nat
        /\ limit \in Nat
    BY <1>2, CountType DEF IInv, TypeOK
  <2>2. Cardinality(Items) <= limit
    BY DEF NothingOverstated
  <2>3. Cardinality(new) <= limit - Cardinality(Items)
    <3>1. room = limit - Cardinality(Items)
      BY <2>1, <2>2 DEF room
    <3> QED
      BY <1>1, <2>1, <3>1
  <2>4. Cardinality(Items \cup new) = Cardinality(Items) + Cardinality(new) - Cardinality(Items \cap new)
    <3>1. IsFiniteSet(Items) /\ IsFiniteSet(new)
      BY <1>2, KeysAssumption, FS_Subset
    <3> QED
      BY <3>1, FS_Union
  <2>5. Items \cap new = {}
    BY <1>1
  <2> QED
    BY <2>1, <2>3, <2>4, <2>5, FS_EmptySet
<1> QED
  BY <1>1, <1>3, <1>4, <1>5 DEF NothingOverstated, NoItemsBefore

\* The job without items is completed with nothing approved or rejected.
LEMMA ProgressOfNothing ==
    ASSUME IInv, NothingOverstated, NoItemsBefore, NEW w \in Workers, PickNothing(w)
    PROVE  /\ NothingOverstated' /\ NoItemsBefore'
           /\ Items' = Items /\ \A s : InState(s)' = InState(s)
           /\ \/ UNCHANGED <<status, approved, rejected>>
              \/ Items = {} /\ status' = "COMPLETED" /\ approved' = 0 /\ rejected' = 0
<1>1. item' = item /\ UNCHANGED <<total, limit>>
  BY DEF PickNothing, itemVars
<1>2. Items' = Items /\ \A s : InState(s)' = InState(s)
  BY <1>1 DEF Items, InState
<1>3. CASE UNCHANGED <<status, approved, rejected>>
  BY <1>1, <1>2, <1>3 DEF NothingOverstated, NoItemsBefore
<1>4. CASE total = 0 /\ status' = "COMPLETED" /\ approved' = 0 /\ rejected' = 0
  <2>1. Items = {}
    <3>1. IsFiniteSet(Items)
      BY KeysAssumption, FS_Subset DEF Items
    <3> QED
      BY <1>4, <3>1, FS_EmptySet DEF NothingOverstated
  <2>2. Cardinality(InState("APPROVED")) >= 0 /\ Cardinality(InState("REJECTED")) >= 0
    BY JudgedFinite
  <2> QED
    BY <1>1, <1>2, <1>4, <2>1, <2>2 DEF NothingOverstated, NoItemsBefore
<1> QED
  BY <1>3, <1>4 DEF PickNothing

\* A verdict is written with counts that are not too high.
LEMMA ProgressOfVerdict ==
    ASSUME IInv, FinishesAlone, ProgressInv, NEW w \in Workers, Judges(w)
    PROVE  NothingOverstated' /\ NoItemsBefore'
<1> DEFINE yes == wk[w].tally.yes
           no  == wk[w].tally.no
<1>1. Items' = Items /\ \A s \in Terminal : InState(s)' = Judged(w, s)
  BY JudgedBy
<1>2. yes <= Cardinality(InState("APPROVED")') /\ no <= Cardinality(InState("REJECTED")')
  BY <1>1 DEF ProgressInv, TalliesStand, Judges, Terminal
<1>3. no \in Nat
  BY DEF IInv, TypeOK, Local, Tallies
<1>4. /\ approved' = yes /\ rejected' = no /\ UNCHANGED <<total, limit>> /\ status' # "NONE"
      /\ status' = "COMPLETED_WITH_REJECTIONS" => no > 0
  BY DEF Judges, FinishItem
<1>5. no > 0 => InState("REJECTED")' # {}
  BY <1>2, <1>3, FS_EmptySet
<1> QED
  BY <1>1, <1>2, <1>4, <1>5 DEF ProgressInv, NothingOverstated, NoItemsBefore

\* At first there is nothing to count.
LEMMA ProgressInit == Init => ProgressInv
<1> SUFFICES ASSUME Init PROVE ProgressInv
  OBVIOUS
<1>1. Items = {} /\ InState("APPROVED") = {} /\ InState("REJECTED") = {}
  BY DEF Init, Items, InState
<1> QED
  BY <1>1, FS_EmptySet DEF Init, ProgressInv, NothingOverstated, NoItemsBefore, TalliesStand

\* No step overstates anything.
LEMMA ProgressStep ==
    ASSUME IInv, FinishesAlone, ProgressInv, [Next]_vars
    PROVE  ProgressInv'
<1>1. TalliesStand'
  BY TalliesStandStep DEF ProgressInv
<1>2. NothingOverstated' /\ NoItemsBefore'
  <2>1. CASE KeepsProgress
    BY <2>1, SameVerdicts DEF ProgressInv, KeepsProgress, NothingOverstated, NoItemsBefore, Completed
  <2>2. CASE StartNewJob \/ \E w \in Workers : PickNothing(w)
    BY <2>2, ProgressOfStart, ProgressOfNothing DEF ProgressInv
  <2>3. CASE RecordsPage
    BY <2>3, ProgressOfPage DEF ProgressInv, RecordsPage
  <2>4. CASE \E w \in Workers : Judges(w)
    BY <2>4, ProgressOfVerdict
  <2> QED
    BY <2>1, <2>2, <2>3, <2>4, ProgressKinds
<1> QED
  BY <1>1, <1>2 DEF ProgressInv

\* NothingOverstated: whatever finishes overlap, the job row shows no verdict that
\* was not given, the right total, and no item over the limit of a test job.
THEOREM ProgressIsFair == Spec => []NothingOverstated
<1>1. ProgressInv => NothingOverstated
  BY DEF ProgressInv
<1>2. IInv /\ FinishesAlone /\ ProgressInv /\ [Next]_vars => ProgressInv'
  BY ProgressStep
<1> QED
  BY <1>1, <1>2, ProgressInit, Invariance, FinishAlone, PTL DEF Spec

-----------------------------------------------------------------------------
(* One invocation at a time.                                               *)
(*                                                                         *)
(* Three properties hold as long as no invocation outlives its lease, no   *)
(* answer of an RPC is lost and no job is resumed for a single item.  An   *)
(* invocation that has claimed the job is then the only one at work until  *)
(* it gives the lease back, and finds the job and its item as it left them.*)

Discipline == ~SlowWorkers /\ "lost" \notin FaultKinds /\ ResumeModes \subseteq {"CONTINUE"}

AtWork(w) == pc[w] \notin {"idle", "observed"}

\* An invocation at work holds the lease of the job, alone, with the job's token.
HoldsLease(w) ==
    /\ lock = "live" /\ wk[w].msg.token = token
    /\ \A v \in Workers : AtWork(v) => v = w
    /\ pc[w] \notin {"rediscover", "pauseSingle"}

\* It finds the job in the status its stage is about.
FindsJob(w) ==
    /\ pc[w] = "claimed" => status \in {"DISCOVERING", "RUNNING"}
    /\ pc[w] = "discover" => status = "DISCOVERING"
    /\ pc[w] \in {"pick"} \cup OnItem => status = "RUNNING"

\* It finds its item being processed, and unmarked where it may still be rejected
\* or decided anew.
FindsItem(w) ==
    /\ pc[w] \in OnItem => item[wk[w].key] = "PROCESSING"
    /\ pc[w] \in {"prepare", "match", "mark", "handle"} => ~posted[wk[w].key]
    /\ pc[w] \in {"post", "link"} => wk[w].sent
    /\ pc[w] \in {"finish", "commit"} =>
         (Result(w) = "APPROVED" /\ wk[w].sent) \/ ~posted[wk[w].key]

AllContinue == /\ \A m \in queue : m.mode = "CONTINUE"
               /\ \A w \in Workers : wk[w].msg.mode = "CONTINUE"

LeaseInv == /\ AllContinue
            /\ \A w \in Workers : AtWork(w) => HoldsLease(w) /\ FindsJob(w) /\ FindsItem(w)
            /\ PostedNeverRejected

\* The discovery of a job without a test limit: what is not an item yet is still
\* ahead in the scan, and the invocation that reads a page has read that.
DiscoveryInv ==
    /\ status = "NONE" => scroll = Keys
    /\ limit = 0 =>
        /\ status = "DISCOVERING" => Keys \ Items \subseteq scroll
        /\ status \notin {"NONE", "DISCOVERING"} => Items = Keys
        /\ \A w \in Workers : pc[w] = "discover" =>
             wk[w].rest = scroll /\ wk[w].max = Cardinality(Keys)

\* The end of an invocation, and its moves, bring no other mode into the queue.
LEMMA ContinueMoves ==
    ASSUME IInv, AllContinue, NEW w \in Workers
    PROVE  /\ \A b : Return(w, b) => AllContinue'
           /\ \A stage : Goto(w, stage) => AllContinue'
           /\ \A stage : \A local \in Local :
                GotoWith(w, stage, local) /\ local.msg = wk[w].msg => AllContinue'
<1>1. wk \in [Workers -> Local]
  BY DEF IInv, TypeOK
<1>2. ASSUME NEW b, Return(w, b) PROVE AllContinue'
  <2>1. Blank.msg.mode = "CONTINUE"
    BY DEF Blank
  <2> QED
    BY <1>1, <1>2, <2>1 DEF Return, Leave, AllContinue
<1>3. ASSUME NEW stage, Goto(w, stage) PROVE AllContinue'
  BY <1>3 DEF Goto, AllContinue
<1>4. ASSUME NEW stage, NEW local \in Local, GotoWith(w, stage, local), local.msg = wk[w].msg
      PROVE  AllContinue'
  BY <1>1, <1>4 DEF GotoWith, AllContinue
<1> QED
  BY <1>2, <1>3, <1>4

\* No step brings one as long as no job is resumed for a single item.
LEMMA ContinueStep ==
    ASSUME Discipline, IInv, AllContinue, [Next]_vars
    PROVE  AllContinue'
<1> USE DEF jobVars, itemVars, linkVars, shopVars, workerVars
<1>1. ASSUME queue' = queue, wk' = wk PROVE AllContinue'
  BY <1>1 DEF AllContinue
<1>2. CASE \/ LeaseExpires \/ RunDue \/ UNCHANGED vars
           \/ \E k \in Keys : LatePost(k) \/ ShopIndexes(k)
  BY <1>1, <1>2 DEF LeaseExpires, RunDue, LatePost, ShopIndexes, vars
<1>3. CASE StartNewJob \/ StartAgain \/ Resume
  <2>1. wk' = wk
    BY <1>3 DEF StartNewJob, StartAgain, Resume
  <2>2. queue' = queue \/ \E t : queue' = queue \cup {[token |-> t, mode |-> "CONTINUE"]}
    BY <1>3 DEF StartNewJob, StartAgain, Resume, Discipline
  <2> QED
    BY <2>1, <2>2 DEF AllContinue
<1>4. ASSUME NEW w \in Workers, Observe(w) PROVE AllContinue'
  <2>1. PICK m \in queue :
          /\ queue' = queue \ {m}
          /\ \/ wk' = [wk EXCEPT ![w] =
                 [Blank EXCEPT !.msg = m, !.halted = status \in {"PAUSED"} \cup Completed]]
             \/ wk' = wk
    BY <1>4 DEF Observe
  <2>2. [Blank EXCEPT !.msg = m, !.halted = status \in {"PAUSED"} \cup Completed].msg = m
    BY DEF Blank
  <2> QED
    BY <2>1, <2>2 DEF AllContinue, IInv, TypeOK
<1>5. ASSUME NEW w \in Workers, Redeliver(w) PROVE AllContinue'
  BY <1>5 DEF Redeliver, AllContinue
<1>6. ASSUME NEW w \in Workers, NEW b, Return(w, b) PROVE AllContinue'
  BY <1>6, ContinueMoves
<1>7. ASSUME NEW w \in Workers, NEW stage, Goto(w, stage) PROVE AllContinue'
  BY <1>7, ContinueMoves
<1>8. ASSUME NEW w \in Workers, NEW stage, NEW local \in Local, GotoWith(w, stage, local),
             local.msg = wk[w].msg
      PROVE  AllContinue'
  BY <1>8, ContinueMoves
<1>9. ASSUME NEW w \in Workers, Crash(w) \/ Work(w) PROVE AllContinue'
  <2>1. CASE Crash(w) \/ ClaimDenied(w) \/ PickNothing(w) \/ DiscoveryFails(w)
    BY <1>6, <2>1 DEF Crash, ClaimDenied, PickNothing, DiscoveryFails, Throw
  <2>2. CASE ClaimJob(w) \/ DiscoverPage(w) \/ PostProduct(w) \/ ReconcileError(w)
    BY <1>6, <1>7, <2>2 DEF ClaimJob, DiscoverPage, PostProduct, ReconcileError
  <2>3. wk[w] \in Local
    BY DEF IInv, TypeOK
  <2>4. \A verdict : [wk[w] EXCEPT !.verdict = verdict].msg = wk[w].msg
    BY <2>3 DEF Local
  <2>5. ASSUME NEW stage, NEW verdict \in Verdict,
               GotoWith(w, stage, [wk[w] EXCEPT !.verdict = verdict])
        PROVE  AllContinue'
    BY <1>8, <2>3, <2>4, <2>5, VerdictType
  <2>6. ASSUME NEW stage, NEW verdict \in Verdict,
               GotoWith(w, stage, [wk[w] EXCEPT !.verdict = verdict, !.sent = TRUE])
        PROVE  AllContinue'
    <3>1. [wk[w] EXCEPT !.verdict = verdict, !.sent = TRUE].msg = wk[w].msg
      BY <2>3 DEF Local
    <3> QED
      BY <1>8, <2>3, <2>6, <3>1, VerdictType
  <2>7. CASE PrePostError(w) \/ Reserve(w) \/ MatchSku(w) \/ CompleteLink(w)
    BY <1>7, <2>5, <2>7, SetsAssumption
       DEF PrePostError, Reserve, MatchSku, CompleteLink, Verdict, AllErrors
  <2>8. CASE ReadLink(w) \/ Confirm(w)
    BY <1>7, <2>6, <2>8 DEF ReadLink, Confirm, Verdict
  <2>9. CASE \/ Finish(w) \/ Commit(w) \/ PauseSingle(w) \/ HandleReject(w)
             \/ HandlePause(w) \/ HandleRetry(w) \/ Defer(w)
    <3>1. CASE \E b : Return(w, b)
      BY <1>6, <3>1
    <3>2. CASE Begin(w)
      <4>1. [wk[w] EXCEPT !.tally = Tally(w)].msg = wk[w].msg
        BY <2>3 DEF Local
      <4>2. [wk[w] EXCEPT !.tally = Tally(w)] \in Local
        BY TallyType DEF IInv
      <4> QED
        BY <1>8, <3>2, <4>1, <4>2 DEF Begin
    <3>3. CASE \E verdict : \E stage \in {"pauseSingle", "defer", "handle"} :
                 GotoWith(w, stage, [wk[w] EXCEPT !.verdict = verdict, !.tally = NoTally])
      <4>1. PICK stage, verdict :
              GotoWith(w, stage, [wk[w] EXCEPT !.verdict = verdict, !.tally = NoTally])
        BY <3>3
      <4>2. /\ wk' = [wk EXCEPT ![w] = [wk[w] EXCEPT !.verdict = verdict, !.tally = NoTally]]
            /\ queue' = queue
        BY <4>1 DEF GotoWith
      <4>3. [wk[w] EXCEPT !.verdict = verdict, !.tally = NoTally].msg = wk[w].msg
        BY <2>3 DEF Local
      <4>4. \A v \in Workers : wk'[v].msg = wk[v].msg
        BY <4>2, <4>3 DEF IInv, TypeOK
      <4> QED
        BY <4>2, <4>4 DEF AllContinue
    <3> QED
      BY <2>9, <3>1, <3>2, <3>3, Endings
  <2>10. CASE MarkPostStarted(w)
    <3>1. [wk[w] EXCEPT !.sent = TRUE].msg = wk[w].msg /\ [wk[w] EXCEPT !.sent = TRUE] \in Local
      BY <2>3 DEF Local
    <3> QED
      BY <1>8, <2>5, <2>10, <3>1 DEF MarkPostStarted, Verdict, AllErrors
  <2>11. CASE Reread(w)
    <3>1. PICK local \in Local : local.msg = wk[w].msg /\
            (Return(w, FALSE) \/ \E stage : GotoWith(w, stage, local))
      <4>1. MaxProducts \in Nat
        <5>1. Cardinality(Keys) \in Nat
          BY CountType
        <5> QED
          BY <5>1 DEF MaxProducts, IInv, TypeOK
      <4>2. /\ [wk[w] EXCEPT !.rest = scroll, !.max = MaxProducts] \in Local
            /\ [wk[w] EXCEPT !.rest = scroll, !.max = MaxProducts].msg = wk[w].msg
        BY <2>3, <4>1 DEF Local, IInv, TypeOK
      <4>3. /\ [wk[w] EXCEPT !.more = approved + rejected + 1 < total] \in Local
            /\ [wk[w] EXCEPT !.more = approved + rejected + 1 < total].msg = wk[w].msg
        <5>1. (approved + rejected + 1 < total) \in BOOLEAN
          OBVIOUS
        <5> QED
          BY <2>3, <5>1 DEF Local
      <4> QED
        BY <2>11, <2>3, <4>2, <4>3 DEF Reread
    <3> QED
      BY <1>6, <1>8, <3>1
  <2>12. CASE PickItem(w)
    <3>1. PICK k \in Offered :
            LET attempts == IF cycle[k] < LargestBudget THEN cycle[k] + 1 ELSE cycle[k]
            IN  GotoWith(w, IF item[k] = "RECONCILING" THEN "reconcile" ELSE "prepare",
                            [wk[w] EXCEPT !.key = k, !.cyc = attempts])
      BY <2>12 DEF PickItem
    <3> DEFINE attempts == IF cycle[k] < LargestBudget THEN cycle[k] + 1 ELSE cycle[k]
    <3>2. k \in Keys
      BY DEF Offered, InState
    <3>3. attempts \in 0 .. LargestBudget
      BY <3>2, BudgetType DEF IInv, TypeOK
    <3>4. /\ [wk[w] EXCEPT !.key = k, !.cyc = attempts] \in Local
          /\ [wk[w] EXCEPT !.key = k, !.cyc = attempts].msg = wk[w].msg
      BY <2>3, <3>2, <3>3 DEF Local
    <3> QED
      BY <1>8, <3>1, <3>4
  <2> QED
    BY <1>9, <2>1, <2>2, <2>7, <2>8, <2>9, <2>10, <2>11, <2>12 DEF Work
<1> QED
  BY <1>2, <1>3, <1>4, <1>5, <1>9 DEF Next

\* What LeaseInv says of one invocation.
LeaseFine(w) == AtWork(w) => HoldsLease(w) /\ FindsJob(w) /\ FindsItem(w)

\* A step after which no invocation is at work.
LEMMA LeaseIdle ==
    ASSUME \A v \in Workers : ~AtWork(v)', AllContinue', PostedNeverRejected'
    PROVE  LeaseInv'
BY DEF LeaseInv

\* A step that leaves the job and the items alone, and the invocations at work
\* as they are unless they leave.
LEMMA LeaseAside ==
    ASSUME IInv, LeaseInv, AllContinue', UNCHANGED <<status, token, item, posted>>,
           \A v \in Workers : AtWork(v)' =>
             AtWork(v) /\ pc'[v] = pc[v] /\ wk'[v] = wk[v] /\ lock' = lock
    PROVE  LeaseInv'
<1>1. PostedNeverRejected'
  BY DEF LeaseInv, PostedNeverRejected
<1>2. ASSUME NEW v \in Workers, AtWork(v)'
      PROVE  HoldsLease(v)' /\ FindsJob(v)' /\ FindsItem(v)'
  <2>1. /\ pc'[v] = pc[v] /\ wk'[v] = wk[v] /\ lock' = lock
        /\ HoldsLease(v) /\ FindsJob(v) /\ FindsItem(v)
    BY <1>2 DEF LeaseInv
  <2>2. HoldsLease(v)'
    BY <2>1 DEF HoldsLease
  <2>3. FindsJob(v)'
    BY <2>1 DEF FindsJob
  <2>4. FindsItem(v)'
    BY <2>1 DEF FindsItem, Result
  <2> QED
    BY <2>2, <2>3, <2>4
<1> QED
  BY <1>1, <1>2 DEF LeaseInv

\* The only invocation at work gives up, or has its item judged or put back.
LEMMA LeaseReturned ==
    ASSUME IInv, LeaseInv, AllContinue', PostedNeverRejected',
           NEW w \in Workers, AtWork(w), NEW b, Return(w, b)
    PROVE  LeaseInv'
<1>1. pc'[w] = "idle" /\ \A v \in Workers \ {w} : pc'[v] = pc[v]
  BY Ended
<1>2. \A v \in Workers \ {w} : ~AtWork(v)
  BY DEF LeaseInv, HoldsLease
<1>3. \A v \in Workers : ~AtWork(v)'
  BY <1>1, <1>2 DEF AtWork
<1> QED
  BY <1>3, LeaseIdle

\* The only invocation at work goes on with the lease.
LEMMA LeaseMoved ==
    ASSUME IInv, LeaseInv, AllContinue', PostedNeverRejected',
           NEW w \in Workers, AtWork(w), NEW stage, NEW local,
           (Goto(w, stage) /\ local = wk[w]) \/ GotoWith(w, stage, local),
           local.msg = wk[w].msg,
           UNCHANGED <<token, lock>>,
           stage \notin {"rediscover", "pauseSingle"},
           FindsJob(w)', FindsItem(w)'
    PROVE  LeaseInv'
<1>1. /\ \A v \in Workers \ {w} : pc'[v] = pc[v] /\ wk'[v] = wk[v]
      /\ pc'[w] = stage /\ wk'[w] = local
  BY Moved
<1>2. \A v \in Workers \ {w} : ~AtWork(v)'
  BY <1>1 DEF LeaseInv, HoldsLease, AtWork
<1>3. HoldsLease(w)'
  BY <1>1, <1>2 DEF LeaseInv, HoldsLease
<1> QED
  BY <1>2, <1>3 DEF LeaseInv

\* Initially no invocation is at work and no item has a verdict.
LEMMA LeaseInit == Init => LeaseInv
BY DEF Init, LeaseInv, AllContinue, AtWork, PostedNeverRejected, Blank

\* Steps of the user, of time and of the store.
LEMMA LeaseOutside ==
    ASSUME Discipline, IInv, LeaseInv, AllContinue',
           \/ StartNewJob \/ StartAgain \/ Resume \/ LeaseExpires \/ RunDue
           \/ \E k \in Keys : LatePost(k) \/ ShopIndexes(k)
           \/ UNCHANGED vars
    PROVE  LeaseInv'
<1> USE DEF jobVars, itemVars, linkVars, shopVars, workerVars
<1>1. CASE \/ StartAgain \/ RunDue \/ UNCHANGED vars
           \/ \E k \in Keys : LatePost(k) \/ ShopIndexes(k)
  <2>1. UNCHANGED <<status, token, lock, item, posted, pc, wk>>
    BY <1>1 DEF StartAgain, RunDue, LatePost, ShopIndexes, vars
  <2> QED
    BY <2>1, LeaseAside DEF AtWork
<1>2. CASE LeaseExpires
  <2>1. UNCHANGED <<status, token, item, posted, pc, wk>> /\ \A w \in Workers : ~AtWork(w)
    BY <1>2 DEF LeaseExpires, Discipline, AtWork
  <2> QED
    BY <2>1, LeaseAside DEF AtWork
<1>3. CASE StartNewJob
  <2>1. UNCHANGED <<item, posted, pc, wk>> /\ status = "NONE"
    BY <1>3 DEF StartNewJob
  <2>2. \A w \in Workers : ~AtWork(w)
    <3> SUFFICES ASSUME NEW w \in Workers, AtWork(w) PROVE FALSE
      OBVIOUS
    <3>1. HoldsLease(w) /\ FindsJob(w) /\ pc[w] \in Stage
      BY DEF LeaseInv, IInv, TypeOK
    <3> QED
      BY <2>1, <3>1 DEF HoldsLease, FindsJob, AtWork, Stage, OnItem
  <2>3. PostedNeverRejected'
    BY <2>1 DEF LeaseInv, PostedNeverRejected
  <2> QED
    BY <2>1, <2>2, <2>3, LeaseIdle DEF AtWork
<1>4. CASE Resume
  <2>1. UNCHANGED <<posted, pc, wk>> /\ lock = "none" /\ RecoverItems
    BY <1>4 DEF Resume
  <2>2. \A w \in Workers : ~AtWork(w)
    BY <2>1 DEF LeaseInv, HoldsLease
  <2>3. PostedNeverRejected'
    BY <2>1 DEF LeaseInv, PostedNeverRejected, RecoverItems, Recovered
  <2> QED
    BY <2>1, <2>2, <2>3, LeaseIdle DEF AtWork
<1> QED
  BY <1>1, <1>2, <1>3, <1>4

\* The delivery, the death and the duplication of a message.
LEMMA LeaseDelivery ==
    ASSUME IInv, LeaseInv, AllContinue', NEW w \in Workers, Observe(w) \/ Crash(w) \/ Redeliver(w)
    PROVE  LeaseInv'
<1> USE DEF jobVars, itemVars, linkVars, shopVars
<1>1. UNCHANGED <<status, token, lock, item, posted>>
  BY DEF Observe, Crash, Redeliver
<1>2. \A v \in Workers \ {w} : pc'[v] = pc[v] /\ wk'[v] = wk[v]
  BY DEF Observe, Crash, Redeliver, Throw, Return, Leave, IInv, TypeOK
<1>3. ~AtWork(w)' \/ (pc'[w] = pc[w] /\ wk'[w] = wk[w])
  BY DEF Observe, Crash, Redeliver, Throw, Return, Leave, IInv, TypeOK, AtWork
<1>4. \A v \in Workers : AtWork(v)' => AtWork(v) /\ pc'[v] = pc[v] /\ wk'[v] = wk[v]
  BY <1>2, <1>3 DEF AtWork
<1> QED
  BY <1>1, <1>4, LeaseAside

\* The claim of the job, the choice of an item and the discovery.
LEMMA LeaseClaim ==
    ASSUME Discipline, IInv, LeaseInv, AllContinue', NEW w \in Workers,
           \/ ClaimJob(w) \/ ClaimDenied(w) \/ Reread(w) \/ PickItem(w) \/ PickNothing(w)
           \/ DiscoverPage(w) \/ DiscoveryFails(w)
    PROVE  LeaseInv'
<1> USE DEF jobVars, itemVars, linkVars, shopVars
<1>0. wk[w] \in Local
  BY DEF IInv, TypeOK
<1>1. CASE ClaimJob(w)
  <2>1. /\ lock # "live" /\ lock' = "live" /\ wk[w].msg.token = token /\ token' = token
        /\ status' \in {"DISCOVERING", "RUNNING"} /\ posted' = posted
        /\ pc' = [pc EXCEPT ![w] = "claimed"] /\ wk' = wk /\ RecoverItems
    BY <1>1 DEF ClaimJob, Claimable, Goto
  <2>2. \A v \in Workers : ~AtWork(v)
    BY <2>1 DEF LeaseInv, HoldsLease
  <2>3. pc'[w] = "claimed" /\ \A v \in Workers \ {w} : ~AtWork(v)'
    BY <2>1, <2>2 DEF AtWork, IInv, TypeOK
  <2>4. HoldsLease(w)'
    BY <2>1, <2>3 DEF HoldsLease
  <2>5. FindsJob(w)' /\ FindsItem(w)'
    BY <2>1, <2>3 DEF FindsJob, FindsItem, OnItem
  <2>6. PostedNeverRejected'
    BY <2>1 DEF LeaseInv, PostedNeverRejected, RecoverItems, Recovered
  <2> QED
    BY <2>3, <2>4, <2>5, <2>6 DEF LeaseInv
<1>2. CASE ClaimDenied(w)
  <2>1. /\ UNCHANGED <<status, token, lock, item, posted>>
        /\ \A v \in Workers : AtWork(v)' => AtWork(v) /\ pc'[v] = pc[v] /\ wk'[v] = wk[v]
    BY <1>2 DEF ClaimDenied, Return, Leave, AtWork, IInv, TypeOK
  <2> QED
    BY <2>1, LeaseAside
<1>3. ASSUME item' = item, posted' = posted PROVE PostedNeverRejected'
  BY <1>3 DEF LeaseInv, PostedNeverRejected
<1>4. CASE Reread(w)
  <2>1. /\ UNCHANGED <<status, token, lock, item, posted>> /\ pc[w] = "claimed" /\ AtWork(w)
        /\ FindsJob(w)
    BY <1>4 DEF Reread, AtWork, LeaseInv
  <2>2. CASE \E b : Return(w, b)
    BY <1>3, <2>1, <2>2, LeaseReturned
  <2>3. CASE \E r, m : GotoWith(w, "discover", [wk[w] EXCEPT !.rest = r, !.max = m])
                         /\ status = "DISCOVERING"
    <3>1. PICK r, m : GotoWith(w, "discover", [wk[w] EXCEPT !.rest = r, !.max = m])
                         /\ status = "DISCOVERING"
      BY <2>3
    <3>2. [wk[w] EXCEPT !.rest = r, !.max = m].msg = wk[w].msg
      BY <1>0 DEF Local
    <3>3. pc'[w] = "discover"
      BY <3>1 DEF GotoWith, IInv, TypeOK
    <3>4. FindsJob(w)' /\ FindsItem(w)'
      BY <2>1, <3>1, <3>3 DEF FindsJob, FindsItem, OnItem
    <3>5. PICK local : GotoWith(w, "discover", local) /\ local.msg = wk[w].msg
      BY <3>1, <3>2
    <3> QED
      BY <1>3, <2>1, <3>4, <3>5, LeaseMoved
  <2>4. CASE \E b : GotoWith(w, "pick", [wk[w] EXCEPT !.more = b]) /\ status # "DISCOVERING"
    <3>1. PICK b : GotoWith(w, "pick", [wk[w] EXCEPT !.more = b]) /\ status # "DISCOVERING"
      BY <2>4
    <3>2. [wk[w] EXCEPT !.more = b].msg = wk[w].msg
      BY <1>0 DEF Local
    <3>3. pc'[w] = "pick"
      BY <3>1 DEF GotoWith, IInv, TypeOK
    <3>4. FindsJob(w)' /\ FindsItem(w)'
      BY <2>1, <3>1, <3>3 DEF FindsJob, FindsItem, OnItem
    <3>5. PICK local : GotoWith(w, "pick", local) /\ local.msg = wk[w].msg
      BY <3>1, <3>2
    <3> QED
      BY <1>3, <2>1, <3>4, <3>5, LeaseMoved
  <2> QED
    BY <1>4, <2>2, <2>3, <2>4 DEF Reread
<1>5. CASE PickItem(w)
  <2>1. /\ UNCHANGED <<status, token, lock, posted>> /\ pc[w] = "pick" /\ AtWork(w)
        /\ FindsJob(w)
    BY <1>5 DEF PickItem, AtWork, LeaseInv
  <2>2. PICK k \in Offered : \E n :
          /\ item' = [item EXCEPT ![k] = "PROCESSING"]
          /\ GotoWith(w, IF item[k] = "RECONCILING" THEN "reconcile" ELSE "prepare",
                      [wk[w] EXCEPT !.key = k, !.cyc = n])
    BY <1>5 DEF PickItem
  <2>3. PICK n :
          /\ item' = [item EXCEPT ![k] = "PROCESSING"]
          /\ GotoWith(w, IF item[k] = "RECONCILING" THEN "reconcile" ELSE "prepare",
                      [wk[w] EXCEPT !.key = k, !.cyc = n])
    BY <2>2
  <2>4. k \in Keys /\ item[k] \in {"RECONCILING", "PENDING"}
    BY DEF Offered, InState
  <2>5. /\ [wk[w] EXCEPT !.key = k, !.cyc = n].msg = wk[w].msg
        /\ [wk[w] EXCEPT !.key = k, !.cyc = n].key = k
    BY <1>0 DEF Local
  <2>6. /\ pc'[w] = IF item[k] = "RECONCILING" THEN "reconcile" ELSE "prepare"
        /\ wk'[w].key = k
    BY <2>3, <2>5 DEF GotoWith, IInv, TypeOK
  <2>7. item[k] = "PENDING" => ~posted[k]
    BY <2>4, Fine DEF AllFine, ItemFine
  <2>8. FindsJob(w)' /\ FindsItem(w)'
    BY <2>1, <2>3, <2>4, <2>6, <2>7 DEF FindsJob, FindsItem, OnItem, IInv, TypeOK
  <2>9. PostedNeverRejected'
    BY <2>1, <2>3, <2>4 DEF LeaseInv, PostedNeverRejected, IInv, TypeOK
  <2>10. PICK stage \in {"reconcile", "prepare"} : \E local :
           GotoWith(w, stage, local) /\ local.msg = wk[w].msg
    BY <2>3, <2>5
  <2> QED
    BY <2>1, <2>8, <2>9, <2>10, LeaseMoved
<1>6. CASE PickNothing(w) \/ DiscoveryFails(w)
  <2>1. UNCHANGED <<item, posted>> /\ AtWork(w) /\ \E b : Return(w, b)
    BY <1>6 DEF PickNothing, DiscoveryFails, AtWork
  <2> QED
    BY <1>3, <2>1, LeaseReturned
<1>7. CASE DiscoverPage(w)
  <2>1. AtWork(w) /\ Return(w, TRUE) /\ posted' = posted
    BY <1>7 DEF DiscoverPage, Discipline, Fault, AtWork
  <2>2. PostedNeverRejected'
    <3>1. PICK left \in Ahead(wk[w].rest) : \E page \in SUBSET left, finished \in BOOLEAN :
            \E kept \in SUBSET page : RecordPage(kept, left \ page, finished)
      BY <1>7 DEF DiscoverPage
    <3>2. \E new : item' = [i \in Keys |-> IF i \in new THEN "PENDING" ELSE item[i]]
      BY <3>1 DEF RecordPage
    <3> QED
      BY <2>1, <3>2 DEF LeaseInv, PostedNeverRejected
  <2> QED
    BY <2>1, <2>2, LeaseReturned
<1> QED
  BY <1>1, <1>2, <1>4, <1>5, <1>6, <1>7

\* The work on an item up to its verdict.
LEMMA LeaseWork ==
    ASSUME Discipline, IInv, LeaseInv, AllContinue', NEW w \in Workers,
           \/ PrePostError(w) \/ Reserve(w) \/ MatchSku(w) \/ MarkPostStarted(w)
           \/ PostProduct(w) \/ CompleteLink(w) \/ ReadLink(w) \/ Confirm(w)
           \/ ReconcileError(w)
    PROVE  LeaseInv'
<1> USE DEF jobVars, itemVars, linkVars, shopVars
<1>0. wk[w] \in Local
  BY DEF IInv, TypeOK
<1>1. /\ pc[w] \in OnItem /\ AtWork(w) /\ UNCHANGED <<status, lock, token, item>>
      /\ FindsJob(w) /\ FindsItem(w)
  BY DEF PrePostError, Reserve, MatchSku, MarkPostStarted, PostProduct, CompleteLink,
         ReadLink, Confirm, ReconcileError, OnItem, AtWork, LeaseInv
<1>a. wk[w].key \in Keys
  BY <1>1, Fine DEF AllFine, WorkerFine
<1>b. PICK k \in Keys : k = wk[w].key
  BY <1>a
<1>2. status = "RUNNING" /\ item[k] = "PROCESSING"
  BY <1>b, <1>1 DEF FindsJob, FindsItem
<1>3. PostedNeverRejected'
  <2>1. posted' = posted \/ posted' = [posted EXCEPT ![k] = TRUE]
    BY <1>b DEF PrePostError, Reserve, MatchSku, MarkPostStarted, PostProduct, CompleteLink,
                ReadLink, Confirm, ReconcileError
  <2> QED
    BY <1>1, <1>2, <2>1 DEF LeaseInv, PostedNeverRejected, IInv, TypeOK
\* where the invocation goes, and with what
<1>4. ASSUME NEW stage \in OnItem, NEW local,
             (Goto(w, stage) /\ local = wk[w]) \/ GotoWith(w, stage, local),
             local.msg = wk[w].msg, local.key = wk[w].key,
             stage \in {"prepare", "match", "mark", "handle"} => ~posted'[k],
             stage \in {"post", "link"} => local.sent, stage # "commit",
             stage = "finish" =>
               (local.verdict \in {"CREATED", "ALREADY_EXISTS"} /\ local.sent) \/ ~posted'[k]
      PROVE  LeaseInv'
  <2>1. pc'[w] = stage /\ wk'[w] = local
    BY <1>4, Moved
  <2>2. FindsJob(w)'
    BY <1>1, <1>2, <1>4, <2>1 DEF FindsJob, OnItem
  <2>3. FindsItem(w)'
    BY <1>b, <1>1, <1>2, <1>4, <2>1 DEF FindsItem, Result, AllErrors
  <2>4. stage \notin {"rediscover", "pauseSingle"}
    BY <1>4 DEF OnItem
  <2> QED
    BY <1>1, <1>3, <1>4, <2>2, <2>3, <2>4, LeaseMoved
<1>5. \A v : /\ [wk[w] EXCEPT !.verdict = v].msg = wk[w].msg
             /\ [wk[w] EXCEPT !.verdict = v].key = wk[w].key
             /\ [wk[w] EXCEPT !.verdict = v].verdict = v
             /\ wk[w].sent => [wk[w] EXCEPT !.verdict = v].sent
             /\ [wk[w] EXCEPT !.verdict = v, !.sent = TRUE].msg = wk[w].msg
             /\ [wk[w] EXCEPT !.verdict = v, !.sent = TRUE].key = wk[w].key
             /\ [wk[w] EXCEPT !.verdict = v, !.sent = TRUE].verdict = v
             /\ [wk[w] EXCEPT !.verdict = v, !.sent = TRUE].sent
             /\ [wk[w] EXCEPT !.sent = TRUE].sent
             /\ [wk[w] EXCEPT !.sent = TRUE].msg = wk[w].msg
             /\ [wk[w] EXCEPT !.sent = TRUE].key = wk[w].key
  BY <1>0 DEF Local
<1>6. CASE PrePostError(w) \/ Reserve(w) \/ MatchSku(w)
  <2>1. ~posted'[k]
    BY <1>b, <1>1, <1>6 DEF FindsItem, PrePostError, Reserve, MatchSku
  <2>2. ASSUME NEW stage \in {"finish", "handle"}, NEW v, GotoWith(w, stage, [wk[w] EXCEPT !.verdict = v])
        PROVE  LeaseInv'
    <3>0. /\ GotoWith(w, stage, [wk[w] EXCEPT !.verdict = v])
          /\ [wk[w] EXCEPT !.verdict = v].msg = wk[w].msg
          /\ [wk[w] EXCEPT !.verdict = v].key = wk[w].key
      BY <1>5, <2>2
    <3>1. PICK local : GotoWith(w, stage, local) /\ local.msg = wk[w].msg /\ local.key = wk[w].key
      BY <3>0
    <3> QED
      BY <1>4, <2>1, <2>2, <3>1 DEF OnItem
  <2>3. ASSUME NEW stage \in {"match", "mark"}, Goto(w, stage) PROVE LeaseInv'
    BY <1>4, <2>1, <2>3 DEF OnItem
  <2> QED
    BY <1>6, <2>2, <2>3 DEF PrePostError, Reserve, MatchSku
<1>7. CASE MarkPostStarted(w)
  <2>1. ~posted[k] /\ MayMark(k)
    BY <1>b, <1>1, <1>2, <1>7 DEF FindsItem, MarkPostStarted, MayMark
  <2>2. GotoWith(w, "post", [wk[w] EXCEPT !.sent = TRUE])
    BY <1>b, <1>7, <2>1 DEF MarkPostStarted, Discipline, Fault
  <2> QED
    BY <1>4, <1>5, <2>2 DEF OnItem
<1>8. CASE PostProduct(w) \/ CompleteLink(w) \/ ReadLink(w) \/ Confirm(w) \/ ReconcileError(w)
  <2>0. pc[w] \in {"post", "link"} => wk[w].sent
    BY <1>1 DEF FindsItem
  <2>1. ASSUME NEW v \in {"CREATED", "ALREADY_EXISTS"},
               \/ GotoWith(w, "finish", [wk[w] EXCEPT !.verdict = v]) /\ wk[w].sent
               \/ GotoWith(w, "finish", [wk[w] EXCEPT !.verdict = v, !.sent = TRUE])
        PROVE  LeaseInv'
    <3>1. PICK local : /\ GotoWith(w, "finish", local) /\ local.msg = wk[w].msg
                       /\ local.key = wk[w].key /\ local.verdict = v /\ local.sent
      <4>1. CASE GotoWith(w, "finish", [wk[w] EXCEPT !.verdict = v]) /\ wk[w].sent
        BY <1>5, <4>1
      <4>2. CASE GotoWith(w, "finish", [wk[w] EXCEPT !.verdict = v, !.sent = TRUE])
        BY <1>5, <4>2
      <4> QED
        BY <2>1, <4>1, <4>2
    <3> QED
      BY <1>4, <2>1, <3>1 DEF OnItem
  <2>2. ASSUME NEW stage \in {"confirm", "defer"}, Goto(w, stage) PROVE LeaseInv'
    BY <1>4, <2>2 DEF OnItem
  <2>3. ASSUME wk[w].sent, Goto(w, "link") PROVE LeaseInv'
    BY <1>4, <2>3 DEF OnItem
  <2>4. CASE PostProduct(w) \/ CompleteLink(w)
    BY <2>0, <2>1, <2>2, <2>3, <2>4 DEF PostProduct, CompleteLink
  <2>5. CASE ReadLink(w) \/ Confirm(w) \/ ReconcileError(w)
    BY <2>1, <2>2, <2>5 DEF ReadLink, Confirm, ReconcileError
  <2> QED
    BY <1>8, <2>4, <2>5
<1> QED
  BY <1>6, <1>7, <1>8

\* The end of an item gives the lease back, but for a finish that begins or fails.
LEMMA LeaseEnd ==
    ASSUME Discipline, IInv, LeaseInv, AllContinue', NEW w \in Workers,
           \/ Finish(w) \/ Commit(w) \/ PauseSingle(w) \/ HandleReject(w) \/ HandlePause(w)
           \/ HandleRetry(w) \/ Defer(w)
    PROVE  LeaseInv'
<1> USE DEF jobVars, itemVars, linkVars, shopVars
<1>0. /\ AtWork(w) /\ posted' = posted /\ token' = token
      /\ HoldsLease(w) /\ FindsJob(w) /\ FindsItem(w) /\ wk[w].msg.mode = "CONTINUE"
  BY DEF Finish, Commit, PauseSingle, HandleReject, HandlePause, HandleRetry, Defer, AtWork,
         LeaseInv, AllContinue
<1>1. pc[w] # "pauseSingle"
  BY <1>0 DEF HoldsLease
<1>a. wk[w].key \in Keys
  BY <1>1, Fine DEF AllFine, WorkerFine, OnItem, Finish, Commit, PauseSingle, HandleReject,
                    HandlePause, HandleRetry, Defer
<1>b. PICK k \in Keys : k = wk[w].key
  BY <1>a
<1>2. item[k] = "PROCESSING" /\ status = "RUNNING" /\ wk[w] \in Local
  BY <1>b, <1>0, <1>1 DEF FindsItem, FindsJob, OnItem, Finish, Commit, PauseSingle, HandleReject,
                          HandlePause, HandleRetry, Defer, IInv, TypeOK
<1>3. PostedNeverRejected'
  <2>1. \/ item' = item
        \/ \E s : item' = [item EXCEPT ![k] = s] /\ (s = "REJECTED" => ~posted[k])
    BY <1>b, <1>0, <1>1 DEF Finish, Commit, PauseSingle, HandleReject, HandlePause, HandleRetry,
                            Defer, FinishItem, FindsItem
  <2> QED
    BY <1>0, <2>1 DEF LeaseInv, PostedNeverRejected, IInv, TypeOK
<1>4. CASE \E b : Return(w, b)
  BY <1>0, <1>3, <1>4, LeaseReturned
<1>5. CASE Begins(w)
  <2>1. PICK local : /\ GotoWith(w, "commit", local) /\ local.msg = wk[w].msg /\ local.key = k
                     /\ local.verdict = wk[w].verdict /\ local.sent = wk[w].sent
    <3>1. LET local == [wk[w] EXCEPT !.tally = Tally(w)]
          IN  /\ GotoWith(w, "commit", local) /\ local.msg = wk[w].msg /\ local.key = k
              /\ local.verdict = wk[w].verdict /\ local.sent = wk[w].sent
      BY <1>b, <1>2, <1>5 DEF Begins, Begin, Local
    <3> QED
      BY <3>1
  <2>2. pc'[w] = "commit" /\ wk'[w] = local
    BY <2>1, Moved
  <2>3. UNCHANGED <<status, lock, item>> /\ pc[w] \in {"finish", "handle"}
    BY <1>5 DEF Begins
  <2>4. FindsJob(w)'
    BY <1>2, <2>2, <2>3 DEF FindsJob
  <2>5. FindsItem(w)'
    BY <1>0, <1>2, <1>b, <2>1, <2>2, <2>3 DEF FindsItem, Result
  <2> QED
    BY <1>0, <1>3, <2>1, <2>3, <2>4, <2>5, LeaseMoved
<1>6. CASE Commit(w) /\ ~\E b : Return(w, b)
  <2>1. PICK stage, verdict :
          /\ GotoWith(w, stage, [wk[w] EXCEPT !.verdict = verdict, !.tally = NoTally])
          /\ UNCHANGED <<item, status, lock>> /\ pc[w] = "commit"
          /\ \/ stage = "defer"
             \/ stage = "handle" /\ ~wk[w].sent
    BY <1>0, <1>6 DEF Commit, AfterTerminal, FinishFails, Throw, Discipline, Fault
  <2>2. PICK local : GotoWith(w, stage, local) /\ local.msg = wk[w].msg /\ local.key = k
    <3>1. LET local == [wk[w] EXCEPT !.verdict = verdict, !.tally = NoTally]
          IN  GotoWith(w, stage, local) /\ local.msg = wk[w].msg /\ local.key = k
      BY <1>b, <1>2, <2>1 DEF Local
    <3> QED
      BY <3>1
  <2>3. pc'[w] = stage /\ wk'[w] = local
    BY <2>2, Moved
  <2>4. FindsJob(w)'
    BY <1>2, <2>1, <2>3 DEF FindsJob
  <2>5. FindsItem(w)'
    BY <1>0, <1>2, <1>b, <2>1, <2>2, <2>3 DEF FindsItem
  <2> QED
    BY <1>0, <1>3, <2>1, <2>2, <2>4, <2>5, LeaseMoved
<1>7. Commit(w) \/ Begins(w) \/ \E b : Return(w, b)
  BY <1>b, <1>1, <1>2, Endings DEF Begins, Finish, PauseSingle, HandleReject, HandlePause,
                                   HandleRetry, Defer, Throw
<1> QED
  BY <1>4, <1>5, <1>6, <1>7

\* Every step keeps the discipline.
LEMMA LeaseStep ==
    ASSUME Discipline, IInv, LeaseInv, [Next]_vars
    PROVE  LeaseInv'
<1>1. AllContinue'
  BY ContinueStep DEF LeaseInv
<1> QED
  BY <1>1, LeaseOutside, LeaseDelivery, LeaseClaim, LeaseWork, LeaseEnd DEF Next, Work

\* LeaseInv: under the discipline, one invocation at a time works on the job.
THEOREM OneAtATime == ASSUME Discipline PROVE Spec => []LeaseInv
<1>1. Init => LeaseInv
  BY LeaseInit
<1>2. IInv /\ LeaseInv /\ [Next]_vars => LeaseInv'
  BY LeaseStep
<1> QED
  BY <1>1, <1>2, Invariance, PTL DEF Spec

\* Only a job that is discovered or migrated has an invocation at work.
LEMMA IdleUnless ==
    ASSUME IInv, LeaseInv, status \notin {"DISCOVERING", "RUNNING"}
    PROVE  \A w \in Workers : ~AtWork(w)
<1> SUFFICES ASSUME NEW w \in Workers, AtWork(w) PROVE FALSE
  OBVIOUS
<1>1. HoldsLease(w) /\ FindsJob(w) /\ pc[w] \in Stage
  BY DEF LeaseInv, IInv, TypeOK
<1> QED
  BY <1>1 DEF HoldsLease, FindsJob, AtWork, Stage, OnItem

\* PostedNeverRejected: an item whose POST may have left is never rejected.
THEOREM PostedStays == ASSUME Discipline PROVE Spec => []PostedNeverRejected
<1>1. LeaseInv => PostedNeverRejected
  BY DEF LeaseInv
<1> QED
  BY <1>1, OneAtATime, PTL

\* ResumeRevokesCreation: whoever POSTs has the token of the job, also after a
\* resume has changed it.
THEOREM TokenToCreate == ASSUME Discipline PROVE Spec => ResumeRevokesCreation
<1>1. LeaseInv /\ [Next]_vars =>
        [\A w \in Workers : PostProduct(w) => wk[w].msg.token = token]_vars
  <2> SUFFICES ASSUME LeaseInv, NEW w \in Workers, PostProduct(w)
               PROVE  wk[w].msg.token = token
    OBVIOUS
  <2>1. AtWork(w)
    BY DEF PostProduct, AtWork
  <2> QED
    BY <2>1 DEF LeaseInv, HoldsLease
<1> QED
  BY <1>1, OneAtATime, PTL DEF Spec, ResumeRevokesCreation

\* A completed job has nobody at work, and cannot be claimed any more.
LEMMA CompletedStep ==
    ASSUME IInv, LeaseInv, [Next]_vars, status \in Completed
    PROVE  status' = status
<1> USE DEF jobVars, itemVars, linkVars, shopVars, workerVars
<1>1. \A w \in Workers : pc[w] \in {"idle", "observed"}
  BY IdleUnless DEF Completed, AtWork
<1>2. CASE \/ StartNewJob \/ StartAgain \/ Resume \/ LeaseExpires \/ RunDue \/ UNCHANGED vars
           \/ \E k \in Keys : LatePost(k) \/ ShopIndexes(k)
  BY <1>2 DEF StartNewJob, StartAgain, Resume, LeaseExpires, RunDue, LatePost, ShopIndexes,
              vars, Completed
<1>3. ASSUME NEW w \in Workers, Observe(w) \/ Crash(w) \/ Redeliver(w) PROVE status' = status
  BY <1>3 DEF Observe, Crash, Redeliver
<1>4. ASSUME NEW w \in Workers, ClaimJob(w) \/ ClaimDenied(w) PROVE status' = status
  BY <1>4 DEF ClaimJob, Claimable, ClaimDenied, Completed
<1>5. ASSUME NEW w \in Workers,
             \/ Reread(w) \/ PickItem(w) \/ PickNothing(w) \/ DiscoverPage(w) \/ DiscoveryFails(w)
             \/ PrePostError(w) \/ Reserve(w) \/ MatchSku(w) \/ MarkPostStarted(w)
             \/ PostProduct(w) \/ CompleteLink(w) \/ ReadLink(w) \/ Confirm(w)
             \/ ReconcileError(w)
             \/ Finish(w) \/ Commit(w) \/ PauseSingle(w) \/ HandleReject(w) \/ HandlePause(w)
             \/ HandleRetry(w) \/ Defer(w)
      PROVE  FALSE
  BY <1>1, <1>5 DEF Reread, PickItem, PickNothing, DiscoverPage, DiscoveryFails, PrePostError,
                    Reserve, MatchSku, MarkPostStarted, PostProduct, CompleteLink, ReadLink,
                    Confirm, ReconcileError, Finish, Commit, PauseSingle, HandleReject, HandlePause,
                    HandleRetry, Defer
<1> QED
  BY <1>2, <1>3, <1>4, <1>5 DEF Next, Work

\* CompletedIsFinal: no late delivery pauses, requeues or rediscovers a completed job.
THEOREM CompletedStands == ASSUME Discipline PROVE Spec => CompletedIsFinal
<1>1. IInv /\ LeaseInv /\ [Next]_vars => [(status \in Completed) => (status' \in Completed)]_vars
  <2> SUFFICES ASSUME IInv, LeaseInv, [Next]_vars, status \in Completed
               PROVE  status' \in Completed
    OBVIOUS
  <2> QED
    BY CompletedStep
<1> QED
  BY <1>1, Invariance, OneAtATime, PTL DEF Spec, CompletedIsFinal

-----------------------------------------------------------------------------
(* The progress under the discipline: nothing comes between a count and its  *)
(* commit, so the counters are exact.                                        *)

ExactInv == ProgressIsTrue /\ \A w \in Workers : pc[w] = "commit" => wk[w].tally = Tally(w)

\* While an invocation finishes an item no other changes one.
LEMMA ItemsStayWhile ==
    ASSUME IInv, LeaseInv, [Next]_vars, NEW v \in Workers, pc[v] = "commit", pc'[v] = "commit"
    PROVE  item' = item
<1> USE DEF jobVars, itemVars, linkVars, shopVars, workerVars
<1>0. Locked # {} /\ AtWork(v) /\ \A w \in Workers : AtWork(w) => w = v
  BY DEF Locked, AtWork, LeaseInv, HoldsLease
<1>1. CASE \/ StartNewJob \/ StartAgain \/ LeaseExpires \/ RunDue \/ UNCHANGED vars
           \/ \E k \in Keys : LatePost(k) \/ ShopIndexes(k)
  BY <1>1 DEF StartNewJob, StartAgain, LeaseExpires, RunDue, LatePost, ShopIndexes, vars
<1>2. CASE Resume \/ \E w \in Workers : ClaimJob(w)
  BY <1>0, <1>2 DEF Resume, ClaimJob
<1>3. ASSUME NEW w \in Workers, Observe(w) \/ Crash(w) \/ Redeliver(w) \/ ClaimDenied(w)
      PROVE  item' = item
  BY <1>3 DEF Observe, Crash, Redeliver, ClaimDenied
<1>4. ASSUME NEW w \in Workers,
             \/ Reread(w) \/ PickItem(w) \/ PickNothing(w) \/ DiscoverPage(w) \/ DiscoveryFails(w)
             \/ PrePostError(w) \/ Reserve(w) \/ MatchSku(w) \/ MarkPostStarted(w)
             \/ PostProduct(w) \/ CompleteLink(w) \/ ReadLink(w) \/ Confirm(w)
             \/ ReconcileError(w) \/ Finish(w) \/ PauseSingle(w) \/ HandleReject(w)
             \/ HandlePause(w) \/ HandleRetry(w) \/ Defer(w)
      PROVE  FALSE
  <2>1. AtWork(w) /\ pc[w] # "commit"
    BY <1>4 DEF Reread, PickItem, PickNothing, DiscoverPage, DiscoveryFails, PrePostError,
                Reserve, MatchSku, MarkPostStarted, PostProduct, CompleteLink, ReadLink,
                Confirm, ReconcileError, Finish, PauseSingle, HandleReject, HandlePause,
                HandleRetry, Defer, AtWork
  <2> QED
    BY <1>0, <2>1
<1>5. ASSUME NEW w \in Workers, Commit(w) PROVE item' = item
  <2>1. w = v
    BY <1>0, <1>5 DEF Commit, AtWork
  <2>2. ~\E b : Return(w, b)
    BY <2>1, Ended
  <2>3. ~\E stage \in {"pauseSingle", "defer", "handle"} : \E local : GotoWith(w, stage, local)
    BY <2>1, Moved
  <2> QED
    BY <1>5, <2>2, <2>3 DEF Commit, AfterTerminal, FinishFails, Throw
<1> QED
  BY <1>1, <1>2, <1>3, <1>4, <1>5 DEF Next, Work

\* So what it counted stays exact.
LEMMA TallyExactStep ==
    ASSUME IInv, LeaseInv, ExactInv, [Next]_vars, NEW w \in Workers, pc'[w] = "commit"
    PROVE  wk'[w].tally = Tally(w)'
<1>1. CASE Begins(w)
  BY <1>1, TallyOfBegin
<1>2. CASE pc[w] = "commit" /\ wk'[w] = wk[w]
  <2>1. item' = item
    BY <1>2, ItemsStayWhile
  <2>2. Items' = Items /\ \A s : Judged(w, s)' = Judged(w, s)
    BY <1>2, <2>1 DEF Items, Judged, InState, Result
  <2>3. Tally(w)' = Tally(w)
    BY <2>2 DEF Tally
  <2> QED
    BY <1>2, <2>3 DEF ExactInv
<1> QED
  BY <1>1, <1>2, CommitMoves

\* A verdict counted alone is exact, and the last one completes the job.
LEMMA ExactVerdict ==
    ASSUME IInv, FinishesAlone, ExactInv, NEW w \in Workers, Judges(w)
    PROVE  ProgressIsTrue'
<1> DEFINE A == InState("APPROVED")'
           R == InState("REJECTED")'
<1>1. Items' = Items /\ A = Judged(w, "APPROVED") /\ R = Judged(w, "REJECTED")
  BY JudgedBy DEF Terminal
<1>2. wk[w].tally = Tally(w)
  BY DEF ExactInv, Judges
<1>3. /\ wk[w].tally.yes = Cardinality(A) /\ wk[w].tally.no = Cardinality(R)
      /\ wk[w].tally.all = Cardinality(Items)
  BY <1>1, <1>2 DEF Tally
<1>4. /\ A \cup R \subseteq Items /\ A \cap R = {} /\ IsFiniteSet(A) /\ IsFiniteSet(R)
      /\ IsFiniteSet(Items)
  <2>1. A \cup R \subseteq Items' /\ A \cap R = {}
    BY DEF InState, Items
  <2>2. IsFiniteSet(A) /\ IsFiniteSet(R)
    BY JudgedFinite
  <2>3. IsFiniteSet(Items)
    BY KeysAssumption, FS_Subset DEF Items
  <2> QED
    BY <1>1, <2>1, <2>2, <2>3
<1>5. Cardinality(A \cup R) = Cardinality(A) + Cardinality(R)
  <2>1. Cardinality(A \cup R) = Cardinality(A) + Cardinality(R) - Cardinality(A \cap R)
    BY <1>4, FS_Union
  <2>2. Cardinality(A \cap R) = 0
    BY <1>4, FS_EmptySet
  <2>3. Cardinality(A) \in Nat /\ Cardinality(R) \in Nat
    BY <1>4, FS_CardinalityType
  <2> QED
    BY <2>1, <2>2, <2>3
<1>6. Cardinality(A) + Cardinality(R) = Cardinality(Items) => Items = A \cup R
  BY <1>4, <1>5, FS_Subset
<1>7. Cardinality(R) > 0 <=> R # {}
  <2>1. Cardinality(R) \in Nat /\ (Cardinality(R) = 0 <=> R = {})
    BY <1>4, FS_CardinalityType, FS_EmptySet
  <2> QED
    BY <2>1
<1>8. /\ approved' = Cardinality(A) /\ rejected' = Cardinality(R) /\ total' = total
      /\ status' = IF Cardinality(A) + Cardinality(R) = Cardinality(Items)
                     THEN IF Cardinality(R) > 0 THEN "COMPLETED_WITH_REJECTIONS" ELSE "COMPLETED"
                     ELSE "QUEUED"
  BY <1>3 DEF Judges, FinishItem
<1>9. total = Cardinality(Items)
  BY DEF ExactInv, ProgressIsTrue
<1>10. status' \in Completed =>
         Items = A \cup R /\ ((status' = "COMPLETED_WITH_REJECTIONS") <=> (R # {}))
  BY <1>6, <1>7, <1>8 DEF Completed
<1> QED
  BY <1>1, <1>8, <1>9, <1>10 DEF ProgressIsTrue

\* Every step keeps the progress exact.
LEMMA ExactStep ==
    ASSUME IInv, FinishesAlone, ProgressInv, LeaseInv, ExactInv, [Next]_vars
    PROVE  ExactInv'
<1>1. \A w \in Workers : pc'[w] = "commit" => wk'[w].tally = Tally(w)'
  BY TallyExactStep
<1>2. ProgressIsTrue'
  <2>1. CASE KeepsProgress
    BY <2>1, SameVerdicts DEF ExactInv, KeepsProgress, ProgressIsTrue, Completed
  <2>2. CASE StartNewJob
    <3>1. item' = item /\ UNCHANGED <<total, approved, rejected>> /\ status' = "DISCOVERING"
      BY <2>2 DEF StartNewJob, itemVars
    <3>2. Items' = Items /\ \A s : InState(s)' = InState(s)
      BY <3>1 DEF Items, InState
    <3> QED
      BY <3>1, <3>2 DEF ExactInv, ProgressIsTrue, Completed
  <2>3. CASE RecordsPage
    <3>1. PICK page \in SUBSET Keys : \E rest, finished : RecordPage(page, rest, finished)
      BY <2>3 DEF RecordsPage
    <3>2. /\ NothingOverstated' /\ status' \in {"QUEUED", "DISCOVERING"}
          /\ InState("APPROVED")' = InState("APPROVED") /\ InState("REJECTED")' = InState("REJECTED")
      BY <2>3, <3>1, ProgressOfPage DEF RecordsPage, ProgressInv
    <3> QED
      BY <2>3, <3>2 DEF RecordsPage, ExactInv, ProgressIsTrue, NothingOverstated, Completed
  <2>4. ASSUME NEW w \in Workers, PickNothing(w) PROVE ProgressIsTrue'
    <3>1. /\ NothingOverstated' /\ Items' = Items /\ \A s : InState(s)' = InState(s)
          /\ \/ UNCHANGED <<status, approved, rejected>>
             \/ Items = {} /\ status' = "COMPLETED" /\ approved' = 0 /\ rejected' = 0
      BY <2>4, ProgressOfNothing DEF ProgressInv
    <3>2. Items = {} => InState("APPROVED") = {} /\ InState("REJECTED") = {}
      BY DEF Items, InState
    <3> QED
      BY <3>1, <3>2, FS_EmptySet DEF ExactInv, ProgressIsTrue, NothingOverstated, Completed
  <2>5. CASE \E w \in Workers : Judges(w)
    BY <2>5, ExactVerdict
  <2> QED
    BY <2>1, <2>2, <2>3, <2>4, <2>5, ProgressKinds
<1> QED
  BY <1>1, <1>2 DEF ExactInv

\* ProgressIsTrue: as long as no invocation outlives its lease, the counters of the
\* job row are those of its items, and a completed job has only verdicts and says
\* whether some are rejections.
THEOREM ProgressShown == ASSUME Discipline PROVE Spec => []ProgressIsTrue
<1>1. Init => ExactInv
  <2> SUFFICES ASSUME Init PROVE ExactInv
    OBVIOUS
  <2>1. Items = {} /\ InState("APPROVED") = {} /\ InState("REJECTED") = {}
    BY DEF Init, Items, InState
  <2> QED
    BY <2>1, FS_EmptySet DEF Init, ExactInv, ProgressIsTrue, Completed
<1>2. IInv /\ FinishesAlone /\ ProgressInv /\ LeaseInv /\ ExactInv /\ [Next]_vars => ExactInv'
  BY ExactStep
<1>3. IInv /\ FinishesAlone /\ ProgressInv /\ [Next]_vars => ProgressInv'
  BY ProgressStep
<1>4. ExactInv => ProgressIsTrue
  BY DEF ExactInv
<1> QED
  BY <1>1, <1>2, <1>3, <1>4, ProgressInit, Invariance, FinishAlone, OneAtATime, PTL DEF Spec

-----------------------------------------------------------------------------
(* The discovery under the discipline, when no page is fetched and lost and *)
(* no error of the discovery is final.                                       *)

Scanning == Discipline /\ "page" \notin FaultKinds /\ ErrorKinds \subseteq {"auth", "temporary"}

\* A step that neither discovers anything nor ends or begins the discovery.
LEMMA DiscoveryKept ==
    ASSUME DiscoveryInv, UNCHANGED <<limit, scroll>>, Items' = Items,
           \/ status' = status
           \/ {status, status'} \cap {"NONE", "DISCOVERING"} = {},
           \A v \in Workers : pc'[v] = "discover" => pc[v] = "discover" /\ wk'[v] = wk[v]
    PROVE  DiscoveryInv'
BY DEF DiscoveryInv

\* The end of the invocation w, seen from the discovery.
LEMMA DiscoveryReturned ==
    ASSUME IInv, NEW w \in Workers, NEW b, Return(w, b)
    PROVE  \A v \in Workers : pc'[v] = "discover" => pc[v] = "discover" /\ wk'[v] = wk[v]
BY Ended

\* Keeping as many as the whole catalogue has cuts nothing off.
LEMMA NothingCut ==
    ASSUME NEW S \in SUBSET Keys, NEW T \in SUBSET S,
           Cardinality(T) = IF Cardinality(S) < Cardinality(Keys)
                              THEN Cardinality(S) ELSE Cardinality(Keys)
    PROVE  T = S
<1>1. IsFiniteSet(S) /\ Cardinality(S) <= Cardinality(Keys)
  BY KeysAssumption, FS_Subset
<1>2. Cardinality(S) \in Nat /\ Cardinality(Keys) \in Nat
  BY CountType
<1>3. Cardinality(S) = Cardinality(T)
  BY <1>1, <1>2
<1> QED
  BY <1>1, <1>3, FS_Subset

\* A page that is recorded: what it kept are items, the rest is still ahead.
LEMMA DiscoveryOfPage ==
    ASSUME Scanning, IInv, LeaseInv, DiscoveryInv, NEW w \in Workers, DiscoverPage(w)
    PROVE  DiscoveryInv'
<1>1. AtWork(w) /\ Return(w, TRUE) /\ limit' = limit /\ pc[w] = "discover"
  BY DEF DiscoverPage, Scanning, Discipline, Fault, AtWork
<1>2. \A v \in Workers : pc'[v] # "discover"
  <2>1. \A v \in Workers \ {w} : ~AtWork(v)
    BY <1>1 DEF LeaseInv, HoldsLease
  <2> QED
    BY <1>1, <2>1, Ended DEF AtWork
<1>3. status' \in {"QUEUED", "DISCOVERING"}
  BY DEF DiscoverPage, RecordPage
<1>4. CASE limit # 0
  BY <1>1, <1>3, <1>4 DEF DiscoveryInv
<1>5. CASE limit = 0
  <2>1. wk[w].rest = scroll /\ wk[w].max = Cardinality(Keys) /\ Keys \ Items \subseteq scroll
        /\ scroll \in SUBSET Keys
    BY <1>1, <1>5 DEF DiscoveryInv, LeaseInv, FindsJob, IInv, TypeOK
  <2>2. Ahead(wk[w].rest) = {scroll}
    BY <2>1 DEF Ahead, Scanning, Discipline
  <2>3. PICK page \in SUBSET scroll, finished \in BOOLEAN :
          /\ finished => page = scroll
          /\ \E kept \in SUBSET page :
               /\ Cardinality(kept) = IF Cardinality(page) < wk[w].max
                                        THEN Cardinality(page) ELSE wk[w].max
               /\ RecordPage(kept, scroll \ page, finished)
    BY <2>2 DEF DiscoverPage
  <2>4. PICK kept \in SUBSET page :
          /\ Cardinality(kept) = IF Cardinality(page) < wk[w].max
                                   THEN Cardinality(page) ELSE wk[w].max
          /\ RecordPage(kept, scroll \ page, finished)
    BY <2>3
  <2>6. kept = page
    BY <2>1, <2>4, NothingCut
  <2>7. PICK new \in SUBSET (page \ Items) :
          /\ Cardinality(new) = IF Cardinality(page \ Items) < Cardinality(Keys)
                                  THEN Cardinality(page \ Items) ELSE Cardinality(Keys)
          /\ item' = [k \in Keys |-> IF k \in new THEN "PENDING" ELSE item[k]]
          /\ status' = IF finished \/ (limit # 0 /\ total' >= limit) THEN "QUEUED" ELSE "DISCOVERING"
          /\ scroll' = IF finished THEN Keys ELSE scroll \ page
    BY <1>5, <2>4, <2>6 DEF RecordPage
  <2>8. new = page \ Items
    <3>1. page \ Items \in SUBSET Keys
      BY <2>1
    <3> QED
      BY <2>7, <3>1, NothingCut
  <2>9. Items' = Items \cup page
    BY <2>1, <2>7, <2>8 DEF Items
  <2>10. status' = IF finished THEN "QUEUED" ELSE "DISCOVERING"
    BY <1>5, <2>7
  <2>11. CASE finished
    <3>1. Items' = Keys
      BY <2>1, <2>3, <2>9, <2>11 DEF Items
    <3> QED
      BY <1>1, <1>2, <2>10, <2>11, <3>1 DEF DiscoveryInv
  <2>12. CASE ~finished
    <3>1. Keys \ Items' \subseteq scroll'
      BY <2>1, <2>7, <2>9, <2>12
    <3> QED
      BY <1>1, <1>2, <2>10, <2>12, <3>1 DEF DiscoveryInv
  <2> QED
    BY <2>11, <2>12
<1> QED
  BY <1>4, <1>5

\* At first the whole catalogue is ahead.
LEMMA DiscoveryInit == Init => DiscoveryInv
BY DEF Init, DiscoveryInv

\* Steps of the user, of time and of the store.
LEMMA DiscoveryOutside ==
    ASSUME IInv, LeaseInv, DiscoveryInv,
           \/ StartNewJob \/ StartAgain \/ Resume \/ LeaseExpires \/ RunDue
           \/ \E k \in Keys : LatePost(k) \/ ShopIndexes(k)
           \/ UNCHANGED vars
    PROVE  DiscoveryInv'
<1> USE DEF jobVars, itemVars, linkVars, shopVars, workerVars
<1>1. CASE \/ StartAgain \/ LeaseExpires \/ RunDue \/ UNCHANGED vars
           \/ \E k \in Keys : LatePost(k) \/ ShopIndexes(k)
  <2>1. UNCHANGED <<status, limit, scroll, item, pc, wk>>
    BY <1>1 DEF StartAgain, LeaseExpires, RunDue, LatePost, ShopIndexes, vars
  <2>2. Items' = Items
    BY <2>1 DEF Items
  <2> QED
    BY <2>1, <2>2, DiscoveryKept
<1>2. CASE StartNewJob
  <2>1. /\ status = "NONE" /\ status' = "DISCOVERING" /\ scroll' = scroll /\ scroll = Keys
        /\ pc' = pc /\ \A w \in Workers : ~AtWork(w)
    BY <1>2, IdleUnless DEF StartNewJob, DiscoveryInv
  <2> QED
    BY <2>1 DEF DiscoveryInv, AtWork
<1>3. CASE Resume
  <2>1. UNCHANGED <<limit, scroll, pc, wk>> /\ status = "PAUSED" /\ status' = "QUEUED"
        /\ Items' = Items
    BY <1>3, RecoveryKeepsItems DEF Resume
  <2> QED
    BY <2>1, DiscoveryKept
<1> QED
  BY <1>1, <1>2, <1>3

\* The steps of an invocation.
LEMMA DiscoveryByWorker ==
    ASSUME Scanning, IInv, LeaseInv, DiscoveryInv, NEW w \in Workers,
           Observe(w) \/ Crash(w) \/ Redeliver(w) \/ Work(w)
    PROVE  DiscoveryInv'
<1> USE DEF jobVars, itemVars, linkVars, shopVars
<1>0. AtWork(w) => HoldsLease(w) /\ FindsJob(w) /\ FindsItem(w)
  BY DEF LeaseInv
<1>1. ASSUME UNCHANGED <<limit, scroll, item>>,
             \/ status' = status
             \/ {status, status'} \cap {"NONE", "DISCOVERING"} = {},
             \A v \in Workers : pc'[v] = "discover" => pc[v] = "discover" /\ wk'[v] = wk[v]
      PROVE  DiscoveryInv'
  <2>1. Items' = Items
    BY <1>1 DEF Items
  <2> QED
    BY <1>1, <2>1, DiscoveryKept
<1>2. ASSUME NEW b, Return(w, b)
      PROVE  \A v \in Workers : pc'[v] = "discover" => pc[v] = "discover" /\ wk'[v] = wk[v]
  BY <1>2, DiscoveryReturned
<1>3. ASSUME NEW stage, stage # "discover", Goto(w, stage) \/ \E local : GotoWith(w, stage, local)
      PROVE  \A v \in Workers : pc'[v] = "discover" => pc[v] = "discover" /\ wk'[v] = wk[v]
  BY <1>3 DEF Goto, GotoWith, IInv, TypeOK
<1>4. CASE Observe(w)
  <2>1. UNCHANGED <<limit, scroll, item, status>>
    BY <1>4 DEF Observe
  <2>2. \A v \in Workers : pc'[v] = "discover" => pc[v] = "discover" /\ wk'[v] = wk[v]
    BY <1>4 DEF Observe, IInv, TypeOK
  <2> QED
    BY <1>1, <2>1, <2>2
<1>5. CASE Crash(w) \/ Redeliver(w) \/ ClaimDenied(w)
  <2>1. UNCHANGED <<limit, scroll, item, status>>
    BY <1>5 DEF Crash, Stopped, Fault, Scanning, Redeliver, ClaimDenied
  <2>2. \A v \in Workers : pc'[v] = "discover" => pc[v] = "discover" /\ wk'[v] = wk[v]
    BY <1>2, <1>5 DEF Crash, Throw, Redeliver, ClaimDenied
  <2> QED
    BY <1>1, <2>1, <2>2
<1>6. CASE ClaimJob(w)
  <2>1. /\ UNCHANGED <<limit, scroll>> /\ Items' = Items /\ Goto(w, "claimed")
        /\ \/ status' = status
           \/ {status, status'} \cap {"NONE", "DISCOVERING"} = {}
    BY <1>6, RecoveryKeepsItems DEF ClaimJob, Claimable
  <2>2. \A v \in Workers : pc'[v] = "discover" => pc[v] = "discover" /\ wk'[v] = wk[v]
    BY <1>3, <2>1
  <2> QED
    BY <2>1, <2>2, DiscoveryKept
<1>7. CASE Reread(w)
  <2>1. UNCHANGED <<limit, scroll, item, status>>
    BY <1>7 DEF Reread
  <2>2. CASE status = "DISCOVERING" /\ wk[w].msg.token = token
    <3>1. /\ pc' = [pc EXCEPT ![w] = "discover"]
          /\ wk' = [wk EXCEPT ![w] = [wk[w] EXCEPT !.rest = scroll, !.max = MaxProducts]]
      BY <1>7, <2>2 DEF Reread, GotoWith
    <3>2. wk'[w].rest = scroll /\ wk'[w].max = MaxProducts
      BY <3>1 DEF IInv, TypeOK, Local
    <3>3. \A v \in Workers \ {w} : pc'[v] = pc[v] /\ wk'[v] = wk[v]
      BY <3>1 DEF IInv, TypeOK
    <3>4. limit = 0 => MaxProducts = Cardinality(Keys)
      BY DEF MaxProducts
    <3>5. Items' = Items
      BY <2>1 DEF Items
    <3> QED
      BY <2>1, <3>2, <3>3, <3>4, <3>5 DEF DiscoveryInv
  <2>3. CASE ~(status = "DISCOVERING" /\ wk[w].msg.token = token)
    <3>1. \A v \in Workers : pc'[v] = "discover" => pc[v] = "discover" /\ wk'[v] = wk[v]
      BY <1>2, <1>3, <1>7, <2>3 DEF Reread
    <3> QED
      BY <1>1, <2>1, <3>1
  <2> QED
    BY <2>2, <2>3
<1>8. CASE DiscoverPage(w)
  BY <1>8, DiscoveryOfPage
<1>9. CASE DiscoveryFails(w)
  <2>1. AtWork(w) /\ status = "DISCOVERING" /\ pc[w] = "discover"
    BY <1>0, <1>9 DEF DiscoveryFails, AtWork, HoldsLease, FindsJob
  <2>2. \A kind \in ErrorKinds : Decide(kind, 1) # "REJECT"
    BY DEF Scanning, Decide
  <2>3. UNCHANGED <<limit, scroll, item>> /\ status' = "DISCOVERING" /\ Return(w, TRUE)
    BY <1>9, <2>1, <2>2 DEF DiscoveryFails, Stopped, Fault, Scanning, RetryDiscovery
  <2> QED
    BY <1>1, <1>2, <2>1, <2>3
<1>10. CASE PickItem(w)
  <2>1. PICK k \in Offered : item' = [item EXCEPT ![k] = "PROCESSING"]
    BY <1>10 DEF PickItem
  <2>2. k \in Keys /\ item[k] # "ABSENT"
    BY DEF Offered, InState
  <2>3. Items' = Items
    BY <2>1, <2>2, MoveKeepsItems DEF ItemStatus
  <2>4. UNCHANGED <<limit, scroll, status>>
    BY <1>10 DEF PickItem
  <2>5. \E stage \in {"reconcile", "prepare"} : \E local : GotoWith(w, stage, local)
    BY <1>10 DEF PickItem
  <2>6. \A v \in Workers : pc'[v] = "discover" => pc[v] = "discover" /\ wk'[v] = wk[v]
    BY <1>3, <2>5
  <2> QED
    BY <2>3, <2>4, <2>6, DiscoveryKept
<1>11. CASE PickNothing(w)
  <2>1. /\ UNCHANGED <<limit, scroll, item>> /\ Return(w, FALSE)
        /\ status' = status \/ (status = "RUNNING" /\ status' = "COMPLETED")
    BY <1>11 DEF PickNothing
  <2> QED
    BY <1>1, <1>2, <2>1
<1>12. CASE \/ PrePostError(w) \/ Reserve(w) \/ MatchSku(w) \/ MarkPostStarted(w)
            \/ PostProduct(w) \/ CompleteLink(w) \/ ReadLink(w) \/ Confirm(w)
            \/ ReconcileError(w)
  <2>1. UNCHANGED <<limit, scroll, item, status>>
    BY <1>12 DEF PrePostError, Reserve, MatchSku, MarkPostStarted, PostProduct, CompleteLink,
                 ReadLink, Confirm, ReconcileError
  <2>2. \E stage : stage # "discover" /\ (Goto(w, stage) \/ \E local : GotoWith(w, stage, local))
    <3>1. CASE PrePostError(w) \/ Reserve(w) \/ MatchSku(w)
      BY <3>1 DEF PrePostError, Reserve, MatchSku
    <3>2. CASE MarkPostStarted(w) \/ PostProduct(w) \/ CompleteLink(w)
      BY <3>2 DEF MarkPostStarted, PostProduct, CompleteLink
    <3>3. CASE ReadLink(w) \/ Confirm(w) \/ ReconcileError(w)
      BY <3>3 DEF ReadLink, Confirm, ReconcileError
    <3> QED
      BY <1>12, <3>1, <3>2, <3>3
  <2> QED
    BY <1>1, <1>3, <2>1, <2>2
<1>13. CASE \/ Finish(w) \/ Commit(w) \/ PauseSingle(w) \/ HandleReject(w)
            \/ HandlePause(w) \/ HandleRetry(w) \/ Defer(w)
  <2>0. /\ AtWork(w) /\ UNCHANGED <<limit, scroll>> /\ pc[w] \in OnItem
    BY <1>0, <1>13 DEF Finish, Commit, PauseSingle, HandleReject, HandlePause, HandleRetry, Defer,
                       AtWork, HoldsLease, OnItem
  <2>a. wk[w].key \in Keys
    BY <2>0, Fine DEF AllFine, WorkerFine
  <2>b. PICK k \in Keys : k = wk[w].key
    BY <2>a
  <2>1. status = "RUNNING" /\ item[k] = "PROCESSING"
    BY <1>0, <2>0, <2>b DEF FindsJob, FindsItem
  <2>2. \A v \in Workers : pc'[v] = "discover" => pc[v] = "discover" /\ wk'[v] = wk[v]
    <3>1. \/ \E b : Return(w, b)
          \/ \E stage : stage # "discover" /\ \E local : GotoWith(w, stage, local)
      BY <1>13, Endings DEF Begin
    <3> QED
      BY <1>2, <1>3, <3>1
  <2>3. item' = item \/ \E s \in ItemStatus \ {"ABSENT"} : item' = [item EXCEPT ![k] = s]
    BY <1>13, <2>b DEF Finish, Commit, PauseSingle, HandleReject, HandlePause, HandleRetry, Defer,
                       FinishItem, ItemStatus, Terminal, Result
  <2>4. Items' = Items
    <3>1. CASE item' = item
      BY <3>1 DEF Items
    <3>2. CASE item' # item
      BY <2>1, <2>3, <3>2, MoveKeepsItems
    <3> QED
      BY <3>1, <3>2
  <2>5. status' \notin {"NONE", "DISCOVERING"}
    BY <1>13, <2>1 DEF Finish, Commit, PauseSingle, HandleReject, HandlePause, HandleRetry, Defer,
                       FinishItem, PauseJob
  <2> QED
    BY <2>0, <2>1, <2>2, <2>4, <2>5, DiscoveryKept
<1> QED
  BY <1>4, <1>5, <1>6, <1>7, <1>8, <1>9, <1>10, <1>11, <1>12, <1>13 DEF Work

\* NothingSkipped: a job without a test limit that is completed has made an item
\* of every source key of the catalogue.
THEOREM WholeCatalogue == ASSUME Scanning PROVE Spec => []NothingSkipped
<1>1. IInv /\ LeaseInv /\ DiscoveryInv /\ [Next]_vars => DiscoveryInv'
  BY DiscoveryOutside, DiscoveryByWorker DEF Next
<1>2. DiscoveryInv => NothingSkipped
  BY DEF DiscoveryInv, NothingSkipped, Completed
<1>3. Discipline
  BY DEF Scanning
<1> QED
  BY <1>1, <1>2, <1>3, DiscoveryInit, Invariance, OneAtATime, PTL DEF Spec
=============================================================================

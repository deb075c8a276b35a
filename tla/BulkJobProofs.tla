---------------------------- MODULE BulkJobProofs -----------------------------
(***************************************************************************)
(* Proofs about BulkJob, for any number of items and invocations, and for   *)
(* every bound on attempts, retries, takeovers and faults.                  *)
(***************************************************************************)
EXTENDS BulkJob, FiniteSetTheorems, TLAPS

\* An invocation about to write SUCCESS made the change.
TellsTrue ==
    \A w \in Workers : pc[w] \in {"finish", "record"} /\ wk[w].verdict = "SUCCESS"
        => wk[w].item \in sent

AtMost(c, d) ==
    c.successful <= d.successful /\ c.failed <= d.failed /\ c.skipped <= d.skipped

\* What an invocation has counted is what there is, as long as no holder has been
\* overtaken, and not more than there is, as long as no error has been retried.
CountsHold ==
    \A w \in Workers : pc[w] = "update" =>
        /\ Total(wk[w].counts) <= N
        /\ takeovers = 0 => wk[w].counts = Count
        /\ retries = 0 => AtMost(wk[w].counts, Count)

\* The inductive invariant.
Inv == TypeOK /\ OneHolder /\ SuccessIsSent /\ TellsTrue /\ CountsHold /\ CompletedIsSettled

-----------------------------------------------------------------------------
(* Counting *)

LEMMA WithFinite ==
    /\ IsFiniteSet(Items) /\ Cardinality(Items) = N
    /\ \A s : /\ With(s) \subseteq Items /\ IsFiniteSet(With(s))
              /\ Cardinality(With(s)) \in 0 .. N
<1>1. IsFiniteSet(Items) /\ Cardinality(Items) = N
  BY BulkAssumption, FS_Interval DEF Items
<1>2. ASSUME NEW s
      PROVE  /\ With(s) \subseteq Items /\ IsFiniteSet(With(s)) /\ Cardinality(With(s)) \in 0 .. N
  <2>1. With(s) \subseteq Items
    BY DEF With
  <2> QED
    BY <1>1, <2>1, BulkAssumption, FS_Subset, FS_CardinalityType
<1> QED
  BY <1>1, <1>2

LEMMA DisjointUnion ==
    ASSUME NEW S, NEW T, IsFiniteSet(S), IsFiniteSet(T), S \cap T = {}
    PROVE  IsFiniteSet(S \cup T) /\ Cardinality(S \cup T) = Cardinality(S) + Cardinality(T)
<1>1. /\ IsFiniteSet(S \cup T)
      /\ Cardinality(S \cup T) = Cardinality(S) + Cardinality(T) - Cardinality(S \cap T)
  BY FS_Union
<1>2. Cardinality(S \cap T) = 0
  BY FS_EmptySet
<1>3. Cardinality(S) \in Nat /\ Cardinality(T) \in Nat
  BY FS_CardinalityType
<1> QED
  BY <1>1, <1>2, <1>3

\* The verdicts are at most as many as the items, and then every item has one.
LEMMA TotalCount ==
    /\ Count \in Counts /\ Total(Count) <= N
    /\ Total(Count) = N => \A i \in Items : item[i] \in Final
<1> DEFINE S == With("SUCCESS")
           E == With("ERROR")
           K == With("SKIPPED")
<1>1. /\ IsFiniteSet(S) /\ IsFiniteSet(E) /\ IsFiniteSet(K)
      /\ S \subseteq Items /\ E \subseteq Items /\ K \subseteq Items
  BY WithFinite
<1>2. S \cap E = {} /\ (S \cup E) \cap K = {}
  BY DEF With
<1>3. IsFiniteSet(S \cup E) /\ Cardinality(S \cup E) = Cardinality(S) + Cardinality(E)
  BY <1>1, <1>2, DisjointUnion
<1>4. /\ IsFiniteSet((S \cup E) \cup K)
      /\ Cardinality((S \cup E) \cup K) = Cardinality(S \cup E) + Cardinality(K)
  BY <1>1, <1>2, <1>3, DisjointUnion
<1>5. Total(Count) = Cardinality((S \cup E) \cup K)
  BY <1>3, <1>4 DEF Total, Count
<1>6. (S \cup E) \cup K \subseteq Items
  BY <1>1
<1>7. Cardinality((S \cup E) \cup K) <= N
      /\ (Cardinality((S \cup E) \cup K) = N => (S \cup E) \cup K = Items)
  BY <1>6, WithFinite, FS_Subset
<1>8. Count \in Counts
  BY WithFinite DEF Count, Counts
<1>9. (S \cup E) \cup K = Items => \A i \in Items : item[i] \in Final
  BY DEF With, Final
<1> QED
  BY <1>5, <1>7, <1>8, <1>9

LEMMA TotalType ==
    ASSUME NEW c \in Counts
    PROVE  /\ Total(c) \in Nat
           /\ c.successful \in 0 .. N /\ c.failed \in 0 .. N /\ c.skipped \in 0 .. N
BY BulkAssumption DEF Counts, Total

\* A count that is not more than there is and reaches all items is what there is.
LEMMA FullCount ==
    ASSUME NEW c \in Counts, AtMost(c, Count), Total(c) = N
    PROVE  c = Count
<1>1. /\ Count \in Counts /\ Total(Count) <= N
  BY TotalCount
<1>2. /\ c.successful \in Nat /\ c.failed \in Nat /\ c.skipped \in Nat
      /\ Count.successful \in Nat /\ Count.failed \in Nat /\ Count.skipped \in Nat /\ N \in Nat
  BY <1>1, TotalType, BulkAssumption
<1>3. /\ c.successful = Count.successful /\ c.failed = Count.failed
      /\ c.skipped = Count.skipped
  BY <1>1, <1>2 DEF AtMost, Total
<1> QED
  BY <1>1, <1>3 DEF Counts

\* No verdict is taken back.
Advances == \A i \in Items : item[i] \in Final => item'[i] = item[i]

LEMMA CountGrows ==
    ASSUME Advances, NEW c \in Counts, AtMost(c, Count)
    PROVE  AtMost(c, Count')
<1>1. \A s \in Final : With(s) \subseteq With(s)'
  BY DEF Advances, With, Final
<1>2. \A s : IsFiniteSet(With(s)') /\ Cardinality(With(s)') \in 0 .. N
             /\ Cardinality(With(s)) \in 0 .. N
  <2>1. \A s : With(s)' \subseteq Items
    BY DEF With, Items
  <2> QED
    BY <2>1, WithFinite, BulkAssumption, FS_Subset, FS_CardinalityType
<1>3. \A s \in Final : Cardinality(With(s)) <= Cardinality(With(s)')
  BY <1>1, <1>2, FS_Subset
<1>4. /\ Cardinality(With("SUCCESS")) <= Cardinality(With("SUCCESS")')
      /\ Cardinality(With("ERROR")) <= Cardinality(With("ERROR")')
      /\ Cardinality(With("SKIPPED")) <= Cardinality(With("SKIPPED")')
  BY <1>3 DEF Final
<1>5. /\ c.successful \in Nat /\ c.failed \in Nat /\ c.skipped \in Nat
  BY TotalType
<1> QED
  BY <1>2, <1>4, <1>5 DEF AtMost, Count

LEMMA SameCount == ASSUME item' = item PROVE Count' = Count
BY DEF Count, With

-----------------------------------------------------------------------------
(* One step of an invocation *)

LEMMA BlankType == Blank \in Local
BY BulkAssumption DEF Blank, Local, Items, Final, Counts, NoCounts

LEMMA LocalIs ==
    ASSUME Inv, NEW w \in Workers
    PROVE  /\ wk[w] \in Local /\ wk[w].item \in Items /\ wk[w].attempt \in Nat
           /\ wk[w].verdict \in Final /\ wk[w].counts \in Counts
BY DEF Inv, TypeOK, Local

\* Its own stage and locals change, in type; nobody else's do.
Moves(w) ==
    /\ messages' \in Nat /\ pc' \in [Workers -> Stage] /\ wk' \in [Workers -> Local]
    /\ \A v \in Workers \ {w} : pc'[v] = pc[v] /\ wk'[v] = wk[v]

Comes(w, stage, local) == Moves(w) /\ pc'[w] = stage /\ wk'[w] = local

LEMMA GotoMoves ==
    ASSUME Inv, NEW w \in Workers, NEW stage \in Stage, NEW local \in Local,
           Goto(w, stage, local)
    PROVE  Comes(w, stage, local)
BY DEF Goto, Moves, Comes, Inv, TypeOK

LEMMA ThenMoves ==
    ASSUME Inv, NEW w \in Workers, NEW stage \in Stage, Then(w, stage)
    PROVE  Comes(w, stage, wk[w])
BY LocalIs, GotoMoves DEF Then

LEMMA ReturnMoves ==
    ASSUME Inv, NEW w \in Workers, NEW more \in BOOLEAN, Return(w, more)
    PROVE  Comes(w, "idle", Blank)
<1>1. pc' = [pc EXCEPT ![w] = "idle"] /\ wk' = [wk EXCEPT ![w] = Blank]
      /\ messages' \in Nat
  BY DEF Return, Inv, TypeOK
<1>2. "idle" \in Stage
  BY DEF Stage
<1> QED
  BY <1>1, <1>2, BlankType DEF Moves, Comes, Inv, TypeOK

LEMMA VerdictMoves ==
    ASSUME Inv, NEW w \in Workers, NEW stage \in Stage, NEW verdict \in Final,
           Verdict(w, stage, verdict)
    PROVE  Comes(w, stage, [wk[w] EXCEPT !.verdict = verdict])
<1>1. [wk[w] EXCEPT !.verdict = verdict] \in Local
  BY LocalIs DEF Local
<1> QED
  BY <1>1, GotoMoves DEF Verdict

LEMMA StagesAre ==
    /\ Inside \subseteq Stage
    /\ "idle" \in Stage \ Inside /\ "find" \in Stage \ Inside /\ "claim" \in Stage \ Inside
    /\ "pick" \in Inside /\ "take" \in Inside /\ "apply" \in Inside /\ "finish" \in Inside
    /\ "record" \in Inside /\ "retry" \in Inside /\ "release" \in Inside
    /\ "stopItem" \in Inside /\ "stopJob" \in Inside /\ "stopAnyway" \in Inside
    /\ "list" \in Inside /\ "update" \in Inside
BY DEF Inside, Stage

\* Where a caught error leads: on to another request inside the job, never to one
\* that writes SUCCESS.
Caughts(w) ==
    /\ Moves(w) /\ pc'[w] \in {"stopItem", "retry", "record"}
    /\ pc'[w] = "record" => wk'[w].verdict # "SUCCESS"

LEMMA CaughtMoves ==
    ASSUME Inv, NEW w \in Workers, NEW error, Caught(w, error)
    PROVE  Caughts(w)
<1>1. CASE Then(w, "stopItem") \/ Then(w, "retry")
  BY <1>1, ThenMoves, StagesAre DEF Comes, Caughts
<1>2. CASE Verdict(w, "record", "ERROR")
  <2>1. Comes(w, "record", [wk[w] EXCEPT !.verdict = "ERROR"])
    BY <1>2, VerdictMoves, StagesAre DEF Final
  <2>2. [wk[w] EXCEPT !.verdict = "ERROR"].verdict = "ERROR"
    BY LocalIs DEF Local
  <2> QED
    BY <2>1, <2>2 DEF Comes, Caughts
<1> QED
  BY <1>1, <1>2 DEF Caught

-----------------------------------------------------------------------------
(* What a step keeps *)

\* Later: bounds only grow, and no errors are retried.
Onward ==
    /\ Advances /\ retries' = retries
    /\ takeovers' \in Nat /\ takeovers' >= takeovers

LEMMA KeepsHolder ==
    ASSUME Inv, Onward, NEW w \in Workers, Moves(w),
           pc[w] \in Inside \/ pc'[w] \notin Inside,
           job'.status = job.status \/ (pc[w] \in Inside /\ pc'[w] \notin Inside)
    PROVE  OneHolder'
<1> SUFFICES ASSUME takeovers' = 0, NEW v \in Workers, pc'[v] \in Inside
             PROVE  job'.status = "RUNNING" /\ \A u \in Workers \ {v} : pc'[u] \notin Inside
  BY DEF OneHolder, Held
<1>1. takeovers = 0
  BY DEF Onward, Inv, TypeOK
<1>2. \A u \in Workers : pc[u] \in Inside =>
          job.status = "RUNNING" /\ \A x \in Workers \ {u} : pc[x] \notin Inside
  BY <1>1 DEF Inv, OneHolder, Held
<1> QED
  BY <1>2 DEF Moves

LEMMA KeepsCounts ==
    ASSUME Inv, Onward, NEW w \in Workers, Moves(w),
           item' = item \/ pc[w] \in Inside \/ takeovers' # 0
             \/ \A v \in Workers \ {w} : pc[v] \notin Inside,
           pc'[w] = "update" => wk'[w].counts = Count /\ item' = item
    PROVE  CountsHold'
<1> SUFFICES ASSUME NEW v \in Workers, pc'[v] = "update"
             PROVE  /\ Total(wk'[v].counts) <= N
                    /\ takeovers' = 0 => wk'[v].counts = Count'
                    /\ retries' = 0 => AtMost(wk'[v].counts, Count')
  BY DEF CountsHold, Total, AtMost
<1>1. CASE v = w
  <2>1. wk'[v].counts = Count /\ Count' = Count
    BY <1>1, SameCount
  <2>2. AtMost(Count, Count) /\ Total(Count) <= N
    BY TotalCount, TotalType DEF AtMost
  <2> QED
    BY <2>1, <2>2
<1>2. CASE v # w
  <2>1. pc[v] = "update" /\ wk'[v] = wk[v] /\ wk[v].counts \in Counts /\ pc[v] \in Inside
    BY <1>2, LocalIs, StagesAre DEF Moves
  <2>2. /\ Total(wk[v].counts) <= N
        /\ takeovers = 0 => wk[v].counts = Count
        /\ retries = 0 => AtMost(wk[v].counts, Count)
    BY <2>1 DEF Inv, CountsHold
  <2>3. retries' = 0 => AtMost(wk[v].counts, Count')
    BY <2>1, <2>2, CountGrows DEF Onward
  <2>4. ASSUME takeovers' = 0 PROVE wk[v].counts = Count'
    <3>1. takeovers = 0
      BY <2>4 DEF Onward, Inv, TypeOK
    <3>2. pc[w] \notin Inside
      BY <1>2, <2>1, <3>1 DEF Inv, OneHolder, Held
    <3>3. item' = item
      BY <1>2, <2>1, <2>4, <3>2
    <3> QED
      BY <2>2, <3>1, <3>3, SameCount
  <2> QED
    BY <2>1, <2>2, <2>3, <2>4
<1> QED
  BY <1>1, <1>2

LEMMA KeepsSettled ==
    ASSUME Inv, Onward, item' \in [Items -> ItemStatus],
           job' = job \/ job'.status \notin Completed
    PROVE  CompletedIsSettled'
<1> SUFFICES ASSUME job'.status \in Completed, takeovers' = 0 \/ retries' = 0
             PROVE  /\ \A i \in Items : item'[i] \in Final
                    /\ job'.counts = Count' /\ job'.processed = N
  BY DEF CompletedIsSettled, Items
<1>1. job' = job /\ (takeovers = 0 \/ retries = 0)
  BY DEF Onward, Inv, TypeOK
<1>2. (\A i \in Items : item[i] \in Final) /\ job.counts = Count /\ job.processed = N
  BY <1>1 DEF Inv, CompletedIsSettled
<1>3. item' = item
  BY <1>2 DEF Onward, Advances, Inv, TypeOK
<1> QED
  BY <1>1, <1>2, <1>3, SameCount

LEMMA KeepsTelling ==
    ASSUME Inv, NEW w \in Workers, Moves(w), sent \subseteq sent',
           pc'[w] \in {"finish", "record"} /\ wk'[w].verdict = "SUCCESS" => wk'[w].item \in sent'
    PROVE  TellsTrue'
BY DEF Inv, TellsTrue, Moves

LEMMA SendingType ==
    ASSUME Inv, NEW w \in Workers, Moves(w), job' \in [status : {"QUEUED", "RUNNING"} \cup Terminal,
           processed : 0 .. N, counts : Counts], item' \in [Items -> ItemStatus],
           attempts' \in [Items -> Nat], sent' \subseteq Items, faults' \in 0 .. MaxFaults,
           takeovers' \in 0 .. MaxTakeovers, UNCHANGED <<kind, skip, dispatched, retries>>
    PROVE  TypeOK'
BY DEF Inv, TypeOK, Moves, Items

\* A step of an invocation that has the job, or stays outside it, and does not
\* complete it.
LEMMA WorkStep ==
    ASSUME Inv, NEW w \in Workers, Moves(w),
           pc[w] \in Inside \/ (pc'[w] \notin Inside /\ item' = item),
           job' = job \/ (/\ job' \in [status : {"QUEUED", "RUNNING"} \cup Terminal,
                                       processed : 0 .. N, counts : Counts]
                          /\ job'.status \notin Completed
                          /\ pc[w] \in Inside /\ pc'[w] \notin Inside),
           item' \in [Items -> ItemStatus], Advances,
           \A i \in Items : item'[i] = "SUCCESS" => i \in sent',
           attempts' \in [Items -> Nat], sent \subseteq sent', sent' \subseteq Items,
           faults' \in 0 .. MaxFaults, UNCHANGED <<kind, skip, dispatched, retries, takeovers>>,
           pc'[w] = "update" => wk'[w].counts = Count /\ item' = item,
           pc'[w] \in {"finish", "record"} /\ wk'[w].verdict = "SUCCESS" => wk'[w].item \in sent'
    PROVE  Inv'
<1>1. TypeOK'
  BY SendingType DEF Inv, TypeOK
<1>2. Onward
  BY DEF Onward, Inv, TypeOK
<1>3. OneHolder'
  BY <1>2, KeepsHolder
<1>4. CountsHold'
  BY <1>2, KeepsCounts
<1>5. CompletedIsSettled'
  BY <1>2, KeepsSettled
<1>6. TellsTrue'
  BY KeepsTelling
<1>7. SuccessIsSent'
  BY DEF SuccessIsSent, With, Items
<1> QED
  BY <1>1, <1>3, <1>4, <1>5, <1>6, <1>7 DEF Inv

\* A step that leaves the rows alone.
LEMMA QuietStep ==
    ASSUME Inv, NEW w \in Workers, Moves(w), UNCHANGED rowVars, sent' = sent,
           pc[w] \in Inside \/ pc'[w] \notin Inside,
           faults' \in 0 .. MaxFaults, UNCHANGED <<kind, skip, dispatched, retries, takeovers>>,
           pc'[w] = "update" => wk'[w].counts = Count,
           pc'[w] \in {"finish", "record"} /\ wk'[w].verdict = "SUCCESS" => wk'[w].item \in sent
    PROVE  Inv'
<1>1. item' = item /\ job' = job /\ attempts' = attempts
  BY DEF rowVars
<1>2. /\ item \in [Items -> ItemStatus] /\ attempts \in [Items -> Nat] /\ sent \subseteq Items
      /\ \A i \in Items : item[i] = "SUCCESS" => i \in sent
  BY DEF Inv, TypeOK, SuccessIsSent, With
<1>3. Advances
  BY <1>1 DEF Advances
<1> QED
  BY <1>1, <1>2, <1>3, WorkStep

LEMMA FaultType == ASSUME Inv, Fault PROVE faults' \in 0 .. MaxFaults
BY BulkAssumption DEF Inv, TypeOK, Fault

LEMMA SameFaults == ASSUME Inv, faults' = faults PROVE faults' \in 0 .. MaxFaults
BY DEF Inv, TypeOK

LEMMA IdleIs == ASSUME Inv, NEW w \in Workers, Comes(w, "idle", Blank)
                PROVE  Moves(w) /\ pc'[w] \notin Inside /\ pc'[w] = "idle"
BY StagesAre DEF Comes

LEMMA DeliverInv == ASSUME Inv, NEW w \in Workers, Deliver(w) PROVE Inv'
<1>1. Moves(w) /\ pc'[w] = "find"
  <2>1. "find" \in Stage /\ messages' \in Nat
    BY StagesAre DEF Deliver, Inv, TypeOK
  <2> QED
    BY <2>1 DEF Deliver, Moves, Inv, TypeOK
<1>2. UNCHANGED <<kind, skip, rowVars, dispatched, sent, boundVars>>
  BY DEF Deliver
<1> QED
  BY <1>1, <1>2, QuietStep, SameFaults, StagesAre DEF boundVars

LEMMA FindInv == ASSUME Inv, NEW w \in Workers, Find(w) PROVE Inv'
<1>1. Moves(w) /\ pc'[w] \in {"idle", "claim"}
  <2>1. CASE Return(w, FALSE)
    BY <2>1, ReturnMoves DEF Comes
  <2>2. CASE Then(w, "claim")
    BY <2>2, ThenMoves, StagesAre DEF Comes
  <2> QED
    BY <2>1, <2>2 DEF Find
<1>2. UNCHANGED <<kind, skip, rowVars, dispatched, sent, boundVars>>
  BY DEF Find
<1> QED
  BY <1>1, <1>2, QuietStep, SameFaults, StagesAre DEF boundVars

LEMMA ClaimRefusedInv == ASSUME Inv, NEW w \in Workers, ClaimRefused(w) PROVE Inv'
<1>1. Moves(w) /\ pc'[w] = "idle"
  BY ReturnMoves DEF ClaimRefused, Comes
<1>2. UNCHANGED <<kind, skip, rowVars, dispatched, sent, boundVars>>
  BY DEF ClaimRefused
<1> QED
  BY <1>1, <1>2, QuietStep, SameFaults, StagesAre DEF boundVars

LEMMA FailInv == ASSUME Inv, NEW w \in Workers, Fail(w) PROVE Inv'
<1>1. Moves(w) /\ pc'[w] = "idle"
  BY ReturnMoves DEF Fail, Throw, Comes
<1>2. UNCHANGED <<kind, skip, rowVars, dispatched, sent, retries, takeovers>> /\ Fault
  BY DEF Fail
<1> QED
  BY <1>1, <1>2, QuietStep, FaultType, StagesAre

LEMMA PickItemInv == ASSUME Inv, NEW w \in Workers, PickItem(w) PROVE Inv'
<1>1. pc[w] \in Inside
  BY StagesAre DEF PickItem, At
<1>2. Moves(w) /\ pc'[w] \in {"list", "take"}
  <2>1. CASE Then(w, "list")
    BY <2>1, ThenMoves, StagesAre DEF Comes
  <2>2. CASE \E i \in With("PENDING") :
               Goto(w, "take", [wk[w] EXCEPT !.item = i, !.attempt = attempts[i] + 1])
    <3>1. PICK i \in Items : Goto(w, "take", [wk[w] EXCEPT !.item = i, !.attempt = attempts[i] + 1])
      BY <2>2 DEF With
    <3>2. attempts[i] + 1 \in Nat
      BY DEF Inv, TypeOK
    <3>3. [wk[w] EXCEPT !.item = i, !.attempt = attempts[i] + 1] \in Local
      BY <3>2, LocalIs DEF Local
    <3> QED
      BY <3>1, <3>3, GotoMoves, StagesAre DEF Comes
  <2> QED
    BY <2>1, <2>2 DEF PickItem
<1>3. UNCHANGED <<kind, skip, rowVars, dispatched, sent, boundVars>>
  BY DEF PickItem
<1> QED
  BY <1>1, <1>2, <1>3, QuietStep, SameFaults DEF boundVars

LEMMA SkipInv == ASSUME Inv, NEW w \in Workers, Skip(w) PROVE Inv'
<1>1. pc[w] \in Inside
  BY StagesAre DEF Skip, At
<1>2. Moves(w) /\ pc'[w] = "record" /\ wk'[w].verdict = "SKIPPED"
  <2>1. Comes(w, "record", [wk[w] EXCEPT !.verdict = "SKIPPED"])
    BY VerdictMoves, StagesAre DEF Skip, Final
  <2>2. [wk[w] EXCEPT !.verdict = "SKIPPED"].verdict = "SKIPPED"
    BY LocalIs DEF Local
  <2> QED
    BY <2>1, <2>2 DEF Comes
<1>3. UNCHANGED <<kind, skip, rowVars, dispatched, sent, boundVars>>
  BY DEF Skip
<1> QED
  BY <1>1, <1>2, <1>3, QuietStep, SameFaults DEF boundVars

LEMMA ListItemsInv == ASSUME Inv, NEW w \in Workers, ListItems(w) PROVE Inv'
<1>1. pc[w] \in Inside
  BY StagesAre DEF ListItems, At
<1>2. Moves(w) /\ pc'[w] = "update" /\ wk'[w].counts = Count
  <2>1. [wk[w] EXCEPT !.counts = Count] \in Local
        /\ [wk[w] EXCEPT !.counts = Count].counts = Count
    BY LocalIs, TotalCount DEF Local
  <2> QED
    BY <2>1, GotoMoves, StagesAre DEF ListItems, Comes
<1>3. UNCHANGED <<kind, skip, rowVars, dispatched, sent, boundVars>>
  BY DEF ListItems
<1> QED
  BY <1>1, <1>2, <1>3, QuietStep, SameFaults DEF boundVars

-----------------------------------------------------------------------------
(* Steps that write *)

LEMMA RowsAre ==
    ASSUME Inv
    PROVE  /\ item \in [Items -> ItemStatus] /\ attempts \in [Items -> Nat]
           /\ sent \subseteq Items /\ \A i \in Items : item[i] = "SUCCESS" => i \in sent
           /\ job \in [status : {"QUEUED", "RUNNING"} \cup Terminal, processed : 0 .. N,
                       counts : Counts]
BY DEF Inv, TypeOK, SuccessIsSent, With

\* A write of an item that has no verdict, or of a success that was sent.
LEMMA ItemWrite ==
    ASSUME Inv, NEW i \in Items, NEW s \in ItemStatus, item[i] \notin Final,
           s = "SUCCESS" => i \in sent, item' = [item EXCEPT ![i] = s]
    PROVE  /\ item' \in [Items -> ItemStatus] /\ Advances
           /\ \A j \in Items : item'[j] = "SUCCESS" => j \in sent
BY RowsAre DEF Advances

LEMMA NoItemWrite ==
    ASSUME Inv, item' = item
    PROVE  /\ item' \in [Items -> ItemStatus] /\ Advances
           /\ \A j \in Items : item'[j] = "SUCCESS" => j \in sent
BY RowsAre DEF Advances

LEMMA TakeItemInv == ASSUME Inv, NEW w \in Workers, TakeItem(w) PROVE Inv'
<1> DEFINE i == wk[w].item
<1>1. pc[w] \in Inside /\ i \in Items /\ wk[w].attempt \in Nat
  BY StagesAre, LocalIs DEF TakeItem, At
<1>2. UNCHANGED <<kind, skip, job, dispatched, sent, boundVars>>
  BY DEF TakeItem
<1>3. CASE /\ item[i] = "PENDING" /\ SetItem(i, "PROCESSING") /\ Then(w, "apply")
           /\ attempts' = [attempts EXCEPT ![i] = wk[w].attempt]
  <2>1. Moves(w) /\ pc'[w] = "apply"
    BY <1>3, ThenMoves, StagesAre DEF Comes
  <2>2. attempts' \in [Items -> Nat]
    BY <1>1, <1>3, RowsAre
  <2>3. /\ item' \in [Items -> ItemStatus] /\ Advances
        /\ \A j \in Items : item'[j] = "SUCCESS" => j \in sent
    BY <1>1, <1>3, ItemWrite DEF SetItem, ItemStatus, Final
  <2> QED
    BY <1>1, <1>2, <2>1, <2>2, <2>3, RowsAre, WorkStep, SameFaults DEF boundVars
<1>4. CASE Then(w, "list") /\ UNCHANGED <<item, attempts>>
  <2>1. Moves(w) /\ pc'[w] = "list"
    BY <1>4, ThenMoves, StagesAre DEF Comes
  <2> QED
    BY <1>1, <1>2, <1>4, <2>1, QuietStep, SameFaults DEF boundVars, rowVars
<1> QED
  BY <1>3, <1>4 DEF TakeItem

\* A request to Mercado Libre, answered with success, with a refusal or with an error.
LEMMA SendStep ==
    ASSUME Inv, NEW w \in Workers, pc[w] = "apply", UNCHANGED rowVars,
           UNCHANGED <<kind, skip, dispatched, boundVars>>,
           sent \subseteq sent', sent' \subseteq Items,
           \/ Verdict(w, "finish", "SUCCESS") /\ wk[w].item \in sent'
           \/ Verdict(w, "finish", "ERROR")
           \/ \E error : Caught(w, error)
    PROVE  Inv'
<1>1. /\ Moves(w) /\ pc'[w] # "update"
      /\ pc'[w] \in {"finish", "record"} /\ wk'[w].verdict = "SUCCESS" => wk'[w].item \in sent'
  <2>1. CASE Verdict(w, "finish", "SUCCESS") /\ wk[w].item \in sent'
    <3>1. Comes(w, "finish", [wk[w] EXCEPT !.verdict = "SUCCESS"])
      BY <2>1, VerdictMoves, StagesAre DEF Final
    <3>2. [wk[w] EXCEPT !.verdict = "SUCCESS"].item = wk[w].item
      BY LocalIs DEF Local
    <3> QED
      BY <2>1, <3>1, <3>2 DEF Comes
  <2>2. CASE Verdict(w, "finish", "ERROR")
    <3>1. Comes(w, "finish", [wk[w] EXCEPT !.verdict = "ERROR"])
      BY <2>2, VerdictMoves, StagesAre DEF Final
    <3>2. [wk[w] EXCEPT !.verdict = "ERROR"].verdict = "ERROR"
      BY LocalIs DEF Local
    <3> QED
      BY <3>1, <3>2 DEF Comes
  <2>3. CASE \E error : Caught(w, error)
    BY <2>3, CaughtMoves DEF Caughts
  <2> QED
    BY <2>1, <2>2, <2>3
<1>2. item' = item /\ job' = job /\ attempts' = attempts /\ pc[w] \in Inside
  BY StagesAre DEF rowVars
<1>3. /\ item' \in [Items -> ItemStatus] /\ Advances
      /\ \A j \in Items : item'[j] = "SUCCESS" => j \in sent'
  BY <1>2, NoItemWrite
<1> QED
  BY <1>1, <1>2, <1>3, RowsAre, WorkStep, SameFaults DEF boundVars

LEMMA UpdateStockInv == ASSUME Inv, NEW w \in Workers, UpdateStock(w) PROVE Inv'
<1>1. wk[w].item \in Items /\ pc[w] = "apply" /\ UNCHANGED rowVars
      /\ UNCHANGED <<kind, skip, dispatched, boundVars>>
  BY LocalIs DEF UpdateStock, At
<1>2. sent \subseteq sent' /\ sent' \subseteq Items
  BY <1>1, RowsAre DEF UpdateStock
<1>3. \/ Verdict(w, "finish", "SUCCESS") /\ wk[w].item \in sent'
      \/ \E error : Caught(w, error)
  BY DEF UpdateStock
<1> QED
  BY <1>1, <1>2, <1>3, SendStep

LEMMA ApplyPromotionInv == ASSUME Inv, NEW w \in Workers, ApplyPromotion(w) PROVE Inv'
<1>1. wk[w].item \in Items /\ pc[w] = "apply" /\ UNCHANGED rowVars
      /\ UNCHANGED <<kind, skip, dispatched, boundVars>>
  BY LocalIs DEF ApplyPromotion, At
<1>2. sent \subseteq sent' /\ sent' \subseteq Items
  BY <1>1, RowsAre DEF ApplyPromotion
<1>3. \/ Verdict(w, "finish", "SUCCESS") /\ wk[w].item \in sent'
      \/ Verdict(w, "finish", "ERROR")
      \/ \E error : Caught(w, error)
  BY DEF ApplyPromotion
<1> QED
  BY <1>1, <1>2, <1>3, SendStep

LEMMA UnsavedMoves ==
    ASSUME Inv, NEW w \in Workers, Unsaved(w)
    PROVE  /\ Moves(w) /\ pc'[w] # "update"
           /\ pc'[w] \in {"finish", "record"} => wk'[w].verdict # "SUCCESS"
<1>1. CASE Caught(w, "temporary")
  BY <1>1, CaughtMoves DEF Caughts
<1>2. CASE Throw(w)
  BY <1>2, ReturnMoves DEF Throw, Comes
<1> QED
  BY <1>1, <1>2 DEF Unsaved

LEMMA FinishItemInv == ASSUME Inv, NEW w \in Workers, FinishItem(w) PROVE Inv'
<1> DEFINE i == wk[w].item
<1>1. pc[w] \in Inside /\ i \in Items /\ wk[w].verdict \in Final
      /\ (wk[w].verdict = "SUCCESS" => i \in sent)
  BY StagesAre, LocalIs DEF FinishItem, Inv, TellsTrue
<1>2. UNCHANGED <<kind, skip, job, attempts, dispatched, sent, retries, takeovers>>
  BY DEF FinishItem
<1>3. /\ item' \in [Items -> ItemStatus] /\ Advances
      /\ \A j \in Items : item'[j] = "SUCCESS" => j \in sent
  <2>1. CASE item' = item
    BY <2>1, NoItemWrite
  <2>2. CASE item' = Written(w) /\ item[i] = "PROCESSING"
    <3>1. item' = [item EXCEPT ![i] = wk[w].verdict]
      BY <2>2 DEF Written
    <3>2. item[i] \notin Final /\ wk[w].verdict \in ItemStatus
      BY <1>1, <2>2 DEF Final, ItemStatus
    <3> QED
      BY <1>1, <3>1, <3>2, ItemWrite
  <2>3. CASE item' = Written(w) /\ item[i] # "PROCESSING"
    <3>1. item' = item
      BY <1>1, <2>3, RowsAre DEF Written
    <3> QED
      BY <3>1, NoItemWrite
  <2> QED
    BY <2>1, <2>2, <2>3 DEF FinishItem
<1>4. /\ Moves(w) /\ pc'[w] # "update" /\ faults' \in 0 .. MaxFaults
      /\ pc'[w] \in {"finish", "record"} => wk'[w].verdict # "SUCCESS"
  <2>1. CASE Then(w, "list") /\ faults' = faults
    BY <2>1, ThenMoves, SameFaults, StagesAre DEF Comes
  <2>2. CASE Unsaved(w) /\ (faults' = faults \/ Fault)
    BY <2>2, UnsavedMoves, SameFaults, FaultType
  <2> QED
    BY <2>1, <2>2 DEF FinishItem
<1> QED
  BY <1>1, <1>2, <1>3, <1>4, RowsAre, WorkStep

LEMMA RetryItemInv == ASSUME Inv, NEW w \in Workers, RetryItem(w) PROVE Inv'
<1> DEFINE i == wk[w].item
<1>1. pc[w] \in Inside /\ i \in Items
  BY StagesAre, LocalIs DEF RetryItem, At
<1>2. UNCHANGED <<kind, skip, job, attempts, dispatched, sent, boundVars>>
  BY DEF RetryItem
<1>3. CASE item[i] = "PROCESSING" /\ SetItem(i, "PENDING") /\ Then(w, "release")
  <2>1. Moves(w) /\ pc'[w] = "release"
    BY <1>3, ThenMoves, StagesAre DEF Comes
  <2>2. /\ item' \in [Items -> ItemStatus] /\ Advances
        /\ \A j \in Items : item'[j] = "SUCCESS" => j \in sent
    BY <1>1, <1>3, ItemWrite DEF SetItem, ItemStatus, Final
  <2> QED
    BY <1>1, <1>2, <2>1, <2>2, RowsAre, WorkStep, SameFaults DEF boundVars
<1>4. CASE item' = item /\ Throw(w)
  <2>1. Moves(w) /\ pc'[w] = "idle"
    BY <1>4, ReturnMoves DEF Throw, Comes
  <2> QED
    BY <1>1, <1>2, <1>4, <2>1, QuietStep, SameFaults DEF boundVars, rowVars
<1> QED
  BY <1>3, <1>4 DEF RetryItem

\* The job is left in a status that is not a completion.
LEMMA Leaves ==
    ASSUME Inv, NEW w \in Workers, pc[w] \in Inside, NEW s \in {"QUEUED", "FAILED"},
           SetStatus(s) \/ job' = job, NEW more \in BOOLEAN, Return(w, more),
           UNCHANGED <<kind, skip, item, attempts, dispatched, sent, boundVars>>
    PROVE  Inv'
<1>1. Moves(w) /\ pc'[w] = "idle" /\ pc'[w] \notin Inside
  BY ReturnMoves, StagesAre DEF Comes
<1>2. CASE job' = job
  BY <1>1, <1>2, QuietStep, SameFaults DEF boundVars, rowVars
<1>3. CASE SetStatus(s)
  <2>1. /\ job' \in [status : {"QUEUED", "RUNNING"} \cup Terminal, processed : 0 .. N,
                     counts : Counts]
        /\ job'.status = s /\ s \notin Completed
    BY <1>3, RowsAre DEF SetStatus, Terminal, Completed
  <2>2. /\ item' \in [Items -> ItemStatus] /\ Advances
        /\ \A j \in Items : item'[j] = "SUCCESS" => j \in sent
    BY NoItemWrite
  <2> QED
    BY <1>1, <2>1, <2>2, RowsAre, WorkStep, SameFaults DEF boundVars
<1> QED
  BY <1>2, <1>3

LEMMA ReleaseForRetryInv == ASSUME Inv, NEW w \in Workers, ReleaseForRetry(w) PROVE Inv'
<1>1. pc[w] \in Inside
  BY StagesAre DEF ReleaseForRetry, At
<1> QED
  BY <1>1, Leaves DEF ReleaseForRetry

LEMMA StopJobInv == ASSUME Inv, NEW w \in Workers, StopJob(w) PROVE Inv'
<1>1. pc[w] \in Inside /\ At(w, "stopAnyway") \in BOOLEAN
  BY StagesAre DEF StopJob, At
<1> QED
  BY <1>1, Leaves DEF StopJob

LEMMA StopItemInv == ASSUME Inv, NEW w \in Workers, StopItem(w) PROVE Inv'
<1> DEFINE i == wk[w].item
<1>1. pc[w] \in Inside /\ i \in Items
  BY StagesAre, LocalIs DEF StopItem, At
<1>2. UNCHANGED <<kind, skip, job, attempts, dispatched, sent, retries, takeovers>>
  BY DEF StopItem
<1>3. /\ Moves(w) /\ pc'[w] \in {"stopJob", "stopAnyway"} /\ faults' \in 0 .. MaxFaults
  <2>1. CASE Then(w, "stopJob") /\ faults' = faults
    BY <2>1, ThenMoves, SameFaults, StagesAre DEF Comes
  <2>2. CASE Then(w, "stopAnyway") /\ Fault
    BY <2>2, ThenMoves, FaultType, StagesAre DEF Comes
  <2> QED
    BY <2>1, <2>2 DEF StopItem
<1>4. /\ item' \in [Items -> ItemStatus] /\ Advances
      /\ \A j \in Items : item'[j] = "SUCCESS" => j \in sent
  <2>1. CASE item' = item
    BY <2>1, NoItemWrite
  <2>2. CASE item[i] = "PROCESSING" /\ item' = [item EXCEPT ![i] = "PENDING"]
    BY <1>1, <2>2, ItemWrite DEF ItemStatus, Final
  <2> QED
    BY <2>1, <2>2 DEF StopItem
<1> QED
  BY <1>1, <1>2, <1>3, <1>4, RowsAre, WorkStep

-----------------------------------------------------------------------------
(* Claiming, counting, retrying *)

\* A claim leaves the verdicts alone; the claim of a job somebody works on is a
\* takeover, and a QUEUED job has nobody.
LEMMA ClaimJobInv == ASSUME Inv, NEW w \in Workers, ClaimJob(w) PROVE Inv'
<1>1. /\ pc[w] = "claim" /\ Claimable(w) /\ job' = [job EXCEPT !.status = "RUNNING"]
      /\ item' = [i \in Items |-> Recovered(item[i])] /\ Then(w, "pick")
      /\ UNCHANGED <<kind, skip, attempts, dispatched, sent, retries, faults>>
  BY DEF ClaimJob, At, SetStatus
<1>2. Moves(w) /\ pc'[w] = "pick"
  BY <1>1, ThenMoves, StagesAre DEF Comes
<1>3. takeovers' \in 0 .. MaxTakeovers /\ takeovers' >= takeovers
  BY <1>1, BulkAssumption DEF Claimable, Inv, TypeOK
<1>4. /\ item' \in [Items -> ItemStatus] /\ Advances
      /\ \A i \in Items : item'[i] = "SUCCESS" => i \in sent
  <2>1. \A i \in Items : /\ Recovered(item[i]) \in ItemStatus
                         /\ item[i] \in Final => Recovered(item[i]) = item[i]
                         /\ Recovered(item[i]) = "SUCCESS" => item[i] = "SUCCESS"
    BY RowsAre DEF Recovered, ItemStatus, Final
  <2> QED
    BY <1>1, <2>1, RowsAre DEF Advances
<1>5. /\ job'.status = "RUNNING"
      /\ job' \in [status : {"QUEUED", "RUNNING"} \cup Terminal, processed : 0 .. N,
                   counts : Counts]
  BY <1>1, RowsAre
<1>6. Onward
  BY <1>1, <1>3, <1>4 DEF Onward
<1>7. takeovers' = 0 => \A v \in Workers \ {w} : pc[v] \notin Inside
  <2> SUFFICES ASSUME takeovers' = 0, NEW v \in Workers \ {w}, pc[v] \in Inside
               PROVE  FALSE
    OBVIOUS
  <2>1. takeovers = 0
    BY <1>3 DEF Inv, TypeOK
  <2>2. job.status = "RUNNING"
    BY <2>1 DEF Inv, OneHolder
  <2>3. Held(w)
    BY DEF Held
  <2>4. takeovers' = takeovers + 1
    BY <1>1, <2>2, <2>3 DEF Claimable
  <2> QED
    BY <2>1, <2>4
<1>8. OneHolder'
  <2> SUFFICES ASSUME takeovers' = 0, NEW v \in Workers, pc'[v] \in Inside
               PROVE  job'.status = "RUNNING" /\ \A u \in Workers \ {v} : pc'[u] \notin Inside
    BY DEF OneHolder, Held
  <2> QED
    BY <1>2, <1>5, <1>7 DEF Moves
<1>9. CountsHold'
  BY <1>2, <1>6, <1>7, KeepsCounts
<1>10. CompletedIsSettled'
  BY <1>4, <1>5, <1>6, KeepsSettled DEF Completed
<1>11. TellsTrue'
  BY <1>1, <1>2, KeepsTelling
<1>12. TypeOK'
  BY <1>1, <1>2, <1>3, <1>4, <1>5, RowsAre, SendingType DEF Inv, TypeOK
<1>13. SuccessIsSent'
  BY <1>1, <1>4 DEF SuccessIsSent, With, Items
<1> QED
  BY <1>8, <1>9, <1>10, <1>11, <1>12, <1>13 DEF Inv

\* What refreshProgress writes was counted; when it says that the job is complete
\* it is what there is.
LEMMA UpdateProgressInv == ASSUME Inv, NEW w \in Workers, UpdateProgress(w) PROVE Inv'
<1> DEFINE c == wk[w].counts
<1>1. /\ pc[w] = "update" /\ pc[w] \in Inside /\ c \in Counts /\ Total(c) <= N
      /\ takeovers = 0 => c = Count
      /\ retries = 0 => AtMost(c, Count)
  BY StagesAre, LocalIs DEF UpdateProgress, At, Inv, CountsHold
<1>2. UNCHANGED <<kind, skip, item, attempts, dispatched, sent, boundVars>>
  BY DEF UpdateProgress
<1>3. Total(c) \in 0 .. N
  BY <1>1, TotalType, BulkAssumption
<1>4. CASE job.status # "RUNNING"
  <2>1. Moves(w) /\ pc'[w] = "idle" /\ job' = job
    BY <1>4, ReturnMoves DEF UpdateProgress, Throw, Comes
  <2> QED
    BY <1>1, <1>2, <2>1, QuietStep, SameFaults, StagesAre DEF boundVars, rowVars
<1>5. CASE job.status = "RUNNING"
  <2>1. /\ job' = [status |-> StatusOf(c), processed |-> Total(c), counts |-> c]
        /\ Return(w, Total(c) < N)
    BY <1>5 DEF UpdateProgress
  <2>2. Moves(w) /\ pc'[w] = "idle" /\ pc'[w] \notin Inside
    <3>1. (Total(c) < N) \in BOOLEAN
      OBVIOUS
    <3> QED
      BY <2>1, <3>1, ReturnMoves, StagesAre DEF Comes
  <2>3. StatusOf(c) \in {"QUEUED"} \cup Completed /\ (StatusOf(c) \in Completed => Total(c) = N)
    BY <1>3, BulkAssumption DEF StatusOf, Completed
  <2>4. job' \in [status : {"QUEUED", "RUNNING"} \cup Terminal, processed : 0 .. N,
                  counts : Counts]
    BY <1>1, <1>3, <2>1, <2>3 DEF Terminal
  <2>5. /\ item' = item /\ item' \in [Items -> ItemStatus] /\ Advances
        /\ \A i \in Items : item'[i] = "SUCCESS" => i \in sent
    BY <1>2, NoItemWrite
  <2>6. Onward
    BY <1>2, <2>5 DEF Onward, boundVars, Inv, TypeOK
  <2>7. OneHolder'
    BY <1>1, <2>2, <2>6, KeepsHolder
  <2>8. CountsHold'
    BY <2>2, <2>5, <2>6, StagesAre, KeepsCounts
  <2>9. CompletedIsSettled'
    <3> SUFFICES ASSUME job'.status \in Completed, takeovers' = 0 \/ retries' = 0
                 PROVE  /\ \A i \in Items : item'[i] \in Final
                        /\ job'.counts = Count' /\ job'.processed = N
      BY DEF CompletedIsSettled, Items
    <3>1. Total(c) = N /\ job'.counts = c /\ job'.processed = N
      BY <2>1, <2>3
    <3>2. c = Count
      <4>1. CASE takeovers = 0
        BY <1>1, <4>1
      <4>2. CASE retries = 0
        BY <1>1, <3>1, <4>2, FullCount
      <4> QED
        BY <1>2, <4>1, <4>2 DEF boundVars
    <3>3. \A i \in Items : item[i] \in Final
      BY <3>1, <3>2, TotalCount
    <3> QED
      BY <2>5, <3>1, <3>2, <3>3, SameCount
  <2>10. TellsTrue'
    BY <1>2, <2>2, KeepsTelling
  <2>11. TypeOK'
    BY <1>2, <2>2, <2>4, <2>5, RowsAre, SendingType DEF Inv, TypeOK, boundVars
  <2>12. SuccessIsSent'
    BY <1>2, <2>5 DEF SuccessIsSent, With, Items
  <2> QED
    BY <2>7, <2>8, <2>9, <2>10, <2>11, <2>12 DEF Inv
<1> QED
  BY <1>4, <1>5

\* Nobody works on a completed job unless a holder was overtaken, and from the
\* first retry on such a holder's counts are worth nothing.
LEMMA RetryErrorsInv == ASSUME Inv, RetryErrors PROVE Inv'
<1> DEFINE k == Cardinality(With("ERROR"))
<1>1. /\ job.status = "COMPLETED_WITH_ERRORS" /\ job.processed >= k
      /\ item' = [i \in Items |-> IF i \in With("ERROR") THEN "PENDING" ELSE item[i]]
      /\ job' = [job EXCEPT !.status = "QUEUED", !.processed = @ - k, !.counts.failed = 0]
      /\ retries < MaxRetries /\ retries' = retries + 1
      /\ UNCHANGED <<kind, skip, attempts, pc, wk, sent, takeovers>>
  BY DEF RetryErrors
<1>2. job'.status = "QUEUED" /\ job' \in [status : {"QUEUED", "RUNNING"} \cup Terminal,
                                          processed : 0 .. N, counts : Counts]
  <2>1. k \in 0 .. N
    BY WithFinite
  <2>2. job.processed - k \in 0 .. N /\ 0 \in 0 .. N
    BY <1>1, <2>1, RowsAre, BulkAssumption
  <2>3. [job.counts EXCEPT !.failed = 0] \in Counts
    BY <2>2, RowsAre DEF Counts
  <2> QED
    BY <1>1, <2>2, <2>3, RowsAre
<1>3. /\ item' \in [Items -> ItemStatus]
      /\ \A i \in Items : item'[i] = "SUCCESS" => i \in sent
  BY <1>1, RowsAre DEF ItemStatus
<1>4. takeovers = 0 => \A v \in Workers : pc[v] \notin Inside
  BY <1>1 DEF Inv, OneHolder
<1>5. retries' \in 0 .. MaxRetries /\ retries' # 0
  BY <1>1, BulkAssumption DEF Inv, TypeOK
<1>6. dispatched' \in BOOLEAN
  BY DEF RetryErrors, Inv, TypeOK
<1>7. faults' \in 0 .. MaxFaults
  BY SameFaults, FaultType DEF RetryErrors
<1>8. messages' \in Nat
  BY DEF RetryErrors, Inv, TypeOK
<1>9. TypeOK'
  <2>1. /\ kind' \in Kinds /\ skip' \subseteq Items /\ sent' \subseteq Items
        /\ attempts' \in [Items -> Nat] /\ pc' \in [Workers -> Stage]
        /\ wk' \in [Workers -> Local] /\ takeovers' \in 0 .. MaxTakeovers
    BY <1>1 DEF Inv, TypeOK
  <2> QED
    BY <1>2, <1>3, <1>5, <1>6, <1>7, <1>8, <2>1 DEF TypeOK, Items
<1>10. OneHolder'
  BY <1>1, <1>4 DEF OneHolder, Held
<1>11. CountsHold'
  <2> SUFFICES ASSUME NEW v \in Workers, pc'[v] = "update"
               PROVE  /\ Total(wk'[v].counts) <= N
                      /\ takeovers' = 0 => wk'[v].counts = Count'
                      /\ retries' = 0 => AtMost(wk'[v].counts, Count')
    BY DEF CountsHold, Total, AtMost
  <2>1. pc[v] = "update" /\ wk'[v] = wk[v] /\ takeovers' = takeovers /\ pc[v] \in Inside
    BY <1>1, StagesAre
  <2>2. Total(wk[v].counts) <= N
    BY <2>1 DEF Inv, CountsHold
  <2> QED
    BY <1>4, <1>5, <2>1, <2>2
<1>12. CompletedIsSettled'
  BY <1>2 DEF CompletedIsSettled, Completed
<1>13. TellsTrue' /\ SuccessIsSent'
  BY <1>1, <1>3 DEF Inv, TellsTrue, SuccessIsSent, With, Items
<1> QED
  BY <1>9, <1>10, <1>11, <1>12, <1>13 DEF Inv

LEMMA SameInv ==
    ASSUME Inv, UNCHANGED <<kind, skip, rowVars, dispatched, pc, wk, sent, retries, takeovers>>,
           messages' \in Nat, faults' \in 0 .. MaxFaults
    PROVE  Inv'
<1>1. UNCHANGED <<kind, skip, job, item, attempts, dispatched, pc, wk, sent, retries, takeovers>>
  BY DEF rowVars
<1>2. Count' = Count
  BY <1>1, SameCount
<1>3. TypeOK'
  BY <1>1 DEF Inv, TypeOK, Items
<1>4. CountsHold'
  BY <1>1, <1>2 DEF Inv, CountsHold, AtMost, Total
<1>5. CompletedIsSettled'
  BY <1>1, <1>2 DEF Inv, CompletedIsSettled, Items
<1>6. OneHolder' /\ SuccessIsSent' /\ TellsTrue'
  BY <1>1 DEF Inv, OneHolder, Held, SuccessIsSent, With, Items, TellsTrue
<1> QED
  BY <1>3, <1>4, <1>5, <1>6 DEF Inv

-----------------------------------------------------------------------------
(* The theorems *)

LEMMA InvInit == Init => Inv
<1> SUFFICES ASSUME Init PROVE Inv
  OBVIOUS
<1>1. /\ kind \in Kinds /\ skip \subseteq Items
      /\ job = [status |-> "QUEUED", processed |-> 0, counts |-> NoCounts]
      /\ item = [i \in Items |-> "PENDING"] /\ attempts = [i \in Items |-> 0]
      /\ messages = 1 /\ dispatched = TRUE
      /\ pc = [w \in Workers |-> "idle"] /\ wk = [w \in Workers |-> Blank]
      /\ sent = {} /\ retries = 0 /\ takeovers = 0 /\ faults = 0
  BY DEF Init
<1>2. 0 \in 0 .. N /\ NoCounts \in Counts
  BY BulkAssumption DEF NoCounts, Counts
<1>3. job \in [status : {"QUEUED", "RUNNING"} \cup Terminal, processed : 0 .. N, counts : Counts]
  BY <1>1, <1>2
<1>4. pc \in [Workers -> Stage] /\ wk \in [Workers -> Local]
  BY <1>1, BlankType, StagesAre
<1>5. retries \in 0 .. MaxRetries /\ takeovers \in 0 .. MaxTakeovers /\ faults \in 0 .. MaxFaults
  BY <1>1, BulkAssumption
<1>6. item \in [Items -> ItemStatus] /\ attempts \in [Items -> Nat]
  BY <1>1 DEF ItemStatus
<1>7. dispatched \in BOOLEAN
  BY <1>1
<1>8. TypeOK
  BY <1>1, <1>3, <1>4, <1>5, <1>6, <1>7 DEF TypeOK
<1>9. \A w \in Workers : pc[w] \notin Inside /\ pc[w] = "idle"
  BY <1>1, StagesAre
<1>10. OneHolder /\ TellsTrue /\ CountsHold
  BY <1>9 DEF OneHolder, TellsTrue, CountsHold
<1>11. SuccessIsSent /\ CompletedIsSettled
  BY <1>1 DEF SuccessIsSent, With, CompletedIsSettled, Completed
<1> QED
  BY <1>8, <1>10, <1>11 DEF Inv

LEMMA InvStep == Inv /\ [Next]_vars => Inv'
<1> SUFFICES ASSUME Inv, [Next]_vars PROVE Inv'
  OBVIOUS
<1>1. ASSUME NEW w \in Workers, Work(w) PROVE Inv'
  BY <1>1, FindInv, ClaimJobInv, ClaimRefusedInv, PickItemInv, TakeItemInv, SkipInv,
     UpdateStockInv, ApplyPromotionInv, FinishItemInv, RetryItemInv, ReleaseForRetryInv,
     StopItemInv, StopJobInv, ListItemsInv, UpdateProgressInv DEF Work
<1>2. CASE Duplicate
  <2>1. messages' \in Nat
    BY <1>2 DEF Duplicate, Inv, TypeOK
  <2> QED
    BY <1>2, <2>1, SameInv, FaultType DEF Duplicate
<1>3. CASE UNCHANGED vars
  <2>1. messages' \in Nat /\ faults' \in 0 .. MaxFaults
    BY <1>3 DEF vars, boundVars, Inv, TypeOK
  <2> QED
    BY <1>3, <2>1, SameInv DEF vars, boundVars
<1> QED
  BY <1>1, <1>2, <1>3, DeliverInv, FailInv, RetryErrorsInv DEF Next

\* Every reachable state of a bulk job satisfies the inductive invariant.
THEOREM Invariance == Spec => []Inv
BY InvInit, InvStep, PTL DEF Spec

\* The rows, the messages and the locals keep their types.
THEOREM TypeCorrect == Spec => []TypeOK
<1>1. Inv => TypeOK
  BY DEF Inv
<1> QED
  BY <1>1, Invariance, PTL

\* claim_mercadolibre_*_bulk_job lets one invocation in, until a holder outlives
\* its two minutes.
THEOREM OneAtATime == Spec => []OneHolder
<1>1. Inv => OneHolder
  BY DEF Inv
<1> QED
  BY <1>1, Invariance, PTL

\* finishItem records SUCCESS only of an item Mercado Libre changed, however many
\* invocations took it.
THEOREM SuccessIsTrue == Spec => []SuccessIsSent
<1>1. Inv => SuccessIsSent
  BY DEF Inv
<1> QED
  BY <1>1, Invariance, PTL

\* refreshProgress completes a job only when every item has its verdict, and with
\* the counters of the items.
THEOREM SettledWhenCompleted == Spec => []CompletedIsSettled
<1>1. Inv => CompletedIsSettled
  BY DEF Inv
<1> QED
  BY <1>1, Invariance, PTL

=============================================================================

---------------------- MODULE PublicationSnapshotProofs ----------------------
(***************************************************************************)
(* Proofs about PublicationSnapshot, for every number of publications,     *)
(* families and processes, and every bound on what goes wrong.             *)
(***************************************************************************)
EXTENDS PublicationSnapshot, TLAPS

\* A publication an instance remembers nothing of has no synchronisation there.
Idled ==
    \A n \in Instances, i \in Items : pending[n][i] = "no" => At(<<n, i>>, "idle")

\* What a synchronisation knows at its stage.
Shaped ==
    \A a \in Savers :
        /\ ~At(a, "idle") => saver[a].item \in Items
        /\ saver[a].stage \in {"details"} \cup Writing => saver[a].fam \in Families \cup {Own}
        /\ saver[a].stage \in {"details", "missing", "drop", "items"} => ~Shared(a)
        /\ saver[a].stage \in Writing /\ Shared(a) => saver[a].members = {saver[a].item}

\* The inductive invariant behind ShownOnce and NoticeIsFollowed.
Inv == TypeOK /\ Idled /\ Shaped /\ ShownOnce /\ NoticeIsFollowed

-----------------------------------------------------------------------------
(* Savers *)

LEMMA PairIs ==
    ASSUME NEW a \in Savers, a # Batch
    PROVE  /\ a \in Instances \X Items /\ a = <<a[1], a[2]>>
           /\ a[1] \in Instances /\ a[2] \in Items
BY DEF Savers

LEMMA StageIs ==
    /\ Idle \in Saver /\ Idle.stage = "idle"
    /\ \A i \in Items : /\ Begun(i) \in Saver /\ Begun(i).stage = "item" /\ Begun(i).item = i
BY DEF Idle, Begun, Saver, Stages, Writing

\* The end of a synchronisation changes nobody else's, and leaves it at rest or
\* about to read again.
Ended(a) ==
    /\ pending' \in [Instances -> [Items -> {"no", "once", "again"}]]
    /\ due' \subseteq Instances \X Items
    /\ saver' \in [Savers -> Saver]
    /\ \A b \in Savers \ {a} : saver'[b] = saver[b]
    /\ saver'[a].stage \in {"idle", "item"}
    /\ saver'[a].stage = "item" => saver'[a].item \in Items
    /\ Idled' /\ NoticeIsFollowed'

LEMMA ProcessEnds ==
    ASSUME Inv, NEW n \in Instances, NEW i \in Items, NEW stays,
           At(<<n, i>>, "item") => <<n, i>> \in stays, Process(n, i, stays)
    PROVE  Ended(<<n, i>>)
<1> DEFINE a == <<n, i>>
<1>1. a \in Savers
  BY DEF Savers
<1>2. CASE pending[n][i] = "again"
  <2>1. pending' = [pending EXCEPT ![n][i] = "once"] /\ due' = due
        /\ saver' = [saver EXCEPT ![a] = Begun(i)]
    BY <1>2 DEF Process
  <2>2. \A m \in Instances, j \in Items :
          pending'[m][j] = IF m = n /\ j = i THEN "once" ELSE pending[m][j]
    BY <2>1 DEF Inv, TypeOK
  <2>3. saver' \in [Savers -> Saver] /\ saver'[a] = Begun(i)
        /\ \A b \in Savers \ {a} : saver'[b] = saver[b]
    BY <1>1, <2>1, StageIs DEF Inv, TypeOK
  <2>4. pending' \in [Instances -> [Items -> {"no", "once", "again"}]]
    BY <2>1 DEF Inv, TypeOK
  <2>5. Idled'
    BY <2>2, <2>3 DEF Inv, Idled, At, Savers
  <2>6. NoticeIsFollowed'
    <3> SUFFICES ASSUME NEW d \in due
                 PROVE  pending'[d[1]][d[2]] = "again" \/ saver'[d].stage = "item"
      BY <2>1 DEF NoticeIsFollowed, At
    <3>1. d \in Savers /\ d = <<d[1], d[2]>> /\ d[1] \in Instances /\ d[2] \in Items
      BY DEF Inv, TypeOK, Savers
    <3>2. CASE d = a
      BY <3>2, <2>3, StageIs
    <3>3. CASE d # a
      BY <3>1, <3>3, <2>2, <2>3 DEF Inv, NoticeIsFollowed, At
    <3> QED
      BY <3>2, <3>3
  <2> QED
    BY <2>1, <2>3, <2>4, <2>5, <2>6, StageIs DEF Ended, Inv, TypeOK
<1>3. CASE pending[n][i] # "again"
  <2>1. pending' = [pending EXCEPT ![n][i] = "no"] /\ due' = due \ stays
        /\ saver' = [saver EXCEPT ![a] = Idle]
    BY <1>3 DEF Process
  <2>2. \A m \in Instances, j \in Items :
          pending'[m][j] = IF m = n /\ j = i THEN "no" ELSE pending[m][j]
    BY <2>1 DEF Inv, TypeOK
  <2>3. saver' \in [Savers -> Saver] /\ saver'[a] = Idle
        /\ \A b \in Savers \ {a} : saver'[b] = saver[b]
    BY <1>1, <2>1, StageIs DEF Inv, TypeOK
  <2>4. pending' \in [Instances -> [Items -> {"no", "once", "again"}]]
    BY <2>1 DEF Inv, TypeOK
  <2>5. Idled'
    BY <2>2, <2>3, StageIs DEF Inv, Idled, At, Savers
  <2>6. NoticeIsFollowed'
    <3> SUFFICES ASSUME NEW d \in due'
                 PROVE  pending'[d[1]][d[2]] = "again" \/ saver'[d].stage = "item"
      BY DEF NoticeIsFollowed, At
    <3>1. d \in Savers /\ d = <<d[1], d[2]>> /\ d[1] \in Instances /\ d[2] \in Items
          /\ d \in due /\ d \notin stays
      BY <2>1 DEF Inv, TypeOK, Savers
    <3>2. d # a
      BY <3>1, <1>3 DEF Inv, NoticeIsFollowed
    <3> QED
      BY <3>1, <3>2, <2>2, <2>3 DEF Inv, NoticeIsFollowed, At
  <2> QED
    BY <2>1, <2>3, <2>4, <2>5, <2>6, StageIs DEF Ended, Inv, TypeOK
<1> QED
  BY <1>2, <1>3

LEMMA BatchEnds ==
    ASSUME Inv, NEW left \in SUBSET Items, Batched(left)
    PROVE  Ended(Batch) /\ todo' = left
<1>1. saver' = [saver EXCEPT ![Batch] = Idle] /\ todo' = left /\ pending' = pending /\ due' = due
  BY DEF Batched
<1>2. Batch \in Savers /\ \A n \in Instances, i \in Items : <<n, i>> \in Savers \ {Batch}
  BY SnapshotAssumption DEF Savers
<1>3. saver' \in [Savers -> Saver] /\ saver'[Batch] = Idle
      /\ \A b \in Savers \ {Batch} : saver'[b] = saver[b]
  BY <1>1, <1>2, StageIs DEF Inv, TypeOK
<1>4. Idled'
  BY <1>1, <1>2, <1>3 DEF Inv, Idled, At
<1>5. NoticeIsFollowed'
  <2> SUFFICES ASSUME NEW d \in due
               PROVE  pending[d[1]][d[2]] = "again" \/ saver'[d].stage = "item"
    BY <1>1 DEF NoticeIsFollowed, At
  <2>1. d \in Savers \ {Batch}
    BY <1>2 DEF Inv, TypeOK
  <2> QED
    BY <2>1, <1>3 DEF Inv, NoticeIsFollowed, At
<1> QED
  BY <1>1, <1>3, <1>4, <1>5, StageIs DEF Ended, Inv, TypeOK

LEMMA FinishedEnds ==
    ASSUME Inv, NEW a \in Savers, saver[a].stage \notin {"idle", "item"}, Finished(a)
    PROVE  Ended(a) /\ todo' \subseteq Items /\ sweep' = sweep
<1>1. CASE a = Batch
  BY <1>1, BatchEnds DEF Finished, Inv, TypeOK
<1>2. CASE a # Batch
  <2>1. a[1] \in Instances /\ a[2] \in Items /\ a = <<a[1], a[2]>>
    BY <1>2, PairIs
  <2>2. Process(a[1], a[2], {}) /\ sweep' = sweep /\ todo' = todo
    BY <1>2 DEF Finished
  <2>3. ~At(a, "item")
    BY DEF At
  <2> QED
    BY <2>1, <2>2, <2>3, ProcessEnds DEF Inv, TypeOK
<1> QED
  BY <1>1, <1>2

\* A failure gives up what the save was about.
LEMMA FailedEnds ==
    ASSUME Inv, NEW a \in Savers, ~At(a, "idle"), Failed(a)
    PROVE  /\ Ended(a) /\ todo' \subseteq Items /\ sweep' \in {sweep, "failed"}
           /\ missed' \subseteq Items /\ missed \subseteq missed'
           /\ saver[a].stage \in Writing => saver[a].members \subseteq missed'
<1>1. saver[a] \in Saver /\ saver[a].item \in Items
  BY DEF Inv, TypeOK, Shaped
<1>2. /\ missed' \subseteq Items /\ missed \subseteq missed'
      /\ saver[a].stage \in Writing => saver[a].members \subseteq missed'
  BY <1>1 DEF Failed, Inv, TypeOK, Saver
<1>3. CASE a = Batch
  BY <1>2, <1>3, BatchEnds DEF Failed, Inv, TypeOK
<1>4. CASE a # Batch
  <2>1. a[1] \in Instances /\ a[2] \in Items /\ a = <<a[1], a[2]>>
    BY <1>4, PairIs
  <2>2. Process(a[1], a[2], {a}) /\ sweep' = sweep /\ todo' = todo
    BY <1>4 DEF Failed
  <2> QED
    BY <1>2, <2>1, <2>2, ProcessEnds DEF Inv, TypeOK
<1> QED
  BY <1>3, <1>4

\* A synchronisation that goes on from one request to the next keeps what is
\* remembered of the notifications.
LEMMA Continues ==
    ASSUME Inv, NEW a \in Savers, NEW s \in Saver, saver[a].stage \notin {"idle", "item"},
           s.stage # "idle", saver' = [saver EXCEPT ![a] = s], pending' = pending, due' = due
    PROVE  /\ saver' \in [Savers -> Saver] /\ saver'[a] = s
           /\ \A b \in Savers \ {a} : saver'[b] = saver[b]
           /\ Idled' /\ NoticeIsFollowed'
<1>1. saver' \in [Savers -> Saver] /\ saver'[a] = s
      /\ \A b \in Savers \ {a} : saver'[b] = saver[b]
  BY DEF Inv, TypeOK
<1>2. Idled'
  BY <1>1 DEF Inv, Idled, At, Savers
<1>3. NoticeIsFollowed'
  <2> SUFFICES ASSUME NEW d \in due
               PROVE  pending[d[1]][d[2]] = "again" \/ saver'[d].stage = "item"
    BY DEF NoticeIsFollowed, At
  <2>1. d \in Savers
    BY DEF Inv, TypeOK, Savers
  <2> QED
    BY <2>1, <1>1 DEF Inv, NoticeIsFollowed, At
<1> QED
  BY <1>1, <1>2, <1>3

\* What it knows is still right when only its own record changes, to a right one.
LEMMA StaysShaped ==
    ASSUME Inv, NEW a \in Savers, \A b \in Savers \ {a} : saver'[b] = saver[b],
           saver'[a].stage # "idle" => saver'[a].item \in Items,
           saver'[a].stage \in {"details"} \cup Writing => saver'[a].fam \in Families \cup {Own},
           saver'[a].stage \in {"details", "missing", "drop", "items"} => saver'[a].fam # Own,
           saver'[a].stage \in Writing /\ saver'[a].fam = Own
             => saver'[a].members = {saver'[a].item}
    PROVE  Shaped'
BY DEF Inv, Shaped, At, Shared

\* A publication shown twice before a step of a is shown twice for a reason that
\* the step leaves alone, unless a itself was to remove one of the two.
LEMMA StaysShownOnce ==
    ASSUME Inv, NEW a \in Savers, \A b \in Savers \ {a} : saver'[b] = saver[b],
           \A i \in Items \ missed' : i \in rows' /\ child'[i] # None =>
               \/ Removing(a, i)'
               \/ i \notin missed /\ i \in rows /\ child[i] # None /\ ~Removing(a, i)
    PROVE  ShownOnce'
<1> SUFFICES ASSUME NEW i \in Items, i \notin missed', i \in rows', child'[i] # None,
                    ~Removing(a, i)'
             PROVE  \E b \in Savers : Removing(b, i)'
  BY DEF ShownOnce
<1>1. PICK b \in Savers : Removing(b, i)
  BY DEF Inv, ShownOnce
<1>2. b # a
  BY <1>1
<1> QED
  BY <1>1, <1>2 DEF Removing, At, Shared

-----------------------------------------------------------------------------
(* Type correctness of the histories *)

LEMMA HistoryTypes ==
    ASSUME Inv, NEW a \in Savers, NEW W \in SUBSET Items, Describes(a, W) \/ Removes(a, W)
    PROVE  /\ lagging' \subseteq Items /\ overtaken' \subseteq Items /\ missed' \subseteq Items
           /\ missed \ W \subseteq missed'
           /\ Removes(a, W) => missed' = missed
<1>1. saver[a].old \subseteq Items /\ Late(a) \subseteq Items
  BY DEF Inv, TypeOK, Saver, Late
<1> QED
  BY <1>1 DEF Describes, Removes, Inv, TypeOK

LEMMA KeyIsKey ==
    ASSUME Inv, NEW a \in Savers, saver[a].stage \in Writing
    PROVE  /\ KeyOf(a) \in Keys
           /\ KeyOf(a) \in Items <=> Shared(a)
           /\ Shared(a) => KeyOf(a) = saver[a].item /\ saver[a].members = {saver[a].item}
BY SnapshotAssumption DEF Inv, Shaped, Writing, At, Shared, KeyOf, KeyIn, Keys

-----------------------------------------------------------------------------
(* Mercado Libre and the webhook *)

LEMMA ChangeStep ==
    ASSUME Inv, NEW i \in Items, NEW p \in Families \cup {Own}, Change(i, p)
    PROVE  Inv'
<1>1. ASSUME NEW a \in Savers
      PROVE  /\ saver[a] \in Saver /\ saver'[a] \in Saver /\ saver'[a].stage = saver[a].stage
             /\ saver[a].stage # "idle" => /\ saver'[a].item = saver[a].item
                                           /\ saver'[a].fam = saver[a].fam
                                           /\ saver'[a].members = saver[a].members
  <2>1. saver[a] \in Saver
    BY DEF Inv, TypeOK
  <2>2. saver'[a] = IF saver[a].stage = "idle" THEN Idle
                    ELSE [saver[a] EXCEPT !.old = @ \cup {i}]
    BY DEF Change, At
  <2> QED
    BY <2>1, <2>2, StageIs DEF Saver
<1>2. saver' \in [Savers -> Saver]
  <2>1. saver' = [a \in Savers |-> saver'[a]]
    BY DEF Change
  <2> QED
    BY <2>1, <1>1
<1>4. UNCHANGED <<pending, due, dbVars, sweep, todo, sweeps, overtaken, missed>>
  BY DEF Change
<1>3. /\ place' \in [Items -> Families \cup {Own}] /\ inbox' \subseteq Items
      /\ lagging' \subseteq Items /\ calm' = FALSE
  BY DEF Change, Inv, TypeOK
<1>10. trouble' \in 0 .. MaxTrouble
  BY SnapshotAssumption DEF Change, Trouble, Inv, TypeOK
<1>5. TypeOK'
  BY <1>2, <1>3, <1>4, <1>10 DEF Inv, TypeOK, dbVars
<1>6. Idled'
  BY <1>1, <1>4 DEF Inv, Idled, At, Savers
<1>7. Shaped'
  BY <1>1 DEF Inv, Shaped, At, Shared, Writing
<1>8. ShownOnce'
  <2>1. \A a \in Savers, j \in Items : Removing(a, j) => Removing(a, j)'
    BY <1>1 DEF Removing, At, Shared
  <2> QED
    BY <2>1, <1>4 DEF Inv, ShownOnce, dbVars
<1>9. NoticeIsFollowed'
  <2>1. due \subseteq Savers
    BY DEF Inv, TypeOK, Savers
  <2> QED
    BY <2>1, <1>1, <1>4 DEF Inv, NoticeIsFollowed, At
<1> QED
  BY <1>5, <1>6, <1>7, <1>8, <1>9 DEF Inv

LEMMA ReceiveStep ==
    ASSUME Inv, NEW n \in Instances, NEW i \in Items, Receive(n, i)
    PROVE  Inv'
<1> DEFINE a == <<n, i>>
<1>1. a \in Savers
  BY DEF Savers
<1>2. UNCHANGED <<place, dbVars, sweepVars, truth>> /\ due' = due \cup {a}
  BY DEF Receive
<1>3. \A m \in Instances, j \in Items :
        pending'[m][j] = IF m = n /\ j = i THEN IF pending[n][i] = "no" THEN "once" ELSE "again"
                                           ELSE pending[m][j]
  BY DEF Receive, Remember, Inv, TypeOK
<1>4. pending' \in [Instances -> [Items -> {"no", "once", "again"}]]
  BY DEF Receive, Remember, Inv, TypeOK
<1>5. /\ saver' \in [Savers -> Saver]
      /\ \A b \in Savers \ {a} : saver'[b] = saver[b]
      /\ saver'[a] = IF pending[n][i] = "no" THEN Begun(i) ELSE saver[a]
  BY <1>1, StageIs DEF Receive, Remember, Inv, TypeOK
<1>6. pending[n][i] = "no" => saver[a].stage = "idle"
  BY DEF Inv, Idled, At
<1>7. TypeOK'
  BY <1>2, <1>4, <1>5, SnapshotAssumption
  DEF Receive, Trouble, Inv, TypeOK, dbVars, sweepVars, truth
<1>8. Idled'
  BY <1>1, <1>3, <1>5 DEF Inv, Idled, At, Savers
<1>9. Shaped'
  <2>1. CASE pending[n][i] = "no"
    BY <2>1, <1>1, <1>5, StageIs, StaysShaped DEF Writing
  <2>2. CASE pending[n][i] # "no"
    BY <2>2, <1>1, <1>5 DEF Inv, Shaped, At, Shared
  <2> QED
    BY <2>1, <2>2
<1>10. ShownOnce'
  <2>1. \A b \in Savers, j \in Items : Removing(b, j) => Removing(b, j)'
    BY <1>1, <1>5, <1>6 DEF Removing, At, Shared
  <2> QED
    BY <2>1, <1>2 DEF Inv, ShownOnce, dbVars, truth
<1>11. NoticeIsFollowed'
  <2> SUFFICES ASSUME NEW d \in due'
               PROVE  pending'[d[1]][d[2]] = "again" \/ saver'[d].stage = "item"
    BY DEF NoticeIsFollowed, At
  <2>1. d \in Savers /\ d = <<d[1], d[2]>> /\ d[1] \in Instances /\ d[2] \in Items
    BY <1>2 DEF Inv, TypeOK, Savers
  <2>2. CASE d = a
    BY <2>2, <1>3, <1>5, StageIs
  <2>3. CASE d # a
    BY <2>1, <2>3, <1>2, <1>3, <1>5 DEF Inv, NoticeIsFollowed, At
  <2> QED
    BY <2>2, <2>3
<1> QED
  BY <1>7, <1>8, <1>9, <1>10, <1>11 DEF Inv

LEMMA FailsStep ==
    ASSUME Inv, NEW a \in Savers, ~At(a, "idle"), Failed(a), trouble' \in 0 .. MaxTrouble,
           UNCHANGED <<place, inbox, dbVars, calm, sweeps, lagging, overtaken>>
    PROVE  Inv'
<1>1. /\ Ended(a) /\ todo' \subseteq Items /\ sweep' \in {sweep, "failed"}
      /\ missed' \subseteq Items /\ missed \subseteq missed'
      /\ saver[a].stage \in Writing => saver[a].members \subseteq missed'
  BY FailedEnds
<1>2. TypeOK'
  BY <1>1 DEF Ended, Inv, TypeOK, dbVars
<1>3. Shaped'
  BY <1>1, StaysShaped DEF Ended, Writing
<1>4. ShownOnce'
  <2>1. ASSUME NEW i \in Items \ missed', Removing(a, i) PROVE FALSE
    BY <1>1, <2>1 DEF Removing, At, Writing, Inv, Shaped
  <2> QED
    BY <1>1, <2>1, StaysShownOnce DEF Ended, dbVars
<1> QED
  BY <1>1, <1>2, <1>3, <1>4 DEF Ended, Inv

LEMMA RestartStep ==
    ASSUME Inv, NEW n \in Instances, Restart(n)
    PROVE  Inv'
<1>1. UNCHANGED <<place, inbox, dbVars, sweepVars, lagging, overtaken>>
      /\ due' = {d \in due : d[1] # n}
  BY DEF Restart
<1>2. \A m \in Instances, j \in Items : pending'[m][j] = IF m = n THEN "no" ELSE pending[m][j]
  BY DEF Restart, Inv, TypeOK
<1>3. pending' \in [Instances -> [Items -> {"no", "once", "again"}]]
  BY DEF Restart, Inv, TypeOK
<1>4. \A a \in Savers : saver'[a] = IF a # Batch /\ a \in {n} \X Items THEN Idle ELSE saver[a]
  BY DEF Restart
<1>5. saver' \in [Savers -> Saver]
  BY StageIs DEF Restart, Inv, TypeOK
<1>6. missed \subseteq missed' /\ missed' \subseteq Items
      /\ \A j \in Items : saver[<<n, j>>].members \subseteq missed'
  <2>1. \A j \in Items : saver[<<n, j>>].members \subseteq Items
    <3> SUFFICES ASSUME NEW j \in Items PROVE saver[<<n, j>>].members \subseteq Items
      OBVIOUS
    <3>1. <<n, j>> \in Savers
      BY DEF Savers
    <3> QED
      BY <3>1 DEF Inv, TypeOK, Saver
  <2>2. missed' = missed \cup {i \in Items : pending[n][i] # "no"}
                         \cup UNION {saver[<<n, i>>].members : i \in Items}
    BY DEF Restart
  <2>3. missed \subseteq Items
    BY DEF Inv, TypeOK
  <2> QED
    BY <2>1, <2>2, <2>3
<1>7. TypeOK'
  <2>1. trouble' \in 0 .. MaxTrouble
    BY SnapshotAssumption DEF Restart, Trouble, Inv, TypeOK
  <2> QED
    BY <1>1, <1>3, <1>5, <1>6, <2>1 DEF Inv, TypeOK, dbVars, sweepVars
<1>8. Idled'
  <2> SUFFICES ASSUME NEW m \in Instances, NEW j \in Items, pending'[m][j] = "no"
               PROVE  saver'[<<m, j>>].stage = "idle"
    BY DEF Idled, At
  <2>1. <<m, j>> \in Savers /\ <<m, j>> # Batch
    BY SnapshotAssumption DEF Savers
  <2> QED
    BY <2>1, <1>2, <1>4, StageIs DEF Inv, Idled, At
<1>9. Shaped'
  BY <1>4, StageIs DEF Inv, Shaped, At, Shared, Writing
<1>10. ShownOnce'
  <2> SUFFICES ASSUME NEW i \in Items, i \notin missed', i \in rows, child[i] # None
               PROVE  \E a \in Savers : Removing(a, i)'
    BY <1>1 DEF ShownOnce, dbVars
  <2>1. PICK a \in Savers : Removing(a, i)
    BY <1>6 DEF Inv, ShownOnce
  <2>2. i \in saver[a].members
    BY <2>1 DEF Removing, Inv, Shaped, At, Writing
  <2>3. ~(a # Batch /\ a \in {n} \X Items)
    <3> SUFFICES ASSUME a # Batch, a \in {n} \X Items PROVE FALSE
      OBVIOUS
    <3>1. a = <<n, a[2]>> /\ a[2] \in Items
      OBVIOUS
    <3> QED
      BY <3>1, <2>2, <1>6
  <2> QED
    BY <2>1, <2>3, <1>4 DEF Removing, At, Shared
<1>11. NoticeIsFollowed'
  <2> SUFFICES ASSUME NEW d \in due, d[1] # n
               PROVE  pending'[d[1]][d[2]] = "again" \/ saver'[d].stage = "item"
    BY <1>1 DEF NoticeIsFollowed, At
  <2>1. d \in Savers /\ d = <<d[1], d[2]>> /\ d[1] \in Instances /\ d[2] \in Items
    BY DEF Inv, TypeOK, Savers
  <2>2. d \notin {n} \X Items
    BY <2>1
  <2> QED
    BY <2>1, <2>2, <1>2, <1>4 DEF Inv, NoticeIsFollowed, At
<1> QED
  BY <1>7, <1>8, <1>9, <1>10, <1>11 DEF Inv

-----------------------------------------------------------------------------
(* Reading *)

LEMMA SyncItemStep ==
    ASSUME Inv, NEW a \in Savers, SyncItem(a)
    PROVE  Inv'
<1> DEFINE i == saver[a].item
           s == IF place[i] = Own
                THEN [Begun(i) EXCEPT !.stage = "parent", !.fam = Own, !.members = {i},
                                      !.since = (sweep # "idle")]
                ELSE [Begun(i) EXCEPT !.stage = "family"]
<1>1. /\ saver[a].stage = "item" /\ i \in Items /\ saver' = [saver EXCEPT ![a] = s]
      /\ due' = due \ {a}
      /\ UNCHANGED <<place, inbox, pending, dbVars, sweepVars, truth, trouble>>
  BY DEF SyncItem, At, Inv, Shaped
<1>2. /\ s \in Saver /\ s.stage \in {"parent", "family"} /\ s.item = i
      /\ s.stage = "parent" => s.fam = Own /\ s.members = {i}
  BY <1>1 DEF Begun, Idle, Saver, Stages, Writing
<1> HIDE DEF s
<1>3. saver' \in [Savers -> Saver] /\ saver'[a] = s /\ \A b \in Savers \ {a} : saver'[b] = saver[b]
  BY <1>1, <1>2 DEF Inv, TypeOK
<1>4. TypeOK'
  BY <1>1, <1>3 DEF Inv, TypeOK, dbVars, sweepVars, truth
<1>5. Idled'
  <2>1. \A n \in Instances, j \in Items : <<n, j>> \in Savers
    BY DEF Savers
  <2> QED
    BY <1>1, <1>3, <2>1 DEF Inv, Idled, At
<1>6. Shaped'
  BY <1>1, <1>2, <1>3, StaysShaped DEF Writing
<1>7. ShownOnce'
  BY <1>1, <1>3, StaysShownOnce DEF Removing, At, dbVars, truth
<1>8. NoticeIsFollowed'
  <2> SUFFICES ASSUME NEW d \in due, d # a
               PROVE  pending[d[1]][d[2]] = "again" \/ saver'[d].stage = "item"
    BY <1>1 DEF NoticeIsFollowed, At
  <2>1. d \in Savers
    BY DEF Inv, TypeOK, Savers
  <2> QED
    BY <2>1, <1>3 DEF Inv, NoticeIsFollowed, At
<1> QED
  BY <1>4, <1>5, <1>6, <1>7, <1>8 DEF Inv

\* A step of a save that goes on and writes nothing, or gives up.
LEMMA ReadStep ==
    ASSUME Inv, NEW a \in Savers, NEW s \in Saver, saver[a].stage \in {"family", "details"},
           s.stage \in {"details", "parent"}, s.item = saver[a].item, s.fam \in Families,
           saver' = [saver EXCEPT ![a] = s],
           UNCHANGED <<pending, due, sweep, todo, missed>>,
           UNCHANGED <<place, inbox, dbVars, calm, sweeps, lagging, overtaken, trouble>>
    PROVE  Inv'
<1>1. /\ saver' \in [Savers -> Saver] /\ saver'[a] = s
      /\ \A b \in Savers \ {a} : saver'[b] = saver[b]
      /\ Idled' /\ NoticeIsFollowed'
  BY Continues
<1>2. TypeOK'
  BY <1>1 DEF Inv, TypeOK, dbVars
<1>3. s.item \in Items /\ s.fam # Own
  BY SnapshotAssumption DEF Inv, Shaped, At
<1>4. Shaped'
  BY <1>1, <1>3, StaysShaped DEF Writing
<1>5. ShownOnce'
  BY <1>1, StaysShownOnce DEF Removing, At, dbVars
<1> QED
  BY <1>1, <1>2, <1>4, <1>5 DEF Inv

LEMMA ResolveFamilyStep ==
    ASSUME Inv, NEW a \in Savers, ResolveFamily(a)
    PROVE  Inv'
<1> DEFINE i == saver[a].item
           s == [saver[a] EXCEPT !.stage = "details", !.fam = place[i], !.old = {},
                                 !.members = {j \in Items : place[j] = place[i]}]
<1>1. saver[a].stage = "family" /\ saver[a] \in Saver /\ i \in Items
      /\ UNCHANGED <<place, inbox, dbVars, calm, sweeps, lagging, overtaken, trouble>>
  BY DEF ResolveFamily, At, Inv, TypeOK, Shaped
<1>2. CASE place[i] = Own
  BY <1>1, <1>2, FailsStep DEF ResolveFamily, At, Inv, TypeOK
<1>3. CASE place[i] # Own
  <2>1. saver' = [saver EXCEPT ![a] = s] /\ UNCHANGED <<pending, due, sweep, todo, missed>>
    BY <1>3 DEF ResolveFamily
  <2>2. place[i] \in Families
    BY <1>1, <1>3 DEF Inv, TypeOK
  <2>3. s \in Saver /\ s.stage = "details" /\ s.item = i /\ s.fam \in Families
    BY <1>1, <2>2 DEF Saver, Stages
  <2> HIDE DEF s
  <2> QED
    BY <1>1, <2>1, <2>3, ReadStep
<1> QED
  BY <1>2, <1>3

LEMMA SaveResolvedFamilyStep ==
    ASSUME Inv, NEW a \in Savers, SaveResolvedFamily(a)
    PROVE  Inv'
<1> DEFINE found == {j \in saver[a].members : place[j] # Own}
           s == [saver[a] EXCEPT !.stage = "parent", !.members = found, !.since = (sweep # "idle")]
<1>1. saver[a].stage = "details" /\ saver[a] \in Saver /\ saver[a].fam \in Families
      /\ UNCHANGED <<place, inbox, dbVars, calm, sweeps, lagging, overtaken, trouble>>
  BY DEF SaveResolvedFamily, At, Inv, TypeOK, Shaped, Shared
<1>2. CASE found = {}
  BY <1>1, <1>2, FailsStep DEF SaveResolvedFamily, At, Inv, TypeOK
<1>3. CASE found # {}
  <2>1. saver' = [saver EXCEPT ![a] = s] /\ UNCHANGED <<pending, due, sweep, todo, missed>>
    BY <1>3 DEF SaveResolvedFamily
  <2>2. s \in Saver /\ s.stage = "parent" /\ s.item = saver[a].item /\ s.fam \in Families
    BY <1>1 DEF Saver, Stages, Writing
  <2> HIDE DEF s
  <2> QED
    BY <1>1, <2>1, <2>2, ReadStep
<1> QED
  BY <1>2, <1>3

-----------------------------------------------------------------------------
(* Writing *)

LEMMA UpsertStep ==
    ASSUME Inv, NEW a \in Savers, Upsert(a)
    PROVE  Inv'
<1> DEFINE s == [saver[a] EXCEPT !.stage = "children", !.held = TRUE]
<1>1. saver[a].stage = "parent" /\ saver[a] \in Saver /\ saver[a].item \in Items
  BY DEF Upsert, At, Inv, TypeOK, Shaped
<1>2. /\ saver' = [saver EXCEPT ![a] = s] /\ rows' = rows \cup {KeyOf(a)}
      /\ fresh' \in {fresh \cup {KeyOf(a)}, fresh \ {KeyOf(a)}}
      /\ UNCHANGED <<place, hookVars, child, marked, sweepVars, trouble>>
  BY DEF Upsert
<1>3. s \in Saver /\ s.stage = "children" /\ s.item = saver[a].item /\ s.fam = saver[a].fam
      /\ s.members = saver[a].members
  BY <1>1 DEF Saver, Stages, Writing
<1> HIDE DEF s
<1>4. /\ saver' \in [Savers -> Saver] /\ saver'[a] = s
      /\ \A b \in Savers \ {a} : saver'[b] = saver[b]
      /\ Idled' /\ NoticeIsFollowed'
  BY <1>1, <1>2, <1>3, Continues DEF hookVars
<1>5. /\ KeyOf(a) \in Keys
      /\ KeyOf(a) \in Items <=> Shared(a)
      /\ Shared(a) => KeyOf(a) = saver[a].item /\ saver[a].members = {saver[a].item}
  BY <1>1, KeyIsKey DEF Writing
<1>6. /\ lagging' \subseteq Items /\ overtaken' \subseteq Items /\ missed' \subseteq Items
      /\ \A i \in Items \ missed' : i \in missed => Shared(a) /\ i = saver[a].item
  <2>1. CASE Shared(a)
    <3>1. saver[a].members \in SUBSET Items
      BY <1>1 DEF Saver
    <3>2. Describes(a, saver[a].members)
      BY <2>1 DEF Upsert
    <3> QED
      BY <2>1, <1>5, <3>1, <3>2, HistoryTypes
  <2>2. CASE ~Shared(a)
    <3> DEFINE W == {i \in Items : child[i] = saver[a].fam}
    <3>1. CASE Removes(a, W)
      BY <3>1, HistoryTypes DEF Removes
    <3>2. CASE UNCHANGED truth
      BY <3>2 DEF truth, Inv, TypeOK
    <3> QED
      BY <2>2, <3>1, <3>2 DEF Upsert
  <2> QED
    BY <2>1, <2>2
<1>7. TypeOK'
  <2>1. rows' \subseteq Keys /\ fresh' \subseteq Keys
    BY <1>2, <1>5 DEF Inv, TypeOK
  <2> QED
    BY <1>2, <1>4, <1>6, <2>1 DEF Inv, TypeOK, hookVars, sweepVars
<1>8. Shaped'
  BY <1>1, <1>3, <1>4, StaysShaped DEF Inv, Shaped, Writing, Shared
<1>9. ShownOnce'
  <2> SUFFICES ASSUME NEW i \in Items \ missed', i \in rows', child'[i] # None
               PROVE  \/ Removing(a, i)'
                      \/ i \notin missed /\ i \in rows /\ child[i] # None /\ ~Removing(a, i)
    BY <1>4, StaysShownOnce
  <2>1. CASE Shared(a) /\ i = saver[a].item
    BY <2>1, <1>3, <1>4 DEF Removing, At, Shared
  <2>2. CASE ~(Shared(a) /\ i = saver[a].item)
    BY <2>2, <1>1, <1>2, <1>5, <1>6 DEF Removing, At
  <2> QED
    BY <2>1, <2>2
<1> QED
  BY <1>4, <1>7, <1>8, <1>9 DEF Inv

\* After the last write of a save.
LEMMA AfterEnds ==
    ASSUME Inv, NEW a \in Savers, saver[a].stage \in {"children", "items"}, After(a)
    PROVE  /\ pending' \in [Instances -> [Items -> {"no", "once", "again"}]]
           /\ due' \subseteq Instances \X Items
           /\ saver' \in [Savers -> Saver] /\ todo' \subseteq Items /\ sweep' = sweep
           /\ \A b \in Savers \ {a} : saver'[b] = saver[b]
           /\ saver'[a].stage \in {"idle", "item", "mark"}
           /\ Idled' /\ NoticeIsFollowed' /\ Shaped'
<1>1. CASE a = Batch
  <2> DEFINE s == [saver[a] EXCEPT !.stage = "mark"]
  <2>1. saver' = [saver EXCEPT ![a] = s] /\ UNCHANGED <<pending, due, sweep, todo>>
    BY <1>1 DEF After, Step
  <2>2. saver[a] \in Saver
    BY DEF Inv, TypeOK
  <2>3. s \in Saver /\ s.stage = "mark" /\ s.item = saver[a].item /\ s.fam = saver[a].fam
        /\ s.members = saver[a].members
    BY <2>2 DEF Saver, Stages, Writing
  <2> HIDE DEF s
  <2>4. /\ saver' \in [Savers -> Saver] /\ saver'[a] = s
        /\ \A b \in Savers \ {a} : saver'[b] = saver[b]
        /\ Idled' /\ NoticeIsFollowed'
    BY <2>1, <2>3, Continues
  <2>5. Shaped'
    BY <2>3, <2>4, StaysShaped DEF Inv, Shaped, At, Shared, Writing
  <2> QED
    BY <2>1, <2>3, <2>4, <2>5 DEF Inv, TypeOK
<1>2. CASE a # Batch
  <2>1. Ended(a) /\ todo' \subseteq Items /\ sweep' = sweep
    BY <1>2, FinishedEnds DEF After
  <2>2. Shaped'
    BY <2>1, StaysShaped DEF Ended, Writing
  <2> QED
    BY <2>1, <2>2 DEF Ended
<1> QED
  BY <1>1, <1>2

LEMMA SaveSharedStep ==
    ASSUME Inv, NEW a \in Savers, SaveShared(a)
    PROVE  Inv'
<1>1. /\ saver[a].stage = "children" /\ Shared(a) /\ After(a)
      /\ child' = [i \in Items |-> IF i \in Childless(a) THEN None ELSE child[i]]
      /\ UNCHANGED <<place, inbox, rows, marked, fresh, calm, sweeps, trouble>>
  BY DEF SaveShared, At
<1>2. Childless(a) \in SUBSET Items /\ saver[a].item \in Childless(a)
  BY <1>1 DEF Childless, Inv, Shaped, At
<1>3. lagging' \subseteq Items /\ overtaken' \subseteq Items /\ missed' = missed
  <2>1. Removes(a, Childless(a))
    BY DEF SaveShared
  <2> QED
    BY <1>2, <2>1, HistoryTypes
<1>4. /\ pending' \in [Instances -> [Items -> {"no", "once", "again"}]]
      /\ due' \subseteq Instances \X Items
      /\ saver' \in [Savers -> Saver] /\ todo' \subseteq Items /\ sweep' = sweep
      /\ \A b \in Savers \ {a} : saver'[b] = saver[b]
      /\ Idled' /\ NoticeIsFollowed' /\ Shaped'
  BY <1>1, AfterEnds
<1>5. TypeOK'
  <2>1. child' \in [Items -> Families \cup {None}]
    BY <1>1 DEF Inv, TypeOK
  <2> QED
    BY <2>1, <1>1, <1>3, <1>4 DEF Inv, TypeOK
<1>6. ShownOnce'
  <2> SUFFICES ASSUME NEW i \in Items \ missed', i \in rows', child'[i] # None
               PROVE  i \notin missed /\ i \in rows /\ child[i] # None /\ ~Removing(a, i)
    BY <1>4, StaysShownOnce
  <2> QED
    BY <1>1, <1>2, <1>3 DEF Removing, At
<1> QED
  BY <1>4, <1>5, <1>6 DEF Inv

LEMMA UpsertManyStep ==
    ASSUME Inv, NEW a \in Savers, UpsertMany(a)
    PROVE  Inv'
<1>1. /\ saver[a].stage = "children" /\ ~Shared(a) /\ saver[a] \in Saver
      /\ UNCHANGED <<place, inbox, rows, marked, fresh, calm, sweeps, trouble>>
  BY DEF UpsertMany, At, Inv, TypeOK
<1>2. saver[a].fam \in Families /\ saver[a].item \in Items
  BY <1>1 DEF Inv, Shaped, At, Shared, Writing
<1>3. CASE ~saver[a].held
  <2>1. Failed(a) /\ UNCHANGED <<child, lagging, overtaken>>
    BY <1>3 DEF UpsertMany
  <2> QED
    BY <1>1, <2>1, FailsStep DEF At, dbVars, Inv, TypeOK
<1>4. CASE saver[a].held
  <2> DEFINE s == [saver[a] EXCEPT !.stage = "missing"]
  <2>1. /\ child' = [i \in Items |->
                       IF i \in saver[a].members THEN saver[a].fam ELSE child[i]]
        /\ saver' = [saver EXCEPT ![a] = s] /\ Describes(a, saver[a].members)
        /\ UNCHANGED <<pending, due, sweep, todo>>
    BY <1>4 DEF UpsertMany, Step
  <2>2. s \in Saver /\ s.stage = "missing" /\ s.item = saver[a].item /\ s.fam = saver[a].fam
        /\ s.members = saver[a].members
    BY <1>1 DEF Saver, Stages, Writing
  <2> HIDE DEF s
  <2>3. /\ saver' \in [Savers -> Saver] /\ saver'[a] = s
        /\ \A b \in Savers \ {a} : saver'[b] = saver[b]
        /\ Idled' /\ NoticeIsFollowed'
    BY <1>1, <2>1, <2>2, Continues
  <2>4. /\ lagging' \subseteq Items /\ overtaken' \subseteq Items /\ missed' \subseteq Items
        /\ missed \ saver[a].members \subseteq missed'
    <3>1. saver[a].members \in SUBSET Items
      BY <1>1 DEF Saver
    <3> QED
      BY <2>1, <3>1, HistoryTypes
  <2>5. TypeOK'
    <3>1. child' \in [Items -> Families \cup {None}]
      BY <2>1, <1>2 DEF Inv, TypeOK
    <3> QED
      BY <1>1, <2>1, <2>3, <2>4, <3>1 DEF Inv, TypeOK
  <2>6. Shaped'
    BY <1>2, <2>2, <2>3, <1>1, StaysShaped DEF Writing, Shared
  <2>7. ShownOnce'
    <3> SUFFICES ASSUME NEW i \in Items \ missed', i \in rows', child'[i] # None
                 PROVE  \/ Removing(a, i)'
                        \/ i \notin missed /\ i \in rows /\ child[i] # None /\ ~Removing(a, i)
      BY <2>3, StaysShownOnce
    <3>1. CASE i \in saver[a].members
      BY <3>1, <2>2, <2>3 DEF Removing
    <3>2. CASE i \notin saver[a].members
      BY <3>2, <1>1, <2>1, <2>4 DEF Removing, At
    <3> QED
      BY <3>1, <3>2
  <2> QED
    BY <2>3, <2>5, <2>6, <2>7 DEF Inv
<1> QED
  BY <1>3, <1>4

\* The step to "items" or "drop", which only moves on or deletes children.
LEMMA FindMissingStep ==
    ASSUME Inv, NEW a \in Savers, FindMissing(a)
    PROVE  Inv'
<1> DEFINE gone == Stored(a) \ saver[a].members
           s == [saver[a] EXCEPT !.stage = IF gone = {} THEN "items" ELSE "drop",
                                 !.missing = gone]
<1>1. /\ saver[a].stage = "missing" /\ saver[a] \in Saver /\ saver' = [saver EXCEPT ![a] = s]
      /\ UNCHANGED <<place, hookVars, dbVars, sweepVars, truth, trouble>>
  BY DEF FindMissing, At, Inv, TypeOK
<1>2. s \in Saver /\ s.stage \in {"items", "drop"} /\ s.item = saver[a].item
      /\ s.fam = saver[a].fam /\ s.members = saver[a].members
  BY <1>1 DEF Saver, Stages, Writing, Stored
<1> HIDE DEF s
<1>3. /\ saver' \in [Savers -> Saver] /\ saver'[a] = s
      /\ \A b \in Savers \ {a} : saver'[b] = saver[b]
      /\ Idled' /\ NoticeIsFollowed'
  BY <1>1, <1>2, Continues DEF hookVars
<1>4. TypeOK'
  BY <1>1, <1>3 DEF Inv, TypeOK, hookVars, dbVars, sweepVars, truth
<1>5. Shaped'
  BY <1>1, <1>2, <1>3, StaysShaped DEF Inv, Shaped, At, Shared, Writing
<1>6. ShownOnce'
  BY <1>1, <1>2, <1>3, StaysShownOnce DEF Removing, At, dbVars, truth
<1> QED
  BY <1>3, <1>4, <1>5, <1>6 DEF Inv

LEMMA DeleteMissingChildrenStep ==
    ASSUME Inv, NEW a \in Savers, DeleteMissingChildren(a)
    PROVE  Inv'
<1> DEFINE s == [saver[a] EXCEPT !.stage = "items", !.missing = {}]
<1>1. /\ saver[a].stage = "drop" /\ saver[a] \in Saver /\ saver' = [saver EXCEPT ![a] = s]
      /\ child' = [i \in Items |-> IF i \in Dropped(a) THEN None ELSE child[i]]
      /\ UNCHANGED <<place, hookVars, rows, marked, fresh, sweepVars, trouble>>
  BY DEF DeleteMissingChildren, At, Inv, TypeOK
<1>2. s \in Saver /\ s.stage = "items" /\ s.item = saver[a].item
      /\ s.fam = saver[a].fam /\ s.members = saver[a].members
  BY <1>1 DEF Saver, Stages, Writing
<1> HIDE DEF s
<1>3. /\ saver' \in [Savers -> Saver] /\ saver'[a] = s
      /\ \A b \in Savers \ {a} : saver'[b] = saver[b]
      /\ Idled' /\ NoticeIsFollowed'
  BY <1>1, <1>2, Continues DEF hookVars
<1>4. lagging' \subseteq Items /\ overtaken' \subseteq Items /\ missed' = missed
  <2>1. Dropped(a) \in SUBSET Items
    BY DEF Dropped, Stored
  <2>2. Removes(a, Dropped(a))
    BY DEF DeleteMissingChildren
  <2> QED
    BY <2>1, <2>2, HistoryTypes
<1>5. TypeOK'
  <2>1. child' \in [Items -> Families \cup {None}]
    BY <1>1 DEF Inv, TypeOK
  <2>2. missed' \subseteq Items
    BY <1>4 DEF Inv, TypeOK
  <2> QED
    BY <1>1, <1>3, <1>4, <2>1, <2>2 DEF Inv, TypeOK, hookVars, sweepVars
<1>6. Shaped'
  BY <1>1, <1>2, <1>3, StaysShaped DEF Inv, Shaped, At, Shared, Writing
<1>7. ShownOnce'
  BY <1>1, <1>2, <1>3, <1>4, StaysShownOnce DEF Removing, At
<1> QED
  BY <1>3, <1>5, <1>6, <1>7 DEF Inv

LEMMA DeleteByExternalKeysStep ==
    ASSUME Inv, NEW a \in Savers, DeleteByExternalKeys(a)
    PROVE  Inv'
<1>1. /\ saver[a].stage = "items" /\ ~Shared(a) /\ saver[a].members \in SUBSET Items /\ After(a)
      /\ rows' = rows \ saver[a].members
      /\ marked' \subseteq marked /\ fresh' \subseteq fresh
      /\ UNCHANGED <<place, inbox, child, calm, sweeps, trouble>>
  BY DEF DeleteByExternalKeys, ItemRows, At, Inv, TypeOK, Saver, Shaped
<1>2. lagging' \subseteq Items /\ overtaken' \subseteq Items /\ missed' = missed
  <2>1. Removes(a, saver[a].members)
    BY DEF DeleteByExternalKeys, ItemRows
  <2> QED
    BY <1>1, <2>1, HistoryTypes
<1>3. /\ pending' \in [Instances -> [Items -> {"no", "once", "again"}]]
      /\ due' \subseteq Instances \X Items
      /\ saver' \in [Savers -> Saver] /\ todo' \subseteq Items /\ sweep' = sweep
      /\ \A b \in Savers \ {a} : saver'[b] = saver[b]
      /\ Idled' /\ NoticeIsFollowed' /\ Shaped'
  BY <1>1, AfterEnds
<1>4. TypeOK'
  BY <1>1, <1>2, <1>3 DEF Inv, TypeOK
<1>5. ShownOnce'
  BY <1>1, <1>2, <1>3, StaysShownOnce DEF Removing, At
<1> QED
  BY <1>3, <1>4, <1>5 DEF Inv

-----------------------------------------------------------------------------
(* The full synchronisation *)

LEMMA SweepStartStep ==
    ASSUME Inv, SweepStart
    PROVE  Inv'
<1>1. /\ sweep' = "run" /\ todo' = Items /\ marked' = {} /\ fresh' = {} /\ sweeps' = sweeps + 1
      /\ sweeps < MaxSweeps /\ calm' \in BOOLEAN
      /\ UNCHANGED <<place, hookVars, rows, child, truth, trouble>>
  BY DEF SweepStart
<1>2. \A a \in Savers : saver[a] \in Saver /\ saver'[a] = [saver[a] EXCEPT !.since = FALSE]
  BY DEF SweepStart, Inv, TypeOK
<1>3. saver' \in [Savers -> Saver]
  <2>1. saver' = [a \in Savers |-> saver'[a]]
    BY DEF SweepStart
  <2>2. ASSUME NEW a \in Savers PROVE saver'[a] \in Saver
    <3>1. saver[a] \in Saver /\ saver'[a] = [saver[a] EXCEPT !.since = FALSE]
      BY <1>2
    <3> QED
      BY <3>1 DEF Saver
  <2> QED
    BY <2>1, <2>2
<1>4. \A a \in Savers : /\ saver'[a].stage = saver[a].stage /\ saver'[a].item = saver[a].item
                        /\ saver'[a].fam = saver[a].fam /\ saver'[a].members = saver[a].members
  BY <1>2 DEF Saver
<1>5. TypeOK'
  <2>1. sweeps' \in 0 .. MaxSweeps
    BY <1>1, SnapshotAssumption DEF Inv, TypeOK
  <2> QED
    BY <1>1, <1>3, <2>1 DEF Inv, TypeOK, hookVars, truth
<1>6. Idled'
  BY <1>1, <1>4 DEF Inv, Idled, At, Savers, hookVars
<1>7. Shaped'
  BY <1>4 DEF Inv, Shaped, At, Shared, Writing
<1>8. ShownOnce'
  <2>1. \A a \in Savers, j \in Items : Removing(a, j) => Removing(a, j)'
    BY <1>4 DEF Removing, At, Shared
  <2> QED
    BY <2>1, <1>1 DEF Inv, ShownOnce, truth
<1>9. NoticeIsFollowed'
  <2>1. due \subseteq Savers
    BY DEF Inv, TypeOK, Savers
  <2> QED
    BY <2>1, <1>1, <1>4 DEF Inv, NoticeIsFollowed, At, hookVars
<1> QED
  BY <1>5, <1>6, <1>7, <1>8, <1>9 DEF Inv

LEMMA SyncBatchStep ==
    ASSUME Inv, NEW i \in Items, SyncBatch(i)
    PROVE  Inv'
<1>1. Batch \in Savers /\ \A n \in Instances, j \in Items : <<n, j>> \in Savers \ {Batch}
  BY SnapshotAssumption DEF Savers
<1>2. /\ saver[Batch].stage = "idle" /\ saver' = [saver EXCEPT ![Batch] = Begun(i)]
      /\ UNCHANGED <<place, hookVars, dbVars, sweepVars, truth, trouble>>
  BY DEF SyncBatch, At
<1>3. saver' \in [Savers -> Saver] /\ saver'[Batch] = Begun(i)
      /\ \A b \in Savers \ {Batch} : saver'[b] = saver[b]
  BY <1>1, <1>2, StageIs DEF Inv, TypeOK
<1>4. TypeOK'
  BY <1>2, <1>3 DEF Inv, TypeOK, hookVars, dbVars, sweepVars, truth
<1>5. Idled'
  BY <1>1, <1>2, <1>3 DEF Inv, Idled, At, hookVars
<1>6. Shaped'
  BY <1>1, <1>3, StageIs, StaysShaped DEF Writing
<1>7. ShownOnce'
  BY <1>1, <1>2, <1>3, StaysShownOnce DEF Removing, At, dbVars, truth
<1>8. NoticeIsFollowed'
  <2>1. due \subseteq Savers \ {Batch}
    BY <1>1 DEF Inv, TypeOK
  <2> QED
    BY <2>1, <1>2, <1>3 DEF Inv, NoticeIsFollowed, At, hookVars
<1> QED
  BY <1>4, <1>5, <1>6, <1>7, <1>8 DEF Inv

LEMMA MarkFullSyncStep ==
    ASSUME Inv, MarkFullSync
    PROVE  Inv'
<1>1. /\ Batch \in Savers /\ saver[Batch].stage = "mark" /\ Finished(Batch)
      /\ marked' \subseteq marked \cup rows /\ fresh' \subseteq fresh \cup rows
      /\ UNCHANGED <<place, inbox, rows, child, calm, sweeps, truth, trouble>>
  BY DEF MarkFullSync, At, Savers
<1>2. Ended(Batch) /\ todo' \subseteq Items /\ sweep' = sweep
  BY <1>1, FinishedEnds
<1>3. TypeOK'
  BY <1>1, <1>2 DEF Ended, Inv, TypeOK, truth
<1>4. Shaped'
  BY <1>1, <1>2, StaysShaped DEF Ended, Writing
<1>5. ShownOnce'
  BY <1>1, <1>2, StaysShownOnce DEF Ended, Removing, At, truth
<1> QED
  BY <1>2, <1>3, <1>4, <1>5 DEF Ended, Inv

LEMMA FinalizeFullSyncStep ==
    ASSUME Inv, FinalizeFullSync
    PROVE  Inv'
<1> DEFINE keeps == IF sweep = "run" THEN Kept ELSE rows
<1>1. /\ rows' = keeps
      /\ child' = [i \in Items |-> IF child[i] \in keeps THEN child[i] ELSE None]
      /\ sweep' = "idle" /\ marked' = {} /\ fresh' = {} /\ calm' = FALSE
      /\ UNCHANGED <<place, hookVars, todo, sweeps, truth, trouble>>
  BY DEF FinalizeFullSync
<1>2. keeps \subseteq rows
  BY DEF Kept
<1>3. /\ saver' = [a \in Savers |-> saver'[a]]
      /\ \A a \in Savers : /\ saver[a] \in Saver
                           /\ saver'[a] \in {saver[a], [saver[a] EXCEPT !.held = FALSE]}
  BY DEF FinalizeFullSync, Inv, TypeOK
<1> HIDE DEF keeps
<1>4. saver' \in [Savers -> Saver]
  <2>1. ASSUME NEW a \in Savers PROVE saver'[a] \in Saver
    <3>1. saver[a] \in Saver /\ saver'[a] \in {saver[a], [saver[a] EXCEPT !.held = FALSE]}
      BY <1>3
    <3> QED
      BY <3>1 DEF Saver
  <2> QED
    BY <1>3, <2>1
<1>5. \A a \in Savers : /\ saver'[a].stage = saver[a].stage /\ saver'[a].item = saver[a].item
                        /\ saver'[a].fam = saver[a].fam /\ saver'[a].members = saver[a].members
  BY <1>3 DEF Saver
<1>6. \A i \in Items : child'[i] # None => child[i] # None
  BY <1>1
<1>7. TypeOK'
  <2>1. child' \in [Items -> Families \cup {None}]
    BY <1>1 DEF Inv, TypeOK
  <2>2. rows' \subseteq Keys
    BY <1>1, <1>2 DEF Inv, TypeOK
  <2> QED
    BY <1>1, <1>4, <2>1, <2>2 DEF Inv, TypeOK, hookVars, truth
<1>8. Idled'
  BY <1>1, <1>5 DEF Inv, Idled, At, Savers, hookVars
<1>9. Shaped'
  BY <1>5 DEF Inv, Shaped, At, Shared, Writing
<1>10. ShownOnce'
  <2>1. \A a \in Savers, j \in Items : Removing(a, j) => Removing(a, j)'
    BY <1>5 DEF Removing, At, Shared
  <2> QED
    BY <2>1, <1>1, <1>2, <1>6 DEF Inv, ShownOnce, truth
<1>11. NoticeIsFollowed'
  <2>1. due \subseteq Savers
    BY DEF Inv, TypeOK, Savers
  <2> QED
    BY <2>1, <1>1, <1>5 DEF Inv, NoticeIsFollowed, At, hookVars
<1> QED
  BY <1>7, <1>8, <1>9, <1>10, <1>11 DEF Inv

-----------------------------------------------------------------------------
(* The theorems *)

LEMMA InvInit == Init => Inv
<1> SUFFICES ASSUME Init PROVE Inv
  OBVIOUS
<1>1. \A i \in Items : place[i] \in Families \cup {Own} /\ child[i] \in Families \cup {None}
  BY DEF Init
<1>2. TypeOK
  <2>1. rows \subseteq Keys
    BY <1>1 DEF Init, KeyIn, Keys
  <2>2. saver \in [Savers -> Saver] /\ child \in [Items -> Families \cup {None}]
    BY StageIs DEF Init
  <2>3. pending \in [Instances -> [Items -> {"no", "once", "again"}]]
    BY DEF Init
  <2>4. sweeps \in 0 .. MaxSweeps /\ trouble \in 0 .. MaxTrouble
    BY SnapshotAssumption DEF Init
  <2> QED
    BY <2>1, <2>2, <2>3, <2>4 DEF Init, TypeOK
<1>3. Idled /\ Shaped /\ NoticeIsFollowed
  BY StageIs DEF Init, Idled, Shaped, NoticeIsFollowed, At, Savers, Writing
<1>4. ShownOnce
  <2> SUFFICES ASSUME NEW i \in Items, i \in rows PROVE child[i] = None
    BY DEF ShownOnce
  <2>1. PICK j \in Items : i = KeyIn(place[j], j)
    BY DEF Init
  <2>2. j = i /\ place[i] = Own
    BY <2>1, <1>1, SnapshotAssumption DEF KeyIn
  <2> QED
    BY <2>2 DEF Init
<1> QED
  BY <1>2, <1>3, <1>4 DEF Inv

LEMMA InvStep == Inv /\ [Next]_vars => Inv'
<1> SUFFICES ASSUME Inv, [Next]_vars PROVE Inv'
  OBVIOUS
<1>1. ASSUME NEW i \in Items, NEW p \in Families \cup {Own}, Change(i, p) PROVE Inv'
  BY <1>1, ChangeStep
<1>2. ASSUME NEW n \in Instances, Restart(n) PROVE Inv'
  BY <1>2, RestartStep
<1>3. ASSUME NEW n \in Instances, NEW i \in Items, Receive(n, i) PROVE Inv'
  BY <1>3, ReceiveStep
<1>4. ASSUME NEW a \in Savers, Work(a) PROVE Inv'
  BY <1>4, SyncItemStep, ResolveFamilyStep, SaveResolvedFamilyStep, UpsertStep, SaveSharedStep,
     UpsertManyStep, FindMissingStep, DeleteMissingChildrenStep, DeleteByExternalKeysStep DEF Work
<1>5. ASSUME NEW a \in Savers, Fails(a) PROVE Inv'
  <2>1. trouble' \in 0 .. MaxTrouble
    BY <1>5, SnapshotAssumption DEF Fails, Trouble, Inv, TypeOK
  <2> QED
    BY <1>5, <2>1, FailsStep DEF Fails
<1>6. ASSUME FullSync PROVE Inv'
  BY <1>6, SweepStartStep, MarkFullSyncStep, FinalizeFullSyncStep, SyncBatchStep DEF FullSync
<1>7. ASSUME UNCHANGED vars PROVE Inv'
  BY <1>7 DEF vars, hookVars, dbVars, sweepVars, truth, Inv, TypeOK, Idled, Shaped, ShownOnce,
              NoticeIsFollowed, Removing, At, Shared
<1> QED
  BY <1>1, <1>2, <1>3, <1>4, <1>5, <1>6, <1>7 DEF Next

\* Inv holds in every state, whatever happens to Mercado Libre, the notifications,
\* the requests and the processes.
THEOREM Invariance == Spec => []Inv
BY InvInit, InvStep, PTL DEF Spec

\* The rows, the maps of WebhookService and the locals of the saves keep their types.
THEOREM TypeCorrect == Spec => []TypeOK
<1>1. Inv => TypeOK
  BY DEF Inv
<1> QED
  BY <1>1, Invariance, PTL

\* However the saves of the webhook and of full synchronisations interleave, no
\* publication is shown both by itself and in a family, unless the save that is to
\* remove one of the two is still at it or was cut short.
THEOREM NobodySeesTwo == Spec => []ShownOnce
<1>1. Inv => ShownOnce
  BY DEF Inv
<1> QED
  BY <1>1, Invariance, PTL

\* WebhookService.process forgets no notification before its publication is read,
\* however it comes while an earlier read is saved.
THEOREM NoNoticeForgotten == Spec => []NoticeIsFollowed
<1>1. Inv => NoticeIsFollowed
  BY DEF Inv
<1> QED
  BY <1>1, Invariance, PTL

-----------------------------------------------------------------------------
(* What a synchronisation knows, and what follows for the rows *)

Reading == {"details"} \cup Writing
Key(i) == KeyIn(place[i], i)

\* Of a publication that has not changed since, it knows the place; it works for
\* the publication it was begun for; the row it holds exists; and it deletes no child
\* that it has written itself.
Knows(a) ==
    /\ a # Batch /\ ~At(a, "idle") => saver[a].item = a[2]
    /\ saver[a].stage \in Reading =>
         /\ saver[a].item \in saver[a].members \cup saver[a].old
         /\ \A i \in Items \ saver[a].old :
               /\ i \in saver[a].members => place[i] = saver[a].fam
               /\ ~Shared(a) /\ place[i] = saver[a].fam => i \in saver[a].members
    /\ saver[a].stage \in Writing \ {"parent"} /\ ~Shared(a) /\ saver[a].held
         => saver[a].fam \in rows
    /\ At(a, "drop") => saver[a].missing \cap saver[a].members = {}
Knowing == \A a \in Savers : Knows(a)

Rests == sweep = "idle" => todo = {} /\ At(Batch, "idle")

\* The last change of i has yet to be read, or is on its way to the rows.
WillShow(a, i) ==
    \/ saver[a].stage \in {"item", "family"}
    \/ /\ saver[a].stage \in {"details", "parent"} \/ (At(a, "children") /\ ~Shared(a))
       /\ i \in saver[a].members \ saver[a].old
Coming(i) ==
    \/ i \in inbox
    \/ \E n \in Instances : pending[n][i] = "again" \/ WillShow(<<n, i>>, i)

\* The rows have i where it is; with i \in rows, ShownOnce has the rest.
Right(i) == Key(i) \in rows /\ (place[i] # Own => child[i] = place[i])

\* The row of i will outlive the full synchronisation.
Outdated(i) == saver[Batch].stage \in Reading /\ saver[Batch].item = i /\ i \in saver[Batch].old
Keeps(i) == sweep = "run" => Key(i) \in marked \cup fresh \/ (i \in todo /\ ~Outdated(i))

Sound(i) == IF i \in lagging THEN Coming(i) ELSE Right(i) /\ Keeps(i)
Settled == \A i \in Items \ (missed \cup overtaken) : Sound(i)

\* While nothing changes, what the full synchronisation has saved is exact.
Exact(i) == child[i] = IF place[i] = Own THEN None ELSE place[i]
Calm ==
    /\ \A a \in Savers : saver[a].old = {}
    /\ \A k \in marked \cup fresh : \E i \in Items : k = Key(i)
    /\ sweep = "run" => \A i \in Items \ todo : Key(i) \in marked /\ Exact(i)
    /\ saver[Batch].stage \in Writing \ {"parent"} => KeyOf(Batch) \in rows
    /\ saver[Batch].stage \in {"missing", "drop", "items", "mark"} => Exact(saver[Batch].item)
Cleanly == marked \subseteq rows /\ (calm => Calm)

\* The inductive invariant behind RightUnlessOvertaken and CleanSweep.
Full == Inv /\ Knowing /\ Rests /\ Settled /\ Cleanly

-----------------------------------------------------------------------------
(* Steps of one synchronisation *)

\* A step of a leaves the others, Mercado Libre and the notifications alone.
Steady(a) ==
    /\ place' = place /\ inbox' = inbox /\ calm' = calm
    /\ saver'[a] \in Saver
    /\ \A b \in Savers \ {a} : saver'[b] = saver[b]
    /\ \A n \in Instances, i \in Items :
          /\ <<n, i>> # a => pending'[n][i] = pending[n][i]
          /\ <<n, i>> = a /\ pending[n][i] = "again"
               => pending'[n][i] = "again" \/ saver'[a].stage = "item"

\* It is over, or about to begin again.
Closed(a) == saver'[a] = Idle \/ (a # Batch /\ saver'[a] = Begun(a[2]))

LEMMA IdleIs == /\ Idle.stage = "idle" /\ Idle.old = {} /\ Idle.item = None
                /\ \A i \in Items : /\ Begun(i).stage = "item" /\ Begun(i).item = i
                                    /\ Begun(i).old = {}
BY DEF Idle, Begun

LEMMA ProcessCloses ==
    ASSUME Inv, NEW n \in Instances, NEW i \in Items, NEW stays, Process(n, i, stays),
           UNCHANGED <<place, inbox, calm>>
    PROVE  Steady(<<n, i>>) /\ Closed(<<n, i>>)
<1> DEFINE a == <<n, i>>
<1>1. a \in Savers /\ a # Batch /\ a[2] = i
  BY SnapshotAssumption DEF Savers
<1>2. CASE pending[n][i] = "again"
  <2>1. pending' = [pending EXCEPT ![n][i] = "once"] /\ saver' = [saver EXCEPT ![a] = Begun(i)]
    BY <1>2 DEF Process
  <2>2. \A m \in Instances, j \in Items : <<m, j>> # a => pending'[m][j] = pending[m][j]
    BY <2>1 DEF Inv, TypeOK
  <2>3. saver'[a] = Begun(i) /\ \A b \in Savers \ {a} : saver'[b] = saver[b]
    BY <1>1, <2>1 DEF Inv, TypeOK
  <2> QED
    BY <1>1, <2>2, <2>3, StageIs DEF Steady, Closed
<1>3. CASE pending[n][i] # "again"
  <2>1. pending' = [pending EXCEPT ![n][i] = "no"] /\ saver' = [saver EXCEPT ![a] = Idle]
    BY <1>3 DEF Process
  <2>2. \A m \in Instances, j \in Items : <<m, j>> # a => pending'[m][j] = pending[m][j]
    BY <2>1 DEF Inv, TypeOK
  <2>3. saver'[a] = Idle /\ \A b \in Savers \ {a} : saver'[b] = saver[b]
    BY <1>1, <2>1 DEF Inv, TypeOK
  <2> QED
    BY <1>1, <1>3, <2>2, <2>3, StageIs DEF Steady, Closed
<1> QED
  BY <1>2, <1>3

LEMMA BatchedCloses ==
    ASSUME Inv, NEW left, Batched(left), UNCHANGED <<place, inbox, calm>>
    PROVE  Steady(Batch) /\ Closed(Batch) /\ todo' = left
<1>1. saver'[Batch] = Idle /\ \A b \in Savers \ {Batch} : saver'[b] = saver[b]
  BY DEF Batched, Savers, Inv, TypeOK
<1>2. \A n \in Instances, i \in Items : <<n, i>> # Batch
  BY SnapshotAssumption
<1> QED
  BY <1>1, <1>2, StageIs DEF Steady, Closed, Batched

LEMMA FinishedCloses ==
    ASSUME Inv, NEW a \in Savers, Finished(a), UNCHANGED <<place, inbox, calm>>
    PROVE  /\ Steady(a) /\ Closed(a) /\ sweep' = sweep
           /\ todo' = IF a = Batch THEN todo \ {saver[a].item} ELSE todo
<1>1. CASE a = Batch
  BY <1>1, BatchedCloses DEF Finished
<1>2. CASE a # Batch
  BY <1>2, PairIs, ProcessCloses DEF Finished
<1> QED
  BY <1>1, <1>2

LEMMA FailedCloses ==
    ASSUME Inv, NEW a \in Savers, Failed(a), UNCHANGED <<place, inbox, calm>>
    PROVE  /\ Steady(a) /\ Closed(a)
           /\ a # Batch => sweep' = sweep /\ todo' = todo
           /\ (sweep' = sweep /\ todo' = todo) \/ sweep' = "failed"
           /\ missed \subseteq missed'
           /\ a # Batch => saver[a].item \in missed'
<1>1. missed \subseteq missed' /\ (a # Batch => saver[a].item \in missed')
  BY DEF Failed
<1>2. CASE a = Batch
  <2>1. CASE Batched(todo) /\ UNCHANGED sweep
    BY <1>1, <1>2, <2>1, BatchedCloses
  <2>2. CASE Batched(todo \ {saver[a].item}) /\ sweep' = "failed"
    BY <1>1, <1>2, <2>2, BatchedCloses
  <2> QED
    BY <1>2, <2>1, <2>2 DEF Failed
<1>3. CASE a # Batch
  <2>1. Process(a[1], a[2], {a}) /\ UNCHANGED <<sweep, todo>>
    BY <1>3 DEF Failed
  <2> QED
    BY <1>1, <1>3, <2>1, PairIs, ProcessCloses
<1> QED
  BY <1>2, <1>3

\* A synchronisation that goes on.
LEMMA GoesOn ==
    ASSUME Inv, NEW a \in Savers, NEW s \in Saver, saver' = [saver EXCEPT ![a] = s],
           pending' = pending, UNCHANGED <<place, inbox, calm>>
    PROVE  Steady(a) /\ saver'[a] = s
BY DEF Steady, Inv, TypeOK

LEMMA ClosedKnows ==
    ASSUME NEW a \in Savers, Closed(a)
    PROVE  Knows(a)' /\ saver'[a].stage \in {"idle", "item"} /\ saver'[a].old = {}
<1>1. saver'[a].stage \in {"idle", "item"} /\ saver'[a].old = {}
  BY PairIs, IdleIs DEF Closed
<1>2. a # Batch /\ saver'[a].stage = "item" => saver'[a].item = a[2]
  BY PairIs, IdleIs DEF Closed
<1> QED
  BY <1>1, <1>2 DEF Knows, Reading, Writing, At

\* What the others know is not touched, and a full synchronisation at work stays so.
LEMMA StaysKnowing ==
    ASSUME Full, NEW a \in Savers, Steady(a), ~At(a, "idle"), Knows(a)',
           rows \cap Families \subseteq rows',
           a # Batch => sweep' = sweep /\ todo' = todo, sweep' \in {sweep, "failed"}
    PROVE  Knowing' /\ Rests'
<1>1. ASSUME NEW b \in Savers \ {a} PROVE Knows(b)'
  <2>1. Knows(b) /\ saver'[b] = saver[b] /\ place' = place
    BY DEF Full, Knowing, Steady
  <2>2. saver[b].stage \in Writing /\ ~Shared(b) => saver[b].fam \in Families
    BY DEF Full, Inv, Shaped, Shared, Writing
  <2> QED
    BY <2>1, <2>2 DEF Knows, At, Shared
<1>2. Rests'
  <2>1. Batch \in Savers
    BY DEF Savers
  <2> QED
    BY <2>1 DEF Full, Rests, Steady, At
<1> QED
  BY <1>1, <1>2 DEF Knowing

\* What is on its way to the rows stays so, unless it was with a.
LEMMA StaysComing ==
    ASSUME Full, NEW a \in Savers, Steady(a), NEW i \in Items, Coming(i),
           a # Batch /\ a[2] = i /\ WillShow(a, i) => WillShow(a, i)'
    PROVE  Coming(i)'
<1>1. CASE i \in inbox
  BY <1>1 DEF Coming, Steady
<1>2. CASE \E n \in Instances : pending[n][i] = "again" \/ WillShow(<<n, i>>, i)
  <2>1. PICK n \in Instances : pending[n][i] = "again" \/ WillShow(<<n, i>>, i)
    BY <1>2
  <2>2. <<n, i>> \in Savers /\ <<n, i>> # Batch /\ <<n, i>>[2] = i
    BY SnapshotAssumption DEF Savers
  <2>3. CASE <<n, i>> = a
    <3>1. pending[n][i] = "again" => pending'[n][i] = "again" \/ saver'[a].stage = "item"
      BY <2>3 DEF Steady
    <3>2. WillShow(a, i) => WillShow(a, i)'
      BY <2>2, <2>3
    <3> QED
      BY <2>1, <2>3, <3>1, <3>2 DEF Coming, WillShow
  <2>4. CASE <<n, i>> # a
    <3>1. pending'[n][i] = pending[n][i] /\ saver'[<<n, i>>] = saver[<<n, i>>]
      BY <2>2, <2>4 DEF Steady
    <3> QED
      BY <2>1, <3>1 DEF Coming, WillShow, At, Shared
  <2> QED
    BY <2>3, <2>4
<1> QED
  BY <1>1, <1>2 DEF Coming

\* What is right and kept stays so when its row and its child do.
LEMMA StaysRight ==
    ASSUME NEW i \in Items, place' = place, Right(i), Keeps(i),
           Key(i) \in rows => Key(i) \in rows',
           place[i] # Own => child'[i] = child[i],
           sweep' = "run" => /\ sweep = "run"
                             /\ Key(i) \in marked \cup fresh => Key(i) \in marked' \cup fresh'
                             /\ i \in todo => i \in todo',
           Outdated(i)' => Outdated(i)
    PROVE  Right(i)' /\ Keeps(i)'
BY DEF Right, Keeps, Key

\* While nothing changes, a synchronisation knows where its publications are.
LEMMA CalmKnows ==
    ASSUME Full, calm, NEW a \in Savers, saver[a].stage \in Reading
    PROVE  /\ saver[a].item \in Items /\ saver[a].item \in saver[a].members
           /\ KeyOf(a) = Key(saver[a].item)
           /\ \A i \in Items : /\ i \in saver[a].members => place[i] = saver[a].fam
                               /\ ~Shared(a) /\ place[i] = saver[a].fam => i \in saver[a].members
<1>1. saver[a].old = {} /\ saver[a].item \in Items
  BY DEF Full, Cleanly, Calm, Inv, Shaped, At, Reading, Writing
<1> QED
  BY <1>1 DEF Full, Knowing, Knows, KeyOf, Key

LEMMA StaysCalm ==
    ASSUME Full, NEW a \in Savers, Steady(a), marked' \subseteq rows',
           calm =>
             /\ saver'[a].old = {}
             /\ \A k \in marked' \cup fresh' : \E i \in Items : k = Key(i)
             /\ \A i \in Items : /\ Key(i) \in rows => Key(i) \in rows'
                                 /\ Key(i) \in marked => Key(i) \in marked'
                                 /\ Exact(i) => Exact(i)'
             /\ sweep' = "run" =>
                  /\ sweep = "run"
                  /\ \A i \in Items \ todo' : i \in todo => Key(i) \in marked' /\ Exact(i)'
             /\ a = Batch /\ saver'[a].stage \in Writing \ {"parent"} => KeyOf(a)' \in rows'
             /\ a = Batch /\ saver'[a].stage \in {"missing", "drop", "items", "mark"}
                  => Exact(saver[a].item)'
    PROVE  Cleanly'
<1> SUFFICES ASSUME calm PROVE Calm'
  BY DEF Cleanly, Steady
<1>1. place' = place /\ \A i \in Items : Key(i)' = Key(i)
  BY DEF Steady, Key
<1>2. Calm
  BY DEF Full, Cleanly
<1>3. \A b \in Savers : saver'[b].old = {}
  BY <1>2 DEF Steady, Calm
<1>4. sweep' = "run" => \A i \in Items \ todo' : Key(i)' \in marked' /\ Exact(i)'
  BY <1>1, <1>2 DEF Calm
<1>5. CASE a = Batch
  <2>1. saver'[Batch].stage \in Writing \ {"parent"} => KeyOf(Batch)' \in rows'
    BY <1>5
  <2>2. saver'[Batch].stage \in {"missing", "drop", "items", "mark"}
          => Exact(saver[Batch].item)'
    BY <1>5
  <2> QED
    BY <1>1, <1>3, <1>4, <2>1, <2>2 DEF Calm
<1>6. CASE a # Batch
  <2>1. Batch \in Savers \ {a}
    BY <1>6 DEF Savers
  <2>2. saver'[Batch] = saver[Batch]
    BY <2>1 DEF Steady
  <2>3. saver[Batch].stage \in Writing \ {"parent"} => KeyOf(Batch) = Key(saver[Batch].item)
                                                     /\ saver[Batch].item \in Items
    BY <2>1, CalmKnows DEF Reading
  <2>4. saver'[Batch].stage \in Writing \ {"parent"} => KeyOf(Batch)' \in rows'
    BY <1>2, <2>2, <2>3 DEF Calm, KeyOf
  <2>5. saver'[Batch].stage \in {"missing", "drop", "items", "mark"}
          => Exact(saver[Batch].item)'
    <3> SUFFICES ASSUME saver[Batch].stage \in {"missing", "drop", "items", "mark"}
                 PROVE  Exact(saver[Batch].item)'
      BY <2>2
    <3>1. PICK i \in Items : i = saver[Batch].item
      BY <2>3 DEF Writing
    <3>2. Exact(i)'
      BY <1>2, <3>1 DEF Calm
    <3> QED
      BY <2>2, <3>1, <3>2 DEF Exact
  <2> QED
    BY <1>1, <1>3, <1>4, <2>4, <2>5 DEF Calm
<1> QED
  BY <1>5, <1>6

-----------------------------------------------------------------------------
(* Steps that write nothing *)

\* A step that leaves the rows, and what is up to date, as they are.
LEMMA QuietStep ==
    ASSUME Full, NEW a \in Savers, Steady(a), ~At(a, "idle"), Knows(a)',
           UNCHANGED <<dbVars, lagging, overtaken>>, missed \subseteq missed',
           saver'[a].old = {} \/ saver'[a].old = saver[a].old,
           a # Batch => sweep' = sweep /\ todo' = todo,
           (sweep' = sweep /\ todo' = todo) \/ sweep' = "failed",
           a # Batch /\ a[2] \notin missed' /\ WillShow(a, a[2]) => WillShow(a, a[2])',
           a = Batch => \A i \in Items : Outdated(i)' => Outdated(i),
           a = Batch => saver'[a].stage \notin Writing \ {"parent"}
    PROVE  Knowing' /\ Rests' /\ Settled' /\ Cleanly'
<1>1. Knowing' /\ Rests'
  BY StaysKnowing DEF dbVars
<1>2. Settled'
  <2> SUFFICES ASSUME NEW i \in Items, i \notin missed', i \notin overtaken'
               PROVE  Sound(i)'
    BY DEF Settled
  <2>1. Sound(i)
    BY DEF Full, Settled
  <2>2. CASE i \in lagging
    <3>1. a # Batch /\ a[2] = i /\ WillShow(a, i) => WillShow(a, i)'
      OBVIOUS
    <3> QED
      BY <2>1, <2>2, <3>1, StaysComing DEF Sound
  <2>3. CASE i \notin lagging
    <3>1. Outdated(i)' => Outdated(i)
      BY DEF Steady, Outdated, Savers
    <3>2. Right(i)' /\ Keeps(i)'
      BY <2>1, <2>3, <3>1, StaysRight DEF Sound, dbVars, Steady
    <3> QED
      BY <2>3, <3>2 DEF Sound
  <2> QED
    BY <2>2, <2>3
<1>3. Cleanly'
  <2>1. marked' \subseteq rows'
    BY DEF Full, Cleanly, dbVars
  <2>2. ASSUME calm
        PROVE  saver'[a].old = {} /\ \A k \in marked' \cup fresh' : \E i \in Items : k = Key(i)
    BY <2>2 DEF Full, Cleanly, Calm, dbVars
  <2>3. \A i \in Items : Exact(i) => Exact(i)'
    BY DEF Exact, Steady, dbVars
  <2> QED
    BY <2>1, <2>2, <2>3, StaysCalm DEF dbVars, Writing
<1> QED
  BY <1>1, <1>2, <1>3

LEMMA FailsSettles ==
    ASSUME Full, NEW a \in Savers, ~At(a, "idle"), Failed(a),
           UNCHANGED <<place, inbox, dbVars, calm, sweeps, lagging, overtaken>>
    PROVE  Knowing' /\ Rests' /\ Settled' /\ Cleanly'
<1>1. /\ Steady(a) /\ Closed(a)
      /\ a # Batch => sweep' = sweep /\ todo' = todo
      /\ (sweep' = sweep /\ todo' = todo) \/ sweep' = "failed"
      /\ missed \subseteq missed'
      /\ a # Batch => saver[a].item \in missed'
  BY FailedCloses DEF Full
<1>2. Knows(a)' /\ saver'[a].stage \in {"idle", "item"} /\ saver'[a].old = {}
  BY <1>1, ClosedKnows
<1>3. a # Batch => a[2] \in missed'
  BY <1>1 DEF Full, Knowing, Knows
<1>4. a = Batch => \A i \in Items : Outdated(i)' => Outdated(i)
  BY <1>2 DEF Outdated, Reading, Writing
<1> QED
  BY <1>1, <1>2, <1>3, <1>4, QuietStep DEF Writing

LEMMA SyncItemSettles ==
    ASSUME Full, NEW a \in Savers, SyncItem(a)
    PROVE  Knowing' /\ Rests' /\ Settled' /\ Cleanly'
<1> DEFINE i == saver[a].item
           s == IF place[i] = Own
                THEN [Begun(i) EXCEPT !.stage = "parent", !.fam = Own, !.members = {i},
                                      !.since = (sweep # "idle")]
                ELSE [Begun(i) EXCEPT !.stage = "family"]
<1>1. /\ saver[a].stage = "item" /\ i \in Items /\ saver' = [saver EXCEPT ![a] = s]
      /\ UNCHANGED <<place, inbox, pending, dbVars, sweepVars, truth, trouble>>
  BY DEF SyncItem, At, Full, Inv, Shaped
<1>2. /\ s \in Saver /\ s.stage \in {"parent", "family"} /\ s.item = i /\ s.old = {}
      /\ s.stage = "parent" => s.fam = Own /\ s.members = {i} /\ place[i] = Own
  BY <1>1 DEF Begun, Idle, Saver, Stages, Writing
<1> HIDE DEF s
<1>3. Steady(a) /\ saver'[a] = s
  BY <1>1, <1>2, GoesOn DEF Full, sweepVars
<1>4. Knows(a)'
  <2>1. a # Batch => i = a[2]
    BY <1>1 DEF Full, Knowing, Knows, At
  <2> QED
    BY <1>1, <1>2, <1>3, <2>1 DEF Knows, At, Reading, Writing, Shared
<1>5. a # Batch => a[2] = i /\ WillShow(a, i)'
  <2>1. a # Batch => i = a[2]
    BY <1>1 DEF Full, Knowing, Knows, At
  <2> QED
    BY <2>1, <1>2, <1>3 DEF WillShow, At
<1>6. \A j \in Items : a = Batch => ~Outdated(j)'
  BY <1>2, <1>3 DEF Outdated
<1> QED
  BY <1>1, <1>2, <1>3, <1>4, <1>5, <1>6, QuietStep DEF At, Writing, truth, sweepVars

LEMMA ResolveFamilySettles ==
    ASSUME Full, NEW a \in Savers, ResolveFamily(a)
    PROVE  Knowing' /\ Rests' /\ Settled' /\ Cleanly'
<1> DEFINE i == saver[a].item
           s == [saver[a] EXCEPT !.stage = "details", !.fam = place[i], !.old = {},
                                 !.members = {j \in Items : place[j] = place[i]}]
<1>1. saver[a].stage = "family" /\ saver[a] \in Saver /\ i \in Items
      /\ UNCHANGED <<place, inbox, dbVars, calm, sweeps, lagging, overtaken, trouble>>
  BY DEF ResolveFamily, At, Full, Inv, TypeOK, Shaped
<1>2. CASE place[i] = Own
  BY <1>1, <1>2, FailsSettles DEF ResolveFamily, At
<1>3. CASE place[i] # Own
  <2>1. saver' = [saver EXCEPT ![a] = s] /\ UNCHANGED <<pending, due, sweep, todo, missed>>
    BY <1>3 DEF ResolveFamily
  <2>2. place[i] \in Families
    BY <1>1, <1>3 DEF Full, Inv, TypeOK
  <2>3. s \in Saver /\ s.stage = "details" /\ s.item = i /\ s.fam = place[i] /\ s.old = {}
        /\ s.members = {j \in Items : place[j] = place[i]}
    BY <1>1, <2>2 DEF Saver, Stages
  <2> HIDE DEF s
  <2>4. Steady(a) /\ saver'[a] = s
    BY <1>1, <2>1, <2>3, GoesOn DEF Full
  <2>5. a # Batch => i = a[2]
    BY <1>1 DEF Full, Knowing, Knows, At
  <2>6. Knows(a)'
    BY <1>1, <2>3, <2>4, <2>5 DEF Knows, At, Reading, Writing, Shared
  <2>7. WillShow(a, i)'
    BY <1>1, <2>3, <2>4 DEF WillShow, At
  <2>8. \A j \in Items : a = Batch => ~Outdated(j)'
    BY <2>3, <2>4 DEF Outdated
  <2> QED
    BY <1>1, <2>1, <2>3, <2>4, <2>5, <2>6, <2>7, <2>8, QuietStep DEF At, Writing
<1> QED
  BY <1>2, <1>3

LEMMA SaveResolvedFamilySettles ==
    ASSUME Full, NEW a \in Savers, SaveResolvedFamily(a)
    PROVE  Knowing' /\ Rests' /\ Settled' /\ Cleanly'
<1> DEFINE found == {j \in saver[a].members : place[j] # Own}
           s == [saver[a] EXCEPT !.stage = "parent", !.members = found, !.since = (sweep # "idle")]
<1>1. saver[a].stage = "details" /\ saver[a] \in Saver /\ saver[a].fam # Own
      /\ UNCHANGED <<place, inbox, dbVars, calm, sweeps, lagging, overtaken, trouble>>
  BY DEF SaveResolvedFamily, At, Full, Inv, TypeOK, Shaped, Shared
<1>2. CASE found = {}
  BY <1>1, <1>2, FailsSettles DEF SaveResolvedFamily, At
<1>3. CASE found # {}
  <2>1. saver' = [saver EXCEPT ![a] = s] /\ UNCHANGED <<pending, due, sweep, todo, missed>>
    BY <1>3 DEF SaveResolvedFamily
  <2>2. s \in Saver /\ s.stage = "parent" /\ s.item = saver[a].item /\ s.fam = saver[a].fam
        /\ s.old = saver[a].old /\ s.members = found
    BY <1>1 DEF Saver, Stages, Writing
  <2> HIDE DEF s
  <2>3. Steady(a) /\ saver'[a] = s
    BY <1>1, <2>1, <2>2, GoesOn DEF Full
  <2>4. /\ a # Batch => saver[a].item = a[2]
        /\ saver[a].item \in Items
        /\ saver[a].item \in saver[a].members \cup saver[a].old
        /\ \A i \in Items \ saver[a].old : i \in saver[a].members <=> place[i] = saver[a].fam
    BY <1>1 DEF Full, Knowing, Knows, At, Reading, Shared, Inv, Shaped
  <2>5. \A i \in Items \ saver[a].old : i \in saver[a].members <=> i \in found
    BY <1>1, <2>4
  <2>6. Knows(a)'
    BY <1>1, <2>2, <2>3, <2>4, <2>5 DEF Knows, At, Reading, Writing, Shared, Steady
  <2>7. \A i \in Items : WillShow(a, i) => WillShow(a, i)'
    BY <1>1, <2>2, <2>3, <2>5 DEF WillShow, At
  <2>8. \A j \in Items : a = Batch /\ Outdated(j)' => Outdated(j)
    BY <1>1, <2>2, <2>3 DEF Outdated, Reading
  <2>9. a # Batch => a[2] \in Items
    BY <2>4
  <2> QED
    BY <1>1, <2>1, <2>2, <2>3, <2>6, <2>7, <2>8, <2>9, QuietStep DEF At, Writing
<1> QED
  BY <1>2, <1>3

\* The step to "items" or "drop" only looks for the children to delete.
LEMMA FindMissingSettles ==
    ASSUME Full, NEW a \in Savers, FindMissing(a)
    PROVE  Knowing' /\ Rests' /\ Settled' /\ Cleanly'
<1> DEFINE gone == Stored(a) \ saver[a].members
           s == [saver[a] EXCEPT !.stage = IF gone = {} THEN "items" ELSE "drop",
                                 !.missing = gone]
<1>1. /\ saver[a].stage = "missing" /\ saver[a] \in Saver /\ saver' = [saver EXCEPT ![a] = s]
      /\ UNCHANGED <<place, hookVars, dbVars, sweepVars, truth, trouble>>
  BY DEF FindMissing, At, Full, Inv, TypeOK
<1>2. s \in Saver /\ s.stage \in {"items", "drop"} /\ s.item = saver[a].item
      /\ s.fam = saver[a].fam /\ s.members = saver[a].members /\ s.old = saver[a].old
      /\ s.held = saver[a].held /\ s.missing = gone
  BY <1>1 DEF Saver, Stages, Writing, Stored
<1> HIDE DEF s
<1>3. Steady(a) /\ saver'[a] = s
  BY <1>1, <1>2, GoesOn DEF Full, sweepVars, hookVars
<1>4. Knows(a)'
  <2>1. Knows(a) /\ gone \cap saver[a].members = {}
    BY DEF Full, Knowing
  <2> HIDE DEF gone
  <2> QED
    BY <1>1, <1>2, <1>3, <2>1 DEF Knows, At, Reading, Writing, Shared, dbVars
<1>5. Knowing' /\ Rests'
  BY <1>1, <1>3, <1>4, StaysKnowing DEF At, dbVars, sweepVars
<1>6. \A i \in Items : Outdated(i)' => Outdated(i)
  BY <1>1, <1>2, <1>3 DEF Outdated, Reading, Writing, Steady, Savers
<1>7. Settled'
  <2> SUFFICES ASSUME NEW i \in Items, i \notin missed', i \notin overtaken'
               PROVE  Sound(i)'
    BY DEF Settled
  <2>1. Sound(i)
    BY <1>1 DEF Full, Settled, truth
  <2>2. CASE i \in lagging
    <3>1. ~WillShow(a, i)
      BY <1>1 DEF WillShow, At
    <3> QED
      BY <2>1, <2>2, <3>1, <1>1, <1>3, StaysComing DEF Sound, truth
  <2>3. CASE i \notin lagging
    <3>1. Right(i)' /\ Keeps(i)'
      BY <2>1, <2>3, <1>1, <1>6, StaysRight DEF Sound, dbVars, sweepVars
    <3> QED
      BY <2>3, <3>1, <1>1 DEF Sound, truth
  <2> QED
    BY <2>2, <2>3
<1>8. Cleanly'
  <2>1. marked' \subseteq rows'
    BY <1>1 DEF Full, Cleanly, dbVars
  <2>2. ASSUME calm
        PROVE  /\ saver'[a].old = {} /\ \A k \in marked' \cup fresh' : \E i \in Items : k = Key(i)
               /\ a = Batch => KeyOf(a)' \in rows'
               /\ a = Batch => Exact(saver[a].item)'
    BY <2>2, <1>1, <1>2, <1>3 DEF Full, Cleanly, Calm, dbVars, KeyOf, Writing, Exact
  <2>3. \A i : Exact(i) => Exact(i)'
    BY <1>1 DEF Exact, dbVars
  <2> QED
    BY <2>1, <2>2, <2>3, <1>1, <1>2, <1>3, StaysCalm DEF dbVars, sweepVars
<1> QED
  BY <1>5, <1>7, <1>8

-----------------------------------------------------------------------------
(* Steps that write *)

\* What is described and not overtaken has not changed since it was read, and its
\* row outlives the full synchronisation under way.
LEMMA NotLate ==
    ASSUME Full, NEW a \in Savers, NEW i \in Items, i \notin Late(a)
    PROVE  /\ i \notin saver[a].old
           /\ sweep # "idle" => saver[a].since
           /\ sweep # "idle" /\ At(a, "children") => KeyOf(a) \in marked \cup fresh
           /\ saver[a].stage \in Reading /\ i \in saver[a].members => place[i] = saver[a].fam
           /\ saver[a].stage \in Reading /\ ~Shared(a) /\ place[i] = saver[a].fam
                => i \in saver[a].members
<1>1. /\ i \notin saver[a].old /\ (sweep # "idle" => saver[a].since)
      /\ sweep # "idle" /\ At(a, "children") => KeyOf(a) \in marked \cup fresh
  BY DEF Late, Before, DatedBack
<1> QED
  BY <1>1 DEF Full, Knowing, Knows

LEMMA Described ==
    ASSUME Full, NEW a \in Savers, NEW W \in SUBSET Items, Describes(a, W),
           NEW i \in Items, i \notin missed', i \notin overtaken'
    PROVE  /\ i \in W => i \notin Late(a) /\ i \notin lagging'
           /\ i \notin W => Sound(i) /\ (i \in lagging' <=> i \in lagging)
<1>1. CASE i \in W
  <2>1. i \notin Late(a)
    BY <1>1 DEF Describes
  <2> QED
    BY <1>1, <2>1, NotLate DEF Describes
<1>2. CASE i \notin W
  BY <1>2 DEF Describes, Full, Settled
<1> QED
  BY <1>1, <1>2

LEMMA Removed ==
    ASSUME Full, NEW a \in Savers, NEW W \in SUBSET Items, Removes(a, W),
           NEW i \in Items, i \notin missed', i \notin overtaken'
    PROVE  /\ Sound(i) /\ (i \in lagging' <=> i \in lagging)
           /\ i \in W => i \notin Late(a)
BY DEF Removes, Full, Settled

\* What is sound stays so.
LEMMA StaysSound ==
    ASSUME Full, NEW a \in Savers, Steady(a), NEW i \in Items, Sound(i),
           i \in lagging' <=> i \in lagging,
           a # Batch /\ a[2] = i /\ WillShow(a, i) => WillShow(a, i)',
           i \notin lagging /\ Right(i) =>
             /\ Key(i) \in rows => Key(i) \in rows'
             /\ place[i] # Own => child'[i] = child[i]
             /\ sweep' = "run" /\ Key(i) \in marked \cup fresh => Key(i) \in marked' \cup fresh',
           sweep' = sweep, i \in todo => i \in todo', Outdated(i)' => Outdated(i)
    PROVE  Sound(i)'
<1>1. CASE i \in lagging
  BY <1>1, StaysComing DEF Sound
<1>2. CASE i \notin lagging
  <2>1. Right(i) /\ Keeps(i) /\ place' = place
    BY <1>2 DEF Sound, Steady
  <2>2. Right(i)' /\ Keeps(i)'
    BY <1>2, <2>1, StaysRight
  <2> QED
    BY <1>2, <2>2 DEF Sound
<1> QED
  BY <1>1, <1>2

\* Keys of publications and of families.
LEMMA KeyKinds ==
    ASSUME Full, NEW i \in Items
    PROVE  /\ place[i] = Own => Key(i) = i
           /\ place[i] # Own => Key(i) = place[i] /\ Key(i) \in Families /\ Key(i) \notin Items
           /\ child[i] \notin Items /\ child[i] # Own
BY SnapshotAssumption DEF Full, Inv, TypeOK, Key, KeyIn

LEMMA UpsertSettles ==
    ASSUME Full, NEW a \in Savers, Upsert(a)
    PROVE  Knowing' /\ Rests' /\ Settled' /\ Cleanly'
<1> DEFINE s == [saver[a] EXCEPT !.stage = "children", !.held = TRUE]
<1>1. saver[a].stage = "parent" /\ saver[a] \in Saver /\ saver[a].item \in Items
      /\ saver[a].fam \in Families \cup {Own}
  BY DEF Upsert, At, Full, Inv, TypeOK, Shaped, Writing
<1>2. /\ saver' = [saver EXCEPT ![a] = s] /\ rows' = rows \cup {KeyOf(a)}
      /\ fresh' = IF saver[a].since THEN fresh \cup {KeyOf(a)} ELSE fresh \ {KeyOf(a)}
      /\ UNCHANGED <<place, hookVars, child, marked, sweepVars, trouble>>
  BY DEF Upsert
<1>3. s \in Saver /\ s.stage = "children" /\ s.item = saver[a].item /\ s.fam = saver[a].fam
      /\ s.members = saver[a].members /\ s.old = saver[a].old
  BY <1>1 DEF Saver, Stages, Writing
<1> HIDE DEF s
<1>4. Steady(a) /\ saver'[a] = s
  BY <1>2, <1>3, GoesOn DEF Full, hookVars, sweepVars
<1>5. KeyOf(a) = (IF Shared(a) THEN saver[a].item ELSE saver[a].fam) /\ KeyOf(a)' = KeyOf(a)
  BY <1>3, <1>4 DEF KeyOf, KeyIn, Shared
<1>6. Knows(a)'
  <2>1. Knows(a)
    BY DEF Full, Knowing
  <2> QED
    BY <1>1, <1>2, <1>3, <1>4, <1>5, <2>1 DEF Knows, At, Reading, Writing, Shared
<1>7. Knowing' /\ Rests'
  BY <1>1, <1>2, <1>4, <1>6, StaysKnowing DEF At, sweepVars
<1>8. \A i \in Items : Outdated(i)' => Outdated(i)
  BY <1>1, <1>3, <1>4 DEF Outdated, Reading, Writing, Steady, Savers
<1>9. Settled'
  <2> SUFFICES ASSUME NEW i \in Items, i \notin missed', i \notin overtaken'
               PROVE  Sound(i)'
    BY DEF Settled
  <2>1. CASE Shared(a)
    <3>1. Describes(a, saver[a].members) /\ saver[a].members = {saver[a].item}
      BY <1>1, <2>1 DEF Upsert, Full, Inv, Shaped, Writing
    <3>2. saver[a].members \in SUBSET Items
      BY <1>1 DEF Saver
    <3>3. CASE i = saver[a].item
      <4>1. i \notin Late(a) /\ i \notin lagging'
        BY <3>1, <3>2, <3>3, Described
      <4>2. place[i] = Own /\ (sweep # "idle" => saver[a].since)
        BY <1>1, <2>1, <3>1, <3>3, <4>1, NotLate DEF Reading, Writing, Shared
      <4>3. Right(i)'
        BY <1>2, <1>5, <2>1, <3>3, <4>2 DEF Right, Key, KeyIn
      <4>4. Keeps(i)'
        BY <1>2, <1>5, <2>1, <3>3, <4>2 DEF Keeps, Key, KeyIn, sweepVars
      <4> QED
        BY <4>1, <4>3, <4>4 DEF Sound
    <3>4. CASE i # saver[a].item
      <4>1. Sound(i) /\ (i \in lagging' <=> i \in lagging)
        BY <3>1, <3>2, <3>4, Described
      <4>2. a # Batch => a[2] # i
        BY <1>1, <3>4 DEF Full, Knowing, Knows, At
      <4>3. Key(i) # saver[a].item
        BY <1>1, <3>4, KeyKinds
      <4> QED
        BY <1>2, <1>4, <1>5, <1>8, <2>1, <4>1, <4>2, <4>3, StaysSound DEF sweepVars
    <3> QED
      BY <3>3, <3>4
  <2>2. CASE ~Shared(a)
    <3> DEFINE W == {j \in Items : child[j] = saver[a].fam}
    <3>1. Sound(i) /\ (i \in lagging' <=> i \in lagging)
      <4>1. CASE Removes(a, W)
        BY <4>1, Removed
      <4>2. CASE UNCHANGED truth
        BY <4>2 DEF truth, Full, Settled
      <4> QED
        BY <2>2, <4>1, <4>2 DEF Upsert
    <3>2. WillShow(a, i) => WillShow(a, i)'
      BY <1>1, <1>3, <1>4, <2>2 DEF WillShow, At, Shared
    <3>3. ASSUME Right(i), sweep' = "run", Key(i) \in marked \cup fresh
          PROVE  Key(i) \in marked' \cup fresh'
      <4> SUFFICES ASSUME Key(i) = KeyOf(a), ~saver[a].since, KeyOf(a) \notin marked PROVE FALSE
        BY <1>2, <3>3
      <4>1. Before(a) /\ Late(a) = Items
        BY <1>2, <3>3 DEF Before, Late, sweepVars
      <4>2. Removes(a, W)
        BY <2>2, <4>1 DEF Upsert
      <4>3. child[i] = saver[a].fam
        BY <1>1, <1>5, <2>2, <3>3, KeyKinds, SnapshotAssumption DEF Right, Shared
      <4> QED
        BY <4>1, <4>2, <4>3, Removed
    <3> QED
      BY <1>2, <1>4, <1>8, <3>1, <3>2, <3>3, StaysSound DEF sweepVars
  <2> QED
    BY <2>1, <2>2
<1>10. Cleanly'
  <2>1. marked' \subseteq rows'
    BY <1>2 DEF Full, Cleanly
  <2>2. ASSUME calm
        PROVE  /\ saver'[a].old = {} /\ \A k \in marked' \cup fresh' : \E i \in Items : k = Key(i)
               /\ KeyOf(a)' \in rows'
    <3>1. saver[a].old = {} /\ \A k \in marked \cup fresh : \E i \in Items : k = Key(i)
      BY <2>2 DEF Full, Cleanly, Calm
    <3>2. KeyOf(a) = Key(saver[a].item)
      BY <1>1, <2>2, CalmKnows DEF Reading, Writing
    <3> QED
      BY <1>1, <1>2, <1>3, <1>4, <1>5, <3>1, <3>2
  <2>3. \A i : Exact(i) => Exact(i)'
    BY <1>2 DEF Exact
  <2> QED
    BY <2>1, <2>2, <2>3, <1>2, <1>3, <1>4, StaysCalm DEF sweepVars
<1> QED
  BY <1>7, <1>9, <1>10

\* After the last write of a save.
LEMMA AfterKnows ==
    ASSUME Full, NEW a \in Savers, After(a), UNCHANGED <<place, inbox, calm>>,
           saver[a].stage = "items" \/ (saver[a].stage = "children" /\ Shared(a)),
           rows \cap Families \subseteq rows'
    PROVE  /\ Steady(a) /\ sweep' = sweep /\ todo' = todo /\ Knowing' /\ Rests'
           /\ saver'[a].old = {} \/ saver'[a].old = saver[a].old
           /\ a = Batch => /\ saver'[a].stage = "mark" /\ KeyOf(a)' = KeyOf(a)
                           /\ saver'[a].item = saver[a].item
           /\ \A i \in Items : (Outdated(i)' => Outdated(i)) /\ ~WillShow(a, i)
<1>1. CASE a = Batch
  <2> DEFINE s == [saver[a] EXCEPT !.stage = "mark"]
  <2>1. saver' = [saver EXCEPT ![a] = s] /\ UNCHANGED <<pending, due, sweep, todo>>
    BY <1>1 DEF After, Step
  <2>2. saver[a] \in Saver
    BY DEF Full, Inv, TypeOK
  <2>3. s \in Saver /\ s.stage = "mark" /\ s.item = saver[a].item /\ s.fam = saver[a].fam
        /\ s.members = saver[a].members /\ s.old = saver[a].old /\ s.held = saver[a].held
    BY <2>2 DEF Saver, Stages, Writing
  <2> HIDE DEF s
  <2>4. Steady(a) /\ saver'[a] = s
    BY <2>1, <2>3, GoesOn DEF Full
  <2>5. Knows(a) /\ (~Shared(a) => saver[a].fam \in Families)
    BY DEF Full, Knowing, Inv, Shaped, Shared, Writing
  <2>6. Knows(a)'
    BY <1>1, <2>3, <2>4, <2>5 DEF Knows, At, Reading, Writing, Shared
  <2>7. Knowing' /\ Rests'
    BY <2>1, <2>4, <2>6, StaysKnowing DEF At
  <2>8. KeyOf(a)' = KeyOf(a)
    BY <2>3, <2>4 DEF KeyOf
  <2>9. \A i \in Items : (Outdated(i)' => Outdated(i)) /\ ~WillShow(a, i)
    BY <1>1, <2>3, <2>4 DEF Outdated, Reading, Writing, WillShow, At
  <2> QED
    BY <2>1, <2>3, <2>4, <2>7, <2>8, <2>9
<1>2. CASE a # Batch
  <2>1. Steady(a) /\ Closed(a) /\ sweep' = sweep /\ todo' = todo
    BY <1>2, FinishedCloses DEF After, Full
  <2>2. Knows(a)' /\ saver'[a].old = {}
    BY <2>1, ClosedKnows
  <2>3. Knowing' /\ Rests'
    BY <2>1, <2>2, StaysKnowing DEF At
  <2>4. \A i \in Items : (Outdated(i)' => Outdated(i)) /\ ~WillShow(a, i)
    BY <1>2, <2>1 DEF Outdated, WillShow, At, Steady, Savers
  <2> QED
    BY <1>2, <2>1, <2>2, <2>3, <2>4
<1> QED
  BY <1>1, <1>2

LEMMA SaveSharedSettles ==
    ASSUME Full, NEW a \in Savers, SaveShared(a)
    PROVE  Knowing' /\ Rests' /\ Settled' /\ Cleanly'
<1>1. /\ saver[a].stage = "children" /\ Shared(a) /\ After(a)
      /\ child' = [i \in Items |-> IF i \in Childless(a) THEN None ELSE child[i]]
      /\ UNCHANGED <<place, inbox, rows, marked, fresh, calm, sweeps, trouble>>
  BY DEF SaveShared, At
<1>2. saver[a].item \in Items /\ saver[a].members = {saver[a].item}
  BY <1>1 DEF Full, Inv, Shaped, At, Writing
<1>3. Childless(a) = {saver[a].item}
  BY <1>2, KeyKinds DEF Childless
<1>4. /\ Steady(a) /\ sweep' = sweep /\ todo' = todo /\ Knowing' /\ Rests'
      /\ saver'[a].old = {} \/ saver'[a].old = saver[a].old
      /\ a = Batch => /\ saver'[a].stage = "mark" /\ KeyOf(a)' = KeyOf(a)
                      /\ saver'[a].item = saver[a].item
      /\ \A i \in Items : (Outdated(i)' => Outdated(i)) /\ ~WillShow(a, i)
  BY <1>1, AfterKnows
<1>5. Settled'
  <2> SUFFICES ASSUME NEW i \in Items, i \notin missed', i \notin overtaken'
               PROVE  Sound(i)'
    BY DEF Settled
  <2>1. Removes(a, Childless(a)) /\ Childless(a) \in SUBSET Items
    BY <1>2, <1>3 DEF SaveShared
  <2>2. Sound(i) /\ (i \in lagging' <=> i \in lagging) /\ (i = saver[a].item => i \notin Late(a))
    BY <1>3, <2>1, Removed
  <2>3. i = saver[a].item => place[i] = Own
    BY <1>1, <1>2, <2>2, NotLate DEF Reading, Writing, Shared
  <2>4. place[i] # Own => child'[i] = child[i]
    BY <1>1, <1>3, <2>3
  <2> QED
    BY <1>1, <1>4, <2>2, <2>4, StaysSound
<1>6. Cleanly'
  <2>1. marked' \subseteq rows'
    BY <1>1 DEF Full, Cleanly
  <2> SUFFICES ASSUME calm
               PROVE  /\ saver'[a].old = {}
                      /\ \A k \in marked' \cup fresh' : \E i \in Items : k = Key(i)
                      /\ \A i \in Items : Exact(i) => Exact(i)'
                      /\ a = Batch => KeyOf(a)' \in rows' /\ Exact(saver[a].item)'
    BY <1>1, <1>4, <2>1, StaysCalm
  <2>2. Calm
    BY DEF Full, Cleanly
  <2>3. place[saver[a].item] = Own
    BY <1>1, <1>2, CalmKnows DEF Reading, Writing, Shared
  <2>4. \A i \in Items : (Exact(i) => Exact(i)') /\ (i = saver[a].item => Exact(i)')
    BY <1>1, <1>3, <2>3 DEF Exact
  <2>5. a = Batch => Exact(saver[a].item)'
    BY <1>2, <1>4, <2>4 DEF Exact
  <2> QED
    BY <1>1, <1>4, <2>2, <2>4, <2>5 DEF Calm, Writing
<1> QED
  BY <1>4, <1>5, <1>6

LEMMA UpsertManySettles ==
    ASSUME Full, NEW a \in Savers, UpsertMany(a)
    PROVE  Knowing' /\ Rests' /\ Settled' /\ Cleanly'
<1>1. /\ saver[a].stage = "children" /\ ~Shared(a) /\ saver[a] \in Saver
      /\ saver[a].fam \in Families /\ saver[a].item \in Items
      /\ UNCHANGED <<place, inbox, rows, marked, fresh, calm, sweeps, trouble>>
  BY DEF UpsertMany, At, Full, Inv, TypeOK, Shaped, Shared, Writing
<1>2. CASE ~saver[a].held
  <2>1. Failed(a) /\ UNCHANGED <<child, lagging, overtaken>>
    BY <1>2 DEF UpsertMany
  <2> QED
    BY <1>1, <2>1, FailsSettles DEF At, dbVars
<1>3. CASE saver[a].held
  <2> DEFINE s == [saver[a] EXCEPT !.stage = "missing"]
             W == saver[a].members
  <2>1. /\ child' = [i \in Items |-> IF i \in W THEN saver[a].fam ELSE child[i]]
        /\ saver' = [saver EXCEPT ![a] = s] /\ Describes(a, W)
        /\ UNCHANGED <<pending, due, sweep, todo>>
    BY <1>3 DEF UpsertMany, Step
  <2>2. s \in Saver /\ s.stage = "missing" /\ s.item = saver[a].item /\ s.fam = saver[a].fam
        /\ s.members = W /\ s.old = saver[a].old /\ s.held = saver[a].held
    BY <1>1 DEF Saver, Stages, Writing
  <2>3. W \in SUBSET Items
    BY <1>1 DEF Saver
  <2> HIDE DEF s, W
  <2>4. Steady(a) /\ saver'[a] = s
    BY <1>1, <2>1, <2>2, GoesOn DEF Full
  <2>5. Knows(a) /\ KeyOf(a) = saver[a].fam /\ KeyOf(a)' = KeyOf(a)
    BY <1>1, <2>2, <2>4 DEF Full, Knowing, KeyOf, KeyIn, Shared
  <2>6. Knows(a)'
    BY <1>1, <2>2, <2>4, <2>5 DEF Knows, At, Reading, Writing, Shared, Steady, W
  <2>7. Knowing' /\ Rests'
    BY <1>1, <2>1, <2>4, <2>6, StaysKnowing DEF At
  <2>8. saver[a].fam \in rows
    BY <1>1, <1>3, <2>5 DEF Knows, Writing
  <2>9. \A i \in Items : Outdated(i)' => Outdated(i)
    BY <1>1, <2>2, <2>4 DEF Outdated, Reading, Writing, Steady, Savers
  <2>10. Settled'
    <3> SUFFICES ASSUME NEW i \in Items, i \notin missed', i \notin overtaken'
                 PROVE  Sound(i)'
      BY DEF Settled
    <3>1. CASE i \in W
      <4>1. i \notin Late(a) /\ i \notin lagging'
        BY <2>1, <2>3, <3>1, Described
      <4>2. place[i] = saver[a].fam /\ (sweep # "idle" => KeyOf(a) \in marked \cup fresh)
        BY <1>1, <3>1, <4>1, NotLate DEF Reading, Writing, At, W
      <4>3. Key(i)' = saver[a].fam
        BY <1>1, <4>2, SnapshotAssumption DEF Key, KeyIn
      <4>4. Right(i)'
        BY <1>1, <2>1, <2>8, <3>1, <4>2, <4>3 DEF Right
      <4>5. Keeps(i)'
        BY <1>1, <2>1, <2>5, <4>2, <4>3 DEF Keeps
      <4> QED
        BY <4>1, <4>4, <4>5 DEF Sound
    <3>2. CASE i \notin W
      <4>1. Sound(i) /\ (i \in lagging' <=> i \in lagging)
        BY <2>1, <2>3, <3>2, Described
      <4>2. ~WillShow(a, i)
        BY <1>1, <3>2 DEF WillShow, W
      <4> QED
        BY <1>1, <2>1, <2>4, <2>9, <3>2, <4>1, <4>2, StaysSound
    <3> QED
      BY <3>1, <3>2
  <2>11. Cleanly'
    <3>1. marked' \subseteq rows'
      BY <1>1 DEF Full, Cleanly
    <3> SUFFICES ASSUME calm
                 PROVE  /\ saver'[a].old = {}
                        /\ \A k \in marked' \cup fresh' : \E i \in Items : k = Key(i)
                        /\ \A i \in Items : Exact(i) => Exact(i)'
                        /\ a = Batch => KeyOf(a)' \in rows' /\ Exact(saver[a].item)'
      BY <1>1, <2>1, <2>4, <3>1, StaysCalm
    <3>2. Calm
      BY DEF Full, Cleanly
    <3>3. saver[a].item \in W /\ \A i \in W : place[i] = saver[a].fam
      BY <1>1, <2>3, CalmKnows DEF Reading, Writing, W
    <3>4. \A i \in Items : (Exact(i) => Exact(i)') /\ (i \in W => Exact(i)')
      BY <1>1, <2>1, <3>3, SnapshotAssumption DEF Exact
    <3>5. Exact(saver[a].item)'
      BY <1>1, <2>2, <2>4, <3>3, <3>4 DEF Exact
    <3> QED
      BY <1>1, <2>2, <2>4, <2>5, <2>8, <3>2, <3>4, <3>5 DEF Calm
  <2> QED
    BY <2>7, <2>10, <2>11
<1> QED
  BY <1>2, <1>3

LEMMA DeleteMissingChildrenSettles ==
    ASSUME Full, NEW a \in Savers, DeleteMissingChildren(a)
    PROVE  Knowing' /\ Rests' /\ Settled' /\ Cleanly'
<1> DEFINE s == [saver[a] EXCEPT !.stage = "items", !.missing = {}]
<1>1. /\ saver[a].stage = "drop" /\ saver[a] \in Saver /\ saver' = [saver EXCEPT ![a] = s]
      /\ saver[a].fam \in Families /\ saver[a].fam # Own /\ saver[a].fam # None
      /\ child' = [i \in Items |-> IF i \in Dropped(a) THEN None ELSE child[i]]
      /\ UNCHANGED <<place, hookVars, rows, marked, fresh, sweepVars, trouble>>
  BY SnapshotAssumption
  DEF DeleteMissingChildren, At, Full, Inv, TypeOK, Shaped, Shared, Writing
<1>2. s \in Saver /\ s.stage = "items" /\ s.item = saver[a].item /\ s.fam = saver[a].fam
      /\ s.members = saver[a].members /\ s.old = saver[a].old /\ s.held = saver[a].held
  BY <1>1 DEF Saver, Stages, Writing
<1> HIDE DEF s
<1>3. Steady(a) /\ saver'[a] = s
  BY <1>1, <1>2, GoesOn DEF Full, hookVars, sweepVars
<1>4. Knows(a)
  BY DEF Full, Knowing
<1>5. Knows(a)'
  BY <1>1, <1>2, <1>3, <1>4 DEF Knows, At, Reading, Writing, Shared
<1>6. Knowing' /\ Rests'
  BY <1>1, <1>3, <1>5, StaysKnowing DEF At, sweepVars
<1>7. \A i \in Items : (Outdated(i)' => Outdated(i)) /\ ~WillShow(a, i)
  BY <1>1, <1>2, <1>3 DEF Outdated, Reading, Writing, Steady, Savers, WillShow, At
<1>8. \A i \in Dropped(a) : i \in Items /\ child[i] = saver[a].fam /\ i \notin saver[a].members
  BY <1>1, <1>4 DEF Dropped, Stored, Knows, At
<1>9. Settled'
  <2> SUFFICES ASSUME NEW i \in Items, i \notin missed', i \notin overtaken'
               PROVE  Sound(i)'
    BY DEF Settled
  <2>1. Removes(a, Dropped(a)) /\ Dropped(a) \in SUBSET Items
    BY <1>8 DEF DeleteMissingChildren
  <2>2. Sound(i) /\ (i \in lagging' <=> i \in lagging) /\ (i \in Dropped(a) => i \notin Late(a))
    BY <2>1, Removed
  <2>3. i \in Dropped(a) => place[i] # saver[a].fam
    BY <1>1, <1>8, <2>2, NotLate DEF Reading, Writing, Shared
  <2>4. Right(i) /\ place[i] # Own => child'[i] = child[i]
    BY <1>1, <1>8, <2>3 DEF Right
  <2> QED
    BY <1>1, <1>3, <1>7, <2>2, <2>4, StaysSound DEF sweepVars
<1>10. Cleanly'
  <2>1. marked' \subseteq rows'
    BY <1>1 DEF Full, Cleanly
  <2> SUFFICES ASSUME calm
               PROVE  /\ saver'[a].old = {}
                      /\ \A k \in marked' \cup fresh' : \E i \in Items : k = Key(i)
                      /\ \A i \in Items : Exact(i) => Exact(i)'
                      /\ a = Batch => KeyOf(a)' \in rows' /\ Exact(saver[a].item)'
    BY <1>1, <1>3, <2>1, StaysCalm DEF sweepVars
  <2>2. Calm
    BY DEF Full, Cleanly
  <2>3. \A i \in Dropped(a) : place[i] # saver[a].fam
    BY <1>1, <1>8, CalmKnows DEF Reading, Writing, Shared
  <2>4. \A i \in Items : Exact(i) => Exact(i)'
    BY <1>1, <1>8, <2>3 DEF Exact
  <2>5. ASSUME a = Batch PROVE KeyOf(a)' \in rows' /\ Exact(saver[a].item)'
    <3>1. PICK i \in Items : i = saver[a].item
      BY <1>1, CalmKnows DEF Reading, Writing
    <3>2. KeyOf(a) \in rows /\ Exact(i)
      BY <1>1, <2>2, <2>5, <3>1 DEF Calm, Writing
    <3>3. Exact(i)'
      BY <2>4, <3>2
    <3> QED
      BY <1>1, <1>2, <1>3, <3>1, <3>2, <3>3 DEF Exact, KeyOf
  <2> QED
    BY <1>1, <1>2, <1>3, <2>2, <2>4, <2>5 DEF Calm
<1> QED
  BY <1>6, <1>9, <1>10

LEMMA DeleteByExternalKeysSettles ==
    ASSUME Full, NEW a \in Savers, DeleteByExternalKeys(a)
    PROVE  Knowing' /\ Rests' /\ Settled' /\ Cleanly'
<1> DEFINE W == saver[a].members
<1>1. /\ saver[a].stage = "items" /\ ~Shared(a) /\ W \in SUBSET Items /\ After(a)
      /\ rows' = rows \ W /\ marked' = marked \ W /\ fresh' = fresh \ W
      /\ Removes(a, W)
      /\ UNCHANGED <<place, inbox, child, calm, sweeps, trouble>>
  BY DEF DeleteByExternalKeys, ItemRows, At, Full, Inv, TypeOK, Saver, Shaped
<1> HIDE DEF W
<1>2. rows \cap Families \subseteq rows'
  BY <1>1, SnapshotAssumption
<1>3. /\ Steady(a) /\ sweep' = sweep /\ todo' = todo /\ Knowing' /\ Rests'
      /\ saver'[a].old = {} \/ saver'[a].old = saver[a].old
      /\ a = Batch => /\ saver'[a].stage = "mark" /\ KeyOf(a)' = KeyOf(a)
                      /\ saver'[a].item = saver[a].item
      /\ \A i \in Items : (Outdated(i)' => Outdated(i)) /\ ~WillShow(a, i)
  BY <1>1, <1>2, AfterKnows
<1>4. Settled'
  <2> SUFFICES ASSUME NEW i \in Items, i \notin missed', i \notin overtaken'
               PROVE  Sound(i)'
    BY DEF Settled
  <2>1. Sound(i) /\ (i \in lagging' <=> i \in lagging) /\ (i \in W => i \notin Late(a))
    BY <1>1, Removed
  <2>2. i \in W => place[i] # Own
    BY <1>1, <2>1, NotLate DEF Reading, Writing, Shared, W
  <2>3. Key(i) \notin W
    BY <1>1, <2>2, KeyKinds
  <2> QED
    BY <1>1, <1>3, <2>1, <2>3, StaysSound
<1>5. Cleanly'
  <2>1. marked' \subseteq rows'
    BY <1>1 DEF Full, Cleanly
  <2> SUFFICES ASSUME calm
               PROVE  /\ saver'[a].old = {}
                      /\ \A k \in marked' \cup fresh' : \E i \in Items : k = Key(i)
                      /\ \A i \in Items : /\ Key(i) \notin W
                                          /\ Exact(i) => Exact(i)'
                      /\ a = Batch => KeyOf(a)' \in rows' /\ Exact(saver[a].item)'
    BY <1>1, <1>3, <2>1, StaysCalm
  <2>2. Calm
    BY DEF Full, Cleanly
  <2>3. \A i \in W : place[i] # Own
    BY <1>1, CalmKnows DEF Reading, Writing, Shared, W
  <2>4. \A i \in Items : Key(i) \notin W
    BY <1>1, <2>3, KeyKinds
  <2>5. \A i \in Items : Exact(i) => Exact(i)'
    BY <1>1 DEF Exact
  <2>6. ASSUME a = Batch PROVE KeyOf(a)' \in rows' /\ Exact(saver[a].item)'
    <3>1. PICK i \in Items : i = saver[a].item /\ KeyOf(a) = Key(i)
      BY <1>1, CalmKnows DEF Reading, Writing
    <3>2. KeyOf(a) \in rows /\ Exact(i)
      BY <1>1, <2>2, <2>6, <3>1 DEF Calm, Writing
    <3> QED
      BY <1>1, <1>3, <2>4, <2>6, <3>1, <3>2 DEF Exact
  <2> QED
    BY <1>1, <1>3, <2>2, <2>4, <2>5, <2>6 DEF Calm
<1> QED
  BY <1>3, <1>4, <1>5

LEMMA MarkFullSyncSettles ==
    ASSUME Full, MarkFullSync
    PROVE  Knowing' /\ Rests' /\ Settled' /\ Cleanly'
<1> DEFINE a == Batch
<1>1. /\ a \in Savers /\ saver[a].stage = "mark" /\ Finished(a)
      /\ marked' = marked \cup ({KeyOf(a)} \cap rows) /\ fresh' = fresh \cup ({KeyOf(a)} \cap rows)
      /\ UNCHANGED <<place, inbox, rows, child, calm, sweeps, truth, trouble>>
  BY DEF MarkFullSync, At, Savers
<1>2. Steady(a) /\ Closed(a) /\ sweep' = sweep /\ todo' = todo \ {saver[a].item}
  BY <1>1, FinishedCloses DEF Full
<1>3. Knows(a)' /\ saver'[a].stage \in {"idle", "item"} /\ saver'[a].old = {}
  BY <1>1, <1>2, ClosedKnows
<1>4. Knowing' /\ Rests'
  BY <1>1, <1>2, <1>3, StaysKnowing DEF At
<1>5. \A i \in Items : ~Outdated(i)'
  BY <1>3 DEF Outdated, Reading, Writing
<1>6. Settled'
  <2> SUFFICES ASSUME NEW i \in Items, i \notin missed, i \notin overtaken
               PROVE  Sound(i)'
    BY <1>1 DEF Settled, truth
  <2>1. Sound(i) /\ (i \in lagging' <=> i \in lagging)
    BY <1>1 DEF Full, Settled, truth
  <2>2. CASE i # saver[a].item
    BY <1>1, <1>2, <1>5, <2>1, <2>2, StaysSound
  <2>3. CASE i \in lagging
    BY <1>1, <1>2, <2>1, <2>3, StaysComing DEF Sound
  <2>4. CASE i = saver[a].item /\ i \notin lagging
    <3>1. Right(i) /\ Keeps(i) /\ Key(i)' = Key(i)
      BY <1>1, <2>1, <2>4 DEF Sound, Key
    <3>2. Right(i)'
      BY <1>1, <3>1 DEF Right
    <3>3. Keeps(i)'
      <4> SUFFICES ASSUME sweep = "run", i \in todo, ~Outdated(i)
                   PROVE  Key(i) \in marked'
        BY <1>1, <1>2, <3>1 DEF Keeps
      <4>1. i \notin saver[a].old
        BY <1>1, <2>4 DEF Outdated, Reading, Writing
      <4>2. place[i] = saver[a].fam
        BY <1>1, <2>4, <4>1 DEF Full, Knowing, Knows, Reading, Writing
      <4> QED
        BY <1>1, <2>4, <3>1, <4>2 DEF Right, Key, KeyOf
    <3> QED
      BY <2>1, <2>4, <3>2, <3>3 DEF Sound
  <2> QED
    BY <2>2, <2>3, <2>4
<1>7. Cleanly'
  <2>1. marked' \subseteq rows'
    BY <1>1 DEF Full, Cleanly
  <2> SUFFICES ASSUME calm
               PROVE  /\ \A k \in marked' \cup fresh' : \E i \in Items : k = Key(i)
                      /\ \A i \in Items : Exact(i) => Exact(i)'
                      /\ \A i \in Items \ todo' : i \in todo => Key(i) \in marked' /\ Exact(i)'
    BY <1>1, <1>2, <1>3, <2>1, StaysCalm DEF Writing
  <2>2. Calm
    BY DEF Full, Cleanly
  <2>3. \A i \in Items : Exact(i) => Exact(i)'
    BY <1>1 DEF Exact
  <2>4. PICK i \in Items : i = saver[a].item /\ KeyOf(a) = Key(i)
    BY <1>1, CalmKnows DEF Reading, Writing
  <2>5. KeyOf(a) \in rows /\ Exact(i)
    BY <1>1, <2>2, <2>4 DEF Calm, Writing
  <2>6. \A j \in Items \ todo' : j \in todo => j = i
    BY <1>2, <2>4
  <2> QED
    BY <1>1, <2>2, <2>3, <2>4, <2>5, <2>6 DEF Calm
<1> QED
  BY <1>4, <1>6, <1>7

-----------------------------------------------------------------------------
(* Steps of Mercado Libre, of the notifications and of the sweep *)

LEMMA BatchIs ==
    /\ Batch \in Savers
    /\ \A n \in Instances, i \in Items : <<n, i>> \in Savers \ {Batch} /\ <<n, i>>[2] = i
BY SnapshotAssumption DEF Savers

LEMMA ChangeSettles ==
    ASSUME Full, NEW i \in Items, NEW p \in Families \cup {Own}, Change(i, p)
    PROVE  Knowing' /\ Rests' /\ Settled' /\ Cleanly'
<1>1. /\ place' = [place EXCEPT ![i] = p] /\ inbox' = inbox \cup {i} /\ lagging' = lagging \cup {i}
      /\ calm' = FALSE
      /\ UNCHANGED <<pending, due, dbVars, sweep, todo, sweeps, overtaken, missed>>
  BY DEF Change
<1>2. ASSUME NEW a \in Savers
      PROVE  /\ saver'[a].stage = saver[a].stage
             /\ saver[a].stage # "idle" =>
                  /\ saver'[a].item = saver[a].item /\ saver'[a].fam = saver[a].fam
                  /\ saver'[a].members = saver[a].members /\ saver'[a].held = saver[a].held
                  /\ saver'[a].missing = saver[a].missing /\ saver'[a].old = saver[a].old \cup {i}
  <2>1. saver[a] \in Saver
    BY DEF Full, Inv, TypeOK
  <2>2. saver'[a] = IF saver[a].stage = "idle" THEN Idle
                    ELSE [saver[a] EXCEPT !.old = @ \cup {i}]
    BY DEF Change, At
  <2> QED
    BY <2>1, <2>2, IdleIs DEF Saver
<1>3. \A j \in Items \ {i} : place'[j] = place[j]
  BY <1>1 DEF Full, Inv, TypeOK
<1>4. Knowing'
  <2> SUFFICES ASSUME NEW a \in Savers PROVE Knows(a)'
    BY DEF Knowing
  <2>1. Knows(a)
    BY DEF Full, Knowing
  <2>2. CASE saver[a].stage = "idle"
    BY <2>2, <1>2 DEF Knows, At, Reading, Writing
  <2>3. CASE saver[a].stage # "idle"
    <3>1. saver[a].stage \in Reading =>
            /\ saver'[a].item \in saver'[a].members \cup saver'[a].old
            /\ \A j \in Items \ saver'[a].old :
                 /\ j \in saver'[a].members => place'[j] = saver'[a].fam
                 /\ saver'[a].fam # Own /\ place'[j] = saver'[a].fam => j \in saver'[a].members
      BY <2>1, <2>3, <1>2, <1>3 DEF Knows, Shared
    <3> QED
      BY <2>1, <2>3, <3>1, <1>1, <1>2 DEF Knows, At, Shared, dbVars
  <2> QED
    BY <2>2, <2>3
<1>5. Rests'
  BY <1>1, <1>2, BatchIs DEF Full, Rests, At
<1>6. Settled'
  <2> SUFFICES ASSUME NEW j \in Items, j \notin missed, j \notin overtaken
               PROVE  Sound(j)'
    BY <1>1 DEF Settled
  <2>1. CASE j = i
    BY <2>1, <1>1 DEF Sound, Coming
  <2>2. CASE j # i
    <3>1. Sound(j) /\ place'[j] = place[j] /\ Key(j)' = Key(j) /\ (j \in lagging' <=> j \in lagging)
      BY <1>1, <1>3, <2>2 DEF Full, Settled, Key
    <3>2. Coming(j) => Coming(j)'
      <4>1. \A n \in Instances : WillShow(<<n, j>>, j) => WillShow(<<n, j>>, j)'
        BY <1>2, <2>2, BatchIs DEF WillShow, At, Shared
      <4> QED
        BY <1>1, <4>1 DEF Coming
    <3>3. Outdated(j)' => Outdated(j)
      BY <1>2, <2>2, BatchIs DEF Outdated, Reading, Writing
    <3> QED
      BY <1>1, <3>1, <3>2, <3>3 DEF Sound, Right, Keeps, dbVars
  <2> QED
    BY <2>1, <2>2
<1>7. Cleanly'
  BY <1>1 DEF Full, Cleanly, dbVars
<1> QED
  BY <1>4, <1>5, <1>6, <1>7

\* When neither the rows nor the truth about them changes, nor the saver Batch.
LEMMA HookStep ==
    ASSUME Full, saver'[Batch] = saver[Batch],
           \A a \in Savers : Knows(a)' /\ saver'[a].old \subseteq saver[a].old,
           UNCHANGED <<place, dbVars, sweepVars, lagging, overtaken>>, missed \subseteq missed',
           \A i \in Items \ missed' : Coming(i) => Coming(i)'
    PROVE  Knowing' /\ Rests' /\ Settled' /\ Cleanly'
<1>1. Knowing' /\ Rests'
  BY DEF Knowing, Full, Rests, sweepVars, At
<1>2. Settled'
  <2> SUFFICES ASSUME NEW i \in Items, i \notin missed', i \notin overtaken'
               PROVE  Sound(i)'
    BY DEF Settled
  <2>1. Sound(i) /\ Key(i)' = Key(i)
    BY DEF Full, Settled, Key
  <2>2. Outdated(i)' => Outdated(i)
    BY DEF Outdated
  <2> QED
    BY <2>1, <2>2 DEF Sound, Right, Keeps, dbVars, sweepVars
<1>3. Cleanly'
  <2>1. marked' \subseteq rows'
    BY DEF Full, Cleanly, dbVars
  <2>2. SUFFICES ASSUME calm PROVE Calm'
    BY <2>1 DEF Cleanly, sweepVars
  <2>3. Calm /\ \A a \in Savers : saver'[a].old = {}
    BY <2>2 DEF Full, Cleanly, Calm
  <2>4. KeyOf(Batch)' = KeyOf(Batch) /\ (Exact(saver[Batch].item) => Exact(saver[Batch].item)')
    BY DEF KeyOf, Exact, dbVars
  <2>5. \A i \in Items : Key(i)' = Key(i) /\ (Exact(i) => Exact(i)')
    BY DEF Key, Exact, dbVars
  <2> QED
    BY <2>3, <2>4, <2>5 DEF Calm, dbVars, sweepVars
<1> QED
  BY <1>1, <1>2, <1>3

LEMMA ReceiveSettles ==
    ASSUME Full, NEW n \in Instances, NEW i \in Items, Receive(n, i)
    PROVE  Knowing' /\ Rests' /\ Settled' /\ Cleanly'
<1> DEFINE a == <<n, i>>
<1>1. a \in Savers \ {Batch} /\ a[2] = i
  BY BatchIs
<1>2. UNCHANGED <<place, dbVars, sweepVars, truth>> /\ inbox \ {i} \subseteq inbox'
  BY DEF Receive
<1>3. \A m \in Instances, j \in Items :
        pending'[m][j] = IF m = n /\ j = i THEN IF pending[n][i] = "no" THEN "once" ELSE "again"
                                           ELSE pending[m][j]
  BY DEF Receive, Remember, Full, Inv, TypeOK
<1>4. /\ \A b \in Savers \ {a} : saver'[b] = saver[b]
      /\ saver'[a] = IF pending[n][i] = "no" THEN Begun(i) ELSE saver[a]
  BY <1>1 DEF Receive, Remember, Full, Inv, TypeOK
<1>5. ASSUME NEW b \in Savers PROVE Knows(b)' /\ saver'[b].old \subseteq saver[b].old
  <2>1. Knows(b)
    BY DEF Full, Knowing
  <2>2. CASE saver'[b] = saver[b]
    BY <2>1, <2>2, <1>2 DEF Knows, At, Shared, dbVars
  <2>3. CASE b = a /\ saver'[a] = Begun(i)
    BY <2>3, <1>1, IdleIs DEF Knows, At, Reading, Writing
  <2> QED
    BY <2>2, <2>3, <1>4
<1>6. ASSUME NEW j \in Items, Coming(j) PROVE Coming(j)'
  <2>1. CASE j = i
    BY <2>1, <1>3, <1>4, IdleIs DEF Coming, WillShow
  <2>2. CASE j # i
    <3>1. \A m \in Instances : saver'[<<m, j>>] = saver[<<m, j>>]
      BY <2>2, <1>4, BatchIs
    <3> QED
      BY <1>2, <1>3, <1>6, <2>2, <3>1 DEF Coming, WillShow, At, Shared
  <2> QED
    BY <2>1, <2>2
<1> QED
  BY <1>1, <1>2, <1>4, <1>5, <1>6, HookStep, BatchIs DEF truth

LEMMA RestartSettles ==
    ASSUME Full, NEW n \in Instances, Restart(n)
    PROVE  Knowing' /\ Rests' /\ Settled' /\ Cleanly'
<1>1. UNCHANGED <<place, inbox, dbVars, sweepVars, lagging, overtaken>>
  BY DEF Restart
<1>2. \A m \in Instances, j \in Items : pending'[m][j] = IF m = n THEN "no" ELSE pending[m][j]
  BY DEF Restart, Full, Inv, TypeOK
<1>3. \A a \in Savers : saver'[a] = IF a # Batch /\ a \in {n} \X Items THEN Idle ELSE saver[a]
  BY DEF Restart
<1>4. missed \subseteq missed' /\ \A j \in Items \ missed' : pending[n][j] = "no"
  BY DEF Restart
<1>5. ASSUME NEW b \in Savers PROVE Knows(b)' /\ saver'[b].old \subseteq saver[b].old
  <2>1. Knows(b)
    BY DEF Full, Knowing
  <2>2. CASE saver'[b] = saver[b]
    BY <2>1, <2>2, <1>1 DEF Knows, At, Shared, dbVars
  <2>3. CASE saver'[b] = Idle
    BY <2>3, IdleIs DEF Knows, At, Reading, Writing
  <2> QED
    BY <2>2, <2>3, <1>3
<1>6. ASSUME NEW j \in Items \ missed', Coming(j) PROVE Coming(j)'
  <2>1. saver[<<n, j>>].stage = "idle" /\ pending[n][j] = "no"
    BY <1>4 DEF Full, Inv, Idled, At
  <2>2. \A m \in Instances \ {n} : saver'[<<m, j>>] = saver[<<m, j>>]
    BY <1>3, BatchIs
  <2>3. ~WillShow(<<n, j>>, j)
    BY <2>1 DEF WillShow, At
  <2> QED
    BY <1>1, <1>2, <1>6, <2>1, <2>2, <2>3 DEF Coming, WillShow, At, Shared
<1> QED
  BY <1>1, <1>3, <1>4, <1>5, <1>6, HookStep, BatchIs

LEMMA SweepStartSettles ==
    ASSUME Full, SweepStart
    PROVE  Knowing' /\ Rests' /\ Settled' /\ Cleanly'
<1>1. /\ sweep = "idle" /\ sweep' = "run" /\ todo' = Items /\ marked' = {} /\ fresh' = {}
      /\ calm' = (\A a \in Savers : saver[a].old = {})
      /\ UNCHANGED <<place, hookVars, rows, child, truth, trouble>>
  BY DEF SweepStart
<1>2. ASSUME NEW a \in Savers
      PROVE  /\ saver'[a].stage = saver[a].stage /\ saver'[a].item = saver[a].item
             /\ saver'[a].fam = saver[a].fam /\ saver'[a].members = saver[a].members
             /\ saver'[a].missing = saver[a].missing /\ saver'[a].old = saver[a].old
             /\ saver'[a].held = saver[a].held
  <2>1. saver[a] \in Saver /\ saver'[a] = [saver[a] EXCEPT !.since = FALSE]
    BY DEF SweepStart, Full, Inv, TypeOK
  <2> QED
    BY <2>1 DEF Saver
<1>3. Knowing'
  <2> SUFFICES ASSUME NEW a \in Savers PROVE Knows(a)'
    BY DEF Knowing
  <2>1. Knows(a)
    BY DEF Full, Knowing
  <2> QED
    BY <2>1, <1>1, <1>2 DEF Knows, At, Shared
<1>4. Rests'
  BY <1>1 DEF Rests
<1>5. saver'[Batch].stage = "idle"
  BY <1>1, <1>2, BatchIs DEF Full, Rests, At
<1>6. Settled'
  <2> SUFFICES ASSUME NEW i \in Items, i \notin missed, i \notin overtaken
               PROVE  Sound(i)'
    BY <1>1 DEF Settled, truth
  <2>1. Sound(i) /\ Key(i)' = Key(i)
    BY <1>1 DEF Full, Settled, Key
  <2>2. Coming(i) => Coming(i)'
    <3>1. \A n \in Instances : WillShow(<<n, i>>, i) => WillShow(<<n, i>>, i)'
      BY <1>2, BatchIs DEF WillShow, At, Shared
    <3> QED
      BY <1>1, <3>1 DEF Coming, hookVars
  <2>3. Keeps(i)'
    BY <1>1, <1>5 DEF Keeps, Outdated, Reading, Writing
  <2> QED
    BY <1>1, <2>1, <2>2, <2>3 DEF Sound, Right, truth
<1>7. Cleanly'
  BY <1>1, <1>2, <1>5 DEF Cleanly, Calm, Writing
<1> QED
  BY <1>3, <1>4, <1>6, <1>7

LEMMA SyncBatchSettles ==
    ASSUME Full, NEW i \in Items, SyncBatch(i)
    PROVE  Knowing' /\ Rests' /\ Settled' /\ Cleanly'
<1>1. /\ saver[Batch].stage = "idle" /\ i \in todo /\ saver' = [saver EXCEPT ![Batch] = Begun(i)]
      /\ UNCHANGED <<place, hookVars, dbVars, sweepVars, truth, trouble>>
  BY DEF SyncBatch, At
<1>2. saver'[Batch] = Begun(i) /\ \A b \in Savers \ {Batch} : saver'[b] = saver[b]
  BY <1>1, BatchIs DEF Full, Inv, TypeOK
<1>3. Knowing'
  <2> SUFFICES ASSUME NEW b \in Savers PROVE Knows(b)'
    BY DEF Knowing
  <2>1. Knows(b)
    BY DEF Full, Knowing
  <2> QED
    BY <2>1, <1>1, <1>2, IdleIs DEF Knows, At, Shared, dbVars, Reading, Writing
<1>4. Rests'
  BY <1>1 DEF Full, Rests, sweepVars
<1>5. Settled'
  <2> SUFFICES ASSUME NEW j \in Items, j \notin missed, j \notin overtaken
               PROVE  Sound(j)'
    BY <1>1 DEF Settled, truth
  <2>1. Sound(j) /\ Key(j)' = Key(j)
    BY <1>1 DEF Full, Settled, Key
  <2>2. Coming(j) => Coming(j)'
    <3>1. \A n \in Instances : saver'[<<n, j>>] = saver[<<n, j>>]
      BY <1>2, BatchIs
    <3> QED
      BY <1>1, <3>1 DEF Coming, WillShow, At, Shared, hookVars
  <2>3. ~Outdated(j)'
    BY <1>2, IdleIs DEF Outdated, Reading, Writing
  <2> QED
    BY <1>1, <2>1, <2>2, <2>3 DEF Sound, Right, Keeps, truth, dbVars, sweepVars
<1>6. Cleanly'
  <2>1. marked' \subseteq rows'
    BY <1>1 DEF Full, Cleanly, dbVars
  <2>2. SUFFICES ASSUME calm PROVE Calm'
    BY <1>1, <2>1 DEF Cleanly, sweepVars
  <2>3. Calm /\ \A b \in Savers : saver'[b].old = {}
    BY <1>2, <2>2, IdleIs DEF Full, Cleanly, Calm
  <2>4. saver'[Batch].stage = "item"
    BY <1>2, IdleIs
  <2>5. \A j \in Items : Key(j)' = Key(j) /\ (Exact(j) => Exact(j)')
    BY <1>1 DEF Key, Exact, dbVars
  <2> QED
    BY <1>1, <2>3, <2>4, <2>5 DEF Calm, dbVars, sweepVars, Writing
<1> QED
  BY <1>3, <1>4, <1>5, <1>6

LEMMA FinalizeFullSyncSettles ==
    ASSUME Full, FinalizeFullSync
    PROVE  Knowing' /\ Rests' /\ Settled' /\ Cleanly'
<1> DEFINE keeps == IF sweep = "run" THEN Kept ELSE rows
<1>1. /\ todo = {} /\ saver[Batch].stage = "idle" /\ sweep \in {"run", "failed"}
      /\ rows' = keeps
      /\ child' = [i \in Items |-> IF child[i] \in keeps THEN child[i] ELSE None]
      /\ sweep' = "idle" /\ marked' = {} /\ fresh' = {} /\ calm' = FALSE
      /\ UNCHANGED <<place, hookVars, todo, sweeps, truth, trouble>>
  BY DEF FinalizeFullSync, At
<1>2. keeps = IF sweep = "run" THEN {k \in rows : k \in marked \cup fresh} ELSE rows
  BY DEF Kept
<1>3. ASSUME NEW a \in Savers
      PROVE  /\ saver'[a].stage = saver[a].stage /\ saver'[a].item = saver[a].item
             /\ saver'[a].fam = saver[a].fam /\ saver'[a].members = saver[a].members
             /\ saver'[a].missing = saver[a].missing /\ saver'[a].old = saver[a].old
             /\ saver'[a].held => saver[a].held /\ KeyOf(a) \notin rows \ keeps
  <2>1. saver[a] \in Saver
        /\ saver'[a] = IF KeyOf(a) \in rows \ keeps THEN [saver[a] EXCEPT !.held = FALSE]
                                                    ELSE saver[a]
    BY DEF FinalizeFullSync, Full, Inv, TypeOK
  <2> HIDE DEF keeps
  <2> QED
    BY <2>1 DEF Saver
<1> HIDE DEF keeps
<1>4. Knowing'
  <2> SUFFICES ASSUME NEW a \in Savers PROVE Knows(a)'
    BY DEF Knowing
  <2>1. Knows(a)
    BY DEF Full, Knowing
  <2>2. saver'[a].stage \in Writing \ {"parent"} /\ saver'[a].fam # Own /\ saver'[a].held
          => saver'[a].fam \in rows'
    BY <2>1, <1>1, <1>3 DEF Knows, Shared, KeyOf, KeyIn
  <2> QED
    BY <2>1, <2>2, <1>1, <1>3 DEF Knows, At, Shared
<1>5. Rests'
  BY <1>1, <1>3, BatchIs DEF Rests, At
<1>6. Settled'
  <2> SUFFICES ASSUME NEW i \in Items, i \notin missed, i \notin overtaken
               PROVE  Sound(i)'
    BY <1>1 DEF Settled, truth
  <2>1. Sound(i) /\ Key(i)' = Key(i)
    BY <1>1 DEF Full, Settled, Key
  <2>2. Coming(i) => Coming(i)'
    <3>1. \A n \in Instances : WillShow(<<n, i>>, i) => WillShow(<<n, i>>, i)'
      BY <1>3, BatchIs DEF WillShow, At, Shared
    <3> QED
      BY <1>1, <3>1 DEF Coming, hookVars
  <2>3. Right(i) /\ Keeps(i) => Key(i) \in keeps
    BY <1>1, <1>2 DEF Right, Keeps
  <2>4. Right(i) /\ Keeps(i) => Right(i)'
    BY <1>1, <2>1, <2>3, KeyKinds DEF Right
  <2>5. Keeps(i)'
    BY <1>1 DEF Keeps
  <2> QED
    BY <1>1, <2>1, <2>2, <2>4, <2>5 DEF Sound, truth
<1>7. Cleanly'
  BY <1>1 DEF Cleanly
<1> QED
  BY <1>4, <1>5, <1>6, <1>7

-----------------------------------------------------------------------------

LEMMA FullInit == Init => Full
<1> SUFFICES ASSUME Init PROVE Full
  OBVIOUS
<1>1. \A a \in Savers : saver[a] = Idle
  BY DEF Init
<1>2. Knowing /\ Rests
  BY <1>1, IdleIs, BatchIs DEF Knowing, Knows, Rests, At, Reading, Writing, Init
<1>3. Settled
  <2> SUFFICES ASSUME NEW i \in Items PROVE Right(i) /\ Keeps(i)
    BY DEF Settled, Sound, Init
  <2> QED
    BY DEF Init, Right, Keeps, Key
<1>4. Cleanly
  BY DEF Init, Cleanly
<1> QED
  BY <1>2, <1>3, <1>4, InvInit DEF Full

LEMMA FullStep == Full /\ [Next]_vars => Full'
<1> SUFFICES ASSUME Full, [Next]_vars PROVE Full'
  OBVIOUS
<1>1. Inv'
  BY InvStep DEF Full
<1> SUFFICES Knowing' /\ Rests' /\ Settled' /\ Cleanly'
  BY <1>1 DEF Full
<1>2. ASSUME NEW i \in Items, NEW p \in Families \cup {Own}, Change(i, p)
      PROVE  Knowing' /\ Rests' /\ Settled' /\ Cleanly'
  BY <1>2, ChangeSettles
<1>3. ASSUME NEW n \in Instances, Restart(n)
      PROVE  Knowing' /\ Rests' /\ Settled' /\ Cleanly'
  BY <1>3, RestartSettles
<1>4. ASSUME NEW n \in Instances, NEW i \in Items, Receive(n, i)
      PROVE  Knowing' /\ Rests' /\ Settled' /\ Cleanly'
  BY <1>4, ReceiveSettles
<1>5. ASSUME NEW a \in Savers, Work(a)
      PROVE  Knowing' /\ Rests' /\ Settled' /\ Cleanly'
  BY <1>5, SyncItemSettles, ResolveFamilySettles, SaveResolvedFamilySettles, UpsertSettles,
     SaveSharedSettles, UpsertManySettles, FindMissingSettles, DeleteMissingChildrenSettles,
     DeleteByExternalKeysSettles DEF Work
<1>6. ASSUME NEW a \in Savers, Fails(a)
      PROVE  Knowing' /\ Rests' /\ Settled' /\ Cleanly'
  BY <1>6, FailsSettles DEF Fails
<1>7. ASSUME FullSync
      PROVE  Knowing' /\ Rests' /\ Settled' /\ Cleanly'
  BY <1>7, SweepStartSettles, MarkFullSyncSettles, FinalizeFullSyncSettles, SyncBatchSettles
  DEF FullSync
<1>8. ASSUME UNCHANGED vars
      PROVE  Knowing' /\ Rests' /\ Settled' /\ Cleanly'
  <2>1. \A a \in Savers : Knows(a)'
    BY <1>8 DEF vars, dbVars, Full, Knowing, Knows, At, Shared
  <2>2. \A i \in Items : Coming(i) => Coming(i)'
    BY <1>8 DEF vars, hookVars, Coming, WillShow, At, Shared
  <2> QED
    BY <1>8, <2>1, <2>2, HookStep DEF vars, truth
<1> QED
  BY <1>2, <1>3, <1>4, <1>5, <1>6, <1>7, <1>8 DEF Next

\* What the saves know, what is on its way to the rows and what a full
\* synchronisation has done so far, in every state.
THEOREM FullInvariance == Spec => []Full
BY FullInit, FullStep, PTL DEF Spec

\* Once the notifications of a publication are dealt with and no save of it is
\* under way the rows have it where it is, with its last change, unless a save of
\* it was given up or it was last written by one that had been overtaken by a
\* change or by the start of a full synchronisation.
THEOREM RightInTheEnd == Spec => []RightUnlessOvertaken
<1>1. Full => RightUnlessOvertaken
  <2> SUFFICES ASSUME Full, NEW i \in Items, i \notin missed, i \notin overtaken, Resting(i)
               PROVE  InPlace(i) /\ i \notin lagging
    BY DEF RightUnlessOvertaken
  <2>1. i \notin lagging
    <3>1. \A n \in Instances : saver[<<n, i>>].stage = "idle"
      BY DEF Resting, Full, Inv, Idled, At
    <3>2. ~Coming(i)
      BY <3>1 DEF Resting, Coming, WillShow, At
    <3> QED
      BY <3>2 DEF Full, Settled, Sound
  <2>2. Right(i)
    BY <2>1 DEF Full, Settled, Sound
  <2>3. i \in rows => child[i] = None
    <3>1. \A a \in Savers : ~Removing(a, i)
      BY DEF Resting, Removing, At, Writing, Full, Inv, Shaped
    <3> QED
      BY <3>1 DEF Full, Inv, ShownOnce
  <2> QED
    BY <2>1, <2>2, <2>3, KeyKinds, SnapshotAssumption DEF InPlace, Right, Key
<1> QED
  BY <1>1, FullInvariance, PTL

\* A full synchronisation during which nothing changed in Mercado Libre leaves one
\* row for every publication or family there is, and every child in its family,
\* whatever had gone wrong before and whichever saves run beside it.
THEOREM SweepIsClean == Spec => CleanSweep
<1>1. Full /\ [Next]_vars =>
        [FinalizeFullSync /\ sweep = "run" /\ calm =>
           /\ rows' = {KeyIn(place[i], i) : i \in Items}
           /\ \A i \in Items : child'[i] = IF place[i] = Own THEN None ELSE place[i]]_vars
  <2> SUFFICES ASSUME Full, FinalizeFullSync, sweep = "run", calm
               PROVE  /\ rows' = {KeyIn(place[i], i) : i \in Items}
                      /\ \A i \in Items : child'[i] = IF place[i] = Own THEN None ELSE place[i]
    OBVIOUS
  <2>1. /\ todo = {} /\ rows' = {k \in rows : k \in marked \cup fresh}
        /\ child' = [i \in Items |-> IF child[i] \in rows' THEN child[i] ELSE None]
    BY DEF FinalizeFullSync, Kept
  <2>2. /\ marked \subseteq rows /\ \A k \in marked \cup fresh : \E i \in Items : k = Key(i)
        /\ \A i \in Items : Key(i) \in marked /\ Exact(i)
    BY <2>1 DEF Full, Cleanly, Calm
  <2>3. rows' = {Key(i) : i \in Items}
    BY <2>1, <2>2
  <2>4. ASSUME NEW i \in Items
        PROVE  child'[i] = IF place[i] = Own THEN None ELSE place[i]
    BY <2>1, <2>2, <2>3, KeyKinds DEF Exact
  <2> QED
    BY <2>3, <2>4 DEF Key
<1> QED
  BY <1>1, FullInvariance, PTL DEF Spec, CleanSweep

=============================================================================

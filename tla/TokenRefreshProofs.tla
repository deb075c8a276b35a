-------------------------- MODULE TokenRefreshProofs --------------------------
(***************************************************************************)
(* Proofs about TokenRefresh, for any number of requests, processes,       *)
(* accounts and pairs, and every bound on changes and faults.              *)
(***************************************************************************)
EXTENDS TokenRefresh, TLAPS

\* The rows that requests have read, and the row as it is.
Conns == ({row} \cup {req[r].conn : r \in Requests}) \ {NoRow}

Known(c) == c \in Row /\ c.pair <= last /\ c.ver <= writes /\ issued[c.pair].seller = c.seller

\* What is read names its account, and no two writes of the row share a version
\* or a pair.
Versions ==
    /\ \A c \in Conns : Known(c)
    /\ \A c, d \in Conns : c.ver = d.ver \/ c.pair = d.pair => c = d
    /\ row # NoRow => row.ver = writes

Refreshing == {"post", "save", "lookup"}

\* What the locals of a request say at its stage.
Holds(l) ==
    /\ l.pc # "idle" => l.conn # NoRow
    /\ l.pc \in Refreshing /\ l.got # 0 =>
          /\ l.got <= last /\ issued[l.got].seller = l.conn.seller
          /\ l.got # l.conn.pair /\ l.got \notin old
    /\ l.pc = "save" => l.got # 0
    /\ l.pc \in {"operate", "reread"} =>
          l.token \in 1 .. last /\ issued[l.token].seller = l.conn.seller
Fits(l) == Holds(l) /\ (l.pc = "save" => l.tries <= faults)

\* A request waits for one of its process that refreshes for the same account.
Waits ==
    \A r \in Requests : req[r].pc = "wait" =>
        /\ req[r].on \in Requests /\ req[req[r].on].pc \in Refreshing
        /\ ProcessOf[req[r].on] = ProcessOf[r]
        /\ req[req[r].on].conn.seller = req[r].conn.seller
Leads ==
    \A p \in Processes : leader[p] # Nobody =>
        /\ leader[p] \in Requests /\ req[leader[p]].pc \in Refreshing
        /\ ProcessOf[leader[p]] = p

\* A pair that waits to be saved works, and nobody has read it.
Fresh(p) == \A c \in Conns : c.pair # p
Unsaved ==
    /\ connecting # 0 => connecting \in usable /\ Fresh(connecting)
    /\ \A r \in Requests : req[r].pc = "save" /\ req[r].conn.ver = writes =>
          req[r].got \in usable /\ Fresh(req[r].got) /\ req[r].got # connecting

\* The inductive invariant.
Inv == TypeOK /\ Versions /\ (\A r \in Requests : Fits(req[r])) /\ Waits /\ Leads /\ Unsaved

-----------------------------------------------------------------------------
(* Types *)

LEMMA RowIs ==
    ASSUME NEW c \in Row
    PROVE  c # NoRow /\ c.pair \in Pairs /\ c.seller \in Sellers /\ c.ver \in Nat
BY TokenAssumption DEF Row, NoRow, Pairs

LEMMA LocalIs ==
    ASSUME Inv, NEW r \in Requests
    PROVE  /\ req[r] \in Local
           /\ req[r].pc \in Stage /\ req[r].conn \in Row \cup {NoRow}
           /\ req[r].token \in 0 .. MaxPairs /\ req[r].got \in 0 .. MaxPairs
           /\ req[r].tries \in Nat /\ req[r].again \in BOOLEAN
           /\ req[r].on \in Requests \cup {Nobody}
BY DEF Inv, TypeOK, Local

LEMMA ConnIs ==
    ASSUME Inv, NEW r \in Requests, req[r].pc # "idle"
    PROVE  /\ req[r].conn \in Conns /\ req[r].conn \in Row /\ Known(req[r].conn)
           /\ req[r].conn.pair \in 1 .. last /\ req[r].conn.seller \in Sellers
<1>1. req[r].conn # NoRow
  BY DEF Inv, Fits, Holds
<1>2. req[r].conn \in Conns
  BY <1>1 DEF Conns
<1>3. Known(req[r].conn)
  BY <1>2 DEF Inv, Versions
<1> QED
  BY <1>2, <1>3, RowIs DEF Known, Pairs, Inv, TypeOK

LEMMA StateIs ==
    ASSUME Inv
    PROVE  /\ last \in Nat /\ last \in Pairs /\ writes \in Nat /\ faults \in Nat
           /\ usable \subseteq 1 .. last /\ old \subseteq 1 .. last /\ live \subseteq 1 .. last
           /\ issued \in [Pairs -> [seller : Sellers, parent : 0 .. MaxPairs]]
           /\ connecting \in 0 .. last /\ 1 .. last \subseteq Pairs
           /\ row # NoRow => row \in Row /\ row \in Conns /\ Known(row) /\ row.ver = writes
                             /\ row.pair \in 1 .. last
BY TokenAssumption, RowIs DEF Inv, TypeOK, Pairs, Versions, Conns, Known

LEMMA IdleIs ==
    /\ Idle \in Local /\ Idle.pc = "idle" /\ Idle.conn = NoRow /\ Idle.got = 0 /\ Idle.tries = 0
    /\ Idle.token = 0 /\ Idle.on = Nobody
BY TokenAssumption DEF Idle, Local, Stage

-----------------------------------------------------------------------------
(* What a step keeps *)

\* Pairs are only added.
Grown ==
    /\ last' \in Pairs /\ last <= last'
    /\ issued' \in [Pairs -> [seller : Sellers, parent : 0 .. MaxPairs]]
    /\ \A p \in 1 .. last : issued'[p] = issued[p]

SamePairs == UNCHANGED <<issued, last, usable>>

LEMMA SameGrown == ASSUME Inv, SamePairs PROVE Grown
BY StateIs DEF SamePairs, Grown

LEMMA KnownGrows ==
    ASSUME Inv, Grown, writes' \in Nat, writes <= writes', NEW c, Known(c)
    PROVE  c \in Row /\ c.pair <= last' /\ c.ver <= writes' /\ issued'[c.pair].seller = c.seller
<1>1. c \in Row /\ c.pair \in Pairs /\ c.ver \in Nat /\ c.pair <= last /\ c.ver <= writes
      /\ issued[c.pair].seller = c.seller
  BY RowIs DEF Known
<1>2. c.pair \in 1 .. last
  BY <1>1, StateIs DEF Pairs
<1> QED
  BY <1>1, <1>2, StateIs DEF Grown, Pairs

LEMMA ConnsStep ==
    ASSUME \A r \in Requests : req'[r].conn \in {NoRow} \cup Conns
    PROVE  Conns' \subseteq Conns \cup ({row'} \ {NoRow})
BY DEF Conns

\* The row is as it was, or gone.
OldRow == row' \in {row, NoRow} /\ writes' = writes

LEMMA VersionsOld ==
    ASSUME Inv, OldRow, Grown, \A r \in Requests : req'[r].conn \in {NoRow} \cup Conns
    PROVE  Versions' /\ Conns' \subseteq Conns
<1>1. Conns' \subseteq Conns
  BY ConnsStep DEF OldRow, Conns
<1>2. \A c \in Conns' : Known(c)
  BY <1>1 DEF Inv, Versions
<1>3. \A c \in Conns' : c \in Row /\ c.pair <= last' /\ c.ver <= writes'
                        /\ issued'[c.pair].seller = c.seller
  BY <1>2, KnownGrows, StateIs DEF OldRow
<1>4. \A c, d \in Conns' : c.ver = d.ver \/ c.pair = d.pair => c = d
  BY <1>1 DEF Inv, Versions
<1>5. row' # NoRow => row'.ver = writes'
  BY DEF OldRow, Inv, Versions
<1> QED
  BY <1>1, <1>3, <1>4, <1>5 DEF Versions, Known

\* A pair nobody has read is saved in the row.
LEMMA VersionsNew ==
    ASSUME Inv, NEW p \in 1 .. last, Fresh(p), SetRow(p, issued[p].seller), SamePairs,
           \A r \in Requests : req'[r].conn \in {NoRow} \cup Conns
    PROVE  /\ Versions' /\ Conns' \subseteq Conns \cup {row'}
           /\ row' \in Row /\ row'.pair = p /\ writes' = writes + 1
<1>1. p \in Pairs /\ issued[p].seller \in Sellers /\ writes + 1 \in Nat
  BY StateIs
<1>2. /\ row' \in Row /\ row'.pair = p /\ row'.ver = writes + 1 /\ row'.seller = issued[p].seller
      /\ writes' = writes + 1
  BY <1>1 DEF SetRow, Row
<1>3. Conns' \subseteq Conns \cup {row'}
  BY ConnsStep
<1>4. \A c \in Conns : /\ Known(c) /\ c \in Row /\ c.pair # p
                       /\ c.ver \in Nat /\ c.ver <= writes
  BY RowIs DEF Inv, Versions, Fresh, Known
<1>5. \A c \in Conns' : c \in Row /\ c.pair <= last' /\ c.ver <= writes'
                        /\ issued'[c.pair].seller = c.seller
  <2> SUFFICES ASSUME NEW c \in Conns'
               PROVE  c \in Row /\ c.pair <= last' /\ c.ver <= writes'
                      /\ issued'[c.pair].seller = c.seller
    OBVIOUS
  <2>1. CASE c \in Conns
    BY <1>2, <1>4, <2>1, KnownGrows, SameGrown, StateIs
  <2>2. CASE c = row'
    BY <1>1, <1>2, <2>2, StateIs DEF SamePairs
  <2> QED
    BY <1>3, <2>1, <2>2
<1>6. \A c, d \in Conns' : c.ver = d.ver \/ c.pair = d.pair => c = d
  <2>1. \A c, d \in Conns : c.ver = d.ver \/ c.pair = d.pair => c = d
    BY DEF Inv, Versions
  <2>2. \A c \in Conns : c.ver # row'.ver /\ c.pair # row'.pair
    BY <1>2, <1>4, StateIs
  <2> QED
    BY <1>3, <2>1, <2>2
<1> QED
  BY <1>2, <1>3, <1>5, <1>6 DEF Versions, Known

LEMMA FitsKept ==
    ASSUME Inv, Grown, faults' \in Nat, faults <= faults', NEW r \in Requests, req'[r] = req[r],
           old' = old
    PROVE  Fits(req[r])'
<1> DEFINE l == req[r]
<1>1. l.got \in 0 .. MaxPairs /\ l.token \in 0 .. MaxPairs /\ l.tries \in Nat
  BY LocalIs
<1>2. Fits(l)
  BY DEF Inv
<1>3. l.pc \in Refreshing /\ l.got # 0 => l.got \in 1 .. last
  BY <1>1, <1>2, StateIs, TokenAssumption DEF Fits, Holds, Refreshing
<1>4. last \in Nat /\ last' \in Nat /\ last <= last' /\ faults \in Nat
  BY StateIs, TokenAssumption DEF Grown, Pairs
<1>5. \A p \in 1 .. last : issued'[p] = issued[p] /\ p \in 1 .. last'
  BY <1>4 DEF Grown
<1>6. l.pc = "save" => l.tries <= faults'
  BY <1>1, <1>2, <1>4 DEF Fits, Holds, Refreshing
<1>7. l.pc \in Refreshing /\ l.got # 0 =>
          /\ l.got <= last' /\ issued'[l.got].seller = l.conn.seller
          /\ l.got # l.conn.pair /\ l.got \notin old'
  BY <1>2, <1>3, <1>5 DEF Fits, Holds, Refreshing
<1>8. l.pc \in {"operate", "reread"} =>
          l.token \in 1 .. last' /\ issued'[l.token].seller = l.conn.seller
  BY <1>2, <1>5 DEF Fits, Holds, Refreshing
<1>9. (l.pc # "idle" => l.conn # NoRow) /\ (l.pc = "save" => l.got # 0)
  BY <1>2 DEF Fits, Holds, Refreshing
<1> QED
  BY <1>6, <1>7, <1>8, <1>9 DEF Fits, Holds, Refreshing

\* Nobody starts to save, and the row is as it was or gone.
LEMMA UnsavedOld ==
    ASSUME Inv, OldRow, Conns' \subseteq Conns, UNCHANGED <<usable, connecting>>,
           \A r \in Requests : req'[r].pc = "save" =>
               req[r].pc = "save" /\ req'[r].conn = req[r].conn /\ req'[r].got = req[r].got
    PROVE  Unsaved'
BY DEF Inv, Unsaved, Fresh, OldRow

\* A save makes every other one a conflict.
LEMMA UnsavedNew ==
    ASSUME Inv, NEW p, row'.pair = p, Conns' \subseteq Conns \cup {row'}, writes' = writes + 1,
           usable' = usable, connecting' \in {0, connecting}, connecting' # p,
           \A r \in Requests : req'[r].conn \in {NoRow} \cup Conns
    PROVE  Unsaved'
<1>1. \A r \in Requests : req'[r].conn.ver # writes'
  <2>1. \A c \in {NoRow} \cup Conns : c.ver \in Nat /\ c.ver <= writes
    BY RowIs, StateIs DEF Inv, Versions, Known, NoRow
  <2> QED
    BY <2>1, StateIs
<1>2. connecting' # 0 => connecting' \in usable' /\ \A c \in Conns' : c.pair # connecting'
  BY DEF Inv, Unsaved, Fresh
<1> QED
  BY <1>1, <1>2 DEF Unsaved, Fresh

-----------------------------------------------------------------------------
(* One request goes on alone *)

\* leader' names r at most where it was not named before.
LeadsTo(r, l) ==
    /\ leader' \in [Processes -> Requests \cup {Nobody}]
    /\ \A p \in Processes : leader'[p] # Nobody =>
          \/ leader'[p] = leader[p]
          \/ leader'[p] = r /\ l.pc \in Refreshing /\ ProcessOf[r] = p

WaitsWell(r, l) ==
    l.pc = "wait" =>
        /\ l.on \in Requests /\ req[l.on].pc \in Refreshing
        /\ ProcessOf[l.on] = ProcessOf[r] /\ req[l.on].conn.seller = l.conn.seller

LEMMA WaitsAndLeads ==
    ASSUME Inv, NEW r \in Requests, NEW l \in Local, Set(r, l),
           req[r].pc \in Refreshing => l.pc \in Refreshing /\ l.conn = req[r].conn,
           WaitsWell(r, l), LeadsTo(r, l)
    PROVE  Waits' /\ Leads'
<1>1. /\ req'[r] = l /\ \A q \in Requests \ {r} : req'[q] = req[q]
  BY DEF Set, Inv, TypeOK
<1>2. \A q \in Requests : req[q].pc \in Refreshing =>
          req'[q].pc \in Refreshing /\ req'[q].conn = req[q].conn
  BY <1>1
<1>3. Waits'
  <2> SUFFICES ASSUME NEW q \in Requests, req'[q].pc = "wait"
               PROVE  /\ req'[q].on \in Requests /\ req'[req'[q].on].pc \in Refreshing
                      /\ ProcessOf[req'[q].on] = ProcessOf[q]
                      /\ req'[req'[q].on].conn.seller = req'[q].conn.seller
    BY DEF Waits
  <2>1. CASE q = r
    BY <1>1, <1>2, <2>1 DEF WaitsWell
  <2>2. CASE q # r
    BY <1>1, <1>2, <2>2 DEF Inv, Waits
  <2> QED
    BY <2>1, <2>2
<1>4. Leads'
  <2> SUFFICES ASSUME NEW p \in Processes, leader'[p] # Nobody
               PROVE  /\ leader'[p] \in Requests /\ req'[leader'[p]].pc \in Refreshing
                      /\ ProcessOf[leader'[p]] = p
    BY DEF Leads
  <2>1. CASE leader'[p] = leader[p]
    BY <1>2, <2>1 DEF Inv, Leads
  <2>2. CASE leader'[p] = r /\ l.pc \in Refreshing /\ ProcessOf[r] = p
    BY <1>1, <2>2
  <2> QED
    BY <2>1, <2>2 DEF LeadsTo
<1> QED
  BY <1>3, <1>4

\* Nothing but its locals and the map of refreshes changes.
LEMMA LocalStep ==
    ASSUME Inv, UNCHANGED <<rowVars, pairVars, old, connecting, lost, changes>>,
           faults' \in 0 .. MaxFaults, faults <= faults',
           NEW r \in Requests, NEW l \in Local, Set(r, l),
           l.conn \in {NoRow} \cup Conns, Holds(l), l.pc = "save" => l.tries <= faults',
           l.pc = "save" => req[r].pc = "save" /\ l.conn = req[r].conn /\ l.got = req[r].got,
           req[r].pc \in Refreshing => l.pc \in Refreshing /\ l.conn = req[r].conn,
           WaitsWell(r, l), LeadsTo(r, l)
    PROVE  Inv'
<1>1. /\ req'[r] = l /\ req' \in [Requests -> Local]
      /\ \A q \in Requests \ {r} : req'[q] = req[q]
  BY DEF Set, Inv, TypeOK
<1>2. SamePairs /\ Grown /\ OldRow /\ UNCHANGED <<live, usable, last, issued>>
  BY SameGrown DEF SamePairs, pairVars, OldRow, rowVars
<1>3. \A q \in Requests : req'[q].conn \in {NoRow} \cup Conns
  <2>1. \A q \in Requests : req[q].conn \in {NoRow} \cup Conns
    BY DEF Conns
  <2> QED
    BY <1>1, <2>1
<1>4. Versions' /\ Conns' \subseteq Conns
  BY <1>2, <1>3, VersionsOld
<1>5. faults' \in Nat
  BY TokenAssumption
<1>6. \A q \in Requests : Fits(req[q])'
  <2> SUFFICES ASSUME NEW q \in Requests PROVE Fits(req[q])'
    OBVIOUS
  <2>1. CASE q # r
    BY <1>1, <1>2, <1>5, <2>1, FitsKept
  <2>2. CASE q = r
    BY <1>1, <1>2, <2>2 DEF Fits, Holds, Refreshing
  <2> QED
    BY <2>1, <2>2
<1>7. Unsaved'
  BY <1>1, <1>2, <1>4, UnsavedOld
<1>8. Waits' /\ Leads'
  BY WaitsAndLeads
<1>9. TypeOK'
  BY <1>1, <1>2 DEF Inv, TypeOK, LeadsTo, rowVars
<1> QED
  BY <1>4, <1>6, <1>7, <1>8, <1>9 DEF Inv

LEMMA FaultIs == ASSUME Inv, Fault PROVE faults' \in 0 .. MaxFaults /\ faults' = faults + 1
                                         /\ faults <= faults'
BY TokenAssumption DEF Inv, TypeOK, Fault

LEMMA NoFaultIs == ASSUME Inv, faults' = faults PROVE faults' \in 0 .. MaxFaults /\ faults <= faults'
BY TokenAssumption DEF Inv, TypeOK

LEMMA SameLeads == ASSUME Inv, leader' = leader, NEW r, NEW l PROVE LeadsTo(r, l)
BY DEF LeadsTo, Inv, TypeOK

\* getOrStartRefresh, for a request that is not refreshing itself.
LEMMA StartStep ==
    ASSUME Inv, NEW r \in Requests, req[r].pc \notin Refreshing, NEW again \in BOOLEAN,
           row # NoRow, GetOrStartRefresh(r, row, again),
           UNCHANGED <<rowVars, pairVars, old, connecting, lost, changes, faults>>
    PROVE  Inv'
<1> DEFINE p == ProcessOf[r]
           local == [Idle EXCEPT !.conn = row, !.again = again]
<1>1. p \in Processes /\ row \in Row /\ row \in Conns
  BY StateIs, TokenAssumption
<1>2. CASE Shared(leader[p], row) /\ leader' = leader
           /\ Set(r, [local EXCEPT !.pc = "wait", !.on = leader[p]])
  <2> DEFINE l == [local EXCEPT !.pc = "wait", !.on = leader[p]]
  <2>1. leader[p] \in Requests /\ req[leader[p]].pc \in Refreshing /\ ProcessOf[leader[p]] = p
        /\ req[leader[p]].conn.seller = row.seller
    BY <1>1, <1>2 DEF Shared, Inv, Leads
  <2>2. l \in Local /\ l.pc = "wait" /\ l.conn = row /\ l.on = leader[p] /\ l.got = 0
    BY <1>1, <2>1, IdleIs DEF Local, Stage
  <2>3. Holds(l) /\ WaitsWell(r, l) /\ l.pc # "save"
    BY <2>1, <2>2 DEF Holds, WaitsWell, Refreshing
  <2> HIDE DEF l
  <2>4. Set(r, l)
    BY <1>2 DEF l
  <2> QED
    BY <1>1, <1>2, <2>2, <2>3, <2>4, SameLeads, NoFaultIs, LocalStep
<1>3. CASE Set(r, [local EXCEPT !.pc = "post"]) /\ leader' = [leader EXCEPT ![p] = r]
  <2> DEFINE l == [local EXCEPT !.pc = "post"]
  <2>1. l \in Local /\ l.pc = "post" /\ l.conn = row /\ l.got = 0
    BY <1>1, IdleIs DEF Local, Stage
  <2>2. Holds(l) /\ WaitsWell(r, l) /\ l.pc # "save" /\ l.pc \in Refreshing
    BY <1>1, <2>1, RowIs DEF Holds, WaitsWell, Refreshing
  <2> HIDE DEF l
  <2>3. LeadsTo(r, l)
    BY <1>1, <1>3, <2>2 DEF LeadsTo, Inv, TypeOK
  <2>4. Set(r, l)
    BY <1>3 DEF l
  <2> QED
    BY <1>1, <2>1, <2>2, <2>3, <2>4, NoFaultIs, LocalStep
<1> QED
  BY <1>2, <1>3 DEF GetOrStartRefresh

LEMMA BeginInv == ASSUME Inv, NEW r \in Requests, Begin(r) PROVE Inv'
<1>1. req[r].pc \notin Refreshing /\ row # NoRow
      /\ UNCHANGED <<rowVars, pairVars, old, connecting, lost, changes, faults>>
  BY DEF Begin, Refreshing
<1>2. CASE GetOrStartRefresh(r, row, FALSE)
  BY <1>1, <1>2, StartStep
<1>3. CASE /\ Set(r, [Idle EXCEPT !.pc = "operate", !.conn = row, !.token = row.pair])
           /\ leader' = leader
  <2> DEFINE l == [Idle EXCEPT !.pc = "operate", !.conn = row, !.token = row.pair]
  <2>1. row \in Row /\ row \in Conns /\ row.pair \in 1 .. last /\ row.pair \in Pairs /\ Known(row)
    BY <1>1, StateIs
  <2>2. l \in Local /\ l.pc = "operate" /\ l.conn = row /\ l.token = row.pair
    <3>1. row.pair \in 0 .. MaxPairs
      BY <2>1, TokenAssumption DEF Pairs
    <3> QED
      BY <2>1, <3>1, IdleIs DEF Local, Stage
  <2>3. Holds(l) /\ WaitsWell(r, l)
    BY <1>1, <2>1, <2>2 DEF Holds, WaitsWell, Known, Refreshing
  <2> HIDE DEF l
  <2>4. Set(r, l)
    BY <1>3 DEF l
  <2> QED
    BY <1>1, <1>3, <2>1, <2>2, <2>3, <2>4, SameLeads, NoFaultIs, LocalStep
<1> QED
  BY <1>2, <1>3 DEF Begin

LEMMA ToIdle ==
    ASSUME Inv, NEW r \in Requests, req[r].pc \notin Refreshing, Set(r, Idle), leader' = leader,
           UNCHANGED <<rowVars, pairVars, old, connecting, lost, changes, faults>>
    PROVE  Inv'
<1>1. Holds(Idle) /\ WaitsWell(r, Idle) /\ Idle.pc # "save"
  BY IdleIs DEF Holds, WaitsWell, Refreshing
<1> QED
  BY <1>1, IdleIs, SameLeads, NoFaultIs, LocalStep

\* A request keeps its conn and what it got, at another stage.
LEMMA GoesOn ==
    ASSUME Inv, NEW r \in Requests, req[r].pc # "idle", NEW l \in Local, Set(r, l),
           l.conn = req[r].conn, leader' = leader, Holds(l), l.pc # "wait",
           l.pc = "save" => req[r].pc = "save" /\ l.got = req[r].got /\ l.tries <= faults',
           req[r].pc \in Refreshing => l.pc \in Refreshing,
           faults' \in 0 .. MaxFaults, faults <= faults',
           UNCHANGED <<rowVars, pairVars, old, connecting, lost, changes>>
    PROVE  Inv'
<1>1. l.conn \in Conns /\ WaitsWell(r, l)
  BY ConnIs DEF WaitsWell
<1> QED
  BY <1>1, SameLeads, LocalStep

LEMMA OperateInv == ASSUME Inv, NEW r \in Requests, Operate(r) PROVE Inv'
<1>1. req[r].pc = "operate" /\ req[r].pc \notin Refreshing /\ leader' = leader
      /\ UNCHANGED <<rowVars, pairVars, old, connecting, lost, changes, faults>>
  BY DEF Operate, Refreshing
<1>2. CASE Set(r, Idle)
  BY <1>1, <1>2, ToIdle
<1>3. CASE Set(r, [req[r] EXCEPT !.pc = "reread"])
  <2> DEFINE l == [req[r] EXCEPT !.pc = "reread"]
  <2>1. l \in Local /\ l.pc = "reread" /\ l.conn = req[r].conn /\ l.token = req[r].token
    BY LocalIs DEF Local, Stage
  <2>2. Holds(l)
    BY <1>1, <2>1 DEF Holds, Inv, Fits, Refreshing
  <2> HIDE DEF l
  <2>3. Set(r, l)
    BY <1>3 DEF l
  <2> QED
    BY <1>1, <2>1, <2>2, <2>3, NoFaultIs, GoesOn
<1> QED
  BY <1>2, <1>3 DEF Operate

LEMMA RereadInv == ASSUME Inv, NEW r \in Requests, Reread(r) PROVE Inv'
<1>1. req[r].pc = "reread" /\ req[r].pc \notin Refreshing /\ req[r].pc # "idle"
      /\ UNCHANGED <<rowVars, pairVars, old, connecting, lost, changes, faults>>
  BY DEF Reread, Refreshing
<1>2. CASE Set(r, Idle) /\ leader' = leader
  BY <1>1, <1>2, ToIdle
<1>3. ASSUME row.seller = req[r].conn.seller PROVE row # NoRow
  <2>1. req[r].conn.seller \in Sellers
    BY <1>1, ConnIs
  <2> QED
    BY <1>3, <2>1, TokenAssumption DEF NoRow
<1>4. CASE /\ row.seller = req[r].conn.seller /\ leader' = leader
           /\ Set(r, [req[r] EXCEPT !.pc = "operate", !.conn = row, !.token = row.pair,
                                    !.again = TRUE])
  <2> DEFINE l == [req[r] EXCEPT !.pc = "operate", !.conn = row, !.token = row.pair, !.again = TRUE]
  <2>1. row \in Row /\ row \in Conns /\ row.pair \in 1 .. last /\ row.pair \in Pairs /\ Known(row)
    BY <1>3, <1>4, StateIs
  <2>2. l \in Local /\ l.pc = "operate" /\ l.conn = row /\ l.token = row.pair
    <3>1. row.pair \in 0 .. MaxPairs
      BY <2>1, TokenAssumption DEF Pairs
    <3> QED
      BY <2>1, <3>1, LocalIs DEF Local, Stage
  <2>3. Holds(l) /\ WaitsWell(r, l)
    BY <1>3, <1>4, <2>1, <2>2 DEF Holds, WaitsWell, Known, Refreshing
  <2> HIDE DEF l
  <2>4. Set(r, l)
    BY <1>4 DEF l
  <2> QED
    BY <1>1, <1>4, <2>1, <2>2, <2>3, <2>4, SameLeads, NoFaultIs, LocalStep
<1>5. CASE row.seller = req[r].conn.seller /\ GetOrStartRefresh(r, row, TRUE)
  BY <1>1, <1>3, <1>5, StartStep
<1> QED
  BY <1>2, <1>4, <1>5 DEF Reread

\* A refresh that goes to look for a replacement.
LEMMA LookUpStep ==
    ASSUME Inv, NEW r \in Requests, req[r].pc \in Refreshing, LookUp(r),
           faults' \in 0 .. MaxFaults, faults <= faults',
           UNCHANGED <<rowVars, pairVars, old, connecting, lost, changes>>
    PROVE  Inv'
<1> DEFINE l == [req[r] EXCEPT !.pc = "lookup", !.tries = 0]
<1>1. l \in Local /\ l.pc = "lookup" /\ l.conn = req[r].conn /\ l.got = req[r].got
  BY LocalIs DEF Local, Stage
<1>2. req[r].pc # "idle" /\ Holds(l)
  BY <1>1 DEF Refreshing, Holds, Inv, Fits
<1> HIDE DEF l
<1>3. Set(r, l) /\ leader' = leader
  BY DEF l, LookUp
<1>4. l.pc \in Refreshing /\ l.pc # "wait" /\ l.pc # "save"
  BY <1>1 DEF Refreshing
<1> QED
  BY <1>1, <1>2, <1>3, <1>4, GoesOn

-----------------------------------------------------------------------------
(* The exchange *)

LEMMA IssueIs ==
    ASSUME Inv, NEW s \in Sellers, NEW parent \in 0 .. MaxPairs, Issue(s, parent)
    PROVE  /\ Grown /\ last' = last + 1 /\ last' \in Pairs
           /\ issued'[last'].seller = s
           /\ usable' = (usable \ {parent}) \cup {last'}
           /\ usable' \subseteq 1 .. last' /\ live' \subseteq 1 .. last' /\ old \subseteq 1 .. last'
<1>1. last \in Nat /\ last < MaxPairs /\ last' = last + 1
  BY StateIs DEF Issue
<1>2. last' \in Pairs /\ last' \notin 1 .. last /\ 1 .. last \subseteq 1 .. last' /\ last' \in 1 .. last'
  BY <1>1, TokenAssumption DEF Pairs
<1>3. issued' = [issued EXCEPT ![last'] = [seller |-> s, parent |-> parent]]
      /\ usable' = (usable \ {parent}) \cup {last'}
      /\ live' \in {live \cup {last'}, {last'}}
  BY <1>1 DEF Issue
<1>4. issued' \in [Pairs -> [seller : Sellers, parent : 0 .. MaxPairs]]
      /\ issued'[last'].seller = s /\ \A p \in 1 .. last : issued'[p] = issued[p]
  BY <1>2, <1>3, StateIs
<1>5. usable' \subseteq 1 .. last' /\ live' \subseteq 1 .. last' /\ old \subseteq 1 .. last'
  BY <1>2, <1>3, StateIs
<1>6. last <= last'
  BY <1>1
<1> QED
  BY <1>1, <1>2, <1>3, <1>4, <1>5, <1>6 DEF Grown

\* A pair that waits to be saved outlives an exchange, as nobody has read it.
LEMMA UnsavedIssue ==
    ASSUME Inv, NEW s \in Sellers, NEW parent, parent = 0 \/ \E c \in Conns : c.pair = parent,
           parent \in 0 .. MaxPairs, Issue(s, parent), Conns' \subseteq Conns, writes' = writes,
           NEW p, p \in usable, Fresh(p)
    PROVE  /\ p \in usable' /\ \A c \in Conns' : c.pair # p
           /\ last' \in usable' /\ p # last' /\ \A c \in Conns' : c.pair # last'
<1>1. p \in 1 .. last /\ last' = last + 1 /\ last \in Nat
      /\ usable' = (usable \ {parent}) \cup {last'}
  BY StateIs, IssueIs
<1>2. p # parent
  BY <1>1 DEF Fresh
<1>3. \A c \in Conns : c.pair \in Nat /\ c.pair <= last
  BY RowIs DEF Inv, Versions, Known, Pairs
<1> QED
  BY <1>1, <1>2, <1>3 DEF Fresh

LEMMA NewIsFresh ==
    ASSUME Inv, NEW s \in Sellers, NEW parent \in 0 .. MaxPairs, Issue(s, parent),
           Conns' \subseteq Conns
    PROVE  last' \in usable' /\ \A c \in Conns' : c.pair # last'
<1>1. last' = last + 1 /\ last \in Nat /\ last' \in usable'
  BY StateIs, IssueIs
<1>2. \A c \in Conns : c.pair \in Nat /\ c.pair <= last
  BY RowIs DEF Inv, Versions, Known, Pairs
<1> QED
  BY <1>1, <1>2

\* An exchange that took place, whether or not its answer came.
LEMMA ExchangeStep ==
    ASSUME Inv, NEW r \in Requests, req[r].pc = "post", Issue(req[r].conn.seller, req[r].conn.pair),
           NEW l \in Local, Set(r, l), l.conn = req[r].conn, leader' = leader,
           \/ l.pc = "save" /\ l.got = last + 1 /\ l.tries = 0
           \/ l.pc = "lookup" /\ l.got = req[r].got,
           lost' \in BOOLEAN, faults' \in 0 .. MaxFaults, faults <= faults',
           UNCHANGED <<rowVars, old, connecting, changes>>
    PROVE  Inv'
<1> DEFINE conn == req[r].conn
<1>1. /\ req'[r] = l /\ req' \in [Requests -> Local]
      /\ \A q \in Requests \ {r} : req'[q] = req[q]
  BY DEF Set, Inv, TypeOK
<1>2. /\ conn \in Conns /\ conn # NoRow /\ conn.seller \in Sellers /\ conn.pair \in 1 .. last
      /\ conn.pair \in 0 .. MaxPairs
  BY ConnIs, StateIs, TokenAssumption, RowIs DEF Pairs
<1>3. /\ Grown /\ last' = last + 1 /\ last' \in Pairs /\ last \in Nat
      /\ issued'[last'].seller = conn.seller
      /\ usable' \subseteq 1 .. last' /\ live' \subseteq 1 .. last' /\ old \subseteq 1 .. last'
  BY <1>2, IssueIs, StateIs
<1>4. OldRow /\ writes' = writes /\ old' = old /\ connecting' = connecting
  BY DEF OldRow, rowVars
<1>5. \A q \in Requests : req'[q].conn \in {NoRow} \cup Conns
  <2>1. \A q \in Requests : req[q].conn \in {NoRow} \cup Conns
    BY DEF Conns
  <2> QED
    BY <1>1, <2>1
<1>6. Versions' /\ Conns' \subseteq Conns
  BY <1>3, <1>4, <1>5, VersionsOld
<1>7. faults' \in Nat
  BY TokenAssumption
<1>8. \A q \in Requests : Fits(req[q])'
  <2> SUFFICES ASSUME NEW q \in Requests PROVE Fits(req[q])'
    OBVIOUS
  <2>1. CASE q # r
    BY <1>1, <1>3, <1>4, <1>7, <2>1, FitsKept
  <2>2. CASE q = r /\ l.pc = "save" /\ l.got = last + 1 /\ l.tries = 0
    <3>1. last + 1 # conn.pair /\ last + 1 \notin old /\ last + 1 # 0 /\ last + 1 <= last'
      BY <1>2, <1>3, StateIs
    <3> QED
      BY <1>1, <1>2, <1>3, <1>4, <1>7, <2>2, <3>1 DEF Fits, Holds, Refreshing
  <2>3. CASE q = r /\ l.pc = "lookup" /\ l.got = req[r].got
    <3>1. Holds(req[r]) /\ req[r].got \in 0 .. MaxPairs
      BY LocalIs DEF Inv, Fits
    <3>2. req[r].got # 0 =>
            /\ req[r].got <= last' /\ issued'[req[r].got].seller = conn.seller
            /\ req[r].got # conn.pair /\ req[r].got \notin old
      <4>1. req[r].got # 0 => req[r].got \in 1 .. last
        BY <1>3, <3>1, TokenAssumption DEF Holds, Refreshing
      <4> QED
        BY <1>3, <3>1, <4>1 DEF Holds, Refreshing, Grown
    <3> QED
      BY <1>1, <1>2, <1>4, <2>3, <3>2 DEF Fits, Holds, Refreshing
  <2> QED
    BY <1>1, <2>1, <2>2, <2>3
<1>9. Unsaved'
  <2>1. connecting # 0 => connecting \in usable' /\ \A c \in Conns' : c.pair # connecting
    BY <1>2, <1>4, <1>6, UnsavedIssue DEF Inv, Unsaved
  <2>2. last' \in usable' /\ (\A c \in Conns' : c.pair # last') /\ last' # connecting
    BY <1>2, <1>3, <1>6, NewIsFresh, StateIs
  <2>3. ASSUME NEW q \in Requests, req'[q].pc = "save", req'[q].conn.ver = writes'
        PROVE  /\ req'[q].got \in usable' /\ req'[q].got # connecting
               /\ \A c \in Conns' : c.pair # req'[q].got
    <3>1. CASE q = r
      BY <1>1, <1>3, <2>2, <2>3, <3>1
    <3>2. CASE q # r
      <4>1. req'[q] = req[q] /\ req[q].pc = "save" /\ req[q].conn.ver = writes
        BY <1>1, <1>4, <2>3, <3>2
      <4>2. req[q].got \in usable /\ Fresh(req[q].got) /\ req[q].got # connecting
        BY <4>1 DEF Inv, Unsaved
      <4> QED
        BY <1>2, <1>4, <1>6, <4>1, <4>2, UnsavedIssue
    <3> QED
      BY <3>1, <3>2
  <2> QED
    BY <1>4, <2>1, <2>3 DEF Unsaved, Fresh
<1>10. Waits' /\ Leads'
  <2>1. l.pc \in Refreshing /\ WaitsWell(r, l) /\ LeadsTo(r, l)
    BY SameLeads DEF Refreshing, WaitsWell
  <2> QED
    BY <2>1, WaitsAndLeads
<1>11. TypeOK'
  <2>1. connecting' \in 0 .. last'
    BY <1>3, <1>4, StateIs
  <2>2. row' = row /\ writes' = writes /\ leader' = leader /\ old' = old /\ changes' = changes
    BY DEF rowVars
  <2>3. issued' \in [Pairs -> [seller : Sellers, parent : 0 .. MaxPairs]]
    BY <1>3 DEF Grown
  <2> QED
    BY <1>1, <1>3, <2>1, <2>2, <2>3 DEF Inv, TypeOK
<1> QED
  BY <1>6, <1>8, <1>9, <1>10, <1>11 DEF Inv

LEMMA ExchangeInv == ASSUME Inv, NEW r \in Requests, Exchange(r) PROVE Inv'
<1> DEFINE conn == req[r].conn
           save == [req[r] EXCEPT !.pc = "save", !.got = last + 1, !.tries = 0]
           lookup == [req[r] EXCEPT !.pc = "lookup", !.tries = 0]
<1>1. /\ req[r].pc = "post" /\ req[r].pc \in Refreshing
      /\ UNCHANGED <<rowVars, old, connecting, changes>>
  BY DEF Exchange, Refreshing
<1>2. CASE /\ Issue(conn.seller, conn.pair) /\ Set(r, save) /\ UNCHANGED <<leader, lost, faults>>
  <2>1. last + 1 \in 0 .. MaxPairs
    BY <1>2, StateIs, TokenAssumption DEF Issue
  <2>2. save \in Local /\ save.pc = "save" /\ save.conn = conn /\ save.got = last + 1
        /\ save.tries = 0
    BY <2>1, LocalIs DEF Local, Stage
  <2>3. lost' \in BOOLEAN /\ faults' \in 0 .. MaxFaults /\ faults <= faults'
    BY <1>2, NoFaultIs DEF Inv, TypeOK
  <2> HIDE DEF save
  <2> QED
    BY <1>1, <1>2, <2>2, <2>3, ExchangeStep
<1>3. CASE LookUp(r) /\ UNCHANGED <<pairVars, lost>> /\ (Fault \/ faults' = faults)
  <2>1. faults' \in 0 .. MaxFaults /\ faults <= faults'
    BY <1>3, NoFaultIs, FaultIs
  <2> QED
    BY <1>1, <1>3, <2>1, LookUpStep
<1>4. CASE Fault /\ Issue(conn.seller, conn.pair) /\ LookUp(r) /\ lost' = TRUE
  <2>1. lookup \in Local /\ lookup.pc = "lookup" /\ lookup.conn = conn /\ lookup.got = req[r].got
    BY LocalIs DEF Local, Stage
  <2>2. lost' \in BOOLEAN /\ faults' \in 0 .. MaxFaults /\ faults <= faults'
    BY <1>4, FaultIs
  <2>3. Set(r, lookup) /\ leader' = leader
    BY <1>4 DEF LookUp
  <2> HIDE DEF lookup
  <2> QED
    BY <1>1, <1>4, <2>1, <2>2, <2>3, ExchangeStep
<1> QED
  BY <1>2, <1>3, <1>4 DEF Exchange

-----------------------------------------------------------------------------
(* The end of a refresh *)

\* Whoever shares it is done or goes on with a token of its account.
LEMMA SettleParts ==
    ASSUME Inv, NEW r \in Requests, req[r].pc \in Refreshing, Entry(r), SamePairs, old' = old,
           faults' \in 0 .. MaxFaults, faults <= faults', req' \in [Requests -> Local],
           \A q \in Requests : IF Settles(r, q) THEN req'[q].pc \in {"idle", "operate"} /\ Fits(req[q])'
                               ELSE req'[q] = req[q]
    PROVE  /\ \A q \in Requests : Fits(req[q])'
           /\ Waits' /\ Leads' /\ leader' \in [Processes -> Requests \cup {Nobody}]
<1>1. faults' \in Nat /\ Grown
  BY TokenAssumption, SameGrown
<1>2. \A q \in Requests : Fits(req[q])'
  BY <1>1, FitsKept
<1>3. \A q \in Requests : req[q].pc \in Refreshing /\ q # r => req'[q] = req[q]
  BY DEF Settles, Refreshing
<1>4. Waits'
  <2> SUFFICES ASSUME NEW q \in Requests, req'[q].pc = "wait"
               PROVE  /\ req'[q].on \in Requests /\ req'[req'[q].on].pc \in Refreshing
                      /\ ProcessOf[req'[q].on] = ProcessOf[q]
                      /\ req'[req'[q].on].conn.seller = req'[q].conn.seller
    BY DEF Waits
  <2>1. ~Settles(r, q) /\ req'[q] = req[q]
    OBVIOUS
  <2>2. req[q].on # r
    BY <2>1 DEF Settles
  <2> QED
    BY <1>3, <2>1, <2>2 DEF Inv, Waits
<1>5. \A p \in Processes : leader'[p] = IF leader[p] = r THEN Nobody ELSE leader[p]
  BY DEF Entry
<1>6. leader' \in [Processes -> Requests \cup {Nobody}]
  BY DEF Entry, Inv, TypeOK
<1>7. Leads'
  <2> SUFFICES ASSUME NEW p \in Processes, leader'[p] # Nobody
               PROVE  /\ leader'[p] \in Requests /\ req'[leader'[p]].pc \in Refreshing
                      /\ ProcessOf[leader'[p]] = p
    BY DEF Leads
  <2>1. leader'[p] = leader[p] /\ leader[p] # r
    BY <1>5
  <2> QED
    BY <1>3, <2>1 DEF Inv, Leads
<1> QED
  BY <1>2, <1>4, <1>6, <1>7

\* What Resolve and Reject leave of the requests they settle.
LEMMA RejectIs ==
    ASSUME Inv, NEW r \in Requests, Reject(r)
    PROVE  /\ Entry(r) /\ req' \in [Requests -> Local]
           /\ \A q \in Requests : req'[q].conn \in {NoRow} \cup Conns
           /\ \A q \in Requests : IF Settles(r, q)
                THEN req'[q].pc \in {"idle", "operate"} /\ Fits(req[q])'
                ELSE req'[q] = req[q]
<1>1. Entry(r) /\ req' = [q \in Requests |-> IF Settles(r, q) THEN Idle ELSE req[q]]
  BY DEF Reject
<1>2. \A q \in Requests : req[q] \in Local /\ req[q].conn \in {NoRow} \cup Conns
  BY LocalIs DEF Conns
<1>3. \A q \in Requests : Settles(r, q) => Fits(req[q])'
  BY <1>1, IdleIs DEF Fits, Holds, Refreshing
<1> QED
  BY <1>1, <1>2, <1>3, IdleIs

LEMMA ResolveIs ==
    ASSUME Inv, NEW r \in Requests, req[r].pc \in Refreshing, SamePairs,
           NEW token \in 1 .. last, issued[token].seller = req[r].conn.seller, Resolve(r, token)
    PROVE  /\ Entry(r) /\ req' \in [Requests -> Local]
           /\ \A q \in Requests : req'[q].conn \in {NoRow} \cup Conns
           /\ \A q \in Requests : IF Settles(r, q)
                THEN req'[q].pc \in {"idle", "operate"} /\ Fits(req[q])'
                ELSE req'[q] = req[q]
<1> DEFINE Goes(q) == [Idle EXCEPT !.pc = "operate", !.conn = req[q].conn,
                                   !.token = token, !.again = req[q].again]
<1>1. Entry(r) /\ req' = [q \in Requests |-> IF Settles(r, q) THEN Goes(q) ELSE req[q]]
  BY DEF Resolve
<1>2. \A q \in Requests : req[q] \in Local /\ req[q].conn \in {NoRow} \cup Conns
  BY LocalIs DEF Conns
<1>3. token \in 0 .. MaxPairs
  BY StateIs, TokenAssumption DEF Pairs
<1>4. \A q \in Requests : /\ Goes(q) \in Local /\ Goes(q).pc = "operate"
                          /\ Goes(q).conn = req[q].conn /\ Goes(q).token = token
  <2> SUFFICES ASSUME NEW q \in Requests
               PROVE  /\ Goes(q) \in Local /\ Goes(q).pc = "operate"
                      /\ Goes(q).conn = req[q].conn /\ Goes(q).token = token
    OBVIOUS
  <2>1. req[q].conn \in Row \cup {NoRow} /\ req[q].again \in BOOLEAN
    BY LocalIs
  <2> QED
    BY <1>3, <2>1, IdleIs DEF Local, Stage
<1>5. \A q \in Requests : Settles(r, q) =>
          req[q].conn # NoRow /\ issued[token].seller = req[q].conn.seller
  BY ConnIs, RowIs DEF Settles, Inv, Waits, Refreshing
<1>6. \A q \in Requests : Settles(r, q) => req'[q] = Goes(q)
  BY <1>1
<1>7. \A q \in Requests : Settles(r, q) => Fits(req[q])'
  <2> SUFFICES ASSUME NEW q \in Requests, Settles(r, q) PROVE Fits(req[q])'
    OBVIOUS
  <2>1. req'[q].pc = "operate" /\ req'[q].conn = req[q].conn /\ req'[q].token = token
    BY <1>4, <1>6
  <2> QED
    BY <1>5, <2>1 DEF Fits, Holds, Refreshing, SamePairs
<1> HIDE DEF Goes
<1> QED
  BY <1>1, <1>2, <1>4, <1>7

\* A refresh that ends without a write of the row.
LEMMA SettleStep ==
    ASSUME Inv, NEW r \in Requests, req[r].pc \in Refreshing, Entry(r),
           req' \in [Requests -> Local],
           \A q \in Requests : req'[q].conn \in {NoRow} \cup Conns,
           \A q \in Requests : IF Settles(r, q) THEN req'[q].pc \in {"idle", "operate"} /\ Fits(req[q])'
                               ELSE req'[q] = req[q],
           faults' \in 0 .. MaxFaults, faults <= faults',
           UNCHANGED <<rowVars, pairVars, old, connecting, lost, changes>>
    PROVE  Inv'
<1>1. SamePairs /\ OldRow /\ Grown /\ old' = old /\ UNCHANGED <<usable, connecting>>
  BY SameGrown DEF SamePairs, pairVars, OldRow, rowVars
<1>2. Versions' /\ Conns' \subseteq Conns
  BY <1>1, VersionsOld
<1>3. /\ \A q \in Requests : Fits(req[q])'
      /\ Waits' /\ Leads' /\ leader' \in [Processes -> Requests \cup {Nobody}]
  BY <1>1, SettleParts
<1>4. \A q \in Requests : req'[q].pc = "save" => req'[q] = req[q]
  OBVIOUS
<1>5. Unsaved'
  BY <1>1, <1>2, <1>4, UnsavedOld
<1>6. TypeOK'
  BY <1>1, <1>3 DEF Inv, TypeOK, rowVars, pairVars
<1> QED
  BY <1>2, <1>3, <1>5, <1>6 DEF Inv

LEMMA UnchangedIs ==
    ASSUME Inv, NEW r \in Requests, req[r].pc = "save", UnchangedSince(req[r].conn)
    PROVE  /\ row # NoRow /\ req[r].conn = row
           /\ req[r].got \in 1 .. last /\ req[r].got \in usable /\ Fresh(req[r].got)
           /\ req[r].got # connecting /\ issued[req[r].got].seller = req[r].conn.seller
<1>1. /\ req[r].conn \in Conns /\ req[r].conn.seller \in Sellers /\ row.seller = req[r].conn.seller
      /\ row.ver = req[r].conn.ver
  BY ConnIs DEF UnchangedSince
<1>2. row # NoRow
  BY <1>1, TokenAssumption DEF NoRow
<1>3. row \in Conns /\ row.ver = writes
  BY <1>2, StateIs
<1>4. req[r].conn = row
  BY <1>1, <1>3 DEF Inv, Versions
<1>5. req[r].got \in usable /\ Fresh(req[r].got) /\ req[r].got # connecting
  BY <1>1, <1>3 DEF Inv, Unsaved
<1>6. issued[req[r].got].seller = req[r].conn.seller
  BY DEF Inv, Fits, Holds, Refreshing
<1> QED
  BY <1>2, <1>4, <1>5, <1>6, StateIs

\* The pair of a refresh is saved, and its answer comes or not.
LEMMA SavedStep ==
    ASSUME Inv, NEW r \in Requests, req[r].pc = "save", UnchangedSince(req[r].conn),
           SetRow(req[r].got, req[r].conn.seller), req' \in [Requests -> Local],
           \A q \in Requests : req'[q].conn \in {NoRow} \cup Conns,
           \A q \in Requests : Fits(req[q])', Waits', Leads',
           leader' \in [Processes -> Requests \cup {Nobody}], faults' \in 0 .. MaxFaults,
           UNCHANGED <<pairVars, old, connecting, lost, changes>>
    PROVE  Inv'
<1> DEFINE p == req[r].got
<1>1. /\ p \in 1 .. last /\ p \in usable /\ Fresh(p) /\ p # connecting
      /\ issued[p].seller = req[r].conn.seller
  BY UnchangedIs
<1>2. SamePairs /\ UNCHANGED <<usable, connecting>>
  BY DEF SamePairs, pairVars
<1>3. /\ Versions' /\ Conns' \subseteq Conns \cup {row'}
      /\ row' \in Row /\ row'.pair = p /\ writes' = writes + 1
  BY <1>1, <1>2, VersionsNew
<1>4. Unsaved'
  BY <1>1, <1>2, <1>3, UnsavedNew
<1>5. TypeOK'
  BY <1>3, StateIs DEF Inv, TypeOK, pairVars
<1> QED
  BY <1>3, <1>4, <1>5 DEF Inv

LEMMA SaveInv == ASSUME Inv, NEW r \in Requests, Save(r) PROVE Inv'
<1> DEFINE conn == req[r].conn
           tried == req[r].tries + 1
           l == [req[r] EXCEPT !.tries = tried]
<1>1. /\ req[r].pc = "save" /\ req[r].pc \in Refreshing /\ req[r].pc # "idle"
      /\ UNCHANGED <<pairVars, old, connecting, lost, changes>>
  BY DEF Save, Refreshing
<1>2. SamePairs /\ old' = old /\ Grown
  BY <1>1, SameGrown DEF SamePairs, pairVars
<1>3. CASE /\ UnchangedSince(conn) /\ SetRow(req[r].got, conn.seller)
           /\ Resolve(r, req[r].got) /\ faults' = faults
  <2>1. req[r].got \in 1 .. last /\ issued[req[r].got].seller = conn.seller
    BY <1>1, <1>3, UnchangedIs
  <2>2. faults' \in 0 .. MaxFaults /\ faults <= faults'
    BY <1>3, NoFaultIs
  <2>3. /\ Entry(r) /\ req' \in [Requests -> Local]
        /\ \A q \in Requests : req'[q].conn \in {NoRow} \cup Conns
        /\ \A q \in Requests : IF Settles(r, q)
             THEN req'[q].pc \in {"idle", "operate"} /\ Fits(req[q])' ELSE req'[q] = req[q]
    BY <1>1, <1>2, <1>3, <2>1, ResolveIs
  <2>4. /\ \A q \in Requests : Fits(req[q])'
        /\ Waits' /\ Leads' /\ leader' \in [Processes -> Requests \cup {Nobody}]
    BY <1>1, <1>2, <2>2, <2>3, SettleParts
  <2> QED
    BY <1>1, <1>3, <2>2, <2>3, <2>4, SavedStep
<1>4. CASE ~UnchangedSince(conn) /\ Conflict(r) /\ UNCHANGED <<rowVars, faults>>
  BY <1>1, <1>4, NoFaultIs, LookUpStep DEF Conflict
<1>5. l \in Local /\ l.pc = "save" /\ l.conn = conn /\ l.got = req[r].got /\ l.tries = tried
  BY <1>1, LocalIs DEF Local
<1>6. ASSUME Fault PROVE faults' \in 0 .. MaxFaults /\ faults <= faults' /\ tried <= faults'
  <2>1. req[r].tries \in Nat /\ req[r].tries <= faults
    BY <1>1, LocalIs DEF Inv, Fits
  <2> QED
    BY <1>6, <2>1, FaultIs, StateIs
<1>7. Holds(l)
  BY <1>1, <1>5 DEF Inv, Fits, Holds, Refreshing
<1> HIDE DEF l
<1>8. CASE Fault /\ UNCHANGED rowVars /\ LookUp(r)
  BY <1>1, <1>6, <1>8, LookUpStep
<1>9. CASE Fault /\ UNCHANGED rowVars /\ Set(r, l) /\ leader' = leader
  BY <1>1, <1>5, <1>6, <1>7, <1>9, GoesOn
<1>10. CASE /\ Fault /\ UnchangedSince(conn) /\ SetRow(req[r].got, conn.seller)
            /\ leader' = leader /\ (LookUp(r) \/ Set(r, l))
  <2>1. PICK k \in Local : /\ Set(r, k) /\ k.conn = conn /\ Holds(k) /\ k.pc \in {"save", "lookup"}
                           /\ k.pc = "save" => k.tries <= faults'
    <3>1. CASE Set(r, l)
      BY <1>5, <1>6, <1>7, <1>10, <3>1
    <3>2. CASE LookUp(r)
      <4> DEFINE k == [req[r] EXCEPT !.pc = "lookup", !.tries = 0]
      <4>1. k \in Local /\ k.pc = "lookup" /\ k.conn = conn /\ k.got = req[r].got
        BY LocalIs DEF Local, Stage
      <4>2. Holds(k)
        BY <1>1, <4>1 DEF Inv, Fits, Holds, Refreshing
      <4>3. Set(r, k)
        BY <3>2 DEF LookUp
      <4> HIDE DEF k
      <4> QED
        BY <4>1, <4>2, <4>3
    <3> QED
      BY <1>10, <3>1, <3>2
  <2>2. /\ req'[r] = k /\ req' \in [Requests -> Local]
        /\ \A q \in Requests \ {r} : req'[q] = req[q]
    BY <2>1 DEF Set, Inv, TypeOK
  <2>3. \A q \in Requests : req'[q].conn \in {NoRow} \cup Conns
    <3>1. \A q \in Requests : req[q].conn \in {NoRow} \cup Conns
      BY DEF Conns
    <3> QED
      BY <2>1, <2>2, <3>1
  <2>4. faults' \in 0 .. MaxFaults /\ faults <= faults' /\ faults' \in Nat
    BY <1>6, <1>10, TokenAssumption
  <2>5. \A q \in Requests : Fits(req[q])'
    <3> SUFFICES ASSUME NEW q \in Requests PROVE Fits(req[q])'
      OBVIOUS
    <3>1. CASE q # r
      BY <1>2, <2>2, <2>4, <3>1, FitsKept
    <3>2. CASE q = r
      BY <1>2, <2>1, <2>2, <3>2 DEF Fits, Holds, SamePairs
    <3> QED
      BY <3>1, <3>2
  <2>6. Waits' /\ Leads'
    <3>1. k.pc \in Refreshing /\ WaitsWell(r, k) /\ LeadsTo(r, k)
      BY <1>10, <2>1, SameLeads DEF Refreshing, WaitsWell
    <3> QED
      BY <2>1, <3>1, WaitsAndLeads
  <2>7. leader' \in [Processes -> Requests \cup {Nobody}]
    BY <1>10 DEF Inv, TypeOK
  <2> QED
    BY <1>1, <1>10, <2>2, <2>3, <2>4, <2>5, <2>6, <2>7, SavedStep
<1>11. LookUp(r) => leader' = leader
  BY DEF LookUp
<1> QED
  BY <1>3, <1>4, <1>8, <1>9, <1>10, <1>11 DEF Save, l

LEMMA FindReplacementInv == ASSUME Inv, NEW r \in Requests, FindReplacement(r) PROVE Inv'
<1> DEFINE tried == req[r].tries + 1
           l == [req[r] EXCEPT !.tries = tried]
<1>1. /\ req[r].pc = "lookup" /\ req[r].pc \in Refreshing /\ req[r].pc # "idle"
      /\ UNCHANGED <<rowVars, pairVars, old, connecting, lost, changes>> /\ SamePairs
  BY DEF FindReplacement, Refreshing, SamePairs, pairVars
<1>2. faults' \in 0 .. MaxFaults /\ faults <= faults'
  BY NoFaultIs, FaultIs DEF FindReplacement
<1>3. CASE Reject(r)
  BY <1>1, <1>2, <1>3, RejectIs, SettleStep
<1>4. CASE ~Foreign(req[r].conn) /\ row # NoRow /\ Resolve(r, row.pair)
  <2>1. row.pair \in 1 .. last /\ issued[row.pair].seller = req[r].conn.seller
    BY <1>4, StateIs DEF Foreign, Known
  <2> QED
    BY <1>1, <1>2, <1>4, <2>1, ResolveIs, SettleStep
<1>5. CASE Set(r, l) /\ leader' = leader
  <2>1. l \in Local /\ l.pc = "lookup" /\ l.conn = req[r].conn /\ l.got = req[r].got
    BY <1>1, LocalIs DEF Local
  <2>2. Holds(l)
    BY <1>1, <2>1 DEF Inv, Fits, Holds, Refreshing
  <2>3. Set(r, l)
    BY <1>5
  <2> HIDE DEF l
  <2> QED
    BY <1>1, <1>2, <1>5, <2>1, <2>2, <2>3, GoesOn
<1> QED
  BY <1>3, <1>4, <1>5 DEF FindReplacement

-----------------------------------------------------------------------------
(* The user, Mercado Libre and the processes *)

\* Requests and refreshes stay where they are.
LEMMA SameRequests ==
    ASSUME Inv, UNCHANGED <<req, leader>>
    PROVE  /\ Waits' /\ Leads'
           /\ \A q \in Requests : req'[q].conn \in {NoRow} \cup Conns
BY DEF Inv, Waits, Leads, Conns

LEMMA ExchangeCodeInv == ASSUME Inv, NEW s \in Sellers, ExchangeCode(s) PROVE Inv'
<1>1. /\ connecting = 0 /\ Issue(s, 0) /\ connecting' = last + 1
      /\ UNCHANGED <<rowVars, old, req, leader, lost, faults>>
  BY DEF ExchangeCode
<1>2. /\ Grown /\ last' = last + 1 /\ last' \in Pairs /\ last \in Nat
      /\ usable' \subseteq 1 .. last' /\ live' \subseteq 1 .. last' /\ old \subseteq 1 .. last'
  BY <1>1, IssueIs, StateIs, TokenAssumption
<1>3. OldRow /\ writes' = writes /\ old' = old /\ req' = req
  BY <1>1 DEF OldRow, rowVars
<1>4. Waits' /\ Leads' /\ \A q \in Requests : req'[q].conn \in {NoRow} \cup Conns
  BY <1>1, SameRequests
<1>5. Versions' /\ Conns' \subseteq Conns
  BY <1>2, <1>3, <1>4, VersionsOld
<1>6. \A q \in Requests : Fits(req[q])'
  BY <1>1, <1>2, <1>3, StateIs, FitsKept
<1>7. 0 \in 0 .. MaxPairs
  BY TokenAssumption
<1>8. Unsaved'
  <2>1. last' \in usable' /\ \A c \in Conns' : c.pair # last'
    BY <1>1, <1>5, <1>7, NewIsFresh
  <2>2. ASSUME NEW q \in Requests, req'[q].pc = "save", req'[q].conn.ver = writes'
        PROVE  /\ req'[q].got \in usable' /\ req'[q].got # connecting'
               /\ \A c \in Conns' : c.pair # req'[q].got
    <3>1. req'[q] = req[q] /\ req[q].pc = "save" /\ req[q].conn.ver = writes
      BY <1>3, <2>2
    <3>2. req[q].got \in usable /\ Fresh(req[q].got)
      BY <3>1 DEF Inv, Unsaved
    <3> QED
      BY <1>1, <1>2, <1>3, <1>5, <1>7, <3>1, <3>2, UnsavedIssue
  <2> QED
    BY <1>1, <1>2, <2>1, <2>2 DEF Unsaved, Fresh
<1>9. TypeOK'
  <2>1. connecting' \in 0 .. last' /\ changes' \in 0 .. MaxChanges
    BY <1>1, <1>2, TokenAssumption DEF ExchangeCode, Change, Inv, TypeOK
  <2>2. issued' \in [Pairs -> [seller : Sellers, parent : 0 .. MaxPairs]]
    BY <1>2 DEF Grown
  <2> QED
    BY <1>1, <1>2, <2>1, <2>2 DEF Inv, TypeOK, rowVars
<1> QED
  BY <1>4, <1>5, <1>6, <1>8, <1>9 DEF Inv

LEMMA SaveTokensInv == ASSUME Inv, SaveTokens PROVE Inv'
<1>1. /\ connecting # 0 /\ SetRow(connecting, issued[connecting].seller) /\ connecting' = 0
      /\ UNCHANGED <<pairVars, old, req, leader, lost, changes, faults>>
  BY DEF SaveTokens
<1>2. connecting \in 1 .. last /\ Fresh(connecting)
  BY <1>1, StateIs DEF Inv, Unsaved
<1>3. SamePairs /\ Grown /\ usable' = usable /\ old' = old /\ req' = req
  BY <1>1, SameGrown DEF SamePairs, pairVars
<1>4. Waits' /\ Leads' /\ \A q \in Requests : req'[q].conn \in {NoRow} \cup Conns
  BY <1>1, SameRequests
<1>5. /\ Versions' /\ Conns' \subseteq Conns \cup {row'}
      /\ row' \in Row /\ row'.pair = connecting /\ writes' = writes + 1
  BY <1>1, <1>2, <1>3, <1>4, VersionsNew
<1>6. \A q \in Requests : Fits(req[q])'
  BY <1>1, <1>3, StateIs, FitsKept
<1>7. Unsaved'
  BY <1>1, <1>3, <1>4, <1>5, UnsavedNew
<1>8. TypeOK'
  BY <1>1, <1>5, StateIs DEF Inv, TypeOK, pairVars
<1> QED
  BY <1>4, <1>5, <1>6, <1>7, <1>8 DEF Inv

LEMMA DisconnectInv == ASSUME Inv, Disconnect PROVE Inv'
<1>1. /\ row' = NoRow /\ Change
      /\ UNCHANGED <<writes, pairVars, old, req, leader, connecting, lost, faults>>
  BY DEF Disconnect
<1>2. SamePairs /\ Grown /\ OldRow /\ UNCHANGED <<usable, connecting>> /\ old' = old /\ req' = req
  BY <1>1, SameGrown DEF SamePairs, pairVars, OldRow
<1>3. Waits' /\ Leads' /\ \A q \in Requests : req'[q].conn \in {NoRow} \cup Conns
  BY <1>1, SameRequests
<1>4. Versions' /\ Conns' \subseteq Conns
  BY <1>2, <1>3, VersionsOld
<1>5. \A q \in Requests : Fits(req[q])'
  BY <1>1, <1>2, StateIs, FitsKept
<1>6. Unsaved'
  BY <1>2, <1>4, UnsavedOld
<1>7. changes' \in 0 .. MaxChanges
  BY <1>1, TokenAssumption DEF Change, Inv, TypeOK
<1>8. TypeOK'
  BY <1>1, <1>7 DEF Inv, TypeOK, pairVars
<1> QED
  BY <1>3, <1>4, <1>5, <1>6, <1>8 DEF Inv

\* An access token does not come close to its end while somebody holds the pair
\* that replaces it.
LEMMA ExpireInv == ASSUME Inv, Expire PROVE Inv'
<1>1. /\ row # NoRow /\ old' = old \cup {row.pair}
      /\ \A r \in Requests : req[r].pc # "idle" => req[r].conn.pair = row.pair
      /\ UNCHANGED <<rowVars, pairVars, req, leader, connecting, lost, changes, faults>>
  BY DEF Expire
<1>2. SamePairs /\ Grown /\ OldRow /\ UNCHANGED <<usable, connecting>> /\ req' = req
      /\ issued' = issued /\ last' = last /\ faults' = faults
  BY <1>1, SameGrown DEF SamePairs, pairVars, OldRow, rowVars
<1>3. Waits' /\ Leads' /\ \A q \in Requests : req'[q].conn \in {NoRow} \cup Conns
  BY <1>1, SameRequests
<1>4. Versions' /\ Conns' \subseteq Conns
  BY <1>2, <1>3, VersionsOld
<1>5. \A q \in Requests : Fits(req[q])'
  <2> SUFFICES ASSUME NEW q \in Requests PROVE Fits(req[q])'
    OBVIOUS
  <2>1. Fits(req[q])
    BY DEF Inv
  <2>2. req[q].pc \in Refreshing => req[q].conn.pair = row.pair
    BY <1>1 DEF Refreshing
  <2> QED
    BY <1>1, <1>2, <2>1, <2>2 DEF Fits, Holds
<1>6. Unsaved'
  BY <1>2, <1>4, UnsavedOld
<1>7. TypeOK'
  BY <1>1, StateIs DEF Inv, TypeOK, pairVars, rowVars
<1> QED
  BY <1>3, <1>4, <1>5, <1>6, <1>7 DEF Inv

LEMMA RevokeInv == ASSUME Inv, Revoke PROVE Inv'
<1>1. /\ live' = live \ {row.pair} /\ Change
      /\ UNCHANGED <<rowVars, issued, last, usable, old, req, leader, connecting, lost, faults>>
  BY DEF Revoke
<1>2. SamePairs /\ Grown /\ OldRow /\ UNCHANGED <<usable, connecting>> /\ old' = old /\ req' = req
  BY <1>1, SameGrown DEF SamePairs, OldRow, rowVars
<1>3. Waits' /\ Leads' /\ \A q \in Requests : req'[q].conn \in {NoRow} \cup Conns
  BY <1>1, SameRequests
<1>4. Versions' /\ Conns' \subseteq Conns
  BY <1>2, <1>3, VersionsOld
<1>5. \A q \in Requests : Fits(req[q])'
  BY <1>1, <1>2, StateIs, FitsKept
<1>6. Unsaved'
  BY <1>2, <1>4, UnsavedOld
<1>7. changes' \in 0 .. MaxChanges
  BY <1>1, TokenAssumption DEF Change, Inv, TypeOK
<1>8. TypeOK'
  BY <1>1, <1>7 DEF Inv, TypeOK, rowVars
<1> QED
  BY <1>3, <1>4, <1>5, <1>6, <1>8 DEF Inv

LEMMA DieInv == ASSUME Inv, NEW p \in Processes, Die(p) PROVE Inv'
<1>1. /\ Fault /\ leader' = [leader EXCEPT ![p] = Nobody] /\ lost' \in BOOLEAN
      /\ req' = [r \in Requests |-> IF ProcessOf[r] = p THEN Idle ELSE req[r]]
      /\ UNCHANGED <<rowVars, pairVars, old, connecting, changes>>
  BY DEF Die, Inv, TypeOK
<1>2. SamePairs /\ Grown /\ OldRow /\ UNCHANGED <<usable, connecting>> /\ old' = old
  BY <1>1, SameGrown DEF SamePairs, pairVars, OldRow, rowVars
<1>3. faults' \in 0 .. MaxFaults /\ faults <= faults' /\ faults' \in Nat
  BY <1>1, FaultIs, TokenAssumption
<1>4. \A q \in Requests : IF ProcessOf[q] = p THEN req'[q] = Idle ELSE req'[q] = req[q]
  BY <1>1
<1>5. \A q \in Requests : req'[q].conn \in {NoRow} \cup Conns
  BY <1>4, IdleIs DEF Conns
<1>6. Versions' /\ Conns' \subseteq Conns
  BY <1>2, <1>5, VersionsOld
<1>7. \A q \in Requests : Fits(req[q])'
  <2> SUFFICES ASSUME NEW q \in Requests PROVE Fits(req[q])'
    OBVIOUS
  <2>1. CASE ProcessOf[q] = p
    BY <1>4, <2>1, IdleIs DEF Fits, Holds, Refreshing
  <2>2. CASE ProcessOf[q] # p
    BY <1>2, <1>3, <1>4, <2>2, FitsKept
  <2> QED
    BY <2>1, <2>2
<1>8. Unsaved'
  <2>1. \A q \in Requests : req'[q].pc = "save" => req'[q] = req[q]
    BY <1>4, IdleIs
  <2> QED
    BY <1>2, <1>6, <2>1, UnsavedOld
<1>9. Waits'
  <2> SUFFICES ASSUME NEW q \in Requests, req'[q].pc = "wait"
               PROVE  /\ req'[q].on \in Requests /\ req'[req'[q].on].pc \in Refreshing
                      /\ ProcessOf[req'[q].on] = ProcessOf[q]
                      /\ req'[req'[q].on].conn.seller = req'[q].conn.seller
    BY DEF Waits
  <2>1. ProcessOf[q] # p /\ req'[q] = req[q]
    BY <1>4, IdleIs
  <2> QED
    BY <1>4, <2>1 DEF Inv, Waits
<1>10. Leads'
  <2> SUFFICES ASSUME NEW n \in Processes, leader'[n] # Nobody
               PROVE  /\ leader'[n] \in Requests /\ req'[leader'[n]].pc \in Refreshing
                      /\ ProcessOf[leader'[n]] = n
    BY DEF Leads
  <2>1. n # p /\ leader'[n] = leader[n]
    BY <1>1 DEF Inv, TypeOK
  <2> QED
    BY <1>4, <2>1 DEF Inv, Leads
<1>11. TypeOK'
  <2>1. req' \in [Requests -> Local]
    BY <1>1, IdleIs, LocalIs
  <2>2. leader' \in [Processes -> Requests \cup {Nobody}]
    BY <1>1 DEF Inv, TypeOK
  <2> QED
    BY <1>1, <1>3, <2>1, <2>2 DEF Inv, TypeOK, pairVars, rowVars
<1> QED
  BY <1>6, <1>7, <1>8, <1>9, <1>10, <1>11 DEF Inv

-----------------------------------------------------------------------------
(* The theorems *)

LEMMA InvInit == Init => Inv
<1> SUFFICES ASSUME Init PROVE Inv
  OBVIOUS
<1>1. First \in Sellers
  BY TokenAssumption DEF First
<1>2. /\ row = [pair |-> 1, seller |-> First, ver |-> 1]
      /\ issued = [p \in Pairs |-> [seller |-> First, parent |-> 0]]
      /\ last = 1 /\ usable = {1} /\ live = {1} /\ old = {} /\ writes = 1
      /\ req = [r \in Requests |-> Idle] /\ leader = [p \in Processes |-> Nobody]
      /\ connecting = 0 /\ lost = FALSE /\ changes = 0 /\ faults = 0
  BY DEF Init
<1>3. 1 \in Pairs /\ 0 \in 0 .. MaxPairs /\ 0 \in 0 .. MaxChanges /\ 0 \in 0 .. MaxFaults
      /\ 1 \in 1 .. 1 /\ 0 \in 0 .. 1
  BY TokenAssumption DEF Pairs
<1>4. row \in Row /\ row # NoRow /\ row.pair = 1 /\ row.seller = First /\ row.ver = 1
  BY <1>1, <1>2, <1>3, RowIs DEF Row
<1>5. \A r \in Requests : req[r] = Idle
  BY <1>2
<1>6. Conns = {row}
  BY <1>4, <1>5, IdleIs DEF Conns
<1>7. Versions
  BY <1>2, <1>3, <1>4, <1>6 DEF Versions, Known
<1>8. \A r \in Requests : Fits(req[r])
  BY <1>5, IdleIs DEF Fits, Holds, Refreshing
<1>9. Waits /\ Leads /\ Unsaved
  BY <1>2, <1>5, IdleIs DEF Waits, Leads, Unsaved
<1>10. issued \in [Pairs -> [seller : Sellers, parent : 0 .. MaxPairs]]
  BY <1>1, <1>2, <1>3
<1>11. req \in [Requests -> Local]
  BY <1>2, IdleIs
<1>12. lost \in BOOLEAN
  BY <1>2
<1>13. TypeOK
  BY <1>2, <1>3, <1>4, <1>10, <1>11, <1>12 DEF TypeOK
<1> QED
  BY <1>7, <1>8, <1>9, <1>13 DEF Inv

LEMMA StutterInv == ASSUME Inv, UNCHANGED vars PROVE Inv'
<1>1. UNCHANGED <<row, writes, issued, last, usable, live, old, req, leader, connecting, lost,
                  changes, faults>>
  BY DEF vars, rowVars, pairVars
<1>2. SamePairs /\ Grown /\ OldRow
  BY <1>1, SameGrown DEF SamePairs, OldRow
<1>3. Waits' /\ Leads' /\ \A q \in Requests : req'[q].conn \in {NoRow} \cup Conns
  BY <1>1, SameRequests
<1>4. Versions' /\ Conns' \subseteq Conns
  BY <1>2, <1>3, VersionsOld
<1>5. \A q \in Requests : Fits(req[q])'
  BY <1>1, <1>2, StateIs, FitsKept
<1>6. Unsaved'
  BY <1>1, <1>2, <1>4, UnsavedOld
<1>7. TypeOK'
  BY <1>1 DEF Inv, TypeOK
<1> QED
  BY <1>3, <1>4, <1>5, <1>6, <1>7 DEF Inv

LEMMA InvStep == Inv /\ [Next]_vars => Inv'
BY BeginInv, ExchangeInv, SaveInv, FindReplacementInv, OperateInv, RereadInv, ExchangeCodeInv,
   SaveTokensInv, DisconnectInv, ExpireInv, RevokeInv, DieInv, StutterInv DEF Next, Step

\* Every reachable state of the connection satisfies the inductive invariant.
THEOREM Invariance == Spec => []Inv
BY InvInit, InvStep, PTL DEF Spec

\* The row, the pairs and the locals of requests keep their types.
THEOREM TypeCorrect == Spec => []TypeOK
<1>1. Inv => TypeOK
  BY DEF Inv
<1> QED
  BY <1>1, Invariance, PTL

\* executeWithValidAccessToken never acts for one account with the token of
\* another.
THEOREM RightAccount == Spec => []TokenOfSeller
<1>1. Inv => TokenOfSeller
  BY DEF Inv, Fits, Holds, TokenOfSeller
<1> QED
  BY <1>1, Invariance, PTL

-----------------------------------------------------------------------------
(* The pair that works *)

\* A step that exchanges nothing and ends no save.
LEMMA KeptQuiet ==
    ASSUME PairIsKept, UNCHANGED <<row, usable, lost>>,
           \A r \in Requests : req[r].pc = "save" =>
               req'[r].pc = "save" /\ req'[r].conn = req[r].conn
    PROVE  PairIsKept'
BY DEF PairIsKept

LEMMA KeptExchange ==
    ASSUME Inv, PairIsKept, NEW r \in Requests, Exchange(r)
    PROVE  PairIsKept'
<1> DEFINE conn == req[r].conn
<1>1. req[r].pc = "post" /\ row' = row
  BY DEF Exchange, rowVars
<1>2. \A l : Set(r, l) => req'[r] = l /\ \A q \in Requests \ {r} : req'[q] = req[q]
  BY DEF Set, Inv, TypeOK
<1>3. CASE LookUp(r) /\ UNCHANGED <<pairVars, lost>>
  BY <1>1, <1>2, <1>3, KeptQuiet DEF LookUp, pairVars
<1>4. CASE lost'
  BY <1>4 DEF PairIsKept
<1>5. CASE /\ Issue(conn.seller, conn.pair) /\ lost' = lost
           /\ Set(r, [req[r] EXCEPT !.pc = "save", !.got = last + 1, !.tries = 0])
  <2>1. req'[r].pc = "save" /\ req'[r].conn = conn /\ \A q \in Requests \ {r} : req'[q] = req[q]
    <3> DEFINE l == [req[r] EXCEPT !.pc = "save", !.got = last + 1, !.tries = 0]
    <3>1. l.pc = "save" /\ l.conn = conn
      BY LocalIs DEF Local
    <3>2. Set(r, l)
      BY <1>5
    <3> HIDE DEF l
    <3> QED
      BY <1>2, <3>1, <3>2
  <2>2. ASSUME row # NoRow, row.pair \in usable PROVE row.pair \in usable' \/ conn = row
    <3>1. CASE row.pair = conn.pair
      BY <1>1, <2>2, <3>1, ConnIs, StateIs DEF Inv, Versions
    <3>2. CASE row.pair # conn.pair
      BY <1>5, <2>2, <3>2 DEF Issue
    <3> QED
      BY <3>1, <3>2
  <2> QED
    BY <1>1, <1>5, <2>1, <2>2 DEF PairIsKept
<1> QED
  BY <1>3, <1>4, <1>5 DEF Exchange

\* A save is given up only after more faults than there are, or for a row that
\* has changed.
LEMMA KeptSave ==
    ASSUME Inv, PairIsKept, MaxFaults < SaveTries, NEW r \in Requests, Save(r)
    PROVE  PairIsKept'
<1> DEFINE conn == req[r].conn
           tried == req[r].tries + 1
<1>1. req[r].pc = "save" /\ UNCHANGED pairVars /\ lost' = lost /\ usable' = usable
  BY DEF Save, pairVars
<1>2. CASE UnchangedSince(conn) /\ SetRow(req[r].got, conn.seller)
  <2>1. row'.pair = req[r].got /\ req[r].got \in usable
    BY <1>1, <1>2, UnchangedIs DEF SetRow
  <2> QED
    BY <1>1, <2>1 DEF PairIsKept
<1>3. \A l : Set(r, l) => req'[r] = l /\ \A q \in Requests \ {r} : req'[q] = req[q]
  BY DEF Set, Inv, TypeOK
<1>4. CASE ~UnchangedSince(conn) /\ Conflict(r) /\ UNCHANGED rowVars
  <2>1. row' = row /\ conn # row
    BY <1>4 DEF UnchangedSince, rowVars
  <2>2. \A q \in Requests \ {r} : req'[q] = req[q]
    BY <1>3, <1>4 DEF Conflict, LookUp
  <2> QED
    BY <1>1, <2>1, <2>2 DEF PairIsKept
<1>5. CASE Fault /\ UNCHANGED rowVars /\ ~TriedEnough(tried)
           /\ Set(r, [req[r] EXCEPT !.tries = tried])
  <2>1. req'[r].pc = "save" /\ req'[r].conn = conn
    <3> DEFINE l == [req[r] EXCEPT !.tries = tried]
    <3>1. l.pc = "save" /\ l.conn = conn
      BY <1>1, LocalIs DEF Local
    <3>2. Set(r, l)
      BY <1>5
    <3> HIDE DEF l
    <3> QED
      BY <1>3, <3>1, <3>2
  <2> QED
    BY <1>1, <1>3, <1>5, <2>1, KeptQuiet DEF rowVars
<1>6. ASSUME Fault PROVE ~TriedEnough(tried)
  <2>1. req[r].tries \in Nat /\ req[r].tries <= faults /\ faults < MaxFaults /\ faults \in Nat
    BY <1>1, <1>6, LocalIs, StateIs DEF Inv, Fits, Fault
  <2> QED
    BY <2>1, TokenAssumption DEF TriedEnough
<1> QED
  BY <1>2, <1>4, <1>5, <1>6 DEF Save

LEMMA KeptFind ==
    ASSUME Inv, PairIsKept, NEW r \in Requests, FindReplacement(r)
    PROVE  PairIsKept'
<1>1. req[r].pc = "lookup" /\ UNCHANGED <<row, usable, lost>>
  BY DEF FindReplacement, rowVars, pairVars
<1>2. \A q \in Requests : req[q].pc = "save" => req'[q] = req[q]
  <2> SUFFICES ASSUME NEW q \in Requests, req[q].pc = "save" PROVE req'[q] = req[q]
    OBVIOUS
  <2>1. q # r /\ ~Settles(r, q)
    BY <1>1 DEF Settles
  <2>2. CASE Reject(r) \/ \E token : Resolve(r, token)
    BY <2>1, <2>2 DEF Reject, Resolve
  <2>3. CASE Set(r, [req[r] EXCEPT !.tries = req[r].tries + 1])
    BY <2>1, <2>3 DEF Set, Inv, TypeOK
  <2> QED
    BY <2>2, <2>3 DEF FindReplacement
<1> QED
  BY <1>1, <1>2, KeptQuiet

LEMMA KeptAlone ==
    ASSUME Inv, PairIsKept, NEW r \in Requests, Begin(r) \/ Operate(r) \/ Reread(r)
    PROVE  PairIsKept'
<1>1. req[r].pc # "save" /\ UNCHANGED <<row, usable, lost>>
  BY DEF Begin, Operate, Reread, rowVars, pairVars
<1>2. \E l : Set(r, l)
  BY DEF Begin, Operate, Reread, GetOrStartRefresh
<1>3. \A q \in Requests : req[q].pc = "save" => req'[q] = req[q]
  BY <1>1, <1>2 DEF Set, Inv, TypeOK
<1> QED
  BY <1>1, <1>3, KeptQuiet

LEMMA KeptElsewhere ==
    ASSUME Inv, PairIsKept,
           (\E s \in Sellers : ExchangeCode(s)) \/ (\E p \in Processes : Die(p))
             \/ SaveTokens \/ Disconnect \/ Expire \/ Revoke \/ UNCHANGED vars
    PROVE  PairIsKept'
<1>1. ASSUME NEW s \in Sellers, ExchangeCode(s) PROVE PairIsKept'
  <2>1. row' = row /\ req' = req /\ lost' = lost /\ usable' = (usable \ {0}) \cup {last + 1}
    BY <1>1 DEF ExchangeCode, Issue, rowVars
  <2>2. \A p \in usable : p \in usable'
    BY <2>1, StateIs
  <2> QED
    BY <2>1, <2>2 DEF PairIsKept
<1>2. ASSUME NEW p \in Processes, Die(p) PROVE PairIsKept'
  <2>1. row' = row /\ usable' = usable
        /\ lost' = (lost \/ \E r \in Requests : ProcessOf[r] = p /\ req[r].pc = "save")
        /\ \A r \in Requests : ProcessOf[r] # p => req'[r] = req[r]
    BY <1>2 DEF Die, rowVars, pairVars
  <2>2. CASE \E r \in Requests : ProcessOf[r] = p /\ req[r].pc = "save"
    BY <2>1, <2>2 DEF PairIsKept
  <2>3. CASE ~\E r \in Requests : ProcessOf[r] = p /\ req[r].pc = "save"
    BY <2>1, <2>3 DEF PairIsKept
  <2> QED
    BY <2>2, <2>3
<1>3. CASE SaveTokens
  <2>1. row'.pair = connecting /\ connecting \in usable /\ usable' = usable
    BY <1>3 DEF SaveTokens, SetRow, pairVars, Inv, Unsaved
  <2> QED
    BY <2>1 DEF PairIsKept
<1>4. CASE Disconnect
  BY <1>4 DEF Disconnect, PairIsKept
<1>5. CASE Expire \/ Revoke \/ UNCHANGED vars
  BY <1>5, KeptQuiet DEF Expire, Revoke, vars, rowVars, pairVars
<1> QED
  BY <1>1, <1>2, <1>3, <1>4, <1>5

\* saveRefreshedConnection never leaves the row with a refresh token that was
\* used up, as long as fewer saves fail than it is tried.
THEOREM PairKept ==
    ASSUME MaxFaults < SaveTries
    PROVE  Spec => []PairIsKept
<1>1. Init => PairIsKept
  BY DEF Init, PairIsKept
<1>2. Inv /\ PairIsKept /\ [Next]_vars => PairIsKept'
  BY KeptExchange, KeptSave, KeptFind, KeptAlone, KeptElsewhere DEF Next, Step
<1> QED
  BY <1>1, <1>2, Invariance, PTL DEF Spec

\* Nobody gives up a refresh of which the row holds the pair.
Recognises(r) ==
    /\ req[r].pc \in {"save", "lookup"} /\ req'[r].pc = "idle" /\ faults' = faults
    /\ row # NoRow /\ req[r].got # 0
    => row.pair # req[r].got

LEMMA RecognisesStep ==
    ASSUME Inv, [Next]_vars, NEW r \in Requests
    PROVE  Recognises(r)
<1> SUFFICES ASSUME req[r].pc \in {"save", "lookup"}, req'[r].pc = "idle", faults' = faults,
                    row # NoRow, req[r].got # 0, row.pair = req[r].got
             PROVE  FALSE
  BY DEF Recognises
<1>1. /\ req[r].pc \in Refreshing /\ req[r].pc # "idle" /\ faults \in Nat
      /\ issued[row.pair].seller = req[r].conn.seller
      /\ row.pair # req[r].conn.pair /\ row.pair \notin old
      /\ row.seller = issued[row.pair].seller
  BY StateIs DEF Refreshing, Inv, Fits, Holds, Known
<1>2. ~Fault
  BY <1>1 DEF Fault
<1>3. ASSUME NEW q \in Requests, \E l : Set(q, l) /\ l.pc # "idle" PROVE FALSE
  BY <1>1, <1>3 DEF Set, Inv, TypeOK
<1>4. ASSUME NEW q \in Requests, q # r, \E l : Set(q, l) PROVE FALSE
  BY <1>1, <1>4 DEF Set, Inv, TypeOK
<1>5. ASSUME NEW q \in Requests, (Reject(q) \/ \E token : Resolve(q, token)), q # r PROVE FALSE
  <2>1. ~Settles(q, r)
    BY <1>1, <1>5 DEF Settles, Refreshing
  <2> QED
    BY <1>1, <1>5, <2>1 DEF Reject, Resolve
<1>6. ASSUME NEW q \in Requests, Begin(q) \/ Operate(q) \/ Reread(q) PROVE FALSE
  <2>1. q # r
    BY <1>6 DEF Begin, Operate, Reread
  <2> QED
    BY <1>4, <1>6, <2>1 DEF Begin, Operate, Reread, GetOrStartRefresh
<1>7. ASSUME NEW q \in Requests, LookUp(q) PROVE FALSE
  <2>1. [req[q] EXCEPT !.pc = "lookup", !.tries = 0].pc # "idle"
    BY LocalIs DEF Local
  <2> QED
    BY <1>3, <1>7, <2>1 DEF LookUp
<1>8. ASSUME NEW q \in Requests, Exchange(q) PROVE FALSE
  <2>1. q # r
    BY <1>8 DEF Exchange
  <2> QED
    BY <1>4, <1>7, <1>8, <2>1 DEF Exchange
<1>9. ASSUME NEW q \in Requests, Save(q) PROVE FALSE
  <2>1. CASE Conflict(q)
    BY <1>7, <2>1 DEF Conflict
  <2>2. CASE Resolve(q, req[q].got) /\ q = r
    <3>1. req'[r].pc = "operate"
      BY <2>2, IdleIs DEF Resolve, Settles, Local
    <3> QED
      BY <3>1
  <2>3. CASE Resolve(q, req[q].got) /\ q # r
    BY <1>5, <2>3
  <2> QED
    BY <1>2, <1>9, <2>1, <2>2, <2>3 DEF Save
<1>10. ASSUME NEW q \in Requests, FindReplacement(q) PROVE FALSE
  <2>1. CASE q # r
    BY <1>4, <1>5, <1>10, <2>1 DEF FindReplacement
  <2>2. CASE q = r
    <3>1. ~Foreign(req[r].conn)
      BY <1>1 DEF Foreign
    <3>2. Resolve(r, row.pair)
      BY <1>1, <1>2, <1>10, <2>2, <3>1 DEF FindReplacement
    <3>3. req'[r].pc = "operate"
      BY <3>2, IdleIs DEF Resolve, Settles, Local
    <3> QED
      BY <3>3
  <2> QED
    BY <2>1, <2>2
<1>11. ASSUME req' = req PROVE FALSE
  BY <1>1, <1>11
<1> QED
  BY <1>2, <1>6, <1>8, <1>9, <1>10, <1>11
     DEF Next, Step, ExchangeCode, Die, SaveTokens, Disconnect, Expire, Revoke, vars

\* getConcurrentReplacement recognises the pair that the request itself saved
\* when the answer of the save was lost.
THEOREM OwnSaveRecognised == Spec => OwnSaveIsRecognised
<1>1. Inv /\ [Next]_vars => [\A r \in Requests : Recognises(r)]_vars
  BY RecognisesStep
<1>2. OwnSaveIsRecognised <=> [][\A r \in Requests : Recognises(r)]_vars
  BY PTL DEF OwnSaveIsRecognised, Recognises
<1> QED
  BY <1>1, <1>2, Invariance, PTL DEF Spec

=============================================================================

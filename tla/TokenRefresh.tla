----------------------------- MODULE TokenRefresh -----------------------------
(***************************************************************************)
(* The connection of a user with Mercado Libre: one row with a pair of      *)
(* tokens.  Requests read the row, renew an access token that is about to   *)
(* expire by exchanging the refresh token, which works once, and save the   *)
(* new pair if the row has not changed.  Requests of one process share an   *)
(* exchange; processes, reconnections and disconnections only meet in the   *)
(* row.                                                                      *)
(*                                                                          *)
(* Pairs are numbered in the order Mercado Libre issues them, and ver       *)
(* numbers the writes of the row as updated_at dates them.                  *)
(***************************************************************************)
EXTENDS Naturals

CONSTANTS
    Requests, Processes, ProcessOf,   \* who runs where
    Sellers,                          \* accounts of Mercado Libre
    MaxPairs,                         \* bound: pairs issued; then exchanges are refused
    MaxChanges,                       \* bound: connections, disconnections, revocations
    MaxFaults,                        \* bound: requests that fail or lose their answer
    SaveTries, LookupTries            \* attempts of the save and of the look-up

ASSUME TokenAssumption ==
    /\ ProcessOf \in [Requests -> Processes] /\ "nobody" \notin Requests
    /\ Sellers # {} /\ "none" \notin Sellers
    /\ MaxPairs \in Nat \ {0} /\ MaxChanges \in Nat /\ MaxFaults \in Nat
    /\ SaveTries \in Nat \ {0} /\ LookupTries \in Nat \ {0}

VARIABLES
    row,          \* mercadolibre_tokens of the user, or NoRow
    issued,       \* seller and parent of each pair; parent 0 for an authorization
    last,         \* pairs issued
    usable,       \* pairs whose refresh token has not been exchanged
    live,         \* pairs whose access token Mercado Libre accepts
    old,          \* pairs within TOKEN_REFRESH_MARGIN_MS of expires_at
    writes,       \* writes of the row
    req,          \* stage and locals of each request
    leader,       \* inFlightRefreshes of each process: the request it runs in
    connecting,   \* pair the callback has exchanged and not yet saved, or 0
    lost,         \* an issued pair was lost with its answer or its process
    changes, faults

rowVars == <<row, writes>>
pairVars == <<issued, last, usable, live>>
vars == <<rowVars, pairVars, old, req, leader, connecting, lost, changes, faults>>

-----------------------------------------------------------------------------

Pairs == 1 .. MaxPairs
NoRow == [pair |-> 0, seller |-> "none", ver |-> 0]
Nobody == "nobody"
Row == [pair : Pairs, seller : Sellers, ver : Nat]
Stage == {"idle", "wait", "post", "save", "lookup", "operate", "reread"}
Local == [pc : Stage, conn : Row \cup {NoRow}, token : 0 .. MaxPairs, got : 0 .. MaxPairs,
          tries : Nat, again : BOOLEAN, on : Requests \cup {Nobody}]
Idle == [pc |-> "idle", conn |-> NoRow, token |-> 0, got |-> 0, tries |-> 0,
         again |-> FALSE, on |-> Nobody]

\* The account the user is connected with at first.
First == CHOOSE s \in Sellers : TRUE

Init ==
    /\ row = [pair |-> 1, seller |-> First, ver |-> 1]
    /\ issued = [p \in Pairs |-> [seller |-> First, parent |-> 0]]
    /\ last = 1 /\ usable = {1} /\ live = {1} /\ old = {} /\ writes = 1
    /\ req = [r \in Requests |-> Idle] /\ leader = [p \in Processes |-> Nobody]
    /\ connecting = 0 /\ lost = FALSE /\ changes = 0 /\ faults = 0

Fault == faults < MaxFaults /\ faults' = faults + 1
Change == changes < MaxChanges /\ changes' = changes + 1
Set(r, local) == req' = [req EXCEPT ![r] = local]
SetRow(pair, seller) ==
    row' = [pair |-> pair, seller |-> seller, ver |-> writes + 1] /\ writes' = writes + 1
\* Mercado Libre issues a pair; older access tokens may stop working.
Issue(seller, parent) ==
    /\ last < MaxPairs
    /\ last' = last + 1
    /\ issued' = [issued EXCEPT ![last + 1] = [seller |-> seller, parent |-> parent]]
    /\ usable' = (usable \ {parent}) \cup {last + 1}
    /\ live' \in {live \cup {last + 1}, {last + 1}}

-----------------------------------------------------------------------------
(* Requests                                                                  *)

\* A refresh is shared by requests that read the same refresh token.
Shared(q, conn) ==
    q # Nobody /\ req[q].conn.seller = conn.seller /\ req[q].conn.pair = conn.pair

GetOrStartRefresh(r, conn, again) ==
    LET p == ProcessOf[r]
        local == [Idle EXCEPT !.conn = conn, !.again = again]
    IN IF Shared(leader[p], conn)
         THEN Set(r, [local EXCEPT !.pc = "wait", !.on = leader[p]]) /\ leader' = leader
         ELSE Set(r, [local EXCEPT !.pc = "post"]) /\ leader' = [leader EXCEPT ![p] = r]

Begin(r) ==
    /\ req[r].pc = "idle" /\ row # NoRow
    /\ IF row.pair \in old
         THEN GetOrStartRefresh(r, row, FALSE)
         ELSE /\ Set(r, [Idle EXCEPT !.pc = "operate", !.conn = row, !.token = row.pair])
              /\ leader' = leader
    /\ UNCHANGED <<rowVars, pairVars, old, connecting, lost, changes, faults>>

\* The promise of a refresh settles for its request and for those that share it.
Settles(r, q) == q = r \/ (req[q].pc = "wait" /\ req[q].on = r)
Entry(r) == leader' = [p \in Processes |-> IF leader[p] = r THEN Nobody ELSE leader[p]]

Resolve(r, token) ==
    /\ req' = [q \in Requests |-> IF Settles(r, q)
                 THEN [Idle EXCEPT !.pc = "operate", !.conn = req[q].conn,
                                   !.token = token, !.again = req[q].again]
                 ELSE req[q]]
    /\ Entry(r)

\* Mutant: only the request that started the refresh hears of its failure.
RejectAlone(r) == Set(r, Idle) /\ Entry(r)

Reject(r) ==
    /\ req' = [q \in Requests |-> IF Settles(r, q) THEN Idle ELSE req[q]]
    /\ Entry(r)

LookUp(r) == Set(r, [req[r] EXCEPT !.pc = "lookup", !.tries = 0]) /\ leader' = leader

\* The exchange: refused for a token already used; its answer may be lost.
Exchange(r) ==
    LET conn == req[r].conn IN
    /\ req[r].pc = "post"
    /\ \/ /\ conn.pair \in usable /\ Issue(conn.seller, conn.pair)
          /\ Set(r, [req[r] EXCEPT !.pc = "save", !.got = last + 1, !.tries = 0])
          /\ UNCHANGED <<leader, lost, faults>>
       \/ /\ conn.pair \notin usable \/ last = MaxPairs
          /\ LookUp(r) /\ UNCHANGED <<pairVars, lost, faults>>
       \/ Fault /\ LookUp(r) /\ UNCHANGED <<pairVars, lost>>
       \/ /\ conn.pair \in usable /\ Fault /\ Issue(conn.seller, conn.pair)
          /\ LookUp(r) /\ lost' = TRUE
    /\ UNCHANGED <<rowVars, old, connecting, changes>>

UnchangedSince(conn) == row.seller = conn.seller /\ row.ver = conn.ver

\* Mutant: the save is not repeated.
TriedEnoughOnce(tries) == tries >= 1
TriedEnough(tries) == tries >= SaveTries

\* Mutant: a save that finds the row changed fails at once.
ConflictFails(r) == Reject(r)
Conflict(r) == LookUp(r)

\* saveRefreshedConnection: a compare-and-swap, repeated after an error because
\* its answer may be what was lost.
Save(r) ==
    LET conn == req[r].conn
        tried == req[r].tries + 1
    IN
    /\ req[r].pc = "save"
    /\ \/ /\ UnchangedSince(conn) /\ SetRow(req[r].got, conn.seller)
          /\ Resolve(r, req[r].got) /\ faults' = faults
       \/ ~UnchangedSince(conn) /\ Conflict(r) /\ UNCHANGED <<rowVars, faults>>
       \/ /\ Fault
          /\ \/ UNCHANGED rowVars
             \/ UnchangedSince(conn) /\ SetRow(req[r].got, conn.seller)
          /\ IF TriedEnough(tried) THEN LookUp(r)
             ELSE Set(r, [req[r] EXCEPT !.tries = tried]) /\ leader' = leader
    /\ UNCHANGED <<pairVars, old, connecting, lost, changes>>

\* Mutant: a row of another account counts as the replacement.
ForeignNever(conn) == FALSE
Foreign(conn) == row # NoRow /\ row.seller # conn.seller

\* getConcurrentReplacement: a few reads for the pair another process may have saved.
FindReplacement(r) ==
    LET conn == req[r].conn
        tried == req[r].tries + 1
        missed == IF tried >= LookupTries THEN Reject(r)
                  ELSE Set(r, [req[r] EXCEPT !.tries = tried]) /\ leader' = leader
    IN
    /\ req[r].pc = "lookup"
    /\ \/ /\ faults' = faults
          /\ IF Foreign(conn) THEN Reject(r)
             ELSE IF row # NoRow /\ row.pair # conn.pair /\ row.pair \notin old
               THEN Resolve(r, row.pair)
               ELSE missed
       \/ Fault /\ missed
    /\ UNCHANGED <<rowVars, pairVars, old, connecting, lost, changes>>

\* A 401 is tried once more with the token of the row as it is now.
Operate(r) ==
    /\ req[r].pc = "operate"
    /\ IF req[r].token \notin live /\ ~req[r].again
         THEN Set(r, [req[r] EXCEPT !.pc = "reread"]) ELSE Set(r, Idle)
    /\ UNCHANGED <<rowVars, pairVars, old, leader, connecting, lost, changes, faults>>

Reread(r) ==
    /\ req[r].pc = "reread"
    /\ IF row.seller # req[r].conn.seller
         THEN Set(r, Idle) /\ leader' = leader
         ELSE IF row.pair # req[r].token
           THEN /\ Set(r, [req[r] EXCEPT !.pc = "operate", !.conn = row,
                                         !.token = row.pair, !.again = TRUE])
                /\ leader' = leader
           ELSE GetOrStartRefresh(r, row, TRUE)
    /\ UNCHANGED <<rowVars, pairVars, old, connecting, lost, changes, faults>>

-----------------------------------------------------------------------------
(* The user, Mercado Libre and the processes                                 *)

ExchangeCode(s) ==
    /\ connecting = 0 /\ Change /\ Issue(s, 0)
    /\ connecting' = last + 1
    /\ UNCHANGED <<rowVars, old, req, leader, lost, faults>>

SaveTokens ==
    /\ connecting # 0
    /\ SetRow(connecting, issued[connecting].seller) /\ connecting' = 0
    /\ UNCHANGED <<pairVars, old, req, leader, lost, changes, faults>>

Disconnect ==
    /\ row # NoRow /\ Change /\ row' = NoRow
    /\ UNCHANGED <<writes, pairVars, old, req, leader, connecting, lost, faults>>

\* A token lives for hours, longer than any request that read another one.
Expire ==
    /\ row # NoRow /\ old' = old \cup {row.pair}
    /\ \A r \in Requests : req[r].pc # "idle" => req[r].conn.pair = row.pair
    /\ UNCHANGED <<rowVars, pairVars, req, leader, connecting, lost, changes, faults>>

Revoke ==
    /\ Change /\ row # NoRow /\ live' = live \ {row.pair}
    /\ UNCHANGED <<rowVars, issued, last, usable, old, req, leader, connecting, lost, faults>>

Die(p) ==
    /\ Fault
    /\ req' = [r \in Requests |-> IF ProcessOf[r] = p THEN Idle ELSE req[r]]
    /\ leader' = [leader EXCEPT ![p] = Nobody]
    /\ lost' = (lost \/ \E r \in Requests : ProcessOf[r] = p /\ req[r].pc = "save")
    /\ UNCHANGED <<rowVars, pairVars, old, connecting, changes>>

Step(r) == Exchange(r) \/ Save(r) \/ FindReplacement(r) \/ Operate(r) \/ Reread(r)

Next == \/ \E r \in Requests : Begin(r) \/ Step(r)
        \/ \E s \in Sellers : ExchangeCode(s)
        \/ \E p \in Processes : Die(p)
        \/ SaveTokens \/ Disconnect \/ Expire \/ Revoke

Spec == Init /\ [][Next]_vars
\* A request that has begun goes on: every call to Supabase or Mercado Libre ends.
FairSpec == Spec /\ \A r \in Requests : WF_vars(Step(r))

-----------------------------------------------------------------------------
(* Properties                                                                *)

\* TypeOK: every variable has the type its columns and locals have in the code.
TypeOK ==
    /\ row \in Row \cup {NoRow} /\ writes \in Nat
    /\ issued \in [Pairs -> [seller : Sellers, parent : 0 .. MaxPairs]] /\ last \in Pairs
    /\ usable \subseteq 1 .. last /\ live \subseteq 1 .. last /\ old \subseteq 1 .. last
    /\ req \in [Requests -> Local] /\ leader \in [Processes -> Requests \cup {Nobody}]
    /\ connecting \in 0 .. last /\ lost \in BOOLEAN
    /\ changes \in 0 .. MaxChanges /\ faults \in 0 .. MaxFaults

\* PairIsKept: as long as no answer of an exchange is lost, no process dies with a
\* new pair and fewer saves fail than it is tried, the row holds a refresh token
\* that works or a request is about to save the pair it was exchanged for.
PairIsKept ==
    row = NoRow \/ lost \/ row.pair \in usable
    \/ \E r \in Requests : req[r].pc = "save" /\ req[r].conn = row

\* TokenOfSeller: a request never acts for one account with the token of another,
\* whoever connects, disconnects or refreshes meanwhile.
TokenOfSeller ==
    \A r \in Requests : req[r].pc \in {"operate", "reread"} =>
        issued[req[r].token].seller = req[r].conn.seller

\* OwnSaveIsRecognised: a refresh whose save was applied and not answered does not
\* fail while the row holds the pair it saved.
OwnSaveIsRecognised ==
    [][\A r \in Requests :
          /\ req[r].pc \in {"save", "lookup"} /\ req'[r].pc = "idle" /\ faults' = faults
          /\ row # NoRow /\ req[r].got # 0
          => row.pair # req[r].got]_vars

\* WaitersAreAnswered: a request that waits for a shared refresh learns how it ended.
WaitersAreAnswered == \A r \in Requests : req[r].pc = "wait" ~> req[r].pc # "wait"
=============================================================================

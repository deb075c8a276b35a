---------------------------- MODULE PromotionChange ----------------------------
(***************************************************************************)
(* Changing the promotions of publications in Mercado Libre: apply one, which *)
(* removes those that are active first, change a price, remove all or remove  *)
(* one.  A request covers the items of a publication; each item is worked on   *)
(* by an executor of its own, which writes, and reads until it sees its write. *)
(* Nothing is locked: several requests may work on an item.                   *)
(*                                                                          *)
(* Promotions live in Mercado Libre; what it shows may lag behind.  A request  *)
(* to it is one step; polling reads until the wanted state is shown or the     *)
(* reads are used up.                                                        *)
(***************************************************************************)
EXTENDS Naturals, FiniteSets, SequencesExt

CONSTANTS
    Items, Promos, Requests,
    ItemsOf,        \* the items of the publication a request is about
    Prices,
    Unpriced,       \* promotions that come with their price (SMART)
    Campaigns,      \* seller campaigns: a price, once started, only goes down
    Flexible,       \* those whose prices may change: FLEXIBLE_PERCENTAGE
    Others,         \* types without a removal of their own: all offers are deleted
    Asks,           \* bound: requests that are made
    Starts,         \* bound: promotions each item may have in the beginning
    MaxTrouble      \* bound: changes made by Mercado Libre or by the seller elsewhere,
                    \* failed reads and writes with an uncertain answer, together

Offer == [status : {"none", "candidate", "pending", "started"}, price : Prices \cup {0}]
Asked == [kind : {"apply", "update", "remove", "select"}, promo : Promos, price : Prices]

ASSUME PromotionAssumption ==
    /\ ItemsOf \in [Requests -> SUBSET Items \ {{}}] /\ Prices \subseteq Nat \ {0}
    /\ Unpriced \subseteq Promos /\ Campaigns \subseteq Promos \ Unpriced
    /\ Flexible \subseteq Campaigns
    /\ Asks \subseteq Asked /\ Starts \in [Items -> SUBSET [Promos -> Offer]]
    /\ Others \subseteq Promos \ Campaigns /\ MaxTrouble \in Nat
    /\ IsFiniteSet(Promos)

VARIABLES
    asked,          \* what each request asks for
    market, shown,  \* participation of the items: in Mercado Libre, and as it is read
    pc, todo, prior, \* of an executor: its stage, what it has and had to remove
    out,            \* its answer: ok, or the stage it failed in
    deletes, posts, \* what it has sent so far
    moves, faults

mlVars == <<market, shown, moves>>
sent == <<deletes, posts>>
vars == <<asked, mlVars, pc, todo, prior, out, sent, faults>>

-----------------------------------------------------------------------------

Executors == {e \in Requests \X Items : e[2] \in ItemsOf[e[1]]}
Stages == {"CURRENT_STATE", "REMOVAL", "REMOVAL_VERIFICATION",
           "CANDIDATE_REVALIDATION", "APPLICATION", "APPLICATION_VERIFICATION"}

Kind(e) == asked[e[1]].kind
Promo(e) == asked[e[1]].promo
Price(e) == asked[e[1]].price

In(s, p) == s[p].status \in {"pending", "started"}
Started(s) == {p \in Promos : s[p].status = "started"}
Participating(s) == {p \in Promos : In(s, p)}

\* Only what parsePromotionRequest lets through.
Askable(a) == /\ a.kind \in {"apply", "update"} => a.promo \notin Others
              /\ a.kind = "update" => a.promo \notin Unpriced

Init ==
    /\ asked \in [Requests -> {a \in Asks : Askable(a)}]
    /\ \A r \in Requests : asked[r].kind = "update" => Cardinality(ItemsOf[r]) = 1
    /\ market \in {m \in [Items -> UNION {Starts[i] : i \in Items}] :
                    \A i \in Items : m[i] \in Starts[i]}
    /\ shown = market
    /\ pc = [e \in Executors |-> IF asked[e[1]].kind \in {"apply", "remove"}
                                   THEN "preflight" ELSE "current"]
    /\ todo = [e \in Executors |-> <<>>] /\ prior = [e \in Executors |-> {}]
    /\ out = [e \in Executors |-> "none"]
    /\ deletes = [e \in Executors |-> [p \in Promos |-> 0]]
    /\ posts = [e \in Executors |-> 0]
    /\ moves = 0 /\ faults = 0

At(e, stage) == pc[e] = stage
Goto(e, stage) == pc' = [pc EXCEPT ![e] = stage] /\ out' = out
Answer(e, answer) == pc' = [pc EXCEPT ![e] = "done"] /\ out' = [out EXCEPT ![e] = answer]
Fault == moves + faults < MaxTrouble /\ faults' = faults + 1
NoFault == faults' = faults
Seen(e) == shown[e[2]]

-----------------------------------------------------------------------------
(* PublicationPromotionService: preflight and start                          *)

Applicable(e) == Kind(e) = "apply" => Seen(e)[Promo(e)].status # "none"

\* An item that is paused, or whose promotions lack their ids, is not applicable.
Preflight(e) ==
    /\ At(e, "preflight")
    /\ (Applicable(e) /\ Goto(e, "ready")) \/ Goto(e, "unfit")
    /\ UNCHANGED <<asked, mlVars, todo, prior, sent, faults>>

Own(r) == {e \in Executors : e[1] = r}

\* Mutant: the items that are applicable are written all the same.
AllApplicableEach(r, e) == At(e, "ready")
AllApplicable(r, e) == \A f \in Own(r) : At(f, "ready")

AssertAllApplicable(r) ==
    /\ Own(r) # {} /\ \A e \in Own(r) : pc[e] \in {"ready", "unfit"}
    /\ pc' = [e \in Executors |-> IF e \notin Own(r) THEN pc[e]
                ELSE IF AllApplicable(r, e) THEN "current" ELSE "done"]
    /\ out' = [e \in Executors |-> IF e \in Own(r) /\ ~AllApplicable(r, e)
                 THEN "PRE_FLIGHT" ELSE out[e]]
    /\ UNCHANGED <<asked, mlVars, todo, prior, sent, faults>>

-----------------------------------------------------------------------------
(* PublicationPromotionExecutorService                                       *)

\* Mutant: any price will do.
RightPriceAny(e) == TRUE
RightPrice(e) == Promo(e) \in Unpriced \/ Seen(e)[Promo(e)].price = Price(e)

\* findConfirmedParticipation and confirmMatchingParticipation.
Confirm(e, stage) == Answer(e, IF RightPrice(e) THEN "ok" ELSE stage)
Found(e) == In(Seen(e), Promo(e))

\* Mutant: the filter is the wrong way round.
PreviousMatching(e) == Started(Seen(e)) \cap {Promo(e)}
Previous(e) == Started(Seen(e)) \ {Promo(e)}

\* One after the other, in the order in which they were read.
Remember(e, what) == /\ \E order \in SetToSeqs(what) : todo' = [todo EXCEPT ![e] = order]
                     /\ prior' = [prior EXCEPT ![e] = what]
Nothing == UNCHANGED <<todo, prior>>

CurrentApply(e) ==
    /\ Kind(e) = "apply"
    /\ CASE Found(e) -> Confirm(e, "CURRENT_STATE") /\ Nothing
         [] ~Found(e) /\ Seen(e)[Promo(e)].status # "candidate" ->
              Answer(e, "CURRENT_STATE") /\ Nothing
         [] OTHER -> /\ Remember(e, Previous(e))
                     /\ Goto(e, IF Previous(e) = {} THEN "revalidate" ELSE "removal")

Doomed(e) == IF Kind(e) = "remove" THEN Participating(Seen(e))
             ELSE Participating(Seen(e)) \cap {Promo(e)}

CurrentRemove(e) ==
    /\ Kind(e) \in {"remove", "select"}
    /\ IF Doomed(e) = {} THEN Answer(e, "ok") /\ Nothing
       ELSE Remember(e, Doomed(e)) /\ Goto(e, "removal")

\* Of a campaign that comes without its sub_type the detail is read as well; when
\* that read fails the answer is that of a failed read of the participations.
MayUpdate(e) == /\ Found(e)
                /\ Promo(e) \in Campaigns =>
                     /\ Promo(e) \in Flexible
                     /\ Seen(e)[Promo(e)].status = "started"
                          => Price(e) <= Seen(e)[Promo(e)].price

CurrentUpdate(e) ==
    /\ Kind(e) = "update" /\ Nothing
    /\ IF ~MayUpdate(e) THEN Answer(e, "CURRENT_STATE")
       ELSE IF RightPrice(e) THEN Answer(e, "ok") ELSE Goto(e, "write")

Current(e) ==
    /\ At(e, "current")
    /\ \/ (CurrentApply(e) \/ CurrentRemove(e) \/ CurrentUpdate(e)) /\ NoFault
       \/ Fault /\ Answer(e, "CURRENT_STATE") /\ Nothing
    /\ UNCHANGED <<asked, mlVars, sent>>

\* DELETE of a promotion: it may be joined again.
Deleted(s, d) == [p \in Promos |-> IF In(s, p) /\ (p = d \/ d \in Others)
                    THEN [status |-> "candidate", price |-> 0] ELSE s[p]]

\* The promotion at hand is gone, or was seen to be.
Removed(e) == /\ todo' = [todo EXCEPT ![e] = Tail(@)]
              /\ Goto(e, IF Len(todo[e]) = 1 THEN "removed" ELSE "removal")

RemoveSafely(e) ==
    LET d == Head(todo[e])
        gone == [market EXCEPT ![e[2]] = Deleted(@, d)]
    IN
    /\ At(e, "removal") /\ deletes' = [deletes EXCEPT ![e][d] = @ + 1]
    /\ \/ market' = gone /\ Removed(e) /\ NoFault
       \/ Answer(e, "REMOVAL") /\ UNCHANGED <<market, todo>> /\ NoFault
       \/ Fault /\ Goto(e, "unsureRemoval") /\ todo' = todo /\ market' \in {market, gone}
    /\ UNCHANGED <<asked, shown, moves, prior, posts>>

GiveUpRemoval(e) == Answer(e, "REMOVAL")

ReconcileUncertainRemoval(e) ==
    LET remains == In(Seen(e), Head(todo[e]))
    IN
    /\ At(e, "unsureRemoval")
    /\ \/ /\ ~remains /\ NoFault
          /\ IF Kind(e) = "select" THEN Answer(e, "ok") /\ todo' = todo ELSE Removed(e)
       \/ (IF remains THEN NoFault ELSE Fault) /\ GiveUpRemoval(e) /\ todo' = todo
    /\ UNCHANGED <<asked, mlVars, prior, sent>>

RemovalShown(e) ==
    CASE Kind(e) = "apply" -> Started(Seen(e)) \cap prior[e] = {}
      [] Kind(e) = "remove" -> Participating(Seen(e)) = {}
      [] OTHER -> ~Found(e)

VerifyRemoval(e) ==
    /\ At(e, "removed") /\ todo' = todo /\ prior' = [prior EXCEPT ![e] = {}]
    /\ \/ /\ RemovalShown(e) /\ NoFault
          /\ IF Kind(e) = "apply" THEN Goto(e, "revalidate") ELSE Answer(e, "ok")
       \/ ~RemovalShown(e) /\ NoFault /\ Answer(e, "REMOVAL_VERIFICATION")
       \/ Fault /\ Answer(e, "REMOVAL_VERIFICATION")
    /\ UNCHANGED <<asked, mlVars, sent>>

Revalidate(e) ==
    /\ At(e, "revalidate") /\ Nothing
    /\ \/ /\ NoFault
          /\ CASE Found(e) -> Confirm(e, "CANDIDATE_REVALIDATION")
               [] Seen(e)[Promo(e)].status = "candidate" -> Goto(e, "write")
               [] OTHER -> Answer(e, "CANDIDATE_REVALIDATION")
       \/ Fault /\ Answer(e, "CANDIDATE_REVALIDATION")
    /\ UNCHANGED <<asked, mlVars, sent>>

\* POST of a participation takes a candidate, PUT of a price a participation.
Writable(e) == LET now == market[e[2]][Promo(e)].status
               IN IF Kind(e) = "apply" THEN now = "candidate" ELSE now \in {"pending", "started"}

Effect(e) ==
    \E status \in IF Kind(e) = "apply" THEN {"pending", "started"}
                  ELSE {market[e[2]][Promo(e)].status} :
       market' = [market EXCEPT ![e[2]][Promo(e)] = [status |-> status,
                    price |-> IF Promo(e) \in Unpriced THEN 0 ELSE Price(e)]]

Write(e) ==
    /\ At(e, "write") /\ posts' = [posts EXCEPT ![e] = @ + 1]
    /\ \/ Writable(e) /\ Effect(e) /\ Goto(e, "written") /\ NoFault
       \/ Answer(e, "APPLICATION") /\ NoFault /\ market' = market
       \/ /\ Fault /\ Goto(e, "unsure")
          /\ market' = market \/ (Writable(e) /\ Effect(e))
    /\ UNCHANGED <<asked, shown, moves, todo, prior, deletes>>

\* Mutant: the write is sent again.
GiveUpWriteAgain(e) == Goto(e, "write")
GiveUpWrite(e) == Answer(e, "APPLICATION")

\* reconcileUncertainWrite wants the participation, confirmUpdatedPrice its price.
Reconciled(e) == Found(e) /\ (Kind(e) = "update" => RightPrice(e))

ReconcileUncertainWrite(e) ==
    /\ At(e, "unsure")
    /\ \/ /\ Reconciled(e) /\ NoFault
          /\ IF Kind(e) = "update" THEN Answer(e, "ok") ELSE Goto(e, "written")
       \/ (IF Reconciled(e) THEN Fault ELSE NoFault) /\ GiveUpWrite(e)
    /\ UNCHANGED <<asked, mlVars, todo, prior, sent>>

VerifyWrite(e) ==
    /\ At(e, "written")
    /\ LET there == Found(e) /\ RightPrice(e)
       IN \/ there /\ NoFault /\ Answer(e, "ok")
          \/ (IF there THEN Fault ELSE NoFault) /\ Answer(e, "APPLICATION_VERIFICATION")
    /\ UNCHANGED <<asked, mlVars, todo, prior, sent>>

-----------------------------------------------------------------------------
(* Mercado Libre                                                             *)

\* Changes of its own or of the seller elsewhere.
Move(i, p) ==
    /\ moves + faults < MaxTrouble /\ moves' = moves + 1
    /\ \E status \in {"candidate", "none", "started"}, price \in Prices \cup {0} :
          /\ CASE market[i][p].status = "pending" -> status = "started" /\ price = market[i][p].price
               [] status = "started" -> market[i][p].status = "candidate"
                                          /\ (price = 0 <=> p \in Unpriced)
               [] OTHER -> market[i][p].status # status /\ price = 0
          /\ market' = [market EXCEPT ![i][p] = [status |-> status, price |-> price]]
    /\ UNCHANGED <<asked, shown, pc, todo, prior, out, sent, faults>>

CatchUp(i) ==
    /\ shown[i] # market[i] /\ shown' = [shown EXCEPT ![i] = market[i]]
    /\ UNCHANGED <<asked, market, moves, pc, todo, prior, out, sent, faults>>

Work(e) ==
    \/ Preflight(e) \/ Current(e) \/ RemoveSafely(e) \/ ReconcileUncertainRemoval(e)
    \/ VerifyRemoval(e) \/ Revalidate(e) \/ Write(e) \/ ReconcileUncertainWrite(e)
    \/ VerifyWrite(e)

Next == \/ \E e \in Executors : Work(e)
        \/ \E r \in Requests : AssertAllApplicable(r)
        \/ \E i \in Items : CatchUp(i) \/ \E p \in Promos : Move(i, p)

Spec == Init /\ [][Next]_vars

-----------------------------------------------------------------------------
(* Properties                                                                *)

\* TypeOK: every variable has the type it has in the code or in Mercado Libre.
TypeOK ==
    /\ asked \in [Requests -> Asked]
    /\ market \in [Items -> [Promos -> Offer]] /\ shown \in [Items -> [Promos -> Offer]]
    /\ pc \in [Executors -> {"preflight", "ready", "unfit", "current", "removal", "removed",
                  "unsureRemoval", "revalidate", "write", "unsure", "written", "done"}]
    /\ todo \in [Executors -> Seq(Promos)] /\ prior \in [Executors -> SUBSET Promos]
    /\ out \in [Executors -> {"none", "ok", "PRE_FLIGHT"} \cup Stages]
    /\ deletes \in [Executors -> [Promos -> Nat]] /\ posts \in [Executors -> Nat]
    /\ moves \in Nat /\ faults \in Nat /\ moves + faults <= MaxTrouble

\* RefusedIsUntouched: as long as one item of a request is not known to be
\* applicable none of its items is written, and one that failed on its first read
\* never is.
RefusedIsUntouched ==
    \A e \in Executors :
        (posts[e] > 0 \/ \E p \in Promos : deletes[e][p] > 0) =>
            /\ out[e] \notin {"PRE_FLIGHT", "CURRENT_STATE"}
            /\ \A f \in Own(e[1]) : pc[f] \notin {"preflight", "ready", "unfit"}
                                   /\ out[f] # "PRE_FLIGHT"

\* WritesAreNotRepeated: however uncertain its answer, no write is sent twice.
WritesAreNotRepeated ==
    \A e \in Executors : posts[e] <= 1 /\ \A p \in Promos : deletes[e][p] <= 1

\* SuccessWasShown: success is only answered in a state in which Mercado Libre
\* shows what was asked for, along every way an executor may end.
Fulfilled(e) ==
    CASE Kind(e) \in {"apply", "update"} -> Found(e) /\ (Promo(e) \in Unpriced \/ Seen(e)[Promo(e)].price = Price(e))
      [] Kind(e) = "remove" -> Participating(Seen(e)) = {}
      [] OTHER -> ~Found(e)
SuccessWasShown ==
    [][\A e \in Executors : out[e] # "ok" /\ out'[e] = "ok" => Fulfilled(e)]_vars

\* AcceptedIsSuccess, of the unit tests of apply: a POST that was accepted is not
\* reported as failed because the reads go on showing a candidate.
AcceptedIsSuccess ==
    \A e \in Executors :
        /\ Kind(e) = "apply" /\ posts[e] > 0 /\ faults = 0
        /\ In(market[e[2]], Promo(e)) /\ Seen(e)[Promo(e)].status = "candidate"
        => out[e] # "APPLICATION_VERIFICATION"

\* LeavesOneStarted: where nobody else works, an application that succeeds leaves
\* no other promotion active, whatever Mercado Libre failed to answer or to show.
LeavesOneStarted ==
    moves = 0 => \A e \in Executors :
        out[e] = "ok" /\ Kind(e) = "apply" /\ (\A r \in Requests : e[2] \in ItemsOf[r] => r = e[1])
            /\ posts[e] > 0
        => Started(market[e[2]]) \subseteq {Promo(e)}

=============================================================================

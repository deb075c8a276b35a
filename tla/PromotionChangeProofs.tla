------------------------ MODULE PromotionChangeProofs ------------------------
(***************************************************************************)
(* Proofs about PromotionChange, for any publications, promotions, prices  *)
(* and requests, and every bound on what goes wrong.                       *)
(***************************************************************************)
EXTENDS PromotionChange, FiniteSetTheorems, TLAPS

Wrote(e) == posts[e] > 0 \/ \E p \in Promos : deletes[e][p] > 0

Waiting == {"preflight", "ready", "unfit"}
BeforePost == Waiting \cup {"current", "removal", "removed", "unsureRemoval", "revalidate", "write"}

\* The executor was let through by the preflight, or needs none.
Begun(e) == pc[e] \notin Waiting /\ out[e] # "PRE_FLIGHT"

\* The executors of a request begin together.
Together == \A e, f \in Executors : e[1] = f[1] /\ Begun(e) => Begun(f)

\* What has been sent at each stage.
Sends(e) ==
    /\ pc[e] # "done" => out[e] = "none"
    /\ Wrote(e) => Begun(e) /\ pc[e] # "current" /\ out[e] # "CURRENT_STATE"
    /\ posts[e] <= 1 /\ (pc[e] \in BeforePost => posts[e] = 0)
    /\ \A p \in Promos : deletes[e][p] <= 1

\* What is left to remove is named once, and was not sent.
Distinct(s) == \A i, j \in 1 .. Len(s) : i # j => s[i] # s[j]
Removes(e) ==
    /\ pc[e] \in {"removal", "unsureRemoval"} => todo[e] # <<>> /\ Distinct(todo[e])
    /\ pc[e] = "removal" => \A i \in 1 .. Len(todo[e]) : deletes[e][todo[e][i]] = 0
    /\ pc[e] = "unsureRemoval" => \A i \in 2 .. Len(todo[e]) : deletes[e][todo[e][i]] = 0

\* Which requests come to a stage.
Kinds(e) ==
    /\ pc[e] = "revalidate" => Kind(e) = "apply"
    /\ pc[e] \in {"write", "unsure", "written"} => Kind(e) \in {"apply", "update"}
    /\ pc[e] \in {"removal", "removed", "unsureRemoval"} => Kind(e) # "update"
    /\ pc[e] \in {"removal", "unsureRemoval"} /\ Kind(e) = "select" =>
          \A i \in 1 .. Len(todo[e]) : todo[e][i] = Promo(e)

\* Nobody else works on the item.
Alone(e) == \A r \in Requests : e[2] \in ItemsOf[r] => r = e[1]

\* An application that is alone finds what Mercado Libre shows at worst late, and
\* goes on only when no other promotion is active.
Clears(e) ==
    Alone(e) /\ moves = 0 /\ Kind(e) = "apply" =>
        /\ posts[e] = 0 => Started(market[e[2]]) \subseteq Started(shown[e[2]])
        /\ pc[e] \in {"removal", "removed", "unsureRemoval"} =>
              Started(market[e[2]]) \subseteq prior[e] \cup {Promo(e)}
        /\ pc[e] \in {"revalidate", "write", "unsure", "written"} \/ posts[e] > 0 =>
              Started(market[e[2]]) \subseteq {Promo(e)}

Sound(e) == Sends(e) /\ Removes(e) /\ Kinds(e) /\ Clears(e)

\* The inductive invariant.
Inv == TypeOK /\ Together /\ \A e \in Executors : Sound(e)

-----------------------------------------------------------------------------
(* Types *)

AllStages == {"preflight", "ready", "unfit", "current", "removal", "removed",
              "unsureRemoval", "revalidate", "write", "unsure", "written", "done"}
Answers == {"none", "ok", "PRE_FLIGHT"} \cup Stages

LEMMA ExecutorIs ==
    ASSUME NEW e \in Executors
    PROVE  e[1] \in Requests /\ e[2] \in Items /\ e[2] \in ItemsOf[e[1]]
BY PromotionAssumption DEF Executors

LEMMA StateIs ==
    ASSUME TypeOK
    PROVE  /\ pc \in [Executors -> AllStages] /\ out \in [Executors -> Answers]
           /\ todo \in [Executors -> Seq(Promos)] /\ prior \in [Executors -> SUBSET Promos]
           /\ deletes \in [Executors -> [Promos -> Nat]] /\ posts \in [Executors -> Nat]
           /\ market \in [Items -> [Promos -> Offer]] /\ shown \in [Items -> [Promos -> Offer]]
           /\ moves \in Nat /\ faults \in Nat /\ moves + faults <= MaxTrouble
BY DEF TypeOK, AllStages, Answers

LEMMA AskedIs ==
    ASSUME TypeOK, NEW e \in Executors
    PROVE  Promo(e) \in Promos /\ Price(e) \in Prices
           /\ Kind(e) \in {"apply", "update", "remove", "select"}
BY ExecutorIs DEF TypeOK, Asked, Promo, Price, Kind

LEMMA OfferIs ==
    ASSUME NEW s \in [Promos -> Offer], NEW p \in Promos
    PROVE  s[p].status \in {"none", "candidate", "pending", "started"}
           /\ s[p].price \in Prices \cup {0}
BY DEF Offer

\* A participation is deleted with those that cannot be removed alone.
LEMMA DeletedIs ==
    ASSUME NEW s \in [Promos -> Offer], NEW d
    PROVE  Deleted(s, d) \in [Promos -> Offer] /\ Started(Deleted(s, d)) \subseteq Started(s)
<1>1. \A p \in Promos : Deleted(s, d)[p] \in {s[p], [status |-> "candidate", price |-> 0]}
  BY DEF Deleted
<1>2. [status |-> "candidate", price |-> 0] \in Offer
  BY DEF Offer
<1>3. Deleted(s, d) \in [Promos -> Offer]
  BY <1>1, <1>2 DEF Deleted
<1>4. Started(Deleted(s, d)) \subseteq Started(s)
  BY <1>1 DEF Started
<1> QED
  BY <1>3, <1>4

LEMMA OrderIs ==
    ASSUME NEW S, S \subseteq Promos, S # {}, NEW order \in SetToSeqs(S)
    PROVE  /\ order \in Seq(Promos) /\ order # <<>> /\ Distinct(order)
           /\ \A i \in 1 .. Len(order) : order[i] \in S
<1>1. IsFiniteSet(S) /\ Cardinality(S) \in Nat /\ Cardinality(S) # 0
  BY PromotionAssumption, FS_Subset, FS_CardinalityType, FS_EmptySet
<1> DEFINE n == Cardinality(S)
<1>2. order \in [1 .. n -> S] /\ \A i, j \in 1 .. n : i # j => order[i] # order[j]
  BY DEF SetToSeqs
<1> HIDE DEF n
<1>3. n \in Nat /\ n # 0
  BY <1>1 DEF n
<1>4. order \in Seq(S) /\ Len(order) = n
  BY <1>2, <1>3
<1> QED
  BY <1>2, <1>3, <1>4 DEF Distinct

LEMMA TailIs ==
    ASSUME NEW s \in Seq(Promos), s # <<>>, Distinct(s)
    PROVE  /\ Tail(s) \in Seq(Promos) /\ Distinct(Tail(s)) /\ Len(Tail(s)) = Len(s) - 1
           /\ Len(s) \in Nat \ {0} /\ Head(s) = s[1] /\ Head(s) \in Promos
           /\ \A i \in 1 .. Len(Tail(s)) : Tail(s)[i] = s[i + 1] /\ i + 1 \in 2 .. Len(s)
           /\ \A i \in 2 .. Len(s) : s[i] # Head(s)
           /\ Len(s) # 1 => Tail(s) # <<>>
<1>1. Len(s) \in Nat /\ Len(s) # 0 /\ Head(s) = s[1] /\ s[1] \in Promos
  OBVIOUS
<1>2. /\ Tail(s) \in Seq(Promos) /\ Len(Tail(s)) = Len(s) - 1
      /\ \A i \in 1 .. Len(Tail(s)) : Tail(s)[i] = s[i + 1]
  BY <1>1
<1>3. \A i \in 1 .. Len(Tail(s)) : i + 1 \in 2 .. Len(s)
  BY <1>1, <1>2
<1>4. Distinct(Tail(s))
  BY <1>1, <1>2 DEF Distinct
<1>5. \A i \in 2 .. Len(s) : s[i] # Head(s)
  BY <1>1 DEF Distinct
<1>6. Len(s) # 1 => Tail(s) # <<>>
  BY <1>1, <1>2
<1> QED
  BY <1>1, <1>2, <1>3, <1>4, <1>5, <1>6

-----------------------------------------------------------------------------
(* A step of an executor *)

\* Its own stage and locals change, in type; nobody else's do.
Only(e) ==
    /\ pc' \in [Executors -> AllStages] /\ out' \in [Executors -> Answers]
    /\ todo' \in [Executors -> Seq(Promos)] /\ prior' \in [Executors -> SUBSET Promos]
    /\ deletes' \in [Executors -> [Promos -> Nat]] /\ posts' \in [Executors -> Nat]
    /\ \A f \in Executors \ {e} :
          /\ pc'[f] = pc[f] /\ out'[f] = out[f] /\ todo'[f] = todo[f] /\ prior'[f] = prior[f]
          /\ deletes'[f] = deletes[f] /\ posts'[f] = posts[f]

\* What it does to its item.
Touches(e) ==
    /\ market' \in [Items -> [Promos -> Offer]]
    /\ \A i \in Items \ {e[2]} : market'[i] = market[i]

Around == asked' = asked /\ shown' = shown /\ moves' = moves /\ (NoFault \/ Fault)

LEMMA FaultIs ==
    ASSUME TypeOK, Around
    PROVE  faults' \in Nat /\ moves' + faults' <= MaxTrouble /\ moves' \in Nat
<1>1. moves \in Nat /\ faults \in Nat /\ MaxTrouble \in Nat /\ moves + faults <= MaxTrouble
  BY StateIs, PromotionAssumption
<1>2. CASE NoFault
  BY <1>1, <1>2 DEF NoFault, Around
<1>3. CASE Fault
  BY <1>1, <1>3 DEF Fault, Around
<1> QED
  BY <1>2, <1>3 DEF Around

LEMMA AloneIs ==
    ASSUME NEW e \in Executors, NEW f \in Executors, Alone(f), e # f
    PROVE  e[2] # f[2]
<1>1. e = <<e[1], e[2]>> /\ f = <<f[1], f[2]>>
  BY DEF Executors
<1> QED
  BY <1>1, ExecutorIs DEF Alone

\* An executor that is through the preflight goes on or ends.
LEMMA WorkStep ==
    ASSUME Inv, NEW e \in Executors, Only(e), Touches(e), Around,
           Begun(e) <=> pc'[e] \notin Waiting /\ out'[e] # "PRE_FLIGHT",
           Sound(e)'
    PROVE  Inv'
<1>1. TypeOK'
  BY FaultIs DEF Inv, TypeOK, Only, Touches, Around, AllStages, Answers
<1>2. Together'
  <2>1. \A f \in Executors : Begun(f) <=> pc'[f] \notin Waiting /\ out'[f] # "PRE_FLIGHT"
    BY DEF Only, Begun
  <2> QED
    BY <2>1 DEF Inv, Together, Begun
<1>3. ASSUME NEW f \in Executors, f # e PROVE Sound(f)'
  <2>1. /\ pc'[f] = pc[f] /\ out'[f] = out[f] /\ todo'[f] = todo[f] /\ prior'[f] = prior[f]
        /\ deletes'[f] = deletes[f] /\ posts'[f] = posts[f]
        /\ asked' = asked /\ shown' = shown /\ moves' = moves
    BY <1>3 DEF Only, Around
  <2>2. Sound(f)
    BY DEF Inv
  <2>3. Sends(f)' /\ Removes(f)' /\ Kinds(f)'
    BY <2>1, <2>2 DEF Sound, Sends, Removes, Kinds, Wrote, Begun, Kind, Promo
  <2>4. Alone(f) => market'[f[2]] = market[f[2]]
    BY <1>3, AloneIs, ExecutorIs DEF Touches
  <2>5. Clears(f)'
    BY <2>1, <2>2, <2>4 DEF Sound, Clears, Alone, Kind, Promo
  <2> QED
    BY <2>3, <2>5 DEF Sound
<1> QED
  BY <1>1, <1>2, <1>3 DEF Inv

\* Where pc and out are afterwards.
LEMMA GotoIs ==
    ASSUME Inv, NEW e \in Executors, NEW stage \in AllStages, Goto(e, stage)
    PROVE  /\ pc' \in [Executors -> AllStages] /\ out' \in [Executors -> Answers]
           /\ pc'[e] = stage /\ out'[e] = out[e]
           /\ \A f \in Executors \ {e} : pc'[f] = pc[f] /\ out'[f] = out[f]
BY StateIs DEF Inv, Goto

LEMMA AnswerIs ==
    ASSUME Inv, NEW e \in Executors, NEW a \in Answers, Answer(e, a)
    PROVE  /\ pc' \in [Executors -> AllStages] /\ out' \in [Executors -> Answers]
           /\ pc'[e] = "done" /\ out'[e] = a
           /\ \A f \in Executors \ {e} : pc'[f] = pc[f] /\ out'[f] = out[f]
BY StateIs DEF Inv, Answer, AllStages

\* The facts of its stage.
LEMMA SoundIs ==
    ASSUME Inv, NEW e \in Executors
    PROVE  /\ Sends(e) /\ Removes(e) /\ Kinds(e) /\ Clears(e) /\ TypeOK
           /\ e[2] \in Items
BY ExecutorIs DEF Inv, Sound

Locals == <<todo, prior, deletes, posts>>

\* An executor answers, having sent nothing new.
LEMMA AnswerStep ==
    ASSUME Inv, NEW e \in Executors, pc[e] \notin Waiting \cup {"done"},
           NEW a \in Stages \cup {"ok"}, Answer(e, a), a = "CURRENT_STATE" => pc[e] = "current",
           Around, market' = market, UNCHANGED <<todo, deletes, posts>>,
           prior' \in [Executors -> SUBSET Promos],
           \A f \in Executors \ {e} : prior'[f] = prior[f]
    PROVE  Inv'
<1>1. /\ pc' \in [Executors -> AllStages] /\ out' \in [Executors -> Answers]
      /\ pc'[e] = "done" /\ out'[e] = a /\ a \notin {"none", "PRE_FLIGHT"}
      /\ \A f \in Executors \ {e} : pc'[f] = pc[f] /\ out'[f] = out[f]
  BY AnswerIs DEF Answers, Stages
<1>2. Only(e) /\ Touches(e)
  BY <1>1, StateIs DEF Only, Touches, Inv
<1>3. out[e] = "none" /\ Begun(e)
  BY SoundIs DEF Sends, Begun
<1>4. Sends(e)'
  <2>1. Wrote(e) => a # "CURRENT_STATE"
    BY SoundIs DEF Sends
  <2> QED
    BY <1>1, <2>1, SoundIs DEF Sends, Wrote, Begun, Waiting, BeforePost
<1>5. Removes(e)' /\ Kinds(e)'
  BY <1>1 DEF Removes, Kinds
<1>6. Clears(e)'
  BY <1>1, SoundIs DEF Clears, Alone, Around, Kind, Promo
<1> QED
  BY <1>1, <1>2, <1>3, <1>4, <1>5, <1>6, WorkStep DEF Sound, Waiting

\* An executor goes on to a stage that has nothing to remove, having sent nothing
\* new.
LEMMA GotoStep ==
    ASSUME Inv, NEW e \in Executors, pc[e] \notin Waiting \cup {"done"},
           NEW stage \in {"removed", "revalidate", "write", "written"}, Goto(e, stage),
           stage \in {"removed", "revalidate", "write"} => pc[e] \in BeforePost,
           Around, market' = market, deletes' = deletes, posts' = posts,
           todo' \in [Executors -> Seq(Promos)], prior' \in [Executors -> SUBSET Promos],
           \A f \in Executors \ {e} : todo'[f] = todo[f] /\ prior'[f] = prior[f],
           stage = "revalidate" => Kind(e) = "apply",
           stage \in {"write", "written"} => Kind(e) \in {"apply", "update"},
           stage = "removed" => Kind(e) # "update" /\ prior'[e] = prior[e]
                /\ pc[e] \in {"removal", "unsureRemoval"},
           stage \in {"revalidate", "write", "written"} =>
               \/ pc[e] \in {"revalidate", "write", "unsure", "written"}
               \/ Clears(e) /\ Alone(e) /\ moves = 0 /\ Kind(e) = "apply" =>
                     Started(market[e[2]]) \subseteq {Promo(e)}
    PROVE  Inv'
<1>1. /\ pc' \in [Executors -> AllStages] /\ out' \in [Executors -> Answers]
      /\ pc'[e] = stage /\ out'[e] = out[e]
      /\ \A f \in Executors \ {e} : pc'[f] = pc[f] /\ out'[f] = out[f]
  BY GotoIs DEF AllStages
<1>2. Only(e) /\ Touches(e)
  BY <1>1, StateIs DEF Only, Touches, Inv
<1>3. out[e] = "none" /\ Begun(e)
  BY SoundIs DEF Sends, Begun
<1>4. Sends(e)'
  BY <1>1, <1>3, SoundIs DEF Sends, Wrote, Begun, Waiting, BeforePost
<1>5. Removes(e)'
  BY <1>1 DEF Removes
<1>6. Kinds(e)'
  BY <1>1 DEF Kinds, Kind, Promo, Around
<1>7. Clears(e)'
  BY <1>1, SoundIs DEF Clears, Alone, Around, Kind, Promo
<1> QED
  BY <1>1, <1>2, <1>3, <1>4, <1>5, <1>6, <1>7, WorkStep DEF Sound, Waiting

-----------------------------------------------------------------------------
(* The preflight *)

LEMMA PreflightInv == ASSUME Inv, NEW e \in Executors, Preflight(e) PROVE Inv'
<1>1. PICK stage \in {"ready", "unfit"} : Goto(e, stage)
  BY DEF Preflight
<1>2. /\ pc[e] = "preflight" /\ Around /\ market' = market
      /\ UNCHANGED <<todo, prior, deletes, posts>>
  BY DEF Preflight, At, Around, NoFault, mlVars, sent
<1>3. /\ pc' \in [Executors -> AllStages] /\ out' \in [Executors -> Answers]
      /\ pc'[e] = stage /\ out'[e] = out[e]
      /\ \A f \in Executors \ {e} : pc'[f] = pc[f] /\ out'[f] = out[f]
  BY <1>1, GotoIs DEF AllStages
<1>4. Only(e) /\ Touches(e)
  BY <1>2, <1>3, StateIs DEF Only, Touches, Inv
<1>5. ~Begun(e) /\ ~Wrote(e) /\ posts[e] = 0 /\ out[e] = "none"
  BY <1>2, SoundIs DEF Begun, Waiting, Sends, BeforePost
<1>6. Sends(e)'
  BY <1>2, <1>3, <1>5, SoundIs DEF Sends, Wrote, Begun
<1>7. Removes(e)' /\ Kinds(e)'
  BY <1>3 DEF Removes, Kinds
<1>8. Clears(e)'
  BY <1>2, <1>3, <1>5, SoundIs DEF Clears, Alone, Around, Kind, Promo
<1> QED
  BY <1>2, <1>3, <1>4, <1>5, <1>6, <1>7, <1>8, WorkStep DEF Sound, Waiting, Begun

\* The executors of a request go on together or end together.
LEMMA AssertInv == ASSUME Inv, NEW r \in Requests, AssertAllApplicable(r) PROVE Inv'
<1> DEFINE all == \A f \in Own(r) : pc[f] = "ready"
<1>1. /\ \A e \in Own(r) : pc[e] \in {"ready", "unfit"}
      /\ pc' = [e \in Executors |-> IF e \notin Own(r) THEN pc[e]
                  ELSE IF all THEN "current" ELSE "done"]
      /\ out' = [e \in Executors |-> IF e \in Own(r) /\ ~all THEN "PRE_FLIGHT" ELSE out[e]]
      /\ UNCHANGED <<asked, market, shown, moves, todo, prior, deletes, posts, faults>>
  BY DEF AssertAllApplicable, AllApplicable, At, mlVars, sent
<1>2. \A e \in Executors : e \in Own(r) <=> e[1] = r
  BY DEF Own
<1> HIDE DEF all
<1>3. pc' \in [Executors -> AllStages] /\ out' \in [Executors -> Answers]
  <2>1. \A e \in Executors : pc[e] \in AllStages /\ out[e] \in Answers
    BY StateIs DEF Inv
  <2>2. "current" \in AllStages /\ "done" \in AllStages /\ "PRE_FLIGHT" \in Answers
    BY DEF AllStages, Answers
  <2> QED
    BY <1>1, <2>1, <2>2
<1>4. TypeOK'
  BY <1>1, <1>3 DEF Inv, TypeOK, AllStages, Answers
<1>5. \A e \in Executors : e[1] # r => pc'[e] = pc[e] /\ out'[e] = out[e]
  BY <1>1, <1>2
<1>6. ASSUME NEW e \in Executors, e[1] = r
      PROVE  /\ ~Wrote(e) /\ posts[e] = 0 /\ out[e] = "none" /\ ~Begun(e)
             /\ \/ all /\ pc'[e] = "current" /\ out'[e] = "none"
                \/ ~all /\ pc'[e] = "done" /\ out'[e] = "PRE_FLIGHT"
  <2>1. pc[e] \in {"ready", "unfit"}
    BY <1>1, <1>2, <1>6
  <2>2. ~Wrote(e) /\ posts[e] = 0 /\ out[e] = "none" /\ ~Begun(e)
    BY <2>1, SoundIs DEF Sends, Begun, Waiting, BeforePost
  <2> QED
    BY <1>1, <1>2, <1>6, <2>2
<1>7. Together'
  BY <1>5, <1>6 DEF Inv, Together, Begun, Waiting
<1>8. ASSUME NEW e \in Executors PROVE Sound(e)'
  <2>1. CASE e[1] = r
    <3>1. Sends(e)'
      BY <1>1, <1>6, <2>1, SoundIs DEF Sends, Wrote, BeforePost, Waiting
    <3>2. Removes(e)' /\ Kinds(e)'
      BY <1>6, <2>1 DEF Removes, Kinds
    <3>3. Clears(e)'
      BY <1>1, <1>6, <2>1, SoundIs DEF Clears, Alone, Kind, Promo
    <3> QED
      BY <3>1, <3>2, <3>3 DEF Sound
  <2>2. CASE e[1] # r
    <3>1. pc'[e] = pc[e] /\ out'[e] = out[e]
      BY <1>5, <2>2
    <3>2. Sends(e)' /\ Removes(e)' /\ Kinds(e)'
      BY <1>1, <3>1, SoundIs DEF Sends, Removes, Kinds, Wrote, Begun, Kind, Promo
    <3>3. Clears(e)'
      BY <1>1, <3>1, SoundIs DEF Clears, Alone, Kind, Promo
    <3> QED
      BY <3>2, <3>3 DEF Sound
  <2> QED
    BY <2>1, <2>2
<1> QED
  BY <1>4, <1>7, <1>8 DEF Inv

-----------------------------------------------------------------------------
(* The current state, and what is to be removed *)

\* An executor that has sent nothing names what it has to remove.
LEMMA RemoveStep ==
    ASSUME Inv, NEW e \in Executors, pc[e] = "current", Kind(e) # "update",
           NEW S, S \subseteq Promos, S # {}, Remember(e, S), Goto(e, "removal"),
           Kind(e) = "select" => S \subseteq {Promo(e)},
           Clears(e) /\ Alone(e) /\ moves = 0 /\ Kind(e) = "apply" =>
               Started(market[e[2]]) \subseteq S \cup {Promo(e)},
           Around, market' = market, UNCHANGED <<deletes, posts>>
    PROVE  Inv'
<1>1. PICK order \in SetToSeqs(S) : todo' = [todo EXCEPT ![e] = order]
  BY DEF Remember
<1>2. /\ order \in Seq(Promos) /\ order # <<>> /\ Distinct(order)
      /\ \A i \in 1 .. Len(order) : order[i] \in S
  BY OrderIs
<1>3. /\ pc' \in [Executors -> AllStages] /\ out' \in [Executors -> Answers]
      /\ pc'[e] = "removal" /\ out'[e] = out[e]
      /\ \A f \in Executors \ {e} : pc'[f] = pc[f] /\ out'[f] = out[f]
  BY GotoIs DEF AllStages
<1>4. prior' = [prior EXCEPT ![e] = S]
  BY DEF Remember
<1>5. /\ todo' \in [Executors -> Seq(Promos)] /\ prior' \in [Executors -> SUBSET Promos]
      /\ todo'[e] = order /\ prior'[e] = S
      /\ \A f \in Executors \ {e} : todo'[f] = todo[f] /\ prior'[f] = prior[f]
  BY <1>1, <1>2, <1>4, StateIs DEF Inv
<1>6. Only(e) /\ Touches(e)
  BY <1>3, <1>5, StateIs DEF Only, Touches, Inv
<1>7. ~Wrote(e) /\ posts[e] = 0 /\ out[e] = "none" /\ Begun(e)
  BY SoundIs DEF Sends, Begun, Waiting, BeforePost
<1>8. \A p \in Promos : deletes[e][p] = 0
  <2>1. \A p \in Promos : deletes[e][p] \in Nat
    BY StateIs DEF Inv
  <2> QED
    BY <1>7, <2>1 DEF Wrote
<1>9. Sends(e)'
  BY <1>3, <1>7, SoundIs DEF Sends, Wrote, Begun
<1>10. Removes(e)'
  BY <1>2, <1>3, <1>5, <1>8 DEF Removes, Distinct
<1>11. Kinds(e)'
  BY <1>2, <1>3, <1>5 DEF Kinds, Around, Kind, Promo
<1>12. Clears(e)'
  BY <1>3, <1>5, <1>7, SoundIs DEF Clears, Alone, Around, Kind, Promo
<1> QED
  BY <1>3, <1>6, <1>7, <1>9, <1>10, <1>11, <1>12, WorkStep DEF Sound, Waiting

LEMMA NothingIs ==
    ASSUME Inv, NEW e \in Executors, Nothing
    PROVE  /\ todo' = todo /\ prior' = prior
           /\ todo' \in [Executors -> Seq(Promos)] /\ prior' \in [Executors -> SUBSET Promos]
BY StateIs DEF Inv, Nothing

\* What an application finds started when it looks is all there is, if it is alone.
LEMMA CurrentInv == ASSUME Inv, NEW e \in Executors, Current(e) PROVE Inv'
<1>1. /\ pc[e] = "current" /\ Around /\ market' = market /\ UNCHANGED <<deletes, posts>>
      /\ pc[e] \notin Waiting \cup {"done"} /\ pc[e] \in BeforePost /\ posts[e] = 0
  BY SoundIs DEF Current, At, Around, mlVars, sent, Waiting, BeforePost, Sends
<1>2. "CURRENT_STATE" \in Stages /\ "ok" \in Stages \cup {"ok"}
  BY DEF Stages
<1>3. ASSUME NEW a \in {"ok", "CURRENT_STATE"}, Answer(e, a), Nothing PROVE Inv'
  BY <1>1, <1>2, <1>3, NothingIs, AnswerStep
<1>4. Previous(e) \subseteq Promos /\ Doomed(e) \subseteq Promos
  BY DEF Previous, Started, Doomed, Participating
<1>5. CASE CurrentApply(e)
  <2>1. CASE Confirm(e, "CURRENT_STATE") /\ Nothing
    BY <1>3, <2>1 DEF Confirm
  <2>2. CASE Answer(e, "CURRENT_STATE") /\ Nothing
    BY <1>3, <2>2
  <2>3. ASSUME Clears(e) /\ Alone(e) /\ moves = 0 /\ Kind(e) = "apply"
        PROVE  Started(market[e[2]]) \subseteq Previous(e) \cup {Promo(e)}
    BY <1>1, <2>3 DEF Clears, Previous, Seen
  <2>4. CASE Remember(e, Previous(e)) /\ Previous(e) # {} /\ Goto(e, "removal")
    BY <1>1, <1>4, <1>5, <2>3, <2>4, RemoveStep DEF CurrentApply
  <2>5. CASE Remember(e, Previous(e)) /\ Previous(e) = {} /\ Goto(e, "revalidate")
    <3>1. PICK order \in SetToSeqs({}) : todo' = [todo EXCEPT ![e] = order]
      BY <2>5 DEF Remember
    <3>2. order \in Seq(Promos)
      <4>1. Cardinality({}) = 0
        BY FS_EmptySet
      <4>2. order \in [1 .. 0 -> {}]
        BY <3>1, <4>1 DEF SetToSeqs
      <4> QED
        BY <4>2
    <3>3. prior' = [prior EXCEPT ![e] = {}]
      BY <2>5 DEF Remember
    <3>4. /\ todo' \in [Executors -> Seq(Promos)] /\ prior' \in [Executors -> SUBSET Promos]
          /\ \A f \in Executors \ {e} : todo'[f] = todo[f] /\ prior'[f] = prior[f]
      BY <3>1, <3>2, <3>3, StateIs DEF Inv
    <3> QED
      BY <1>1, <1>5, <2>3, <2>5, <3>4, GotoStep DEF CurrentApply
  <2> QED
    BY <1>5, <2>1, <2>2, <2>4, <2>5 DEF CurrentApply
<1>6. CASE CurrentRemove(e)
  <2>1. CASE Answer(e, "ok") /\ Nothing
    BY <1>3, <2>1
  <2>2. CASE Doomed(e) # {} /\ Remember(e, Doomed(e)) /\ Goto(e, "removal")
    <3>1. Kind(e) = "select" => Doomed(e) \subseteq {Promo(e)}
      BY DEF Doomed
    <3>2. Kind(e) # "apply" /\ Kind(e) # "update"
      BY <1>6 DEF CurrentRemove
    <3> QED
      BY <1>1, <1>4, <2>2, <3>1, <3>2, RemoveStep
  <2> QED
    BY <1>6, <2>1, <2>2 DEF CurrentRemove
<1>7. CASE CurrentUpdate(e)
  <2>1. Kind(e) = "update" /\ Nothing
    BY <1>7 DEF CurrentUpdate
  <2>2. CASE Goto(e, "write")
    BY <1>1, <2>1, <2>2, NothingIs, GotoStep
  <2> QED
    BY <1>3, <1>7, <2>1, <2>2 DEF CurrentUpdate
<1> QED
  BY <1>2, <1>3, <1>5, <1>6, <1>7 DEF Current

-----------------------------------------------------------------------------
(* Removing *)

LEMMA RemoveSafelyInv == ASSUME Inv, NEW e \in Executors, RemoveSafely(e) PROVE Inv'
<1> DEFINE d == Head(todo[e])
           gone == [market EXCEPT ![e[2]] = Deleted(@, d)]
<1>1. /\ pc[e] = "removal" /\ Around /\ UNCHANGED <<prior, posts>>
      /\ deletes' = [deletes EXCEPT ![e][d] = @ + 1]
      /\ market' \in {market, gone}
  BY DEF RemoveSafely, At, Around
<1>2. /\ \/ Removed(e)
         \/ Answer(e, "REMOVAL") /\ todo' = todo
         \/ Goto(e, "unsureRemoval") /\ todo' = todo
  BY DEF RemoveSafely
<1>3. /\ Removes(e) /\ Sends(e) /\ Kinds(e) /\ Clears(e) /\ e[2] \in Items
      /\ todo[e] \in Seq(Promos) /\ todo[e] # <<>> /\ Distinct(todo[e])
  BY <1>1, SoundIs, StateIs DEF Removes, Inv
<1>4. /\ Tail(todo[e]) \in Seq(Promos) /\ Distinct(Tail(todo[e]))
      /\ Len(todo[e]) \in Nat \ {0} /\ d = todo[e][1] /\ d \in Promos
      /\ \A i \in 1 .. Len(Tail(todo[e])) :
            Tail(todo[e])[i] = todo[e][i + 1] /\ i + 1 \in 2 .. Len(todo[e])
      /\ \A i \in 2 .. Len(todo[e]) : todo[e][i] # d
      /\ Len(todo[e]) # 1 => Tail(todo[e]) # <<>>
  BY <1>3, TailIs
<1>5. /\ \A i \in 2 .. Len(todo[e]) : i \in 1 .. Len(todo[e]) /\ todo[e][i] \in Promos
      /\ 1 \in 1 .. Len(todo[e])
  BY <1>3, <1>4
<1>6. \A p \in Promos : deletes[e][p] \in Nat
  BY StateIs DEF Inv
<1>7. /\ deletes' \in [Executors -> [Promos -> Nat]]
      /\ \A f \in Executors \ {e} : deletes'[f] = deletes[f]
      /\ \A p \in Promos : deletes'[e][p] = IF p = d THEN deletes[e][d] + 1 ELSE deletes[e][p]
  <2> DEFINE new == [deletes[e] EXCEPT ![d] = @ + 1]
  <2>1. deletes[e] \in [Promos -> Nat] /\ deletes \in [Executors -> [Promos -> Nat]]
    BY StateIs DEF Inv
  <2>2. deletes[e][d] + 1 \in Nat
    BY <1>4, <1>6
  <2>3. new \in [Promos -> Nat]
        /\ \A p \in Promos : new[p] = IF p = d THEN deletes[e][d] + 1 ELSE deletes[e][p]
    BY <1>4, <2>1, <2>2
  <2>4. deletes' = [deletes EXCEPT ![e] = new]
    BY <1>1
  <2> HIDE DEF new
  <2> QED
    BY <2>1, <2>3, <2>4
<1>8. deletes[e][d] = 0
  BY <1>1, <1>3, <1>4, <1>5 DEF Removes
<1>9. \A p \in Promos : deletes'[e][p] <= 1
  BY <1>3, <1>7, <1>8 DEF Sends
<1>10. \A i \in 2 .. Len(todo[e]) : deletes'[e][todo[e][i]] = 0
  BY <1>1, <1>3, <1>4, <1>5, <1>7 DEF Removes
<1>11. /\ Touches(e) /\ Started(market'[e[2]]) \subseteq Started(market[e[2]])
  <2>1. CASE market' = market
    BY <2>1, StateIs DEF Touches, Inv
  <2>2. CASE market' = gone
    <3>1. /\ market[e[2]] \in [Promos -> Offer] /\ market'[e[2]] = Deleted(market[e[2]], d)
          /\ \A i \in Items \ {e[2]} : market'[i] = market[i]
      BY <1>3, <2>2, StateIs DEF Inv
    <3>2. /\ Deleted(market[e[2]], d) \in [Promos -> Offer]
          /\ Started(Deleted(market[e[2]], d)) \subseteq Started(market[e[2]])
      BY <3>1, DeletedIs
    <3>3. market' \in [Items -> [Promos -> Offer]]
      BY <2>2, <3>2, StateIs DEF Inv
    <3> QED
      BY <3>1, <3>2, <3>3 DEF Touches
  <2> QED
    BY <1>1, <2>1, <2>2
<1>12. out[e] = "none" /\ Begun(e) /\ posts[e] = 0 /\ Kind(e) # "update"
  BY <1>1, <1>3 DEF Sends, Begun, Waiting, BeforePost, Kinds
<1> HIDE DEF d, gone
<1>13. CASE Removed(e)
  <2>1. PICK stage \in {"removed", "removal"} :
           Goto(e, stage) /\ (stage = "removal" => Len(todo[e]) # 1)
    BY <1>13 DEF Removed
  <2>2. todo' = [todo EXCEPT ![e] = Tail(@)]
    BY <1>13 DEF Removed
  <2>3. /\ pc' \in [Executors -> AllStages] /\ out' \in [Executors -> Answers]
        /\ pc'[e] = stage /\ out'[e] = out[e]
        /\ \A f \in Executors \ {e} : pc'[f] = pc[f] /\ out'[f] = out[f]
    BY <2>1, GotoIs DEF AllStages
  <2>4. /\ todo' \in [Executors -> Seq(Promos)] /\ todo'[e] = Tail(todo[e])
        /\ \A f \in Executors \ {e} : todo'[f] = todo[f]
    BY <1>4, <2>2, StateIs DEF Inv
  <2>5. Only(e)
    BY <1>1, <1>7, <2>3, <2>4, StateIs DEF Only, Inv
  <2>6. Sends(e)'
    BY <1>1, <1>3, <1>9, <1>12, <2>3 DEF Sends, Begun, Waiting
  <2>7. Removes(e)'
    <3>1. \A i \in 1 .. Len(Tail(todo[e])) : deletes'[e][Tail(todo[e])[i]] = 0
      BY <1>4, <1>10
    <3> QED
      BY <1>4, <2>1, <2>3, <2>4, <3>1 DEF Removes
  <2>8. Kinds(e)'
    <3>1. ASSUME Kind(e) = "select"
          PROVE  \A i \in 1 .. Len(Tail(todo[e])) : Tail(todo[e])[i] = Promo(e)
      BY <1>1, <1>3, <1>4, <1>5, <3>1 DEF Kinds
    <3> QED
      BY <1>1, <1>12, <2>3, <2>4, <3>1 DEF Kinds, Around, Kind, Promo
  <2>9. Clears(e)'
    BY <1>1, <1>3, <1>11, <1>12, <2>3 DEF Clears, Alone, Around, Kind, Promo
  <2> QED
    BY <1>1, <1>11, <1>12, <2>3, <2>5, <2>6, <2>7, <2>8, <2>9, WorkStep DEF Sound, Waiting
<1>14. CASE Answer(e, "REMOVAL") /\ todo' = todo
  <2>1. /\ pc' \in [Executors -> AllStages] /\ out' \in [Executors -> Answers]
        /\ pc'[e] = "done" /\ out'[e] = "REMOVAL"
        /\ \A f \in Executors \ {e} : pc'[f] = pc[f] /\ out'[f] = out[f]
    BY <1>14, AnswerIs DEF Answers, Stages
  <2>2. Only(e)
    BY <1>1, <1>7, <1>14, <2>1, StateIs DEF Only, Inv
  <2>3. Sends(e)'
    BY <1>1, <1>3, <1>9, <1>12, <2>1 DEF Sends, Begun, Waiting, BeforePost
  <2>4. Removes(e)' /\ Kinds(e)'
    BY <2>1 DEF Removes, Kinds
  <2>5. Clears(e)'
    BY <1>1, <1>3, <1>11, <1>12, <2>1 DEF Clears, Alone, Around, Kind, Promo
  <2> QED
    BY <1>1, <1>11, <1>12, <2>1, <2>2, <2>3, <2>4, <2>5, WorkStep DEF Sound, Waiting
<1>15. CASE Goto(e, "unsureRemoval") /\ todo' = todo
  <2>1. /\ pc' \in [Executors -> AllStages] /\ out' \in [Executors -> Answers]
        /\ pc'[e] = "unsureRemoval" /\ out'[e] = out[e]
        /\ \A f \in Executors \ {e} : pc'[f] = pc[f] /\ out'[f] = out[f]
    BY <1>15, GotoIs DEF AllStages
  <2>2. Only(e)
    BY <1>1, <1>7, <1>15, <2>1, StateIs DEF Only, Inv
  <2>3. Sends(e)'
    BY <1>1, <1>3, <1>9, <1>12, <2>1 DEF Sends, Begun, Waiting
  <2>4. Removes(e)'
    BY <1>3, <1>10, <1>15, <2>1 DEF Removes, Distinct
  <2>5. Kinds(e)'
    BY <1>1, <1>3, <1>12, <1>15, <2>1 DEF Kinds, Around, Kind, Promo
  <2>6. Clears(e)'
    BY <1>1, <1>3, <1>11, <1>12, <2>1 DEF Clears, Alone, Around, Kind, Promo
  <2> QED
    BY <1>1, <1>11, <1>12, <2>1, <2>2, <2>3, <2>4, <2>5, <2>6, WorkStep DEF Sound, Waiting
<1> QED
  BY <1>2, <1>13, <1>14, <1>15

\* A promotion that is not shown any more is taken off the list.
LEMMA TakenOff ==
    ASSUME Inv, NEW e \in Executors, pc[e] = "unsureRemoval", Removed(e), Around,
           market' = market, UNCHANGED <<prior, deletes, posts>>
    PROVE  Inv'
<1>1. /\ Removes(e) /\ Sends(e) /\ Kinds(e) /\ Clears(e)
      /\ todo[e] \in Seq(Promos) /\ todo[e] # <<>> /\ Distinct(todo[e])
  BY SoundIs, StateIs DEF Removes, Inv
<1>2. /\ Tail(todo[e]) \in Seq(Promos) /\ Distinct(Tail(todo[e]))
      /\ \A i \in 1 .. Len(Tail(todo[e])) :
            Tail(todo[e])[i] = todo[e][i + 1] /\ i + 1 \in 2 .. Len(todo[e])
      /\ Len(todo[e]) # 1 => Tail(todo[e]) # <<>>
      /\ \A i \in 2 .. Len(todo[e]) : i \in 1 .. Len(todo[e])
  BY <1>1, TailIs
<1>3. PICK stage \in {"removed", "removal"} :
         Goto(e, stage) /\ (stage = "removal" => Len(todo[e]) # 1)
  BY DEF Removed
<1>4. /\ pc' \in [Executors -> AllStages] /\ out' \in [Executors -> Answers]
      /\ pc'[e] = stage /\ out'[e] = out[e]
      /\ \A f \in Executors \ {e} : pc'[f] = pc[f] /\ out'[f] = out[f]
  BY <1>3, GotoIs DEF AllStages
<1>5. todo' = [todo EXCEPT ![e] = Tail(@)]
  BY DEF Removed
<1>6. /\ todo' \in [Executors -> Seq(Promos)] /\ todo'[e] = Tail(todo[e])
      /\ \A f \in Executors \ {e} : todo'[f] = todo[f]
  BY <1>2, <1>5, StateIs DEF Inv
<1>7. Only(e) /\ Touches(e)
  BY <1>4, <1>6, StateIs DEF Only, Touches, Inv
<1>8. out[e] = "none" /\ Begun(e) /\ posts[e] = 0 /\ Kind(e) # "update"
  BY <1>1 DEF Sends, Begun, Waiting, BeforePost, Kinds
<1>9. Sends(e)'
  BY <1>1, <1>4, <1>8 DEF Sends, Begun, Waiting, Wrote
<1>10. Removes(e)'
  <2>1. \A i \in 2 .. Len(todo[e]) : deletes[e][todo[e][i]] = 0
    BY <1>1 DEF Removes
  <2>2. \A i \in 1 .. Len(Tail(todo[e])) : deletes[e][Tail(todo[e])[i]] = 0
    BY <1>2, <2>1
  <2> QED
    BY <1>2, <1>3, <1>4, <1>6, <2>2 DEF Removes
<1>11. Kinds(e)'
  <2>1. ASSUME Kind(e) = "select"
        PROVE  \A i \in 1 .. Len(Tail(todo[e])) : Tail(todo[e])[i] = Promo(e)
    BY <1>1, <1>2, <2>1 DEF Kinds
  <2> QED
    BY <1>4, <1>6, <1>8, <2>1 DEF Kinds, Around, Kind, Promo
<1>12. Clears(e)'
  BY <1>1, <1>4, <1>8 DEF Clears, Alone, Around, Kind, Promo
<1> QED
  BY <1>4, <1>7, <1>8, <1>9, <1>10, <1>11, <1>12, WorkStep DEF Sound, Waiting

LEMMA ReconcileUncertainRemovalInv ==
    ASSUME Inv, NEW e \in Executors, ReconcileUncertainRemoval(e)
    PROVE  Inv'
<1>1. /\ pc[e] = "unsureRemoval" /\ Around /\ market' = market
      /\ UNCHANGED <<prior, deletes, posts>> /\ pc[e] \notin Waiting \cup {"done"}
  BY DEF ReconcileUncertainRemoval, At, Around, mlVars, sent, Waiting
<1>2. CASE (\E a \in {"ok", "REMOVAL"} : Answer(e, a)) /\ todo' = todo
  <2>1. PICK a \in {"ok", "REMOVAL"} : Answer(e, a)
    BY <1>2
  <2>2. a \in Stages \cup {"ok"} /\ a # "CURRENT_STATE"
    BY DEF Stages
  <2>3. prior' \in [Executors -> SUBSET Promos] /\ prior' = prior
    BY <1>1, StateIs DEF Inv
  <2> QED
    BY <1>1, <1>2, <2>1, <2>2, <2>3, AnswerStep
<1>3. CASE Removed(e)
  BY <1>1, <1>3, TakenOff
<1> QED
  BY <1>2, <1>3 DEF ReconcileUncertainRemoval, GiveUpRemoval

\* Mercado Libre shows none of the promotions that had to go, so that none of them
\* is active.
LEMMA VerifyRemovalInv == ASSUME Inv, NEW e \in Executors, VerifyRemoval(e) PROVE Inv'
<1>1. /\ pc[e] = "removed" /\ Around /\ market' = market /\ todo' = todo
      /\ UNCHANGED <<deletes, posts>> /\ pc[e] \notin Waiting \cup {"done"} /\ pc[e] \in BeforePost
      /\ prior' = [prior EXCEPT ![e] = {}]
  BY DEF VerifyRemoval, At, Around, mlVars, sent, Waiting, BeforePost
<1>2. /\ prior' \in [Executors -> SUBSET Promos] /\ todo' \in [Executors -> Seq(Promos)]
      /\ \A f \in Executors \ {e} : todo'[f] = todo[f] /\ prior'[f] = prior[f]
  BY <1>1, StateIs DEF Inv
<1>3. CASE \E a \in {"ok", "REMOVAL_VERIFICATION"} : Answer(e, a)
  <2>1. PICK a \in {"ok", "REMOVAL_VERIFICATION"} : Answer(e, a)
    BY <1>3
  <2>2. a \in Stages \cup {"ok"} /\ a # "CURRENT_STATE"
    BY DEF Stages
  <2> QED
    BY <1>1, <1>2, <2>1, <2>2, AnswerStep
<1>4. CASE RemovalShown(e) /\ Kind(e) = "apply" /\ Goto(e, "revalidate")
  <2>1. Started(shown[e[2]]) \cap prior[e] = {}
    BY <1>4 DEF RemovalShown, Seen
  <2>2. ASSUME Clears(e), Alone(e), moves = 0, Kind(e) = "apply"
        PROVE  Started(market[e[2]]) \subseteq {Promo(e)}
    <3>1. posts[e] = 0
      BY <1>1, SoundIs DEF Sends
    <3>2. /\ Started(market[e[2]]) \subseteq Started(shown[e[2]])
          /\ Started(market[e[2]]) \subseteq prior[e] \cup {Promo(e)}
      BY <1>1, <2>2, <3>1 DEF Clears
    <3> QED
      BY <2>1, <3>2
  <2> QED
    BY <1>1, <1>2, <1>4, <2>2, GotoStep
<1> QED
  BY <1>3, <1>4 DEF VerifyRemoval

LEMMA RevalidateInv == ASSUME Inv, NEW e \in Executors, Revalidate(e) PROVE Inv'
<1>1. /\ pc[e] = "revalidate" /\ Around /\ market' = market /\ Nothing
      /\ UNCHANGED <<deletes, posts>> /\ pc[e] \notin Waiting \cup {"done"} /\ pc[e] \in BeforePost
      /\ Kind(e) = "apply"
  BY SoundIs DEF Revalidate, At, Around, mlVars, sent, Waiting, BeforePost, Kinds
<1>2. CASE \E a \in {"ok", "CANDIDATE_REVALIDATION"} : Answer(e, a)
  <2>1. PICK a \in {"ok", "CANDIDATE_REVALIDATION"} : Answer(e, a)
    BY <1>2
  <2>2. a \in Stages \cup {"ok"} /\ a # "CURRENT_STATE"
    BY DEF Stages
  <2> QED
    BY <1>1, <2>1, <2>2, NothingIs, AnswerStep
<1>3. CASE Goto(e, "write")
  BY <1>1, <1>3, NothingIs, GotoStep
<1> QED
  BY <1>2, <1>3 DEF Revalidate, Confirm

-----------------------------------------------------------------------------
(* Writing *)

LEMMA EffectIs ==
    ASSUME Inv, NEW e \in Executors, market' = market \/ (Writable(e) /\ Effect(e))
    PROVE  /\ Touches(e)
           /\ Kind(e) = "apply" /\ Started(market[e[2]]) \subseteq {Promo(e)} =>
                 Started(market'[e[2]]) \subseteq {Promo(e)}
<1>1. CASE market' = market
  BY <1>1, StateIs DEF Touches, Inv
<1>2. CASE Effect(e)
  <2> DEFINE i == e[2]
             p == Promo(e)
  <2>1. i \in Items /\ p \in Promos /\ Price(e) \in Prices /\ market[i] \in [Promos -> Offer]
        /\ market \in [Items -> [Promos -> Offer]]
    BY ExecutorIs, AskedIs, StateIs DEF Inv
  <2>2. PICK status \in {"none", "candidate", "pending", "started"} :
           market' = [market EXCEPT ![i][p] = [status |-> status,
                        price |-> IF p \in Unpriced THEN 0 ELSE Price(e)]]
    BY <1>2, <2>1, OfferIs DEF Effect
  <2> DEFINE o == [status |-> status, price |-> IF p \in Unpriced THEN 0 ELSE Price(e)]
             new == [market[i] EXCEPT ![p] = o]
  <2>3. o \in Offer
    BY <2>1 DEF Offer
  <2>4. market' = [market EXCEPT ![i] = new]
    BY <2>2
  <2> HIDE DEF o
  <2>5. new \in [Promos -> Offer] /\ \A q \in Promos \ {p} : new[q] = market[i][q]
    BY <2>1, <2>3
  <2> HIDE DEF new
  <2>6. market' \in [Items -> [Promos -> Offer]] /\ market'[i] = new
        /\ \A j \in Items \ {i} : market'[j] = market[j]
    BY <2>1, <2>4, <2>5
  <2>7. Started(new) \subseteq Started(market[i]) \cup {p}
    BY <2>5 DEF Started
  <2> QED
    BY <2>6, <2>7 DEF Touches
<1> QED
  BY <1>1, <1>2

LEMMA WriteInv == ASSUME Inv, NEW e \in Executors, Write(e) PROVE Inv'
<1>1. /\ pc[e] = "write" /\ Around /\ posts' = [posts EXCEPT ![e] = @ + 1]
      /\ UNCHANGED <<todo, prior, deletes>>
      /\ (market' = market \/ (Writable(e) /\ Effect(e)))
  BY DEF Write, At, Around
<1>2. \/ Goto(e, "written") \/ Goto(e, "unsure") \/ Answer(e, "APPLICATION")
  BY DEF Write
<1>3. /\ Sends(e) /\ Kinds(e) /\ Clears(e) /\ posts[e] = 0 /\ out[e] = "none" /\ Begun(e)
      /\ Kind(e) \in {"apply", "update"}
  BY <1>1, SoundIs DEF Sends, Begun, Waiting, BeforePost, Kinds
<1>4. /\ posts' \in [Executors -> Nat] /\ posts'[e] = 1
      /\ \A f \in Executors \ {e} : posts'[f] = posts[f]
  BY <1>1, <1>3, StateIs DEF Inv
<1>5. /\ Touches(e)
      /\ Kind(e) = "apply" /\ Started(market[e[2]]) \subseteq {Promo(e)} =>
            Started(market'[e[2]]) \subseteq {Promo(e)}
  BY <1>1, EffectIs
<1>6. ASSUME NEW stage \in {"written", "unsure", "done"}, NEW a \in Answers,
             a \notin {"PRE_FLIGHT", "CURRENT_STATE"}, (stage # "done" => a = "none"),
             pc' \in [Executors -> AllStages], out' \in [Executors -> Answers],
             pc'[e] = stage, out'[e] = a,
             \A f \in Executors \ {e} : pc'[f] = pc[f] /\ out'[f] = out[f]
      PROVE  Inv'
  <2>1. Only(e)
    <3>1. /\ todo' \in [Executors -> Seq(Promos)] /\ prior' \in [Executors -> SUBSET Promos]
          /\ deletes' \in [Executors -> [Promos -> Nat]]
      BY <1>1, StateIs DEF Inv
    <3> QED
      BY <1>1, <1>4, <1>6, <3>1 DEF Only
  <2>2. Sends(e)'
    <3>1. pc'[e] \notin BeforePost /\ pc'[e] # "current" /\ Begun(e)'
      BY <1>6 DEF BeforePost, Waiting, Begun
    <3>2. \A p \in Promos : deletes'[e][p] <= 1
      BY <1>1, <1>3 DEF Sends
    <3>3. out'[e] # "CURRENT_STATE" /\ (pc'[e] # "done" => out'[e] = "none") /\ posts'[e] <= 1
      BY <1>4, <1>6
    <3> QED
      BY <3>1, <3>2, <3>3 DEF Sends
  <2>3. Removes(e)'
    BY <1>6 DEF Removes
  <2>4. Kinds(e)'
    BY <1>1, <1>3, <1>6 DEF Kinds, Around, Kind, Promo
  <2>5. Clears(e)'
    BY <1>1, <1>3, <1>4, <1>5, <1>6 DEF Clears, Alone, Around, Kind, Promo
  <2> QED
    BY <1>1, <1>3, <1>5, <1>6, <2>1, <2>2, <2>3, <2>4, <2>5, WorkStep DEF Sound, Waiting
<1>7. CASE Goto(e, "written") \/ Goto(e, "unsure")
  <2>1. PICK stage \in {"written", "unsure"} : Goto(e, stage)
    BY <1>7
  <2>2. /\ pc' \in [Executors -> AllStages] /\ out' \in [Executors -> Answers]
        /\ pc'[e] = stage /\ out'[e] = "none"
        /\ \A f \in Executors \ {e} : pc'[f] = pc[f] /\ out'[f] = out[f]
    BY <1>3, <2>1, GotoIs DEF AllStages
  <2> QED
    BY <1>6, <2>2 DEF Answers
<1>8. CASE Answer(e, "APPLICATION")
  <2>1. /\ pc' \in [Executors -> AllStages] /\ out' \in [Executors -> Answers]
        /\ pc'[e] = "done" /\ out'[e] = "APPLICATION" /\ "APPLICATION" \in Answers
        /\ \A f \in Executors \ {e} : pc'[f] = pc[f] /\ out'[f] = out[f]
    BY <1>8, AnswerIs DEF Answers, Stages
  <2> QED
    BY <1>6, <2>1
<1> QED
  BY <1>2, <1>7, <1>8

LEMMA ReconcileUncertainWriteInv ==
    ASSUME Inv, NEW e \in Executors, ReconcileUncertainWrite(e)
    PROVE  Inv'
<1>1. /\ pc[e] = "unsure" /\ Around /\ market' = market
      /\ UNCHANGED <<todo, prior, deletes, posts>> /\ pc[e] \notin Waiting \cup {"done"}
      /\ Kind(e) \in {"apply", "update"}
  BY SoundIs DEF ReconcileUncertainWrite, At, Around, mlVars, sent, Waiting, Kinds
<1>2. Nothing
  BY <1>1 DEF Nothing
<1>3. CASE \E a \in {"ok", "APPLICATION"} : Answer(e, a)
  <2>1. PICK a \in {"ok", "APPLICATION"} : Answer(e, a)
    BY <1>3
  <2>2. a \in Stages \cup {"ok"} /\ a # "CURRENT_STATE"
    BY DEF Stages
  <2> QED
    BY <1>1, <1>2, <2>1, <2>2, NothingIs, AnswerStep
<1>4. CASE Goto(e, "written")
  BY <1>1, <1>2, <1>4, NothingIs, GotoStep
<1> QED
  BY <1>3, <1>4 DEF ReconcileUncertainWrite, GiveUpWrite

LEMMA VerifyWriteInv == ASSUME Inv, NEW e \in Executors, VerifyWrite(e) PROVE Inv'
<1>1. /\ pc[e] = "written" /\ Around /\ market' = market
      /\ UNCHANGED <<todo, prior, deletes, posts>> /\ pc[e] \notin Waiting \cup {"done"}
  BY DEF VerifyWrite, At, Around, mlVars, sent, Waiting
<1>2. Nothing
  BY <1>1 DEF Nothing
<1>3. PICK a \in {"ok", "APPLICATION_VERIFICATION"} : Answer(e, a)
  BY DEF VerifyWrite
<1>4. a \in Stages \cup {"ok"} /\ a # "CURRENT_STATE"
  BY DEF Stages
<1> QED
  BY <1>1, <1>2, <1>3, <1>4, NothingIs, AnswerStep

-----------------------------------------------------------------------------
(* Mercado Libre, and the beginning *)

\* What the executors know of themselves does not change.
LEMMA MarketStep ==
    ASSUME Inv, UNCHANGED <<asked, pc, out, todo, prior, deletes, posts>>, TypeOK',
           moves' # 0 \/ (market' = market /\ moves' = moves
                          /\ \A i \in Items : shown'[i] \in {shown[i], market[i]})
    PROVE  Inv'
<1>1. Together'
  BY DEF Inv, Together, Begun
<1>2. ASSUME NEW e \in Executors PROVE Sound(e)'
  <2>1. Sends(e)' /\ Removes(e)' /\ Kinds(e)'
    BY SoundIs DEF Sends, Removes, Kinds, Wrote, Begun, Kind, Promo
  <2>2. Clears(e)'
    <3>1. CASE moves' # 0
      BY <3>1 DEF Clears
    <3>2. CASE market' = market /\ moves' = moves /\ shown'[e[2]] \in {shown[e[2]], market[e[2]]}
      BY <3>2, SoundIs DEF Clears, Alone, Kind, Promo
    <3> QED
      BY <3>1, <3>2, ExecutorIs
  <2> QED
    BY <2>1, <2>2 DEF Sound
<1> QED
  BY <1>1, <1>2 DEF Inv

LEMMA MoveInv == ASSUME Inv, NEW i \in Items, NEW p \in Promos, Move(i, p) PROVE Inv'
<1>1. /\ UNCHANGED <<asked, pc, out, todo, prior, deletes, posts, shown, faults>>
      /\ moves + faults < MaxTrouble /\ moves' = moves + 1
  BY DEF Move, sent
<1>2. moves' # 0 /\ moves' \in Nat /\ moves' + faults <= MaxTrouble
  BY <1>1, StateIs, PromotionAssumption DEF Inv
<1>3. PICK status \in {"candidate", "none", "started"}, price \in Prices \cup {0} :
         market' = [market EXCEPT ![i][p] = [status |-> status, price |-> price]]
  BY DEF Move
<1>4. market' \in [Items -> [Promos -> Offer]]
  <2>1. [status |-> status, price |-> price] \in Offer
    BY DEF Offer
  <2>2. market[i] \in [Promos -> Offer] /\ market \in [Items -> [Promos -> Offer]]
    BY StateIs DEF Inv
  <2> DEFINE o == [status |-> status, price |-> price]
  <2> HIDE DEF o
  <2>3. [market[i] EXCEPT ![p] = o] \in [Promos -> Offer]
    BY <2>1, <2>2 DEF o
  <2>4. market' = [market EXCEPT ![i] = [market[i] EXCEPT ![p] = o]]
    BY <1>3 DEF o
  <2> QED
    BY <2>2, <2>3, <2>4
<1>5. TypeOK'
  BY <1>1, <1>2, <1>4 DEF Inv, TypeOK
<1> QED
  BY <1>1, <1>2, <1>5, MarketStep

LEMMA CatchUpInv == ASSUME Inv, NEW i \in Items, CatchUp(i) PROVE Inv'
<1>1. /\ UNCHANGED <<asked, pc, out, todo, prior, deletes, posts, market, moves, faults>>
      /\ shown' = [shown EXCEPT ![i] = market[i]]
  BY DEF CatchUp, sent
<1>2. /\ shown' \in [Items -> [Promos -> Offer]]
      /\ \A j \in Items : shown'[j] \in {shown[j], market[j]}
  BY <1>1, StateIs DEF Inv
<1>3. TypeOK'
  BY <1>1, <1>2 DEF Inv, TypeOK
<1> QED
  BY <1>1, <1>2, <1>3, MarketStep

LEMMA InvInit == Init => Inv
<1> SUFFICES ASSUME Init PROVE Inv
  OBVIOUS
<1>1. /\ pc = [e \in Executors |-> IF Kind(e) \in {"apply", "remove"} THEN "preflight" ELSE "current"]
      /\ todo = [e \in Executors |-> <<>>] /\ prior = [e \in Executors |-> {}]
      /\ out = [e \in Executors |-> "none"]
      /\ deletes = [e \in Executors |-> [p \in Promos |-> 0]]
      /\ posts = [e \in Executors |-> 0] /\ moves = 0 /\ faults = 0 /\ shown = market
  BY DEF Init, Kind
<1>2. asked \in [Requests -> Asked] /\ market \in [Items -> [Promos -> Offer]]
  BY PromotionAssumption DEF Init
<1>3. pc \in [Executors -> AllStages] /\ out \in [Executors -> Answers]
  BY <1>1 DEF AllStages, Answers
<1>4. moves + faults <= MaxTrouble
  BY <1>1, PromotionAssumption
<1>5. todo \in [Executors -> Seq(Promos)] /\ prior \in [Executors -> SUBSET Promos]
  BY <1>1
<1>6. deletes \in [Executors -> [Promos -> Nat]] /\ posts \in [Executors -> Nat]
  BY <1>1
<1>7. TypeOK
  BY <1>1, <1>2, <1>3, <1>4, <1>5, <1>6 DEF TypeOK, AllStages, Answers
<1>8. Together
  BY <1>1 DEF Together, Begun, Waiting, Kind
<1>9. ASSUME NEW e \in Executors PROVE Sound(e)
  <2>1. pc[e] \in {"preflight", "current"} /\ out[e] = "none" /\ posts[e] = 0
        /\ \A p \in Promos : deletes[e][p] = 0
    BY <1>1
  <2>2. Sends(e)
    BY <2>1 DEF Sends, Wrote
  <2>3. Removes(e) /\ Kinds(e)
    BY <2>1 DEF Removes, Kinds
  <2>4. Clears(e)
    BY <1>1, <2>1 DEF Clears
  <2> QED
    BY <2>2, <2>3, <2>4 DEF Sound
<1> QED
  BY <1>7, <1>8, <1>9 DEF Inv

LEMMA InvStep == Inv /\ [Next]_vars => Inv'
<1> SUFFICES ASSUME Inv, [Next]_vars PROVE Inv'
  OBVIOUS
<1>1. CASE UNCHANGED vars
  <2>1. UNCHANGED <<asked, pc, out, todo, prior, deletes, posts, market, shown, moves, faults>>
    BY <1>1 DEF vars, mlVars, sent
  <2>2. TypeOK'
    BY <2>1 DEF Inv, TypeOK
  <2> QED
    BY <2>1, <2>2, MarketStep
<1>2. ASSUME NEW e \in Executors, Work(e) PROVE Inv'
  BY <1>2, PreflightInv, CurrentInv, RemoveSafelyInv, ReconcileUncertainRemovalInv,
     VerifyRemovalInv, RevalidateInv, WriteInv, ReconcileUncertainWriteInv, VerifyWriteInv DEF Work
<1> QED
  BY <1>1, <1>2, AssertInv, CatchUpInv, MoveInv DEF Next

-----------------------------------------------------------------------------
(* The theorems *)

\* Every reachable state of the changes satisfies the inductive invariant.
THEOREM Invariance == Spec => []Inv
BY InvInit, InvStep, PTL DEF Spec

\* The promotions, the stages and the locals keep their types.
THEOREM TypeCorrect == Spec => []TypeOK
<1>1. Inv => TypeOK
  BY DEF Inv
<1> QED
  BY <1>1, Invariance, PTL

\* assertAllApplicable: no item of a request is written while one may turn out not
\* to be applicable, nor one whose state was not what was wanted.
THEOREM RefusalsTouchNothing == Spec => []RefusedIsUntouched
<1>1. Inv => RefusedIsUntouched
  <2> SUFFICES ASSUME Inv, NEW e \in Executors, Wrote(e)
               PROVE  /\ out[e] \notin {"PRE_FLIGHT", "CURRENT_STATE"}
                      /\ \A f \in Own(e[1]) : pc[f] \notin {"preflight", "ready", "unfit"}
                                              /\ out[f] # "PRE_FLIGHT"
    BY DEF RefusedIsUntouched, Wrote
  <2>1. Begun(e) /\ out[e] # "CURRENT_STATE"
    BY SoundIs DEF Sends
  <2>2. \A f \in Own(e[1]) : Begun(f)
    BY <2>1 DEF Own, Inv, Together
  <2> QED
    BY <2>1, <2>2 DEF Begun, Waiting
<1> QED
  BY <1>1, Invariance, PTL

\* writeSafely and removeSafely send each write once, and read when they do not
\* know what became of it.
THEOREM WrittenOnce == Spec => []WritesAreNotRepeated
<1>1. Inv => WritesAreNotRepeated
  BY DEF Inv, Sound, Sends, WritesAreNotRepeated
<1> QED
  BY <1>1, Invariance, PTL

\* A successful application of an executor that is alone leaves its promotion as
\* the only active one, late as Mercado Libre may show the removals.
THEOREM OneStarted == Spec => []LeavesOneStarted
<1>1. Inv => LeavesOneStarted
  <2> SUFFICES ASSUME Inv, NEW e \in Executors, moves = 0, Kind(e) = "apply", Alone(e),
                      posts[e] > 0
               PROVE  Started(market[e[2]]) \subseteq {Promo(e)}
    BY DEF LeavesOneStarted, Alone
  <2> QED
    BY SoundIs DEF Clears
<1> QED
  BY <1>1, Invariance, PTL

\* An executor that answers saw what was asked for.
Shows(e) == out[e] # "ok" /\ out'[e] = "ok" => Fulfilled(e)

LEMMA ShowsStep == ASSUME Inv, [Next]_vars, NEW e \in Executors PROVE Shows(e)
<1> SUFFICES ASSUME out[e] # "ok", out'[e] = "ok" PROVE Fulfilled(e)
  BY DEF Shows
<1>1. out' # out
  OBVIOUS
<1>2. ASSUME NEW f \in Executors, NEW stage, Goto(f, stage) PROVE FALSE
  BY <1>1, <1>2 DEF Goto
<1>3. ASSUME NEW f \in Executors, NEW a, Answer(f, a) PROVE f = e /\ a = "ok"
  <2>1. out \in [Executors -> Answers] /\ out' = [out EXCEPT ![f] = a]
    BY <1>3, StateIs DEF Inv, Answer
  <2> QED
    BY <2>1
<1>4. /\ Kinds(e) /\ Removes(e) /\ Kind(e) \in {"apply", "update", "remove", "select"}
      /\ todo \in [Executors -> Seq(Promos)]
  BY SoundIs, AskedIs, StateIs
<1>5. Found(e) /\ RightPrice(e) /\ Kind(e) \in {"apply", "update"} => Fulfilled(e)
  BY DEF Fulfilled, RightPrice
<1>6. ASSUME NEW f \in Executors, Current(f) PROVE Fulfilled(e)
  <2>1. f = e
    BY <1>2, <1>3, <1>6 DEF Current, CurrentApply, CurrentRemove, CurrentUpdate, Confirm
  <2>2. CASE CurrentApply(e)
    BY <1>2, <1>3, <1>5, <2>2 DEF CurrentApply, Confirm
  <2>3. CASE CurrentRemove(e)
    <3>1. Doomed(e) = {} /\ Kind(e) \in {"remove", "select"}
      BY <1>2, <2>3 DEF CurrentRemove
    <3>2. CASE Kind(e) = "remove"
      BY <3>1, <3>2 DEF Fulfilled, Doomed
    <3>3. CASE Kind(e) = "select"
      BY <3>1, <3>3, AskedIs, SoundIs DEF Fulfilled, Doomed, Participating, Found
    <3> QED
      BY <3>1, <3>2, <3>3
  <2>4. CASE CurrentUpdate(e)
    BY <1>2, <1>3, <1>5, <2>4 DEF CurrentUpdate, MayUpdate
  <2>5. CASE Answer(e, "CURRENT_STATE")
    BY <1>3, <2>5
  <2> QED
    BY <1>6, <2>1, <2>2, <2>3, <2>4, <2>5 DEF Current
<1>7. ASSUME NEW f \in Executors, RemoveSafely(f) PROVE FALSE
  BY <1>2, <1>3, <1>7 DEF RemoveSafely, Removed
<1>8. ASSUME NEW f \in Executors, ReconcileUncertainRemoval(f) PROVE Fulfilled(e)
  <2>1. /\ f = e /\ ~In(Seen(e), Head(todo[e])) /\ Kind(e) = "select" /\ pc[e] = "unsureRemoval"
    BY <1>2, <1>3, <1>8 DEF ReconcileUncertainRemoval, GiveUpRemoval, Removed, At
  <2>2. todo[e] # <<>> /\ \A i \in 1 .. Len(todo[e]) : todo[e][i] = Promo(e)
    BY <1>4, <2>1 DEF Kinds, Removes
  <2>3. Head(todo[e]) = Promo(e)
    BY <1>4, <2>2
  <2> QED
    BY <2>1, <2>3 DEF Fulfilled, Found
<1>9. ASSUME NEW f \in Executors, VerifyRemoval(f) PROVE Fulfilled(e)
  <2>1. f = e /\ RemovalShown(e) /\ Kind(e) # "apply" /\ pc[e] = "removed"
    BY <1>2, <1>3, <1>9 DEF VerifyRemoval, At
  <2> QED
    BY <1>4, <2>1 DEF RemovalShown, Fulfilled, Kinds
<1>10. ASSUME NEW f \in Executors, Revalidate(f) PROVE Fulfilled(e)
  <2>1. f = e /\ Found(e) /\ RightPrice(e) /\ pc[e] = "revalidate"
    BY <1>2, <1>3, <1>10 DEF Revalidate, Confirm, At
  <2> QED
    BY <1>4, <1>5, <2>1 DEF Kinds
<1>11. ASSUME NEW f \in Executors, Write(f) PROVE FALSE
  BY <1>2, <1>3, <1>11 DEF Write
<1>12. ASSUME NEW f \in Executors, ReconcileUncertainWrite(f) PROVE Fulfilled(e)
  <2>1. f = e /\ Reconciled(e) /\ Kind(e) = "update"
    BY <1>2, <1>3, <1>12 DEF ReconcileUncertainWrite, GiveUpWrite
  <2> QED
    BY <1>5, <2>1 DEF Reconciled
<1>13. ASSUME NEW f \in Executors, VerifyWrite(f) PROVE Fulfilled(e)
  <2>1. f = e /\ Found(e) /\ RightPrice(e) /\ pc[e] = "written"
    BY <1>3, <1>13 DEF VerifyWrite, At
  <2> QED
    BY <1>4, <1>5, <2>1 DEF Kinds
<1>14. ASSUME NEW f \in Executors, Preflight(f) PROVE FALSE
  BY <1>2, <1>14 DEF Preflight
<1>15. ASSUME NEW r \in Requests, AssertAllApplicable(r) PROVE FALSE
  BY <1>15 DEF AssertAllApplicable
<1> QED
  BY <1>1, <1>6, <1>7, <1>8, <1>9, <1>10, <1>11, <1>12, <1>13, <1>14, <1>15
     DEF Next, Work, Move, CatchUp, vars

\* PublicationPromotionExecutorService answers with success only what Mercado
\* Libre has shown it.
THEOREM SuccessShown == Spec => SuccessWasShown
<1>1. Inv /\ [Next]_vars => [\A e \in Executors : Shows(e)]_vars
  BY ShowsStep
<1>2. SuccessWasShown <=> [][\A e \in Executors : Shows(e)]_vars
  BY PTL DEF SuccessWasShown, Shows
<1> QED
  BY <1>1, <1>2, Invariance, PTL DEF Spec

=============================================================================

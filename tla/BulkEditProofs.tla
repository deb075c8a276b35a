---------------------------- MODULE BulkEditProofs ----------------------------
(***************************************************************************)
(* Proofs about BulkEdit, for any set of variants, size of the batches,    *)
(* number of invocations and attempts, and for every bound on expired       *)
(* leases, faults and retries of the user.                                  *)
(***************************************************************************)
EXTENDS BulkEdit, FiniteSetTheorems, TLAPS

\* What an invocation has been told is applied.
YesIsApplied == \A w \in Workers : wk[w].yes \subseteq applied

\* The inductive invariant behind SuccessIsApplied and CompletedIsSettled.
Inv == TypeOK /\ YesIsApplied /\ SuccessIsApplied /\ CompletedIsSettled

Stage == {"idle", "find", "claim"} \cup AtWork

-----------------------------------------------------------------------------
(* Invocations *)

LEMMA WithType ==
    ASSUME NEW status PROVE Cardinality(With(status)) \in Nat
BY BulkEditAssumption, FS_Subset, FS_CardinalityType DEF With

LEMMA BlankType == Blank \in Local /\ Blank.yes = {}
BY BulkEditAssumption DEF Blank, Local, Tokens

\* An invocation that goes on with right locals, or ends, keeps their types.
LEMMA GotoType ==
    ASSUME TypeOK, NEW w \in Workers, NEW stage \in Stage, NEW local \in Local,
           Goto(w, stage, local)
    PROVE  /\ messages' \in [Tokens -> Nat]
           /\ pc' \in [Workers -> Stage] /\ wk' \in [Workers -> Local]
           /\ wk'[w] = local /\ \A v \in Workers \ {w} : wk'[v] = wk[v]
BY DEF TypeOK, Goto, Stage

LEMMA ReturnType ==
    ASSUME TypeOK, NEW w \in Workers, NEW more \in BOOLEAN, Return(w, more)
    PROVE  /\ messages' \in [Tokens -> Nat]
           /\ pc' \in [Workers -> Stage] /\ wk' \in [Workers -> Local]
           /\ wk'[w].yes = {} /\ \A v \in Workers \ {w} : wk'[v] = wk[v]
<1>1. wk[w] \in Local /\ wk[w].token \in Tokens
  BY DEF TypeOK, Local
<1>2. pc' \in [Workers -> Stage] /\ wk' \in [Workers -> Local]
      /\ wk'[w].yes = {} /\ \A v \in Workers \ {w} : wk'[v] = wk[v]
  BY BlankType DEF Return, TypeOK, Stage
<1>3. messages' \in [Tokens -> Nat]
  <2>1. messages' = [messages EXCEPT ![wk[w].token] = @ + (IF more THEN 1 ELSE 0)]
    BY DEF Return
  <2>2. messages[wk[w].token] + (IF more THEN 1 ELSE 0) \in Nat
    BY <1>1 DEF TypeOK
  <2> QED
    BY <1>1, <2>1, <2>2 DEF TypeOK
<1> QED
  BY <1>2, <1>3

\* Either way; what follows is about Moved only.
Moved(w) ==
    /\ messages' \in [Tokens -> Nat]
    /\ pc' \in [Workers -> Stage] /\ wk' \in [Workers -> Local]
    /\ wk'[w].yes \subseteq applied'
    /\ \A v \in Workers \ {w} : wk'[v] = wk[v]

LEMMA Goes ==
    ASSUME Inv, NEW w \in Workers, NEW stage \in Stage, NEW local \in Local,
           local.yes \subseteq applied', Goto(w, stage, local)
    PROVE  Moved(w)
BY GotoType DEF Moved, Inv

LEMMA Thens ==
    ASSUME Inv, NEW w \in Workers, NEW stage \in Stage, applied \subseteq applied', Then(w, stage)
    PROVE  Moved(w)
<1>1. wk[w] \in Local /\ wk[w].yes \subseteq applied'
  BY DEF Inv, TypeOK, YesIsApplied
<1> QED
  BY <1>1, Goes DEF Then

LEMMA Returns ==
    ASSUME Inv, NEW w \in Workers, NEW more \in BOOLEAN, Return(w, more)
    PROVE  Moved(w)
BY ReturnType DEF Moved, Inv

LEMMA StagesAre ==
    /\ "idle" \in Stage /\ "find" \in Stage /\ "claim" \in Stage /\ "take" \in Stage
    /\ "patch" \in Stage /\ "verify" \in Stage /\ "finish" \in Stage /\ "retry" \in Stage
    /\ "refresh" \in Stage
BY DEF Stage, AtWork

\* The locals with which a verdict is written.
Told(w, yes, trying) == [wk[w] EXCEPT !.yes = yes, !.unsure = {}, !.trying = trying]

LEMMA ToldGoes ==
    ASSUME Inv, NEW w \in Workers, NEW yes \in SUBSET Items, yes \subseteq applied',
           Goto(w, "finish", Told(w, yes, TRUE)) \/ Goto(w, "finish", Told(w, yes, FALSE))
    PROVE  Moved(w)
<1>1. /\ Told(w, yes, TRUE) \in Local /\ Told(w, yes, TRUE).yes = yes
      /\ Told(w, yes, FALSE) \in Local /\ Told(w, yes, FALSE).yes = yes
  BY DEF Told, Inv, TypeOK, Local
<1> QED
  BY <1>1, Goes, StagesAre

-----------------------------------------------------------------------------
(* Rows *)

\* A step that moves w and writes the rows: what is left to show of it.
LEMMA MovedInv ==
    ASSUME Inv, NEW w \in Workers, Moved(w), applied \subseteq applied', applied' \subseteq Items,
           job' \in Job, item' \in [Items -> ItemStatus], attempts' \in [Items -> Nat],
           age' \in [Items -> {"held", "young", "old"}],
           dispatched' = dispatched, slow' = slow, faults' \in 0 .. MaxFaults,
           \A i \in Items : item'[i] = "SUCCESS" => i \in applied',
           CompletedIsSettled'
    PROVE  Inv'
<1>1. TypeOK'
  BY DEF Inv, TypeOK, Moved, Stage
<1>2. YesIsApplied'
  BY DEF Inv, YesIsApplied, Moved
<1>3. SuccessIsApplied'
  BY DEF SuccessIsApplied, With
<1> QED
  BY <1>1, <1>2, <1>3 DEF Inv

\* The items of a job that is not completed may change.
LEMMA NotCompleted ==
    ASSUME job'.status \notin Completed PROVE CompletedIsSettled'
BY DEF CompletedIsSettled

LEMMA SameRows ==
    ASSUME Inv, UNCHANGED <<item, job>> PROVE CompletedIsSettled'
BY DEF Inv, CompletedIsSettled, With

\* A step that moves w and leaves the rows alone.
LEMMA ReadingStep ==
    ASSUME Inv, NEW w \in Workers, Moved(w), applied \subseteq applied', applied' \subseteq Items,
           UNCHANGED <<rowVars, dispatched, slow>>, faults' \in 0 .. MaxFaults
    PROVE  Inv'
<1>1. CompletedIsSettled'
  BY SameRows DEF rowVars
<1> QED
  BY <1>1, MovedInv DEF Inv, TypeOK, rowVars, SuccessIsApplied, With

LEMMA LeftType ==
    ASSUME TypeOK, Left PROVE age' \in [Items -> {"held", "young", "old"}]
BY DEF TypeOK, Left

LEMMA JudgedType ==
    ASSUME Inv, NEW w \in Workers
    PROVE  /\ Judged(w) \in [Items -> ItemStatus]
           /\ \A i \in Items : Judged(w)[i] = "SUCCESS" => i \in applied
           /\ \A i \in Items : item[i] \in {"SUCCESS", "ERROR"} => Judged(w)[i] = item[i]
BY DEF Judged, Verdict, ItemStatus, Inv, TypeOK, YesIsApplied, SuccessIsApplied, With

-----------------------------------------------------------------------------
(* The steps of an invocation *)

LEMMA DeliverStep == ASSUME Inv, NEW w \in Workers, Deliver(w) PROVE Inv'
<1>1. PICK t \in Tokens :
        /\ messages[t] > 0 /\ messages' = [messages EXCEPT ![t] = @ - 1]
        /\ pc' = [pc EXCEPT ![w] = "find"] /\ wk' = [wk EXCEPT ![w].token = t]
  BY DEF Deliver
<1>2. wk[w] \in Local /\ wk[w].yes \subseteq applied
  BY DEF Inv, TypeOK, YesIsApplied
<1>3. messages' \in [Tokens -> Nat]
  <2>1. messages[t] \in Nat /\ messages[t] - 1 \in Nat
    BY <1>1 DEF Inv, TypeOK
  <2> QED
    BY <1>1, <2>1 DEF Inv, TypeOK
<1>4. /\ [wk[w] EXCEPT !.token = t] \in Local
      /\ [wk[w] EXCEPT !.token = t].yes = wk[w].yes
  BY <1>2 DEF Local
<1>5. /\ wk' \in [Workers -> Local] /\ wk'[w].yes = wk[w].yes
      /\ \A v \in Workers \ {w} : wk'[v] = wk[v]
  BY <1>1, <1>4 DEF Inv, TypeOK
<1>6. pc' \in [Workers -> Stage]
  BY <1>1, StagesAre DEF Inv, TypeOK, Stage
<1>7. UNCHANGED <<rowVars, applied, dispatched, slow, faults>>
  BY DEF Deliver
<1>8. Moved(w)
  BY <1>2, <1>3, <1>5, <1>6, <1>7 DEF Moved
<1> QED
  BY <1>7, <1>8, ReadingStep DEF Inv, TypeOK

LEMMA FindStep == ASSUME Inv, NEW w \in Workers, Find(w) PROVE Inv'
<1>1. UNCHANGED <<rowVars, applied, dispatched, slow, faults>>
  BY DEF Find
<1>2. Moved(w)
  BY <1>1, Returns, Thens, StagesAre DEF Find
<1> QED
  BY <1>1, <1>2, ReadingStep DEF Inv, TypeOK

LEMMA ClaimJobStep == ASSUME Inv, NEW w \in Workers, ClaimJob(w) PROVE Inv'
<1>1. UNCHANGED <<item, attempts, age, applied, dispatched, slow, faults>>
  BY DEF ClaimJob
<1>2. CASE Claimable(w)
  <2>1. job' = [job EXCEPT !.status = "RUNNING", !.lease = "live"] /\ Then(w, "take")
    BY <1>2 DEF ClaimJob
  <2>2. job' \in Job /\ job'.status = "RUNNING"
    BY <2>1 DEF Inv, TypeOK, Job
  <2>3. Moved(w)
    BY <1>1, <2>1, Thens, StagesAre
  <2>4. CompletedIsSettled'
    BY <2>2, NotCompleted DEF Completed
  <2> QED
    BY <1>1, <2>2, <2>3, <2>4, MovedInv DEF Inv, TypeOK, SuccessIsApplied, With
<1>3. CASE ~Claimable(w)
  <2>1. job' = job /\ Return(w, TRUE)
    BY <1>3 DEF ClaimJob
  <2>2. Moved(w)
    BY <2>1, Returns
  <2> QED
    BY <1>1, <2>1, <2>2, ReadingStep DEF Inv, TypeOK, rowVars
<1> QED
  BY <1>2, <1>3

LEMMA ClaimItemsStep == ASSUME Inv, NEW w \in Workers, ClaimItems(w) PROVE Inv'
<1>1. PICK picked \in SUBSET Free :
         /\ Cardinality(picked) = IF ~Leased(w) THEN 0
              ELSE IF Cardinality(Free) < Batch THEN Cardinality(Free) ELSE Batch
         /\ item' = [i \in Items |-> IF i \in picked THEN "PROCESSING"
                       ELSE IF Leased(w) /\ i \in Free THEN "PENDING" ELSE item[i]]
         /\ attempts' = [i \in Items |-> IF i \in picked THEN Counted(attempts[i]) ELSE attempts[i]]
         /\ age' = [i \in Items |-> IF i \in picked THEN "held" ELSE age[i]]
         /\ IF picked = {} THEN Then(w, "refresh")
            ELSE Goto(w, "patch", [wk[w] EXCEPT !.items = picked])
  BY DEF ClaimItems
<1>2. UNCHANGED <<job, applied, dispatched, slow, faults>>
  BY DEF ClaimItems
<1>3. Free \subseteq Items
  BY DEF Free, With
<1>4. /\ item' \in [Items -> ItemStatus]
      /\ \A i \in Items : item'[i] = "SUCCESS" => item[i] = "SUCCESS"
  BY <1>1 DEF Inv, TypeOK, ItemStatus
<1>5. attempts' \in [Items -> Nat]
  <2>1. \A n \in Nat : Counted(n) \in Nat
    BY DEF Counted
  <2> QED
    BY <1>1, <2>1 DEF Inv, TypeOK
<1>6. age' \in [Items -> {"held", "young", "old"}]
  BY <1>1 DEF Inv, TypeOK
<1>7. Moved(w)
  <2>1. CASE picked = {}
    BY <1>1, <1>2, <2>1, Thens, StagesAre
  <2>2. CASE picked # {}
    <3>1. /\ [wk[w] EXCEPT !.items = picked] \in Local
          /\ [wk[w] EXCEPT !.items = picked].yes = wk[w].yes
      BY <1>3 DEF Inv, TypeOK, Local
    <3>2. wk[w].yes \subseteq applied'
      BY <1>2 DEF Inv, YesIsApplied
    <3> QED
      BY <1>1, <2>2, <3>1, <3>2, Goes, StagesAre
  <2> QED
    BY <2>1, <2>2
<1>8. CompletedIsSettled'
  <2>1. CASE Leased(w)
    BY <2>1, <1>2, NotCompleted DEF Leased, Completed
  <2>2. CASE ~Leased(w)
    <3>1. picked = {}
      BY <1>1, <1>3, <2>2, BulkEditAssumption, FS_Subset, FS_EmptySet
    <3>2. item' = item
      BY <1>1, <2>2, <3>1 DEF Inv, TypeOK
    <3> QED
      BY <1>2, <3>2, SameRows
  <2> QED
    BY <2>1, <2>2
<1> QED
  BY <1>2, <1>4, <1>5, <1>6, <1>7, <1>8, MovedInv DEF Inv, TypeOK, SuccessIsApplied, With

LEMMA PatchStep == ASSUME Inv, NEW w \in Workers, Patch(w) PROVE Inv'
<1>1. PICK done \in SUBSET wk[w].items :
        /\ applied' = applied \cup done
        /\ \/ \E unsure \in SUBSET wk[w].items :
                Goto(w, "verify", [wk[w] EXCEPT !.yes = done \ unsure, !.unsure = unsure])
           \/ done = {} /\ Finishing(w, {}, FALSE)
           \/ Then(w, "retry")
  BY DEF Patch
<1>2. UNCHANGED <<rowVars, dispatched, slow, faults>>
  BY DEF Patch
<1>3. wk[w] \in Local /\ wk[w].items \subseteq Items
  BY DEF Inv, TypeOK, Local
<1>4. applied \subseteq applied' /\ applied' \subseteq Items
  BY <1>1, <1>3 DEF Inv, TypeOK
<1>5. ASSUME NEW unsure \in SUBSET wk[w].items,
             Goto(w, "verify", [wk[w] EXCEPT !.yes = done \ unsure, !.unsure = unsure])
      PROVE  Moved(w)
  <2> DEFINE local == [wk[w] EXCEPT !.yes = done \ unsure, !.unsure = unsure]
  <2>1. local \in Local /\ local.yes \subseteq applied'
    BY <1>1, <1>3 DEF Local
  <2>2. Goto(w, "verify", local)
    BY <1>5
  <2> HIDE DEF local
  <2> QED
    BY <2>1, <2>2, Goes, StagesAre
<1>6. ASSUME Finishing(w, {}, FALSE) PROVE Moved(w)
  <2>1. Goto(w, "finish", Told(w, {}, FALSE))
    BY <1>6 DEF Finishing, Told
  <2>2. {} \in SUBSET Items /\ {} \subseteq applied'
    OBVIOUS
  <2> QED
    BY <2>1, <2>2, ToldGoes
<1>7. ASSUME Then(w, "retry") PROVE Moved(w)
  BY <1>4, <1>7, Thens, StagesAre
<1>8. Moved(w)
  BY <1>1, <1>5, <1>6, <1>7
<1> QED
  BY <1>2, <1>4, <1>8, ReadingStep DEF Inv, TypeOK

LEMMA VerifyStep == ASSUME Inv, NEW w \in Workers, Verify(w) PROVE Inv'
<1>1. UNCHANGED <<rowVars, applied, dispatched, slow, faults>>
  BY DEF Verify
<1>2. wk[w].yes \subseteq applied /\ wk[w].yes \subseteq Items /\ applied \subseteq Items
  BY DEF Inv, TypeOK, Local, YesIsApplied
<1> DEFINE seen == wk[w].yes \cup (wk[w].unsure \cap applied)
<1>3. \/ Goto(w, "finish", Told(w, seen, TRUE)) \/ Goto(w, "finish", Told(w, {}, FALSE))
      \/ Then(w, "retry")
  BY DEF Verify, Finishing, Told
<1>4. seen \in SUBSET Items /\ seen \subseteq applied' /\ {} \in SUBSET Items /\ {} \subseteq applied'
  BY <1>1, <1>2
<1> HIDE DEF seen
<1>5. ASSUME Then(w, "retry") PROVE Moved(w)
  BY <1>1, <1>5, Thens, StagesAre
<1>6. Moved(w)
  BY <1>3, <1>4, <1>5, ToldGoes
<1> QED
  BY <1>1, <1>6, ReadingStep DEF Inv, TypeOK

\* A verdict is written to a job that runs.
LEMMA FinishItemsStep == ASSUME Inv, NEW w \in Workers, FinishItems(w) PROVE Inv'
<1>1. UNCHANGED <<job, attempts, age, applied, dispatched, slow, faults>>
  BY DEF FinishItems
<1>2. CASE Leased(w)
  <2>1. item' = Judged(w) /\ Then(w, "refresh")
    BY <1>2 DEF FinishItems
  <2>2. Moved(w)
    BY <1>1, <2>1, Thens, StagesAre
  <2>3. CompletedIsSettled'
    BY <1>1, <1>2, NotCompleted DEF Leased, Completed
  <2> QED
    BY <1>1, <2>1, <2>2, <2>3, JudgedType, MovedInv DEF Inv, TypeOK
<1>3. CASE ~Leased(w)
  <2>1. item' = item /\ (Then(w, "retry") \/ Throw(w))
    BY <1>3 DEF FinishItems
  <2>2. Moved(w)
    BY <1>1, <2>1, Thens, Returns, StagesAre DEF Throw
  <2> QED
    BY <1>1, <2>1, <2>2, ReadingStep DEF Inv, TypeOK, rowVars
<1> QED
  BY <1>2, <1>3

LEMMA FinishFailsStep == ASSUME Inv, NEW w \in Workers, FinishFails(w) PROVE Inv'
<1>1. /\ UNCHANGED <<job, attempts, age, applied, dispatched, slow>> /\ Then(w, "retry")
      /\ item' \in {item, IF Leased(w) THEN Judged(w) ELSE item}
  BY DEF FinishFails
<1>2. faults' \in 0 .. MaxFaults
  BY BulkEditAssumption DEF FinishFails, Fault, Inv, TypeOK
<1>3. Moved(w)
  BY <1>1, Thens, StagesAre
<1>4. CASE item' = item
  BY <1>1, <1>2, <1>3, <1>4, ReadingStep DEF Inv, TypeOK, rowVars
<1>5. CASE Leased(w) /\ item' = Judged(w)
  <2>1. CompletedIsSettled'
    BY <1>1, <1>5, NotCompleted DEF Leased, Completed
  <2> QED
    BY <1>1, <1>2, <1>3, <1>5, <2>1, JudgedType, MovedInv DEF Inv, TypeOK
<1> QED
  BY <1>1, <1>4, <1>5

LEMMA RetryItemsStep == ASSUME Inv, NEW w \in Workers, RetryItems(w) PROVE Inv'
<1>1. UNCHANGED <<attempts, applied, dispatched, slow, faults>> /\ Return(w, TRUE)
  BY DEF RetryItems
<1>2. Moved(w)
  BY <1>1, Returns
<1>3. CASE Leased(w)
  <2>1. /\ item' = [i \in Items |-> IF i \notin wk[w].items \/ item[i] # "PROCESSING"
                            THEN item[i] ELSE IF Exhausted(i) THEN "ERROR" ELSE "PENDING"]
        /\ job' = [job EXCEPT !.status = "QUEUED", !.lease = "none"] /\ Left
    BY <1>3 DEF RetryItems
  <2>2. job' \in Job /\ job'.status = "QUEUED"
    BY <2>1 DEF Inv, TypeOK, Job
  <2>3. /\ item' \in [Items -> ItemStatus]
        /\ \A i \in Items : item'[i] = "SUCCESS" => item[i] = "SUCCESS"
    BY <2>1 DEF Inv, TypeOK, ItemStatus
  <2>4. CompletedIsSettled'
    BY <2>2, NotCompleted DEF Completed
  <2>5. age' \in [Items -> {"held", "young", "old"}]
    BY <2>1, LeftType DEF Inv
  <2> QED
    BY <1>1, <1>2, <2>2, <2>3, <2>4, <2>5, MovedInv DEF Inv, TypeOK, SuccessIsApplied, With
<1>4. CASE ~Leased(w)
  <2>1. UNCHANGED <<job, item, age>>
    BY <1>4 DEF RetryItems
  <2> QED
    BY <1>1, <1>2, <2>1, ReadingStep DEF Inv, TypeOK, rowVars
<1> QED
  BY <1>3, <1>4

\* The count of a late invocation is the present one: it is made where it is written.
LEMMA RefreshStep == ASSUME Inv, NEW w \in Workers, Refresh(w) PROVE Inv'
<1> DEFINE ok == Cardinality(With("SUCCESS"))
           bad == Cardinality(With("ERROR"))
<1>1. UNCHANGED <<item, attempts, applied, dispatched, slow, faults>>
  BY DEF Refresh
<1>2. CASE job.token = wk[w].token /\ job.status = "RUNNING"
  <2>1. /\ job' = [job EXCEPT !.ok = ok, !.bad = bad, !.lease = "none", !.status = StatusOf(bad)]
        /\ Left /\ Return(w, Open)
    BY <1>2 DEF Refresh
  <2>2. StatusOf(bad) \in {"QUEUED"} \cup Completed /\ (StatusOf(bad) \in Completed => ~Open)
    BY DEF StatusOf, Completed
  <2>3. ok \in Nat /\ bad \in Nat
    BY WithType
  <2> HIDE DEF ok, bad
  <2>4. /\ job' \in Job /\ job'.ok = ok /\ job'.bad = bad
        /\ job'.status = StatusOf(bad)
    BY <2>1, <2>2, <2>3 DEF Inv, TypeOK, Job
  <2>5. CompletedIsSettled'
    <3>1. \A s : With(s)' = With(s)
      BY <1>1 DEF With
    <3> QED
      BY <2>2, <2>4, <3>1 DEF CompletedIsSettled, Open, ok, bad
  <2>6. Moved(w)
    BY <2>1, Returns DEF Open
  <2>7. age' \in [Items -> {"held", "young", "old"}]
    BY <2>1, LeftType DEF Inv
  <2> QED
    BY <1>1, <2>4, <2>5, <2>6, <2>7, MovedInv DEF Inv, TypeOK, SuccessIsApplied, With
<1>3. CASE ~(job.token = wk[w].token /\ job.status = "RUNNING")
  <2>1. UNCHANGED <<job, age>> /\ Throw(w)
    BY <1>3 DEF Refresh
  <2>2. Moved(w)
    BY <2>1, Returns DEF Throw
  <2> QED
    BY <1>1, <2>1, <2>2, ReadingStep DEF Inv, TypeOK, rowVars
<1> QED
  BY <1>2, <1>3

LEMMA FailStep == ASSUME Inv, NEW w \in Workers, Fail(w) PROVE Inv'
<1>1. UNCHANGED <<rowVars, applied, dispatched, slow>> /\ Return(w, TRUE)
  BY DEF Fail, Throw
<1>2. faults' \in 0 .. MaxFaults
  BY BulkEditAssumption DEF Fail, Fault, Inv, TypeOK
<1>3. Moved(w)
  BY <1>1, Returns
<1> QED
  BY <1>1, <1>2, <1>3, ReadingStep DEF Inv, TypeOK

-----------------------------------------------------------------------------
(* The user, time and the platform *)

LEMMA RetryFailuresStep == ASSUME Inv, RetryFailures PROVE Inv'
<1>1. /\ job.token < MaxTokens /\ UNCHANGED <<attempts, pc, wk, applied, slow>> /\ Left
      /\ item' = [i \in Items |-> IF i \in Retried THEN "PENDING" ELSE item[i]]
      /\ job' = [job EXCEPT !.status = "QUEUED", !.token = @ + 1, !.lease = "none", !.bad = 0]
  BY DEF RetryFailures
<1>2. job.token + 1 \in Tokens
  BY <1>1, BulkEditAssumption DEF Inv, TypeOK, Job, Tokens
<1>3. job' \in Job /\ job'.status = "QUEUED"
  BY <1>1, <1>2 DEF Inv, TypeOK, Job
<1>4. /\ item' \in [Items -> ItemStatus]
      /\ \A i \in Items : item'[i] = "SUCCESS" => item[i] = "SUCCESS"
  BY <1>1 DEF Inv, TypeOK, ItemStatus
<1>5. /\ messages' \in [Tokens -> Nat] /\ dispatched' \in BOOLEAN /\ faults' \in 0 .. MaxFaults
  <2>1. messages' \in {messages, [messages EXCEPT ![job.token + 1] = 1]}
    BY DEF RetryFailures
  <2>2. messages' \in [Tokens -> Nat]
    BY <1>2, <2>1 DEF Inv, TypeOK
  <2>3. dispatched' \in BOOLEAN /\ faults' \in 0 .. MaxFaults
    <3>1. CASE dispatched' = dispatched /\ faults' = faults
      BY <3>1 DEF Inv, TypeOK
    <3>2. CASE dispatched' = FALSE /\ Fault
      <4>1. faults' \in 0 .. MaxFaults
        BY <3>2, BulkEditAssumption DEF Fault, Inv, TypeOK
      <4> QED
        BY <3>2, <4>1
    <3> QED
      BY <3>1, <3>2 DEF RetryFailures
  <2> QED
    BY <2>2, <2>3
<1>6. age' \in [Items -> {"held", "young", "old"}]
  BY <1>1, LeftType DEF Inv
<1>7. TypeOK'
  BY <1>1, <1>3, <1>4, <1>5, <1>6 DEF Inv, TypeOK
<1>8. SuccessIsApplied'
  BY <1>1, <1>4 DEF Inv, SuccessIsApplied, With
<1>9. YesIsApplied' /\ CompletedIsSettled'
  BY <1>1, <1>3, NotCompleted DEF Inv, YesIsApplied, Completed
<1> QED
  BY <1>7, <1>8, <1>9 DEF Inv

\* What time and the queue do to a job they do not do to its items and verdicts.
LEMMA OutsideStep ==
    ASSUME Inv, UNCHANGED <<item, attempts, pc, wk, applied, dispatched>>,
           job' \in Job, job'.status = job.status, job'.ok = job.ok, job'.bad = job.bad,
           age' \in [Items -> {"held", "young", "old"}], messages' \in [Tokens -> Nat],
           slow' \in 0 .. MaxSlow, faults' \in 0 .. MaxFaults
    PROVE  Inv'
BY DEF Inv, TypeOK, YesIsApplied, SuccessIsApplied, CompletedIsSettled, With

LEMMA LeaseExpiresStep == ASSUME Inv, LeaseExpires PROVE Inv'
<1>1. /\ job' = [job EXCEPT !.lease = "past"] /\ Left
      /\ UNCHANGED <<item, attempts, messages, pc, wk, applied, dispatched, faults>>
  BY DEF LeaseExpires
<1>2. /\ job' \in Job /\ job'.status = job.status /\ job'.ok = job.ok /\ job'.bad = job.bad
  BY <1>1 DEF Inv, TypeOK, Job
<1>3. slow' \in 0 .. MaxSlow
  BY BulkEditAssumption DEF LeaseExpires, Inv, TypeOK
<1> QED
  BY <1>1, <1>2, <1>3, LeftType, OutsideStep DEF Inv, TypeOK

LEMMA GetsOldStep == ASSUME Inv, NEW i \in Items, GetsOld(i) PROVE Inv'
<1>1. /\ age' \in [Items -> {"held", "young", "old"}]
      /\ UNCHANGED <<job, item, attempts, messages, pc, wk, applied, dispatched, slow, faults>>
  BY DEF GetsOld, Inv, TypeOK
<1> QED
  BY <1>1, OutsideStep DEF Inv, TypeOK

LEMMA DuplicateStep == ASSUME Inv, Duplicate PROVE Inv'
<1>1. messages' = [messages EXCEPT ![job.token] = @ + 1]
      /\ UNCHANGED <<rowVars, pc, wk, applied, dispatched, slow>>
  BY DEF Duplicate
<1>2. job.token \in Tokens /\ messages[job.token] + 1 \in Nat
  BY DEF Inv, TypeOK, Job
<1>3. messages' \in [Tokens -> Nat]
  BY <1>1, <1>2 DEF Inv, TypeOK
<1>4. faults' \in 0 .. MaxFaults
  BY BulkEditAssumption DEF Duplicate, Fault, Inv, TypeOK
<1> QED
  BY <1>1, <1>3, <1>4, OutsideStep DEF Inv, TypeOK, rowVars

-----------------------------------------------------------------------------
(* The theorems *)

LEMMA InvInit == Init => Inv
<1> SUFFICES ASSUME Init PROVE Inv
  OBVIOUS
<1>1. job \in Job /\ job.status = "QUEUED"
  BY BulkEditAssumption DEF Init, Job, Tokens
<1>2. messages \in [Tokens -> Nat]
  BY DEF Init
<1>3. pc \in [Workers -> Stage] /\ wk \in [Workers -> Local] /\ \A w \in Workers : wk[w].yes = {}
  BY BlankType, StagesAre DEF Init
<1>4. TypeOK
  BY <1>1, <1>2, <1>3, BulkEditAssumption DEF Init, TypeOK, ItemStatus, Stage
<1>5. YesIsApplied /\ SuccessIsApplied /\ CompletedIsSettled
  BY <1>1, <1>3 DEF Init, YesIsApplied, SuccessIsApplied, CompletedIsSettled, With, Completed
<1> QED
  BY <1>4, <1>5 DEF Inv

LEMMA InvStep == Inv /\ [Next]_vars => Inv'
<1> SUFFICES ASSUME Inv, [Next]_vars PROVE Inv'
  OBVIOUS
<1>1. ASSUME NEW w \in Workers, Deliver(w) \/ Work(w) \/ FinishFails(w) \/ Fail(w) PROVE Inv'
  BY <1>1, DeliverStep, FindStep, ClaimJobStep, ClaimItemsStep, PatchStep, VerifyStep,
     FinishItemsStep, FinishFailsStep, RetryItemsStep, RefreshStep, FailStep DEF Work
<1>2. ASSUME NEW i \in Items, GetsOld(i) PROVE Inv'
  BY <1>2, GetsOldStep
<1>3. ASSUME RetryFailures \/ LeaseExpires \/ Duplicate PROVE Inv'
  BY <1>3, RetryFailuresStep, LeaseExpiresStep, DuplicateStep
<1>4. ASSUME UNCHANGED vars PROVE Inv'
  BY <1>4 DEF vars, rowVars, Inv, TypeOK, YesIsApplied, SuccessIsApplied, CompletedIsSettled, With
<1> QED
  BY <1>1, <1>2, <1>3, <1>4 DEF Next

\* Inv holds in every state, however many leases expire under their holders.
THEOREM Invariance == Spec => []Inv
BY InvInit, InvStep, PTL DEF Spec

\* The rows, the messages by token and the locals of processNext keep their types.
THEOREM TypeCorrect == Spec => []TypeOK
<1>1. Inv => TypeOK
  BY DEF Inv
<1> QED
  BY <1>1, Invariance, PTL

\* finish_tiendanube_bulk_edit_items stores SUCCESS only of variants that show the
\* change, whatever the answer of the PATCH left open and whoever is late.
THEOREM SuccessIsTrue == Spec => []SuccessIsApplied
<1>1. Inv => SuccessIsApplied
  BY DEF Inv
<1> QED
  BY <1>1, Invariance, PTL

\* A job that refresh_tiendanube_bulk_edit_job completed has no open item and stays
\* as it was counted, whoever comes late.
THEOREM SettledWhenCompleted == Spec => []CompletedIsSettled
<1>1. Inv => CompletedIsSettled
  BY DEF Inv
<1> QED
  BY <1>1, Invariance, PTL

\* One step takes no verdict back, but an error's when the user retries.
Stands(i) == item[i] \in {"SUCCESS", "ERROR"} /\ item'[i] # item[i]
                => item[i] = "ERROR" /\ job'.token > job.token

LEMMA StandsStep == ASSUME Inv, [Next]_vars, NEW i \in Items PROVE Stands(i)
<1>1. CASE item' = item
  BY <1>1 DEF Stands
<1>2. ASSUME NEW w \in Workers, ClaimItems(w) PROVE Stands(i)
  BY <1>2 DEF ClaimItems, Free, With, Stands, Inv, TypeOK
<1>3. ASSUME NEW w \in Workers, FinishItems(w) \/ FinishFails(w) PROVE Stands(i)
  BY <1>3, JudgedType DEF FinishItems, FinishFails, Stands
<1>4. ASSUME NEW w \in Workers, RetryItems(w) PROVE Stands(i)
  BY <1>4 DEF RetryItems, Stands
<1>5. ASSUME RetryFailures PROVE Stands(i)
  <2>1. job' = [job EXCEPT !.status = "QUEUED", !.token = @ + 1, !.lease = "none", !.bad = 0]
        /\ item'[i] = IF i \in Retried THEN "PENDING" ELSE item[i]
    BY <1>5 DEF RetryFailures
  <2>2. job \in Job /\ job.token \in Nat
    BY DEF Inv, TypeOK, Job, Tokens
  <2>3. job'.token > job.token
    BY <2>1, <2>2 DEF Job
  <2> QED
    BY <2>1, <2>3 DEF Stands, Retried, With
<1>6. ASSUME NEW w \in Workers, Deliver(w) \/ Find(w) \/ ClaimJob(w) \/ Patch(w) \/ Verify(w)
                                \/ Refresh(w) \/ Fail(w)
      PROVE  item' = item
  BY <1>6 DEF Deliver, Find, ClaimJob, Patch, Verify, Refresh, Fail, rowVars
<1>7. ASSUME (\E j \in Items : GetsOld(j)) \/ LeaseExpires \/ Duplicate \/ UNCHANGED vars
      PROVE  item' = item
  BY <1>7 DEF GetsOld, LeaseExpires, Duplicate, vars, rowVars
<1> QED
  BY <1>1, <1>2, <1>3, <1>4, <1>5, <1>6, <1>7 DEF Next, Work

\* No late holder and no repeated batch overwrites a verdict of finish or retry of
\* items; only retry_tiendanube_bulk_edit_failures takes back an error.
THEOREM VerdictsStand == Spec => VerdictStands
<1>1. Inv /\ [Next]_vars => [\A i \in Items : Stands(i)]_vars
  BY StandsStep
<1>2. VerdictStands <=> [][\A i \in Items : Stands(i)]_vars
  BY PTL DEF VerdictStands, Stands
<1> QED
  BY <1>1, <1>2, Invariance, PTL DEF Spec

-----------------------------------------------------------------------------
(* While no lease expires under its holder *)

\* The stages in which an invocation has items of the job in its hands.
Holding == {"patch", "verify", "finish", "retry"}
InHand(i) == \E w \in Workers : pc[w] \in Holding /\ i \in wk[w].items

\* One invocation is at work, and only with the token and a live lease.
OneHolder ==
    /\ \A w \in Workers : pc[w] \in AtWork => Leased(w)
    /\ \A v, w \in Workers : pc[v] \in AtWork /\ pc[w] \in AtWork => v = w

\* An item that may be taken has an attempt left, or a fault has paid for one.
AttemptLeft(i) ==
    /\ attempts[i] <= MaxAttempts + faults
    /\ item[i] = "PENDING" \/ (item[i] = "PROCESSING" /\ ~InHand(i)) =>
          attempts[i] < MaxAttempts + faults

AttemptsInv == slow = 0 => OneHolder /\ \A i \in Items : AttemptLeft(i)

\* A step next to whoever is at work: deliveries, refused claims and time.
LEMMA AsideStep ==
    ASSUME Inv, OneHolder, \A i \in Items : AttemptLeft(i),
           UNCHANGED <<job, item, attempts>>, faults' \in Nat, faults <= faults',
           \A v \in Workers : pc[v] \in AtWork \/ pc'[v] \in AtWork =>
               pc'[v] = pc[v] /\ wk'[v] = wk[v]
    PROVE  OneHolder' /\ \A i \in Items : AttemptLeft(i)'
<1>1. OneHolder'
  BY DEF OneHolder, Leased
<1>2. Holding \subseteq AtWork
  BY DEF Holding, AtWork
<1>3. \A i \in Items : InHand(i)' <=> InHand(i)
  BY <1>2 DEF InHand
<1>4. faults \in Nat /\ MaxAttempts \in Nat /\ \A i \in Items : attempts[i] \in Nat
  BY BulkEditAssumption DEF Inv, TypeOK
<1>5. \A i \in Items : AttemptLeft(i)'
  BY <1>3, <1>4 DEF AttemptLeft
<1> QED
  BY <1>1, <1>5

\* The one holder goes on with its token.
LEMMA HolderGoes ==
    ASSUME Inv, OneHolder, NEW w \in Workers, pc[w] \in AtWork, job' = job,
           NEW stage \in Stage, NEW local \in Local, local.token = wk[w].token,
           Goto(w, stage, local)
    PROVE  /\ OneHolder' /\ pc'[w] = stage /\ wk'[w] = local
           /\ \A v \in Workers \ {w} : pc'[v] \notin AtWork
<1>1. /\ pc'[w] = stage /\ wk'[w] = local
      /\ \A v \in Workers \ {w} : pc'[v] = pc[v] /\ wk'[v] = wk[v]
  BY DEF Goto, Inv, TypeOK
<1>2. \A v \in Workers \ {w} : pc'[v] \notin AtWork
  BY <1>1 DEF OneHolder
<1>3. OneHolder'
  BY <1>1, <1>2 DEF OneHolder, Leased
<1> QED
  BY <1>1, <1>2, <1>3

LEMMA HolderThen ==
    ASSUME Inv, OneHolder, NEW w \in Workers, pc[w] \in AtWork, job' = job,
           NEW stage \in Stage, Then(w, stage)
    PROVE  /\ OneHolder' /\ pc'[w] = stage /\ wk'[w] = wk[w]
           /\ \A v \in Workers \ {w} : pc'[v] \notin AtWork
<1>1. wk[w] \in Local
  BY DEF Inv, TypeOK
<1>2. PICK local \in Local : local = wk[w]
  BY <1>1
<1>3. Goto(w, stage, local)
  BY <1>2 DEF Then
<1> QED
  BY <1>2, <1>3, HolderGoes

\* The one holder ends: nobody is at work, whatever it leaves in the row of the job.
LEMMA HolderReturns ==
    ASSUME Inv, OneHolder, NEW w \in Workers, pc[w] \in AtWork, NEW more \in BOOLEAN,
           Return(w, more)
    PROVE  OneHolder' /\ \A i \in Items : ~InHand(i)'
<1>1. \A v \in Workers : pc'[v] \notin AtWork
  BY DEF Return, OneHolder, Inv, TypeOK, AtWork
<1>2. Holding \subseteq AtWork
  BY DEF Holding, AtWork
<1> QED
  BY <1>1, <1>2 DEF OneHolder, InHand

\* What is in the hands of the one holder, before and after its step.
LEMMA HandOf ==
    ASSUME OneHolder, NEW w \in Workers, pc[w] \in AtWork, NEW i
    PROVE  InHand(i) <=> pc[w] \in Holding /\ i \in wk[w].items
<1>1. Holding \subseteq AtWork
  BY DEF Holding, AtWork
<1> QED
  BY <1>1 DEF OneHolder, InHand

LEMMA HandAfter ==
    ASSUME NEW w \in Workers, \A v \in Workers \ {w} : pc'[v] \notin AtWork, NEW i
    PROVE  InHand(i)' <=> pc'[w] \in Holding /\ i \in wk'[w].items
<1>1. Holding \subseteq AtWork
  BY DEF Holding, AtWork
<1> QED
  BY <1>1 DEF InHand

LEMMA AttemptTypes ==
    ASSUME Inv
    PROVE  /\ faults \in Nat /\ MaxAttempts \in Nat /\ MaxFaults \in Nat
           /\ \A i \in Items : attempts[i] \in Nat /\ item[i] \in ItemStatus
BY BulkEditAssumption DEF Inv, TypeOK

\* The first three stages hold nothing.
LEMMA DeliverAttempts ==
    ASSUME Inv, OneHolder, \A i \in Items : AttemptLeft(i), NEW w \in Workers,
           Deliver(w) \/ Find(w) \/ (ClaimJob(w) /\ ~Claimable(w))
    PROVE  OneHolder' /\ \A i \in Items : AttemptLeft(i)'
<1>1. UNCHANGED <<job, item, attempts, faults>>
  BY DEF Deliver, Find, ClaimJob, rowVars
<1>2. /\ pc[w] \in {"idle", "find", "claim"} /\ pc'[w] \in {"idle", "find", "claim"}
      /\ \A v \in Workers \ {w} : pc'[v] = pc[v] /\ wk'[v] = wk[v]
  BY DEF Deliver, Find, ClaimJob, At, Then, Goto, Return, Inv, TypeOK
<1>3. \A v \in Workers : pc[v] \in AtWork \/ pc'[v] \in AtWork =>
               pc'[v] = pc[v] /\ wk'[v] = wk[v]
  BY <1>2 DEF AtWork
<1> QED
  BY <1>1, <1>3, AttemptTypes, AsideStep

\* The claim asks for a lease that is not live: nobody else is at work.
LEMMA ClaimAttempts ==
    ASSUME Inv, OneHolder, \A i \in Items : AttemptLeft(i), NEW w \in Workers,
           ClaimJob(w), Claimable(w)
    PROVE  OneHolder' /\ \A i \in Items : AttemptLeft(i)'
<1>1. /\ job' = [job EXCEPT !.status = "RUNNING", !.lease = "live"] /\ Then(w, "take")
      /\ UNCHANGED <<item, attempts, faults>>
  BY DEF ClaimJob
<1>2. \A v \in Workers : pc[v] \notin AtWork
  BY DEF OneHolder, Leased, Claimable
<1>3. /\ pc'[w] = "take" /\ wk'[w] = wk[w]
      /\ \A v \in Workers \ {w} : pc'[v] = pc[v] /\ pc'[v] \notin AtWork
  BY <1>1, <1>2 DEF Then, Goto, Inv, TypeOK
<1>4. job'.token = wk'[w].token /\ job'.status = "RUNNING" /\ job'.lease = "live"
  BY <1>1, <1>3 DEF Claimable, Inv, TypeOK, Job
<1>5. OneHolder'
  BY <1>3, <1>4 DEF OneHolder, Leased
<1>6. \A i \in Items : ~InHand(i)
  BY <1>2 DEF InHand, Holding, AtWork
<1> QED
  BY <1>1, <1>5, <1>6 DEF AttemptLeft

\* Items are taken when nobody has any in his hands: an item left in PROCESSING has
\* an attempt left, paid by the fault that left it there.
LEMMA ClaimItemsAttempts ==
    ASSUME Inv, OneHolder, \A i \in Items : AttemptLeft(i), NEW w \in Workers, ClaimItems(w)
    PROVE  OneHolder' /\ \A i \in Items : AttemptLeft(i)'
<1>0. pc[w] = "take" /\ pc[w] \in AtWork
  BY DEF ClaimItems, At, AtWork
<1>1. Leased(w)
  BY <1>0 DEF OneHolder
<1>2. PICK picked \in SUBSET Free :
         /\ item' = [i \in Items |-> IF i \in picked THEN "PROCESSING"
                       ELSE IF Leased(w) /\ i \in Free THEN "PENDING" ELSE item[i]]
         /\ attempts' = [i \in Items |-> IF i \in picked THEN Counted(attempts[i]) ELSE attempts[i]]
         /\ IF picked = {} THEN Then(w, "refresh")
            ELSE Goto(w, "patch", [wk[w] EXCEPT !.items = picked])
  BY DEF ClaimItems
<1>3. job' = job /\ faults' = faults
  BY DEF ClaimItems
<1>4. Free \subseteq Items
  BY DEF Free, With
<1>5. \A i \in Items : ~InHand(i)
  BY <1>0, HandOf DEF Holding
<1>6. \A i \in Free : attempts[i] < MaxAttempts + faults
  BY <1>4, <1>5 DEF AttemptLeft, Free, With
<1>7. OneHolder' /\ \A i \in Items : InHand(i)' <=> i \in picked
  <2>1. CASE picked = {}
    <3>1. OneHolder' /\ pc'[w] = "refresh" /\ \A v \in Workers \ {w} : pc'[v] \notin AtWork
      BY <1>0, <1>2, <1>3, <2>1, HolderThen, StagesAre
    <3> QED
      BY <2>1, <3>1, HandAfter DEF Holding
  <2>2. CASE picked # {}
    <3>1. /\ [wk[w] EXCEPT !.items = picked] \in Local
          /\ [wk[w] EXCEPT !.items = picked].items = picked
          /\ [wk[w] EXCEPT !.items = picked].token = wk[w].token
      BY <1>4 DEF Inv, TypeOK, Local
    <3>2. PICK local \in Local : local = [wk[w] EXCEPT !.items = picked]
      BY <3>1
    <3>3. Goto(w, "patch", local) /\ local.items = picked /\ local.token = wk[w].token
      BY <1>2, <2>2, <3>1, <3>2
    <3>4. /\ OneHolder' /\ pc'[w] = "patch" /\ wk'[w] = local
          /\ \A v \in Workers \ {w} : pc'[v] \notin AtWork
      BY <1>0, <1>3, <3>3, HolderGoes, StagesAre
    <3> QED
      BY <3>3, <3>4, HandAfter DEF Holding
  <2> QED
    BY <2>1, <2>2
<1>8. ASSUME NEW i \in Items PROVE AttemptLeft(i)'
  <2>1. attempts[i] \in Nat /\ Counted(attempts[i]) <= attempts[i] + 1
    BY AttemptTypes DEF Counted
  <2>2. CASE i \in picked
    <3>1. attempts'[i] <= attempts[i] + 1 /\ item'[i] = "PROCESSING" /\ InHand(i)'
      BY <1>2, <1>7, <2>1, <2>2
    <3>2. attempts'[i] \in Nat
      BY <1>2, <2>2, AttemptTypes DEF Counted
    <3>3. attempts[i] < MaxAttempts + faults
      BY <1>6, <2>2
    <3>4. attempts'[i] <= MaxAttempts + faults
      BY <2>1, <3>1, <3>2, <3>3, AttemptTypes
    <3> QED
      BY <1>3, <3>1, <3>4 DEF AttemptLeft
  <2>3. CASE i \notin picked
    <3>1. attempts'[i] = attempts[i]
      BY <1>2, <2>3
    <3>2. CASE i \in Free
      BY <1>3, <1>6, <3>1, <3>2, AttemptTypes DEF AttemptLeft
    <3>3. CASE i \notin Free
      <4>1. item'[i] = item[i]
        BY <1>2, <2>3, <3>3
      <4> QED
        BY <1>3, <1>5, <3>1, <4>1 DEF AttemptLeft
    <3> QED
      BY <3>2, <3>3
  <2> QED
    BY <2>2, <2>3
<1> QED
  BY <1>7, <1>8

\* A step of the holder that keeps its items in its hands.
LEMMA KeepsInHand ==
    ASSUME Inv, OneHolder, \A i \in Items : AttemptLeft(i), NEW w \in Workers,
           pc[w] \in Holding, pc'[w] \in Holding, wk'[w].items = wk[w].items,
           \A v \in Workers \ {w} : pc'[v] \notin AtWork,
           UNCHANGED attempts, faults' \in Nat, faults <= faults',
           \A i \in Items : item'[i] = item[i] \/ item'[i] \in {"SUCCESS", "ERROR"}
    PROVE  \A i \in Items : AttemptLeft(i)'
<1>1. pc[w] \in AtWork
  BY DEF Holding, AtWork
<1>2. \A i \in Items : InHand(i)' <=> InHand(i)
  BY <1>1, HandOf, HandAfter
<1> QED
  BY <1>2, AttemptTypes DEF AttemptLeft

\* The steps of an invocation that has a batch keep it in its hands.
Onward(w) == \E stage \in {"verify", "finish", "retry"}, local \in Local :
    local.token = wk[w].token /\ local.items = wk[w].items /\ Goto(w, stage, local)

LEMMA ThenOnward ==
    ASSUME Inv, NEW w \in Workers, NEW stage \in {"verify", "finish", "retry"}, Then(w, stage)
    PROVE  Onward(w)
<1>1. wk[w] \in Local
  BY DEF Inv, TypeOK
<1> QED
  BY <1>1 DEF Then, Onward

LEMMA FinishingOnward ==
    ASSUME Inv, NEW w \in Workers, NEW yes \in SUBSET Items, NEW trying \in BOOLEAN,
           Finishing(w, yes, trying)
    PROVE  Onward(w)
<1>1. wk[w] \in Local
  BY DEF Inv, TypeOK
<1>2. PICK local : local = [wk[w] EXCEPT !.yes = yes, !.unsure = {}, !.trying = trying]
  OBVIOUS
<1>3. local \in Local /\ local.token = wk[w].token /\ local.items = wk[w].items
  BY <1>1, <1>2 DEF Local
<1>4. Goto(w, "finish", local)
  BY <1>2 DEF Finishing
<1> QED
  BY <1>3, <1>4 DEF Onward

LEMMA OnwardAttempts ==
    ASSUME Inv, OneHolder, \A i \in Items : AttemptLeft(i), NEW w \in Workers,
           pc[w] \in Holding, Onward(w), UNCHANGED <<job, attempts>>,
           faults' \in Nat, faults <= faults',
           \A i \in Items : item'[i] = item[i] \/ item'[i] \in {"SUCCESS", "ERROR"}
    PROVE  OneHolder' /\ \A i \in Items : AttemptLeft(i)'
<1>1. PICK stage \in {"verify", "finish", "retry"} : \E local \in Local :
         local.token = wk[w].token /\ local.items = wk[w].items /\ Goto(w, stage, local)
  BY DEF Onward
<1>2. PICK local \in Local :
         local.token = wk[w].token /\ local.items = wk[w].items /\ Goto(w, stage, local)
  BY <1>1
<1>3. stage \in Stage /\ stage \in Holding /\ pc[w] \in AtWork
  BY StagesAre DEF Holding, AtWork
<1>4. /\ OneHolder' /\ pc'[w] = stage /\ wk'[w] = local
      /\ \A v \in Workers \ {w} : pc'[v] \notin AtWork
  BY <1>2, <1>3, HolderGoes
<1> QED
  BY <1>2, <1>3, <1>4, KeepsInHand

\* The answer of the PATCH and the reads that follow it write no row.
LEMMA PatchAttempts ==
    ASSUME Inv, OneHolder, \A i \in Items : AttemptLeft(i), NEW w \in Workers, Patch(w)
    PROVE  OneHolder' /\ \A i \in Items : AttemptLeft(i)'
<1>1. pc[w] \in Holding /\ UNCHANGED <<job, item, attempts, faults>>
  BY DEF Patch, At, Holding, rowVars
<1>2. wk[w] \in Local /\ wk[w].items \subseteq Items
  BY DEF Inv, TypeOK, Local
<1>3. ASSUME NEW done \in SUBSET wk[w].items, NEW unsure \in SUBSET wk[w].items,
             Goto(w, "verify", [wk[w] EXCEPT !.yes = done \ unsure, !.unsure = unsure])
      PROVE  Onward(w)
  <2>1. PICK local : local = [wk[w] EXCEPT !.yes = done \ unsure, !.unsure = unsure]
    OBVIOUS
  <2>2. local \in Local /\ local.token = wk[w].token /\ local.items = wk[w].items
    BY <1>2, <2>1 DEF Local
  <2> QED
    BY <1>3, <2>1, <2>2 DEF Onward
<1>4. Onward(w)
  BY <1>3, ThenOnward, FinishingOnward DEF Patch
<1> QED
  BY <1>1, <1>4, AttemptTypes, OnwardAttempts

LEMMA VerifyAttempts ==
    ASSUME Inv, OneHolder, \A i \in Items : AttemptLeft(i), NEW w \in Workers, Verify(w)
    PROVE  OneHolder' /\ \A i \in Items : AttemptLeft(i)'
<1>1. pc[w] \in Holding /\ UNCHANGED <<job, item, attempts, faults>>
  BY DEF Verify, At, Holding, rowVars
<1>2. wk[w].yes \cup (wk[w].unsure \cap applied) \in SUBSET Items
  BY DEF Inv, TypeOK, Local
<1>3. Onward(w)
  BY <1>2, ThenOnward, FinishingOnward DEF Verify
<1> QED
  BY <1>1, <1>3, AttemptTypes, OnwardAttempts

\* The verdicts of the holder are written: none of its items stays in PROCESSING.
LEMMA FinishItemsAttempts ==
    ASSUME Inv, OneHolder, \A i \in Items : AttemptLeft(i), NEW w \in Workers, FinishItems(w)
    PROVE  OneHolder' /\ \A i \in Items : AttemptLeft(i)'
<1>1. pc[w] = "finish" /\ pc[w] \in AtWork /\ pc[w] \in Holding
  BY DEF FinishItems, At, AtWork, Holding
<1>2. Leased(w)
  BY <1>1 DEF OneHolder
<1>3. item' = Judged(w) /\ Then(w, "refresh") /\ UNCHANGED <<job, attempts, faults>>
  BY <1>2 DEF FinishItems
<1>4. OneHolder' /\ pc'[w] = "refresh" /\ \A v \in Workers \ {w} : pc'[v] \notin AtWork
  BY <1>1, <1>3, HolderThen, StagesAre
<1>5. ASSUME NEW i \in Items PROVE AttemptLeft(i)'
  <2>1. \/ item'[i] \in {"SUCCESS", "ERROR"}
        \/ item'[i] = item[i] /\ (i \notin wk[w].items \/ item[i] # "PROCESSING")
    BY <1>3 DEF Judged, Verdict
  <2>2. InHand(i) <=> i \in wk[w].items
    BY <1>1, HandOf
  <2> QED
    BY <1>3, <2>1, <2>2, AttemptTypes DEF AttemptLeft
<1> QED
  BY <1>4, <1>5

LEMMA FinishFailsAttempts ==
    ASSUME Inv, OneHolder, \A i \in Items : AttemptLeft(i), NEW w \in Workers, FinishFails(w)
    PROVE  OneHolder' /\ \A i \in Items : AttemptLeft(i)'
<1>1. /\ pc[w] \in Holding /\ UNCHANGED <<job, attempts>> /\ Then(w, "retry")
      /\ item' \in {item, IF Leased(w) THEN Judged(w) ELSE item} /\ faults' = faults + 1
  BY DEF FinishFails, At, Holding, Fault
<1>2. Onward(w)
  BY <1>1, ThenOnward
<1>3. \A i \in Items : item'[i] = item[i] \/ item'[i] \in {"SUCCESS", "ERROR"}
  BY <1>1 DEF Judged
<1> QED
  BY <1>1, <1>2, <1>3, AttemptTypes, OnwardAttempts

\* An item goes back to PENDING with fewer attempts than allowed.
LEMMA RetryItemsAttempts ==
    ASSUME Inv, OneHolder, \A i \in Items : AttemptLeft(i), NEW w \in Workers, RetryItems(w)
    PROVE  OneHolder' /\ \A i \in Items : AttemptLeft(i)'
<1>1. pc[w] = "retry" /\ pc[w] \in AtWork /\ pc[w] \in Holding
  BY DEF RetryItems, At, AtWork, Holding
<1>2. Leased(w)
  BY <1>1 DEF OneHolder
<1>3. /\ item' = [i \in Items |-> IF i \notin wk[w].items \/ item[i] # "PROCESSING"
                            THEN item[i] ELSE IF Exhausted(i) THEN "ERROR" ELSE "PENDING"]
      /\ Return(w, TRUE) /\ UNCHANGED <<attempts, faults>>
  BY <1>2 DEF RetryItems
<1>4. OneHolder' /\ \A i \in Items : ~InHand(i)'
  BY <1>1, <1>3, HolderReturns
<1>5. ASSUME NEW i \in Items PROVE AttemptLeft(i)'
  <2>1. InHand(i) <=> i \in wk[w].items
    BY <1>1, HandOf
  <2>2. CASE i \notin wk[w].items \/ item[i] # "PROCESSING"
    BY <1>3, <2>1, <2>2 DEF AttemptLeft
  <2>3. CASE ~(i \notin wk[w].items \/ item[i] # "PROCESSING")
    <3>1. item'[i] = "ERROR" \/ (item'[i] = "PENDING" /\ attempts[i] < MaxAttempts)
      BY <1>3, <2>3, AttemptTypes DEF Exhausted
    <3> QED
      BY <1>3, <3>1, AttemptTypes DEF AttemptLeft
  <2> QED
    BY <2>2, <2>3
<1> QED
  BY <1>4, <1>5

LEMMA RefreshAttempts ==
    ASSUME Inv, OneHolder, \A i \in Items : AttemptLeft(i), NEW w \in Workers, Refresh(w)
    PROVE  OneHolder' /\ \A i \in Items : AttemptLeft(i)'
<1>1. pc[w] = "refresh" /\ pc[w] \in AtWork /\ UNCHANGED <<item, attempts, faults>>
  BY DEF Refresh, At, AtWork
<1>2. \E more \in BOOLEAN : Return(w, more)
  BY DEF Refresh, Throw, Open
<1>3. OneHolder'
  BY <1>1, <1>2, HolderReturns
<1>4. \A i \in Items : ~InHand(i)
  BY <1>1, HandOf DEF Holding
<1> QED
  BY <1>1, <1>3, <1>4 DEF AttemptLeft

\* A failure may leave items in PROCESSING and pays for their next attempt.
LEMMA FailAttempts ==
    ASSUME Inv, OneHolder, \A i \in Items : AttemptLeft(i), NEW w \in Workers, Fail(w)
    PROVE  OneHolder' /\ \A i \in Items : AttemptLeft(i)'
<1>1. Return(w, TRUE) /\ faults' = faults + 1 /\ UNCHANGED <<job, item, attempts>>
  BY DEF Fail, Throw, Fault, rowVars
<1>2. OneHolder'
  BY <1>1 DEF Return, OneHolder, Leased, Inv, TypeOK, AtWork
<1> QED
  BY <1>1, <1>2, AttemptTypes DEF AttemptLeft

\* The user retries a completed job: nobody is at work on it.
LEMMA RetryFailuresAttempts ==
    ASSUME Inv, OneHolder, \A i \in Items : AttemptLeft(i), RetryFailures
    PROVE  OneHolder' /\ \A i \in Items : AttemptLeft(i)'
<1>1. /\ UNCHANGED <<attempts, pc, wk>>
      /\ item' = [i \in Items |-> IF i \in Retried THEN "PENDING" ELSE item[i]]
  BY DEF RetryFailures
<1>2. faults' \in Nat /\ faults <= faults'
  BY AttemptTypes DEF RetryFailures, Fault
<1>3. \A v \in Workers : pc[v] \notin AtWork
  BY DEF OneHolder, Leased, RetryFailures
<1>4. \A i \in Items : ~InHand(i)
  BY <1>3 DEF InHand, Holding, AtWork
<1>5. \A i \in Retried : attempts[i] < MaxAttempts
  BY AttemptTypes DEF Retried, With, Exhausted
<1> QED
  BY <1>1, <1>2, <1>3, <1>4, <1>5, AttemptTypes DEF OneHolder, AttemptLeft

LEMMA OutsideAttempts ==
    ASSUME Inv, OneHolder, \A i \in Items : AttemptLeft(i), slow' = 0, slow = 0,
           (\E i \in Items : GetsOld(i)) \/ LeaseExpires \/ Duplicate \/ UNCHANGED vars
    PROVE  OneHolder' /\ \A i \in Items : AttemptLeft(i)'
<1>1. CASE (\E i \in Items : GetsOld(i)) \/ Duplicate \/ UNCHANGED vars
  <2>1. UNCHANGED <<job, item, attempts, pc, wk>> /\ faults' \in Nat /\ faults <= faults'
    BY <1>1, AttemptTypes DEF GetsOld, Duplicate, Fault, vars, rowVars
  <2> QED
    BY <2>1, AsideStep
<1>2. CASE LeaseExpires
  <2>1. \A w \in Workers : pc[w] \notin AtWork
    BY <1>2 DEF LeaseExpires
  <2>2. UNCHANGED <<item, attempts, pc, wk, faults>>
    BY <1>2 DEF LeaseExpires
  <2> QED
    BY <2>1, <2>2 DEF OneHolder, AttemptLeft, InHand
<1> QED
  BY <1>1, <1>2

LEMMA AttemptsStep ==
    ASSUME Inv, AttemptsInv, [Next]_vars
    PROVE  AttemptsInv'
<1> SUFFICES ASSUME slow' = 0 PROVE OneHolder' /\ \A i \in Items : AttemptLeft(i)'
  BY DEF AttemptsInv
<1>1. slow = 0
  <2>1. slow' = slow \/ slow' = slow + 1
    BY DEF Next, Work, Deliver, Find, ClaimJob, ClaimItems, Patch, Verify, FinishItems,
           FinishFails, RetryItems, Refresh, Fail, RetryFailures, LeaseExpires, GetsOld,
           Duplicate, vars
  <2> QED
    BY <2>1 DEF Inv, TypeOK
<1>2. OneHolder /\ \A i \in Items : AttemptLeft(i)
  BY <1>1 DEF AttemptsInv
<1>3. ASSUME NEW w \in Workers, Deliver(w) \/ Work(w) \/ FinishFails(w) \/ Fail(w)
      PROVE  OneHolder' /\ \A i \in Items : AttemptLeft(i)'
  BY <1>2, <1>3, DeliverAttempts, ClaimAttempts, ClaimItemsAttempts, PatchAttempts,
     VerifyAttempts, FinishItemsAttempts, FinishFailsAttempts, RetryItemsAttempts,
     RefreshAttempts, FailAttempts DEF Work
<1> QED
  BY <1>1, <1>2, <1>3, RetryFailuresAttempts, OutsideAttempts DEF Next

LEMMA AttemptsInit == Init => AttemptsInv
BY BulkEditAssumption DEF Init, AttemptsInv, OneHolder, AttemptLeft, AtWork, InHand

\* AttemptsInv: as long as no lease expires under its holder, one invocation is at
\* work, and an item that may be taken has an attempt left or a fault to pay for it.
THEOREM AttemptsAreCounted == Spec => []AttemptsInv
BY AttemptsInit, AttemptsStep, Invariance, PTL DEF Spec

\* claim_tiendanube_bulk_edit_items takes no item more often than retry_items and
\* retry_failures allow, but for one attempt per death or failed request.
THEOREM AttemptsHold == Spec => []AttemptsAreBounded
<1>1. AttemptsInv => AttemptsAreBounded
  BY DEF AttemptsInv, AttemptLeft, AttemptsAreBounded
<1> QED
  BY <1>1, AttemptsAreCounted, PTL

=============================================================================

------------------------- MODULE TiendanubeMigration -------------------------
(***************************************************************************)
(* The global Mercado Libre -> Tiendanube migration of one owner: the job  *)
(* and item rows in Supabase, the product link of every source key, the    *)
(* Vercel Queue that carries {jobId, mode, executionToken} messages, and   *)
(* the serverless workers that consume them.                               *)
(*                                                                         *)
(* Every RPC is one SQL transaction, and one step where its first write    *)
(* locks the row that decides it.  The finish of an item does not: it      *)
(* counts the items before it locks the job, so it is two steps, and the   *)
(* transactions that want its item in between wait for its row lock.       *)
(* Everything a worker does between two RPCs is a separate step, so that   *)
(* other workers, the user, a lease expiry or a crash can come in between. *)
(*                                                                         *)
(* Abstractions:                                                           *)
(*   - clock_timestamp() against locked_until is "none", "live" or "past"; *)
(*     against next_run_at it is the flag due.                             *)
(*   - the reservation version (updated_at) is known only to the           *)
(*     invocation that reserved, so the link records that worker.          *)
(*   - a scroll id is the set of source keys that it still leads to; null  *)
(*     starts a scan of the whole catalogue.  Mercado Libre keeps the      *)
(*     position of a scan: a page that was fetched is not served again.    *)
(*   - cycle_attempts saturates at the largest budget it is compared with. *)
(*   - identical copies of a message waiting in the queue are one element. *)
(***************************************************************************)
EXTENDS Integers, FiniteSets

CONSTANTS
    Keys,           \* source keys of the seller's catalogue
    Workers,        \* concurrent invocations of the queue handler
    NoKey, NoWorker,
    Situations,     \* what may already exist for a source key before the job
    ResumeModes,    \* modes POST /:id/resume is called with
    ErrorKinds,     \* classes of errors the external services return
    FaultKinds,     \* what may go wrong, a subset of AllFaults
    TestLimits,     \* what test_limit a job may be started with, 0 for null
    RetryBudget,    \* RETRY_DELAYS.length
    ReconcileBudget,\* RECONCILIATION_DELAYS.length + 1
    SlowWorkers,    \* may a lease expire under a live invocation?
    MaxResumes,     \* bound: number of resumes
    MaxFaults       \* bound: crashes, errors, lost answers, redeliveries

\* As earlier replications leave a source key: never linked, a product of the
\* seller, published, reserved, released, and reserved or released although the
\* POST took effect (released: once the search finds the product).
AllSituations == {"fresh", "foreign", "linked", "pending", "failed",
                  "unconfirmed", "released"}
AllModes      == {"CONTINUE", "SINGLE_ITEM"}
AllErrors     == {"definitive", "auth", "temporary", "conflict"}
\* an invocation dies; a call fails; an RPC is applied but its answer is lost;
\* a POST outlives its client; a message is delivered twice; a send() fails;
\* a page of the scan is fetched and its invocation fails before recording it
AllFaults     == {"crash", "error", "lost", "late", "redeliver", "unsent", "page"}

ASSUME KeysAssumption    == IsFiniteSet(Keys) /\ NoKey \notin Keys
ASSUME WorkersAssumption == NoWorker \notin Workers
ASSUME SetsAssumption    == /\ Situations \subseteq AllSituations
                            /\ ResumeModes \subseteq AllModes
                            /\ ErrorKinds \subseteq AllErrors
                            /\ FaultKinds \subseteq AllFaults
ASSUME NumbersAssumption == /\ TestLimits \subseteq Nat
                            /\ RetryBudget \in Nat \ {0}
                            /\ ReconcileBudget \in Nat \ {0}
                            /\ MaxResumes \in Nat
                            /\ MaxFaults \in Nat
ASSUME SlowAssumption    == SlowWorkers \in BOOLEAN

VARIABLES
    (* tiendanube_migration_jobs *)
    status, lock, due, token, limit, scroll, total, approved, rejected,
    (* tiendanube_migration_items *)
    item, posted, cycle,
    (* tiendanube_product_links *)
    link, holder,
    (* the Tiendanube store *)
    shop, inflight,
    (* Vercel Queue and its consumers *)
    queue, pc, wk,
    (* history and bound *)
    posts, faults

jobVars    == <<status, lock, due, token, limit, scroll, total, approved, rejected>>
itemVars   == <<item, posted, cycle>>
linkVars   == <<link, holder>>
shopVars   == <<shop, inflight>>
workerVars == <<queue, pc, wk>>
vars       == <<jobVars, itemVars, linkVars, shopVars, workerVars, posts, faults>>

-----------------------------------------------------------------------------
(* Types *)

Completed   == {"COMPLETED", "COMPLETED_WITH_REJECTIONS"}
JobStatus   == {"NONE", "DISCOVERING", "QUEUED", "RUNNING",
                "WAITING_RECONCILIATION", "PAUSED"} \cup Completed
Terminal    == {"APPROVED", "REJECTED"}
ItemStatus  == {"ABSENT", "PENDING", "PROCESSING", "RECONCILING"} \cup Terminal
LinkStatus  == {"NONE", "PENDING", "FAILED", "COMPLETED"}
ShopStatus  == {"absent", "foreign", "created", "indexed"}
Tokens      == 0 .. MaxResumes
Messages    == [token : Tokens, mode : AllModes]

Stage == {"idle", "observed", "claimed", "discover", "rediscover", "pick",
          "prepare", "match", "mark", "post", "link", "finish", "commit",
          "handle", "reconcile", "confirm", "defer", "pauseSingle"}
Verdict == {"none", "CREATED", "ALREADY_EXISTS", "REVIEW"} \cup AllErrors

LargestBudget == IF RetryBudget > ReconcileBudget
                   THEN RetryBudget ELSE ReconcileBudget
Tallies == [yes : Nat, no : Nat, all : Nat]
Local == [msg : Messages, halted : BOOLEAN, rest : SUBSET Keys, max : Nat,
          more : BOOLEAN, key : Keys \cup {NoKey}, cyc : 0 .. LargestBudget,
          sent : BOOLEAN, verdict : Verdict, tally : Tallies]
NoTally == [yes |-> 0, no |-> 0, all |-> 0]
Blank == [msg |-> [token |-> 0, mode |-> "CONTINUE"], halted |-> FALSE,
          rest |-> {}, max |-> 0, more |-> FALSE, key |-> NoKey, cyc |-> 0,
          sent |-> FALSE, verdict |-> "none", tally |-> NoTally]

TypeOK ==
    /\ status \in JobStatus
    /\ lock \in {"none", "live", "past"}
    /\ due \in BOOLEAN
    /\ token \in Tokens /\ limit \in Nat
    /\ scroll \in SUBSET Keys
    /\ total \in Nat /\ approved \in Nat /\ rejected \in Nat
    /\ item \in [Keys -> ItemStatus]
    /\ posted \in [Keys -> BOOLEAN]
    /\ cycle \in [Keys -> 0 .. LargestBudget]
    /\ link \in [Keys -> LinkStatus]
    /\ holder \in [Keys -> Workers \cup {NoWorker}]
    /\ shop \in [Keys -> ShopStatus]
    /\ inflight \in [Keys -> BOOLEAN]
    /\ queue \subseteq Messages
    /\ pc \in [Workers -> Stage]
    /\ wk \in [Workers -> Local]
    /\ posts \in [Keys -> 0 .. 2]
    /\ faults \in 0 .. MaxFaults

-----------------------------------------------------------------------------
(* Helpers *)

Items      == {k \in Keys : item[k] # "ABSENT"}
InState(s) == {k \in Keys : item[k] = s}

\* The items whose rows are locked by a finish that is not committed.
Locked == {wk[w].key : w \in {v \in Workers : pc[v] = "commit"}}

\* Every external fault is paid for out of one budget.
Fault(kind) == kind \in FaultKinds /\ faults < MaxFaults /\ faults' = faults + 1
NoFault     == faults' = faults

\* A fault stops an invocation.  If it had fetched a page of a stored scan,
\* the scan has moved on past that page and nobody will record it; without a
\* stored scroll id the next attempt starts a scan of its own.
Stopped(w, kind) ==
    \/ Fault(kind) /\ scroll' = scroll
    \/ /\ pc[w] = "discover" /\ wk[w].rest # Keys /\ scroll # Keys /\ Fault("page")
       /\ scroll' \in SUBSET scroll

\* The status of an interrupted item, by whether its POST may have started.
Recovered(k) == IF posted[k] THEN "RECONCILING" ELSE "PENDING"
RecoverItems == item' = [k \in Keys |-> IF item[k] = "PROCESSING"
                                          THEN Recovered(k) ELSE item[k]]

Goto(w, stage) == /\ pc' = [pc EXCEPT ![w] = stage]
                  /\ wk' = wk
                  /\ queue' = queue
GotoWith(w, stage, local) == /\ pc' = [pc EXCEPT ![w] = stage]
                             /\ wk' = [wk EXCEPT ![w] = local]
                             /\ queue' = queue

\* The invocation ends: its reservation version is forgotten with it.
Forget(w) == holder' = [k \in Keys |-> IF holder[k] = w THEN NoWorker ELSE holder[k]]
Leave(w)  == /\ pc' = [pc EXCEPT ![w] = "idle"]
             /\ wk' = [wk EXCEPT ![w] = Blank]
             /\ Forget(w)
             /\ link' = link

\* consume: the handler returns, and enqueues its own message again if hasMore.
Return(w, hasMore) == /\ Leave(w)
                      /\ queue' = IF hasMore THEN queue \cup {wk[w].msg} ELSE queue
\* The handler rejects or dies: the queue delivers its message again.
Throw(w) == Return(w, TRUE)

\* decideMigrationError
Decide(kind, attempts) ==
    IF kind \in {"definitive", "conflict"} THEN "REJECT"
    ELSE IF kind = "auth" \/ attempts >= RetryBudget THEN "PAUSE"
    ELSE "RETRY"

-----------------------------------------------------------------------------
(* Initial states: no job yet; any mixture of the situations earlier        *)
(* replications may have left for the source keys.                          *)

Init ==
    /\ status = "NONE" /\ lock = "none" /\ due = TRUE /\ token = 0 /\ limit = 0
    /\ scroll = Keys /\ total = 0 /\ approved = 0 /\ rejected = 0
    /\ item = [k \in Keys |-> "ABSENT"]
    /\ posted = [k \in Keys |-> FALSE]
    /\ cycle = [k \in Keys |-> 0]
    /\ \E s \in [Keys -> Situations] :
         /\ link = [k \in Keys |->
               CASE s[k] = "linked" -> "COMPLETED"
                 [] s[k] \in {"pending", "unconfirmed"} -> "PENDING"
                 [] s[k] \in {"failed", "released"} -> "FAILED"
                 [] OTHER -> "NONE"]
         /\ shop = [k \in Keys |->
               CASE s[k] \in {"linked", "released"} -> "indexed"
                 [] s[k] = "unconfirmed" -> "created"
                 [] s[k] = "foreign" -> "foreign"
                 [] OTHER -> "absent"]
    /\ holder = [k \in Keys |-> NoWorker]
    /\ inflight = [k \in Keys |-> FALSE]
    /\ queue = {}
    /\ pc = [w \in Workers |-> "idle"]
    /\ wk = [w \in Workers |-> Blank]
    /\ posts = [k \in Keys |-> 0]
    /\ faults = 0

-----------------------------------------------------------------------------
(* The user *)

\* POST /start without an active job: create it and enqueue its first message
\* (a fault: send() fails after the row was inserted).
StartNewJob ==
    /\ status = "NONE"
    /\ status' = "DISCOVERING" /\ limit' \in TestLimits
    /\ \/ queue' = queue \cup {[token |-> token, mode |-> "CONTINUE"]} /\ NoFault
       \/ queue' = queue /\ Fault("unsent")
    /\ UNCHANGED <<lock, due, token, scroll, total, approved, rejected,
                   itemVars, linkVars, shopVars, pc, wk, posts>>

\* POST /start with an active job: the same job, one more message for its token.
StartAgain ==
    /\ status \notin {"NONE"} \cup Completed
    /\ queue' = queue \cup {[token |-> token, mode |-> "CONTINUE"]}
    /\ UNCHANGED <<jobVars, itemVars, linkVars, shopVars, pc, wk, posts, faults>>

\* Mutant: the resume does not wait until the job is paused.
ResumeEarly ==
    /\ status \in {"PAUSED", "RUNNING"} /\ token < MaxResumes /\ Locked = {}
    /\ status' = "QUEUED" /\ token' = token + 1 /\ due' = TRUE
    /\ RecoverItems
    /\ cycle' = [k \in Keys |-> IF item[k] = "PROCESSING" THEN 0 ELSE cycle[k]]
    /\ \E mode \in ResumeModes :
         \/ queue' = queue \cup {[token |-> token', mode |-> mode]} /\ NoFault
         \/ queue' = queue /\ Fault("unsent")
    /\ UNCHANGED <<lock, limit, scroll, total, approved, rejected, posted, linkVars,
                   shopVars, pc, wk, posts>>

\* POST /:id/resume: a new token, the interrupted items recovered (after those
\* that are being finished), a message.
Resume ==
    /\ status = "PAUSED" /\ lock = "none" /\ token < MaxResumes /\ Locked = {}
    /\ status' = "QUEUED" /\ token' = token + 1 /\ due' = TRUE
    /\ RecoverItems
    /\ cycle' = [k \in Keys |-> IF item[k] = "PROCESSING" THEN 0 ELSE cycle[k]]
    /\ \E mode \in ResumeModes :
         \/ queue' = queue \cup {[token |-> token', mode |-> mode]} /\ NoFault
         \/ queue' = queue /\ Fault("unsent")
    /\ UNCHANGED <<lock, limit, scroll, total, approved, rejected, posted, linkVars,
                   shopVars, pc, wk, posts>>

-----------------------------------------------------------------------------
(* Time and failures *)

\* A lease may run out while an invocation still works only if SlowWorkers.
LeaseExpires ==
    /\ lock = "live"
    /\ SlowWorkers \/ \A w \in Workers : pc[w] \in {"idle", "observed"}
    /\ lock' = "past"
    /\ UNCHANGED <<status, due, token, limit, scroll, total, approved, rejected, itemVars,
                   linkVars, shopVars, workerVars, posts, faults>>

\* next_run_at is reached.
RunDue ==
    /\ ~due /\ due' = TRUE
    /\ UNCHANGED <<status, lock, token, limit, scroll, total, approved, rejected, itemVars,
                   linkVars, shopVars, workerVars, posts, faults>>

\* The invocation is killed; a POST on the wire may still be executed.
Crash(w) ==
    /\ pc[w] # "idle"
    /\ Stopped(w, "crash")
    /\ Throw(w)
    /\ \/ inflight' = inflight
       \/ pc[w] = "post" /\ "late" \in FaultKinds /\ inflight' = [inflight EXCEPT ![wk[w].key] = TRUE]
    /\ posts' = IF inflight' = inflight THEN posts
                ELSE [posts EXCEPT ![wk[w].key] = IF @ = 0 THEN 1 ELSE 2]
    /\ UNCHANGED <<status, lock, due, token, limit, total, approved, rejected, itemVars, shop>>

\* The queue delivers a message that is still being handled once more.
Redeliver(w) ==
    /\ pc[w] # "idle" /\ wk[w].msg \notin queue /\ Fault("redeliver")
    /\ queue' = queue \cup {wk[w].msg}
    /\ UNCHANGED <<jobVars, itemVars, linkVars, shopVars, pc, wk, posts>>

\* Tiendanube executes a POST whose client has stopped waiting for it.
LatePost(k) ==
    /\ inflight[k]
    /\ inflight' = [inflight EXCEPT ![k] = FALSE]
    /\ shop' = [shop EXCEPT ![k] = IF @ = "absent" THEN "created" ELSE @]
    /\ UNCHANGED <<jobVars, itemVars, linkVars, workerVars, posts, faults>>

\* A created product becomes visible to the search by SKU.
ShopIndexes(k) ==
    /\ shop[k] = "created"
    /\ shop' = [shop EXCEPT ![k] = "indexed"]
    /\ UNCHANGED <<jobVars, itemVars, linkVars, inflight, workerVars, posts, faults>>

-----------------------------------------------------------------------------
(* processNext up to the claim of an item *)

\* Delivery and the first findJob.  A message with a stale token is dropped.
Observe(w) ==
    /\ pc[w] = "idle"
    /\ \E m \in queue :
         /\ queue' = queue \ {m}
         /\ IF m.token = token
              THEN /\ pc' = [pc EXCEPT ![w] = "observed"]
                   /\ wk' = [wk EXCEPT ![w] =
                        [Blank EXCEPT !.msg = m,
                                      !.halted = status \in {"PAUSED"} \cup Completed]]
              ELSE pc' = pc /\ wk' = wk
    /\ UNCHANGED <<jobVars, itemVars, linkVars, shopVars, posts, faults>>

\* Mutant: any status can be claimed.
ClaimableAlways(t) == t = token /\ lock # "live" /\ due

Claimable(t) ==
    /\ t = token /\ lock # "live" /\ due
    /\ status \in {"DISCOVERING", "QUEUED", "WAITING_RECONCILIATION", "RUNNING"}

\* claim_tiendanube_migration_job_v2: its recovery of the items waits for those
\* that are being finished.
ClaimJob(w) ==
    /\ pc[w] = "observed" /\ Claimable(wk[w].msg.token) /\ Locked = {}
    /\ status' = IF status = "DISCOVERING" THEN status ELSE "RUNNING"
    /\ lock' = "live"
    /\ RecoverItems
    /\ Goto(w, "claimed")
    /\ UNCHANGED <<due, token, limit, scroll, total, approved, rejected, posted, cycle,
                   linkVars, shopVars, posts, faults>>

\* Mutant: a message that finds the lease taken is not scheduled again.
ClaimDeniedDrops(w) ==
    /\ pc[w] = "observed" /\ ~Claimable(wk[w].msg.token)
    /\ Return(w, FALSE)
    /\ UNCHANGED <<jobVars, itemVars, shopVars, posts, faults>>

ClaimDenied(w) ==
    /\ pc[w] = "observed" /\ ~Claimable(wk[w].msg.token)
    /\ Return(w, ~wk[w].halted)
    /\ UNCHANGED <<jobVars, itemVars, shopVars, posts, faults>>

\* The second findJob: what is read here (scroll, progress) is used later.
MaxProducts == IF limit = 0 THEN Cardinality(Keys)
               ELSE IF limit > total THEN limit - total ELSE 1

Reread(w) ==
    /\ pc[w] = "claimed"
    /\ IF wk[w].msg.token # token
         THEN Return(w, FALSE)
         ELSE /\ IF status = "DISCOVERING"
                   THEN GotoWith(w, "discover",
                          [wk[w] EXCEPT !.rest = scroll, !.max = MaxProducts])
                   ELSE GotoWith(w, "pick",
                          [wk[w] EXCEPT !.more = approved + rejected + 1 < total])
              /\ UNCHANGED linkVars
    /\ UNCHANGED <<jobVars, itemVars, shopVars, posts, faults>>

\* claim_next_tiendanube_migration_item_v2: items to reconcile go first.
Offered == IF InState("RECONCILING") # {} THEN InState("RECONCILING")
           ELSE InState("PENDING")
MayPick(w) == /\ wk[w].msg.token = token /\ status = "RUNNING" /\ lock = "live"
              /\ Offered # {}

\* Mutant: isReconciliation is ignored.
PickItemReplicates(w) ==
    /\ pc[w] = "pick" /\ MayPick(w)
    /\ \E k \in Offered :
         LET attempts == IF cycle[k] < LargestBudget THEN cycle[k] + 1 ELSE cycle[k]
         IN  /\ item' = [item EXCEPT ![k] = "PROCESSING"]
             /\ cycle' = [cycle EXCEPT ![k] = attempts]
             /\ GotoWith(w, "prepare",
                         [wk[w] EXCEPT !.key = k, !.cyc = attempts])
    /\ UNCHANGED <<jobVars, posted, linkVars, shopVars, posts, faults>>

PickItem(w) ==
    /\ pc[w] = "pick" /\ MayPick(w)
    /\ \E k \in Offered :
         LET attempts == IF cycle[k] < LargestBudget THEN cycle[k] + 1 ELSE cycle[k]
         IN  /\ item' = [item EXCEPT ![k] = "PROCESSING"]
             /\ cycle' = [cycle EXCEPT ![k] = attempts]
             /\ GotoWith(w, IF item[k] = "RECONCILING" THEN "reconcile" ELSE "prepare",
                         [wk[w] EXCEPT !.key = k, !.cyc = attempts])
    /\ UNCHANGED <<jobVars, posted, linkVars, shopVars, posts, faults>>

\* No item: completeEmptyJob acts on a running job without items only.
PickNothing(w) ==
    /\ pc[w] = "pick" /\ ~MayPick(w)
    /\ IF status = "RUNNING" /\ total = 0
         THEN /\ status' = "COMPLETED" /\ approved' = 0 /\ rejected' = 0
              /\ lock' = "none"
         ELSE UNCHANGED <<status, approved, rejected, lock>>
    /\ Return(w, FALSE)
    /\ UNCHANGED <<due, token, limit, scroll, total, itemVars, shopVars, posts, faults>>

-----------------------------------------------------------------------------
(* processDiscovery *)

\* record_tiendanube_migration_discovery_page, for the items of a page that
\* left the publications of rest unread.
RecordPage(page, rest, finished) ==
    LET room  == IF limit = 0 THEN Cardinality(Keys)
                 ELSE IF limit > Cardinality(Items)
                        THEN limit - Cardinality(Items) ELSE 0
        fresh == page \ Items
    IN \E new \in SUBSET fresh :
         /\ Cardinality(new) = IF Cardinality(fresh) < room
                                 THEN Cardinality(fresh) ELSE room
         /\ item' = [k \in Keys |-> IF k \in new THEN "PENDING" ELSE item[k]]
         /\ total' = Cardinality(Items \cup new)
         /\ status' = IF finished \/ (limit # 0 /\ total' >= limit)
                        THEN "QUEUED" ELSE "DISCOVERING"
         /\ scroll' = IF finished THEN Keys ELSE rest
         /\ lock' = "none" /\ due' = TRUE

\* What a scroll id read earlier leads to now: others may have gone on with it.
Ahead(rest) == IF rest = Keys \/ (rest = scroll /\ ~SlowWorkers) THEN {rest}
               ELSE SUBSET rest

\* discoverPage (only the first maxProducts groups of the page are kept) and
\* recordDiscoveryPage (a fault: it is applied and its answer is lost).
DiscoverPage(w) ==
    /\ pc[w] = "discover"
    /\ \E left \in Ahead(wk[w].rest) : \E page \in SUBSET left, finished \in BOOLEAN :
         /\ page = {} => left = {} /\ finished
         /\ finished => page = left
         /\ \E kept \in SUBSET page :
              /\ kept \cap Locked = {}
              /\ Cardinality(kept) = IF Cardinality(page) < wk[w].max
                                       THEN Cardinality(page) ELSE wk[w].max
              /\ RecordPage(kept, left \ page, finished)
    /\ \/ Return(w, TRUE) /\ NoFault
       \/ Goto(w, "rediscover") /\ UNCHANGED linkVars /\ Fault("lost")
    /\ UNCHANGED <<token, limit, approved, rejected, posted, cycle, shopVars, posts>>

\* Mutant: the retry queues the job as retry_tiendanube_migration_item does.
RetryDiscoveryQueued == /\ status' = "QUEUED" /\ lock' = "none" /\ due' = FALSE

\* retry_tiendanube_migration_discovery
RetryDiscovery == /\ status' = "DISCOVERING" /\ lock' = "none" /\ due' = FALSE

\* pause_tiendanube_migration_job: no condition on the job.
PauseJob == /\ status' = "PAUSED" /\ lock' = "none" /\ due' = due

\* The discovery failed, on its own or because its record seemed to fail.
DiscoveryFails(w) ==
    /\ \/ /\ pc[w] = "discover"
          /\ Stopped(w, "error")
          /\ \E kind \in ErrorKinds :
               IF Decide(kind, 1) = "REJECT"
                 THEN PauseJob /\ Return(w, FALSE)
                 ELSE RetryDiscovery /\ Return(w, TRUE)
       \/ /\ pc[w] = "rediscover" /\ NoFault /\ scroll' = scroll
          /\ IF Decide("temporary", 1) = "REJECT"
               THEN PauseJob /\ Return(w, FALSE)
               ELSE RetryDiscovery /\ Return(w, TRUE)
    /\ UNCHANGED <<token, limit, total, approved, rejected, itemVars, shopVars, posts>>

-----------------------------------------------------------------------------
(* replicate: replicateInternal with a migration execution *)

\* An external call of the current stage fails before the POST was marked.
PrePostError(w) ==
    /\ pc[w] \in {"prepare", "match", "mark"} /\ Fault("error")
    /\ \E kind \in ErrorKinds :
         /\ pc[w] = "mark" => kind = "temporary"
         /\ GotoWith(w, "handle", [wk[w] EXCEPT !.verdict = kind])
    /\ UNCHANGED <<jobVars, itemVars, linkVars, shopVars, posts>>

\* findBySourceKey, the read of the source, reserve_..._by_source.
Reserve(w) ==
    LET k == wk[w].key
        Then(stage, verdict) == GotoWith(w, stage, [wk[w] EXCEPT !.verdict = verdict])
    IN
    /\ pc[w] = "prepare"
    /\ \/ /\ link[k] = "COMPLETED" /\ Then("finish", "ALREADY_EXISTS")
          /\ UNCHANGED linkVars /\ NoFault
       \/ /\ link[k] = "PENDING" /\ Then("handle", "conflict")
          /\ UNCHANGED linkVars /\ NoFault
       \/ /\ link[k] \in {"NONE", "FAILED"}
          /\ link' = [link EXCEPT ![k] = "PENDING"]
          /\ \/ /\ holder' = [holder EXCEPT ![k] = w] /\ Goto(w, "match") /\ NoFault
             \/ /\ holder' = [holder EXCEPT ![k] = NoWorker]   \* the answer is lost
                /\ Then("handle", "temporary") /\ Fault("lost")
    /\ UNCHANGED <<jobVars, itemVars, shopVars, posts>>

\* Mutant: only products of the panel count as a match.
MatchSkuOwn(w) ==
    LET k == wk[w].key
        Then(stage, verdict) == GotoWith(w, stage, [wk[w] EXCEPT !.verdict = verdict])
    IN
    /\ pc[w] = "match"
    /\ \/ /\ shop[k] \in {"absent", "created", "foreign"}
          /\ Goto(w, "mark") /\ UNCHANGED linkVars /\ NoFault
       \/ /\ shop[k] \in {"indexed"} /\ link[k] = "PENDING" /\ holder[k] = w
          /\ link' = [link EXCEPT ![k] = "FAILED"]
          /\ holder' = [holder EXCEPT ![k] = NoWorker]
          /\ \/ Then("finish", "REVIEW") /\ NoFault
             \/ Then("handle", "temporary") /\ Fault("lost")
       \/ /\ shop[k] \in {"indexed"} /\ ~(link[k] = "PENDING" /\ holder[k] = w)
          /\ IF link[k] = "FAILED" THEN Then("finish", "REVIEW") ELSE Then("handle", "temporary")
          /\ UNCHANGED linkVars /\ NoFault
    /\ UNCHANGED <<jobVars, itemVars, shopVars, posts>>

\* The search by SKU.  A product found without a trusted link: the reservation
\* is released with fail_..._by_source and the match goes to review.
MatchSku(w) ==
    LET k == wk[w].key
        Then(stage, verdict) == GotoWith(w, stage, [wk[w] EXCEPT !.verdict = verdict])
    IN
    /\ pc[w] = "match"
    /\ \/ /\ shop[k] \in {"absent", "created"}
          /\ Goto(w, "mark") /\ UNCHANGED linkVars /\ NoFault
       \/ /\ shop[k] \in {"foreign", "indexed"} /\ link[k] = "PENDING" /\ holder[k] = w
          /\ link' = [link EXCEPT ![k] = "FAILED"]
          /\ holder' = [holder EXCEPT ![k] = NoWorker]
          /\ \/ Then("finish", "REVIEW") /\ NoFault
             \/ Then("handle", "temporary") /\ Fault("lost")
       \/ /\ shop[k] \in {"foreign", "indexed"} /\ ~(link[k] = "PENDING" /\ holder[k] = w)
          /\ IF link[k] = "FAILED" THEN Then("finish", "REVIEW") ELSE Then("handle", "temporary")
          /\ UNCHANGED linkVars /\ NoFault
    /\ UNCHANGED <<jobVars, itemVars, shopVars, posts>>

\* beforeCreate: mark_tiendanube_migration_post_started.
MayMark(k) == item[k] = "PROCESSING" /\ ~posted[k]

MarkPostStarted(w) ==
    LET k == wk[w].key IN
    /\ pc[w] = "mark" /\ k \notin Locked
    /\ IF MayMark(k)
         THEN /\ posted' = [posted EXCEPT ![k] = TRUE]
              /\ \/ GotoWith(w, "post", [wk[w] EXCEPT !.sent = TRUE]) /\ NoFault
                 \/ GotoWith(w, "handle", [wk[w] EXCEPT !.verdict = "temporary"]) /\ Fault("lost")
         ELSE /\ GotoWith(w, "handle", [wk[w] EXCEPT !.verdict = "temporary"])
              /\ NoFault /\ posted' = posted
    /\ UNCHANGED <<jobVars, item, cycle, linkVars, shopVars, posts>>

\* Mutant: the HTTP client repeats a POST that timed out.
PostProductAgain(w) ==
    LET k == wk[w].key IN
    /\ pc[w] = "post"
    /\ posts' = [posts EXCEPT ![k] = IF @ = 0 THEN 1 ELSE 2]
    /\ \/ /\ shop' = [shop EXCEPT ![k] = IF @ = "absent" THEN "created" ELSE @]
          /\ Goto(w, "link") /\ NoFault /\ inflight' = inflight
       \/ /\ Goto(w, "defer") /\ Fault("error") /\ UNCHANGED shopVars
       \/ /\ inflight' = [inflight EXCEPT ![k] = TRUE]
          /\ Goto(w, "post") /\ Fault("late") /\ shop' = shop
    /\ UNCHANGED <<jobVars, itemVars, linkVars>>

\* Mutant: a failed POST releases the reservation.
PostProductReleases(w) ==
    LET k == wk[w].key IN
    /\ pc[w] = "post"
    /\ posts' = [posts EXCEPT ![k] = IF @ = 0 THEN 1 ELSE 2]
    /\ \/ /\ shop' = [shop EXCEPT ![k] = IF @ = "absent" THEN "created" ELSE @]
          /\ Goto(w, "link") /\ NoFault /\ inflight' = inflight /\ UNCHANGED linkVars
       \/ /\ Goto(w, "defer") /\ Fault("error") /\ UNCHANGED shopVars
          /\ link' = [link EXCEPT ![k] = "FAILED"] /\ holder' = holder
       \/ /\ inflight' = [inflight EXCEPT ![k] = TRUE]
          /\ Goto(w, "defer") /\ Fault("late") /\ shop' = shop /\ UNCHANGED linkVars
    /\ UNCHANGED <<jobVars, itemVars>>

\* POST /products: it is confirmed, or fails without an effect, or fails for
\* the client while the request may still be executed.
PostProduct(w) ==
    LET k == wk[w].key IN
    /\ pc[w] = "post"
    /\ posts' = [posts EXCEPT ![k] = IF @ = 0 THEN 1 ELSE 2]
    /\ \/ /\ shop' = [shop EXCEPT ![k] = IF @ = "absent" THEN "created" ELSE @]
          /\ Goto(w, "link") /\ NoFault /\ inflight' = inflight
       \/ /\ Goto(w, "defer") /\ Fault("error") /\ UNCHANGED shopVars
       \/ /\ inflight' = [inflight EXCEPT ![k] = TRUE]
          /\ Goto(w, "defer") /\ Fault("late") /\ shop' = shop
    /\ UNCHANGED <<jobVars, itemVars, linkVars>>

\* complete_tiendanube_product_link_by_source
CompleteLink(w) ==
    LET k == wk[w].key IN
    /\ pc[w] = "link"
    /\ \/ /\ link[k] = "PENDING" /\ holder[k] = w
          /\ link' = [link EXCEPT ![k] = "COMPLETED"]
          /\ holder' = [holder EXCEPT ![k] = NoWorker]
          /\ \/ GotoWith(w, "finish", [wk[w] EXCEPT !.verdict = "CREATED"]) /\ NoFault
             \/ Goto(w, "defer") /\ Fault("lost")
       \/ /\ link[k] = "COMPLETED" /\ NoFault /\ UNCHANGED linkVars
          /\ GotoWith(w, "finish", [wk[w] EXCEPT !.verdict = "CREATED"])
       \/ /\ ~(link[k] = "PENDING" /\ holder[k] = w) /\ link[k] # "COMPLETED"
          /\ NoFault /\ UNCHANGED linkVars
          /\ Goto(w, "defer")
    /\ UNCHANGED <<jobVars, itemVars, shopVars, posts>>

-----------------------------------------------------------------------------
(* reconcileMigration *)

\* The link decides: published already, still unknown, or not ours to confirm.
ReadLink(w) ==
    LET k == wk[w].key IN
    /\ pc[w] = "reconcile"
    /\ CASE link[k] = "COMPLETED" ->
              GotoWith(w, "finish", [wk[w] EXCEPT !.verdict = "ALREADY_EXISTS", !.sent = TRUE])
         [] link[k] = "PENDING" -> Goto(w, "confirm")
         [] OTHER -> Goto(w, "defer")
    /\ UNCHANGED <<jobVars, itemVars, linkVars, shopVars, posts, faults>>

\* Mutant: the product need not be found before the link is completed.
ConfirmUnseen(w) ==
    LET k == wk[w].key IN
    /\ pc[w] = "confirm"
    /\ \/ /\ link[k] \in {"PENDING", "COMPLETED"}
          /\ link' = [link EXCEPT ![k] = "COMPLETED"]
          /\ holder' = [holder EXCEPT ![k] = NoWorker]
          /\ \/ /\ GotoWith(w, "finish", [wk[w] EXCEPT !.verdict = "CREATED", !.sent = TRUE])
                /\ NoFault
             \/ Goto(w, "defer") /\ Fault("lost")
       \/ /\ \/ shop[k] \in {"absent", "created"}
             \/ link[k] \in {"NONE", "FAILED"}
          /\ Goto(w, "defer") /\ UNCHANGED linkVars /\ NoFault
    /\ UNCHANGED <<jobVars, itemVars, shopVars, posts>>

\* The search by SKU and complete_reconciled_..._by_source, which asks for no
\* version and accepts a link completed meanwhile.
Confirm(w) ==
    LET k == wk[w].key IN
    /\ pc[w] = "confirm"
    /\ \/ /\ shop[k] \in {"foreign", "indexed"} /\ link[k] \in {"PENDING", "COMPLETED"}
          /\ link' = [link EXCEPT ![k] = "COMPLETED"]
          /\ holder' = [holder EXCEPT ![k] = NoWorker]
          /\ \/ /\ GotoWith(w, "finish", [wk[w] EXCEPT !.verdict = "CREATED", !.sent = TRUE])
                /\ NoFault
             \/ Goto(w, "defer") /\ Fault("lost")
       \/ /\ \/ shop[k] \in {"absent", "created"}
             \/ link[k] \in {"NONE", "FAILED"}
          /\ Goto(w, "defer") /\ UNCHANGED linkVars /\ NoFault
    /\ UNCHANGED <<jobVars, itemVars, shopVars, posts>>

\* Any error of an external call while reconciling.
ReconcileError(w) ==
    /\ pc[w] \in {"reconcile", "confirm"} /\ Fault("error")
    /\ Goto(w, "defer")
    /\ UNCHANGED <<jobVars, itemVars, linkVars, shopVars, posts>>

-----------------------------------------------------------------------------
(* The end of an item *)

\* Mutant: a match for review is approved as already existing.
ResultApproves(w) == IF wk[w].verdict \in AllErrors THEN "REJECTED" ELSE "APPROVED"
Result(w) == IF wk[w].verdict \in {"REVIEW"} \cup AllErrors
               THEN "REJECTED" ELSE "APPROVED"

\* What a finish that gives w's verdict makes of the items in a terminal status.
Judged(w, s) == InState(s) \cup {k \in {wk[w].key} : Result(w) = s}

\* Mutant: the items are counted before the verdict is written.
TallyBefore(w) == [yes |-> Cardinality(InState("APPROVED")),
                   no |-> Cardinality(InState("REJECTED")), all |-> Cardinality(Items)]
Tally(w) == [yes |-> Cardinality(Judged(w, "APPROVED")),
             no |-> Cardinality(Judged(w, "REJECTED")), all |-> Cardinality(Items)]

\* finish_tiendanube_migration_item begins: it locks the item and counts what is
\* committed and its own verdict.
Begin(w) == GotoWith(w, "commit", [wk[w] EXCEPT !.tally = Tally(w)]) /\ UNCHANGED linkVars

\* It ends: the job gets the counts made before, and the item is visible.
FinishItem(k, result, tally) ==
    /\ item' = [item EXCEPT ![k] = result]
    /\ approved' = tally.yes /\ rejected' = tally.no
    /\ status' = IF tally.yes + tally.no = tally.all
                   THEN IF tally.no > 0 THEN "COMPLETED_WITH_REJECTIONS" ELSE "COMPLETED"
                   ELSE "QUEUED"
    /\ lock' = "none"

\* What processNext does with a terminal result.
AfterTerminal(w) ==
    IF wk[w].msg.mode = "SINGLE_ITEM"
      THEN GotoWith(w, "pauseSingle", [wk[w] EXCEPT !.tally = NoTally]) /\ UNCHANGED linkVars
      ELSE Return(w, wk[w].more)

\* What follows a finish that failed or seems to have: of an outcome a deferral
\* or another decision, of a rejection the end of the invocation.
FinishFails(w) ==
    LET Then(stage, verdict) ==
          /\ GotoWith(w, stage, [wk[w] EXCEPT !.verdict = verdict, !.tally = NoTally])
          /\ UNCHANGED linkVars
    IN IF wk[w].verdict \in AllErrors THEN Throw(w)
       ELSE IF wk[w].sent THEN Then("defer", wk[w].verdict) ELSE Then("handle", "temporary")

Finish(w) ==
    LET k == wk[w].key IN
    /\ pc[w] = "finish" /\ k \notin Locked
    /\ IF item[k] = "PROCESSING" THEN Begin(w) ELSE FinishFails(w)
    /\ UNCHANGED <<jobVars, itemVars, shopVars, posts, faults>>

\* The transaction is committed (a fault: its answer is lost), or rolled back, as
\* by a deadlock with a claim that has the job and waits for the item.
Commit(w) ==
    /\ pc[w] = "commit"
    /\ \/ /\ FinishItem(wk[w].key, Result(w), wk[w].tally)
          /\ \/ AfterTerminal(w) /\ NoFault
             \/ FinishFails(w) /\ Fault("lost")
       \/ /\ UNCHANGED <<item, approved, rejected, status, lock>>
          /\ FinishFails(w) /\ Fault("error")
    /\ UNCHANGED <<due, token, limit, scroll, total, posted, cycle, shopVars, posts>>

\* pauseJob after one product in SINGLE_ITEM mode.
PauseSingle(w) ==
    /\ pc[w] = "pauseSingle"
    /\ PauseJob
    /\ Return(w, FALSE)
    /\ UNCHANGED <<token, limit, scroll, total, approved, rejected, itemVars, shopVars,
                   posts, faults>>

\* Mutant: the rejection does not ask for a PROCESSING item.
HandleRejectAnyway(w) ==
    LET k == wk[w].key IN
    /\ pc[w] = "handle" /\ Decide(wk[w].verdict, wk[w].cyc) = "REJECT" /\ k \notin Locked
    /\ IF item[k] # "ABSENT" THEN Begin(w) ELSE Throw(w)
    /\ UNCHANGED <<jobVars, itemVars, shopVars, posts, faults>>

\* handlePrePostError
HandleReject(w) ==
    LET k == wk[w].key IN
    /\ pc[w] = "handle" /\ Decide(wk[w].verdict, wk[w].cyc) = "REJECT" /\ k \notin Locked
    /\ IF item[k] = "PROCESSING" THEN Begin(w) ELSE Throw(w)
    /\ UNCHANGED <<jobVars, itemVars, shopVars, posts, faults>>

HandlePause(w) ==
    /\ pc[w] = "handle" /\ Decide(wk[w].verdict, wk[w].cyc) = "PAUSE"
    /\ PauseJob
    /\ Return(w, FALSE)
    /\ UNCHANGED <<token, limit, scroll, total, approved, rejected, itemVars, shopVars,
                   posts, faults>>

\* retry_tiendanube_migration_item
HandleRetry(w) ==
    LET k == wk[w].key IN
    /\ pc[w] = "handle" /\ Decide(wk[w].verdict, wk[w].cyc) = "RETRY" /\ k \notin Locked
    /\ IF item[k] = "PROCESSING" /\ ~posted[k]
         THEN /\ item' = [item EXCEPT ![k] = "PENDING"]
              /\ status' = "QUEUED" /\ lock' = "none" /\ due' = FALSE
              /\ Return(w, TRUE)
         ELSE UNCHANGED <<item, status, lock, due>> /\ Throw(w)
    /\ UNCHANGED <<token, limit, scroll, total, approved, rejected, posted, cycle,
                   shopVars, posts, faults>>

\* deferReconciliation, wait_tiendanube_migration_reconciliation
Defer(w) ==
    LET k == wk[w].key IN
    /\ pc[w] = "defer"
    /\ IF wk[w].cyc >= ReconcileBudget
         THEN PauseJob /\ item' = item /\ Return(w, FALSE)
         ELSE /\ k \notin Locked
              /\ IF item[k] = "PROCESSING" /\ posted[k]
                   THEN /\ item' = [item EXCEPT ![k] = "RECONCILING"]
                        /\ status' = "WAITING_RECONCILIATION"
                        /\ lock' = "none" /\ due' = FALSE
                        /\ Return(w, TRUE)
                   ELSE UNCHANGED <<item, status, lock, due>> /\ Throw(w)
    /\ UNCHANGED <<token, limit, scroll, total, approved, rejected, posted, cycle,
                   shopVars, posts, faults>>

-----------------------------------------------------------------------------
Work(w) ==
    \/ ClaimJob(w) \/ ClaimDenied(w) \/ Reread(w) \/ PickItem(w) \/ PickNothing(w)
    \/ DiscoverPage(w) \/ DiscoveryFails(w)
    \/ PrePostError(w) \/ Reserve(w) \/ MatchSku(w) \/ MarkPostStarted(w)
    \/ PostProduct(w) \/ CompleteLink(w)
    \/ ReadLink(w) \/ Confirm(w) \/ ReconcileError(w)
    \/ Finish(w) \/ Commit(w) \/ PauseSingle(w)
    \/ HandleReject(w) \/ HandlePause(w) \/ HandleRetry(w) \/ Defer(w)

Next ==
    \/ StartNewJob \/ StartAgain \/ Resume
    \/ LeaseExpires \/ RunDue
    \/ \E k \in Keys : LatePost(k) \/ ShopIndexes(k)
    \/ \E w \in Workers : Observe(w) \/ Work(w) \/ Crash(w) \/ Redeliver(w)

Spec == Init /\ [][Next]_vars

-----------------------------------------------------------------------------
(* Properties *)

\* A source key is sent to POST /products at most once, whatever resumes,
\* redeliveries, crashes and lost answers happen (replicate, reconcile).
AtMostOnePost == \A k \in Keys : posts[k] <= 1

\* Once a POST may have left, the link keeps the source key reserved: no path
\* releases it to FAILED, from where it could be reserved and sent again.
PostedKeepsReservation ==
    \A k \in Keys : posts[k] > 0 => link[k] \in {"PENDING", "COMPLETED"}

\* A product found by SKU that the panel did not create is never duplicated.
ForeignNeverPosted == \A k \in Keys : shop[k] = "foreign" => posts[k] = 0

\* An approved item has a completed link to a product of the store that came
\* from its own source, and never to a mere SKU match.
ApprovedIsPublished ==
    \A k \in Keys : item[k] = "APPROVED" =>
        link[k] = "COMPLETED" /\ shop[k] \in {"created", "indexed"}

\* What the job row tells the user is true after every transaction, recoveries
\* and repeated discovery pages included: its counters are those of the item rows,
\* a completed job has no item left and says whether some were rejected.  So it is
\* as long as no two finishes overlap: each may miss the verdict of the other.
ProgressIsTrue ==
    /\ total = Cardinality(Items)
    /\ approved = Cardinality(InState("APPROVED"))
    /\ rejected = Cardinality(InState("REJECTED"))
    /\ status \in Completed =>
        /\ Items = InState("APPROVED") \cup InState("REJECTED")
        /\ (status = "COMPLETED_WITH_REJECTIONS") <=> (InState("REJECTED") # {})

\* Two finishes that overlap may each miss the verdict of the other, and the later
\* one then leaves the job with counts that are too low.  Even so the user is never
\* shown a verdict that was not given, the total is right, and a test job has no
\* item over its limit, whatever discovery pages come late or twice.
NothingOverstated ==
    /\ total = Cardinality(Items)
    /\ approved <= Cardinality(InState("APPROVED"))
    /\ rejected <= Cardinality(InState("REJECTED"))
    /\ status = "COMPLETED_WITH_REJECTIONS" => InState("REJECTED") # {}
    /\ limit # 0 => Cardinality(Items) <= limit

\* The post_lifecycle check of the items table is never what stops a step: a
\* pending item has no started POST, a reconciling one has.
PostLifecycle ==
    \A k \in Keys : /\ item[k] = "PENDING" => ~posted[k]
                    /\ item[k] = "RECONCILING" => posted[k]

\* A verdict is final: no late worker turns an approved or rejected item over.
VerdictIsFinal ==
    [][\A k \in Keys : item[k] \in Terminal => item'[k] = item[k]]_vars

\* An item whose POST may have reached the store is never rejected: it stays
\* until it is reconciled.
PostedNeverRejected == \A k \in Keys : item[k] = "REJECTED" => ~posted[k]

\* A completed job stays completed: no delivery that is still under way when
\* the last item gets its verdict pauses, requeues or rediscovers it.
CompletedIsFinal == [][(status \in Completed) => (status' \in Completed)]_vars

\* A job without a test limit completes only when every source key of the
\* catalogue has become an item, whatever pages were read twice, as long as
\* no page is fetched and lost.
NothingSkipped == status \in Completed /\ limit = 0 => Items = Keys

\* A resume takes the right to create away from every earlier worker, as long as
\* none outlives its lease: whoever POSTs has the job's token.
ResumeRevokesCreation ==
    [][\A w \in Workers : PostProduct(w) => wk[w].msg.token = token]_vars

\* The migration implements PublishOnce.
Publishing == INSTANCE PublishOnce WITH
    sent     <- {k \in Keys : posts[k] > 0},
    made     <- {k \in Keys : shop[k] \in {"created", "indexed"}},
    linked   <- {k \in Keys : link[k] = "COMPLETED"},
    approved <- InState("APPROVED"),
    rejected <- InState("REJECTED")
PublishesOnce == Publishing!Spec

-----------------------------------------------------------------------------
(* The inductive invariant behind the safety properties                      *)

\* Stages in which an invocation works on the source key it was given.
OnItem == {"prepare", "match", "mark", "post", "link", "finish", "commit", "handle",
           "reconcile", "confirm", "defer"}
\* Stages between the reservation and the completion of the link.
Reserving == {"match", "mark", "post", "link"}

KeyTaken == \A w \in Workers : pc[w] \in OnItem => wk[w].key \in Keys

\* From the reservation to the link, an invocation holds the link of its key,
\* unless a reconciliation has completed it meanwhile.
HoldsLink == \A w \in Workers : pc[w] \in Reserving =>
    \/ link[wk[w].key] = "PENDING" /\ holder[wk[w].key] = w
    \/ link[wk[w].key] = "COMPLETED"

\* The mark comes before the POST, and only one invocation gets it.
MarkedBeforePost ==
    /\ \A k \in Keys : posts[k] > 0 => posted[k]
    /\ \A w \in Workers : pc[w] = "post" =>
         posted[wk[w].key] /\ posts[wk[w].key] = 0
    /\ \A w, v \in Workers :
         pc[w] = "post" /\ pc[v] = "post" /\ wk[w].key = wk[v].key => w = v

\* Whoever could still release a reservation has not posted.
ReleasedUnposted == \A w \in Workers :
    pc[w] = "match" /\ link[wk[w].key] = "PENDING" /\ holder[wk[w].key] = w =>
        posts[wk[w].key] = 0

\* Only items in or past processing carry a mark, as their status says.
MarkedByStatus == \A k \in Keys : /\ item[k] \in {"ABSENT", "PENDING"} => ~posted[k]
                                  /\ item[k] = "RECONCILING" => posted[k]

\* A foreign product is never marked, and a reconciled item always is.
OwnProducts ==
    /\ \A k \in Keys : posted[k] => shop[k] # "foreign"
    /\ \A w \in Workers : /\ pc[w] \in {"mark", "post"} => shop[wk[w].key] # "foreign"
                          /\ pc[w] \in {"reconcile", "confirm"} => posted[wk[w].key]
                          /\ pc[w] = "link" => shop[wk[w].key] \in {"created", "indexed"}

\* Completed links lead to own products, and are what an approval relies on.
LinkedIsMade ==
    /\ \A k \in Keys : link[k] = "COMPLETED" => shop[k] \in {"created", "indexed"}
    /\ \A w \in Workers : pc[w] \in {"finish", "commit"} =>
         Result(w) = "REJECTED" \/ link[wk[w].key] = "COMPLETED"

\* Own products come from a POST of the job or of an earlier replication.
MadeByPost ==
    /\ \A k \in Keys : /\ inflight[k] => posts[k] > 0
                       /\ posts[k] = 0 /\ shop[k] = "created"
                            => link[k] \in {"PENDING", "COMPLETED"}
                       /\ posts[k] = 0 /\ posted[k] => shop[k] = "absent"
    /\ \A w \in Workers :
         /\ pc[w] = "match" /\ posts[wk[w].key] = 0 => shop[wk[w].key] # "created"
         /\ pc[w] \in {"mark", "post"} /\ posts[wk[w].key] = 0 => shop[wk[w].key] = "absent"

\* What every step of the migration preserves about links, marks and products.
IInv == /\ TypeOK /\ AtMostOnePost /\ KeyTaken /\ HoldsLink /\ MarkedBeforePost
        /\ ReleasedUnposted /\ PostedKeepsReservation /\ MarkedByStatus /\ OwnProducts /\ LinkedIsMade
        /\ MadeByPost /\ ApprovedIsPublished

\* A finish has its item to itself until it is committed.
FinishesAlone ==
    /\ \A w \in Workers : pc[w] = "commit" => item[wk[w].key] = "PROCESSING"
    /\ \A w, v \in Workers :
         pc[w] = "commit" /\ pc[v] = "commit" /\ wk[w].key = wk[v].key => w = v
-----------------------------------------------------------------------------
(* Liveness.  The queue delivers every message sooner or later, invocations *)
(* end, and time passes: leases expire and next_run_at is reached.           *)
Fairness == /\ WF_vars(LeaseExpires) /\ WF_vars(RunDue)
            /\ \A w \in Workers : WF_vars(Observe(w)) /\ WF_vars(Work(w))

FairSpec == Spec /\ Fairness

\* A message or an invocation of the job's current execution exists.
Carried == \/ \E m \in queue : m.token = token
           \/ \E w \in Workers : pc[w] # "idle" /\ wk[w].msg.token = token

\* The chain of messages never breaks and never runs for ever: an execution
\* whose message was sent ends with the job completed or paused.
ExecutionSettles == Carried ~> status \in {"PAUSED"} \cup Completed
=============================================================================

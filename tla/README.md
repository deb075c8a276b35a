# Formal model of panel-ml

panel-ml is a NestJS API that connects a seller's Mercado Libre account with a
Tiendanube store. It runs as serverless functions: a request handler or a queue
consumer lives for seconds, several of them run at once, and all lasting state is
in Supabase (PostgreSQL behind PostgREST and SQL functions). The work that is
hard to get right is done by background jobs: a message of Vercel Queue carries
a job one step further and its consumer enqueues the next message. The queue
delivers at least once, a function may be killed at its time limit, a call to a
store may time out and still be executed, and the user may cancel, resume or
start again at any moment.

This directory models those jobs, and the other parts that have a protocol of
their own (the shared connection with Mercado Libre, the changes of promotions), in
TLA+, checks them with TLC on small instances and proves the main invariants with
TLAPS for instances of any size. Ten runs check thirty-nine properties
and two more show where the code disagrees with its documentation and with its own
unit tests; forty-eight theorems in eight modules stand beside them, one at least for
every invariant, every action property and the refinement the passing runs check.

## Inventory

Each part with its state, its operations, what it interacts with, what is hard
about it and what makes it correct. `PROJECT.json` lists the same parts with
their sources, and the hazards at the line where each one bites.

**Tiendanube global migration** (`src/tiendanube/migration`, three SQL files).
*State:* one job row (status, lease, next run, execution token, scroll, counters),
one item row per source key (status, attempts, `post_started_at`). *Operations:*
start, resume, and per message: claim the job, read a discovery page, claim an
item, replicate or reconcile it, finish, retry, defer or pause. *Interacts* with
the product links, Mercado Libre, Tiendanube and the queue. *Hard:* two live
invocations, a lease that expires under its holder, duplicate messages, a POST
that times out but takes effect, a lost answer of an RPC, resume under a stale
worker, two finishes that count before either locks the job. *Correct when* no product is created twice, an approved item is really
published, verdicts are final, progress agrees with the items, and the chain of
messages always ends.

**Product links and source replication** (`src/tiendanube/replication`).
*State:* one link row per source key: PENDING, FAILED or COMPLETED with a
version. *Operations:* reserve, complete, fail, complete after reconciliation.
*Interacts* with the migration and with the interactive replication endpoints,
which share the table. *Hard:* what a failed POST means, who may still release a
reservation. *Correct when* a reservation is released only if nothing was sent,
and a link is completed with the product of its own source.

**Publications full sync job** (`src/mercadolibre/publications/sync`, job and queue).
*State:* one job row (status, scan, buffer of item ids, counters, retries).
*Operations:* start, cancel, and per message: claim, scan or take 10 ids of the
buffer, save them, checkpoint; at the end clean up and complete. *Hard:* there is
no lease, so a crash leaves the job RUNNING; cancellation races with a batch;
a message is dropped on a conflict; the scan keeps its position in Mercado Libre
while the job keeps its own; only consecutive retries are counted. *Correct
when* the clean-up only follows a complete scan, counters agree with what was
saved, and a job that is neither crashed nor cancelled ends.

**Publications snapshot and webhook** (writer, products and children
repositories, `src/mercadolibre/webhook`). *State:* parents keyed by item or
family with the id of the full sync that saw them last, children keyed by item,
and in memory the set of items being synchronised. *Operations:* save a shared
item or a whole family, delete what a full sync has not seen, coalesce repeated
notifications. *Hard:* the writes of one save are separate requests; a webhook
interleaves with a batch and with the clean-up. *Correct when* the clean-up never
deletes a publication that is still for sale, and the last notification is
followed by a read that saw its change, nothing is shown twice, and what is shown is right once its
saves are done.

**Stock and promotion bulk jobs** (`direct-publications/stock-bulk`,
`promotions/promotion-bulk-job*`). *State:* job and items. *Operations:* start,
claim with a two-minute stale rule, claim an item, apply, finish or retry,
refresh the counters. *Hard:* the claim is not fenced, so a slow worker finishes
an item another one has claimed again; the refresh reads the items and writes
the job in two requests. *Correct when* a completed job has no open item and its
counters are those of its items, a success was made, and every job ends.

**Tiendanube bulk edit** (`src/tiendanube/bulk-edit`). *State:* snapshot, job with
token and lease, items in batches of 50. *Hard:* a lease of 120 s around slow
calls, uncertain answers that are verified by reading, items stuck in PROCESSING
when a job looks finished. *Correct when* success is only reported for variants
that took the change, a verdict stands, and every item ends.

**Mercado Libre tokens** (`src/mercadolibre/auth`). *State:* one row per owner
with a version, and in memory the refresh under way. *Operations:* refresh,
reconnect, disconnect, one retry after 401. *Hard:* the refresh token is used
once; two processes may refresh at once, a reconnection may come in between, the
answer of the compare-and-swap may be lost. *Correct when* a stored pair is never
replaced by an older one, the loser of a race ends with the winner's token, and no
operation acts for one account with the token of another.

**Promotions** (`direct-publications/promotions`, the change of one publication).
*State:* none of its own: the participations are kept by Mercado Libre, which shows a
write some time after it was made. *Operations:* apply (which first removes what is
active), change a price, remove all, remove one, for every item of a family side by
side. *Hard:* a write whose answer is a timeout, reads that lag behind, a family of
which one item is refused, two requests about one item. *Correct when* a refused
request wrote nothing, no write is sent twice, success was seen, and an
application leaves one active promotion.

**Application sessions** (`src/auth`). *State:* one row per session with the hash
of its refresh token. *Operations:* login, rotate, revoke. *Correct when* a
refresh token is accepted once and never after the logout.

**Sales, OAuth of Tiendanube, products, categories, sizes, direct publications,
TiendaNegocio, users and workspaces, HTTP clients.** They forward
requests, compute views or write single rows; they have no protocol of their
own. See *Not modelled*.

## Plan

Done, in this order:

1. `PublishOnce`, `TiendanubeMigration`: the migration and what it promises.
2. `PublicationSync`: the full sync of publications with its queue, its snapshot of
   parents, single saves of the webhook, cancellation and a changing catalogue.
3. `BulkJob`: stock and promotion jobs as one module.
4. `TokenRefresh`: the connection with Mercado Libre.
5. `BulkEdit`: the leased bulk edit with uncertain answers.
6. `PromotionChange`: the requests about the promotions of a publication.
7. `PublicationSnapshot`: children next to parents, publications that move between
   families and stand alone, coalescing of notifications.

Each has theorems in a module of its own, named after it with `Proofs`; the migration
has a second one, `TiendanubeMigrationPromises`. `MC…` modules hold what a run needs
beyond its `.cfg`.

What is left:

- `SourceReplication`: the interactive replications next to a migration;
- `RefreshSession`: rotation of the refresh tokens of the application against logout.

## The migration: modules

| module | what it is |
| --- | --- |
| `PublishOnce` | what the migration promises for a source key: sent at most once, linked only when made, approved only when linked |
| `TiendanubeMigration` | job, items, links, store, queue and invocations; properties, inductive invariant, fairness |
| `MCTiendanubeMigration` | symmetry |
| `TiendanubeMigrationProofs` | types, the safety of one product, and their proofs |
| `TiendanubeMigrationPromises` | verdicts, refinement, counters, and what holds with the lease discipline, with their proofs |

### State

| variables | code |
| --- | --- |
| `status, lock, due, token, scroll, total, approved, rejected, limit` | row of `tiendanube_migration_jobs`; `limit` is `test_limit`, 0 for null; `locked_until` compared with the clock is `none`, `live` or `past`, `next_run_at` is `due` |
| `item, posted, cycle` | rows of `tiendanube_migration_items`; `posted` is `post_started_at is not null`, `cycle` is `cycle_attempts` |
| `link, holder` | rows of `tiendanube_product_links`; the reservation version is only known to the invocation that reserved, so the link records that invocation |
| `shop, inflight` | the Tiendanube store: no product, a product of somebody else, ours but not yet found by SKU, ours; a POST whose client gave up |
| `queue` | messages `{jobId, mode, executionToken}` waiting to be delivered |
| `pc, wk` | the invocations: their stage in `processNext` and their local variables; in the stage `commit` the transaction of a finish is open, with the counts it has made |
| `posts, faults` | how often a key was posted (counted to 2), and the bound on faults |

### Actions

A SQL function is one transaction, and one action where its first write locks the
row that decides it. `finish_tiendanube_migration_item` is two: it updates and so locks
its item, counts the items in a snapshot taken then, and only afterwards updates the
job row. `Finish` and `HandleReject` begin it (`Begin`: the item is locked, the counts are
taken) and `Commit` ends it (`FinishItem`: the verdict is visible, the counts are in the
job). In between everything else may happen except what wants a locked item
(`Locked`): the recoveries of `ClaimJob` and `Resume`, a mark, a retry, a deferral, a
second finish, a page that brings the same source key. Those wait. A claim or a resume
locks the job first and its items then, a finish the other way round: PostgreSQL
detects that deadlock and rolls one of the two back, which for the finish is the branch
of `Commit` that fails and for the claim an attempt that changes nothing.

What an invocation does between two transactions is a step of its own, so that every
other actor can come in between:

`Observe` (delivery and the first `findJob`), `ClaimJob` / `ClaimDenied`, `Reread`
(the second `findJob`), `DiscoverPage` / `DiscoveryFails`, `PickItem` /
`PickNothing`, `Reserve`, `MatchSku`, `MarkPostStarted`, `PostProduct`,
`CompleteLink`, `ReadLink`, `Confirm`, `Finish`, `Commit`, `PauseSingle`, `HandleReject`,
`HandlePause`, `HandleRetry`, `Defer`; `StartNewJob`, `StartAgain`, `Resume` for the
user; `LeaseExpires`, `RunDue` for the clock; `Crash`, `Redeliver`, `LatePost`,
`ShopIndexes` for the platform. Every RPC that the code retries or handles may
also be applied and lose its answer (`Fault("lost")`).

### Abstractions

- The scroll id of Mercado Libre is the set of source keys it still leads to.
  Null starts a scan of the whole catalogue. The position is kept by Mercado Libre,
  so a page that was fetched and not recorded is not served again: the fault `page`.
- Two reads in a row that decide nothing are one step: `findBySourceKey` with
  `reserve_…_by_source` (the second repeats the decision of the first), the search
  by SKU with the release or the confirmation that follows it.
- `complete_empty_tiendanube_migration_job` is part of `PickNothing`: both only
  depend on the job row.
- `cycle_attempts` stops counting at the largest budget it is compared with.
- Equal messages waiting in the queue are one element: a second copy is a
  redelivery, and that is a fault of its own.
- A source key starts in one of seven situations that earlier replications leave:
  new, a product of the seller, published, reserved (PENDING) without a product or with
  one whose POST was never confirmed, released (FAILED) without a product or with one
  the search finds. Left out is a released reservation whose product the search does
  not find yet: interactive replications release after a POST that may have taken
  effect, and a migration that starts within that delay posts such a key again. The
  search is all the code has against it.
- One job row: after it is completed no other job is started.
- The interactive replication does not run next to the migration (planned), and
  the seller adds no product by hand after the start.
- A crash after the last RPC and before the acknowledgement is a redelivery.

### Runs

| run | instance | shows |
| --- | --- | --- |
| `one_source` | 1 key in any situation but `failed`, 2 invocations, 1 resume in either mode, 2 faults of any kind, slow workers | `AtMostOnePost`, `PostedKeepsReservation`, `ForeignNeverPosted`, `ApprovedIsPublished`, `VerdictIsFinal` and the refinement `PublishesOnce` |
| `lease_discipline` | 2 keys with a failed reservation or a foreign product, 2 invocations, 1 resume, 2 faults, with and without a test limit of 1, fair; no lease expires under its holder, no answer and no page is lost, CONTINUE only | `PostedNeverRejected`, `NothingSkipped`, `ProgressIsTrue`, `CompletedIsFinal`, `ResumeRevokesCreation`, `ExecutionSettles` |

*Bounds.* `RetryBudget` and `ReconcileBudget` are 2 where the code has 5 and 4: a
first attempt, a retry and an exhausted budget all occur. `MaxResumes` bounds the
tokens: one resume is enough for a worker of an old execution to meet a new one.
`MaxFaults` bounds crashes, errors, lost answers and pages, late POSTs and
redeliveries together; two let one fault meet the recovery from another. One key is enough for
the properties of a single product, two for the counters and for the order of
items. Two invocations are the least that interleave; the proofs cover more.

*What the assumptions of `lease_discipline` mean.* Without them the code does
violate its properties: an invocation that outlives its 120 s lease works on an
item that another one has recovered and finishes one while another is being finished, a page that was fetched but not recorded is
skipped by the retry, a discovery page whose answer was lost is
followed by `retry_tiendanube_migration_discovery`, which has no condition on the
status, and in SINGLE_ITEM mode `pauseJob` follows the verdict of the last item
and reopens a completed job. The hazards list says where.

*Deadlock.* The runs do not check it: a completed or paused job with an empty
queue is where the system rests.

*Fairness* (`lease_discipline`). Weak fairness of every invocation's steps: a function that
is not killed runs on. Weak fairness of delivery: the queue keeps a message until
it is acknowledged. Weak fairness of the clock: leases expire, `next_run_at` is
reached. None for crashes, errors, the user or the store.

### What the properties leave out

- A temporary error between the reservation and the POST is retried, but the retry
  meets its own PENDING link and the item is rejected for review: nothing is
  published twice, and nothing is published.
- A resume takes the right to create away from earlier workers only where the token
  is compared, when a job or an item is claimed. An invocation that outlives its
  lease can still mark its item and POST with the token of an earlier execution.
  `ResumeRevokesCreation` is therefore checked with the lease discipline; no product
  is duplicated even without it: `AtMostOnePost` holds with slow workers.
- `ProgressIsTrue` needs the discipline as well. With slow workers and no fault at all
  TLC finds two ways out of it. Two finishes of different items overlap, neither
  counts the verdict of the other, and the later one leaves the job QUEUED with every
  item settled and counters one too low; if the message is gone by then, nothing
  corrects them. And a late page recorded between the counting and the end of a
  finish leaves the job COMPLETED with an item pending. What holds under every schedule
  is `NothingOverstated`: no verdict is counted that was not given, the total is that of
  the items, and a test job keeps to its limit. It is proved, and no run checks it.
- `ForeignNeverPosted` takes for granted that the search finds a product of the seller;
  it is about what the code does with one it has found.

### Proofs

`TiendanubeMigrationProofs` proves, for any finite catalogue, any number of
invocations and any budgets and bounds, from the named assumptions on the
constants:

- `TypeCorrect`: `Spec => []TypeOK`;
- `Invariance`: `Spec => []IInv`;
- `PostedOnce`, `StaysReserved`, `ForeignIsLeft`, `ApprovalIsSound`,
  `LifecycleHolds`: the safety properties `IInv` implies.

`AtMostOnePost` is not inductive by itself. A second POST could come from a second
mark, from a mark that was never there, or from two invocations past the mark.
`MarkedBeforePost` excludes them, but needs to know that a key with a mark is
never processed as if it had none (`MarkedByStatus`), that the link stays with
whoever reserved it until it is completed (`HoldsLink`, `ReleasedUnposted`,
`PostedKeepsReservation`), and that what a search by SKU finds is somebody else's
product or already linked (`OwnProducts`, `LinkedIsMade`, `MadeByPost`). `IInv` is
their conjunction. The proof restates it as one formula per invocation
(`WorkerFine`) and per key (`KeyFine`, `ItemFine`); the lemma `Combine` reduces a step of
one invocation to what it does to itself and to its own key, and one lemma per
group of actions does the rest.

`LifecycleHolds` shows that the constraint `post_lifecycle` of the items table is never
what stops a step.

`TiendanubeMigrationPromises` builds on `IInv`. Under every fault and with slow
workers it proves

- `FinishAlone`: `FinishesAlone`, a finish has its item to itself. An item that is
  locked stays PROCESSING until its finish ends, because every step that would change it
  waits, and no other finish begins on it;
- `VerdictsStand`: `VerdictIsFinal`. Every step gives no verdict or gives one to an
  item that is being processed (`VerdictStep`), which at the end of a finish is what
  `FinishAlone` says;
- `Refinement`: the migration implements `PublishOnce`. A step of the migration sends
  a key, makes it, links it, gives it a verdict, or changes nothing that
  `PublishOnce` shows (`PublishStep`);
- `ProgressIsFair`: `NothingOverstated`. What a finish has counted is at most what is
  there when it ends, since verdicts are not taken back and its own is added by its
  end; a job that was never started has no items.

The other properties hold only while nobody outlives its lease, and the theorems say
so in a premise on the constants that `lease_discipline` satisfies. `Discipline` is: no
slow workers, no lost answers, resumes with CONTINUE. Under it
`OneAtATime` shows `LeaseInv`: whoever is at work holds the live lease, alone, with
the token of the job, the job and its item are in the state its stage
expects, and no posted item is rejected. `PostedStays`, `TokenToCreate` and
`CompletedStands` follow. So does `ProgressShown`: nobody else is at work between the
counting and the end of a finish, so what it has counted is still the truth then
(`ExactInv`), and the counters of the job are those of its items in every state. `WholeCatalogue` (`NothingSkipped`) needs `Scanning`:
`Discipline`, no page that is lost between the fetch and the record, and no error kind
but authorization and temporary ones. Its invariant `DiscoveryInv` says that what is not an item yet
is still ahead in the scan. Only `ExecutionSettles` is model-checked and not proved.

## The publications sync: modules

| module | what it is |
| --- | --- |
| `PublicationSync` | catalogue, job rows, queue, invocations, snapshot, webhook; properties, fairness, inductive invariants |
| `MCPublicationSync` | two publications of one family and one on its own, symmetry |
| `PublicationSyncProofs` | theorems and their proofs |

### State

| variables | code |
| --- | --- |
| `catalogue, cursor` | Mercado Libre: the publications of the seller, and what the scroll of each job has still to return |
| `job, last` | rows of `mercadolibre_sync_jobs`: status, `started_at`, scan state, buffer, `total_items`, `processed_items`, whether anything failed or was saved, consecutive retries |
| `count` | the total a request of `start` has read before it creates the job |
| `queue` | jobs with a message `{jobId, sellerId}` waiting |
| `pc, wk` | the invocations: their stage in `consume` and `processNext`, the job as the claim returned it, the batch, what is still to be saved and to be marked, the error that was caught |
| `stored, seen, stamp` | rows of `mercadolibre_products`: external keys, `last_full_sync_id`, `last_synced_at` |
| `notice` | the publication a webhook has read and will save |
| `clock` | the order of `started_at` and `last_synced_at` |
| `scanned` | history: what has been listed ever since the scan of a job began |
| `faults, changes, notices` | the bounds |

### Actions

`StartActive`, `CountItems`, `CreateJob` and `Cancel` are the requests of the user;
`Publish` and `Withdraw` the seller; `NoticeRead` and `NoticeSaved` the webhook. An
invocation goes through `Deliver` (the first read of the job), `Claim`, `FetchPage`
or `ScanEnded`, `ReadBatch`, `SaveParent` and `MarkSeen` for each parent,
`Checkpoint` and `SendNext`; at the end of the scan through `RefuseCompletion`, or
`CleanUp` and `Complete`. `StepFails` leads to `HandleError`; `Crash` kills it.
Every conditional update has the branch in which it matches no row (a conflict),
and the ones the code handles may be applied and lose their answer (`"lost"`), or
not be applied at all (`"unwritten"`).

### Abstractions

- A request is a step; the writes of one parent are its first write (`SaveParent`)
  and the mark (`MarkSeen`). Parents of a batch are saved in any order, as
  `mapWithConcurrency` does. Children, and publications that change their family, are in
  `PublicationSnapshot`.
- A parent is an item of its own or a family; several publications of a family
  share its row.
- Times are only compared with `started_at`, so `clock` advances when
  `started_at` is set and everything until the next such claim has one time.
- The scan returns any page of the given size of what is left, and the buffer is
  taken in any order: the order of Mercado Libre is unknown.
- Equal messages of a job are one element of `queue`; a second copy is `"again"`.
- An error before the claim leaves the job and gives the message back: a stutter.
- The webhook saves one publication at a time, one that was listed when it was read.
- Requests that only read (`getStatus`, `getActive`) are left out.

### Runs

| run | instance | shows |
| --- | --- | --- |
| `sync_exact` | 2 publications, 2 jobs, 3 invocations, 1 fault of any kind, fixed catalogue, `Orderly` | `CompletedIsExact` |
| `sync_driven` | 2 publications, 1 job, 2 invocations, webhook, 2 faults: errors, failed items, duplicates; fair | `OneHolder`, `ActiveIsDriven`, `KeepsListed`, `JobSettles` |
| `sync_changes` | 2 publications, 2 jobs, 3 invocations, 1 change of the catalogue, `Orderly` | `CompletedIsWhole` |
| `sync_lost_page` | 2 publications, 1 error, 1 change | violates `KeepsListed` |

*Bounds.* `PageSize` 1 stands for 100 and `BatchSize` 1 for 10: several pages, each
of one batch; pages of several batches are left to the proofs. `MaxRetries` 1 stands for 3: a retry and its
exhaustion. Two jobs are the least of which one can interfere with the next, two
invocations the least that interleave, two publications the least of which one
can be lost while the other is seen. `MaxFaults`, `MaxChanges` and `MaxNotices`
bound what happens from outside; the proofs hold for any of them.

*What the assumptions mean.* `KeepsListed` holds with the webhook (`sync_driven`), but
not with an error together with a change (`sync_lost_page`). RUNNING has no
lease: after a crash, a lost answer of the claim or a failed `complete` the job
stays RUNNING until the user cancels it, and after an unsent first message it
stays PENDING until the next start. `ActiveIsDriven` and `JobSettles` are therefore
checked without those faults.

*What `Orderly` means.* `CompletedIsExact` and `CompletedIsWhole` do not hold of every
schedule. Nothing tells an invocation that its job was cancelled before its next
checkpoint, and `markFullSync` does not ask whose run it is. Take three invocations:
one still saves for a cancelled job, one works on its successor, and one read the
successor before it was started and claims it late. The first marks a row for the old
job after the second has marked it for the new one, the late claim moves `started_at`
past the last save of that row, and the clean-up deletes it. Two invocations of
cancelled jobs do the same. `Orderly`, a
constraint of the two runs, allows one invocation of an earlier job to be at work at
any time and no claim by somebody who read the job before it was started; three
invocations let the old one, the new one and a duplicate meet.

*Deadlock* is not checked: a seller without an active job is where the system rests.

*Fairness* (`sync_driven`). Weak fairness of every invocation's steps and of
delivery, as for the migration. None for errors, the user, the seller or the webhook.

### A disagreement

The documentation says the clean-up only runs when nothing failed
(`docs/mercadolibre.md:133`). A page that was fetched and lost to a retryable error
fails nothing; only the comparison of processed with total items protects its
publications, and a publication added since the total was read makes the two agree
(`sync_lost_page`).

Two more behaviours the properties leave out. `started_at` can be written a second
time, by an invocation that read the job before its first claim: a row the webhook
wrote in between counts as older than the run. And the invocation of a cancelled
job may overwrite the mark of the next job, while a late save of the webhook sets
back the time that would still protect the row: together they let the clean-up
delete a listed publication, so `KeepsListed` is checked with one job.

### Proofs

`PublicationSyncProofs` proves, for any finite catalogue, any number of parents,
invocations, requests and jobs, any page and batch size and any bounds:

- `TypeCorrect`: `Spec => []TypeOK`, under every fault;
- `SingleHolder`: `Spec => []OneHolder` if no answer of the database is lost;
- `NoJobLost`: `Spec => []ActiveIsDriven` if moreover no update fails at the end, no
  first message is unsent and no function is killed (`Severing`);
- `SnapshotIsExact` and `ListedIsKept`: `CompletedIsExact` and `KeepsListed` while
  nobody works on an earlier job (`LatestOnly`), of a fixed catalogue, under every fault;
- `SnapshotIsWhole` and `CleanUpIsSafe`: `CompletedIsWhole` and `KeepsListed` while nobody
  works on an earlier job, of a catalogue that changes, if no error is retried and no
  answer is lost (`Retrying`).

`OneHolder` needs to know that nobody works on a job that waits to be claimed
(`Unheld`), that an invocation at work has a job (`Busy`) and that jobs that do not
exist yet are NEW (`Numbered`): `HolderInv`. Only the claim lets an invocation in
(`WorkFrame`), and a job becomes PENDING again only when its one holder leaves it
(`RowStep`). A lost answer of a checkpoint breaks `Unheld`, hence the assumption.
`ActiveIsDriven` could be lost when a message is swallowed because of a conflict;
`ConflictIsFinal` says that the job has ended then, and follows from `Unheld`.
`DriverStep` reduces a step of one invocation to what it does to its own job. Before
the proofs TLC confirmed both invariants on an instance with one publication, two
jobs and two invocations.

What the clean-up leaves is proved along two lines. With a fixed catalogue a job
completes only if it has counted as many publications as there are, so `ExactInv` says
what a count is worth: `Traced`, there is a set of that many publications, disjoint
from the buffer and from the rest of the scroll, all marked unless one failed. A page
that is lost then makes the count too small, and the job is refused. When the catalogue
changes a count proves nothing, and `WholeInv` follows the publications themselves:
`Cover`, whatever was listed since the scan began is marked, in the buffer or still to
come. A retryable error gives back a job with a page fetched and not written, which
breaks `Cover`; `sync_lost_page` shows that the property then really fails, so the
premise is needed. `LatestOnly` is stronger than the `Orderly` of the runs: schedules in
which one invocation of an earlier job is still at work are model-checked only.
TLC confirmed both invariants under `LatestOnly` before the proofs. `JobSettles` is
model-checked only.

## The bulk jobs of Mercado Libre: `BulkJob`, `BulkJobProofs`

Stock and promotion jobs follow one protocol; `kind` says which one a job is. A
promotion job has no skipped items, no automatic retry, no stop after an
authorization error and no retry of its errors.

| variables | code |
| --- | --- |
| `job` | row of the job: status, `processed_items`, the counters; the lock is whether somebody holds a RUNNING job |
| `item, attempts` | rows of the items: status, `attempt_count` |
| `skip` | items the job was created with that are not editable or change nothing |
| `messages, dispatched` | messages of the job in Vercel Queue; whether one that was due could not be sent |
| `pc, wk` | the invocations: their stage in `processNext` and their locals |
| `sent` | Mercado Libre: the targets that took their change |
| `retries, takeovers, faults` | the bounds |

*Actions.* `Deliver`, `Find`, `ClaimJob` / `ClaimRefused`, `PickItem` (a SELECT),
`TakeItem` (a conditional UPDATE), `Skip` / `UpdateStock` / `ApplyPromotion`,
`FinishItem`, `RetryItem` and `ReleaseForRetry`, `StopItem` and `StopJob`, `ListItems`
and `UpdateProgress`; `RetryErrors` for the user; `Fail` for any request that fails or
invocation that dies, which gives the message back, and `Duplicate` for the queue.
`FinishItem` has its own failing branch, because an error there is caught in
`processItem` and decides the fate of the item.

*Abstractions.* A request is a step. Sending the next message is part of the step
before it. SCHEDULED and ACTIVE promotions are one success; an error is temporary,
permanent or about the authorization. A RUNNING job whose holder is gone is claimed
two minutes later; one whose holder is still at work is a takeover, which is
bounded.

*Run.* `bulk_jobs`: a stock or a promotion job of 2 items, 2 invocations, 1 takeover,
1 fault, 1 retry of the errors, `MaxAttempts` 2 for 5; `CompletedIsSettled`,
`SuccessIsSent`, `OneHolder`, `JobSettles`. Two items are the least of which one is
open while the other is counted, two invocations the least that overtake.

*What the properties leave out.* With a takeover and a retry of the errors together,
a late `UpdateProgress` writes counters that were read before the retry and
completes a job with open items: `CompletedIsSettled` excludes that combination only.
A retry of the errors whose message cannot be sent leaves the job QUEUED, and
nothing resumes it: `JobSettles` asks for `dispatched`. A job that was stopped is
FAILED for good.

*Fairness.* Weak for delivery and the steps of an invocation, strong for the claim of
a job nobody holds: the message that meets it comes back every fifteen seconds.
Deadlock is not checked: a finished job rests.

*Proofs.* `OneAtATime`, `SuccessIsTrue`, `SettledWhenCompleted` and `TypeCorrect` hold for
any number of items, invocations, takeovers, retries and faults. `CompletedIsSettled`
depends on counters an invocation took with it from `ListItems`; the inductive
invariant `Inv` adds what those are worth: `CountsHold` (a counted total is the truth
while nobody was overtaken, and at most the truth while no errors were retried),
`TellsTrue` (who is about to write SUCCESS has made the change), and `OneHolder`, which
makes the first half of `CountsHold` stable. `JobSettles` is only model-checked.

## The bulk edit of Tiendanube: `BulkEdit`, `BulkEditProofs`

| variables | code |
| --- | --- |
| `job` | row of the job: status, execution token, lease (none, live, past), counters |
| `item, attempts, age` | rows of the items; `age` compares `processing_started_at` with the lease and two minutes |
| `messages, dispatched` | messages by their execution token |
| `pc, wk` | stage of an invocation, its batch, what it knows done, what it has to verify |
| `applied` | Tiendanube: the variants that show the requested values |
| `slow, faults` | the bounds |

*Actions.* `Deliver`, `Find`, `ClaimJob`, `ClaimItems`, `Patch`, `Verify`, `FinishItems`
and `FinishFails`, `RetryItems`, `Refresh`; `RetryFailures` for the user; `LeaseExpires`
and `GetsOld` for time; `Fail` and `Duplicate` for the platform. Each SQL function is
one action with the conditions it asks for: the token and a live lease in
`claim_items`, `finish_items` and `retry_items`, the token and RUNNING only in `refresh`.

*Abstractions.* One PATCH may take effect for any part of the batch and be answered
for any part; values are not told apart, a variant shows the change or it does not.
The preview and its snapshot are only read and are not modelled.

*Run.* `bulk_edit`: 2 variants in batches of 1, 2 invocations, 1 expiring lease, 1
fault, 1 retry of the user, `MaxAttempts` 2 for 3; `CompletedIsSettled`,
`SuccessIsApplied`, `AttemptsAreBounded`, `VerdictStands`, `JobSettles`.

*What the properties leave out.* Once a holder has outlived its lease it and its
successor may free each other's leases again and again (`retry_items` and `refresh`
do not ask whose lease it is), and attempts are then counted without progress:
`AttemptsAreBounded` and `JobSettles` leave behaviours with `slow > 0` out. A count
stops one above the largest bound, so that a run in which every fault is spent could
still exceed it. A late verdict is refused without a live lease; whether the variants
of its batch were changed a second time in Tiendanube is not asked, since a change sets
values and a second one sets the same.

*Fairness.* Weak for delivery, the steps of an invocation and time.

*Proofs.* `SuccessIsTrue`, `SettledWhenCompleted`, `VerdictsStand`, `AttemptsHold` and
`TypeCorrect` hold for any finite set of variants, any batch size and all bounds. The
invariant joins the two state properties with `YesIsApplied`: what an invocation counts
as done shows the change, also past its lease and in another execution. A completed
job stays settled because `finish_items` and `retry_items` only touch items that are
PROCESSING, and a job only completes when there are none. The bound on attempts has an
invariant of its own, `AttemptsInv`, while no lease has expired under its holder: one
invocation is at work and has the lease, and an item that may be taken has an attempt
left or a fault has paid for one. The second alone is not inductive, two holders
could take an item on one attempt. Only liveness is model-checked.

## The connection with Mercado Libre: `TokenRefresh`, `TokenRefreshProofs`

| variables | code |
| --- | --- |
| `row, writes` | row of `mercadolibre_tokens`; `writes` numbers its writes as `updated_at` dates them |
| `issued, last, usable, live` | Mercado Libre: the pairs it has issued and from which, those whose refresh token was not exchanged, those whose access token it accepts |
| `old` | pairs within the margin of `expires_at` |
| `req, leader` | the requests with their locals; the refresh under way in each process (`inFlightRefreshes`) |
| `connecting` | the pair an OAuth callback has exchanged and not saved |
| `lost, changes, faults` | history of a lost pair, the bounds |

*Actions.* `Begin` (read the row; operate, or start or join a refresh), `Exchange`, `Save`
(a compare-and-swap, repeated), `FindReplacement`, `Operate`, `Reread` after a 401;
`ExchangeCode` and `SaveTokens` of a reconnection, `Disconnect`; `Expire`, `Revoke` and
`Die` from outside. `Exchange` and `Save` may take effect and lose their answer.

*Abstractions.* Pairs are numbered; a token is the number of its pair. Operations are
one step. A token outlives any request that read another one (they live six hours).

*Run.* `tokens`: 3 requests of which 2 share a process, 2 accounts, 3 pairs, 1 change
(reconnection, disconnection, revocation), 1 fault, 2 tries of the save for the
code's 3; `PairIsKept`, `TokenOfSeller`, `OwnSaveIsRecognised`, `WaitersAreAnswered`. Two
requests of one process share a refresh, the third competes with it. *Fairness:*
weak for a request that has begun, every call ends or times out.

*Proofs.* `RightAccount`, `OwnSaveRecognised`, `PairKept` and `TypeCorrect` hold for any
requests, processes, accounts and pairs; `PairKept` assumes `MaxFaults < SaveTries`,
which is what makes one of the tries of a save succeed. The invariant relates what
requests have read to the row (`Versions`: equal versions are equal pairs), the token
of a request to its account (`Fits`), those who wait to the request they wait for
(`Waits`, `Leads`), and says of a pair on its way to the row that its refresh token works
and nobody else has read it (`Unsaved`). `WaitersAreAnswered` is only model-checked.

## Changes of promotions: `PromotionChange`, `PromotionChangeProofs`

| variables | code |
| --- | --- |
| `asked` | the request: kind, promotion, price |
| `market, shown` | Mercado Libre: the participation of each item, and as it is read |
| `pc, todo, prior, out` | an executor per item of a request: its stage, what it has and had to remove, its answer |
| `deletes, posts` | history: the writes it has sent |
| `moves, faults` | the bounds |

*Actions.* `Preflight` and `AssertAllApplicable` of a request; of an executor `Current`,
`RemoveSafely`, `ReconcileUncertainRemoval`, `VerifyRemoval`, `Revalidate`, `Write`,
`ReconcileUncertainWrite`, `VerifyWrite`; `Move` and `CatchUp` of Mercado Libre. A write
may be refused, take effect, or do either without an answer.

*Abstractions.* Polling is one step: it ends in a state in which what it waits for is
shown, or when its reads are used up. Prices are told apart only as far as a price
may go down. Types without a removal of their own delete all offers of the item, as
the code does (`Others`).

A price of a seller campaign may only be changed if its sub type is
FLEXIBLE_PERCENTAGE (`Flexible`); the read of the campaign that tells it where the
participation does not is the failed or successful read of `Current`.

*Runs.* `promotions`: a request about a family of 2 items and another one, of any of 5
kinds each, about one of them, over 2 promotions, with Mercado Libre showing writes
at any time later and one failed read, uncertain write or change elsewhere;
`RefusedIsUntouched`, `WritesAreNotRepeated`, `LeavesOneStarted`, `SuccessWasShown`.
`Others` is empty there, the campaign is flexible, and both are arbitrary in the
proofs. `promotions_unshown`: the same without any trouble; it violates
`AcceptedIsSuccess`.

*What the properties leave out.* Two requests about one item, or a change made
elsewhere, may leave two promotions active: `LeavesOneStarted` is about an executor
that is alone with its item. An application whose own POST is refused leaves the
item without the promotion it had.

*A disagreement.* Two unit tests of the executor
(`publication-promotion-executor.service.spec.ts:47` and `:139`) expect an accepted POST
to be a success even if the reads go on showing a candidate. The code verifies
(`waitUntil`, :115) and answers PROMOTION_VERIFICATION_FAILED. `AcceptedIsSuccess` states
what the tests expect and `promotions_unshown` violates it with one request, no fault
and no change elsewhere. `SuccessWasShown` is what the code does instead: success is
only answered of what was seen.

*Proofs.* All four properties and `TypeCorrect`, for any items, requests and prices, any
finite set of promotions and any number of faults. `Together` says that the executors
of a request begin together, which makes `RefusedIsUntouched` inductive; `Sends` and
`Removes` say what has been sent at each stage and that what is left to remove is
named once and was not sent; `Clears` follows the active promotions of an item from the
read, over those to remove, to the requested one.

## The snapshot of publications: `PublicationSnapshot`, `PublicationSnapshotProofs`

`PublicationSync` has the job and saves a parent in one step; this module has the
saves, request by request, and a full synchronisation only as the worker that saves
everything and then deletes what it has not marked.

| variables | code |
| --- | --- |
| `place, inbox` | Mercado Libre: the family of each publication or `Own`; notifications on their way |
| `pending` | `WebhookService`: what a process remembers of each publication |
| `saver` | the synchronisations under way, of the webhook and of the full synchronisation |
| `rows, child` | products by external key; the family row of each child |
| `marked, fresh` | rows with the `last_full_sync_id` of the run, and with a later `last_synced_at` than its start |
| `sweep, todo` | the full synchronisation |
| `due, lagging, overtaken, missed, calm` | history the properties need |
| `sweeps, trouble` | the bounds |

*Actions.* `Change` of Mercado Libre; `Receive`, `Fails`, `Restart` of the webhook; of a save
`SyncItem`, `ResolveFamily`, `SaveResolvedFamily`, `Upsert`, `SaveShared`, `UpsertMany`,
`FindMissing`, `DeleteMissingChildren`, `DeleteByExternalKeys`; `SweepStart`, `SyncBatch`,
`MarkFullSync`, `FinalizeFullSync` of the full synchronisation.

*Abstractions.* A batch of the full synchronisation is one publication; publications of
one family keep their User Product. A row that was deleted and made again is not
the row somebody still holds (`held`).

*Run.* `snapshot`: 2 publications that move between 2 families and standing alone, 1
process per publication for the webhook, 1 full synchronisation, 2 of changes,
failures, repeated notifications and restarts; `NoticeIsFollowed`, `ShownOnce`,
`RightUnlessOvertaken`, `CleanSweep`. Liveness is not checked.

*What the properties leave out.* A save that read before a change and writes after the
save of that change puts the older state back, for instance the children of a family
a publication has left, or deletes the row it has now; nothing in the code compares
the two. TLC found the longest of these: a late save of a family deletes the row of
a member, a save of the member that read before the full synchronisation began
makes it again, and the clean-up deletes it as not seen. Another one came out of the
proof, since it takes three changes and the run has two: the late save of a family that
was read before the full synchronisation began sets `last_synced_at` of the row back
(`upsert` writes the time of the read, :106 of the products repository), a newer save
puts a child into that row, and the clean-up deletes the row with its children.
`overtaken` keeps these apart (`Before`, `DatedBack`); TLC checked the property and its
invariant on instances with three changes, two full synchronisations or two processes
as well.
Notifications are in memory: a failure or a restart drops them (`missed`). The row of
a family that nobody belongs to any more stays until the next full synchronisation.

*Proofs.* `NobodySeesTwo`, `NoNoticeForgotten`, `RightInTheEnd`, `SweepIsClean` and
`TypeCorrect`: all four properties, for any publications, families and processes.
`ShownOnce` is inductive with the order of the writes: the
new place is written before the old one is deleted, so that whoever leaves both
behind is still in the stage that removes one. The other two need the invariant
`Full`. `Knowing`: a save knows the place of every publication that has not changed
since it read, and deletes no child it has written. `Settled`: of a publication that is
neither missed nor overtaken the last change is on its way (`Coming`), or the rows show
it and the full synchronisation will keep its row. `Cleanly`: while nothing changes,
every mark is of a row that belongs there, and what was saved is exact. Most actions are
steps of one save that leave the others alone (`Steady`); a lemma for each of the three
parts says what such a step has to keep, and the actions are then taken one by one.

## What the proofs cannot reach

Liveness under fairness (`ExecutionSettles`, `JobSettles` of three modules,
`WaitersAreAnswered`) is only model-checked: the proof system has no rules for fairness
that its provers can use.
Every other property of a passing run is the subject of a theorem, some under a premise:
`Discipline` and `Scanning` for the migration, `LatestOnly` with a fixed catalogue or
without retried errors for the sync, the faults named there for
`SingleHolder` and `NoJobLost`, `MaxFaults < SaveTries` for `PairKept`. `sync_exact` and
`sync_changes` admit one thing more than the theorems, the one stale invocation of
`Orderly`; the other runs check nothing that the theorems do not cover.
No module uses a recursive operator, so nothing is lost to induction over data.

## Not modelled

- *Application sessions* (`src/auth`): one row per session and one conditional update
  per rotation; planned as `RefreshSession`.
- *Interactive replications* (`src/tiendanube/replication` outside the path a migration
  takes); planned as `SourceReplication`. The publication POSTs of similar publications
  are sequential, one per variant, without compensation, and leave no state that a
  later step reads.
- *OAuth of Tiendanube, users, workspaces*: rows written by single statements.
- *Sales*: idempotent upserts and queries; *size stock, pricing, ranking, listings of
  promotions and campaigns, metadata of similar publications*: computations over what
  was just read. They make up most of the code by lines, and the larger files map and
  validate the answers of other APIs; there is no state to be wrong about.
- *The older promotion manager*, which switches a promotion without a preflight, and
  the *local dispatcher* of the stock job, an in-memory loop for development.
- *TiendaNegocio*: reads of an external shop; its migration state is a table no code
  writes yet.
- *HTTP clients*: what a failed or timed-out call leaves behind is part of the models
  of its callers.

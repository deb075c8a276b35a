------------------------- MODULE PublicationSnapshot -------------------------
(***************************************************************************)
(* The saved snapshot of a seller's publications, below the level of         *)
(* PublicationSync: parents with their children, publications that move from *)
(* one family to another or stand alone, and the saves that write them one   *)
(* request at a time.  The webhook synchronises what Mercado Libre notifies   *)
(* of, one process per publication and instance; the full synchronisation     *)
(* saves them all and deletes what it has not seen.                          *)
(*                                                                          *)
(* A request to Supabase or to Mercado Libre is one step.  A publication       *)
(* keeps its User Product; the family of that, and whether it is priced by    *)
(* variant at all, may change.                                              *)
(***************************************************************************)
EXTENDS Naturals, FiniteSets

CONSTANTS
    Items, Families,
    Own,           \* the place of a SHARED publication: a row of its own
    None,
    Instances,     \* processes that receive notifications
    Batch,         \* the worker of the full synchronisation
    MaxSweeps,     \* bound: full synchronisations
    MaxTrouble     \* bound: changes in Mercado Libre, failed requests, repeated
                   \* notifications and restarts, together

ASSUME SnapshotAssumption ==
    /\ Own \notin Families \cup {None} /\ None \notin Families \cup Items
    /\ Items \cap Families = {} /\ Batch \notin Instances \X Items
    /\ MaxSweeps \in Nat /\ MaxTrouble \in Nat

VARIABLES
    place,         \* Mercado Libre: the family of each publication, or Own
    inbox,         \* publications with a notification on its way
    pending,       \* of an instance: what it remembers of each publication
    saver,         \* the synchronisations under way
    rows, child,   \* products by external key; the family row of each child
    marked, fresh, \* rows with the last_full_sync_id of the full synchronisation,
                   \* and with a last_synced_at after its start
    sweep, todo,   \* the full synchronisation: its state, what it has to save
    due,           \* history: notifications received and not yet acted on
    lagging,       \* history: what is saved is older than the last change
    overtaken,     \* history: last written by a save that read before a change
    missed,        \* history: a notification or a save of it was given up
    calm,          \* history: nothing changed since the full synchronisation began
    sweeps, trouble

hookVars == <<inbox, pending, due>>
dbVars == <<rows, child, marked, fresh>>
sweepVars == <<sweep, todo, calm, sweeps>>
truth == <<lagging, overtaken, missed>>
vars == <<place, hookVars, saver, dbVars, sweepVars, truth, trouble>>

-----------------------------------------------------------------------------

Savers == (Instances \X Items) \cup {Batch}
Keys == Items \cup Families
Writing == {"parent", "children", "missing", "drop", "items", "mark"}
Stages == {"idle", "item", "family", "details"} \cup Writing

\* old: changed since this synchronisation read; held: the row it upserted still
\* exists; since: read after the full synchronisation began.
Saver == [stage : Stages, item : Items \cup {None}, fam : Families \cup {Own, None},
          members : SUBSET Items, missing : SUBSET Items, old : SUBSET Items,
          held : BOOLEAN, since : BOOLEAN]
Idle == [stage |-> "idle", item |-> None, fam |-> None, members |-> {}, missing |-> {},
         old |-> {}, held |-> TRUE, since |-> FALSE]
Begun(i) == [Idle EXCEPT !.stage = "item", !.item = i]

KeyIn(p, i) == IF p = Own THEN i ELSE p
KeyOf(a) == KeyIn(saver[a].fam, saver[a].item)
Step(a, stage) == saver' = [saver EXCEPT ![a].stage = stage]
At(a, stage) == saver[a].stage = stage
Shared(a) == saver[a].fam = Own
Trouble == trouble < MaxTrouble /\ trouble' = trouble + 1

Init ==
    /\ place \in [Items -> Families \cup {Own}]
    /\ rows = {KeyIn(place[i], i) : i \in Items}
    /\ child = [i \in Items |-> IF place[i] = Own THEN None ELSE place[i]]
    /\ inbox = {} /\ pending = [n \in Instances |-> [i \in Items |-> "no"]]
    /\ saver = [a \in Savers |-> Idle] /\ due = {}
    /\ marked = {} /\ fresh = {} /\ sweep = "idle" /\ todo = {} /\ calm = FALSE
    /\ lagging = {} /\ overtaken = {} /\ missed = {}
    /\ sweeps = 0 /\ trouble = 0

-----------------------------------------------------------------------------
(* Mercado Libre                                                             *)

\* A publication changes, with p its place before: its data, or after: its place.
Change(i, p) ==
    /\ Trouble
    /\ place' = [place EXCEPT ![i] = p]
    /\ inbox' = inbox \cup {i} /\ lagging' = lagging \cup {i} /\ calm' = FALSE
    /\ saver' = [a \in Savers |->
                   IF At(a, "idle") THEN Idle ELSE [saver[a] EXCEPT !.old = @ \cup {i}]]
    /\ UNCHANGED <<pending, due, dbVars, sweep, todo, sweeps, overtaken, missed>>

-----------------------------------------------------------------------------
(* The webhook                                                               *)

\* Mutant: a notification that comes while its publication is synchronised is dropped.
ReceiveOnce(n, i) ==
    /\ pending' = [pending EXCEPT ![n][i] = IF @ = "no" THEN "once" ELSE @]
    /\ saver' = IF pending[n][i] = "no" THEN [saver EXCEPT ![<<n, i>>] = Begun(i)] ELSE saver

Remember(n, i) ==
    /\ pending' = [pending EXCEPT ![n][i] = IF @ = "no" THEN "once" ELSE "again"]
    /\ saver' = IF pending[n][i] = "no" THEN [saver EXCEPT ![<<n, i>>] = Begun(i)] ELSE saver

Receive(n, i) ==
    /\ i \in inbox
    /\ \/ inbox' = inbox \ {i} /\ UNCHANGED trouble
       \/ Trouble /\ UNCHANGED inbox
    /\ Remember(n, i)
    /\ due' = due \cup {<<n, i>>}
    /\ UNCHANGED <<place, dbVars, sweepVars, truth>>

\* The end of syncItem, well or not, and the condition of the loop in process.
Process(n, i, stays) ==
    IF pending[n][i] = "again"
    THEN /\ pending' = [pending EXCEPT ![n][i] = "once"]
         /\ saver' = [saver EXCEPT ![<<n, i>>] = Begun(i)]
         /\ due' = due
    ELSE /\ pending' = [pending EXCEPT ![n][i] = "no"]
         /\ saver' = [saver EXCEPT ![<<n, i>>] = Idle]
         /\ due' = due \ stays

\* The end of one publication of a full synchronisation.
Batched(left) ==
    /\ saver' = [saver EXCEPT ![Batch] = Idle]
    /\ todo' = left
    /\ UNCHANGED <<pending, due>>

Finished(a) ==
    IF a = Batch THEN Batched(todo \ {saver[a].item}) /\ UNCHANGED sweep
    ELSE Process(a[1], a[2], {}) /\ UNCHANGED <<sweep, todo>>

\* A job retries its batch, or counts the publication as failed and finalizes nothing.
Failed(a) ==
    /\ missed' = missed \cup (IF a = Batch THEN {} ELSE {saver[a].item})
                       \cup (IF saver[a].stage \in Writing THEN saver[a].members ELSE {})
    /\ IF a = Batch
       THEN \/ Batched(todo) /\ UNCHANGED sweep
            \/ Batched(todo \ {saver[a].item}) /\ sweep' = "failed"
       ELSE Process(a[1], a[2], {a}) /\ UNCHANGED <<sweep, todo>>

Fails(a) ==
    /\ ~At(a, "idle")
    /\ Trouble
    /\ Failed(a)
    /\ UNCHANGED <<place, inbox, dbVars, calm, sweeps, lagging, overtaken>>

Restart(n) ==
    /\ Trouble
    /\ pending' = [pending EXCEPT ![n] = [i \in Items |-> "no"]]
    /\ saver' = [a \in Savers |-> IF a # Batch /\ a \in {n} \X Items THEN Idle ELSE saver[a]]
    /\ due' = {d \in due : d[1] # n}
    /\ missed' = missed \cup {i \in Items : pending[n][i] # "no"}
                       \cup UNION {saver[<<n, i>>].members : i \in Items}
    /\ UNCHANGED <<place, inbox, dbVars, sweepVars, lagging, overtaken>>

-----------------------------------------------------------------------------
(* Reading a publication and its family                                      *)

\* getItem, or the multiget of the batch, and the model it detects.
SyncItem(a) ==
    /\ At(a, "item")
    /\ LET i == saver[a].item IN
       /\ saver' = [saver EXCEPT ![a] =
            IF place[i] = Own
            THEN [Begun(i) EXCEPT !.stage = "parent", !.fam = Own, !.members = {i},
                                  !.since = (sweep # "idle")]
            ELSE [Begun(i) EXCEPT !.stage = "family"]]
       /\ due' = due \ {a}
    /\ UNCHANGED <<place, inbox, pending, dbVars, sweepVars, truth, trouble>>

\* resolveFamily and the publications of its User Products.
ResolveFamily(a) ==
    /\ At(a, "family")
    /\ LET i == saver[a].item IN
       IF place[i] = Own THEN Failed(a)
       ELSE /\ saver' = [saver EXCEPT ![a] = [@ EXCEPT !.stage = "details", !.fam = place[i],
                           !.old = {}, !.members = {j \in Items : place[j] = place[i]}]]
            /\ UNCHANGED <<pending, due, sweep, todo, missed>>
    /\ UNCHANGED <<place, inbox, dbVars, calm, sweeps, lagging, overtaken, trouble>>

\* Their details: what is SHARED by now is not of the family's bundle.
SaveResolvedFamily(a) ==
    /\ At(a, "details")
    /\ LET found == {j \in saver[a].members : place[j] # Own} IN
       IF found = {} THEN Failed(a)
       ELSE /\ saver' = [saver EXCEPT ![a] =
                           [@ EXCEPT !.stage = "parent", !.members = found, !.since = (sweep # "idle")]]
            /\ UNCHANGED <<pending, due, sweep, todo, missed>>
    /\ UNCHANGED <<place, inbox, dbVars, calm, sweeps, lagging, overtaken, trouble>>

-----------------------------------------------------------------------------
(* Writing it                                                                *)

\* A write is out of date about what changed since it was read; to a full
\* synchronisation so is all that was read before it began, and all that is put
\* into a row which such a save has dated back.
Before(a) == sweep # "idle" /\ ~saver[a].since
DatedBack(a) == sweep # "idle" /\ At(a, "children") /\ KeyOf(a) \notin marked \cup fresh
Late(a) == IF Before(a) \/ DatedBack(a) THEN Items ELSE saver[a].old
Describes(a, W) ==
    /\ lagging' = (lagging \ W) \cup (W \cap saver[a].old)
    /\ overtaken' = (overtaken \ W) \cup (W \cap Late(a))
    /\ missed' = missed \ (W \ Late(a))
Removes(a, W) ==
    /\ overtaken' = overtaken \cup (W \cap Late(a))
    /\ UNCHANGED <<lagging, missed>>

\* The upsert keeps last_full_sync_id and brings the time of the read.
Upsert(a) ==
    /\ At(a, "parent")
    /\ rows' = rows \cup {KeyOf(a)}
    /\ fresh' = IF saver[a].since THEN fresh \cup {KeyOf(a)} ELSE fresh \ {KeyOf(a)}
    /\ saver' = [saver EXCEPT ![a].stage = "children", ![a].held = TRUE]
    /\ IF Shared(a) THEN Describes(a, saver[a].members)
       ELSE IF Before(a) /\ KeyOf(a) \notin marked
       THEN Removes(a, {i \in Items : child[i] = saver[a].fam})
       ELSE UNCHANGED truth
    /\ UNCHANGED <<place, hookVars, child, marked, sweepVars, trouble>>

After(a) == IF a = Batch THEN Step(a, "mark") /\ UNCHANGED <<pending, due, sweep, todo>>
            ELSE Finished(a)

\* Mutant: only the children of the row that was upserted are deleted.
OfItsRow(a) == {i \in Items : child[i] = saver[a].item}
\* The child of the item, and those of its row, which never has any.
Childless(a) == {saver[a].item} \cup {i \in Items : child[i] = saver[a].item}

SaveShared(a) ==
    /\ At(a, "children") /\ Shared(a)
    /\ child' = [i \in Items |-> IF i \in Childless(a) THEN None ELSE child[i]]
    /\ Removes(a, Childless(a))
    /\ After(a)
    /\ UNCHANGED <<place, inbox, rows, marked, fresh, calm, sweeps, trouble>>

\* The children are upserted by item_id; their product must still exist.
UpsertMany(a) ==
    /\ At(a, "children") /\ ~Shared(a)
    /\ IF saver[a].held
       THEN /\ child' = [i \in Items |->
                           IF i \in saver[a].members THEN saver[a].fam ELSE child[i]]
            /\ Step(a, "missing") /\ Describes(a, saver[a].members)
            /\ UNCHANGED <<pending, due, sweep, todo>>
       ELSE Failed(a) /\ UNCHANGED <<child, lagging, overtaken>>
    /\ UNCHANGED <<place, inbox, rows, marked, fresh, calm, sweeps, trouble>>

\* Children of the row held, not of a row that was made anew under its key.
Stored(a) == {i \in Items : saver[a].held /\ child[i] = saver[a].fam}

FindMissing(a) ==
    /\ At(a, "missing")
    /\ LET gone == Stored(a) \ saver[a].members IN
       saver' = [saver EXCEPT ![a].stage = IF gone = {} THEN "items" ELSE "drop",
                              ![a].missing = gone]
    /\ UNCHANGED <<place, hookVars, dbVars, sweepVars, truth, trouble>>

\* Mutant: the delete does not ask whose child it is by now.
DropAnyones(a) == saver[a].missing
Dropped(a) == saver[a].missing \cap Stored(a)

DeleteMissingChildren(a) ==
    /\ At(a, "drop")
    /\ child' = [i \in Items |-> IF i \in Dropped(a) THEN None ELSE child[i]]
    /\ Removes(a, Dropped(a))
    /\ saver' = [saver EXCEPT ![a].stage = "items", ![a].missing = {}]
    /\ UNCHANGED <<place, hookVars, rows, marked, fresh, sweepVars, trouble>>

\* Mutant: only the row of the publication that was notified is deleted.
OnlyItsOwn(a) == {saver[a].item}
ItemRows(a) == saver[a].members

\* Those who held such a row hold it no more.
DeleteByExternalKeys(a) ==
    /\ At(a, "items")
    /\ rows' = rows \ ItemRows(a)
    /\ marked' = marked \ ItemRows(a) /\ fresh' = fresh \ ItemRows(a)
    /\ Removes(a, ItemRows(a))
    /\ After(a)
    /\ UNCHANGED <<place, inbox, child, calm, sweeps, trouble>>

-----------------------------------------------------------------------------
(* The full synchronisation                                                  *)

SweepStart ==
    /\ sweep = "idle" /\ sweeps < MaxSweeps /\ sweeps' = sweeps + 1
    /\ sweep' = "run" /\ todo' = Items /\ marked' = {} /\ fresh' = {}
    /\ calm' = (\A a \in Savers : saver[a].old = {})
    /\ saver' = [a \in Savers |-> [saver[a] EXCEPT !.since = FALSE]]
    /\ UNCHANGED <<place, hookVars, rows, child, truth, trouble>>

SyncBatch(i) ==
    /\ At(Batch, "idle") /\ i \in todo
    /\ saver' = [saver EXCEPT ![Batch] = Begun(i)]
    /\ UNCHANGED <<place, hookVars, dbVars, sweepVars, truth, trouble>>

MarkFullSync ==
    /\ At(Batch, "mark")
    /\ marked' = marked \cup ({KeyOf(Batch)} \cap rows)
    /\ fresh' = fresh \cup ({KeyOf(Batch)} \cap rows)
    /\ Finished(Batch)
    /\ UNCHANGED <<place, inbox, rows, child, calm, sweeps, truth, trouble>>

\* Mutant: rows of families are left to their saves.
KeptIfNamed == {k \in rows : k \in Families \/ k \in marked \cup fresh}
Kept == {k \in rows : k \in marked \cup fresh}

\* Children go with their product.
FinalizeFullSync ==
    /\ sweep \in {"run", "failed"} /\ todo = {} /\ At(Batch, "idle")
    /\ LET keeps == IF sweep = "run" THEN Kept ELSE rows IN
       /\ rows' = keeps
       /\ child' = [i \in Items |-> IF child[i] \in keeps THEN child[i] ELSE None]
       /\ saver' = [a \in Savers |-> IF KeyOf(a) \in rows \ keeps
                                      THEN [saver[a] EXCEPT !.held = FALSE] ELSE saver[a]]
    /\ sweep' = "idle" /\ marked' = {} /\ fresh' = {} /\ calm' = FALSE
    /\ UNCHANGED <<place, hookVars, todo, sweeps, truth, trouble>>

-----------------------------------------------------------------------------

Work(a) == SyncItem(a) \/ ResolveFamily(a) \/ SaveResolvedFamily(a) \/ Upsert(a)
           \/ SaveShared(a) \/ UpsertMany(a) \/ FindMissing(a)
           \/ DeleteMissingChildren(a) \/ DeleteByExternalKeys(a)
FullSync == SweepStart \/ MarkFullSync \/ FinalizeFullSync \/ \E i \in Items : SyncBatch(i)

Next ==
    \/ \E i \in Items, p \in Families \cup {Own} : Change(i, p)
    \/ \E n \in Instances : Restart(n) \/ \E i \in Items : Receive(n, i)
    \/ \E a \in Savers : Work(a) \/ Fails(a)
    \/ FullSync

Spec == Init /\ [][Next]_vars

-----------------------------------------------------------------------------
(* Properties                                                                *)

\* TypeOK: every variable has the type its rows, its maps in memory or its locals
\* have in the code.
TypeOK ==
    /\ place \in [Items -> Families \cup {Own}] /\ inbox \subseteq Items
    /\ pending \in [Instances -> [Items -> {"no", "once", "again"}]]
    /\ saver \in [Savers -> Saver]
    /\ rows \subseteq Keys /\ marked \subseteq Keys /\ fresh \subseteq Keys
    /\ child \in [Items -> Families \cup {None}]
    /\ sweep \in {"idle", "run", "failed"} /\ todo \subseteq Items
    /\ due \subseteq Instances \X Items /\ calm \in BOOLEAN
    /\ lagging \subseteq Items /\ overtaken \subseteq Items /\ missed \subseteq Items
    /\ sweeps \in 0 .. MaxSweeps /\ trouble \in 0 .. MaxTrouble

\* A notification that an instance took in is not forgotten while another of the
\* same publication is being worked on: it has yet to be read, or will be read again.
NoticeIsFollowed ==
    \A d \in due : pending[d[1]][d[2]] = "again" \/ At(d, "item")

\* The save that is to remove one of the two rows of i.
Removing(a, i) ==
    \/ At(a, "children") /\ Shared(a) /\ saver[a].item = i
    \/ saver[a].stage \in {"missing", "drop", "items"} /\ i \in saver[a].members

\* However saves interleave, nobody sees a publication both by itself and in a
\* family, unless the save that is to remove one of the two is still at it or was
\* cut short: every save writes the new before it deletes the old.
ShownOnce ==
    \A i \in Items \ missed :
        i \in rows /\ child[i] # None => \E a \in Savers : Removing(a, i)

\* The rows show a publication where it is, with its last change, once its
\* notifications are dealt with and no save of it is under way; unless one was
\* given up, or it was last written by a save that read it before the last change or
\* before the start of a full synchronisation.
Resting(i) ==
    /\ i \notin inbox /\ \A n \in Instances : pending[n][i] = "no"
    /\ \A a \in Savers : saver[a].stage \in Writing => i \notin saver[a].members
InPlace(i) ==
    /\ KeyIn(place[i], i) \in rows /\ (i \in rows <=> place[i] = Own)
    /\ child[i] = IF place[i] = Own THEN None ELSE place[i]
RightUnlessOvertaken ==
    \A i \in Items \ (missed \cup overtaken) :
        Resting(i) => InPlace(i) /\ i \notin lagging

\* A full synchronisation during which nothing changed leaves the snapshot exact,
\* whatever went wrong before it and whichever other saves run beside it.
CleanSweep ==
    [][FinalizeFullSync /\ sweep = "run" /\ calm =>
         /\ rows' = {KeyIn(place[i], i) : i \in Items}
         /\ \A i \in Items : child'[i] = IF place[i] = Own THEN None ELSE place[i]]_vars

=============================================================================

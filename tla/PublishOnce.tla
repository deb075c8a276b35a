---------------------------- MODULE PublishOnce ----------------------------
(***************************************************************************)
(* What a migration promises about the store, without jobs, leases, queues *)
(* or workers: a source key is sent at most once, only a product that      *)
(* exists is linked to it, only a linked source key is approved, and a     *)
(* verdict is never taken back.                                            *)
(***************************************************************************)
CONSTANT Keys

VARIABLES sent,      \* source keys a POST /products was issued for
          made,      \* source keys with a product of their own in the store
          linked,    \* source keys with a completed link
          approved, rejected

vars == <<sent, made, linked, approved, rejected>>

\* Earlier replications may have published some source keys and linked them.
Init == /\ sent = {} /\ approved = {} /\ rejected = {}
        /\ made \in SUBSET Keys /\ linked \in SUBSET made

\* The POST leaves; the store may have executed it when the step is over.
Send(k) == /\ k \notin sent \cup made
           /\ sent' = sent \cup {k}
           /\ made' \in {made, made \cup {k}}
           /\ UNCHANGED <<linked, approved, rejected>>

\* The store executes a POST that has left.
Make(k) == /\ k \in sent \ made
           /\ made' = made \cup {k}
           /\ UNCHANGED <<sent, linked, approved, rejected>>

Link(k) == /\ k \in made \ linked
           /\ linked' = linked \cup {k}
           /\ UNCHANGED <<sent, made, approved, rejected>>

Approve(k) == /\ k \in linked \ (approved \cup rejected)
              /\ approved' = approved \cup {k}
              /\ UNCHANGED <<sent, made, linked, rejected>>

Reject(k) == /\ k \in Keys \ (approved \cup rejected)
             /\ rejected' = rejected \cup {k}
             /\ UNCHANGED <<sent, made, linked, approved>>

Next == \E k \in Keys : Send(k) \/ Make(k) \/ Link(k) \/ Approve(k) \/ Reject(k)

Spec == Init /\ [][Next]_vars
=============================================================================

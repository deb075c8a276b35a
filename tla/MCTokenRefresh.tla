---------------------------- MODULE MCTokenRefresh ----------------------------
(* TokenRefresh with three requests, two of which share a process.           *)
EXTENDS TokenRefresh, TLC
CONSTANTS r1, r2, r3, here, there
MCProcessOf == [r \in Requests |-> IF r = r3 THEN there ELSE here]
=============================================================================

--------------------------- MODULE MCPromotionChange ---------------------------
(* Instance of PromotionChange: a request about a family of two items, and one *)
(* about the first of them, over a campaign p and an offer q with its price.   *)
EXTENDS PromotionChange, TLC
CONSTANTS i1, i2, r1, r2, p, q
MCItemsOf == r1 :> {i1, i2} @@ r2 :> {i1}
Ask(kind, promo) == [kind |-> kind, promo |-> promo, price |-> 1]
MCAsks == {Ask("apply", p), Ask("apply", q), Ask("update", p), Ask("remove", p), Ask("select", q)}
Has(ps, pp, qs) == p :> [status |-> ps, price |-> pp] @@ q :> [status |-> qs, price |-> 0]
MCStarts == i1 :> {Has("candidate", 0, "started"), Has("started", 2, "candidate"),
                   Has("candidate", 0, "pending"), Has("started", 2, "started")}
            @@ i2 :> {Has("candidate", 0, "started")}
=============================================================================

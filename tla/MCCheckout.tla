----------------------------- MODULE MCCheckout -----------------------------
(***************************************************************************)
(* Small instances of Checkout for TLC: `big` buys p1 from s1 and p2 from  *)
(* s2, `small` buys p2 from s2, and `odd` buys p2 and a product nobody     *)
(* stocks.  There is one unit of each listed product.                      *)
(***************************************************************************)
EXTENDS Checkout, TLC

CONSTANTS big, small, odd, s1, s2, p1, p2, p3

L(p, s) == [product |-> p, quantity |-> 1, seller |-> s]

MCLines == big :> <<L(p1, s1), L(p2, s2)>> @@ small :> <<L(p2, s2)>>
             @@ odd :> <<L(p2, s2), L(p3, s2)>>

MCSellersOf == big :> {s1, s2} @@ small :> {s2} @@ odd :> {s2}

OneUnit == [p \in Listed |-> 1]

Everywhere == {"inventory-service", "payment-service", "order-saga"}

\* A setting without loss, contention or refusals.
Calm(placed, cards) ==
  [placed |-> placed, cards |-> cards, refused |-> {}, lossy |-> {}, busy |-> FALSE]

LossyCard == [Calm({}, {small}) EXCEPT !.lossy = Everywhere]

LossyRivals == {[Calm({big, small}, {}) EXCEPT !.lossy = {"inventory-service"}]}

Mixed == {Calm({big, small}, {}),
          [Calm({big}, {}) EXCEPT !.lossy = Everywhere],
          [Calm({big}, {}) EXCEPT !.busy = TRUE],
          [Calm({odd}, {}) EXCEPT !.lossy = Everywhere],
          LossyCard,
          [LossyCard EXCEPT !.refused = {small}]}

CalmSmall == {Calm({small}, {})}

LossyCards == {LossyCard}
=============================================================================

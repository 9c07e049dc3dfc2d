----------------------------- MODULE MCInventory -----------------------------
(* Small instances of Inventory for TLC: one product with two units and one *)
(* with a single unit, so that both a full and a rejected reserve happen.   *)
EXTENDS Inventory, TLC

CONSTANTS p1, p2, unlisted

MCListed == {p1, p2}

MCProducts == MCListed \cup {unlisted}

MCInitialStock == p1 :> 2 @@ p2 :> 1

\* Orders, keys and workers are interchangeable; the products are not.
MCSymmetry == Permutations(Orders) \cup Permutations(Keys) \cup Permutations(Workers)
=============================================================================

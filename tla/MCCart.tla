-------------------------------- MODULE MCCart --------------------------------
(***************************************************************************)
(* One user, two products.  a1 and its retry a1r add pen, a2 adds mug; two     *)
(* checkouts under keys of their own, the retry of the first, and a read.  *)
(***************************************************************************)
EXTENDS Cart

CONSTANTS a1, a1r, a2, co1, co1r, co2, look, pen, mug

MCRequests == {a1, a1r, a2, co1, co1r, co2, look}
MCKind == [r \in MCRequests |->
             CASE r \in {a1, a1r, a2} -> "add"
               [] r = look -> "read"
               [] OTHER -> "checkout"]
MCKey == [r \in MCRequests |->
            CASE r \in {a1, a1r} -> "k-a1" [] r = a2 -> "k-a2"
              [] r \in {co1, co1r} -> "k-co1" [] r = co2 -> "k-co2"
              [] r = look -> "k-look"]
MCItem == [r \in MCRequests |-> IF r = a2 THEN mug ELSE pen]

\* One request at a time; checkouts that overlap and outlive their lock; adds
\* that overlap each other and a checkout; requests that fail and die.
Circumstance(requests, overlap, lapse, faults) ==
  [requests |-> requests, overlap |-> overlap, lapse |-> lapse, faults |-> faults]
MCSettings == {Circumstance(MCRequests, FALSE, FALSE, FALSE),
               Circumstance({a1, co1, co2, look}, TRUE, TRUE, FALSE),
               Circumstance({a1, a2, co1}, TRUE, FALSE, FALSE),
               Circumstance({a1, a1r, co1, co1r}, FALSE, TRUE, TRUE)}

\* A read overlaps a checkout.
Reading == {Circumstance({a1, a2, co1, co2, look}, TRUE, FALSE, FALSE)}
=============================================================================

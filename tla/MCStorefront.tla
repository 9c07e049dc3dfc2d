----------------------------- MODULE MCStorefront -----------------------------
(***************************************************************************)
(* Two sellers with a product each, a cart that mixes them and one that    *)
(* does not, and two attempts of every checkout.                           *)
(***************************************************************************)
EXTENDS Storefront

CONSTANTS s1, s2, kettle, lamp, first, again, other

MCOwner == [p \in {kettle, lamp} |-> IF p = kettle THEN s1 ELSE s2]
MCKey == [a \in {first, again, other} |-> IF a = other THEN "k2" ELSE "k1"]
MCCart == [a \in {first, again, other} |-> IF a = other THEN {lamp} ELSE {kettle, lamp}]

\* Onboarding with one request at a time; with requests that overlap; and the
\* shop, with sellers that are stopped and reinstated and calls that fail.
AllOps == {"register", "submit", "start", "approve", "reject", "accept",
           "suspend", "reinstate", "ban", "terms"}
Circumstance(clerks, ops, sellers, starts, shop) ==
  [clerks |-> clerks, ops |-> ops, sellers |-> sellers, starts |-> starts,
   shop |-> shop, outages |-> shop]
MCSettings == {Circumstance({1}, AllOps, {s1}, {"none"}, FALSE),
               Circumstance({1, 2}, AllOps \ {"register"}, {s1}, {"registered"}, FALSE),
               Circumstance({1}, {"suspend", "reinstate"}, {s1, s2},
                            {"active", "suspended"}, TRUE)}
Retried == {Circumstance({1}, {}, {}, {"active"}, TRUE)}
Contested == {Circumstance({1, 2}, AllOps, {s1}, {"none"}, FALSE)}
=============================================================================

---------------------------- MODULE StockPromise ----------------------------
(***************************************************************************)
(* What inventory-service promises its callers, with no locks, no ledger   *)
(* rows and no counters of reserved units: every unit of a product is on   *)
(* the shelf, promised to one order, taken by a caller that named no       *)
(* order, or sold; and an order's units come back, or leave, once.         *)
(***************************************************************************)
EXTENDS Integers

CONSTANTS Listed, Orders, Quantities, InitialStock

VARIABLES
  shelf,        \* units anybody may still take
  promised,     \* units of each product promised to each order
  unattributed, \* units taken without naming an order
  sold          \* units that left with a buyer

promiseVars == <<shelf, promised, unattributed, sold>>

PromiseInit ==
  /\ shelf = InitialStock
  /\ promised = [o \in Orders |-> [p \in Listed |-> 0]]
  /\ unattributed = [p \in Listed |-> 0]
  /\ sold = [p \in Listed |-> 0]

Take(p, q) ==
  /\ q <= shelf[p]
  /\ shelf' = [shelf EXCEPT ![p] = @ - q]

\* An order is promised a product it was not promised yet.
Promise(o, p, q) ==
  /\ Take(p, q)
  /\ promised[o][p] = 0
  /\ promised' = [promised EXCEPT ![o][p] = q]
  /\ UNCHANGED <<unattributed, sold>>

TakeUnattributed(p, q) ==
  /\ Take(p, q)
  /\ unattributed' = [unattributed EXCEPT ![p] = @ + q]
  /\ UNCHANGED <<promised, sold>>

Cleared(o, scope) ==
  [promised EXCEPT ![o] = [p \in Listed |-> IF p \in scope THEN 0 ELSE @[p]]]

\* Everything the order was promised of the named products comes back.
GiveBack(o, scope) ==
  /\ promised' = Cleared(o, scope)
  /\ shelf' = [p \in Listed |-> IF p \in scope THEN shelf[p] + promised[o][p]
                                               ELSE shelf[p]]
  /\ UNCHANGED <<unattributed, sold>>

\* Everything the order was promised of the named products leaves for good.
Sell(o, scope) ==
  /\ promised' = Cleared(o, scope)
  /\ sold' = [p \in Listed |-> IF p \in scope THEN sold[p] + promised[o][p]
                                              ELSE sold[p]]
  /\ UNCHANGED <<shelf, unattributed>>

PromiseNext ==
  \/ \E o \in Orders, p \in Listed, q \in Quantities : Promise(o, p, q)
  \/ \E p \in Listed, q \in Quantities : TakeUnattributed(p, q)
  \/ \E o \in Orders, scope \in SUBSET Listed : GiveBack(o, scope) \/ Sell(o, scope)

PromiseSpec == PromiseInit /\ [][PromiseNext]_promiseVars
=============================================================================

------------------------------ MODULE Inventory ------------------------------
(***************************************************************************)
(* inventory-service: one stock row per listed product, the reservation    *)
(* ledger that says which order holds what, and the idempotency keys of    *)
(* /reserve.                                                               *)
(*                                                                         *)
(* A reserve is one transaction on one stock row (SELECT ... FOR UPDATE),  *)
(* so it is one action.  Release and consume first read the order's held   *)
(* rows WITHOUT a lock, then lock the stock rows one by one, then commit:  *)
(* they are modelled as those separate steps of a worker.  A lock is held  *)
(* until commit or rollback, so the level planned when the row is locked   *)
(* is the level written at commit.                                         *)
(*                                                                         *)
(* A successful reserve writes at most one ledger row and is the only      *)
(* writer of rows, so the row is named by the idempotency key of the       *)
(* reserve that wrote it.                                                  *)
(***************************************************************************)
EXTENDS Integers, FiniteSets

CONSTANTS
  Products,       \* product ids a caller may name
  Listed,         \* the products that have a stock row
  Orders,         \* order ids
  NoOrder,        \* a reserve that names no order
  Keys,           \* idempotency keys of /reserve
  Quantities,     \* quantities a caller may ask for
  InitialStock,   \* units of each listed product at the start
  Workers,        \* requests to /release and /consume that may be in flight
  NoRow,          \* no ledger row was written under this key
  Overlap         \* whether two requests may work on one order at once

ASSUME InventoryConstants ==
  /\ Listed \subseteq Products
  /\ NoOrder \notin Orders
  /\ Quantities \subseteq Nat \ {0}
  /\ InitialStock \in [Listed -> Nat]
  /\ Overlap \in BOOLEAN

Rows == [order : Orders, product : Listed, quantity : Quantities,
         status : {"held", "released", "consumed"}]

ASSUME NoRowAssumption == NoRow \notin Rows

VARIABLES
  available,   \* inventory_items.quantity_available
  reserved,    \* inventory_items.quantity_reserved
  row,         \* inventory_reservations, by the key that wrote the row
  bound,       \* idempotency_keys whose result_id names an item
  tx,          \* what each worker's open transaction has read and locked
  consumed,    \* history: units that left with a buyer
  anonymous    \* history: units reserved without an order

vars == <<available, reserved, row, bound, tx, consumed, anonymous>>

-----------------------------------------------------------------------------
(* The plans of reservation_rules.py, on a stock row [available, reserved]. *)

Level(p) == [available |-> available[p], reserved |-> reserved[p]]

Smaller(a, b) == IF a < b THEN a ELSE b

Insufficient(level, requested) == level.available < requested

plan_reservation(level, requested) ==
  [available |-> level.available - requested,
   reserved  |-> level.reserved + requested]

plan_release(level, held) ==
  LET releasable == Smaller(held, level.reserved)
  IN  [available |-> level.available + releasable,
       reserved  |-> level.reserved - releasable]

InvalidConsume(level, held) == level.reserved < held

\* Fault: a consume gives the units back, as a release does.
PlanConsumeReturning(level, held) ==
  [available |-> level.available + held,
   reserved  |-> level.reserved - held]

plan_consume(level, held) ==
  [available |-> level.available,
   reserved  |-> level.reserved - held]

-----------------------------------------------------------------------------
(* The ledger and the row locks. *)

Written == {k \in Keys : row[k] # NoRow}

Held == {k \in Written : row[k].status = "held"}

\* The rows a release or a consume selects: status 'held', this order, and
\* only the named products when the caller names some.
HeldBy(o, scope) ==
  {k \in Held : row[k].order = o /\ row[k].product \in scope}

Idle == [kind |-> "idle", order |-> NoOrder, rows |-> {}, todo |-> {}]

Locked(p) ==
  \E w \in Workers : \E k \in tx[w].rows \ tx[w].todo : row[k].product = p

\* The quantity a set of selected rows holds of p.  A live row is unique per
\* order and product, so a transaction has at most one row for p.
RowFor(rows, p) == {k \in rows : row[k].product = p}

QuantityIn(rows, p) == row[CHOOSE k \in RowFor(rows, p) : TRUE].quantity

-----------------------------------------------------------------------------
Init ==
  /\ available = InitialStock
  /\ reserved = [p \in Listed |-> 0]
  /\ row = [k \in Keys |-> NoRow]
  /\ bound = {}
  /\ tx = [w \in Workers |-> Idle]
  /\ consumed = [p \in Listed |-> 0]
  /\ anonymous = [p \in Listed |-> 0]

(***************************************************************************)
(* reserve_inventory.  A key that is already bound to an item answers 200  *)
(* with the item, whatever the first answer was.  An unknown product (404),*)
(* a row lock that times out (409) and a second live hold of one product   *)
(* by one order (the unique index, 500) roll everything back, the key      *)
(* included, and change nothing: they are stuttering steps here.           *)
(***************************************************************************)
ReserveCached(k) ==
  /\ k \in bound
  /\ UNCHANGED vars

ReserveRejected(k, p, q) ==
  /\ k \notin bound
  /\ p \in Listed
  /\ ~Locked(p)
  /\ Insufficient(Level(p), q)
  /\ bound' = bound \cup {k}
  /\ UNCHANGED <<available, reserved, row, tx, consumed, anonymous>>

Reserve(k, o, p, q) ==
  /\ k \notin bound
  /\ p \in Listed
  /\ ~Locked(p)
  /\ ~Insufficient(Level(p), q)
  /\ o # NoOrder => HeldBy(o, {p}) = {}
  /\ LET new == plan_reservation(Level(p), q)
     IN  /\ available' = [available EXCEPT ![p] = new.available]
         /\ reserved' = [reserved EXCEPT ![p] = new.reserved]
  /\ IF o = NoOrder
     THEN /\ anonymous' = [anonymous EXCEPT ![p] = @ + q]
          /\ UNCHANGED row
     ELSE /\ row' = [row EXCEPT ![k] = [order |-> o, product |-> p,
                                        quantity |-> q, status |-> "held"]]
          /\ UNCHANGED anonymous
  /\ bound' = bound \cup {k}
  /\ UNCHANGED <<tx, consumed>>

(***************************************************************************)
(* release_inventory and consume_inventory.  An order that holds nothing   *)
(* is answered 200 without a change, so only a non-empty selection starts  *)
(* a transaction.                                                          *)
(***************************************************************************)
Begin(w, kind, o, scope) ==
  /\ tx[w] = Idle
  /\ HeldBy(o, scope) # {}
  /\ Overlap \/ \A v \in Workers : tx[v].order # o
  /\ tx' = [tx EXCEPT ![w] = [kind |-> kind, order |-> o,
                              rows |-> HeldBy(o, scope),
                              todo |-> HeldBy(o, scope)]]
  /\ UNCHANGED <<available, reserved, row, bound, consumed, anonymous>>

\* The next selected row: its stock row is locked and its level planned.
LockItem(w, k) ==
  /\ k \in tx[w].todo
  /\ ~Locked(row[k].product)
  /\ tx[w].kind = "consume" =>
       ~InvalidConsume(Level(row[k].product), row[k].quantity)
  /\ tx' = [tx EXCEPT ![w].todo = @ \ {k}]
  /\ UNCHANGED <<available, reserved, row, bound, consumed, anonymous>>

\* plan_consume answers INVALID: rollback and 400.
RefuseConsume(w, k) ==
  /\ k \in tx[w].todo
  /\ ~Locked(row[k].product)
  /\ tx[w].kind = "consume"
  /\ InvalidConsume(Level(row[k].product), row[k].quantity)
  /\ tx' = [tx EXCEPT ![w] = Idle]
  /\ UNCHANGED <<available, reserved, row, bound, consumed, anonymous>>

\* Fault: the session sets no lock_timeout.
NoLockTimeout(w, k) == w \in Workers /\ k \in Keys /\ FALSE /\ UNCHANGED vars

\* lock_timeout fires while another transaction holds the stock row: 409.
LockTimeout(w, k) ==
  /\ k \in tx[w].todo
  /\ Locked(row[k].product)
  /\ tx' = [tx EXCEPT ![w] = Idle]
  /\ UNCHANGED <<available, reserved, row, bound, consumed, anonymous>>

\* db.commit raises, or the process dies before it: everything rolls back.
CommitFails(w) ==
  /\ tx[w] # Idle
  /\ tx[w].todo = {}
  /\ tx' = [tx EXCEPT ![w] = Idle]
  /\ UNCHANGED <<available, reserved, row, bound, consumed, anonymous>>

NewLevel(kind, level, held) ==
  IF kind = "release" THEN plan_release(level, held)
                      ELSE plan_consume(level, held)

\* Fault: the rows keep their status.
MarkedNothing(rows, kind) == [k \in Keys |-> row[k]]

\* Fault: the UPDATE names the order and the product instead of the row.
MarkedByProduct(rows, kind) ==
  [k \in Keys |->
     IF k \in Written /\ \E j \in rows : /\ row[j].order = row[k].order
                                         /\ row[j].product = row[k].product
     THEN [row[k] EXCEPT !.status = IF kind = "release" THEN "released"
                                                        ELSE "consumed"]
     ELSE row[k]]

\* Every selected row is marked whatever its status is by now: the UPDATE
\* names the row's id and nothing else.
Marked(rows, kind) ==
  [k \in Keys |->
     IF k \in rows
     THEN [row[k] EXCEPT !.status = IF kind = "release" THEN "released"
                                                        ELSE "consumed"]
     ELSE row[k]]

Settle(rows, kind) ==
  LET touched == {row[k].product : k \in rows}
      new(p) == NewLevel(kind, Level(p), QuantityIn(rows, p))
  IN  /\ available' = [p \in Listed |-> IF p \in touched THEN new(p).available
                                                         ELSE available[p]]
      /\ reserved' = [p \in Listed |-> IF p \in touched THEN new(p).reserved
                                                        ELSE reserved[p]]
      /\ row' = Marked(rows, kind)
      /\ consumed' = [p \in Listed |->
                        IF kind = "consume" /\ p \in touched
                        THEN consumed[p] + QuantityIn(rows, p)
                        ELSE consumed[p]]

Commit(w) ==
  /\ tx[w] # Idle
  /\ tx[w].todo = {}
  /\ Settle(tx[w].rows, tx[w].kind)
  /\ tx' = [tx EXCEPT ![w] = Idle]
  /\ UNCHANGED <<bound, anonymous>>

-----------------------------------------------------------------------------
Scopes == SUBSET Listed \ {{}}

Request ==
  \/ \E k \in Keys : ReserveCached(k)
  \/ \E k \in Keys, p \in Products, q \in Quantities : ReserveRejected(k, p, q)
  \/ \E k \in Keys, o \in Orders \cup {NoOrder}, p \in Products, q \in Quantities :
       Reserve(k, o, p, q)
  \/ \E w \in Workers, kind \in {"release", "consume"}, o \in Orders, s \in Scopes :
       Begin(w, kind, o, s)

Proceed(w) ==
  \/ \E k \in Keys : LockItem(w, k)
  \/ \E k \in Keys : RefuseConsume(w, k)
  \/ \E k \in Keys : LockTimeout(w, k)
  \/ CommitFails(w)
  \/ Commit(w)

Next == Request \/ \E w \in Workers : Proceed(w)

Spec == Init /\ [][Next]_vars

\* A request that has opened a transaction runs on: the event loop schedules
\* it and Postgres answers every lock request within lock_timeout.
Fairness == \A w \in Workers : WF_vars(Proceed(w))

FairSpec == Spec /\ Fairness

-----------------------------------------------------------------------------
(* Every variable keeps its type; in particular neither stock column ever   *)
(* goes below zero, and a transaction only works on rows that exist.        *)
TypeOK ==
  /\ available \in [Listed -> Nat]
  /\ reserved \in [Listed -> Nat]
  /\ row \in [Keys -> Rows \cup {NoRow}]
  /\ bound \subseteq Keys
  /\ tx \in [Workers -> [kind : {"idle", "release", "consume"},
                         order : Orders \cup {NoOrder},
                         rows : SUBSET Keys, todo : SUBSET Keys]]
  /\ consumed \in [Listed -> Nat]
  /\ anonymous \in [Listed -> Nat]

(* Reserve and release move units between the two columns and consume       *)
(* retires them: whatever requests interleave, what is on the shelf, what   *)
(* is committed and what has left add up to the stock the product started   *)
(* with.  No release, however late or repeated, invents a unit.             *)
StockConserved ==
  \A p \in Listed : available[p] + reserved[p] + consumed[p] = InitialStock[p]

\* The units of p that live rows hold, each named by its row and a number.
HeldTokens(p) == UNION {{k} \X (1 .. row[k].quantity) : k \in RowFor(Held, p)}

HeldUnits(p) == Cardinality(HeldTokens(p))

(* The ledger and the counters agree: the units reserved on a stock row are *)
(* exactly those some order's live row (or an anonymous reserve) accounts   *)
(* for.  If this fails, units promised to one order are on sale to another. *)
LedgerAgrees ==
  \A p \in Listed : reserved[p] = HeldUnits(p) + anonymous[p]

(* A ledger row that has been released or consumed never changes again: no  *)
(* hold is given back twice, or given back after the goods left.            *)
EndedRowIsFinal ==
  [][\A k \in Written : row[k].status # "held" => row'[k] = row[k]]_vars

(* Every release or consume that has opened a transaction finishes, also    *)
(* when two of them lock the same stock rows in opposite orders.            *)
RequestsFinish == \A w \in Workers : tx[w] # Idle ~> tx[w] = Idle

-----------------------------------------------------------------------------
(* The promise the service keeps, on the state it keeps it with. *)

PromisedTo(o, p) ==
  IF HeldBy(o, {p}) = {} THEN 0 ELSE QuantityIn(HeldBy(o, {p}), p)

Promises == [o \in Orders |-> [p \in Listed |-> PromisedTo(o, p)]]

StockPromised == INSTANCE StockPromise WITH
  shelf <- available,
  promised <- Promises,
  unattributed <- anonymous,
  sold <- consumed

(* As long as no two requests work on one order at once, the ledger, the    *)
(* two counters and the row locks implement the promise: every step moves   *)
(* the units of one order once, or changes nothing a caller can see.        *)
KeepsPromise == StockPromised!PromiseSpec
=============================================================================

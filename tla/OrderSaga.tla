------------------------------ MODULE OrderSaga ------------------------------
(***************************************************************************)
(* order-saga: the saga row of each order, one seller order per seller in  *)
(* it, the commands on the outbox, and the reaper.                         *)
(*                                                                         *)
(* advance_saga locks the saga row, reads the seller orders WITHOUT a lock *)
(* and commits later, so it is two steps; transition_seller_order locks    *)
(* the seller order it moves and is one step; one sweep of the reaper is   *)
(* one transaction and one step.                                           *)
(*                                                                         *)
(* The outbox holds commands only.  The events written beside them         *)
(* (SellerOrderCreated, SellerOrderCancelled, OrderFailed, ...) change     *)
(* nothing here: other consumers read them.                                *)
(***************************************************************************)
EXTENDS SagaTransitions, FiniteSets

CONSTANTS
  Orders,
  SellersOf,   \* the sellers an order is split across
  NoSeller,    \* the seller of a command that covers the whole order
  Keys,        \* idempotency keys a caller of /events may send
  NoTx         \* no advance is in progress

Sellers == UNION {SellersOf[o] : o \in Orders}

ASSUME OrderSagaConstants ==
  /\ \A o \in Orders : SellersOf[o] # {}
  /\ NoSeller \notin Sellers

VARIABLES
  saga,     \* order_saga_states.status; ABSENT before the row exists
  method,   \* order_saga_states.payment_method
  child,    \* seller_orders.status, per order and seller
  outbox,   \* the commands emitted so far
  applied,  \* idempotency_keys with a result, as <<event, key>>
  open      \* the advance in progress on an order, and what it has read

sagaVars == <<saga, method, child, outbox, applied, open>>

CommandTypes == {"ReserveInventoryCommand", "ChargePaymentCommand",
                 "ConfirmOrderCommand", "ReleaseInventoryCommand",
                 "RefundPaymentCommand", "SagaTimedOut",
                 "ReleaseSellerOrderInventoryCommand",
                 "ConsumeSellerOrderInventoryCommand",
                 "BookEscrowDeliveryCommand"}

\* A row of the outbox.  n tells the rows of one type, order and seller apart.
Command(type, o, s) ==
  LET same == {m \in outbox : m.type = type /\ m.order = o /\ m.seller = s}
  IN  [type |-> type, order |-> o, seller |-> s, n |-> Cardinality(same) + 1]

Commands(types, o, s) == {Command(type, o, s) : type \in types \ {NoCommand}}

-----------------------------------------------------------------------------
\* Orders under the card flow were placed before migration 017: they start
\* as rows that wait for stock.
SagaInitWith(cards) ==
  /\ saga = [o \in Orders |-> IF o \in cards THEN "PENDING" ELSE "ABSENT"]
  /\ method = [o \in Orders |-> IF o \in cards THEN "CARD" ELSE "COD"]
  /\ child = [o \in Orders |-> [s \in SellersOf[o] |-> "PENDING"]]
  /\ outbox = {[type |-> "ReserveInventoryCommand", order |-> o,
                seller |-> NoSeller, n |-> 1] : o \in cards}
  /\ applied = {}
  /\ open = [o \in Orders |-> NoTx]

SagaInit == \E cards \in SUBSET Orders : SagaInitWith(cards)

\* start_saga: the saga row, its seller orders and the reserve command.  A
\* repeated Idempotency-Key returns the row and changes nothing.
start_saga(o) ==
  /\ saga[o] = "ABSENT"
  /\ saga' = [saga EXCEPT ![o] = "PENDING"]
  /\ outbox' = outbox \cup Commands({"ReserveInventoryCommand"}, o, NoSeller)
  /\ UNCHANGED <<method, child, applied, open>>

-----------------------------------------------------------------------------
(* advance_saga *)

Decide(o, event) == resolve(saga[o], event, method[o])

\* Fault: the children are marked reserved whatever they have become.
AdvanceUnfiltered(o, event, key, doomed) ==
  LET d == Decide(o, event)
      reserving == event = "InventoryReserved" /\ d.outcome = "apply"
  IN  /\ saga' = [saga EXCEPT ![o] = d.to]
      /\ child' = [child EXCEPT ![o] =
                     [s \in SellersOf[o] |->
                        IF s \in doomed THEN "CANCELLED"
                        ELSE IF reserving THEN "INVENTORY_RESERVED" ELSE @[s]]]
      /\ outbox' = outbox \cup Commands({d.command}, o, NoSeller)
      /\ applied' = applied \cup {<<event, key>>}
      /\ UNCHANGED method

\* The decision is committed: the saga moves, its children follow, the
\* command goes out and the key is bound.  `doomed` are the children the
\* cancellation picked from what it read; their rows are overwritten by id.
\* The move to INVENTORY_RESERVED is one UPDATE that filters on the status.
Advance(o, event, key, doomed) ==
  LET d == Decide(o, event)
      reserving == event = "InventoryReserved" /\ d.outcome = "apply"
  IN  /\ saga' = [saga EXCEPT ![o] = d.to]
      /\ child' = [child EXCEPT ![o] =
                     [s \in SellersOf[o] |->
                        IF s \in doomed THEN "CANCELLED"
                        ELSE IF reserving /\ @[s] = "PENDING"
                        THEN "INVENTORY_RESERVED" ELSE @[s]]]
      /\ outbox' = outbox \cup Commands({d.command}, o, NoSeller)
      /\ applied' = applied \cup {<<event, key>>}
      /\ UNCHANGED method

\* cancel_children_of_ended_saga, on the statuses it has read.
Doomed(o, event, statuses) ==
  IF Decide(o, event).outcome = "apply"
  THEN children_to_cancel(Decide(o, event).to, statuses)
  ELSE {}

\* The key is new, the saga row is locked and the event applies.  Everything
\* else is answered without a change: a bound key from the cache, an unknown
\* event 422, a late duplicate 200, an event out of order 409.
AdvanceRead(o, event, key) ==
  /\ saga[o] # "ABSENT"
  /\ open[o] = NoTx
  /\ <<event, key>> \notin applied
  /\ Decide(o, event).outcome \in {"apply", "compensate"}
  /\ open' = [open EXCEPT ![o] = [event |-> event, key |-> key,
                                  doomed |-> Doomed(o, event, child[o])]]
  /\ UNCHANGED <<saga, method, child, outbox, applied>>

AdvanceCommit(o) ==
  /\ open[o] # NoTx
  /\ Advance(o, open[o].event, open[o].key, open[o].doomed)
  /\ open' = [open EXCEPT ![o] = NoTx]

\* The commit raises (500) or the process dies: the transaction is gone.
AdvanceFails(o) ==
  /\ open[o] # NoTx
  /\ open' = [open EXCEPT ![o] = NoTx]
  /\ UNCHANGED <<saga, method, child, outbox, applied>>

-----------------------------------------------------------------------------
(* transition_seller_order: the seller, the courier or the settlement moves *)
(* one seller order.  It never looks at the parent saga.                    *)

EffectCommands(t) ==
  CASE t.effect = "release" -> {"ReleaseSellerOrderInventoryCommand"}
    [] t.effect = "consume" -> {"ConsumeSellerOrderInventoryCommand"}
    [] OTHER -> {}

EscrowCommands(t) == IF t.action = "deliver" THEN {"BookEscrowDeliveryCommand"} ELSE {}

transition_seller_order(o, s, action) ==
  /\ saga[o] # "ABSENT"
  /\ \E t \in plan_transition(action, child[o][s]) :
       /\ child' = [child EXCEPT ![o][s] = t.to]
       /\ outbox' = outbox \cup Commands(EffectCommands(t) \cup EscrowCommands(t), o, s)
  /\ UNCHANGED <<saga, method, applied, open>>

-----------------------------------------------------------------------------
(* saga_reaper_loop *)

Reapable(o) ==
  \/ method[o] = "CARD" /\ saga[o] \in {"PENDING", "INVENTORY_RESERVED", "PAID"}
  \/ method[o] = "COD" /\ saga[o] = "PENDING"

\* Fault: the reaper forgets that the charge may have gone through.
CompensationsWithoutRefund(status) ==
  CASE status = "PENDING" -> {"SagaTimedOut"}
    [] status = "INVENTORY_RESERVED" -> {"ReleaseInventoryCommand"}
    [] status = "PAID" -> {"RefundPaymentCommand"}

CompensationsFor(status) ==
  CASE status = "PENDING" -> {"SagaTimedOut"}
    [] status = "INVENTORY_RESERVED" -> {"ReleaseInventoryCommand", "RefundPaymentCommand"}
    [] status = "PAID" -> {"RefundPaymentCommand"}

\* Fault: the sweep leaves the seller orders alone.
SweepSagasOnly(stale) ==
  /\ \A o \in stale : Reapable(o) /\ open[o] = NoTx
  /\ saga' = [o \in Orders |-> IF o \in stale THEN "TIMED_OUT" ELSE saga[o]]
  /\ outbox' = outbox \cup
                 UNION {Commands(CompensationsFor(saga[o]), o, NoSeller) : o \in stale}
  /\ UNCHANGED <<method, child, applied, open>>

\* One sweep: the stale sagas that no advance has locked time out, then the
\* children still live under an order that has ended are cancelled.
Sweep(stale) ==
  LET swept == [o \in Orders |-> IF o \in stale THEN "TIMED_OUT" ELSE saga[o]]
  IN  /\ \A o \in stale : Reapable(o) /\ open[o] = NoTx
      /\ saga' = swept
      /\ child' = [o \in Orders |->
                     [s \in SellersOf[o] |->
                        IF s \in children_to_cancel(swept[o], child[o])
                        THEN "CANCELLED" ELSE child[o][s]]]
      /\ outbox' = outbox \cup
                     UNION {Commands(CompensationsFor(saga[o]), o, NoSeller) : o \in stale}
      /\ UNCHANGED <<method, applied, open>>

-----------------------------------------------------------------------------
SagaStep(o) ==
  \/ start_saga(o)
  \/ \E event \in KNOWN_EVENT_TYPES, key \in Keys : AdvanceRead(o, event, key)
  \/ AdvanceCommit(o)
  \/ AdvanceFails(o)
  \/ \E s \in SellersOf[o], action \in ActionNames : transition_seller_order(o, s, action)

SagaNext == (\E o \in Orders : SagaStep(o)) \/ (\E stale \in SUBSET Orders : Sweep(stale))

SagaSpec == SagaInit /\ [][SagaNext]_sagaVars

\* The reaper sweeps once a minute for as long as the service runs.
SagaFairSpec == SagaSpec /\ WF_sagaVars(\E stale \in SUBSET Orders : Sweep(stale))

-----------------------------------------------------------------------------
(* Every variable keeps its type. *)
SagaTypeOK ==
  /\ saga \in [Orders -> ALL_STATES \cup {"ABSENT"}]
  /\ method \in [Orders -> {"COD", "CARD"}]
  /\ DOMAIN child = Orders
  /\ \A o \in Orders : child[o] \in [SellersOf[o] -> SellerOrderStatus]
  /\ \A m \in outbox : /\ m.type \in CommandTypes
                       /\ m.order \in Orders
                       /\ m.seller \in Sellers \cup {NoSeller}
  /\ applied \subseteq KNOWN_EVENT_TYPES \X Keys
  /\ \A o \in Orders : open[o] # NoTx =>
       /\ open[o].event \in KNOWN_EVENT_TYPES
       /\ open[o].key \in Keys
       /\ open[o].doomed \subseteq SellersOf[o]

Emitted(type, o) == {m \in outbox : m.type = type /\ m.order = o}

(* An order asks for its payment at most once, and a cash-on-delivery order  *)
(* never, whatever events are repeated under new keys, delayed or delivered  *)
(* out of order: a second ChargePaymentCommand would carry a new key and     *)
(* charge the card again (advance_saga, TRANSITIONS).                        *)
ChargedAtMostOnce ==
  \A o \in Orders :
    Cardinality(Emitted("ChargePaymentCommand", o)) <= IF method[o] = "COD" THEN 0 ELSE 1

(* A completed order keeps its stock: once the saga has handed off, no      *)
(* order-wide release is emitted for it, so goods on a courier's van are    *)
(* never put back on sale by the saga or the reaper.                        *)
HandedOffStockIsNotReleased ==
  [][\A o \in Orders : saga[o] = "ORDER_COMPLETED" =>
       Emitted("ReleaseInventoryCommand", o)' = Emitted("ReleaseInventoryCommand", o)]_sagaVars

Shipped == {"DISPATCHED", "RTO_IN_TRANSIT", "DELIVERED", "SETTLED", "RETURNED"}

ParcelsAreKept(o) ==
  \A s \in SellersOf[o] : child[o][s] \in Shipped => child'[o][s] # "CANCELLED"

(* "A saga cannot undo a van": a seller order that has left with a courier  *)
(* is never marked CANCELLED, by the seller, by an ending saga or by the    *)
(* reaper's sweep of stranded children.                                     *)
ParcelIsNotCancelled == [][\A o \in Orders : ParcelsAreKept(o)]_sagaVars

(* The same for the orders placed today: under cash on delivery the saga    *)
(* has handed off before a seller can dispatch, so no late failure, timeout *)
(* or sweep reaches a parcel that is under way.                             *)
CodParcelIsNotCancelled ==
  [][\A o \in Orders : method[o] = "COD" => ParcelsAreKept(o)]_sagaVars

(* Once the saga has handed off, what left with a courier is left alone:     *)
(* neither put back on sale nor, under cash on delivery, marked cancelled.   *)
HandedOffIsLeftAlone == HandedOffStockIsNotReleased /\ CodParcelIsNotCancelled

Rank(status) == IF status \in ENDED_UNFAVOURABLY THEN 7 ELSE Progress(status)

(* The status the buyer is shown never moves backwards: neither a slow      *)
(* seller, a cancelled one, nor a parcel on its way back makes an order     *)
(* look less advanced than it already did.                                  *)
BuyerStatusNeverRegresses ==
  [][\A o \in Orders :
       Rank(derive_order_status(child[o])) <= Rank(derive_order_status(child[o]'))]_sagaVars

(* No seller is left with live work for an order that has ended: a child    *)
(* that can still be cancelled under a failed, timed out or rolled back     *)
(* saga is cancelled, or has already gone to a courier.                     *)
EndedOrderHasNoLiveWork ==
  \A o \in Orders : \A s \in SellersOf[o] :
    (saga[o] \in SAGA_STATES_ENDING_THE_ORDER
       /\ child[o][s] \in cancellable_child_statuses)
      ~> child[o][s] \notin cancellable_child_statuses
=============================================================================

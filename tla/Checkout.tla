------------------------------- MODULE Checkout -------------------------------
(***************************************************************************)
(* The checkout as a whole: the commands order-saga puts on its outbox,    *)
(* the saga-dispatcher that carries each of them out by calling            *)
(* inventory-service, payment-service and order-saga in turn, the reaper   *)
(* and the sellers.  Every call is one transaction of the service called.  *)
(* Between two calls anything else may happen; a call may be lost before   *)
(* or after it took effect, and the command then starts again.             *)
(*                                                                         *)
(* One dispatcher works on a command at a time (Dispatcher shows the claim *)
(* to be exclusive) and no handler dies.  The escrow booking is settled    *)
(* here without an effect: its ledger is not part of this composition.     *)
(***************************************************************************)
EXTENDS Integers, Sequences, FiniteSets

CONSTANTS
  Orders, SellersOf, NoSeller, NoOrder, NoTx, NoRow, NoRefund,
  Listed,        \* products with a stock row
  InitialStock,
  Lines,         \* the lines of an order: product, quantity, seller, by product id
  Settings,      \* the circumstances under which the platform may run
  MAX_ATTEMPTS

\* placed:  the orders that come in under cash on delivery
\* cards:   the orders under the card flow
\* refused: card orders whose charge is refused (422: amount below 1)
\* lossy:   services whose calls may fail or lose their answer
\* busy:    whether a stock row may stay locked beyond lock_timeout
Setting ==
  [placed : SUBSET Orders, cards : SUBSET Orders, refused : SUBSET Orders,
   lossy : SUBSET {"inventory-service", "payment-service", "order-saga"},
   busy : BOOLEAN]

ASSUME CheckoutConstants ==
  /\ Settings \subseteq Setting
  /\ MAX_ATTEMPTS \in Nat \ {0}

VARIABLES
  available, reserved, row, bound, tx, consumed, anonymous,
  saga, method, child, outbox, applied, open,
  ledger, charged, refund,
  work,      \* where the dispatcher is with each command it has started on
  setting    \* chosen once

inventory == <<available, reserved, row, bound, tx, consumed, anonymous>>
orders == <<saga, method, child, outbox, applied, open>>
payments == <<ledger, charged, refund>>
checkoutVars == <<inventory, orders, payments, work, setting>>

LinesOf(o) == {Lines[o][i] : i \in DOMAIN Lines[o]}
Products == {l.product : l \in UNION {LinesOf(o) : o \in Orders}}

Events == {"InventoryReserved", "InventoryReservationFailed", "PaymentCharged",
           "PaymentFailed", "PaymentRefunded", "OrderCompleted", "InventoryReleased"}

Inv == INSTANCE Inventory WITH
  Keys <- Orders \X Products,
  Quantities <- {l.quantity : l \in UNION {LinesOf(o) : o \in Orders}},
  Workers <- {}, Overlap <- FALSE
Sag == INSTANCE OrderSaga WITH Keys <- {}
Pay == INSTANCE Payment WITH
  ChargeKeys <- Orders, Amounts <- {1}, Refunders <- {"dispatcher"},
  Declines <- FALSE, MaxLedger <- 3 * Cardinality(Orders)

-----------------------------------------------------------------------------
(* The steps of a command. *)

At(stage, line, event) == [at |-> stage, line |-> line, event |-> event]

\* Where handle starts on a command of this type.
First(m) ==
  CASE m.type = "ReserveInventoryCommand" -> At("reserve", 1, "")
    [] m.type = "ConfirmOrderCommand" -> At("report", 0, "OrderCompleted")
    [] m.type \in {"SagaTimedOut", "BookEscrowDeliveryCommand"} -> At("settled", 0, "")
    [] OTHER -> At("call", 0, "")

Begun(m) == m \in DOMAIN work

Stage(m) == IF Begun(m) THEN work[m].stage ELSE First(m)

Attempts(m) == IF Begun(m) THEN work[m].attempts ELSE 0

Moves(m, stage, attempts) ==
  work' = [n \in DOMAIN work \cup {m} |->
             IF n = m THEN [stage |-> stage, attempts |-> attempts] ELSE work[n]]

Goes(m, stage) == Moves(m, stage, Attempts(m))

Settled == At("settled", 0, "")

Report(event) == At("report", 0, event)

\* disposition_after: the command starts again, or parks at the cap.
Retry(m) ==
  Moves(m, IF Attempts(m) + 1 >= MAX_ATTEMPTS THEN At("parked", 0, "") ELSE First(m),
        Attempts(m) + 1)

\* The call took effect: the answer arrives, or it does not.
Answer(m, service, next) == Goes(m, next) \/ (service \in setting.lossy /\ Retry(m))

ServiceOf(m) ==
  CASE Stage(m).at = "report" -> {"order-saga"}
    [] Stage(m).at \in {"reserve", "rollback"} -> {"inventory-service"}
    [] Stage(m).at = "call" ->
         {IF m.type \in {"ChargePaymentCommand", "RefundPaymentCommand"}
          THEN "payment-service" ELSE "inventory-service"}
    [] OTHER -> {}

\* Fault: a reserve that failed is taken for one that succeeded.
FailureTakenForSuccess(m) ==
  /\ ServiceOf(m) \cap setting.lossy # {}
  /\ Goes(m, IF Stage(m).at = "reserve" THEN Report("InventoryReserved") ELSE First(m))
  /\ UNCHANGED <<inventory, orders, payments>>

\* The call never reached the service, or the service rolled it back (5xx).
NotDelivered(m) ==
  /\ ServiceOf(m) \cap setting.lossy # {}
  /\ Retry(m)
  /\ UNCHANGED <<inventory, orders, payments>>

-----------------------------------------------------------------------------
(* ReserveInventoryCommand: a reserve per line, in the order of the product *)
(* ids; at the first refusal everything the order holds is released.        *)

ReserveLine(m) ==
  LET o == m.order
      i == Stage(m).line
      l == Lines[o][i]
      key == <<o, l.product>>
      held == IF i < Len(Lines[o]) THEN At("reserve", i + 1, "")
              ELSE Report("InventoryReserved")
  IN  /\ Stage(m).at = "reserve"
      /\ \/ Inv!ReserveCached(key) /\ Answer(m, "inventory-service", held)
         \/ /\ Inv!Reserve(key, o, l.product, l.quantity)
            /\ Answer(m, "inventory-service", held)
         \/ /\ Inv!ReserveRejected(key, l.product, l.quantity)
            /\ Answer(m, "inventory-service", At("rollback", 0, ""))
         \/ /\ l.product \notin Listed
            /\ Goes(m, At("rollback", 0, ""))
            /\ UNCHANGED inventory
      /\ UNCHANGED <<orders, payments>>

\* One /release or /consume, alone on the order: nothing held is a no-op.
StockCall(kind, o, scope) ==
  IF Inv!HeldBy(o, scope) = {} THEN UNCHANGED inventory
  ELSE /\ Inv!Settle(Inv!HeldBy(o, scope), kind)
       /\ UNCHANGED <<bound, tx, anonymous>>

\* Fault: the failure is reported and the lines already held are kept.
RollbackNothing(m) ==
  /\ Stage(m).at = "rollback"
  /\ Goes(m, Report("InventoryReservationFailed"))
  /\ UNCHANGED <<inventory, orders, payments>>

RollbackReservation(m) ==
  /\ Stage(m).at = "rollback"
  /\ StockCall("release", m.order, Listed)
  /\ Answer(m, "inventory-service", Report("InventoryReservationFailed"))
  /\ UNCHANGED <<orders, payments>>

-----------------------------------------------------------------------------
(* The other commands: one call each. *)

ReleaseOrder(m) ==
  /\ m.type = "ReleaseInventoryCommand" /\ Stage(m).at = "call"
  /\ StockCall("release", m.order, Listed)
  /\ Answer(m, "inventory-service", Report("InventoryReleased"))
  /\ UNCHANGED <<orders, payments>>

ProductsOf(o, s) == {l.product : l \in {k \in LinesOf(o) : k.seller = s}}

\* Fault: one seller's part settles the stock of the whole order.
SettleWholeOrderStock(m) ==
  /\ Stage(m).at = "call"
  /\ \/ /\ m.type = "ReleaseSellerOrderInventoryCommand"
        /\ StockCall("release", m.order, Listed)
     \/ /\ m.type = "ConsumeSellerOrderInventoryCommand"
        /\ StockCall("consume", m.order, Listed)
  /\ Answer(m, "inventory-service", Settled)
  /\ UNCHANGED <<orders, payments>>

SettleSellerStock(m) ==
  /\ Stage(m).at = "call"
  /\ \/ /\ m.type = "ReleaseSellerOrderInventoryCommand"
        /\ StockCall("release", m.order, ProductsOf(m.order, m.seller))
     \/ /\ m.type = "ConsumeSellerOrderInventoryCommand"
        /\ StockCall("consume", m.order, ProductsOf(m.order, m.seller))
  /\ Answer(m, "inventory-service", Settled)
  /\ UNCHANGED <<orders, payments>>

\* The stock row is locked by others for longer than lock_timeout: the call
\* rolls back and answers 409.  A reserve takes that for a refusal, the
\* rollback of a reserve starts again, and any other command parks at once.
RowIsBusy(m) ==
  LET o == m.order
      stage == Stage(m)
      whole == m.type = "ReleaseInventoryCommand"
      scope == IF whole THEN Listed ELSE ProductsOf(o, m.seller)
  IN  /\ setting.busy
      /\ \/ /\ stage.at = "reserve"
            /\ Lines[o][stage.line].product \in Listed
            /\ <<o, Lines[o][stage.line].product>> \notin bound
            /\ Goes(m, At("rollback", 0, ""))
         \/ /\ stage.at = "rollback"
            /\ Inv!HeldBy(o, Listed) # {}
            /\ Retry(m)
         \/ /\ stage.at = "call"
            /\ ServiceOf(m) = {"inventory-service"}
            /\ Inv!HeldBy(o, scope) # {}
            /\ Moves(m, At("parked", 0, ""), Attempts(m) + 1)
      /\ UNCHANGED <<inventory, orders, payments>>

\* 201 and a replayed key report PaymentCharged; any refusal PaymentFailed.
Charge(m) ==
  /\ m.type = "ChargePaymentCommand" /\ Stage(m).at = "call"
  /\ \/ /\ m.order \in setting.refused
        /\ Goes(m, Report("PaymentFailed"))
        /\ UNCHANGED payments
     \/ /\ m.order \in charged
        /\ Answer(m, "payment-service", Report("PaymentCharged"))
        /\ UNCHANGED payments
     \/ /\ m.order \notin setting.refused
        /\ Pay!process_charge(m.order, m.order, 1)
        /\ Answer(m, "payment-service", Report("PaymentCharged"))
  /\ UNCHANGED <<inventory, orders>>

Refund(m) ==
  /\ m.type = "RefundPaymentCommand" /\ Stage(m).at = "call"
  /\ IF Pay!EntriesOf(m.order, Pay!SETTLED_STATUSES) # {}
     THEN UNCHANGED ledger
     ELSE ledger' = Append(ledger, Pay!plan_refund(m.order))
  /\ Answer(m, "payment-service", Report("PaymentRefunded"))
  /\ UNCHANGED <<inventory, orders, charged, refund>>

\* _advance_saga, under a key that is unique to the command and the event.
\* A bound key and a late duplicate answer 200; an event out of order 409.
ReportToSaga(m) ==
  LET o == m.order
      event == Stage(m).event
      decision == Sag!Decide(o, event)
  IN  /\ Stage(m).at = "report"
      /\ \/ /\ <<event, m>> \in applied \/ decision.outcome = "late_duplicate"
            /\ Answer(m, "order-saga", Settled)
            /\ UNCHANGED orders
         \/ /\ <<event, m>> \notin applied
            /\ decision.outcome \in {"apply", "compensate"}
            /\ Sag!Advance(o, event, m, Sag!Doomed(o, event, child[o]))
            /\ Answer(m, "order-saga", Settled)
            /\ UNCHANGED open
         \/ /\ <<event, m>> \notin applied
            /\ decision.outcome = "out_of_order"
            /\ Retry(m)
            /\ UNCHANGED orders
      /\ UNCHANGED <<inventory, payments>>

\* Commands that call nobody.
SettleQuietly(m) ==
  /\ ~Begun(m)
  /\ First(m) = Settled
  /\ Goes(m, Settled)
  /\ UNCHANGED <<inventory, orders, payments>>

Dispatch(m) ==
  \/ ReserveLine(m)
  \/ RollbackReservation(m)
  \/ ReleaseOrder(m)
  \/ SettleSellerStock(m)
  \/ Charge(m)
  \/ Refund(m)
  \/ ReportToSaga(m)
  \/ SettleQuietly(m)

-----------------------------------------------------------------------------
CheckoutInit ==
  /\ setting \in Settings
  /\ Inv!Init
  /\ Sag!SagaInitWith(setting.cards)
  /\ Pay!PaymentInit
  /\ work = << >>

SagaActs ==
  /\ \/ \E o \in setting.placed : Sag!start_saga(o)
     \/ \E o \in Orders : \E s \in SellersOf[o], action \in Sag!ActionNames :
          Sag!transition_seller_order(o, s, action)
     \/ \E stale \in SUBSET Orders : Sag!Sweep(stale)
  /\ UNCHANGED <<inventory, payments, work>>

CheckoutNext ==
  /\ \/ SagaActs
     \/ \E m \in outbox : Dispatch(m) \/ NotDelivered(m) \/ RowIsBusy(m)
  /\ UNCHANGED setting

CheckoutSpec == CheckoutInit /\ [][CheckoutNext]_checkoutVars

\* A command on the outbox is worked on until it settles or parks.
CheckoutFairSpec == CheckoutSpec /\ WF_checkoutVars((\E m \in outbox : Dispatch(m)) /\ UNCHANGED setting)

-----------------------------------------------------------------------------
HoldsLine(o, l) ==
  \E k \in Inv!HeldBy(o, {l.product}) : row[k].quantity = l.quantity

HoldsGoodsOf(o, s) == \A l \in LinesOf(o) : l.seller = s => HoldsLine(o, l)

(* What a seller is asked to pack is held: from the moment a seller order   *)
(* is shown as reserved until its parcel is delivered, cancelled or back,   *)
(* every line of it is held for that order in full.                         *)
CommittedGoodsAreHeld ==
  \A o \in Orders : \A s \in SellersOf[o] :
    (saga[o] \in {"INVENTORY_RESERVED", "PAID", "ORDER_COMPLETED"} /\
     child[o][s] \in {"INVENTORY_RESERVED", "CONFIRMED", "DISPATCHED", "RTO_IN_TRANSIT"})
      => HoldsGoodsOf(o, s)

\* Nothing is left to do for the order.
Drained(o) == \A m \in outbox : m.order = o => Stage(m) = Settled /\ Begun(m)

(* An order that ended without being charged gives its stock back: once     *)
(* every command of a rolled back or timed out order has been carried out,  *)
(* it holds nothing, whichever line was refused, whichever rollback was     *)
(* lost and however late the reserve landed.                                *)
UnchargedOrderHoldsNothing ==
  \A o \in Orders :
    (saga[o] \in {"TIMED_OUT", "ROLLBACK_COMPLETED"} /\ Drained(o) /\ o \notin charged)
      => Inv!HeldBy(o, Listed) = {}

(* An order that has ended gives its stock back: once every command of a    *)
(* rolled back or timed out order has been carried out, it holds nothing.   *)
EndedOrderHoldsNothing ==
  \A o \in Orders :
    (saga[o] \in {"TIMED_OUT", "ROLLBACK_COMPLETED"} /\ Drained(o))
      => Inv!HeldBy(o, Listed) = {}

(* A seller order that is over holds no stock: once every command has been  *)
(* carried out, nothing is held for a parcel that was cancelled, returned   *)
(* or delivered.                                                            *)
FinishedSellerOrderHoldsNothing ==
  \A o \in Orders : \A s \in SellersOf[o] :
    (child[o][s] \in {"CANCELLED", "RETURNED", "DELIVERED", "SETTLED"} /\ Drained(o))
      => Inv!HeldBy(o, ProductsOf(o, s)) = {}

(* Under cash on delivery the units of a delivered parcel have left the     *)
(* stock for good, and only they: once every command has been carried out,  *)
(* exactly the lines of delivered seller orders are consumed.               *)
OnlyDeliveredGoodsAreConsumed ==
  \A o \in setting.placed : \A s \in SellersOf[o] : Drained(o) =>
    (child[o][s] \in {"DELIVERED", "SETTLED"}
       <=> \A l \in LinesOf(o) : l.seller = s =>
             \E k \in Inv!Written : /\ row[k].order = o
                                    /\ row[k].product = l.product
                                    /\ row[k].status = "consumed")

(* A card order that counts as paid has been charged exactly once and not   *)
(* refunded, whatever answers of /charge and /refund were lost.             *)
PaidOrderIsPaid ==
  \A o \in setting.cards : saga[o] \in {"PAID", "ORDER_COMPLETED"} => Pay!MoneyHeld(o) = 1

(* An order that has ended keeps no money: once every command of a rolled   *)
(* back or timed out order has been carried out, the customer has been      *)
(* given back what was charged.                                             *)
EndedOrderKeepsNoMoney ==
  \A o \in setting.cards :
    (saga[o] \in {"TIMED_OUT", "ROLLBACK_COMPLETED"} /\ Drained(o))
      => Pay!MoneyHeld(o) = 0

(* The only way to keep the money of an ended order is a charge that        *)
(* overtakes its refund: once every command has been carried out, either    *)
(* the customer has the money back or the refund found nothing to reverse   *)
(* and the charge came after it.                                            *)
MoneyIsKeptOnlyByALateCharge ==
  \A o \in setting.cards :
    (saga[o] \in {"TIMED_OUT", "ROLLBACK_COMPLETED"} /\ Drained(o) /\ Pay!MoneyHeld(o) # 0)
      => \E i \in Pay!EntriesOf(o, {"REFUND_NOOP"}), j \in Pay!EntriesOf(o, {"SUCCESS"}) : i < j

(* A card order's money follows the order: a paid one has been charged once  *)
(* and not refunded, and one that ended keeps it only when the charge        *)
(* overtook the refund (the charge and refund commands of handle).           *)
MoneyFollowsTheOrder == PaidOrderIsPaid /\ MoneyIsKeptOnlyByALateCharge

(* A stock row that is merely busy does not stop a command: one is parked   *)
(* only when its attempts are used up.                                      *)
BusyRowIsRetried ==
  \A m \in DOMAIN work :
    work[m].stage.at = "parked" => work[m].attempts >= MAX_ATTEMPTS

(* "A saga must not rest in" a compensating state: FAILED and TIMED_OUT are *)
(* always left again.                                                       *)
NoRestInCompensation ==
  \A o \in Orders : saga[o] \in {"FAILED", "TIMED_OUT"} ~> saga[o] = "ROLLBACK_COMPLETED"
=============================================================================

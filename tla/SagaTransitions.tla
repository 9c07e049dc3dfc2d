-------------------------- MODULE SagaTransitions --------------------------
(***************************************************************************)
(* The state machines of order-saga as data: the order saga                *)
(* (transitions.py) and the seller order (cod_rules.py, split_rules.py).   *)
(* Each table is a set of rows; a missing row is a refusal.                *)
(***************************************************************************)
EXTENDS Naturals

ALL_STATES == {"PENDING", "INVENTORY_RESERVED", "PAID", "ORDER_COMPLETED",
               "FAILED", "TIMED_OUT", "ROLLBACK_COMPLETED"}

TERMINAL_STATES == {"ORDER_COMPLETED", "ROLLBACK_COMPLETED"}

KNOWN_EVENT_TYPES == {"InventoryReserved", "InventoryReservationFailed",
                      "PaymentCharged", "PaymentFailed", "PaymentRefunded",
                      "OrderCompleted", "InventoryReleased"}

NoCommand == "None"

Arm(from, event, to, command) ==
  [from |-> from, event |-> event, to |-> to, command |-> command]

\* Fault: a repeated InventoryReserved is a self-loop that charges again.
TransitionsWithSelfLoop ==
  {Arm("PENDING", "InventoryReserved", "INVENTORY_RESERVED", "ChargePaymentCommand"),
   Arm("INVENTORY_RESERVED", "InventoryReserved", "INVENTORY_RESERVED",
       "ChargePaymentCommand")}

\* OrderFailed is an event on the outbox, not a command: nobody claims it.
TRANSITIONS ==
  {Arm("PENDING", "InventoryReserved", "INVENTORY_RESERVED", "ChargePaymentCommand"),
   Arm("INVENTORY_RESERVED", "PaymentCharged", "PAID", "ConfirmOrderCommand"),
   Arm("PAID", "OrderCompleted", "ORDER_COMPLETED", NoCommand),
   Arm("PENDING", "InventoryReservationFailed", "ROLLBACK_COMPLETED", NoCommand),
   Arm("INVENTORY_RESERVED", "PaymentFailed", "FAILED", "ReleaseInventoryCommand"),
   Arm("FAILED", "InventoryReleased", "ROLLBACK_COMPLETED", NoCommand),
   Arm("TIMED_OUT", "InventoryReleased", "ROLLBACK_COMPLETED", NoCommand),
   Arm("PAID", "PaymentRefunded", "ROLLBACK_COMPLETED", NoCommand),
   Arm("TIMED_OUT", "PaymentRefunded", "ROLLBACK_COMPLETED", NoCommand)}

COD_TRANSITIONS ==
  {Arm("PENDING", "InventoryReserved", "ORDER_COMPLETED", NoCommand)}

\* Fault: a completed saga is compensated too.
LateEverywhere ==
  {Arm(from, "InventoryReserved", from, "ReleaseInventoryCommand") :
     from \in {"TIMED_OUT", "FAILED", "ROLLBACK_COMPLETED", "ORDER_COMPLETED"}}

LATE_RESOURCE_COMPENSATIONS ==
  {Arm(from, "InventoryReserved", from, "ReleaseInventoryCommand") :
     from \in {"TIMED_OUT", "FAILED", "ROLLBACK_COMPLETED"}}

Arms(table, status, event) == {a \in table : a.from = status /\ a.event = event}

\* The rows that apply: the COD table shadows the shared one.
Applicable(status, event, method) ==
  LET cod == IF method = "COD" THEN Arms(COD_TRANSITIONS, status, event) ELSE {}
  IN  IF cod # {} THEN cod ELSE Arms(TRANSITIONS, status, event)

Decision(outcome, arms, status) ==
  IF arms = {} THEN [outcome |-> outcome, to |-> status, command |-> NoCommand]
  ELSE LET a == CHOOSE a \in arms : TRUE
       IN  [outcome |-> outcome, to |-> a.to, command |-> a.command]

resolve(status, event, method) ==
  LET apply == Applicable(status, event, method)
      late == Arms(LATE_RESOURCE_COMPENSATIONS, status, event)
  IN  CASE event \notin KNOWN_EVENT_TYPES -> Decision("unknown_event", {}, status)
        [] event \in KNOWN_EVENT_TYPES /\ apply # {} -> Decision("apply", apply, status)
        [] event \in KNOWN_EVENT_TYPES /\ apply = {} /\ late # {} ->
             Decision("compensate", late, status)
        [] OTHER -> Decision(IF status \in TERMINAL_STATES THEN "late_duplicate"
                                                           ELSE "out_of_order",
                             {}, status)

-----------------------------------------------------------------------------
(* The seller order. *)

SellerOrderStatus == {"PENDING", "INVENTORY_RESERVED", "CONFIRMED", "DISPATCHED",
                      "RTO_IN_TRANSIT", "DELIVERED", "SETTLED", "RETURNED",
                      "CANCELLED"}

Transition(action, from, to, effect) ==
  [action |-> action, from |-> from, to |-> to, effect |-> effect]

COD_ACTIONS ==
  {Transition("confirm", "INVENTORY_RESERVED", "CONFIRMED", "none"),
   Transition("dispatch", "CONFIRMED", "DISPATCHED", "none"),
   Transition("deliver", "DISPATCHED", "DELIVERED", "consume"),
   Transition("settle", "DELIVERED", "SETTLED", "none"),
   Transition("mark_rto", "DISPATCHED", "RTO_IN_TRANSIT", "none"),
   Transition("complete_return", "RTO_IN_TRANSIT", "RETURNED", "release"),
   Transition("cancel", "PENDING", "CANCELLED", "release"),
   Transition("cancel", "INVENTORY_RESERVED", "CANCELLED", "release"),
   Transition("cancel", "CONFIRMED", "CANCELLED", "release")}

ActionNames == {t.action : t \in COD_ACTIONS}

\* The rows of the table for this action from this state: none is a refusal
\* (409), and a missing reason is refused before anything is read (422).
plan_transition(action, status) ==
  {t \in COD_ACTIONS : t.action = action /\ t.from = status}

SAGA_STATES_ENDING_THE_ORDER == {"FAILED", "TIMED_OUT", "ROLLBACK_COMPLETED"}

cancellable_child_statuses == {t.from : t \in {u \in COD_ACTIONS : u.action = "cancel"}}

\* The children (a function from sellers to statuses) a parent in this
\* state cancels.
children_to_cancel(saga_status, statuses) ==
  IF saga_status \in SAGA_STATES_ENDING_THE_ORDER
  THEN {s \in DOMAIN statuses : statuses[s] \in cancellable_child_statuses}
  ELSE {}

ENDED_UNFAVOURABLY == {"CANCELLED", "RETURNED"}

Progress(status) ==
  CASE status = "PENDING" -> 0
    [] status = "INVENTORY_RESERVED" -> 1
    [] status = "CONFIRMED" -> 2
    [] status = "DISPATCHED" -> 3
    [] status = "RTO_IN_TRANSIT" -> 4
    [] status = "DELIVERED" -> 5
    [] status = "SETTLED" -> 6

\* The buyer-facing status of an order with these children.
derive_order_status(statuses) ==
  LET all == {statuses[s] : s \in DOMAIN statuses}
      active == all \ ENDED_UNFAVOURABLY
  IN  IF active # {}
      THEN CHOOSE a \in active : \A b \in active : Progress(a) <= Progress(b)
      ELSE IF all = {"CANCELLED"} THEN "CANCELLED" ELSE "RETURNED"
=============================================================================

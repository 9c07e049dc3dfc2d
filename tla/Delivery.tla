------------------------------- MODULE Delivery -------------------------------
(***************************************************************************)
(* A seller order from its confirmation to the money: the seller (through  *)
(* bff-seller), the courier and what physically happens to the parcel, the *)
(* callbacks in fulfillment-service, the seller order in order-saga, the   *)
(* dispatcher that carries the escrow command, and the ledger.             *)
(***************************************************************************)
EXTENDS Fulfillment, Escrow, SagaTransitions

CONSTANTS
  Settings,     \* the circumstances a run looks at
  MaxTries      \* MAX_ATTEMPTS of the dispatcher

VARIABLES
  setting,    \* files: the remittance files the courier sends;
              \* overlap: two of them may be ingested at the same time;
              \* workers: calls the dispatcher may have open;
              \* operators: calls of operators, who also pay sellers out;
              \* bulkhead: calls to order-saga that may be in flight;
              \* failing: a commit in payment-service may raise
  road,       \* what has physically happened to each parcel
  child,      \* seller_orders.status
  effects,    \* inventory commands emitted for a seller order
  command     \* its BookEscrowDeliveryCommand on the outbox

orderVars == <<child, effects, command>>

deliveryVars == <<fulfillmentVars, escrowVars, road, orderVars, setting>>

DeliveryInit ==
  /\ setting \in Settings
  /\ FulfillmentInit
  /\ EscrowInit
  /\ road = [d \in Deals |-> {}]
  /\ child = [d \in Deals |-> "INVENTORY_RESERVED"]
  /\ effects = [d \in Deals |-> <<>>]
  /\ command = [d \in Deals |-> [state |-> "none", attempts |-> 0]]

-----------------------------------------------------------------------------
(* The courier (external): the parcel moves, and a word is sent for         *)
(* something that has happened, perhaps late, again, or out of order.       *)

Happens(d, event) ==
  /\ parcel[d] # NoParcel
  /\ event \notin road[d]
  /\ CASE event = "PICKED_UP" -> "CANCELLED" \notin road[d]
       [] event = "CANCELLED" -> road[d] = {}
       [] event = "DELIVERED" -> "PICKED_UP" \in road[d] /\ "RETURNING" \notin road[d]
       [] event = "RETURNING" -> "PICKED_UP" \in road[d] /\ "DELIVERED" \notin road[d]
       [] event = "RETURNED" -> "RETURNING" \in road[d]
  /\ road' = [road EXCEPT ![d] = @ \cup {event}]
  /\ UNCHANGED <<fulfillmentVars, escrowVars, orderVars, setting>>

Calls_back(d, c, word) ==
  /\ index[c][word] \in road[d] \cup {NoStatus}
  /\ handle_callback(d, c, word, setting.bulkhead)
  /\ UNCHANGED <<escrowVars, road, orderVars, setting>>

-----------------------------------------------------------------------------
(* order-saga *)

\* Fault: the state the seller order is in is not looked at.
TransitionFromAny(d, action) ==
  \E t \in {u \in COD_ACTIONS : u.action = action} :
    /\ child' = [child EXCEPT ![d] = t.to]
    /\ effects' = IF t.effect = "none" THEN effects
                  ELSE [effects EXCEPT ![d] = Append(@, t.effect)]
    /\ command' = IF action = "deliver" THEN [command EXCEPT ![d].state = "pending"]
                  ELSE command

\* transition_seller_order: the status, the inventory command and, on a
\* delivery, the escrow command, in one commit.
Transitioned(d, action) ==
  \E t \in plan_transition(action, child[d]) :
    /\ child' = [child EXCEPT ![d] = t.to]
    /\ effects' = IF t.effect = "none" THEN effects
                  ELSE [effects EXCEPT ![d] = Append(@, t.effect)]
    /\ command' = IF action = "deliver" THEN [command EXCEPT ![d].state = "pending"]
                  ELSE command

\* Fault: a seller may also attest the delivery.
SellerAttests == {"confirm", "dispatch", "cancel", "deliver"}

SELLER_ACTIONS == {"confirm", "dispatch", "cancel"}

\* bff-seller: anything outside SELLER_ACTIONS is refused (403), another
\* seller's order is not found (404).
SellerActs(d, action) ==
  /\ action \in SELLER_ACTIONS
  /\ Transitioned(d, action)
  /\ UNCHANGED <<fulfillmentVars, escrowVars, road, setting>>

\* An operator closes a seller order whose cash has arrived.
OperatorSettles(d) ==
  /\ \E r \in rows : r.ref = d /\ r.outcome = "matched"
  /\ Transitioned(d, "settle")
  /\ UNCHANGED <<fulfillmentVars, escrowVars, road, setting>>

\* _drive_seller_order reaches order-saga, which applies the action or
\* refuses it (409); or it never gets there, or the process dies first.
DriveApplied(k) ==
  /\ Driven(k)
  /\ \/ Transitioned(k.deal, k.action)
     \/ plan_transition(k.action, child[k.deal]) = {} /\ UNCHANGED orderVars
  /\ UNCHANGED <<escrowVars, road, setting>>

DriveLost(k) ==
  /\ Driven(k)
  /\ UNCHANGED <<escrowVars, road, orderVars, setting>>

-----------------------------------------------------------------------------
(* saga-dispatcher, on the escrow command.  Two calls for one command may   *)
(* be open at once: a lease that expired under a slow handler.              *)

EscrowSends(c, d) ==
  /\ command[d].state = "pending"
  /\ book_delivery(c, d, Expected[d]) \/ commission_unavailable(c, d)
  /\ UNCHANGED <<fulfillmentVars, road, orderVars, setting>>

\* Fault: a refusal is taken for an answer.
RefusalSettles(c) ==
  LET d == call[c].tx.deal
  IN  /\ Hangup(c)
      /\ command' = IF call[c].tx.reason # "DELIVERY" THEN command
                    ELSE [command EXCEPT ![d].state = "processed"]
      /\ UNCHANGED <<fulfillmentVars, road, child, effects, setting>>

\* 200 settles the command, 409 and 422 park it, 503 is tried again until
\* the attempts are used up.
EscrowAnswered(c) ==
  LET d == call[c].tx.deal
      stage == call[c].stage
      tries == command[d].attempts + 1
  IN  /\ Hangup(c)
      /\ command' = IF call[c].tx.reason # "DELIVERY" THEN command
                    ELSE [command EXCEPT
                      ![d].state = CASE stage = "ok" -> "processed"
                                     [] stage = "refused" -> "parked"
                                     [] stage = "retry" ->
                                          IF tries >= MaxTries THEN "parked" ELSE @,
                      ![d].attempts = IF stage = "ok" \/ tries > MaxTries THEN @ ELSE tries]
      /\ UNCHANGED <<fulfillmentVars, road, child, effects, setting>>

LedgerCommits(c) ==
  /\ commit(c) \/ commit_raced(c) \/ (setting.failing /\ commit_fails(c))
  /\ UNCHANGED <<fulfillmentVars, road, orderVars, setting>>

\* An operator books the remittance of a matched row, or pays a seller.
OperatorBooks ==
  /\ \/ \E c \in setting.operators, d \in Deals :
          /\ \E r \in rows : r.ref = d /\ r.outcome = "matched"
          /\ \E cents \in Amounts : book_settlement(c, d, cents)
     \/ setting.operators # {} /\ \E s \in EscrowSellers, cents \in Amounts : book_payout(s, cents)
     \/ \E s \in EscrowSellers, rate \in Rates : contract_accepted(s, rate)
  /\ UNCHANGED <<fulfillmentVars, road, orderVars, setting>>

-----------------------------------------------------------------------------
ParcelStep(d) ==
  \/ \E event \in REQUIRED_CANONICAL \cup {"CANCELLED"} : Happens(d, event)
  \/ \E c \in Couriers, word \in Words : Calls_back(d, c, word)
  \/ \E action \in ActionNames : SellerActs(d, action)
  \/ OperatorSettles(d)
  \/ \E c \in Couriers : create_shipment(d, c) /\ UNCHANGED <<escrowVars, road, orderVars, setting>>

FileStep(b) ==
  /\ \/ /\ b \in setting.files
        /\ setting.overlap \/ \A other \in Batches : ingest[other] = NoFile
        /\ IngestBegin(b)
     \/ ingest[b] # NoFile /\ Cardinality(ingest[b]) < Len(Files[b])
          /\ LET d == Files[b][Cardinality(ingest[b]) + 1].ref
             IN  \E answer \in {NoStatus} \cup {child[x] : x \in {d} \cap Deals} :
                   IngestRow(b, answer)
     \/ IngestCommit(b)
     \/ IngestFails(b)
  /\ UNCHANGED <<escrowVars, road, orderVars, setting>>

EscrowStep(c) ==
  \/ c \in setting.workers /\ \E d \in Deals : EscrowSends(c, d)
  \/ EscrowAnswered(c)
  \/ LedgerCommits(c)

DeliveryNext ==
  \/ \E d \in Deals : ParcelStep(d)
  \/ \E b \in Batches : FileStep(b)
  \/ \E k \in driving : DriveApplied(k) \/ DriveLost(k)
  \/ \E c \in Calls : EscrowStep(c)
  \/ OperatorBooks

DeliverySpec == DeliveryInit /\ [][DeliveryNext]_deliveryVars

\* The dispatcher keeps polling and every request it makes is answered.
DeliveryFairSpec ==
  /\ DeliverySpec
  /\ \A c \in Calls : /\ WF_deliveryVars(EscrowAnswered(c))
                      /\ WF_deliveryVars(LedgerCommits(c))
                      /\ \A d \in Deals : WF_deliveryVars(c \in setting.workers /\ EscrowSends(c, d))

-----------------------------------------------------------------------------
(* Every variable keeps its type. *)
DeliveryTypeOK ==
  /\ FulfillmentTypeOK
  /\ EscrowTypeOK
  /\ child \in [Deals -> SellerOrderStatus]
  /\ \A d \in Deals : command[d].state \in {"none", "pending", "processed", "parked"}

(* The records follow the road: a seller order is delivered, on its way     *)
(* back or returned only if that has happened to the parcel, whatever       *)
(* words arrive late, twice or out of order and whatever the seller claims. *)
RecordsFollowTheRoad ==
  \A d \in Deals :
    /\ child[d] \in {"DELIVERED", "SETTLED"} => "DELIVERED" \in road[d]
    /\ child[d] = "RTO_IN_TRANSIT" => "RETURNING" \in road[d]
    /\ child[d] = "RETURNED" => "RETURNED" \in road[d]

(* Stock moves once: over the life of a seller order one inventory command  *)
(* is emitted at most, a consume or a release and never both, through       *)
(* repeated callbacks and a seller who cancels while they arrive.           *)
StockMovesOnce == \A d \in Deals : Len(effects[d]) <= 1

(* The platform owes a seller only for goods a buyer took and paid for.     *)
OwedOnlyForDeliveredGoods ==
  \A d \in Deals : _already_booked(d, "DELIVERY") => "DELIVERED" \in road[d]

(* Cash is matched only against a parcel that reached the buyer, as         *)
(* order-saga or, when it cannot be asked, the courier's last word has it.  *)
MatchedCashWasCollected ==
  \A r \in rows : r.outcome = "matched" => "DELIVERED" \in road[r.ref]

(* What payment-service answers is true as AnswersAreTrue has it, as long   *)
(* as the only commit that raises is the one that lost the race: any other  *)
(* failure is answered "already booked" as well.                            *)
AnswersAreTrueUnlessACommitFails == ~setting.failing => AnswersAreTrue

(* "An unbooked liability is never silently dropped": a delivered seller    *)
(* order is in the end in the ledger, or its command is parked where an     *)
(* operator sees it.                                                        *)
NeverSilentlyDropped ==
  \A d \in Deals :
    child[d] = "DELIVERED" ~> (_already_booked(d, "DELIVERY") \/ command[d].state = "parked")

(* The same where no commit of payment-service fails but by losing a race.  *)
DeliveryIsBookedOrParked ==
  \A d \in Deals :
    (child[d] = "DELIVERED" /\ ~setting.failing)
      ~> (_already_booked(d, "DELIVERY") \/ command[d].state = "parked")

(* What escrow_service promises: a parcel is booked once, every booking      *)
(* balances and leaves the fraction of a cent to the seller, and an answer   *)
(* of 200 means that the booking is there.                                   *)
LedgerIsSound ==
  EscrowTypeOK /\ BookedOnce /\ BooksBalance /\ RoundedForTheSeller /\ AnswersAreTrueUnlessACommitFails

(* Every event of the road that matters can be reported by every courier     *)
(* that was loaded, and none is recorded that has not happened               *)
(* (courier_registry, handle_callback, transition_seller_order).             *)
RoadIsRecorded == DeliveryTypeOK /\ EveryCourierCanReport /\ RecordsFollowTheRoad

(* A seller order moves its stock once, and money is owed for it only once   *)
(* the buyer has the goods (the effects of transition_seller_order).         *)
GoodsAndDebtsAgree == StockMovesOnce /\ OwedOnlyForDeliveredGoods

(* The cash of a parcel is matched once, and only if it was delivered,       *)
(* whatever files the courier sends (ingest_settlement).                     *)
CashIsMatchedOnce == SettledOnce /\ MatchedCashWasCollected
=============================================================================

---------------------------- MODULE DeliveryProofs ----------------------------
(***************************************************************************)
(* The road from the seller's shelf to the escrow ledger: for any orders,   *)
(* couriers, courier mappings, settlement files, contracts and amounts, any *)
(* number of calls to payment-service in flight, and any of the deaths,     *)
(* retries and commit failures a setting allows.                            *)
(***************************************************************************)
EXTENDS Delivery, FiniteSetTheorems, TLAPS

-----------------------------------------------------------------------------
(* The inductive invariant *)

Parcels == [provider : Couriers, status : CourierStatus, unmapped : BOOLEAN]
CommandStates == {"none", "pending", "processed", "parked"}

(* What an action of order-saga says became of the parcel has become of it.  *)
Attests(action, d) ==
  /\ action = "deliver" => "DELIVERED" \in road[d]
  /\ action = "mark_rto" => "RETURNING" \in road[d]
  /\ action = "complete_return" => "RETURNED" \in road[d]

(* fulfillment-service records, and reports, only what happened.             *)
ParcelInv ==
  /\ parcel = [d \in Deals |-> parcel[d]]
  /\ \A d \in Deals : parcel[d] # NoParcel =>
       parcel[d] \in Parcels /\ (parcel[d].status = "DELIVERED" => "DELIVERED" \in road[d])
  /\ \A k \in driving : k.deal \in Deals /\ Attests(k.action, k.deal)

(* The registry maps words to statuses, and every courier has a word for     *)
(* each status that moves money or stock.                                    *)
IndexInv ==
  /\ index \in [Couriers -> [Words -> CourierStatus \cup {NoStatus}]]
  /\ EveryCourierCanReport

Effects == {"none", "consume", "release"}

OnTheWay == {"PENDING", "INVENTORY_RESERVED", "CONFIRMED", "DISPATCHED", "RTO_IN_TRANSIT"}

(* A seller order that is still on its way has moved no stock; its escrow    *)
(* command exists only once the buyer has the goods.                         *)
OrderInv ==
  /\ road \in [Deals -> SUBSET CourierStatus]
  /\ child \in [Deals -> SellerOrderStatus]
  /\ effects \in [Deals -> Seq(Effects)]
  /\ command \in [Deals -> [state : CommandStates, attempts : Nat]]
  /\ RecordsFollowTheRoad
  /\ \A d \in Deals : 
       /\ Len(effects[d]) <= 1
       /\ child[d] \in OnTheWay => effects[d] = <<>>
       /\ command[d].state # "none" => "DELIVERED" \in road[d]

(* A row is MATCHED only for a parcel that was delivered, in a file that is  *)
(* still being read as in one that was committed.                            *)
Collected(r) == r.outcome = "matched" => r.ref \in Deals /\ "DELIVERED" \in road[r.ref]

RowInv ==
  /\ \A r \in rows : r.batch \in Batches /\ Collected(r)
  /\ ingest = [b \in Batches |-> ingest[b]]
  /\ \A b \in Batches : ingest[b] # NoFile => \A r \in ingest[b] : r.batch = b /\ Collected(r)

(* While files are ingested one at a time, the rows of the open file and the *)
(* committed ones together match a parcel once.                              *)
MatchedOnce(S) == \A r, q \in S : r.outcome = "matched" /\ q.outcome = "matched" /\ r.ref = q.ref => r = q

CashInv ==
  ~setting.overlap =>
    /\ MatchedOnce(rows)
    /\ \A b \in Batches : ingest[b] # NoFile =>
         MatchedOnce(rows \cup ingest[b]) /\ \A o \in Batches \ {b} : ingest[o] = NoFile

(* The seller's share is rounded up, and never above what was collected.     *)
Rounded(t) ==
  /\ -t.lines["SELLER_PAYABLE"] * 10000 >= t.lines["COURIER_RECEIVABLE"] * (10000 - t.rate)
  /\ -t.lines["SELLER_PAYABLE"] <= t.lines["COURIER_RECEIVABLE"]

(* An entry set that may be committed: it balances, and a delivery is booked *)
(* for goods that were delivered.                                            *)
Sound(t) ==
  /\ t.reason \in Reasons /\ t.deal \in Deals \cup {NoDeal}
  /\ DOMAIN t.lines \subseteq Accounts /\ Total(t.lines) = 0
  /\ t.reason = "DELIVERY" =>
       /\ t.deal \in Deals /\ "DELIVERED" \in road[t.deal]
       /\ "COURIER_RECEIVABLE" \in DOMAIN t.lines /\ Rounded(t)
  /\ t.reason = "SETTLEMENT" => t.deal \in Deals /\ "CASH" \in DOMAIN t.lines

(* The unique index on (order, reason) leaves one entry set per order and    *)
(* reason; every one of them is sound.                                       *)
LedgerInv ==
  /\ contract \in [EscrowSellers -> Rates \cup {NoRate}]
  /\ \E S : ledger \in Seq(S)
  /\ \A i \in DOMAIN ledger : Sound(ledger[i])
  /\ \A i, j \in DOMAIN ledger :
       /\ ledger[i].reason # "PAYOUT" /\ ledger[i].reason = ledger[j].reason
       /\ ledger[i].deal = ledger[j].deal
       => i = j

(* What a request is about to commit is sound, and a 200 is the truth unless *)
(* commits fail.                                                             *)
CallInv ==
  /\ call = [c \in Calls |-> call[c]]
  /\ \A c \in Calls : call[c] # NoCall =>
       /\ call[c] = [stage |-> call[c].stage, tx |-> call[c].tx]
       /\ call[c].stage \in {"writing", "ok", "refused", "retry"}
       /\ call[c].tx.deal \in Deals /\ call[c].tx.reason \in {"DELIVERY", "SETTLEMENT"}
       /\ call[c].tx.reason = "DELIVERY" => "DELIVERED" \in road[call[c].tx.deal]
       /\ call[c].stage = "writing" => Sound(call[c].tx)
       /\ ~setting.failing /\ call[c].stage = "ok" => _already_booked(call[c].tx.deal, call[c].tx.reason)

Inv == setting \in Settings /\ IndexInv /\ ParcelInv /\ OrderInv /\ RowInv /\ CashInv /\ LedgerInv /\ CallInv

-----------------------------------------------------------------------------
(* The registry *)

(* build_index sends every word to a status of the file, or to none.         *)
LEMMA IndexOfAFile ==
  ASSUME NEW mapping, NEW ix \in build_index(mapping)
  PROVE  ix \in [Words -> CourierStatus \cup {NoStatus}]
<1>1. DOMAIN mapping \subseteq CourierStatus
  BY DEF build_index
<1>2. \A w : Claims(mapping, w) \subseteq DOMAIN mapping
  BY DEF Claims
<1>3. ix = [w \in Words |-> IF Claims(mapping, w) = {} THEN NoStatus
                           ELSE CHOOSE status \in Claims(mapping, w) : TRUE]
  BY DEF build_index
<1>4. ASSUME NEW w \in Words PROVE ix[w] \in CourierStatus \cup {NoStatus}
  BY <1>1, <1>2, <1>3
<1> QED BY <1>3, <1>4

(* load refuses files that leave a courier without a word for a status that  *)
(* moves money or stock.                                                     *)
LEMMA InitIndex == ASSUME DeliveryInit PROVE IndexInv
<1>1. PICK files \in [Couriers -> Mappings] : index \in load(files)
  BY DEF DeliveryInit, FulfillmentInit
<1>2. \A c \in Couriers : validate_mapping(files[c])
  BY <1>1 DEF load
<1>3. index = [c \in Couriers |-> CHOOSE ix \in build_index(files[c]) : TRUE]
  BY <1>1 DEF load
<1>4. ASSUME NEW c \in Couriers
      PROVE  /\ index[c] \in [Words -> CourierStatus \cup {NoStatus}]
             /\ REQUIRED_CANONICAL \subseteq {index[c][w] : w \in Words}
  <2>1. PICK ix \in build_index(files[c]) : REQUIRED_CANONICAL \subseteq {ix[w] : w \in Words}
    BY <1>2 DEF validate_mapping
  <2>2. \A u \in build_index(files[c]) : u = ix
    BY <2>1 DEF build_index
  <2>3. index[c] = ix
    BY <1>3, <2>1, <2>2
  <2> QED BY <2>1, <2>3, IndexOfAFile
<1>5. EveryCourierCanReport
  BY <1>4 DEF EveryCourierCanReport, map_status
<1> QED BY <1>3, <1>4, <1>5 DEF IndexInv

(* The invariant holds before the first order.                               *)
LEMMA InitKeeps == ASSUME DeliveryInit PROVE Inv
<1> USE DEF DeliveryInit
<1>1. ParcelInv
  BY DEF FulfillmentInit, ParcelInv
<1>2. OrderInv
  <2>1. <<>> \in Seq(Effects) /\ Len(<<>>) = 0
    OBVIOUS
  <2>2. /\ road \in [Deals -> SUBSET CourierStatus]
        /\ child \in [Deals -> SellerOrderStatus]
        /\ effects \in [Deals -> Seq(Effects)]
        /\ command \in [Deals -> [state : CommandStates, attempts : Nat]]
    BY <2>1 DEF CommandStates, SellerOrderStatus
  <2> QED BY <2>1, <2>2 DEF OrderInv, RecordsFollowTheRoad
<1>3. RowInv /\ CashInv
  BY DEF FulfillmentInit, RowInv, CashInv, MatchedOnce
<1>4. LedgerInv
  <2>1. ledger = <<>> /\ ledger \in Seq({})
    BY DEF EscrowInit
  <2> QED BY <2>1 DEF EscrowInit, LedgerInv
<1>5. CallInv
  BY DEF EscrowInit, CallInv
<1> QED BY <1>1, <1>2, <1>3, <1>4, <1>5, InitIndex DEF Inv

-----------------------------------------------------------------------------
(* What a step does not touch keeps its part of the invariant. *)
LEMMA Untouched ==
  ASSUME Inv
  PROVE  /\ UNCHANGED index => IndexInv'
         /\ UNCHANGED <<parcel, driving, road>> => ParcelInv'
         /\ UNCHANGED <<road, child, effects, command>> => OrderInv'
         /\ UNCHANGED <<rows, ingest, road>> => RowInv'
         /\ UNCHANGED <<rows, ingest, setting>> => CashInv'
         /\ UNCHANGED <<ledger, contract, road>> => LedgerInv'
         /\ UNCHANGED <<call, ledger, road, setting>> => CallInv'
<1>1. UNCHANGED index => IndexInv'
  BY DEF Inv, IndexInv, EveryCourierCanReport, map_status
<1>2. UNCHANGED <<parcel, driving, road>> => ParcelInv'
  BY DEF Inv, ParcelInv, Attests
<1>3. UNCHANGED <<road, child, effects, command>> => OrderInv'
  BY DEF Inv, OrderInv, RecordsFollowTheRoad
<1>4. UNCHANGED <<rows, ingest, road>> => RowInv'
  BY DEF Inv, RowInv, Collected
<1>5. UNCHANGED <<rows, ingest, setting>> => CashInv'
  BY DEF Inv, CashInv
<1>6. UNCHANGED <<ledger, contract, road>> => LedgerInv'
  BY DEF Inv, LedgerInv, Sound
<1>7. UNCHANGED <<call, ledger, road, setting>> => CallInv'
  BY DEF Inv, CallInv, Sound, _already_booked, Booked
<1> QED BY <1>1, <1>2, <1>3, <1>4, <1>5, <1>6, <1>7

(* What has happened to a parcel stays so: more of the road disturbs        *)
(* nothing that relies on it.                                               *)
LEMMA RoadGrows ==
  ASSUME Inv, NEW d \in Deals, NEW event \in REQUIRED_CANONICAL \cup {"CANCELLED"},
         Happens(d, event)
  PROVE  Inv'
<1> USE DEF Happens, fulfillmentVars, escrowVars, orderVars
<1>1. road' \in [Deals -> SUBSET CourierStatus]
  BY DEF Inv, OrderInv, REQUIRED_CANONICAL, CourierStatus
<1>2. \A x \in Deals : road[x] \subseteq road'[x]
  BY DEF Inv, OrderInv
<1>3. setting' \in Settings /\ IndexInv' /\ CashInv'
  BY Untouched DEF Inv
<1> HIDE DEF Happens
<1>u. UNCHANGED <<parcel, driving, child, effects, command, rows, ingest, ledger, contract, call, setting>>
  BY DEF Happens
<1> HIDE DEF fulfillmentVars, escrowVars, orderVars
<1>4. ParcelInv'
  <2>1. ASSUME NEW x \in Deals, parcel[x] # NoParcel
        PROVE  parcel[x] \in Parcels /\ (parcel[x].status = "DELIVERED" => "DELIVERED" \in road'[x])
    BY <1>2, <2>1 DEF Inv, ParcelInv
  <2>2. ASSUME NEW k \in driving PROVE Attests(k.action, k.deal)'
    <3>1. k.deal \in Deals /\ Attests(k.action, k.deal)
      BY DEF Inv, ParcelInv
    <3> QED BY <1>2, <3>1 DEF Attests
  <2> QED BY <1>u, <2>1, <2>2 DEF Inv, ParcelInv
<1>5. OrderInv'
  BY <1>1, <1>2, <1>u DEF Inv, OrderInv, RecordsFollowTheRoad
<1>6. RowInv'
  <2>1. \A r : Collected(r) => Collected(r)'
    BY <1>2 DEF Collected
  <2> QED BY <1>u, <2>1 DEF Inv, RowInv
<1>7. \A t : Sound(t) => Sound(t)'
  BY <1>2 DEF Sound
<1>8. LedgerInv'
  BY <1>u, <1>7 DEF Inv, LedgerInv
<1>9. CallInv'
  BY <1>u, <1>2, <1>7 DEF Inv, CallInv, _already_booked, Booked
<1> QED BY <1>3, <1>4, <1>5, <1>6, <1>8, <1>9 DEF Inv

-----------------------------------------------------------------------------
(* order-saga *)

(* What the rows of COD_ACTIONS have in common: where each leads, and that   *)
(* only the rows that end the seller order's way move stock.                *)
LEMMA ActionRows ==
  ASSUME NEW t \in COD_ACTIONS
  PROVE  /\ t.to \in SellerOrderStatus /\ t.effect \in Effects
         /\ t.to \in {"DELIVERED", "SETTLED"} => t.action = "deliver" \/ t.from = "DELIVERED"
         /\ t.to = "RTO_IN_TRANSIT" => t.action = "mark_rto"
         /\ t.to = "RETURNED" => t.action = "complete_return"
         /\ t.effect # "none" => t.from \in OnTheWay /\ t.to \notin OnTheWay
         /\ t.effect = "none" /\ t.to \in OnTheWay => t.from \in OnTheWay
<1> USE DEF COD_ACTIONS, Transition
<1>1. t.to \in SellerOrderStatus /\ t.effect \in Effects
  BY DEF SellerOrderStatus, Effects
<1>2. /\ t.to \in {"DELIVERED", "SETTLED"} => t.action = "deliver" \/ t.from = "DELIVERED"
      /\ t.to = "RTO_IN_TRANSIT" => t.action = "mark_rto"
      /\ t.to = "RETURNED" => t.action = "complete_return"
  OBVIOUS
<1>3. /\ t.effect # "none" => t.from \in OnTheWay /\ t.to \notin OnTheWay
      /\ t.effect = "none" /\ t.to \in OnTheWay => t.from \in OnTheWay
  BY DEF OnTheWay
<1> QED BY <1>1, <1>2, <1>3

(* transition_seller_order keeps the records true to the road, moves stock  *)
(* at most once and asks for money only when the buyer has the goods, as    *)
(* long as whoever asks for the action has seen what it attests.            *)
LEMMA TransitionKeeps ==
  ASSUME Inv, NEW d \in Deals, NEW action, Transitioned(d, action), Attests(action, d),
         UNCHANGED road
  PROVE  OrderInv'
<1>1. PICK t \in plan_transition(action, child[d]) :
        /\ child' = [child EXCEPT ![d] = t.to]
        /\ effects' = IF t.effect = "none" THEN effects
                      ELSE [effects EXCEPT ![d] = Append(@, t.effect)]
        /\ command' = IF action = "deliver" THEN [command EXCEPT ![d].state = "pending"]
                      ELSE command
  BY DEF Transitioned
<1>2. t \in COD_ACTIONS /\ t.action = action /\ t.from = child[d]
  BY DEF plan_transition
<1>3. /\ t.to \in SellerOrderStatus /\ t.effect \in Effects
      /\ t.to \in {"DELIVERED", "SETTLED"} => action = "deliver" \/ child[d] = "DELIVERED"
      /\ t.to = "RTO_IN_TRANSIT" => action = "mark_rto"
      /\ t.to = "RETURNED" => action = "complete_return"
      /\ t.effect # "none" =>
           /\ child[d] \in OnTheWay
           /\ t.to \notin OnTheWay
      /\ t.effect = "none" /\ t.to \in OnTheWay => child[d] \in OnTheWay
  BY <1>2, ActionRows
<1>o. OrderInv
  BY DEF Inv
<1> HIDE DEF Inv
<1>4. child' \in [Deals -> SellerOrderStatus]
  BY <1>1, <1>3, <1>o DEF OrderInv
<1>5. effects[d] \in Seq(Effects)
  BY <1>o DEF OrderInv
<1>6. Append(effects[d], t.effect) \in Seq(Effects)
  BY <1>3, <1>5
<1>7. effects' \in [Deals -> Seq(Effects)]
  BY <1>1, <1>6, <1>o DEF OrderInv
<1>8. command' \in [Deals -> [state : CommandStates, attempts : Nat]]
  BY <1>1, <1>o DEF OrderInv, CommandStates
<1>9. RecordsFollowTheRoad'
  BY <1>1, <1>3, <1>o DEF OrderInv, RecordsFollowTheRoad, Attests
<1>10. ASSUME NEW x \in Deals
       PROVE  /\ Len(effects'[x]) <= 1
              /\ child'[x] \in OnTheWay => effects'[x] = <<>>
              /\ command'[x].state # "none" => "DELIVERED" \in road'[x]
  <2>1. command'[x].state # "none" => "DELIVERED" \in road'[x]
    BY <1>1, <1>o DEF OrderInv, Attests
  <2>2. CASE x # d
    BY <1>1, <1>o, <2>1, <2>2 DEF OrderInv
  <2>3. CASE x = d /\ t.effect = "none"
    BY <1>1, <1>3, <1>o, <2>1, <2>3 DEF OrderInv
  <2>4. CASE x = d /\ t.effect # "none"
    <3>1. effects[d] = <<>>
      BY <1>3, <1>o, <2>4 DEF OrderInv
    <3>2. effects'[d] = Append(<<>>, t.effect) /\ child'[d] = t.to
      BY <1>1, <1>o, <2>4, <3>1 DEF OrderInv
    <3>3. Len(effects'[d]) = 1
      BY <1>3, <3>2
    <3> QED BY <1>3, <2>1, <2>4, <3>2, <3>3
  <2> QED BY <2>2, <2>3, <2>4
<1> QED BY <1>4, <1>7, <1>8, <1>9, <1>10, <1>o DEF OrderInv

(* bff-seller lets a seller do nothing that attests to what became of the   *)
(* parcel.                                                                  *)
LEMMA SellerActsKeeps ==
  ASSUME Inv, NEW d \in Deals, NEW action, SellerActs(d, action)
  PROVE  Inv'
<1>1. Attests(action, d)
  BY DEF SellerActs, SELLER_ACTIONS, Attests
<1>2. OrderInv'
  BY <1>1, TransitionKeeps DEF SellerActs
<1> QED BY <1>2, Untouched DEF Inv, SellerActs, fulfillmentVars, escrowVars

(* An operator settles only what was delivered.                             *)
LEMMA OperatorSettlesKeeps ==
  ASSUME Inv, NEW d \in Deals, OperatorSettles(d)
  PROVE  Inv'
<1>1. Attests("settle", d)
  BY DEF Attests
<1>2. OrderInv'
  BY <1>1, TransitionKeeps DEF OperatorSettles
<1> QED BY <1>2, Untouched DEF Inv, OperatorSettles, fulfillmentVars, escrowVars

(* A call to order-saga ends, applied, refused or lost.                     *)
LEMMA DriveKeeps ==
  ASSUME Inv, NEW k \in driving, DriveApplied(k) \/ DriveLost(k)
  PROVE  Inv'
<1>1. k.deal \in Deals /\ Attests(k.action, k.deal)
  BY DEF Inv, ParcelInv
<1>2. /\ driving' \subseteq driving
      /\ UNCHANGED <<index, parcel, rows, ingest, escrowVars, road, setting>>
  BY DEF DriveApplied, DriveLost, Driven
<1>3. ParcelInv'
  BY <1>2 DEF Inv, ParcelInv, Attests
<1>4. OrderInv'
  <2>1. CASE Transitioned(k.deal, k.action)
    BY <1>1, <1>2, <2>1, TransitionKeeps
  <2>2. CASE UNCHANGED orderVars
    BY <1>2, <2>2, Untouched DEF orderVars
  <2> QED BY <2>1, <2>2 DEF DriveApplied, DriveLost
<1> QED BY <1>2, <1>3, <1>4, Untouched DEF Inv, escrowVars

-----------------------------------------------------------------------------
(* fulfillment-service *)

(* create_shipment leaves a parcel that waits for its pickup.                *)
LEMMA CreateKeeps ==
  ASSUME Inv, NEW d \in Deals, NEW c \in Couriers, create_shipment(d, c),
         UNCHANGED <<escrowVars, road, orderVars, setting>>
  PROVE  Inv'
<1>1. ParcelInv'
  <2>1. parcel' = [x \in Deals |-> IF x = d THEN [provider |-> c, status |-> "PICKUP_PENDING", unmapped |-> FALSE]
                                   ELSE parcel[x]]
    BY DEF Inv, ParcelInv, create_shipment
  <2>2. parcel'[d] \in Parcels /\ parcel'[d].status # "DELIVERED"
    BY <2>1 DEF Parcels, CourierStatus
  <2>3. UNCHANGED <<driving, road>>
    BY DEF create_shipment
  <2> QED BY <2>1, <2>2, <2>3 DEF Inv, ParcelInv, Attests
<1> QED BY <1>1, Untouched DEF Inv, create_shipment, escrowVars, orderVars

(* A courier's word is recorded, and passed on, only if it is true.         *)
LEMMA CallbackKeeps ==
  ASSUME Inv, NEW d \in Deals, NEW c \in Couriers, NEW word \in Words, Calls_back(d, c, word)
  PROVE  Inv'
<1> DEFINE canonical == index[c][word]
<1>1. canonical \in road[d] \/ canonical = NoStatus
  BY DEF Calls_back
<1>2. road[d] \subseteq CourierStatus
  BY DEF Inv, OrderInv
<1>3. /\ parcel[d] # NoParcel
      /\ parcel' = [parcel EXCEPT ![d].unmapped = (canonical = NoStatus),
                                  ![d].status = IF canonical = NoStatus THEN @ ELSE canonical]
      /\ driving' \subseteq driving \cup {[deal |-> d, action |-> action_for(canonical)]}
      /\ UNCHANGED <<index, rows, ingest, escrowVars, road, orderVars, setting>>
  BY DEF Calls_back, handle_callback, map_status
<1> HIDE DEF canonical
<1>4. Attests(action_for(canonical), d)
  BY <1>1, <1>2, FulfillmentConstants DEF action_for, Attests, CourierStatus
<1>5. ParcelInv'
  <2>1. parcel[d] \in Parcels /\ (parcel[d].status = "DELIVERED" => "DELIVERED" \in road[d])
    BY <1>3 DEF Inv, ParcelInv
  <2>2. parcel'[d] = [provider |-> parcel[d].provider, unmapped |-> (canonical = NoStatus),
                      status |-> IF canonical = NoStatus THEN parcel[d].status ELSE canonical]
    BY <1>3, <2>1 DEF Inv, ParcelInv, Parcels
  <2>3. parcel'[d] \in Parcels
    BY <1>1, <1>2, <2>1, <2>2 DEF Parcels
  <2>4. parcel'[d].status = "DELIVERED" => "DELIVERED" \in road[d]
    BY <1>1, <2>1, <2>2
  <2>5. \A x \in Deals \ {d} : parcel'[x] = parcel[x]
    BY <1>3 DEF Inv, ParcelInv
  <2>6. parcel' = [x \in Deals |-> parcel'[x]]
    BY <1>3 DEF Inv, ParcelInv
  <2>7. \A k \in driving' : k.deal \in Deals /\ Attests(k.action, k.deal)
    BY <1>3, <1>4 DEF Inv, ParcelInv
  <2>8. \A k \in driving' : Attests(k.action, k.deal)'
    BY <1>3, <2>7 DEF Attests
  <2> QED BY <1>3, <2>3, <2>4, <2>5, <2>6, <2>7, <2>8 DEF Inv, ParcelInv
<1> QED BY <1>3, <1>5, Untouched DEF Inv, escrowVars, orderVars

(* A row is MATCHED only if its parcel was shipped, reached the buyer and    *)
(* has no MATCHED row yet.                                                  *)
LEMMA IngestRowKeeps ==
  ASSUME Inv, NEW b \in Batches, NEW answer, IngestRow(b, answer),
         \A d \in Deals : d = Files[b][Cardinality(ingest[b]) + 1].ref => answer \in {NoStatus, child[d]},
         UNCHANGED <<road, setting>>
  PROVE  RowInv' /\ CashInv'
<1> DEFINE i == Cardinality(ingest[b]) + 1
           d == Files[b][i].ref
           shipped == d \in Deals /\ parcel[d] # NoParcel
           known == IF ~shipped THEN [cents |-> -1, status |-> NoStatus]
                    ELSE [cents |-> Expected[d],
                          status |-> IF answer = NoStatus THEN parcel[d].status ELSE answer]
           settled == \E r \in rows \cup ingest[b] : r.ref = d /\ r.outcome = "matched"
           outcome == reconcile_row(Files[b][i].cents, known, settled)
<1>1. /\ ingest[b] # NoFile
      /\ ingest' = [ingest EXCEPT ![b] = @ \cup {Row(b, i, outcome)}]
      /\ UNCHANGED rows
  BY DEF IngestRow
<1>2. PICK new : new = Row(b, i, outcome)
  OBVIOUS
<1>3. new.batch = b /\ new.ref = d /\ new.outcome = outcome
  BY <1>2 DEF Row
<1>4. new.outcome = "matched" => ~settled /\ d \in Deals /\ "DELIVERED" \in road[d]
  <2> SUFFICES ASSUME outcome = "matched" PROVE ~settled /\ d \in Deals /\ "DELIVERED" \in road[d]
    BY <1>3
  <2>1. ~settled /\ known.status = "DELIVERED" /\ ~(known.cents < 0)
    <3> HIDE DEF known, settled, i, d
    <3> QED BY DEF reconcile_row
  <2>2. shipped
    BY <2>1
  <2>3. IF answer = NoStatus THEN parcel[d].status = "DELIVERED" ELSE answer = "DELIVERED"
    BY <2>1, <2>2
  <2>4. "DELIVERED" \in road[d]
    <3>1. CASE answer = NoStatus
      BY <2>2, <2>3, <3>1 DEF Inv, ParcelInv
    <3>2. CASE answer # NoStatus
      BY <2>2, <2>3, <3>2 DEF Inv, OrderInv, RecordsFollowTheRoad
    <3> QED BY <3>1, <3>2
  <2> QED BY <2>1, <2>2, <2>4
<1>5. /\ \A o \in Batches \ {b} : ingest'[o] = ingest[o]
      /\ ingest'[b] = ingest[b] \cup {new}
      /\ ingest' = [o \in Batches |-> ingest'[o]]
  BY <1>1, <1>2 DEF Inv, RowInv
<1>6. \A r \in rows \cup ingest[b] : new.outcome = "matched" /\ r.outcome = "matched" => r.ref # new.ref
  BY <1>3, <1>4
<1>7. Collected(new)
  BY <1>3, <1>4 DEF Collected
<1> HIDE DEF i, d, shipped, known, settled, outcome
<1>8. RowInv'
  <2>1. \A r : Collected(r)' <=> Collected(r)
    BY DEF Collected
  <2>2. ASSUME NEW o \in Batches, ingest'[o] # NoFile, NEW r \in ingest'[o]
        PROVE  r.batch = o /\ Collected(r)
    BY <1>1, <1>3, <1>5, <1>7, <2>2 DEF Inv, RowInv
  <2> QED BY <1>1, <1>5, <2>1, <2>2 DEF Inv, RowInv
<1>9. CashInv'
  <2> SUFFICES ASSUME ~setting.overlap
               PROVE  /\ MatchedOnce(rows)
                      /\ \A o \in Batches : ingest'[o] # NoFile =>
                           /\ MatchedOnce(rows \cup ingest'[o])
                           /\ \A x \in Batches \ {o} : ingest'[x] = NoFile
    BY <1>1 DEF CashInv, MatchedOnce
  <2>1. /\ MatchedOnce(rows) /\ MatchedOnce(rows \cup ingest[b])
        /\ \A x \in Batches \ {b} : ingest[x] = NoFile
    BY <1>1 DEF Inv, CashInv
  <2>2. MatchedOnce(rows \cup ingest'[b])
    BY <1>5, <1>6, <2>1 DEF MatchedOnce
  <2> QED BY <1>5, <2>1, <2>2
<1> QED BY <1>8, <1>9

(* Committing a file keeps its rows or none of them.                        *)
LEMMA IngestCommitKeeps ==
  ASSUME Inv, NEW b \in Batches, IngestCommit(b), UNCHANGED <<road, setting>>
  PROVE  RowInv' /\ CashInv'
<1>1. /\ ingest[b] # NoFile
      /\ rows' = rows \/ rows' = rows \cup ingest[b]
      /\ ingest' = [o \in Batches |-> IF o = b THEN NoFile ELSE ingest[o]]
  BY DEF IngestCommit, Inv, RowInv
<1>2. \A r : Collected(r)' <=> Collected(r)
  BY DEF Collected
<1>3. RowInv'
  BY <1>1, <1>2 DEF Inv, RowInv
<1>4. CashInv'
  <2> SUFFICES ASSUME ~setting.overlap
               PROVE  MatchedOnce(rows') /\ \A o \in Batches : ingest'[o] = NoFile
    BY DEF CashInv, MatchedOnce
  <2>1. /\ MatchedOnce(rows) /\ MatchedOnce(rows \cup ingest[b])
        /\ \A x \in Batches \ {b} : ingest[x] = NoFile
    BY <1>1 DEF Inv, CashInv
  <2> QED BY <1>1, <2>1
<1> QED BY <1>3, <1>4

(* One step of a settlement file: opened, read, committed or rolled back.    *)
LEMMA FileKeeps ==
  ASSUME Inv, NEW b \in Batches, FileStep(b)
  PROVE  Inv'
<1>1. UNCHANGED <<index, parcel, driving, escrowVars, road, orderVars, setting>>
  BY DEF FileStep, IngestBegin, IngestRow, IngestCommit, IngestFails
<1>2. RowInv' /\ CashInv'
  <2>1. CASE /\ setting.overlap \/ \A other \in Batches : ingest[other] = NoFile
             /\ IngestBegin(b)
    <3>1. /\ UNCHANGED rows
          /\ ingest' = [o \in Batches |-> IF o = b THEN {} ELSE ingest[o]]
      BY <2>1 DEF IngestBegin, Inv, RowInv
    <3>2. RowInv'
      BY <1>1, <3>1 DEF Inv, RowInv, Collected
    <3>3. CashInv'
      <4>1. ASSUME ~setting.overlap
            PROVE  /\ MatchedOnce(rows)
                   /\ \A o \in Batches : ingest'[o] # NoFile =>
                        /\ MatchedOnce(rows \cup ingest'[o])
                        /\ \A x \in Batches \ {o} : ingest'[x] = NoFile
        <5>1. rows \cup {} = rows
          OBVIOUS
        <5> QED BY <2>1, <3>1, <4>1, <5>1 DEF Inv, CashInv
      <4> QED BY <1>1, <3>1, <4>1 DEF CashInv, MatchedOnce
    <3> QED BY <3>2, <3>3
  <2>2. ASSUME NEW answer \in {NoStatus} \cup
                 {child[x] : x \in {Files[b][Cardinality(ingest[b]) + 1].ref} \cap Deals},
               IngestRow(b, answer)
        PROVE  RowInv' /\ CashInv'
    BY <1>1, <2>2, IngestRowKeeps
  <2>3. CASE IngestCommit(b)
    BY <1>1, <2>3, IngestCommitKeeps
  <2>4. CASE IngestFails(b)
    <3>1. /\ UNCHANGED rows
          /\ ingest' = [o \in Batches |-> IF o = b THEN NoFile ELSE ingest[o]]
      BY <2>4 DEF IngestFails, Inv, RowInv
    <3> QED BY <1>1, <3>1 DEF Inv, RowInv, Collected, CashInv, MatchedOnce
  <2> QED BY <2>1, <2>2, <2>3, <2>4 DEF FileStep
<1> QED BY <1>1, <1>2, Untouched DEF Inv, escrowVars, orderVars

-----------------------------------------------------------------------------
(* payment-service, the ledger *)

(* split_commission rounds down: the fraction goes to the seller.           *)
LEMMA SplitRounds ==
  ASSUME NEW collected \in Int, NEW rate \in Int, collected > 0, 0 <= rate, rate <= 10000,
         NEW split, split = split_commission(collected, rate)
  PROVE  /\ split.commission \in Int /\ split.seller_share = collected - split.commission
         /\ split.seller_share * 10000 >= collected * (10000 - rate)
         /\ split.seller_share <= collected
<1> DEFINE product == collected * rate
           commission == product \div 10000
<1>1. product \in Int /\ product >= 0
  OBVIOUS
<1>2. collected * (10000 - rate) = collected * 10000 - product
  OBVIOUS
<1>3. split = [commission |-> commission, seller_share |-> collected - commission]
  BY DEF split_commission
<1> HIDE DEF product
<1>4. commission \in Int /\ commission >= 0 /\ commission * 10000 <= product
  BY <1>1
<1> HIDE DEF commission
<1>5. (collected - commission) * 10000 >= collected * 10000 - product
  BY <1>1, <1>4
<1> QED BY <1>2, <1>3, <1>4, <1>5

(* The lines of a delivery balance, name the courier's debt and leave the    *)
(* fraction to the seller.                                                  *)
LEMMA PlanOfDelivery ==
  ASSUME NEW collected \in Int, NEW rate \in Int, NEW lines \in plan_delivery(collected, rate)
  PROVE  /\ DOMAIN lines \subseteq Accounts /\ "COURIER_RECEIVABLE" \in DOMAIN lines
         /\ Total(lines) = 0
         /\ -lines["SELLER_PAYABLE"] * 10000 >= lines["COURIER_RECEIVABLE"] * (10000 - rate)
         /\ -lines["SELLER_PAYABLE"] <= lines["COURIER_RECEIVABLE"]
<1> DEFINE split == split_commission(collected, rate)
           owed == [a \in {"COURIER_RECEIVABLE", "SELLER_PAYABLE"} |->
                      IF a = "SELLER_PAYABLE" THEN -split.seller_share ELSE collected]
           earned == [a \in {"COMMISSION_REVENUE"} |-> -split.commission]
           planned == IF split.commission = 0 THEN owed
                      ELSE [a \in DOMAIN owed \cup DOMAIN earned |->
                              IF a \in DOMAIN owed THEN owed[a] ELSE earned[a]]
<1>1. plan_delivery(collected, rate) = {x \in {planned} : collected > 0 /\ 0 <= rate /\ rate <= 10000}
  BY DEF plan_delivery
<1>2. collected > 0 /\ 0 <= rate /\ rate <= 10000 /\ lines = planned
  <2> HIDE DEF planned
  <2> QED BY <1>1
<1>3. /\ split.commission \in Int /\ split.seller_share = collected - split.commission
      /\ split.seller_share * 10000 >= collected * (10000 - rate)
      /\ split.seller_share <= collected
  BY <1>2, SplitRounds
<1> HIDE DEF split
<1>4. CASE split.commission = 0
  <2>1. lines = owed
    BY <1>2, <1>4
  <2>2. /\ DOMAIN lines = {"COURIER_RECEIVABLE", "SELLER_PAYABLE"}
        /\ lines["COURIER_RECEIVABLE"] = collected /\ lines["SELLER_PAYABLE"] = -split.seller_share
    BY <2>1
  <2>3. Total(lines) = 0
    BY <1>3, <1>4, <2>2 DEF Total, Amount
  <2> QED BY <1>3, <2>2, <2>3 DEF Accounts
<1>5. CASE split.commission # 0
  <2>1. /\ DOMAIN lines = {"COURIER_RECEIVABLE", "SELLER_PAYABLE", "COMMISSION_REVENUE"}
        /\ lines["COURIER_RECEIVABLE"] = collected /\ lines["SELLER_PAYABLE"] = -split.seller_share
        /\ lines["COMMISSION_REVENUE"] = -split.commission
    BY <1>2, <1>5
  <2>2. Total(lines) = 0
    BY <1>3, <1>5, <2>1 DEF Total, Amount
  <2> QED BY <1>3, <2>1, <2>2 DEF Accounts
<1> QED BY <1>4, <1>5

(* The lines of a remittance and of a payout balance too.                   *)
LEMMA PlanOfSettlement ==
  ASSUME NEW remitted \in Int, NEW lines \in plan_settlement(remitted)
  PROVE  DOMAIN lines \subseteq Accounts /\ "CASH" \in DOMAIN lines /\ Total(lines) = 0
BY DEF plan_settlement, Accounts, Total, Amount

(* What a payout takes from the seller's balance leaves the cash account.    *)
LEMMA PlanOfPayout ==
  ASSUME NEW amount \in Int, NEW lines \in plan_payout(amount)
  PROVE  DOMAIN lines \subseteq Accounts /\ Total(lines) = 0
BY DEF plan_payout, Accounts, Total, Amount

(* A caller opens a request: what it asks for is known, and what it may     *)
(* commit is sound.                                                         *)
LEMMA OpenedKeeps ==
  ASSUME Inv, NEW c, NEW stage \in {"writing", "ok", "refused", "retry"}, NEW t,
         Opened(c, stage, t), UNCHANGED <<ledger, contract, road, setting>>,
         t.deal \in Deals, t.reason \in {"DELIVERY", "SETTLEMENT"},
         t.reason = "DELIVERY" => "DELIVERED" \in road[t.deal],
         stage = "writing" => Sound(t),
         stage = "ok" => _already_booked(t.deal, t.reason)
  PROVE  LedgerInv' /\ CallInv'
<1>1. LedgerInv'
  BY Untouched
<1>2. call' = [x \in Calls |-> IF x = c THEN [stage |-> stage, tx |-> t] ELSE call[x]]
  BY DEF Opened, Inv, CallInv
<1>3. /\ \A x : Sound(x)' <=> Sound(x)
      /\ \A d, reason : _already_booked(d, reason)' <=> _already_booked(d, reason)
  BY DEF Sound, _already_booked, Booked
<1>4. CallInv'
  <2>1. ASSUME NEW x \in Calls, call'[x] # NoCall
        PROVE  /\ call'[x] = [stage |-> call'[x].stage, tx |-> call'[x].tx]
               /\ call'[x].stage \in {"writing", "ok", "refused", "retry"}
               /\ call'[x].tx.deal \in Deals /\ call'[x].tx.reason \in {"DELIVERY", "SETTLEMENT"}
               /\ call'[x].tx.reason = "DELIVERY" => "DELIVERED" \in road[call'[x].tx.deal]
               /\ call'[x].stage = "writing" => Sound(call'[x].tx)
               /\ ~setting.failing /\ call'[x].stage = "ok" => _already_booked(call'[x].tx.deal, call'[x].tx.reason)
    <3>1. CASE x = c
      BY <1>2, <3>1
    <3>2. CASE x # c
      BY <1>2, <2>1, <3>2 DEF Inv, CallInv
    <3> QED BY <3>1, <3>2
  <2> QED BY <1>2, <1>3, <2>1 DEF CallInv
<1> QED BY <1>1, <1>4

(* The dispatcher carries the command of a delivered order.                 *)
LEMMA EscrowSendsKeeps ==
  ASSUME Inv, NEW c \in Calls, NEW d \in Deals, EscrowSends(c, d)
  PROVE  Inv'
<1>1. "DELIVERED" \in road[d]
  BY DEF EscrowSends, Inv, OrderInv
<1>2. UNCHANGED <<fulfillmentVars, road, orderVars, setting, ledger, contract>>
  BY DEF EscrowSends, book_delivery, commission_unavailable
<1>3. PICK asked : asked = Asked("DELIVERY", d)
  OBVIOUS
<1>4. asked.deal = d /\ asked.reason = "DELIVERY"
  BY <1>3 DEF Asked, Transaction
<1>5. Expected[d] \in Int
  BY EscrowConstants
<1>6. LedgerInv' /\ CallInv'
  <2>1. CASE \E stage \in {"refused", "retry"} : Opened(c, stage, asked)
    BY <1>1, <1>2, <1>4, <2>1, OpenedKeeps
  <2>2. CASE _already_booked(d, "DELIVERY") /\ Opened(c, "ok", asked)
    BY <1>1, <1>2, <1>4, <2>2, OpenedKeeps
  <2>3. ASSUME NEW rate \in Int, NEW lines \in plan_delivery(Expected[d], rate), NEW s,
               Opened(c, "writing", Transaction("DELIVERY", d, s, rate, lines))
        PROVE  LedgerInv' /\ CallInv'
    <3>1. PICK t : t = Transaction("DELIVERY", d, s, rate, lines)
      OBVIOUS
    <3>2. t.deal = d /\ t.reason = "DELIVERY" /\ t.lines = lines /\ t.rate = rate
      BY <3>1 DEF Transaction
    <3>3. Sound(t)
      BY <1>1, <1>5, <3>2, PlanOfDelivery DEF Sound, Rounded, Reasons
    <3> QED BY <1>1, <1>2, <2>3, <3>1, <3>2, <3>3, OpenedKeeps
  <2>4. CASE book_delivery(c, d, Expected[d])
    <3> DEFINE s == SellerOf[d]
               plans == IF contract[s] = NoRate THEN {} ELSE plan_delivery(Expected[d], contract[s])
    <3>1. \/ _already_booked(d, "DELIVERY") /\ Opened(c, "ok", asked)
          \/ \E lines \in plans : Opened(c, "writing", Transaction("DELIVERY", d, s, contract[s], lines))
          \/ Opened(c, "refused", asked)
      BY <1>3, <2>4 DEF book_delivery
    <3>2. ASSUME NEW lines \in plans PROVE contract[s] \in Int /\ lines \in plan_delivery(Expected[d], contract[s])
      BY EscrowConstants DEF EscrowSellers, Inv, LedgerInv
    <3> HIDE DEF plans, s
    <3> QED BY <2>1, <2>2, <2>3, <3>1, <3>2
  <2>5. CASE commission_unavailable(c, d)
    BY <1>3, <2>1, <2>5 DEF commission_unavailable
  <2> QED BY <2>4, <2>5 DEF EscrowSends
<1> QED BY <1>2, <1>6, Untouched DEF Inv, fulfillmentVars, orderVars

(* A request that is over leaves the others as they are.                    *)
LEMMA HangupKeeps ==
  ASSUME Inv, NEW c \in Calls, Hangup(c), UNCHANGED <<road, setting>>
  PROVE  LedgerInv' /\ CallInv'
<1>1. UNCHANGED <<ledger, contract>> /\ call' = [x \in Calls |-> IF x = c THEN NoCall ELSE call[x]]
  BY DEF Hangup, Inv, CallInv
<1>2. LedgerInv'
  BY <1>1, Untouched
<1>3. /\ \A x : Sound(x)' <=> Sound(x)
      /\ \A d, reason : _already_booked(d, reason)' <=> _already_booked(d, reason)
  BY <1>1 DEF Sound, _already_booked, Booked
<1>4. CallInv'
  BY <1>1, <1>3 DEF Inv, CallInv
<1> QED BY <1>2, <1>4

(* The answer settles, parks or keeps the command it belongs to.            *)
LEMMA EscrowAnsweredKeeps ==
  ASSUME Inv, NEW c \in Calls, EscrowAnswered(c)
  PROVE  Inv'
<1>1. /\ Hangup(c) /\ call[c] # NoCall /\ call[c].stage # "writing"
      /\ UNCHANGED <<fulfillmentVars, road, child, effects, setting>>
  BY DEF EscrowAnswered, Hangup
<1>2. LedgerInv' /\ CallInv'
  BY <1>1, HangupKeeps
<1>3. PICK d, stage : d = call[c].tx.deal /\ stage = call[c].stage
  OBVIOUS
<1>4. d \in Deals /\ stage \in {"ok", "refused", "retry"}
  BY <1>1, <1>3 DEF Inv, CallInv
<1>5. OrderInv'
  <2>1. CASE call[c].tx.reason # "DELIVERY"
    <3>1. UNCHANGED command
      BY <2>1 DEF EscrowAnswered
    <3> QED BY <1>1, <3>1, Untouched
  <2>2. CASE call[c].tx.reason = "DELIVERY"
    <3>1. "DELIVERED" \in road[d]
      BY <1>1, <1>3, <2>2 DEF Inv, CallInv
    <3>2. command[d] \in [state : CommandStates, attempts : Nat]
      BY <1>4 DEF Inv, OrderInv
    <3> DEFINE tries == command[d].attempts + 1
    <3>3. command' = [command EXCEPT
                      ![d].state = CASE stage = "ok" -> "processed"
                                     [] stage = "refused" -> "parked"
                                     [] stage = "retry" ->
                                          IF tries >= MaxTries THEN "parked" ELSE @,
                      ![d].attempts = IF stage = "ok" \/ tries > MaxTries THEN @ ELSE tries]
      BY <1>3, <2>2 DEF EscrowAnswered
    <3>4. tries \in Nat
      BY <3>2
    <3> HIDE DEF tries
    <3> DEFINE st == CASE stage = "ok" -> "processed"
                       [] stage = "refused" -> "parked"
                       [] stage = "retry" -> IF tries >= MaxTries THEN "parked" ELSE command[d].state
               at == IF stage = "ok" \/ tries > MaxTries THEN command[d].attempts ELSE tries
    <3>5. st \in CommandStates /\ at \in Nat
      BY <1>4, <3>2, <3>4 DEF CommandStates
    <3>6. command' = [command EXCEPT ![d].state = st, ![d].attempts = at]
      BY <1>4, <3>3 DEF Inv, OrderInv
    <3> HIDE DEF st, at
    <3>7. /\ \A x \in Deals \ {d} : command'[x] = command[x]
          /\ command' \in [Deals -> [state : CommandStates, attempts : Nat]]
      BY <1>4, <3>2, <3>5, <3>6 DEF Inv, OrderInv
    <3> QED BY <1>1, <3>1, <3>7 DEF Inv, OrderInv, RecordsFollowTheRoad
  <2> QED BY <2>1, <2>2
<1> QED BY <1>1, <1>2, <1>5, Untouched DEF Inv, fulfillmentVars

(* A sound transaction that collides with none joins the ledger.            *)
LEMMA AppendKeeps ==
  ASSUME Inv, NEW t, Sound(t), ledger' = Append(ledger, t), UNCHANGED <<road, contract>>,
         t.reason # "PAYOUT" => Booked(t.deal, t.reason) = {}
  PROVE  /\ LedgerInv'
         /\ \A d, reason : _already_booked(d, reason) => _already_booked(d, reason)'
         /\ _already_booked(t.deal, t.reason)'
<1>1. PICK S : ledger \in Seq(S)
  BY DEF Inv, LedgerInv
<1>2. /\ ledger' \in Seq(S \cup {t}) /\ DOMAIN ledger = 1 .. Len(ledger) /\ Len(ledger) \in Nat
      /\ DOMAIN ledger' = 1 .. Len(ledger) + 1
      /\ \A i \in DOMAIN ledger : ledger'[i] = ledger[i]
      /\ ledger'[Len(ledger) + 1] = t
  BY <1>1
<1>3. \A i \in DOMAIN ledger' : i \in DOMAIN ledger \/ (ledger'[i] = t /\ i = Len(ledger) + 1)
  <2>1. \A n \in Nat : \A i \in 1 .. n + 1 : i \in 1 .. n \/ i = n + 1
    OBVIOUS
  <2>2. ASSUME NEW i \in DOMAIN ledger' PROVE i \in DOMAIN ledger \/ (ledger'[i] = t /\ i = Len(ledger) + 1)
    <3>1. i \in 1 .. Len(ledger) + 1
      BY <1>2
    <3>2. i \in 1 .. Len(ledger) \/ i = Len(ledger) + 1
      BY <1>2, <2>1, <3>1
    <3>3. i = Len(ledger) + 1 => ledger'[i] = t
      BY <1>2, Zenon
    <3>4. i \in 1 .. Len(ledger) => i \in DOMAIN ledger
      BY <1>2, Zenon
    <3> QED BY <3>2, <3>3, <3>4
  <2> QED BY <2>2
<1>4. \A x : Sound(x) <=> Sound(x)'
  BY DEF Sound
<1>5. \A i \in DOMAIN ledger' : Sound(ledger[i])'
  BY <1>2, <1>3, <1>4 DEF Inv, LedgerInv
<1>6. ASSUME NEW i \in DOMAIN ledger', NEW j \in DOMAIN ledger',
             ledger'[i].reason # "PAYOUT", ledger'[i].reason = ledger'[j].reason,
             ledger'[i].deal = ledger'[j].deal
      PROVE  i = j
  <2>1. \A n \in DOMAIN ledger : ~(t.reason # "PAYOUT" /\ ledger[n].reason = t.reason /\ ledger[n].deal = t.deal)
    BY DEF Booked
  <2> QED BY <1>2, <1>3, <1>6, <2>1 DEF Inv, LedgerInv
<1>7. LedgerInv'
  BY <1>2, <1>5, <1>6 DEF Inv, LedgerInv
<1>8. \A d, reason : _already_booked(d, reason) => _already_booked(d, reason)'
  <2>1. DOMAIN ledger \subseteq DOMAIN ledger'
    BY <1>2
  <2> QED BY <1>2, <2>1 DEF _already_booked, Booked
<1>9. _already_booked(t.deal, t.reason)'
  <2>1. Len(ledger) + 1 \in DOMAIN ledger'
    BY <1>2
  <2> QED BY <1>2, <2>1 DEF _already_booked, Booked
<1> QED BY <1>7, <1>8, <1>9

(* A commit answers 200: for its own entry, for the copy that won, or (only *)
(* where commits may fail) for nothing.                                     *)
LEMMA LedgerCommitsKeeps ==
  ASSUME Inv, NEW c \in Calls, LedgerCommits(c)
  PROVE  Inv'
<1>1. /\ call[c] # NoCall /\ call[c].stage = "writing" /\ Answered(c, "ok")
      /\ UNCHANGED <<fulfillmentVars, road, orderVars, setting, contract>>
  BY DEF LedgerCommits, commit, commit_raced, commit_fails
<1>2. PICK t : t = call[c].tx
  OBVIOUS
<1>3. Sound(t) /\ t.deal \in Deals /\ t.reason \in {"DELIVERY", "SETTLEMENT"}
      /\ (t.reason = "DELIVERY" => "DELIVERED" \in road[t.deal])
  BY <1>1, <1>2 DEF Inv, CallInv
<1>4. call' = [x \in Calls |-> IF x = c THEN [stage |-> "ok", tx |-> t] ELSE call[x]]
  BY <1>1, <1>2 DEF Answered, Inv, CallInv
<1>5. \A x : Sound(x)' <=> Sound(x)
  BY <1>1 DEF Sound
<1>6. /\ LedgerInv'
      /\ \A d, reason : _already_booked(d, reason) => _already_booked(d, reason)'
      /\ ~setting.failing => _already_booked(t.deal, t.reason)'
  <2>1. CASE ~Collides(t) /\ ledger' = Append(ledger, t)
    <3>1. ASSUME NEW i \in Booked(t.deal, t.reason) PROVE FALSE
      <4>1. Sound(ledger[i]) /\ ledger[i].deal = t.deal /\ ledger[i].reason = t.reason
        BY DEF Booked, Inv, LedgerInv
      <4>2. DOMAIN ledger[i].lines \cap DOMAIN t.lines # {}
        BY <1>3, <4>1 DEF Sound
      <4>3. t.deal # NoDeal
        BY <1>3, EscrowConstants
      <4> QED BY <2>1, <4>2, <4>3 DEF Collides
    <3> QED BY <1>1, <1>3, <2>1, <3>1, AppendKeeps
  <2>2. CASE Collides(t) /\ UNCHANGED ledger
    <3>1. _already_booked(t.deal, t.reason)
      BY <2>2 DEF Collides, _already_booked
    <3> QED BY <1>1, <2>2, <3>1, Untouched DEF _already_booked, Booked
  <2>3. CASE setting.failing /\ UNCHANGED ledger
    BY <1>1, <2>3, Untouched DEF _already_booked, Booked
  <2> QED BY <1>2, <2>1, <2>2, <2>3 DEF LedgerCommits, commit, commit_raced, commit_fails
<1>7. CallInv'
  <2>1. ASSUME NEW x \in Calls, call'[x] # NoCall
        PROVE  /\ call'[x] = [stage |-> call'[x].stage, tx |-> call'[x].tx]
               /\ call'[x].stage \in {"writing", "ok", "refused", "retry"}
               /\ call'[x].tx.deal \in Deals /\ call'[x].tx.reason \in {"DELIVERY", "SETTLEMENT"}
               /\ call'[x].tx.reason = "DELIVERY" => "DELIVERED" \in road[call'[x].tx.deal]
               /\ call'[x].stage = "writing" => Sound(call'[x].tx)
               /\ ~setting.failing /\ call'[x].stage = "ok" =>
                    \E d, reason : /\ d = call'[x].tx.deal /\ reason = call'[x].tx.reason
                                   /\ _already_booked(d, reason)'
    <3>1. CASE x = c
      BY <1>3, <1>4, <1>6, <3>1
    <3>2. CASE x # c
      BY <1>4, <1>6, <2>1, <3>2 DEF Inv, CallInv
    <3> QED BY <3>1, <3>2
  <2> QED BY <1>1, <1>4, <1>5, <2>1 DEF CallInv
<1> QED BY <1>1, <1>6, <1>7, Untouched DEF Inv, fulfillmentVars, orderVars

(* An operator books the remittance of a MATCHED row, pays a seller, or a    *)
(* seller accepts another contract.                                         *)
LEMMA OperatorBooksKeeps ==
  ASSUME Inv, OperatorBooks
  PROVE  Inv'
<1>1. UNCHANGED <<fulfillmentVars, road, orderVars, setting>>
  BY DEF OperatorBooks
<1>2. LedgerInv' /\ CallInv'
  <2>1. ASSUME NEW c \in setting.operators, NEW d \in Deals, NEW cents \in Amounts,
               book_settlement(c, d, cents)
        PROVE  LedgerInv' /\ CallInv'
    <3>1. UNCHANGED <<ledger, contract>>
      BY <2>1 DEF book_settlement
    <3>2. PICK asked : asked = Asked("SETTLEMENT", d)
      OBVIOUS
    <3>3. asked.deal = d /\ asked.reason = "SETTLEMENT"
      BY <3>2 DEF Asked, Transaction
    <3>4. CASE _already_booked(d, "SETTLEMENT") /\ Opened(c, "ok", asked)
      BY <1>1, <3>1, <3>3, <3>4, OpenedKeeps
    <3>5. CASE Opened(c, "refused", asked)
      BY <1>1, <3>1, <3>3, <3>5, OpenedKeeps
    <3>6. ASSUME NEW lines \in plan_settlement(cents),
                 Opened(c, "writing", Transaction("SETTLEMENT", d, SellerOf[d], NoRate, lines))
          PROVE  LedgerInv' /\ CallInv'
      <4>1. PICK t : t = Transaction("SETTLEMENT", d, SellerOf[d], NoRate, lines)
        OBVIOUS
      <4>2. t.deal = d /\ t.reason = "SETTLEMENT" /\ t.lines = lines
        BY <4>1 DEF Transaction
      <4>3. cents \in Int
        BY EscrowConstants
      <4>4. Sound(t)
        BY <4>2, <4>3, PlanOfSettlement DEF Sound, Reasons
      <4> QED BY <1>1, <3>1, <3>6, <4>1, <4>2, <4>4, OpenedKeeps
    <3> QED BY <2>1, <3>2, <3>4, <3>5, <3>6 DEF book_settlement
  <2>2. ASSUME NEW s, NEW cents \in Amounts, book_payout(s, cents)
        PROVE  LedgerInv' /\ CallInv'
    <3>1. PICK lines \in plan_payout(cents) :
            ledger' = Append(ledger, Transaction("PAYOUT", NoDeal, s, NoRate, lines))
      BY <2>2 DEF book_payout
    <3>2. PICK t : t = Transaction("PAYOUT", NoDeal, s, NoRate, lines)
      OBVIOUS
    <3>3. t.deal = NoDeal /\ t.reason = "PAYOUT" /\ t.lines = lines
      BY <3>2 DEF Transaction
    <3>4. cents \in Int
      BY EscrowConstants
    <3>5. Sound(t)
      BY <3>3, <3>4, PlanOfPayout DEF Sound, Reasons
    <3>6. UNCHANGED <<call, contract>>
      BY <2>2 DEF book_payout
    <3>7. /\ LedgerInv'
          /\ \A d, reason : _already_booked(d, reason) => _already_booked(d, reason)'
      BY <1>1, <3>1, <3>2, <3>3, <3>5, <3>6, AppendKeeps
    <3>8. \A x : Sound(x)' <=> Sound(x)
      BY <1>1 DEF Sound
    <3>9. CallInv'
      BY <1>1, <3>6, <3>7, <3>8 DEF Inv, CallInv
    <3> QED BY <3>7, <3>9
  <2>3. ASSUME NEW s \in EscrowSellers, NEW rate \in Rates, contract_accepted(s, rate)
        PROVE  LedgerInv' /\ CallInv'
    <3>1. UNCHANGED <<ledger, call>> /\ contract' = [contract EXCEPT ![s] = rate]
      BY <2>3 DEF contract_accepted
    <3>2. LedgerInv'
      BY <1>1, <3>1 DEF Inv, LedgerInv, Sound
    <3> QED BY <1>1, <3>1, <3>2, Untouched
  <2> QED BY <2>1, <2>2, <2>3 DEF OperatorBooks
<1> QED BY <1>1, <1>2, Untouched DEF Inv, fulfillmentVars, orderVars

-----------------------------------------------------------------------------
(* Every step keeps the invariant. *)
LEMMA StepKeeps == ASSUME Inv, [DeliveryNext]_deliveryVars PROVE Inv'
<1>1. CASE \E d \in Deals : ParcelStep(d)
  BY <1>1, RoadGrows, CallbackKeeps, SellerActsKeeps, OperatorSettlesKeeps, CreateKeeps DEF ParcelStep
<1>2. CASE \E b \in Batches : FileStep(b)
  BY <1>2, FileKeeps
<1>3. CASE \E k \in driving : DriveApplied(k) \/ DriveLost(k)
  BY <1>3, DriveKeeps
<1>4. CASE \E c \in Calls : EscrowStep(c)
  BY <1>4, EscrowSendsKeeps, EscrowAnsweredKeeps, LedgerCommitsKeeps DEF EscrowStep
<1>5. CASE OperatorBooks
  BY <1>5, OperatorBooksKeeps
<1>6. CASE UNCHANGED deliveryVars
  BY <1>6, Untouched DEF Inv, deliveryVars, fulfillmentVars, escrowVars, orderVars
<1> QED BY <1>1, <1>2, <1>3, <1>4, <1>5, <1>6 DEF DeliveryNext

-----------------------------------------------------------------------------
(* What the invariant says *)

(* A set whose members are all equal has at most one.                        *)
LEMMA AtMostOne ==
  ASSUME NEW S, \A x, y \in S : x = y
  PROVE  Cardinality(S) <= 1
<1>1. CASE S = {}
  BY <1>1, FS_EmptySet
<1>2. ASSUME NEW x \in S PROVE Cardinality(S) <= 1
  <2>1. S = {x}
    OBVIOUS
  <2>2. Cardinality({x}) = 1
    BY FS_Singleton
  <2> QED BY <2>1, <2>2
<1> QED BY <1>1, <1>2

(* The running sum that FoldFunction is defined by, over the values of f.   *)
SumOf(S, f, iter) == iter = [s \in SUBSET S |-> IF s = {} THEN 0
                                     ELSE LET x == CHOOSE x \in s : TRUE
                                          IN  f[x] + iter[s \ {x}]]

(* Whatever satisfies that recursion is 0 on S if f is: a smallest set it   *)
(* is not 0 on would have one element less than itself as a counterexample. *)
LEMMA OnlyZero ==
  ASSUME NEW S, IsFiniteSet(S), NEW f, \A x \in S : f[x] = 0, NEW iter, SumOf(S, f, iter)
  PROVE  iter[S] = 0
<1> DEFINE Bad == {s \in SUBSET S : iter[s] # 0}
<1>1. Bad \subseteq FiniteSubsetsOf(S)
  BY FS_Subset DEF FiniteSubsetsOf
<1>2. SUFFICES ASSUME Bad # {} PROVE FALSE
  OBVIOUS
<1>3. PICK s \in Bad : \A u \in Bad : ~(<<u, s>> \in StrictSubsetOrdering(S))
  <2> HIDE DEF Bad
  <2> QED BY <1>1, <1>2, FS_StrictSubsetOrderingWellFounded, WFMin
<1>4. s # {}
  BY DEF SumOf
<1> DEFINE x == CHOOSE x \in s : TRUE
<1>5. x \in s
  BY <1>4
<1>6. iter[s] = f[x] + iter[s \ {x}]
  BY <1>4, <1>5 DEF SumOf
<1>7. s \ {x} \notin Bad
  BY <1>3, <1>5 DEF StrictSubsetOrdering
<1>8. iter[s \ {x}] = 0
  BY <1>7
<1> QED BY <1>5, <1>6, <1>8

(* The sum of zeros is zero. *)
LEMMA SumOfZeros ==
  ASSUME NEW S, IsFiniteSet(S), NEW f, DOMAIN f = S, \A x \in S : f[x] = 0
  PROVE  FoldFunction(+, 0, f) = 0
<1> DEFINE Iter == CHOOSE iter : SumOf(S, f, iter)
           zeros == [s \in SUBSET S |-> 0]
<1>1. FoldFunction(+, 0, f) = Iter[S]
  BY DEF FoldFunction, FoldFunctionOnSet, MapThenFoldSet, SumOf
<1>2. SumOf(S, f, zeros)
  <2>1. ASSUME NEW s \in SUBSET S, s # {} PROVE LET x == CHOOSE x \in s : TRUE IN f[x] + zeros[s \ {x}] = 0
    <3>1. (CHOOSE x \in s : TRUE) \in s BY <2>1
    <3> QED BY <3>1
  <2> QED BY <2>1 DEF SumOf
<1>3. SumOf(S, f, Iter)
  <2> HIDE DEF zeros
  <2> QED BY <1>2
<1> QED BY <1>1, <1>3, OnlyZero

(* Nothing is booked twice, every entry set balances and so does the whole  *)
(* ledger, no seller is short of a fraction, and no 200 was a lie.          *)
LEMMA SoundLedger == ASSUME Inv PROVE LedgerIsSound
<1>1. EscrowTypeOK
  BY DEF Inv, LedgerInv, CallInv, Sound, EscrowTypeOK
<1>2. BookedOnce
  <2>1. ASSUME NEW d \in Deals, NEW reason \in {"DELIVERY", "SETTLEMENT"}
        PROVE  Cardinality(Booked(d, reason)) <= 1
    <3>1. \A i, j \in Booked(d, reason) : i = j
      BY DEF Inv, LedgerInv, Booked
    <3> QED BY <3>1, AtMostOne
  <2> QED BY <2>1 DEF BookedOnce
<1>3. BooksBalance
  <2>1. PICK S : ledger \in Seq(S)
    BY DEF Inv, LedgerInv
  <2>2. DOMAIN ledger = 1 .. Len(ledger) /\ Len(ledger) \in Nat
    BY <2>1
  <2>3. IsFiniteSet(DOMAIN ledger)
    BY <2>2, FS_Interval
  <2>4. PICK f : f = [i \in DOMAIN ledger |-> Total(ledger[i].lines)]
    OBVIOUS
  <2>5. DOMAIN f = DOMAIN ledger /\ \A i \in DOMAIN ledger : f[i] = 0
    BY <2>4 DEF Inv, LedgerInv, Sound
  <2>6. FoldFunction(+, 0, f) = 0
    BY <2>3, <2>5, SumOfZeros
  <2> QED BY <2>4, <2>6 DEF BooksBalance, ledger_health
<1>4. RoundedForTheSeller
  BY DEF Inv, LedgerInv, Sound, Rounded, RoundedForTheSeller
<1>5. AnswersAreTrueUnlessACommitFails
  BY DEF Inv, CallInv, AnswersAreTrueUnlessACommitFails, AnswersAreTrue
<1> QED BY <1>1, <1>2, <1>3, <1>4, <1>5 DEF LedgerIsSound

(* The invariant holds in every reachable state.                             *)
THEOREM DeliveryInvariant == DeliverySpec => []Inv
<1>1. DeliveryInit => Inv
  BY InitKeeps
<1>2. Inv /\ [DeliveryNext]_deliveryVars => Inv'
  BY StepKeeps
<1> QED BY <1>1, <1>2, PTL DEF DeliverySpec

(* The escrow ledger: one entry set per order and reason, every one of them   *)
(* balanced and the ledger with them, the fraction of a commission always    *)
(* the seller's, and no 200 for what was not booked unless a commit failed    *)
(* (plan_delivery, assert_balanced, record_transaction).                     *)
THEOREM LedgerStaysSound == DeliverySpec => []LedgerIsSound
<1>1. Inv => LedgerIsSound
  BY SoundLedger
<1> QED BY <1>1, DeliveryInvariant, PTL

(* What fulfillment-service and order-saga record of a parcel follows its     *)
(* road, and every courier can report what is required of it                 *)
(* (handle_callback, courier_registry, transition_seller_order).             *)
THEOREM RoadStaysRecorded == DeliverySpec => []RoadIsRecorded
<1>1. Inv => RoadIsRecorded
  <2> SUFFICES ASSUME Inv PROVE RoadIsRecorded
    OBVIOUS
  <2>1. EscrowTypeOK
    BY SoundLedger DEF LedgerIsSound
  <2>2. FulfillmentTypeOK
    BY DEF Inv, IndexInv, ParcelInv, RowInv, Parcels, FulfillmentTypeOK
  <2>3. DeliveryTypeOK
    BY <2>1, <2>2 DEF Inv, OrderInv, CommandStates, DeliveryTypeOK
  <2> QED BY <2>3 DEF Inv, IndexInv, OrderInv, RoadIsRecorded
<1> QED BY <1>1, DeliveryInvariant, PTL

(* A seller order moves its stock at most once, and money is owed for it only *)
(* once the buyer has the goods.                                             *)
THEOREM GoodsAndDebtsStayInStep == DeliverySpec => []GoodsAndDebtsAgree
<1>1. Inv => GoodsAndDebtsAgree
  BY DEF Inv, OrderInv, LedgerInv, Sound, GoodsAndDebtsAgree, StockMovesOnce,
         OwedOnlyForDeliveredGoods, _already_booked, Booked
<1> QED BY <1>1, DeliveryInvariant, PTL

(* Cash is matched only to a parcel that was delivered; and, while settlement *)
(* files are ingested one at a time, at most once to each (ingest_settlement).*)
THEOREM CashStaysMatchedOnce ==
  DeliverySpec => [](MatchedCashWasCollected /\ (~setting.overlap => CashIsMatchedOnce))
<1>1. Inv => MatchedCashWasCollected /\ (~setting.overlap => CashIsMatchedOnce)
  <2> SUFFICES ASSUME Inv PROVE MatchedCashWasCollected /\ (~setting.overlap => CashIsMatchedOnce)
    OBVIOUS
  <2>1. ASSUME ~setting.overlap, NEW d \in Deals
        PROVE  Cardinality({r \in rows : r.ref = d /\ r.outcome = "matched"}) <= 1
    <3> DEFINE M == {r \in rows : r.ref = d /\ r.outcome = "matched"}
    <3>1. \A r, q \in M : r = q
      BY <2>1 DEF Inv, CashInv, MatchedOnce
    <3> HIDE DEF M
    <3>2. Cardinality(M) <= 1
      BY <3>1, AtMostOne
    <3> QED BY <3>2 DEF M
  <2>2. ~setting.overlap => SettledOnce
    BY <2>1 DEF SettledOnce
  <2>3. MatchedCashWasCollected
    BY DEF Inv, RowInv, Collected, MatchedCashWasCollected
  <2> QED BY <2>2, <2>3 DEF CashIsMatchedOnce
<1> QED BY <1>1, DeliveryInvariant, PTL

=============================================================================

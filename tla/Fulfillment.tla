----------------------------- MODULE Fulfillment -----------------------------
(***************************************************************************)
(* fulfillment-service: one parcel per seller order, the callbacks of the  *)
(* couriers, and the reconciliation of their remittance files.             *)
(*                                                                         *)
(* handle_callback commits the parcel and then calls order-saga: two       *)
(* steps, and the second may not happen.  ingest_settlement awaits         *)
(* order-saga for every row of the file and commits at the end: one step   *)
(* per row, then the commit.                                               *)
(*                                                                         *)
(* A parcel is identified by its tracking code or its seller order; both   *)
(* find the same row, so a parcel is named by its seller order here.       *)
(***************************************************************************)
EXTENDS SellerOrders, Integers, Sequences, FiniteSets

CONSTANTS
  Couriers,     \* providers with a configuration file
  Words,        \* what couriers say, after normalise
  Mappings,     \* configuration files: canonical status -> words
  Batches,      \* remittance files
  Files,        \* the rows of each: <<[ref, cents], ...>>
  NoParcel, NoStatus, NoFile

VARIABLES
  index,      \* the registry: what each configured courier's words mean
  parcel,     \* shipments
  driving,    \* calls to order-saga that a committed callback still owes
  rows,       \* settlement_rows
  ingest      \* the file being ingested: rows classified so far

fulfillmentVars == <<index, parcel, driving, rows, ingest>>

CourierStatus == {"PICKUP_PENDING", "PICKED_UP", "IN_TRANSIT", "OUT_FOR_DELIVERY",
                  "DELIVERED", "DELIVERY_FAILED", "RETURNING", "RETURNED", "CANCELLED"}

ASSUME FulfillmentConstants == NoStatus \notin CourierStatus

REQUIRED_CANONICAL == {"PICKED_UP", "DELIVERED", "RETURNING", "RETURNED"}

-----------------------------------------------------------------------------
(* courier_rules and courier_registry *)

Claims(mapping, word) == {status \in DOMAIN mapping : word \in mapping[status]}

\* build_index: a word claimed by two statuses, or a status outside the
\* vocabulary, is an error, so the file has no index.
build_index(mapping) ==
  IF DOMAIN mapping \subseteq CourierStatus
       /\ \A w \in Words : Cardinality(Claims(mapping, w)) <= 1
  THEN {[w \in Words |-> IF Claims(mapping, w) = {} THEN NoStatus
                         ELSE CHOOSE status \in Claims(mapping, w) : TRUE]}
  ELSE {}

validate_mapping(mapping) ==
  \E ix \in build_index(mapping) : REQUIRED_CANONICAL \subseteq {ix[w] : w \in Words}

\* The service starts only if every file is valid.
load(files) ==
  IF \A c \in Couriers : validate_mapping(files[c])
  THEN {[c \in Couriers |-> CHOOSE ix \in build_index(files[c]) : TRUE]}
  ELSE {}

map_status(c, word) == index[c][word]

action_for(status) ==
  CASE status = "PICKED_UP" -> "dispatch"
    [] status = "DELIVERED" -> "deliver"
    [] status = "RETURNING" -> "mark_rto"
    [] status = "RETURNED" -> "complete_return"
    [] status = "CANCELLED" -> "cancel"
    [] OTHER -> "none"

\* Faults: a repeated row is settled again; the parcel is not looked at.
ReconcileEveryTime(cents, known, settled) ==
  IF cents < 0 THEN "invalid"
  ELSE IF known.cents < 0 THEN "unknown_order"
  ELSE IF known.status = "DELIVERED" /\ cents = known.cents THEN "matched"
  ELSE "short"

ReconcileOnAmount(cents, known, settled) ==
  IF settled THEN "duplicate"
  ELSE IF cents = known.cents THEN "matched" ELSE "short"

reconcile_row(cents, known, settled) ==
  IF cents < 0 THEN "invalid"
  ELSE IF known.cents < 0 THEN "unknown_order"
  ELSE IF settled THEN "duplicate"
  ELSE IF known.status # "DELIVERED" THEN "not_delivered"
  ELSE IF cents = known.cents THEN "matched"
  ELSE IF cents < known.cents THEN "short" ELSE "over"

-----------------------------------------------------------------------------
FulfillmentInit ==
  /\ \E files \in [Couriers -> Mappings] : index \in load(files)
  /\ parcel = [d \in Deals |-> NoParcel]
  /\ driving = {}
  /\ rows = {}
  /\ ingest = [b \in Batches |-> NoFile]

\* A second parcel for a seller order is refused, by the check (409) or, if
\* two requests race, by the unique index (500).
create_shipment(d, c) ==
  /\ parcel[d] = NoParcel
  /\ parcel' = [parcel EXCEPT ![d] = [provider |-> c, status |-> "PICKUP_PENDING",
                                      unmapped |-> FALSE]]
  /\ UNCHANGED <<index, driving, rows, ingest>>

\* The courier's word is recorded on its own parcel, whatever the parcel was
\* before: callbacks are not ordered by the time they carry.  With the
\* bulkhead full the call to order-saga is given up.
handle_callback(d, c, word, bulkhead) ==
  LET canonical == map_status(c, word)
  IN  /\ parcel[d] # NoParcel /\ parcel[d].provider = c
      /\ parcel' = [parcel EXCEPT
                      ![d].unmapped = (canonical = NoStatus),
                      ![d].status = IF canonical = NoStatus THEN @ ELSE canonical]
      /\ driving' = IF action_for(canonical) = "none" \/ Cardinality(driving) >= bulkhead
                    THEN driving
                    ELSE driving \cup {[deal |-> d, action |-> action_for(canonical)]}
      /\ UNCHANGED <<index, rows, ingest>>

\* _drive_seller_order has its answer, whatever it is: the call is over and
\* the courier is told 200.
Driven(call) ==
  /\ call \in driving
  /\ driving' = driving \ {call}
  /\ UNCHANGED <<index, parcel, rows, ingest>>

-----------------------------------------------------------------------------
(* ingest_settlement *)

Row(b, i, outcome) == [batch |-> b, ref |-> Files[b][i].ref, n |-> i,
                       cents |-> Files[b][i].cents, outcome |-> outcome]

IngestBegin(b) ==
  /\ ingest[b] = NoFile
  /\ ingest' = [ingest EXCEPT ![b] = {}]
  /\ UNCHANGED <<index, parcel, driving, rows>>

\* The next row: found by its reference, compared with what order-saga says
\* (`answer`, or NoStatus if it cannot be asked) and with the rows MATCHED
\* before, its own among them.
IngestRow(b, answer) ==
  LET i == Cardinality(ingest[b]) + 1
      d == Files[b][i].ref
      shipped == d \in Deals /\ parcel[d] # NoParcel
      known == IF ~shipped THEN [cents |-> -1, status |-> NoStatus]
               ELSE [cents |-> Expected[d],
                     status |-> IF answer = NoStatus THEN parcel[d].status ELSE answer]
      settled == \E r \in rows \cup ingest[b] : r.ref = d /\ r.outcome = "matched"
  IN  /\ ingest[b] # NoFile /\ i <= Len(Files[b])
      /\ ingest' = [ingest EXCEPT ![b] = @ \cup
                      {Row(b, i, reconcile_row(Files[b][i].cents, known, settled))}]
      /\ UNCHANGED <<index, parcel, driving, rows>>

\* The unique index on (provider, batch, row reference).
Resent(b) == \E r \in rows, q \in ingest[b] : r.batch = q.batch /\ r.ref = q.ref

Repeats(b) == \E r, q \in ingest[b] : r.n # q.n /\ r.ref = q.ref

IngestCommit(b) ==
  /\ ingest[b] # NoFile /\ Cardinality(ingest[b]) = Len(Files[b])
  /\ rows' = IF Resent(b) \/ Repeats(b) THEN rows ELSE rows \cup ingest[b]
  /\ ingest' = [ingest EXCEPT ![b] = NoFile]
  /\ UNCHANGED <<index, parcel, driving>>

\* The request dies, or the commit raises: no row of the file is kept.
IngestFails(b) ==
  /\ ingest[b] # NoFile
  /\ ingest' = [ingest EXCEPT ![b] = NoFile]
  /\ UNCHANGED <<index, parcel, driving, rows>>

-----------------------------------------------------------------------------
(* Every variable keeps its type. *)
FulfillmentTypeOK ==
  /\ index \in [Couriers -> [Words -> CourierStatus \cup {NoStatus}]]
  /\ \A d \in Deals : parcel[d] # NoParcel =>
       parcel[d].provider \in Couriers /\ parcel[d].status \in CourierStatus
  /\ \A call \in driving : call.deal \in Deals
  /\ \A r \in rows : r.batch \in Batches

(* A parcel is settled at most once, whatever files the courier sends:      *)
(* the file resent, a corrected file with the row again, a file that was    *)
(* cut off half way.  Only MATCHED rows lead to money moving.               *)
SettledOnce ==
  \A d \in Deals : Cardinality({r \in rows : r.ref = d /\ r.outcome = "matched"}) <= 1

(* A started service can see every event that moves money or stock: for     *)
(* each courier some word means PICKED_UP, DELIVERED, RETURNING, RETURNED.  *)
EveryCourierCanReport ==
  \A c \in Couriers, status \in REQUIRED_CANONICAL : \E w \in Words : map_status(c, w) = status
=============================================================================

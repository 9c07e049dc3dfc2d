----------------------------- MODULE SearchProofs -----------------------------
(***************************************************************************)
(* The search read model, continued: stream-processor, the seller refresh,  *)
(* the backfill and the reaper keep the invariant, and what follows from it. *)
(***************************************************************************)
EXTENDS SearchTopicsProofs, FiniteSetTheorems

-----------------------------------------------------------------------------
(* Writes to a document *)

(* What is written to the document of p never takes it out of the index.    *)
LEMMA WriteKeeps ==
  ASSUME Inv, NEW p \in Ids, NEW d \in Docs, doc' = [doc EXCEPT ![p] = d],
         hot' = hot \cup {p}, aged' = aged \ {p}, UNCHANGED <<seen, rows, priced, stocked>>,
         d.exists, d.price <= priced[p], d.stock <= stocked[p],
         d.sku => d.base /\ p \in rows, doc[p].sku => d.sku
  PROVE  /\ DocInv'
         /\ \A q \in Ids : doc[q].sku => doc'[q].sku
         /\ UNCHANGED pass => PassInv'
<1>1. doc \in [Ids -> Docs] /\ doc' \in [Ids -> Docs] /\ doc'[p] = d
      /\ \A q \in Ids : q # p => doc'[q] = doc[q]
  BY DEF Inv, DocInv
<1>2. ASSUME NEW q \in Ids
      PROVE  /\ doc'[q].price <= priced[q] /\ doc'[q].stock <= stocked[q]
             /\ ~doc'[q].exists => doc'[q] = NoDoc
             /\ doc'[q].sku => doc'[q].base /\ q \in rows
             /\ doc[q].sku => doc'[q].sku
             /\ doc[q].exists => doc'[q].exists
  <2>1. CASE q = p
    BY <1>1, <2>1
  <2>2. CASE q # p
    BY <1>1, <2>2 DEF Inv, DocInv
  <2> QED BY <2>1, <2>2
<1>3. hot' \cup aged' \subseteq {q \in Ids : doc'[q].exists}
  <2>1. hot \cup aged \subseteq {q \in Ids : doc[q].exists}
    BY DEF Inv, DocInv
  <2> QED BY <1>1, <1>2, <2>1
<1>4. seen \subseteq Theirs'
  <2>1. seen \subseteq Theirs
    BY DEF Inv, DocInv
  <2> QED BY <1>2, <2>1 DEF Theirs
<1>5. DocInv'
  BY <1>1, <1>2, <1>3, <1>4 DEF DocInv
<1>6. UNCHANGED pass => PassInv'
  <2>1. \A q \in pass.started : q \in Ids
    BY DEF Inv, PassInv, Passes, Ids
  <2> QED BY <1>2, <2>1 DEF Inv, PassInv
<1> QED BY <1>2, <1>5, <1>6

(* write_product merges: what an event writes, and what it leaves.           *)
LEMMA Merges ==
  ASSUME NEW d \in Docs, NEW v \in Nat
  PROVE  /\ LET w == write_product(d, Fields("ProductCreated", v))
            IN  w \in Docs /\ w.exists /\ w.sku /\ w.base /\ w.price = d.price /\ w.stock = d.stock
         /\ LET w == write_product(d, Fields("PriceUpdated", v))
            IN  /\ w \in Docs /\ w.exists /\ w.sku = d.sku /\ w.base = d.base
                /\ w.price = v /\ w.stock = d.stock
         /\ LET w == write_product(d, Fields("InventoryReserved", v))
            IN  /\ w \in Docs /\ w.exists /\ w.sku = d.sku /\ w.base = d.base
                /\ w.price = d.price /\ w.stock = v
         /\ LET w == write_product(d, build_document)
            IN  w \in Docs /\ w.exists /\ w.sku /\ w.base /\ w.price = d.price /\ w.stock = d.stock
<1>1. LET w == write_product(d, Fields("ProductCreated", v))
      IN  w \in Docs /\ w.exists /\ w.sku /\ w.base /\ w.price = d.price /\ w.stock = d.stock
  <2>1. Fields("ProductCreated", v) = [exists |-> TRUE, sku |-> TRUE, base |-> TRUE]
    BY DEF Fields
  <2>2. LET w == write_product(d, [exists |-> TRUE, sku |-> TRUE, base |-> TRUE])
        IN  w \in Docs /\ w.exists /\ w.sku /\ w.base /\ w.price = d.price /\ w.stock = d.stock
    BY DEF write_product, NoDoc, Docs
  <2> QED BY <2>1, <2>2
<1>2. LET w == write_product(d, Fields("PriceUpdated", v))
      IN  /\ w \in Docs /\ w.exists /\ w.sku = d.sku /\ w.base = d.base
          /\ w.price = v /\ w.stock = d.stock
  <2>1. Fields("PriceUpdated", v) = [exists |-> TRUE, price |-> v]
    BY DEF Fields
  <2>2. LET w == write_product(d, [exists |-> TRUE, price |-> v])
        IN  /\ w \in Docs /\ w.exists /\ w.sku = d.sku /\ w.base = d.base
            /\ w.price = v /\ w.stock = d.stock
    BY DEF write_product, NoDoc, Docs
  <2> QED BY <2>1, <2>2
<1>3. LET w == write_product(d, Fields("InventoryReserved", v))
      IN  /\ w \in Docs /\ w.exists /\ w.sku = d.sku /\ w.base = d.base
          /\ w.price = d.price /\ w.stock = v
  <2>1. Fields("InventoryReserved", v) = [exists |-> TRUE, stock |-> v]
    BY DEF Fields
  <2>2. LET w == write_product(d, [exists |-> TRUE, stock |-> v])
        IN  /\ w \in Docs /\ w.exists /\ w.sku = d.sku /\ w.base = d.base
            /\ w.price = d.price /\ w.stock = v
    BY DEF write_product, NoDoc, Docs
  <2> QED BY <2>1, <2>2
<1>4. LET w == write_product(d, build_document)
      IN  w \in Docs /\ w.exists /\ w.sku /\ w.base /\ w.price = d.price /\ w.stock = d.stock
  BY DEF build_document, write_product, NoDoc, Docs
<1> QED BY <1>1, <1>2, <1>3, <1>4

\* The message of topic x, when the step commits it.
Committed(x) == done'[x] = done[x] + 1
Advance(x) == done'[x] = done[x] \/ Committed(x)

\* No earlier version of a field is later than what the step leaves in it.
PriceHolds(q) ==
  \/ doc'[q].price = doc[q].price
  \/ \A i \in 1 .. done["Price"] : log["Price"][i].subject = q => log["Price"][i].value <= doc'[q].price
StockHolds(q) ==
  \/ doc'[q].stock = doc[q].stock
  \/ \A i \in 1 .. done["Inventory"] :
       log["Inventory"][i].kind = "InventoryReserved" /\ log["Inventory"][i].subject = q
         => log["Inventory"][i].value <= doc'[q].stock

(* Reading on, one message at a time, keeps the promise of a true index, if  *)
(* what is committed is in the index.                                        *)
LEMMA QuietMoves ==
  ASSUME Inv, UNCHANGED <<log, dlq, rows, priced, told, faults>>,
         \A x \in Topics : unsent[x] = <<>> => unsent'[x] = <<>>,
         Advance("Product"), Advance("Price"), Advance("Inventory"),
         \A q \in Ids : doc[q].sku => doc'[q].sku,
         faults = 0 => \A q \in rows : PriceHolds(q) /\ StockHolds(q),
         faults = 0 => \A q \in Ids : doc'[q].stock <= told[q],
         Committed("Product") => doc'[Message("Product").subject].sku,
         Committed("Price") => Message("Price").value <= doc'[Message("Price").subject].price,
         Committed("Inventory") /\ Message("Inventory").kind = "InventoryReserved" =>
           Message("Inventory").value <= doc'[Message("Inventory").subject].stock
  PROVE  QuietInv'
<1> SUFFICES ASSUME faults = 0 PROVE QuietInv'
  BY DEF QuietInv
<1>0. /\ "Product" \in Topics /\ "Price" \in Topics /\ "Inventory" \in Topics
      /\ done["Product"] \in Nat /\ done["Price"] \in Nat /\ done["Inventory"] \in Nat
      /\ \A x \in Topics : Len(log[x]) \in Nat /\ done[x] <= Len(log[x])
      /\ rows \subseteq Ids
  BY SearchConstants, OnRecord DEF Inv, KafkaInv, SourceInv, Ids
<1>1. /\ \A x \in Topics : dlq'[x] = <<>> /\ unsent'[x] = <<>>
      /\ \A x \in Topics : \A i \in 1 .. Len(log'[x]) : log'[x][i].typed
      /\ Versions("Price", "PriceUpdated")' /\ Versions("Inventory", "InventoryReserved")'
      /\ Published(log["Price"], "PriceUpdated", priced)'
      /\ Published(log["Inventory"], "InventoryReserved", told)'
  BY DEF Inv, QuietInv, Versions, Published
<1>2. ASSUME NEW p \in rows'
      PROVE  doc'[p].sku \/ \E i \in done'["Product"] + 1 .. Len(log'["Product"]) : log'["Product"][i].subject = p
  <2>1. CASE doc[p].sku
    BY <1>0, <2>1
  <2>2. ASSUME NEW i \in done["Product"] + 1 .. Len(log["Product"]), log["Product"][i].subject = p
        PROVE  doc'[p].sku \/ \E k \in done'["Product"] + 1 .. Len(log["Product"]) : log["Product"][k].subject = p
    <3>1. CASE Committed("Product") /\ i = done["Product"] + 1
      BY <2>2, <3>1 DEF Message
    <3>2. CASE ~(Committed("Product") /\ i = done["Product"] + 1)
      <4>1. i \in done'["Product"] + 1 .. Len(log["Product"])
        BY <1>0, <3>2 DEF Advance, Committed
      <4> QED BY <2>2, <4>1
    <3> QED BY <3>1, <3>2
  <2> QED BY <2>1, <2>2 DEF Inv, QuietInv
<1>3. ASSUME NEW i \in 1 .. done'["Price"], log'["Price"][i].subject \in rows'
      PROVE  log'["Price"][i].value <= doc'[log'["Price"][i].subject].price
  <2>1. CASE Committed("Price") /\ i = done["Price"] + 1
    BY <2>1 DEF Message
  <2>2. CASE ~(Committed("Price") /\ i = done["Price"] + 1)
    <3>1. i \in 1 .. done["Price"]
      BY <1>0, <2>2 DEF Advance, Committed
    <3>2. log["Price"][i].value <= doc[log["Price"][i].subject].price
      BY <1>3, <3>1 DEF Inv, QuietInv
    <3>3. PriceHolds(log["Price"][i].subject)
      BY <1>3
    <3> QED BY <3>1, <3>2, <3>3 DEF PriceHolds
  <2> QED BY <2>1, <2>2
<1>4. ASSUME NEW i \in 1 .. done'["Inventory"], log'["Inventory"][i].kind = "InventoryReserved"
      PROVE  log'["Inventory"][i].value <= doc'[log'["Inventory"][i].subject].stock
  <2>1. CASE Committed("Inventory") /\ i = done["Inventory"] + 1
    BY <1>4, <2>1 DEF Message
  <2>2. CASE ~(Committed("Inventory") /\ i = done["Inventory"] + 1)
    <3>1. i \in 1 .. done["Inventory"]
      BY <1>0, <2>2 DEF Advance, Committed
    <3>2. log["Inventory"][i].value <= doc[log["Inventory"][i].subject].stock
      BY <1>4, <3>1 DEF Inv, QuietInv
    <3>3. i \in 1 .. Len(log["Inventory"])
      BY <1>0, <3>1
    <3>4. log["Inventory"][i].subject \in rows
      <4>1. Genuine("Inventory", log["Inventory"][i])
        BY <1>0, <3>3, OnRecord
      <4> QED BY <1>4, <4>1 DEF Genuine, StockKinds
    <3>5. StockHolds(log["Inventory"][i].subject)
      BY <3>4
    <3> QED BY <1>4, <3>1, <3>2, <3>5 DEF StockHolds
  <2> QED BY <2>1, <2>2
<1>5. \A q \in Ids : doc'[q].stock <= told'[q]
  OBVIOUS
<1> QED BY <1>1, <1>2, <1>3, <1>4, <1>5 DEF QuietInv

(* A document whose stock a step leaves alone is not ahead of the            *)
(* reservations.                                                             *)
LEMMA StockStays ==
  ASSUME Inv, faults = 0, \A q \in Ids : doc'[q].stock = doc[q].stock
  PROVE  \A q \in Ids : doc'[q].stock <= told[q]
BY DEF Inv, QuietInv

(* Which topic an event that writes a document is on.                       *)
LEMMA TopicOfKind ==
  ASSUME NEW t, NEW m, m.kind \in Kinds(t)
  PROVE  /\ m.kind = "ProductCreated" => t = "Product"
         /\ m.kind = "PriceUpdated" => t = "Price"
         /\ m.kind \in StockKinds => t = "Inventory"
         /\ t = "Product" => m.kind = "ProductCreated"
         /\ t = "Price" => m.kind = "PriceUpdated"
BY DEF Kinds, StockKinds, SELLER_SIGNAL_EVENTS, VISIBILITY_EVENTS

(* What infer_event_type makes of an event it indexes: without the header,   *)
(* all that tells of a quantity is a reservation.                            *)
LEMMA Inferred ==
  ASSUME NEW m \in Messages
  PROVE  LET k == infer_event_type(m)
         IN  /\ k \in INDEXED_EVENTS \ SELLER_SIGNAL_EVENTS =>
                  /\ k \in {"ProductCreated", "PriceUpdated", "InventoryReserved"}
                  /\ k # "InventoryReserved" => k = m.kind
                  /\ k = "InventoryReserved" => m.kind \in StockKinds
                  /\ m.kind = "InventoryReserved" => k = "InventoryReserved"
                  /\ m.typed => k = m.kind
             /\ k \notin INDEXED_EVENTS => m.kind \notin {"ProductCreated", "PriceUpdated", "InventoryReserved"}
<1>0. /\ m.kind \in {"ProductCreated", "PriceUpdated", "InventoryReservationFailed", "InventoryReserved",
                     "InventoryReleased", "InventoryConsumed", "SellerSuspended", "SellerReinstated",
                     "ReviewPublished"}
      /\ INDEXED_EVENTS = {"ProductCreated", "PriceUpdated", "InventoryReserved", "SellerSuspended",
                           "SellerReinstated", "ReviewPublished"}
      /\ SELLER_SIGNAL_EVENTS = {"SellerSuspended", "SellerReinstated", "ReviewPublished"}
      /\ StockKinds = {"InventoryReserved", "InventoryReleased", "InventoryConsumed"}
  BY DEF Messages, AllKinds, StockKinds, INDEXED_EVENTS, SELLER_SIGNAL_EVENTS, VISIBILITY_EVENTS
<1>1. CASE m.typed
  <2>1. infer_event_type(m) = m.kind
    BY <1>1 DEF infer_event_type
  <2> QED BY <1>0, <2>1
<1>2. CASE ~m.typed
  <2>1. infer_event_type(m) = Shape(m.kind)
    BY <1>2 DEF infer_event_type
  <2>2. CASE m.kind \in {"ProductCreated", "PriceUpdated", "InventoryReservationFailed"}
    <3>1. infer_event_type(m) = m.kind
      BY <2>1, <2>2 DEF Shape
    <3> QED BY <1>0, <2>2, <3>1
  <2>3. CASE m.kind \in StockKinds
    <3>1. infer_event_type(m) = "InventoryReserved"
      BY <1>0, <2>1, <2>3 DEF Shape
    <3> QED BY <1>0, <1>2, <2>3, <3>1
  <2>4. CASE m.kind \in SELLER_SIGNAL_EVENTS
    <3>1. infer_event_type(m) = "None"
      BY <1>0, <2>1, <2>4 DEF Shape
    <3> QED BY <1>0, <2>4, <3>1
  <2> QED BY <1>0, <2>2, <2>3, <2>4
<1> QED BY <1>1, <1>2

(* process_event for the events that write one document.                    *)
LEMMA HandleDocumentKeeps ==
  ASSUME Inv, NEW t \in Topics, HandleDocument(t)
  PROVE  Inv'
<1>1. /\ hand = NoRefresh /\ HasNext(t) /\ CommitOrDie(t)
      /\ UNCHANGED <<setting, log, dlqVars, faults, nextId, rows, priced, stocked, told, hand, skipped, pass>>
      /\ applied' = applied \cup {Message(t).id}
  BY DEF HandleDocument, Idle, source, stock
<1>2. PICK m : m = Message(t)
  OBVIOUS
<1>3. /\ m \in Messages /\ Genuine(t, m)
      /\ done[t] + 1 \in 1 .. Len(log[t])
      /\ done' \in [Topics -> Nat] /\ \A x \in Topics : done'[x] <= Len(log[x])
      /\ \A x \in Topics : x # t => done'[x] = done[x]
      /\ done'[t] = done[t] \/ done'[t] = done[t] + 1
  <2>1. Commit(t) \/ UNCHANGED done
    BY <1>1 DEF CommitOrDie
  <2> QED BY <1>1, <1>2, <2>1, Delivered
<1>0. PICK k : k = infer_event_type(m)
  OBVIOUS
<1>4. /\ k \in {"ProductCreated", "PriceUpdated", "InventoryReserved"}
      /\ k # "InventoryReserved" => k = m.kind
      /\ k = "InventoryReserved" => m.kind \in StockKinds
      /\ m.kind = "InventoryReserved" => k = "InventoryReserved"
      /\ m.typed => k = m.kind
  <2>1. k \in INDEXED_EVENTS \ SELLER_SIGNAL_EVENTS
    BY <1>0, <1>2 DEF HandleDocument
  <2> QED BY <1>0, <1>3, <2>1, Inferred
<1>t. faults = 0 => k = m.kind
  <2>1. faults = 0 => log[t][done[t] + 1].typed
    BY <1>3 DEF Inv, QuietInv
  <2> QED BY <1>2, <1>4, <2>1 DEF Message
<1>5. /\ doc' = [doc EXCEPT ![m.subject] = write_product(@, Fields(k, m.value))]
      /\ hot' = hot \cup {m.subject} /\ aged' = aged \ {m.subject} /\ UNCHANGED seen
  BY <1>0, <1>2 DEF HandleDocument, Indexed
<1>6. m.kind \in Kinds(t) /\ m.value \in Nat
  BY <1>3 DEF Genuine, Messages
<1>7. /\ k = "ProductCreated" => m.subject \in rows
      /\ k = "PriceUpdated" => m.subject \in Ids /\ m.value <= priced[m.subject]
      /\ k = "InventoryReserved" => m.subject \in rows /\ m.value <= stocked[m.subject]
  BY <1>3, <1>4 DEF Genuine
<1>8. PICK p : p = m.subject
  OBVIOUS
<1>9. p \in Ids /\ rows \subseteq Ids /\ doc \in [Ids -> Docs] /\ doc[p] \in Docs
  BY <1>4, <1>7, <1>8 DEF Inv, SourceInv, DocInv, Ids
<1>10. PICK d : d = write_product(doc[p], Fields(k, m.value))
  OBVIOUS
<1>11. doc' = [doc EXCEPT ![p] = d] /\ hot' = hot \cup {p} /\ aged' = aged \ {p} /\ UNCHANGED seen
       /\ doc'[p] = d /\ \A q \in Ids : q # p => doc'[q] = doc[q]
  BY <1>5, <1>8, <1>9, <1>10
<1>12. /\ d \in Docs /\ d.exists
       /\ k = "ProductCreated" => d.sku /\ d.base
       /\ k # "ProductCreated" => d.sku = doc[p].sku /\ d.base = doc[p].base
       /\ d.price = IF k = "PriceUpdated" THEN m.value ELSE doc[p].price
       /\ d.stock = IF k = "InventoryReserved" THEN m.value ELSE doc[p].stock
  <2>1. CASE k = "ProductCreated"
    <3>1. d = write_product(doc[p], Fields("ProductCreated", m.value))
      BY <1>10, <2>1
    <3>2. /\ d \in Docs /\ d.exists
          /\ d.sku /\ d.base /\ d.price = doc[p].price /\ d.stock = doc[p].stock
      BY <1>6, <1>9, <3>1, Merges
    <3> QED BY <2>1, <3>2
  <2>2. CASE k = "PriceUpdated"
    <3>1. d = write_product(doc[p], Fields("PriceUpdated", m.value))
      BY <1>10, <2>2
    <3>2. /\ d \in Docs /\ d.exists
          /\ d.sku = doc[p].sku /\ d.base = doc[p].base /\ d.price = m.value /\ d.stock = doc[p].stock
      BY <1>6, <1>9, <3>1, Merges
    <3> QED BY <2>2, <3>2
  <2>3. CASE k = "InventoryReserved"
    <3>1. d = write_product(doc[p], Fields("InventoryReserved", m.value))
      BY <1>10, <2>3
    <3>2. /\ d \in Docs /\ d.exists
          /\ d.sku = doc[p].sku /\ d.base = doc[p].base /\ d.price = doc[p].price /\ d.stock = m.value
      BY <1>6, <1>9, <3>1, Merges
    <3> QED BY <2>3, <3>2
  <2> QED BY <1>4, <2>1, <2>2, <2>3
<1>13. /\ doc[p].price <= priced[p] /\ doc[p].stock <= stocked[p]
       /\ doc[p].sku => doc[p].base /\ p \in rows
  BY <1>9 DEF Inv, DocInv
<1>14. d.price <= priced[p] /\ d.stock <= stocked[p]
  BY <1>7, <1>8, <1>12, <1>13
<1>15. (d.sku => d.base /\ p \in rows) /\ (doc[p].sku => d.sku)
  BY <1>7, <1>8, <1>12, <1>13
<1>16. DocInv' /\ PassInv' /\ \A q \in Ids : doc[q].sku => doc'[q].sku
  BY <1>1, <1>9, <1>11, <1>12, <1>14, <1>15, WriteKeeps
<1>17. /\ SourceInv' /\ KafkaInv' /\ ProducerInv' /\ HandledInv' /\ RetryInv' /\ Accounted'
       /\ \A x \in Topics : unsent[x] = <<>> => unsent'[x] = <<>>
  BY <1>1, DeliveryKeeps
<1>18. WorkerInv'
  BY <1>1 DEF Inv, WorkerInv, NoRefresh
<1>19. /\ k = "PriceUpdated" => t = "Price"
       /\ k = "InventoryReserved" => t = "Inventory"
       /\ t = "Product" => k = "ProductCreated"
       /\ t = "Price" => k = "PriceUpdated"
  <2>1. /\ m.kind = "PriceUpdated" => t = "Price"
        /\ m.kind \in StockKinds => t = "Inventory"
        /\ t = "Product" => m.kind = "ProductCreated"
        /\ t = "Price" => m.kind = "PriceUpdated"
    BY <1>6, TopicOfKind
  <2>2. m.kind \in {"ProductCreated", "PriceUpdated"} => m.kind \notin StockKinds
    BY DEF StockKinds
  <2> QED BY <1>4, <2>1, <2>2
<1>20. QuietInv'
  <2>0. "Product" \in Topics /\ "Price" \in Topics /\ "Inventory" \in Topics /\ done \in [Topics -> Nat]
    BY SearchConstants DEF Inv, KafkaInv
  <2>1. Advance("Product") /\ Advance("Price") /\ Advance("Inventory")
    BY <1>3, <2>0 DEF Advance, Committed
  <2>2. \A x \in {"Product", "Price", "Inventory"} : Committed(x) => x = t
    BY <1>3, <2>0 DEF Committed
  <2>3. Committed("Product") => doc'[Message("Product").subject].sku
    BY <1>2, <1>8, <1>11, <1>12, <1>19, <2>2
  <2>4. Committed("Price") => Message("Price").value <= doc'[Message("Price").subject].price
    BY <1>2, <1>6, <1>8, <1>11, <1>12, <1>19, <2>2
  <2>5. Committed("Inventory") /\ Message("Inventory").kind = "InventoryReserved" =>
          Message("Inventory").value <= doc'[Message("Inventory").subject].stock
    BY <1>2, <1>4, <1>6, <1>8, <1>11, <1>12, <2>2
  <2>6. ASSUME faults = 0, NEW q \in rows PROVE PriceHolds(q)
    <3>1. CASE q # p \/ k # "PriceUpdated"
      BY <1>9, <1>11, <1>12, <3>1 DEF PriceHolds
    <3>2. CASE q = p /\ k = "PriceUpdated"
      <4>1. t = "Price" /\ doc'[q].price = m.value /\ log["Price"][done["Price"] + 1] = m
        BY <1>2, <1>11, <1>12, <1>19, <3>2 DEF Message
      <4>2. ASSUME NEW i \in 1 .. done["Price"], log["Price"][i].subject = q
            PROVE  log["Price"][i].value <= doc'[q].price
        <5>1. i \in 1 .. Len(log["Price"]) /\ i < done["Price"] + 1 /\ Len(log["Price"]) \in Nat
          <6>1. done["Price"] \in Nat /\ Len(log["Price"]) \in Nat
            BY <2>0, OnRecord
          <6> QED BY <1>3, <4>1, <6>1
        <5>2. log["Price"][i] \in Messages /\ log["Price"][i].kind = "PriceUpdated"
          <6>1. log["Price"][i] \in Messages /\ Genuine("Price", log["Price"][i])
            BY <2>0, <5>1, OnRecord
          <6> QED BY <6>1 DEF Genuine, Kinds
        <5>3. Versions("Price", "PriceUpdated")
          BY <2>6 DEF Inv, QuietInv
        <5>4. log["Price"][i].value < m.value
          BY <1>3, <1>4, <1>8, <3>2, <4>1, <4>2, <5>1, <5>2, <5>3 DEF Versions
        <5>5. log["Price"][i].value \in Nat
          BY <5>2 DEF Messages
        <5> QED BY <1>6, <4>1, <5>4, <5>5
      <4> QED BY <4>2 DEF PriceHolds
    <3> QED BY <3>1, <3>2
  <2>7. ASSUME faults = 0, NEW q \in rows PROVE StockHolds(q)
    <3>1. CASE q # p \/ k # "InventoryReserved"
      BY <1>9, <1>11, <1>12, <3>1 DEF StockHolds
    <3>2. CASE q = p /\ k = "InventoryReserved"
      <4>1. t = "Inventory" /\ doc'[q].stock = m.value /\ log["Inventory"][done["Inventory"] + 1] = m
        BY <1>2, <1>11, <1>12, <1>19, <3>2 DEF Message
      <4>2. ASSUME NEW i \in 1 .. done["Inventory"], log["Inventory"][i].kind = "InventoryReserved",
                   log["Inventory"][i].subject = q
            PROVE  log["Inventory"][i].value <= doc'[q].stock
        <5>1. i \in 1 .. Len(log["Inventory"]) /\ i < done["Inventory"] + 1 /\ Len(log["Inventory"]) \in Nat
          <6>1. done["Inventory"] \in Nat /\ Len(log["Inventory"]) \in Nat
            BY <2>0, OnRecord
          <6> QED BY <1>3, <4>1, <6>1
        <5>2. log["Inventory"][i] \in Messages
          BY <2>0, <5>1, OnRecord
        <5>3. Versions("Inventory", "InventoryReserved")
          BY <2>7 DEF Inv, QuietInv
        <5>4. log["Inventory"][i].value < m.value
          BY <1>3, <1>8, <1>t, <2>7, <3>2, <4>1, <4>2, <5>1, <5>3 DEF Versions
        <5>5. log["Inventory"][i].value \in Nat
          BY <5>2 DEF Messages
        <5> QED BY <1>6, <4>1, <5>4, <5>5
      <4> QED BY <4>2 DEF StockHolds
    <3> QED BY <3>1, <3>2
  <2>8. UNCHANGED <<log, dlq, rows, priced, told, faults>>
    BY <1>1 DEF dlqVars
  <2>9. ASSUME faults = 0, NEW q \in Ids PROVE doc'[q].stock <= told[q]
    <3>1. doc[q].stock <= told[q]
      BY <2>9 DEF Inv, QuietInv
    <3>2. CASE q # p \/ k # "InventoryReserved"
      BY <1>11, <1>12, <3>1, <3>2
    <3>3. CASE q = p /\ k = "InventoryReserved"
      <4>1. m.value <= told[m.subject]
        BY <1>3, <1>t, <2>9, <3>3 DEF Genuine
      <4> QED BY <1>8, <1>11, <1>12, <3>3, <4>1
    <3> QED BY <3>2, <3>3
  <2> QED BY <1>16, <1>17, <2>1, <2>3, <2>4, <2>5, <2>6, <2>7, <2>8, <2>9, QuietMoves
<1> QED BY <1>16, <1>17, <1>18, <1>20 DEF Inv

(* Passing over an event of no interest.                                    *)
LEMMA HandleSkipsKeeps ==
  ASSUME Inv, NEW t \in Topics, HandleSkips(t)
  PROVE  Inv'
<1>1. /\ hand = NoRefresh /\ HasNext(t) /\ Commit(t) /\ infer_event_type(Message(t)) \notin INDEXED_EVENTS
      /\ UNCHANGED <<setting, log, dlqVars, faults, nextId, rows, priced, stocked, told, hand, pass>>
      /\ UNCHANGED <<restarts, unsent, lost, producer>>
      /\ skipped' = skipped \cup {Message(t).id} /\ applied' = applied
      /\ UNCHANGED <<doc, hot, seen, aged>>
  BY DEF HandleSkips, Idle, source, stock, index, producer
<1>2. PICK m : m = Message(t)
  OBVIOUS
<1>3. /\ m \in Messages /\ Genuine(t, m) /\ done' \in [Topics -> Nat]
      /\ \A x \in Topics : x # t => done'[x] = done[x]
      /\ done'[t] = done[t] \/ done'[t] = done[t] + 1
  BY <1>1, <1>2, Delivered
<1>4. m.kind \notin {"ProductCreated", "PriceUpdated", "InventoryReserved"}
  BY <1>1, <1>2, <1>3, Inferred
<1>5. t # "Product" /\ t # "Price"
  <2>1. m.kind \in Kinds(t)
    BY <1>3 DEF Genuine
  <2> QED BY <1>4, <2>1, TopicOfKind
<1>6. SourceInv' /\ KafkaInv' /\ ProducerInv' /\ HandledInv' /\ RetryInv' /\ Accounted'
  BY <1>1, DeliveryKeeps DEF CommitOrDie
<1>7. WorkerInv' /\ DocInv' /\ PassInv'
  BY <1>1, Frames DEF Inv, WorkerInv, NoRefresh
<1>8. QuietInv'
  <2>0. "Product" \in Topics /\ "Price" \in Topics /\ "Inventory" \in Topics /\ done \in [Topics -> Nat]
    BY SearchConstants DEF Inv, KafkaInv
  <2>1. Advance("Product") /\ Advance("Price") /\ Advance("Inventory")
    BY <1>3, <2>0 DEF Advance, Committed
  <2>2. \A x \in {"Product", "Price", "Inventory"} : Committed(x) => x = t
    BY <1>3, <2>0 DEF Committed
  <2>3. ~Committed("Product") /\ ~Committed("Price") /\ (Committed("Inventory") => Message("Inventory") = m)
    BY <1>2, <1>5, <2>2
  <2>4. \A q : PriceHolds(q) /\ StockHolds(q)
    BY <1>1 DEF PriceHolds, StockHolds
  <2>5. UNCHANGED <<log, dlq, rows, priced, told, faults>>
    BY <1>1 DEF dlqVars
  <2>6. faults = 0 => \A q \in Ids : doc'[q].stock <= told[q]
    BY <1>1, StockStays
  <2> QED BY <1>1, <1>4, <2>1, <2>3, <2>4, <2>5, <2>6, QuietMoves
<1> QED BY <1>6, <1>7, <1>8 DEF Inv

-----------------------------------------------------------------------------
(* The seller refresh *)

(* A step of the refresh moves the worker and nothing else it is judged by. *)
LEMMA RefreshesKeeps ==
  ASSUME Inv, UNCHANGED <<setting, kafka, source, applied, skipped>>
  PROVE  SourceInv' /\ KafkaInv' /\ ProducerInv' /\ HandledInv' /\ RetryInv' /\ Accounted'
<1>1. UNCHANGED <<setting, log, done, unsent, lost, dlq, dpos, ddone, attempts, republished, escalated, passed,
                  faults, restarts, nextId, rows, priced, stocked, told, applied, skipped>>
  BY DEF kafka, producer, dlqVars, source, stock
<1> QED BY <1>1, Frames

(* The refresh holds on to its message.                                     *)
LEMMA HandKeeps ==
  ASSUME Inv, UNCHANGED <<log, done>>, hand' \in Hands, hand'.tries <= VISIBILITY_ATTEMPTS,
         hand'.step # "none", hand.step # "none" \/ HasNext("Seller")
  PROVE  WorkerInv'
BY DEF Inv, WorkerInv, HasNext

(* update_by_query writes may_sell of documents that are in the index.      *)
LEMMA WriteSignalsKeeps == ASSUME Inv, WriteSignals PROVE Inv'
<1>1. /\ hand.step = "write"
      /\ doc' = [p \in Ids |-> IF p \in seen \ hot THEN [doc[p] EXCEPT !.may_sell = hand.value] ELSE doc[p]]
      /\ UNCHANGED <<hot, seen>> \/ (hot' = {} /\ seen' = Theirs)
      /\ hand' = [hand EXCEPT !.step = IF hand.force /\ hand.value # "unknown" THEN "verify" ELSE "finish"]
      /\ UNCHANGED aged /\ Refreshes
  BY DEF WriteSignals, Refreshing, IndexRefresh
<1>2. UNCHANGED <<setting, kafka, source, applied, skipped, pass>>
  BY <1>1 DEF Refreshes
<1>3. UNCHANGED <<log, done, unsent, dlq, faults, rows, priced, stocked, told, pass>>
  BY <1>2 DEF kafka, producer, dlqVars, source, stock
<1>4. SourceInv' /\ KafkaInv' /\ ProducerInv' /\ HandledInv' /\ RetryInv' /\ Accounted'
  BY <1>2, RefreshesKeeps
<1>5. hand \in Hands /\ hand.tries <= VISIBILITY_ATTEMPTS /\ hand.value \in {"unknown", "yes", "no"}
  BY DEF Inv, WorkerInv, Hands
<1>6. WorkerInv'
  <2>1. hand' \in Hands /\ hand'.step # "none" /\ hand'.tries = hand.tries
    BY <1>1, <1>5 DEF Hands
  <2> QED BY <1>1, <1>3, <1>5, <2>1, HandKeeps
<1>7. doc \in [Ids -> Docs] /\ seen \subseteq Theirs
  BY DEF Inv, DocInv
<1>8. ASSUME NEW p \in Ids
      PROVE  /\ doc'[p] \in Docs /\ doc'[p].exists = doc[p].exists /\ doc'[p].sku = doc[p].sku
             /\ doc'[p].base = doc[p].base /\ doc'[p].price = doc[p].price /\ doc'[p].stock = doc[p].stock
             /\ ~doc'[p].exists => doc'[p] = NoDoc
  <2>1. doc[p] \in Docs /\ (~doc[p].exists => doc[p] = NoDoc)
    BY DEF Inv, DocInv
  <2>2. CASE p \in seen \ hot
    <3>1. doc'[p] = [doc[p] EXCEPT !.may_sell = hand.value]
      BY <1>1, <2>2
    <3>2. /\ doc'[p] \in Docs /\ doc'[p].exists = doc[p].exists /\ doc'[p].sku = doc[p].sku
          /\ doc'[p].base = doc[p].base /\ doc'[p].price = doc[p].price /\ doc'[p].stock = doc[p].stock
      BY <1>5, <2>1, <3>1 DEF Docs
    <3>3. doc[p].sku
      BY <1>7, <2>2 DEF Theirs
    <3>4. doc[p].exists
      BY <2>1, <3>3 DEF NoDoc
    <3> QED BY <3>2, <3>4
  <2>3. CASE p \notin seen \ hot
    BY <1>1, <2>1, <2>3
  <2> QED BY <2>2, <2>3
<1>9. DocInv'
  <2>1. doc' \in [Ids -> Docs]
    BY <1>1, <1>8
  <2>2. Theirs' = Theirs
    BY <1>8 DEF Theirs
  <2>3. hot' \cup aged' \subseteq {p \in Ids : doc'[p].exists}
    BY <1>1, <1>8 DEF Inv, DocInv
  <2>4. seen' \subseteq Theirs
    BY <1>1, <1>7
  <2> QED BY <1>3, <1>8, <2>1, <2>2, <2>3, <2>4 DEF Inv, DocInv
<1>10. PassInv'
  <2>1. \A q \in pass.started : q \in Ids
    BY DEF Inv, PassInv, Passes, Ids
  <2> QED BY <1>3, <1>8, <2>1 DEF Inv, PassInv
<1>11. QuietInv'
  <2>0. rows \subseteq Ids /\ done \in [Topics -> Nat]
        /\ "Product" \in Topics /\ "Price" \in Topics /\ "Inventory" \in Topics
    BY SearchConstants DEF Inv, SourceInv, KafkaInv, Ids
  <2>1. \A q \in rows : PriceHolds(q) /\ StockHolds(q)
    BY <1>8, <2>0 DEF PriceHolds, StockHolds
  <2>2. \A x \in {"Product", "Price", "Inventory"} : Advance(x) /\ ~Committed(x)
    BY <1>3, <2>0 DEF Advance, Committed
  <2>3. faults = 0 => \A q \in Ids : doc'[q].stock <= told[q]
    BY <1>8, StockStays
  <2> QED BY <1>3, <1>8, <2>1, <2>2, <2>3, QuietMoves
<1> QED BY <1>4, <1>6, <1>9, <1>10, <1>11 DEF Inv

(* The steps of a refresh that write no document.                           *)
LEMMA RefreshStepsKeep ==
  ASSUME Inv, FetchSignals \/ VerifyVisibility \/ SleepAndRetry
  PROVE  Inv'
<1>1. UNCHANGED <<setting, kafka, source, applied, skipped, pass, doc, aged>>
  BY DEF FetchSignals, VerifyVisibility, SleepAndRetry, Refreshes, index
<1>2. UNCHANGED <<log, done, unsent, dlq, faults, rows, priced, stocked, told, pass, doc>>
  BY <1>1 DEF kafka, producer, dlqVars, source, stock
<1>3. UNCHANGED <<hot, seen>> \/ (hot' = {} /\ seen' = Theirs)
  BY DEF FetchSignals, VerifyVisibility, SleepAndRetry, index, IndexRefresh
<1>4. SourceInv' /\ KafkaInv' /\ ProducerInv' /\ HandledInv' /\ RetryInv' /\ Accounted'
  BY <1>1, RefreshesKeeps
<1>5. PassInv' /\ QuietInv'
  BY <1>2, Frames
<1>6. DocInv'
  BY <1>1, <1>2, <1>3 DEF Inv, DocInv, Theirs
<1>7. hand \in Hands /\ hand.tries <= VISIBILITY_ATTEMPTS /\ VISIBILITY_ATTEMPTS \in Nat /\ hand.tries \in Nat
  BY SearchConstants DEF Inv, WorkerInv, Hands
<1>8. hand' \in Hands /\ hand'.step # "none" /\ hand'.tries <= VISIBILITY_ATTEMPTS /\ hand.step # "none"
  <2>1. CASE FetchSignals
    <3>1. PICK v \in {"yes", "no", "unknown"} : hand' = [hand EXCEPT !.step = "write", !.value = v]
      BY <2>1 DEF FetchSignals
    <3> QED BY <1>7, <2>1, <3>1 DEF FetchSignals, Refreshing, Hands
  <2>2. CASE VerifyVisibility
    <3>1. hand.step = "verify"
      BY <2>2 DEF VerifyVisibility, Refreshing
    <3>2. \/ hand' = [hand EXCEPT !.step = "finish"]
          \/ hand.tries # VISIBILITY_ATTEMPTS /\ hand' = [hand EXCEPT !.step = "sleep", !.tries = @ + 1]
      BY <2>2 DEF VerifyVisibility
    <3>3. CASE hand' = [hand EXCEPT !.step = "finish"]
      BY <1>7, <3>1, <3>3 DEF Hands
    <3>4. CASE hand.tries # VISIBILITY_ATTEMPTS /\ hand' = [hand EXCEPT !.step = "sleep", !.tries = @ + 1]
      <4>1. hand.tries + 1 \in Nat /\ hand.tries + 1 <= VISIBILITY_ATTEMPTS
        BY <1>7, <3>4
      <4>2. hand' \in Hands /\ hand'.step = "sleep" /\ hand'.tries = hand.tries + 1
        BY <1>7, <3>4, <4>1 DEF Hands
      <4> QED BY <3>1, <4>1, <4>2
    <3> QED BY <3>2, <3>3, <3>4
  <2>3. CASE SleepAndRetry
    BY <1>7, <2>3 DEF SleepAndRetry, Refreshing, Hands
  <2> QED BY <2>1, <2>2, <2>3
<1>9. WorkerInv'
  BY <1>2, <1>8, HandKeeps
<1> QED BY <1>4, <1>5, <1>6, <1>9 DEF Inv

(* A refresh begins, or is dropped because the last is too recent.          *)
LEMMA RefreshBeginKeeps == ASSUME Inv, RefreshBegin PROVE Inv'
<1>0. "Seller" \in Topics /\ "Product" \in Topics /\ "Price" \in Topics /\ "Inventory" \in Topics
  BY SearchConstants
<1>1. /\ hand = NoRefresh /\ HasNext("Seller")
      /\ UNCHANGED <<setting, log, producer, dlqVars, faults, restarts, source, doc, hot, seen, aged, skipped, pass>>
  BY DEF RefreshBegin, Idle, index
<1>2. UNCHANGED <<log, unsent, dlq, faults, nextId, rows, priced, stocked, told>>
  BY <1>1 DEF producer, dlqVars, source, stock
<1>3. CASE Commit("Seller") /\ applied' = applied \cup {Message("Seller").id} /\ UNCHANGED hand
  <2>1. SourceInv' /\ KafkaInv' /\ ProducerInv' /\ HandledInv' /\ RetryInv' /\ Accounted'
    BY <1>0, <1>1, <1>2, <1>3, DeliveryKeeps DEF CommitOrDie
  <2>2. WorkerInv' /\ DocInv' /\ PassInv'
    BY <1>1, <1>2, <1>3, Frames DEF Inv, WorkerInv, NoRefresh
  <2>3. \A x \in {"Product", "Price", "Inventory"} : done'[x] = done[x] /\ done[x] \in Nat
    BY <1>0, <1>3 DEF Commit, Inv, KafkaInv
  <2>4. \A x \in {"Product", "Price", "Inventory"} : Advance(x) /\ ~Committed(x)
    BY <2>3 DEF Advance, Committed
  <2>5. \A q : PriceHolds(q) /\ StockHolds(q)
    BY <1>1 DEF PriceHolds, StockHolds
  <2>6. faults = 0 => \A q \in Ids : doc'[q].stock <= told[q]
    BY <1>1, StockStays
  <2>7. QuietInv'
    BY <1>1, <1>2, <2>4, <2>5, <2>6, QuietMoves
  <2> QED BY <2>1, <2>2, <2>7 DEF Inv
<1>4. CASE /\ hand' = [NoRefresh EXCEPT !.step = "fetch",
                                        !.force = changes_visibility(infer_event_type(Message("Seller")))]
           /\ UNCHANGED <<done, applied>>
  <2>1. UNCHANGED <<setting, kafka, source, applied, skipped>>
    BY <1>1, <1>4 DEF kafka
  <2>2. hand' \in Hands /\ hand'.step # "none" /\ hand'.tries <= VISIBILITY_ATTEMPTS
    <3>1. PICK k : k = infer_event_type(Message("Seller"))
      OBVIOUS
    <3>3. hand' \in Hands /\ hand'.step # "none" /\ hand'.tries = 0
      <4>1. CASE changes_visibility(k)
        <5>1. changes_visibility(k) = TRUE
          BY <4>1 DEF changes_visibility
        <5>2. hand' = [step |-> "fetch", force |-> TRUE, value |-> "unknown", tries |-> 0]
          BY <1>4, <3>1, <5>1 DEF NoRefresh
        <5> QED BY ONLY <5>2 DEF Hands
      <4>2. CASE ~changes_visibility(k)
        <5>1. changes_visibility(k) = FALSE
          BY <4>2 DEF changes_visibility
        <5>2. hand' = [step |-> "fetch", force |-> FALSE, value |-> "unknown", tries |-> 0]
          BY <1>4, <3>1, <5>1 DEF NoRefresh
        <5> QED BY ONLY <5>2 DEF Hands
      <4> QED BY <4>1, <4>2
    <3>4. 0 <= VISIBILITY_ATTEMPTS
      BY SearchConstants
    <3> QED BY <3>3, <3>4
  <2>3. WorkerInv'
    BY <1>1, <1>2, <1>4, <2>2, HandKeeps
  <2>4. DocInv' /\ PassInv' /\ QuietInv'
    BY <1>1, <1>2, <1>4, Frames
  <2> QED BY <2>1, <2>3, <2>4, RefreshesKeeps DEF Inv
<1> QED BY <1>3, <1>4 DEF RefreshBegin

(* A refresh ends, with the commit of its message.                          *)
LEMMA RefreshEndKeeps == ASSUME Inv, RefreshEnd PROVE Inv'
<1>0. "Seller" \in Topics /\ "Product" \in Topics /\ "Price" \in Topics /\ "Inventory" \in Topics
  BY SearchConstants
<1>1. /\ hand.step = "finish" /\ CommitOrDie("Seller") /\ hand' = NoRefresh
      /\ applied' = applied \cup {Message("Seller").id}
      /\ UNCHANGED <<setting, log, dlqVars, faults, source, doc, hot, seen, aged, skipped, pass>>
  BY DEF RefreshEnd, Refreshing, index
<1>2. UNCHANGED <<log, dlq, faults, nextId, rows, priced, stocked, told>>
  BY <1>1 DEF dlqVars, source, stock
<1>3. HasNext("Seller")
  BY <1>1 DEF Inv, WorkerInv, HasNext
<1>4. /\ SourceInv' /\ KafkaInv' /\ ProducerInv' /\ HandledInv' /\ RetryInv' /\ Accounted'
      /\ \A x \in Topics : unsent[x] = <<>> => unsent'[x] = <<>>
  BY <1>0, <1>1, <1>2, <1>3, DeliveryKeeps
<1>5. WorkerInv'
  BY <1>1, SearchConstants DEF WorkerInv, Hands, NoRefresh
<1>6. DocInv' /\ PassInv'
  BY <1>1, <1>2, Frames
<1>7. \A x \in {"Product", "Price", "Inventory"} : done'[x] = done[x] /\ done[x] \in Nat
  BY <1>0, <1>1 DEF CommitOrDie, Commit, Inv, KafkaInv
<1>8. \A x \in {"Product", "Price", "Inventory"} : Advance(x) /\ ~Committed(x)
  BY <1>7 DEF Advance, Committed
<1>9. \A q : PriceHolds(q) /\ StockHolds(q)
  BY <1>1 DEF PriceHolds, StockHolds
<1>10. faults = 0 => \A q \in Ids : doc'[q].stock <= told[q]
  BY <1>1, StockStays
<1>11. QuietInv'
  BY <1>1, <1>2, <1>4, <1>8, <1>9, <1>10, QuietMoves
<1> QED BY <1>4, <1>5, <1>6, <1>11 DEF Inv

(* A worker without a refresh in hand.                                       *)
LEMMA NoRefreshIsIdle == ASSUME hand' = NoRefresh PROVE WorkerInv'
<1>1. NoRefresh \in Hands /\ NoRefresh.tries = 0 /\ NoRefresh.step = "none"
  BY DEF Hands, NoRefresh
<1>2. VISIBILITY_ATTEMPTS \in Nat
  BY SearchConstants
<1> QED BY <1>1, <1>2 DEF WorkerInv

(* A verification that raises.                                              *)
LEMMA VerifyFailsKeeps == ASSUME Inv, VerifyFails PROVE Inv'
<1>1. /\ faults' = faults + 1 /\ hand.step \in {"verify", "write"}
      /\ hand' = [hand EXCEPT !.step = "finish"] \/ hand' = [hand EXCEPT !.step = "verify"]
      /\ UNCHANGED <<setting, log, done, producer, dlqVars, restarts, source, doc, hot, seen, aged, applied, skipped,
                     pass>>
  BY DEF VerifyFails, Refreshing, index
<1>2. UNCHANGED <<log, unsent, lost, dlq, dpos, ddone, attempts, republished, escalated, passed, nextId, rows, priced,
                  stocked, told>>
  BY <1>1 DEF producer, dlqVars, source, stock
<1>3. hand \in Hands /\ hand.tries <= VISIBILITY_ATTEMPTS
  BY DEF Inv, WorkerInv
<1>4. hand' \in Hands /\ hand'.step # "none" /\ hand'.tries <= VISIBILITY_ATTEMPTS
  BY <1>1, <1>3 DEF Hands
<1>5. WorkerInv'
  BY <1>1, <1>4, HandKeeps
<1>6. SourceInv' /\ QuietInv'
  BY <1>1, <1>2, FaultCounted
<1>7. KafkaInv' /\ ProducerInv' /\ DocInv' /\ HandledInv' /\ RetryInv' /\ Accounted' /\ PassInv'
  BY <1>1, <1>2, Frames
<1> QED BY <1>5, <1>6, <1>7 DEF Inv

(* stream-processor dies: its refresh is gone, and what its producer held.   *)
LEMMA ProcessorDiesKeeps == ASSUME Inv, ProcessorDies PROVE Inv'
<1>1. /\ Dies /\ hand' = NoRefresh
      /\ UNCHANGED <<setting, log, done, dlqVars, faults, source, doc, hot, seen, aged, applied, skipped, pass>>
  BY DEF ProcessorDies, index
<1>2. UNCHANGED <<log, dlq, dpos, ddone, attempts, republished, escalated, passed, nextId, rows, priced,
                  stocked, told>>
  BY <1>1 DEF dlqVars, source, stock
<1>3. /\ ProducerInv' /\ lost \subseteq lost' /\ restarts' \in Nat /\ RetryInv'
      /\ \A e : Unsent(e) => Unsent(e)' \/ e \in lost'
      /\ \A x \in Topics : unsent[x] = <<>> => unsent'[x] = <<>>
  BY <1>1, <1>2, ProducerMoves
<1>4. SourceInv'
  BY <1>1, <1>2, <1>3 DEF Inv, SourceInv
<1>5. WorkerInv'
  BY <1>1, NoRefreshIsIdle
<1>6. Accounted'
  <2> SUFFICES ASSUME setting.broker, NEW e \in 1 .. nextId - 1 PROVE Somewhere(e)'
    BY <1>1, <1>2 DEF Accounted
  <2>1. (OnTopic(e) => OnTopic(e)') /\ (Dead(e) => Dead(e)')
    BY <1>1, <1>2 DEF OnTopic, Dead
  <2>2. Somewhere(e) /\ UNCHANGED <<applied, skipped, escalated, passed>>
    BY <1>1, <1>2 DEF Inv, Accounted
  <2> QED BY <1>3, <2>1, <2>2 DEF Somewhere
<1>7. KafkaInv' /\ DocInv' /\ HandledInv' /\ PassInv'
  BY <1>1, <1>2, Frames
<1>8. QuietInv'
  <2>1. \A x \in {"Product", "Price", "Inventory"} : done'[x] = done[x] /\ done[x] \in Nat
    BY <1>1, SearchConstants DEF Inv, KafkaInv
  <2>2. \A x \in {"Product", "Price", "Inventory"} : Advance(x) /\ ~Committed(x)
    BY <2>1 DEF Advance, Committed
  <2>3. \A q : PriceHolds(q) /\ StockHolds(q)
    BY <1>1 DEF PriceHolds, StockHolds
  <2>4. faults = 0 => \A q \in Ids : doc'[q].stock <= told[q]
    BY <1>1, StockStays
  <2> QED BY <1>1, <1>2, <1>3, <2>2, <2>3, <2>4, QuietMoves
<1> QED BY <1>3, <1>4, <1>5, <1>6, <1>7, <1>8 DEF Inv

(* A message that cannot be handled: its letter is in the buffer when the    *)
(* offset is committed, or on its topic when the worker dies.                *)
LEMMA HandleFailsKeeps ==
  ASSUME Inv, NEW t \in Topics, NEW error \in {"schema", "fault"}, HandleFails(t, error)
  PROVE  Inv'
<1>1. PICK l : l = DeadLetter(Message(t), error)
  OBVIOUS
<1>2. /\ HasNext(t) /\ faults' = faults + 1 /\ hand' = NoRefresh
      /\ \/ /\ unsent' = [unsent EXCEPT ![t] = Append(@, l)] \/ (~setting.broker /\ unsent' = unsent)
            /\ Commit(t) /\ UNCHANGED <<dlq, lost, restarts>>
         \/ dlq' = [dlq EXCEPT ![t] = Append(@, l)] /\ Dies /\ UNCHANGED done
      /\ UNCHANGED <<setting, log, dpos, ddone, attempts, republished, escalated, passed>>
  BY <1>1 DEF HandleFails, Fails, _route_to_dlq
<1>3. UNCHANGED <<nextId, rows, priced, stocked, told, doc, hot, seen, aged, applied, skipped, pass>>
  BY DEF HandleFails, source, stock, index
<1>4. PICK m : m = Message(t)
  OBVIOUS
<1>5. /\ m \in Messages /\ Genuine(t, m) /\ m.id \in 1 .. nextId - 1
      /\ done' \in [Topics -> Nat] /\ \A x \in Topics : done'[x] <= Len(log[x])
      /\ \A e : OnTopic(e) => OnTopic(e)' \/ e = m.id
  BY <1>2, <1>4, Delivered
<1>6. l \in Letters /\ Genuine(t, l.msg) /\ l.msg.id = m.id
  <2>1. PICK n : n = [m EXCEPT !.typed = FALSE]
    OBVIOUS
  <2>2. n \in Messages /\ Genuine(t, n) /\ n.id = m.id
    BY <1>5, <2>1 DEF Messages, Genuine
  <2>3. l = [msg |-> n, error |-> error]
    BY <1>1, <1>4, <2>1 DEF DeadLetter
  <2> QED BY <2>2, <2>3 DEF Letters
<1>7. DocInv' /\ PassInv' /\ HandledInv' /\ QuietInv' /\ WorkerInv'
  BY <1>2, <1>3, Frames, FaultCounted, NoRefreshIsIdle
<1>8. setting \in Settings /\ nextId \in Nat /\ nextId >= 1 /\ faults' \in Nat /\ restarts \in Nat
  BY <1>2 DEF Inv, SourceInv
<1>9. CASE /\ unsent' = [unsent EXCEPT ![t] = Append(@, l)] \/ (~setting.broker /\ unsent' = unsent)
           /\ Commit(t) /\ UNCHANGED <<dlq, lost, restarts>>
  <2>1. SourceInv' /\ RetryInv'
    BY <1>2, <1>3, <1>8, <1>9, Frames DEF Inv, SourceInv
  <2>2. KafkaInv'
    <3>1. /\ \A x \in Topics : \A i \in 1 .. Len(log'[x]) : Genuine(x, log[x][i])'
          /\ \A x \in Topics : \A i \in 1 .. Len(dlq'[x]) : Genuine(x, dlq[x][i].msg)'
      BY <1>2, <1>3, <1>9, LettersStand
    <3> QED BY <1>2, <1>5, <1>9, <3>1 DEF Inv, KafkaInv
  <2>3. /\ unsent' \in [Topics -> Seq(Letters)]
        /\ \A x \in Topics : /\ Len(unsent[x]) \in Nat /\ Len(unsent'[x]) \in Nat /\ Len(unsent[x]) <= Len(unsent'[x])
                             /\ \A i \in 1 .. Len(unsent[x]) : unsent'[x][i] = unsent[x][i]
        /\ \A x \in Topics : \A i \in 1 .. Len(unsent'[x]) :
             i \in 1 .. Len(unsent[x]) \/ (x = t /\ unsent'[x][i] = l)
        /\ setting.broker => Len(unsent[t]) + 1 \in 1 .. Len(unsent'[t]) /\ unsent'[t][Len(unsent[t]) + 1] = l
    <3>0. unsent \in [Topics -> Seq(Letters)] /\ \A x \in Topics : Len(unsent[x]) \in Nat
      BY OnRecord DEF Inv, ProducerInv
    <3>1. CASE unsent' = [unsent EXCEPT ![t] = Append(@, l)]
      <4>1. /\ unsent' \in [Topics -> Seq(Letters)]
            /\ Len(unsent'[t]) = Len(unsent[t]) + 1 /\ unsent'[t][Len(unsent[t]) + 1] = l
            /\ \A x \in Topics : /\ Len(unsent[x]) \in Nat /\ Len(unsent'[x]) \in Nat
                                 /\ Len(unsent[x]) <= Len(unsent'[x])
                                 /\ \A i \in 1 .. Len(unsent[x]) : unsent'[x][i] = unsent[x][i]
            /\ \A x \in Topics : \A i \in 1 .. Len(unsent'[x]) :
                 i \in 1 .. Len(unsent[x]) \/ (x = t /\ i = Len(unsent[t]) + 1 /\ unsent'[x][i] = l)
        <5>1. l \in Letters
          BY <1>6
        <5> QED BY ONLY <3>0, <3>1, <5>1, t \in Topics, Appended
      <4>2. Len(unsent[t]) + 1 \in 1 .. Len(unsent'[t])
        BY <3>0, <4>1
      <4> QED BY <4>1, <4>2
    <3>2. CASE ~setting.broker /\ unsent' = unsent
      BY <3>0, <3>2
    <3> QED BY <1>9, <3>1, <3>2
  <2>4. ProducerInv'
    <3>1. ASSUME NEW x \in Topics, NEW i \in 1 .. Len(unsent'[x]) PROVE Genuine(x, unsent[x][i].msg)'
      <4>1. PICK k : k = unsent'[x][i].msg
        OBVIOUS
      <4>2. Genuine(x, k)
        <5>1. CASE i \in 1 .. Len(unsent[x])
          BY <2>3, <4>1, <5>1, OnRecord
        <5>2. CASE x = t /\ unsent'[x][i] = l
          BY <1>6, <4>1, <5>2
        <5> QED BY <2>3, <5>1, <5>2
      <4> QED BY <1>3, <4>1, <4>2 DEF Genuine
    <3> QED BY <1>3, <1>9, <2>3, <3>1 DEF Inv, ProducerInv
  <2>5. Accounted'
    <3> SUFFICES ASSUME setting.broker, NEW e \in 1 .. nextId - 1 PROVE Somewhere(e)'
      BY <1>2, <1>3 DEF Accounted
    <3>1. Dead(e) => Dead(e)'
      BY <1>2, <1>9 DEF Dead
    <3>2. Unsent(e) => Unsent(e)'
      <4>1. ASSUME NEW x \in Topics, NEW i \in 1 .. Len(unsent[x]), unsent[x][i].msg.id = e PROVE Unsent(e)'
        <5>1. i \in 1 .. Len(unsent'[x]) /\ unsent'[x][i].msg.id = e
          BY <2>3, <4>1
        <5> QED BY <5>1 DEF Unsent
      <4> QED BY <4>1 DEF Unsent
    <3>3. e = m.id => Unsent(e)'
      <4>1. PICK i \in 1 .. Len(unsent'[t]) : unsent'[t][i] = l
        BY <2>3
      <4> QED BY <1>6, <4>1 DEF Unsent
    <3>4. Somewhere(e) /\ UNCHANGED <<applied, skipped, escalated, passed, lost>>
      BY <1>2, <1>3, <1>9 DEF Inv, Accounted
    <3> QED BY <1>5, <3>1, <3>2, <3>3, <3>4 DEF Somewhere
  <2> QED BY <1>7, <2>1, <2>2, <2>4, <2>5 DEF Inv
<1>10. CASE dlq' = [dlq EXCEPT ![t] = Append(@, l)] /\ Dies /\ UNCHANGED done
  <2>1. /\ ProducerInv' /\ lost \subseteq lost' /\ restarts' \in Nat /\ RetryInv'
        /\ \A e : Unsent(e) => Unsent(e)' \/ e \in lost'
    BY <1>2, <1>3, <1>10, ProducerMoves
  <2>2. SourceInv'
    BY <1>2, <1>3, <1>8, <2>1 DEF Inv, SourceInv
  <2>3. /\ KafkaInv'
        /\ \A e : (Dead(e) => Dead(e)') /\ (OnTopic(e) => OnTopic(e)')
    BY <1>2, <1>3, <1>6, <1>10, LetterArrives
  <2>4. Accounted'
    <3> SUFFICES ASSUME setting.broker, NEW e \in 1 .. nextId - 1 PROVE Somewhere(e)'
      BY <1>2, <1>3 DEF Accounted
    <3>1. Somewhere(e) /\ UNCHANGED <<applied, skipped, escalated, passed>>
      BY <1>2, <1>3 DEF Inv, Accounted
    <3> QED BY <2>1, <2>3, <3>1 DEF Somewhere
  <2> QED BY <1>7, <2>1, <2>2, <2>3, <2>4 DEF Inv
<1> QED BY <1>2, <1>9, <1>10

(* The coalescing window, Elasticsearch's refresh interval, the grace period.*)
LEMMA ClocksKeep == ASSUME Inv, Clocks PROVE Inv'
<1>1. /\ UNCHANGED <<setting, kafka, source, doc, hand, applied, skipped, pass>>
      /\ UNCHANGED <<hot, seen>> \/ (hot' = {} /\ seen' = Theirs)
      /\ aged' = aged \/ \E p \in Ids : doc[p].exists /\ aged' = aged \cup {p}
  BY DEF Clocks, WindowPasses, IndexRefreshes, IndexRefresh, GracePasses, index, worker
<1>2. UNCHANGED <<log, done, unsent, dlq, faults, rows, priced, stocked, told>>
  BY <1>1 DEF kafka, producer, dlqVars, source, stock
<1>3. SourceInv' /\ KafkaInv' /\ ProducerInv' /\ HandledInv' /\ RetryInv' /\ Accounted'
  BY <1>1, RefreshesKeeps
<1>4. WorkerInv' /\ PassInv' /\ QuietInv'
  BY <1>1, <1>2, Frames
<1>5. DocInv'
  <2>1. hot' \cup aged' \subseteq {p \in Ids : doc[p].exists}
    BY <1>1 DEF Inv, DocInv
  <2> QED BY <1>1, <1>2, <2>1 DEF Inv, DocInv, Theirs
<1> QED BY <1>3, <1>4, <1>5 DEF Inv

-----------------------------------------------------------------------------
(* The backfill *)

HasEnds(T) ==
  /\ \E m \in T : \A r \in T : r <= m
  /\ \E m \in T : \A r \in T : m <= r

(* A finite set of numbers has a greatest and a least element: a smallest    *)
(* set that lacks one would keep lacking it without any of its elements.     *)
LEMMA FiniteSetHasEnds ==
  ASSUME NEW S \in SUBSET Nat, IsFiniteSet(S), S # {}
  PROVE  HasEnds(S)
<1> DEFINE Bad == {T \in SUBSET S : T # {} /\ ~HasEnds(T)}
<1>1. Bad \subseteq FiniteSubsetsOf(S)
  BY FS_Subset DEF FiniteSubsetsOf
<1>2. SUFFICES ASSUME Bad # {} PROVE FALSE
  OBVIOUS
<1>3. PICK T \in Bad : \A U \in Bad : ~(<<U, T>> \in StrictSubsetOrdering(S))
  <2> HIDE DEF Bad
  <2> QED BY <1>1, <1>2, FS_StrictSubsetOrderingWellFounded, WFMin
<1>4. PICK x \in T : TRUE
  OBVIOUS
<1>5. ASSUME NEW U \in SUBSET T, U # {}, x \notin U PROVE HasEnds(U)
  <2>1. U \notin Bad
    BY <1>3, <1>4, <1>5 DEF StrictSubsetOrdering
  <2> QED BY <1>5, <2>1
<1>6. T \subseteq Nat
  OBVIOUS
<1>7. \E m \in T : \A r \in T : r <= m
  <2>1. CASE \A r \in T : r <= x
    BY <2>1
  <2>2. CASE \E r \in T : ~(r <= x)
    <3> DEFINE U == {r \in T : ~(r <= x)}
    <3>1. HasEnds(U)
      <4>1. x \notin U /\ U # {} /\ U \in SUBSET T
        BY <1>6, <2>2
      <4> QED BY <1>5, <4>1
    <3>2. PICK m \in U : \A r \in U : r <= m
      BY <3>1 DEF HasEnds
    <3> QED BY <1>6, <3>2
  <2> QED BY <2>1, <2>2
<1>8. \E m \in T : \A r \in T : m <= r
  <2>1. CASE \A r \in T : x <= r
    BY <2>1
  <2>2. CASE \E r \in T : ~(x <= r)
    <3> DEFINE U == {r \in T : ~(x <= r)}
    <3>1. HasEnds(U)
      <4>1. x \notin U /\ U # {} /\ U \in SUBSET T
        BY <1>6, <2>2
      <4> QED BY <1>5, <4>1
    <3>2. PICK m \in U : \A r \in U : m <= r
      BY <3>1 DEF HasEnds
    <3> QED BY <1>6, <3>2
  <2> QED BY <2>1, <2>2
<1> QED BY <1>7, <1>8 DEF HasEnds

Between(a, b) == {r \in rows : a < r /\ r < b}

(* SCAN_SQL: a batch has no holes, and one that is not full has the last row.*)
LEMMA ScanIsContiguous ==
  ASSUME Inv, IsFiniteSet(rows), NEW c \in Nat
  PROVE  /\ Scan(c) \subseteq rows /\ rows \subseteq Nat \ {0} /\ IsFiniteSet(Scan(c))
         /\ \A p \in Scan(c) : p > c
         /\ \A p \in rows, q \in Scan(c) : c < p /\ p <= q => p \in Scan(c)
         /\ is_complete(Scan(c)) => \A p \in rows : p > c => p \in Scan(c)
<1>1. rows \subseteq Nat \ {0} /\ IsFiniteSet(rows)
  BY SearchConstants DEF Inv, SourceInv
<1>2. Scan(c) = {p \in rows : p > c /\ Cardinality(Between(c, p)) < BATCH_SIZE}
  BY DEF Scan, Between
<1>3. IsFiniteSet(Scan(c)) /\ Scan(c) \subseteq rows
  BY <1>1, <1>2, FS_Subset
<1>4. \A p : IsFiniteSet(Between(c, p)) /\ Cardinality(Between(c, p)) \in Nat
  BY <1>1, FS_Subset, FS_CardinalityType DEF Between
<1>5. BATCH_SIZE \in Nat
  BY SearchConstants
<1>6. ASSUME NEW p \in rows, NEW q \in Scan(c), c < p, p <= q PROVE p \in Scan(c)
  <2>1. Between(c, p) \subseteq Between(c, q)
    <3>1. ASSUME NEW r \in rows, c < r, r < p PROVE r < q
      <4>1. r \in Nat /\ p \in Nat /\ q \in Nat
        BY <1>1, <1>3
      <4> QED BY <1>6, <3>1, <4>1
    <3> QED BY <3>1 DEF Between
  <2>2. Cardinality(Between(c, p)) <= Cardinality(Between(c, q))
    BY <1>4, <2>1, FS_Subset
  <2> QED BY <1>1, <1>2, <1>4, <1>5, <1>6, <2>2
<1>7. ASSUME is_complete(Scan(c)) PROVE \A p \in rows : p > c => p \in Scan(c)
  <2> DEFINE left_out == {p \in rows : p > c /\ p \notin Scan(c)}
  <2>1. SUFFICES ASSUME left_out # {} PROVE FALSE
    OBVIOUS
  <2>2. PICK p \in left_out : \A r \in left_out : p <= r
    <3>1. left_out \in SUBSET Nat /\ IsFiniteSet(left_out)
      BY <1>1, FS_Subset
    <3> HIDE DEF left_out
    <3> QED BY <2>1, <3>1, FiniteSetHasEnds DEF HasEnds
  <2>3. Between(c, p) \subseteq Scan(c)
    <3>1. ASSUME NEW r \in rows, c < r, r < p PROVE r \in Scan(c)
      <4>1. r \in Nat /\ p \in Nat
        BY <1>1
      <4>2. ~(p <= r) /\ r > c
        BY <3>1, <4>1
      <4> QED BY <2>2, <4>2
    <3> QED BY <3>1 DEF Between
  <2>4. Cardinality(Between(c, p)) <= Cardinality(Scan(c)) /\ Cardinality(Scan(c)) \in Nat
    BY <1>3, <2>3, FS_Subset, FS_CardinalityType
  <2>5. Cardinality(Between(c, p)) < BATCH_SIZE
    BY <1>4, <1>5, <1>7, <2>4 DEF is_complete
  <2> QED BY <1>2, <2>2, <2>5
<1> QED BY <1>1, <1>2, <1>3, <1>6, <1>7

(* A pass leaves the topics and the worker alone.                           *)
LEMMA PassMovesKeeps ==
  ASSUME Inv, PassMoves, UNCHANGED faults \/ faults' = faults + 1
  PROVE  /\ UNCHANGED <<log, done, unsent, dlq, rows, priced, stocked, told>>
         /\ SourceInv' /\ KafkaInv' /\ ProducerInv' /\ WorkerInv' /\ HandledInv' /\ RetryInv' /\ Accounted'
         /\ faults' = faults + 1 => QuietInv'
         /\ UNCHANGED <<faults, doc>> => QuietInv'
<1>1. UNCHANGED <<setting, log, done, unsent, lost, dlq, dpos, ddone, attempts, republished, escalated, passed,
                  restarts, nextId, rows, priced, stocked, told, hand, applied, skipped>>
  BY DEF PassMoves, producer, dlqVars, source, stock, worker
<1>2. faults' = faults + 1 => SourceInv' /\ QuietInv'
  BY <1>1, FaultCounted
<1>3. UNCHANGED faults => SourceInv'
  BY <1>1, Frames
<1>4. KafkaInv' /\ ProducerInv' /\ WorkerInv' /\ HandledInv' /\ RetryInv' /\ Accounted'
  BY <1>1, Frames
<1>5. UNCHANGED <<faults, doc>> => QuietInv'
  BY <1>1, Frames
<1> QED BY <1>1, <1>2, <1>3, <1>4, <1>5

(* A pass begins: every row is still ahead of the cursor.                   *)
LEMMA PassBeginKeeps == ASSUME Inv, PassBegin PROVE Inv'
<1>1. /\ pass' = [NoPass EXCEPT !.step = "scan", !.started = rows]
      /\ UNCHANGED <<setting, kafka, nextId, rows, priced, stock, index, worker>>
  BY DEF PassBegin
<1>2. UNCHANGED <<setting, log, done, unsent, lost, dlq, dpos, ddone, attempts, republished, escalated, passed,
                  faults, restarts, nextId, rows, priced, stocked, told,
                  hand, applied, skipped, doc, hot, seen, aged>>
  BY <1>1 DEF kafka, producer, dlqVars, stock, index, worker
<1>3. PassInv'
  <2>1. rows \subseteq Products /\ rows \subseteq Nat \ {0}
    BY SearchConstants DEF Inv, SourceInv
  <2>2. pass' = [step |-> "scan", cursor |-> 0, batch |-> {}, full |-> FALSE, started |-> rows,
                 failed |-> {}, hits |-> {}]
    BY <1>1 DEF NoPass
  <2>3. pass' \in Passes
    BY <2>1, <2>2 DEF Passes
  <2>4. /\ pass'.step = "scan" /\ pass'.batch = {} /\ pass'.started = rows /\ pass'.cursor = 0
    BY <2>2
  <2>5. \A p \in rows : ~(p <= 0)
    BY <2>1
  <2> QED BY <1>2, <2>3, <2>4, <2>5 DEF PassInv
<1> QED BY <1>2, <1>3, Frames DEF Inv

(* A batch is read: the rows up to the new cursor are done or in hand.      *)
LEMMA PassScansKeeps == ASSUME Inv, IsFiniteSet(rows), PassScans PROVE Inv'
<1>1. PICK c : c = pass.cursor
  OBVIOUS
<1>2. PICK b : b = Scan(c)
  OBVIOUS
<1>3. PICK top : top = IF b = {} THEN c ELSE CHOOSE p \in b : \A r \in b : r <= p
  OBVIOUS
<1>4. /\ pass.step = "scan" /\ UNCHANGED <<faults, index>> /\ PassMoves
      /\ pass' = [pass EXCEPT !.step = "rows", !.batch = b, !.full = ~is_complete(b), !.cursor = top]
  BY <1>1, <1>2, <1>3 DEF PassScans, Reindexing
<1>5. pass \in Passes /\ c \in Nat /\ pass.batch = {} /\ pass.started \subseteq rows
      /\ \A p \in pass.started : p <= c => p \in pass.failed \/ doc[p].sku
  BY <1>1, <1>4 DEF Inv, PassInv, Passes
<1>6. /\ b \subseteq rows /\ rows \subseteq Nat \ {0} /\ IsFiniteSet(b)
      /\ \A p \in b : p > c
      /\ \A p \in rows, q \in b : c < p /\ p <= q => p \in b
      /\ is_complete(b) => \A p \in rows : p > c => p \in b
  BY <1>2, <1>5, ScanIsContiguous
<1>7. /\ b = {} => top = c
      /\ b # {} => top \in b /\ \A r \in b : r <= top
  <2>1. ASSUME b # {} PROVE \E p \in b : \A r \in b : r <= p
    BY <1>6, <2>1, FiniteSetHasEnds DEF HasEnds
  <2> QED BY <1>3, <2>1
<1>8. top \in Nat /\ c <= top
  <2>1. CASE b = {}
    BY <1>5, <1>7, <2>1
  <2>2. CASE b # {}
    <3>1. top \in Nat /\ top > c
      BY <1>6, <1>7, <2>2
    <3> QED BY <1>5, <3>1
  <2> QED BY <2>1, <2>2
<1>9. /\ pass'.step = "rows" /\ pass'.batch = b /\ pass'.full = ~is_complete(b) /\ pass'.cursor = top
      /\ pass'.started = pass.started /\ pass'.failed = pass.failed /\ pass'.hits = pass.hits
  BY <1>4, <1>5 DEF Passes
<1>10. pass' \in Passes
  <2>1. b \in SUBSET Products
    BY <1>6 DEF Inv, SourceInv
  <2>2. (~is_complete(b)) \in BOOLEAN
    BY DEF is_complete
  <2> QED BY <1>4, <1>5, <1>8, <2>1, <2>2 DEF Passes
<1>11. ASSUME NEW p \in pass.started, p <= top PROVE p \in b \cup pass.failed \/ doc[p].sku
  <2>0. p \in Nat /\ p \in rows
    BY <1>5, <1>6
  <2>1. CASE p <= c
    BY <1>5, <2>1
  <2>2. CASE ~(p <= c)
    <3>1. c < p
      BY <1>5, <2>0, <2>2
    <3>2. b # {}
      BY <1>7, <1>11, <2>2
    <3> QED BY <1>6, <1>7, <1>11, <2>0, <3>1, <3>2
  <2> QED BY <2>1, <2>2
<1>12. ASSUME is_complete(b), NEW p \in pass.started PROVE p <= top
  <2>0. p \in Nat /\ p \in rows
    BY <1>5, <1>6
  <2>1. CASE p <= c
    BY <1>5, <1>8, <2>0, <2>1
  <2>2. CASE ~(p <= c)
    <3>1. p \in b
      BY <1>5, <1>6, <1>12, <2>0, <2>2
    <3> QED BY <1>7, <3>1
  <2> QED BY <2>1, <2>2
<1>13. UNCHANGED <<rows, doc, hot, seen, aged, priced, stocked>>
  BY <1>4, PassMovesKeeps DEF index
<1>14. PassInv'
  BY <1>5, <1>6, <1>9, <1>10, <1>11, <1>12, <1>13 DEF PassInv
<1>15. DocInv'
  BY <1>13, Frames
<1> QED BY <1>4, <1>13, <1>14, <1>15, PassMovesKeeps DEF Inv

(* One row of the batch: written, or logged as failed.                      *)
LEMMA PassRowKeeps == ASSUME Inv, IsFiniteSet(rows), PassRow PROVE Inv'
<1>1. PICK p : p = CHOOSE q \in pass.batch : \A r \in pass.batch : q <= r
  OBVIOUS
<1>2. /\ pass.step = "rows" /\ pass.batch # {} /\ PassMoves
      /\ \/ /\ Indexed(p, "catalog", build_document) /\ UNCHANGED faults
            /\ pass' = [pass EXCEPT !.batch = @ \ {p}]
         \/ /\ faults' = faults + 1 /\ UNCHANGED index
            /\ pass' = [pass EXCEPT !.batch = @ \ {p}, !.failed = @ \cup {p}]
  BY <1>1 DEF PassRow, Reindexing
<1>3. pass \in Passes /\ pass.batch \subseteq rows /\ pass.started \subseteq rows
      /\ rows \subseteq Products /\ Products \subseteq Ids /\ IsFiniteSet(rows) /\ rows \subseteq Nat
  BY SearchConstants DEF Inv, PassInv, SourceInv, Ids
<1>4. p \in pass.batch
  <2>1. \E q \in pass.batch : \A r \in pass.batch : q <= r
    <3>1. IsFiniteSet(pass.batch) /\ pass.batch \in SUBSET Nat
      BY <1>3, FS_Subset
    <3> QED BY <1>2, <3>1, FiniteSetHasEnds DEF HasEnds
  <2> QED BY <1>1, <2>1
<1>5. p \in rows /\ p \in Ids /\ p \in Products
  BY <1>3, <1>4
<1>6. /\ UNCHANGED <<log, done, unsent, dlq, rows, priced, stocked, told>>
      /\ SourceInv' /\ KafkaInv' /\ ProducerInv' /\ WorkerInv' /\ HandledInv' /\ RetryInv' /\ Accounted'
      /\ faults' = faults + 1 => QuietInv'
  BY <1>2, PassMovesKeeps
<1>7. CASE Indexed(p, "catalog", build_document) /\ UNCHANGED faults /\ pass' = [pass EXCEPT !.batch = @ \ {p}]
  <2>1. doc \in [Ids -> Docs] /\ doc[p] \in Docs
        /\ doc[p].price <= priced[p] /\ doc[p].stock <= stocked[p]
    BY <1>5 DEF Inv, DocInv
  <2>2. PICK d : d = write_product(doc[p], build_document)
    OBVIOUS
  <2>3. /\ doc' = [doc EXCEPT ![p] = d]
        /\ hot' = hot \cup {p} /\ aged' = aged \ {p} /\ UNCHANGED seen
    BY <1>7, <2>2 DEF Indexed
  <2>4. d \in Docs /\ d.exists /\ d.sku /\ d.base /\ d.price = doc[p].price /\ d.stock = doc[p].stock
    BY <2>1, <2>2, Merges
  <2>5. DocInv' /\ \A q \in Ids : doc[q].sku => doc'[q].sku
    BY <1>5, <1>6, <2>1, <2>3, <2>4, WriteKeeps
  <2>6. doc'[p].sku /\ \A q \in Ids : doc'[q].price = doc[q].price /\ doc'[q].stock = doc[q].stock
    BY <1>5, <2>1, <2>3, <2>4
  <2>7. PassInv'
    <3>1. /\ pass'.step = "rows" /\ pass'.batch = pass.batch \ {p} /\ pass'.full = pass.full
          /\ pass'.cursor = pass.cursor /\ pass'.started = pass.started /\ pass'.failed = pass.failed
          /\ pass' \in Passes
      BY <1>2, <1>3, <1>7 DEF Passes
    <3>2. ASSUME NEW q \in pass.started, q <= pass.cursor
          PROVE  q \in (pass.batch \ {p}) \cup pass.failed \/ doc'[q].sku
      <4>1. q \in Ids /\ (q \in pass.batch \cup pass.failed \/ doc[q].sku)
        BY <1>2, <1>3, <3>2 DEF Inv, PassInv
      <4> QED BY <2>5, <2>6, <4>1
    <3> QED BY <1>2, <1>3, <1>6, <3>1, <3>2 DEF Inv, PassInv
  <2>8. QuietInv'
    <3>1. \A q \in rows : PriceHolds(q) /\ StockHolds(q)
      BY <1>3, <2>6 DEF PriceHolds, StockHolds
    <3>2. \A x \in {"Product", "Price", "Inventory"} : x \in Topics /\ done'[x] = done[x] /\ done[x] \in Nat
      BY <1>6, SearchConstants DEF Inv, KafkaInv
    <3>3. \A x \in {"Product", "Price", "Inventory"} : Advance(x) /\ ~Committed(x)
      BY <3>2 DEF Advance, Committed
    <3>4. faults = 0 => \A q \in Ids : doc'[q].stock <= told[q]
      BY <2>6, StockStays
    <3> QED BY <1>6, <1>7, <2>5, <3>1, <3>3, <3>4, QuietMoves
  <2> QED BY <1>6, <2>5, <2>7, <2>8 DEF Inv
<1>8. CASE /\ faults' = faults + 1 /\ UNCHANGED index
           /\ pass' = [pass EXCEPT !.batch = @ \ {p}, !.failed = @ \cup {p}]
  <2>1. DocInv' /\ UNCHANGED doc
    BY <1>6, <1>8, Frames DEF index
  <2>2. PassInv'
    <3>1. /\ pass'.step = "rows" /\ pass'.batch = pass.batch \ {p} /\ pass'.full = pass.full
          /\ pass'.cursor = pass.cursor /\ pass'.started = pass.started
          /\ pass'.failed = pass.failed \cup {p}
      BY <1>2, <1>3, <1>8 DEF Passes
    <3>2. pass' \in Passes
      BY <1>3, <1>5, <1>8 DEF Passes
    <3> QED BY <1>2, <1>3, <1>6, <2>1, <3>1, <3>2 DEF Inv, PassInv
  <2> QED BY <1>6, <1>8, <2>1, <2>2 DEF Inv
<1> QED BY <1>2, <1>7, <1>8

(* A batch ends, a search for orphans begins, a pass is over.               *)
LEMMA PassStepsKeep ==
  ASSUME Inv, PassBatchEnds \/ ReapSearches \/ PassEnds
  PROVE  Inv'
<1>1. UNCHANGED index /\ PassMoves /\ (UNCHANGED faults \/ faults' = faults + 1)
  BY DEF PassBatchEnds, ReapSearches, PassEnds
<1>2. UNCHANGED <<rows, priced, stocked, doc, hot, seen, aged>>
  BY <1>1, PassMovesKeeps DEF index
<1>3. SourceInv' /\ KafkaInv' /\ ProducerInv' /\ WorkerInv' /\ HandledInv' /\ RetryInv' /\ Accounted' /\ QuietInv'
  BY <1>1, <1>2, PassMovesKeeps
<1>4. DocInv'
  BY <1>2, Frames
<1>5. pass \in Passes /\ pass.batch \subseteq rows /\ pass.started \subseteq rows
  BY DEF Inv, PassInv
<1>6. PassInv'
  <2>1. CASE PassBatchEnds
    <3>1. /\ pass.step = "rows" /\ pass.batch = {}
          /\ pass' = [pass EXCEPT !.step = IF pass.full THEN "scan" ELSE "scanned"]
      BY <2>1 DEF PassBatchEnds, Reindexing
    <3>2. /\ pass' \in Passes /\ pass'.step = (IF pass.full THEN "scan" ELSE "scanned")
          /\ pass'.batch = {} /\ pass'.started = pass.started /\ pass'.failed = pass.failed
          /\ pass'.cursor = pass.cursor
      BY <1>5, <3>1 DEF Passes
    <3>3. \A q \in pass.started : q <= pass.cursor => q \in pass.failed \/ doc[q].sku
      BY <3>1 DEF Inv, PassInv
    <3>4. ~pass.full => \A q \in pass.started : q <= pass.cursor
      BY <3>1 DEF Inv, PassInv
    <3> QED BY <1>2, <1>5, <3>2, <3>3, <3>4 DEF PassInv
  <2>2. CASE pass' = NoPass
    BY <2>2 DEF PassInv, Passes, NoPass
  <2>3. CASE pass' = [pass EXCEPT !.step = "reap", !.hits = {p \in Ids \ hot : doc[p].exists /\ is_reapable(p)}]
    <3>1. PICK h \in SUBSET Ids : h = {p \in Ids \ hot : doc[p].exists /\ is_reapable(p)}
      OBVIOUS
    <3>2. pass' = [pass EXCEPT !.step = "reap", !.hits = h]
      BY <2>3, <3>1
    <3>3. pass' \in Passes /\ pass'.step = "reap" /\ pass'.batch = pass.batch /\ pass'.started = pass.started
      BY <1>5, <3>2 DEF Passes
    <3> QED BY <1>2, <1>5, <3>3 DEF PassInv
  <2> QED BY <2>1, <2>2, <2>3 DEF ReapSearches, PassEnds
<1> QED BY <1>3, <1>4, <1>6 DEF Inv

(* The reaper deletes only what the products table does not have.           *)
LEMMA ReapKeeps ==
  ASSUME Inv, NEW p \in Ids, Reap(p)
  PROVE  Inv'
<1>1. /\ pass.step = "reap" /\ pass' = [pass EXCEPT !.hits = @ \ {p}] /\ PassMoves
      /\ \/ UNCHANGED <<index, faults>>
         \/ /\ p \notin rows /\ UNCHANGED <<seen, faults>>
            /\ doc' = [doc EXCEPT ![p] = NoDoc] /\ hot' = hot \ {p} /\ aged' = aged \ {p}
         \/ faults' = faults + 1 /\ UNCHANGED index
  BY DEF Reap, Reindexing
<1>2. /\ UNCHANGED <<log, done, unsent, dlq, rows, priced, stocked, told>>
      /\ SourceInv' /\ KafkaInv' /\ ProducerInv' /\ WorkerInv' /\ HandledInv' /\ RetryInv' /\ Accounted'
      /\ faults' = faults + 1 => QuietInv'
      /\ UNCHANGED <<faults, doc>> => QuietInv'
  BY <1>1, PassMovesKeeps
<1>3. PassInv'
  <2>1. pass \in Passes /\ pass.batch \subseteq rows /\ pass.started \subseteq rows
    BY DEF Inv, PassInv
  <2>2. pass' \in Passes /\ pass'.step = "reap" /\ pass'.batch = pass.batch /\ pass'.started = pass.started
    BY <1>1, <2>1 DEF Passes
  <2> QED BY <1>2, <2>1, <2>2 DEF PassInv
<1>4. CASE UNCHANGED index
  <2>1. DocInv' /\ UNCHANGED doc
    BY <1>2, <1>4, Frames DEF index
  <2>2. UNCHANGED faults \/ faults' = faults + 1
    BY <1>1
  <2> QED BY <1>2, <1>3, <2>1, <2>2 DEF Inv
<1>5. CASE /\ p \notin rows /\ UNCHANGED <<seen, faults>>
           /\ doc' = [doc EXCEPT ![p] = NoDoc] /\ hot' = hot \ {p} /\ aged' = aged \ {p}
  <2>1. doc \in [Ids -> Docs] /\ ~doc[p].sku /\ priced \in [Ids -> Nat] /\ stocked \in [Ids -> Nat]
        /\ told \in [Ids -> Nat] /\ rows \subseteq Ids
    BY <1>5 DEF Inv, DocInv, SourceInv, Ids
  <2>2. NoDoc \in Docs /\ NoDoc.price = 0 /\ NoDoc.stock = 0 /\ NoDoc.sku = FALSE
    BY DEF NoDoc, Docs
  <2>3. doc' \in [Ids -> Docs] /\ doc'[p] = NoDoc /\ \A q \in Ids : q # p => doc'[q] = doc[q]
    BY <1>5, <2>1, <2>2
  <2>4. \A q \in Ids : doc[q].sku => q # p /\ doc'[q].sku
    BY <2>1, <2>3
  <2>5. DocInv'
    <3>1. ASSUME NEW q \in Ids
          PROVE  /\ doc'[q].price <= priced[q] /\ doc'[q].stock <= stocked[q]
                 /\ ~doc'[q].exists => doc'[q] = NoDoc
                 /\ doc'[q].sku => doc'[q].base /\ q \in rows
      <4>1. CASE q = p
        BY <2>1, <2>2, <2>3, <4>1
      <4>2. CASE q # p
        BY <2>3, <4>2 DEF Inv, DocInv
      <4> QED BY <4>1, <4>2
    <3>2. hot' \cup aged' \subseteq {q \in Ids : doc'[q].exists}
      <4>1. hot \cup aged \subseteq {q \in Ids : doc[q].exists}
        BY DEF Inv, DocInv
      <4> QED BY <1>5, <2>3, <4>1
    <3>3. seen' \subseteq Theirs'
      <4>1. seen \subseteq Theirs
        BY DEF Inv, DocInv
      <4> QED BY <1>5, <2>4, <4>1 DEF Theirs
    <3> QED BY <1>2, <2>3, <3>1, <3>2, <3>3 DEF DocInv
  <2>6. QuietInv'
    <3>1. \A q \in rows : PriceHolds(q) /\ StockHolds(q)
      BY <1>5, <2>1, <2>3 DEF PriceHolds, StockHolds
    <3>2. \A x \in {"Product", "Price", "Inventory"} : x \in Topics /\ done'[x] = done[x] /\ done[x] \in Nat
      BY <1>2, SearchConstants DEF Inv, KafkaInv
    <3>3. \A x \in {"Product", "Price", "Inventory"} : Advance(x) /\ ~Committed(x)
      BY <3>2 DEF Advance, Committed
    <3>4. ASSUME faults = 0, NEW q \in Ids PROVE doc'[q].stock <= told[q]
      <4>1. doc[q].stock <= told[q]
        BY <3>4 DEF Inv, QuietInv
      <4> QED BY <2>1, <2>2, <2>3, <4>1
    <3> QED BY <1>2, <1>5, <2>4, <3>1, <3>3, <3>4, QuietMoves
  <2> QED BY <1>2, <1>3, <2>5, <2>6 DEF Inv
<1> QED BY <1>1, <1>4, <1>5

(* Every step keeps the invariant.                                           *)
LEMMA NextKeeps == ASSUME Inv, IsFiniteSet(rows), [SearchNext]_searchVars PROVE Inv'
<1>1. CASE Sources
  BY <1>1, SourcesKeep
<1>2. CASE Consume
  BY <1>2, HandleDocumentKeeps, HandleSkipsKeeps, RefreshBeginKeeps, RefreshStepsKeep, WriteSignalsKeeps,
     RefreshEndKeeps DEF Consume
<1>3. CASE ConsumeFails
  BY <1>3, VerifyFailsKeeps, ProcessorDiesKeeps, HandleFailsKeeps DEF ConsumeFails
<1>4. CASE Reindex
  BY <1>4, PassBeginKeeps, PassScansKeeps, PassRowKeeps, PassStepsKeep, ReapKeeps DEF Reindex
<1>5. CASE Clocks
  BY <1>5, ClocksKeep
<1>6. CASE ReprocessorNext /\ UNCHANGED <<source, index, worker, pass>>
  BY <1>6, ReprocessorKeeps
<1>7. CASE (\E t \in Topics : LetterIsSent(t)) /\ UNCHANGED <<source, index, worker, pass>>
  BY <1>7, LetterIsSentKeeps
<1>8. CASE UNCHANGED searchVars
  <2>1. UNCHANGED <<setting, log, done, unsent, lost, dlq, dpos, ddone, attempts, republished, escalated,
                    passed, faults, restarts, nextId, rows, priced, stocked, told,
                    doc, hot, seen, aged, hand, applied, skipped, pass>>
    BY <1>8 DEF searchVars, kafka, producer, dlqVars, source, stock, index, worker
  <2>2. SourceInv' /\ KafkaInv' /\ ProducerInv' /\ DocInv' /\ WorkerInv'
    BY <2>1, Frames
  <2>3. HandledInv' /\ RetryInv' /\ Accounted' /\ PassInv' /\ QuietInv'
    BY <2>1, Frames
  <2> QED BY <2>2, <2>3 DEF Inv
<1> QED BY <1>1, <1>2, <1>3, <1>4, <1>5, <1>6, <1>7, <1>8 DEF SearchNext

(* Products are listed one at a time, and never removed.                    *)
LEMMA RowsStayFinite ==
  ASSUME IsFiniteSet(rows), [SearchNext]_searchVars
  PROVE  IsFiniteSet(rows')
<1>1. CASE Sources
  <2>1. rows' = rows \/ \E p \in Products : rows' = rows \cup {p}
    BY <1>1 DEF Sources, ProductIsListed, StockIsReserved, StockIsReleased, StockIsConsumed, ReservationFails,
                PriceIsSet, StandingChanges, ReviewIsPublished
  <2> QED BY <2>1, FS_AddElement
<1>2. CASE Consume
  BY <1>2 DEF Consume, HandleDocument, HandleSkips, RefreshBegin, FetchSignals, WriteSignals, VerifyVisibility,
              SleepAndRetry, RefreshEnd, Refreshes, source
<1>3. CASE ConsumeFails
  BY <1>3 DEF ConsumeFails, VerifyFails, ProcessorDies, HandleFails, source
<1>4. CASE Reindex
  BY <1>4 DEF Reindex, PassBegin, PassScans, PassRow, PassBatchEnds, ReapSearches, PassEnds, Reap, PassMoves, source
<1>5. CASE Clocks
  BY <1>5 DEF Clocks, WindowPasses, IndexRefreshes, GracePasses, source
<1>6. CASE UNCHANGED source
  BY <1>6 DEF source
<1> QED BY <1>1, <1>2, <1>3, <1>4, <1>5, <1>6 DEF SearchNext, searchVars

-----------------------------------------------------------------------------
(* The invariant of the search read model holds in every reachable state.    *)
THEOREM SearchInvariant == SearchSpec => [](Inv /\ IsFiniteSet(rows))
<1>1. SearchInit => Inv /\ IsFiniteSet(rows)
  BY InitHolds, SearchConstants DEF SearchInit, DeadLettersInit
<1>2. Inv /\ IsFiniteSet(rows) /\ [SearchNext]_searchVars => (Inv /\ IsFiniteSet(rows))'
  BY NextKeeps, RowsStayFinite
<1> QED BY <1>1, <1>2, PTL DEF SearchSpec

(* While the broker keeps what it is given, an event leaves the topics, the   *)
(* producer's buffer, the dead letters, the index and the audit log in two    *)
(* ways only: its dead letter was passed over, or was in the buffer of a      *)
(* worker that died.  With Redis up, none is republished more often than      *)
(* MAX_RETRIES and the restarts account for (KafkaAvroConsumer.consume,       *)
(* _route_to_dlq, handle of dlq-reprocessor).                                 *)
THEOREM LettersStayAccountedFor == SearchSpec => []LettersAreAccountedFor
<1>1. Inv => LettersAreAccountedFor
  BY AccountedFor
<1> QED BY <1>1, SearchInvariant, PTL

(* Once stream-processor has caught up and nothing failed, the index has     *)
(* every product, at the latest price and at the stock its last reservation  *)
(* left, whatever is released or consumed since (event_router, read_model).  *)
THEOREM QuietIndexStaysTrue == SearchSpec => []QuietIndexIsTrue
<1>1. Inv => QuietIndexIsTrue
  BY TrueWhenQuiet
<1> QED BY <1>1, SearchInvariant, PTL

(* A backfill has, when its scan ends, indexed every row that existed when   *)
(* it began and was not logged as failed, for every batch size (run_pass).   *)
THEOREM ReindexStaysComplete == SearchSpec => []ReindexIsComplete
<1>1. Inv => ReindexIsComplete
  BY DEF Inv, PassInv, ReindexIsComplete, Reindexing
<1> QED BY <1>1, SearchInvariant, PTL

===============================================================================

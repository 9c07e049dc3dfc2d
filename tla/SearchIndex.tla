----------------------------- MODULE SearchIndex -----------------------------
(***************************************************************************)
(* The search read model: the services that publish product, price, stock   *)
(* and seller events, stream-processor (which folds them into Elasticsearch)*)
(* with its seller-signal projection, reindex-worker (which backfills and   *)
(* reaps the same documents) and the filter search-service applies.         *)
(*                                                                         *)
(* One seller owns every product: a refresh is per seller, and an event of  *)
(* another seller would select other documents.  A product is a number, its *)
(* place in the (created_at, id) order reindex-worker scans by.  Prices and *)
(* available quantities are version numbers, 0 for what nobody has written. *)
(***************************************************************************)
EXTENDS DeadLetters

CONSTANTS
  Products,         \* product ids, naturals from 1 on
  Ghost,            \* an id pricing is asked to price and catalog never had
  BATCH_SIZE,
  VISIBILITY_ATTEMPTS

ASSUME SearchConstants ==
  /\ {"Product", "Price", "Inventory", "Seller"} \subseteq Topics
  /\ Products \subseteq Nat \ {0} /\ Ghost \notin Products
  /\ BATCH_SIZE \in Nat /\ VISIBILITY_ATTEMPTS \in Nat
  /\ \A s \in Settings : s.listed \subseteq Products /\ IsFiniteSet(s.listed)

\* A setting also has .ops, how many of each operation may happen, and
\* .outage, whether seller-service can be unreachable.
VARIABLES
  left,             \* operations still allowed
  nextId,           \* id of the next event
  rows,             \* catalog_db: products that exist
  priced, stocked,  \* pricing_db and inventory_db: current version per product
  held,             \* inventory_db: reservations of the product that are still held
  told,             \* the version the last InventoryReserved of the product carried
  standing,         \* seller_db: "active" or "suspended"
  doc,              \* Elasticsearch: document per id, or NoDoc
  hot,              \* documents written since the index was last refreshed
  seen,             \* the seller's documents, as the index was last refreshed
  aged,             \* documents whose updated_at is older than the grace period
  hand,             \* the seller refresh stream-processor is in, or NoRefresh
  fresh,            \* the seller was refreshed within the coalescing window
  applied, skipped, \* events folded into the index, events passed over unread
  pass              \* reindex-worker's pass

stock == <<stocked, held, told>>
source == <<left, nextId, rows, priced, stock, standing>>
index == <<doc, hot, seen, aged>>
worker == <<hand, fresh, applied, skipped>>
kafka == <<log, done, producer, dlqVars, faults, restarts>>
searchVars == <<setting, kafka, source, index, worker, pass>>

Ids == Products \cup {Ghost}
NoDoc == [exists |-> FALSE, sku |-> FALSE, base |-> FALSE, price |-> 0, stock |-> 0,
          may_sell |-> "unknown", mark |-> FALSE]
NoRefresh == [step |-> "none", force |-> FALSE, value |-> "unknown", tries |-> 0]
NoPass == [step |-> "none", cursor |-> 0, batch |-> {}, full |-> FALSE, started |-> {},
           failed |-> {}, hits |-> {}]

SearchInit ==
  /\ DeadLettersInit
  /\ left = setting.ops
  /\ nextId = 1
  /\ rows = setting.listed /\ standing = "active"
  /\ priced = [i \in Ids |-> 0] /\ stocked = [i \in Ids |-> 0]
  /\ held = [i \in Ids |-> 0] /\ told = [i \in Ids |-> 0]
  /\ doc = [i \in Ids |-> IF i \in setting.listed
                          THEN [NoDoc EXCEPT !.exists = TRUE, !.sku = TRUE, !.base = TRUE]
                          ELSE NoDoc]
  /\ hot = {} /\ seen = setting.listed /\ aged = setting.listed
  /\ hand = NoRefresh /\ fresh = FALSE /\ applied = {} /\ skipped = {}
  /\ pass = NoPass

-----------------------------------------------------------------------------
(* The services: a row and its outbox event, in one transaction.  Debezium   *)
(* carries the event's type in a header.                                     *)

Emits(op, t, kind, subject, value) ==
  /\ left[op] > 0 /\ left' = [left EXCEPT ![op] = @ - 1]
  /\ nextId \in EventIds /\ nextId' = nextId + 1
  /\ log' = [log EXCEPT ![t] = Append(@,
       [id |-> nextId, kind |-> kind, subject |-> subject, value |-> value, typed |-> TRUE])]
  /\ UNCHANGED <<setting, done, producer, dlqVars, faults, restarts, index, worker, pass>>

ProductIsListed(p) ==
  /\ p \notin rows /\ rows' = rows \cup {p}
  /\ Emits("list", "Product", "ProductCreated", p, 0)
  /\ UNCHANGED <<priced, stock, standing>>

PriceIsSet(p) ==
  /\ p \in rows \cup {Ghost}
  /\ priced' = [priced EXCEPT ![p] = @ + 1]
  /\ Emits("price", "Price", "PriceUpdated", p, priced'[p])
  /\ UNCHANGED <<rows, stock, standing>>

\* reserve_inventory, release_inventory and consume_inventory: units leave the
\* available quantity, come back to it, or are retired from what is held.
StockIsReserved(p) ==
  /\ p \in rows
  /\ stocked' = [stocked EXCEPT ![p] = @ + 1] /\ told' = [told EXCEPT ![p] = stocked'[p]]
  /\ held' = [held EXCEPT ![p] = @ + 1]
  /\ Emits("stock", "Inventory", "InventoryReserved", p, stocked'[p])
  /\ UNCHANGED <<rows, priced, standing>>

StockIsReleased(p) ==
  /\ p \in rows /\ held[p] > 0
  /\ stocked' = [stocked EXCEPT ![p] = @ + 1] /\ held' = [held EXCEPT ![p] = @ - 1]
  /\ Emits("return", "Inventory", "InventoryReleased", p, stocked'[p])
  /\ UNCHANGED <<rows, priced, told, standing>>

StockIsConsumed(p) ==
  /\ p \in rows /\ held[p] > 0
  /\ held' = [held EXCEPT ![p] = @ - 1]
  /\ Emits("return", "Inventory", "InventoryConsumed", p, stocked[p])
  /\ UNCHANGED <<rows, priced, stocked, told, standing>>

ReservationFails(p) ==
  /\ p \in rows
  /\ Emits("refuse", "Inventory", "InventoryReservationFailed", p, 0)
  /\ UNCHANGED <<rows, priced, stock, standing>>

StandingChanges ==
  /\ standing' = IF standing = "active" THEN "suspended" ELSE "active"
  /\ Emits("stand", "Seller",
           IF standing = "active" THEN "SellerSuspended" ELSE "SellerReinstated", 0, 0)
  /\ UNCHANGED <<rows, priced, stock>>

ReviewIsPublished ==
  /\ Emits("review", "Seller", "ReviewPublished", 0, 0)
  /\ UNCHANGED <<rows, priced, stock, standing>>

-----------------------------------------------------------------------------
(* stream-processor: which event is this *)

VISIBILITY_EVENTS == {"SellerSuspended", "SellerReinstated"}
SELLER_SIGNAL_EVENTS == VISIBILITY_EVENTS \cup {"ReviewPublished"}
INDEXED_EVENTS == {"ProductCreated", "PriceUpdated", "InventoryReserved"} \cup SELLER_SIGNAL_EVENTS

\* What the fields of a payload look like: whatever tells of a total available
\* quantity looks like a reservation, and a seller event looks like nothing.
Shape(kind) ==
  CASE kind \in {"ProductCreated", "PriceUpdated", "InventoryReservationFailed"} -> kind
    [] kind \in {"InventoryReserved", "InventoryReleased", "InventoryConsumed"} -> "InventoryReserved"
    [] OTHER -> "None"

\* The header, or the shape of the payload.
infer_event_type(m) == IF m.typed THEN m.kind ELSE Shape(m.kind)

changes_visibility(kind) == kind \in VISIBILITY_EVENTS

-----------------------------------------------------------------------------
(* Writes to a document *)

Theirs == {p \in Ids : doc[p].sku}

\* Elasticsearch makes what was written visible to queries.
IndexRefresh == hot' = {} /\ seen' = Theirs

\* PRODUCT_FIELD_OWNERS and fields_owned_by; "exists" is the document itself.
fields_owned_by(owner) ==
  {"exists"} \cup CASE owner = "catalog"   -> {"sku", "base", "mark"}
                   [] owner = "pricing"   -> {"price"}
                   [] owner = "inventory" -> {"stock"}
                   [] owner = "seller"    -> {"may_sell"}

\* Fault: es.index, which replaces the document.
WholeDocument(d, fields) == [k \in DOMAIN NoDoc |-> IF k \in DOMAIN fields THEN fields[k] ELSE NoDoc[k]]

\* write_product: a partial upsert.
write_product(d, fields) == [k \in DOMAIN NoDoc |-> IF k \in DOMAIN fields THEN fields[k] ELSE d[k]]

Indexed(p, owner, fields) ==
  /\ DOMAIN fields \subseteq fields_owned_by(owner)
  /\ doc' = [doc EXCEPT ![p] = write_product(@, fields)]
  /\ hot' = hot \cup {p} /\ aged' = aged \ {p} /\ UNCHANGED seen

\* process_event, for the events that write one document.
Fields(kind, value) ==
  CASE kind = "ProductCreated"    -> [exists |-> TRUE, sku |-> TRUE, base |-> TRUE]
    [] kind = "PriceUpdated"      -> [exists |-> TRUE, price |-> value]
    [] kind = "InventoryReserved" -> [exists |-> TRUE, stock |-> value]

Owner(kind) ==
  CASE kind = "ProductCreated"    -> "catalog"
    [] kind = "PriceUpdated"      -> "pricing"
    [] kind = "InventoryReserved" -> "inventory"

Idle == hand = NoRefresh

\* callback_wrapper, process_event and the commit.
HandleDocument(t) ==
  /\ Idle /\ HasNext(t)
  /\ LET m == Message(t)
         kind == infer_event_type(m)
     IN  /\ kind \in INDEXED_EVENTS \ SELLER_SIGNAL_EVENTS
         /\ Indexed(m.subject, Owner(kind), Fields(kind, m.value))
         /\ applied' = applied \cup {m.id}
  /\ CommitOrDie(t)
  /\ fresh' = (fresh /\ restarts' = restarts)
  /\ UNCHANGED <<setting, log, dlqVars, faults, source, hand, skipped, pass>>

\* Unrecognised, or known and of no interest here: committed and gone.
HandleSkips(t) ==
  /\ Idle /\ HasNext(t)
  /\ infer_event_type(Message(t)) \notin INDEXED_EVENTS
  /\ skipped' = skipped \cup {Message(t).id}
  /\ Commit(t)
  /\ UNCHANGED <<setting, log, producer, dlqVars, faults, restarts, source, index, hand, fresh, applied, pass>>
-----------------------------------------------------------------------------
(* stream-processor: refresh_seller.  The consumer has the message in hand    *)
(* from the fetch to the commit, and reads nothing else meanwhile.           *)

Refreshing(step) == hand.step = step

\* refresh_seller: a refresh too soon after the last is dropped, unless forced.
RefreshBegin ==
  /\ Idle /\ HasNext("Seller")
  /\ LET m == Message("Seller")
         kind == infer_event_type(m)
         force == changes_visibility(kind)
     IN  /\ kind \in SELLER_SIGNAL_EVENTS
         /\ IF fresh /\ ~force
            THEN Commit("Seller") /\ applied' = applied \cup {m.id} /\ UNCHANGED hand
            ELSE /\ hand' = [NoRefresh EXCEPT !.step = "fetch", !.force = force]
                 /\ UNCHANGED <<done, applied>>
  /\ UNCHANGED <<setting, log, producer, dlqVars, faults, restarts, source, index, fresh, skipped, pass>>

Refreshes == UNCHANGED <<setting, kafka, source, fresh, applied, skipped, pass>>

\* fetch_signals: what seller-service says now; no answer is "unknown".
FetchSignals ==
  /\ Refreshing("fetch")
  /\ \E v \in {IF standing = "active" THEN "yes" ELSE "no"}
            \cup (IF setting.outage THEN {"unknown"} ELSE {}) :
       hand' = [hand EXCEPT !.step = "write", !.value = v]
  /\ UNCHANGED index /\ Refreshes

\* Fault: a forced refresh believes what update_by_query reports.
WriteAndBelieve ==
  /\ Refreshing("write")
  /\ LET reached == seen \ hot
     IN  doc' = [p \in Ids |-> IF p \in reached THEN [doc[p] EXCEPT !.may_sell = hand.value] ELSE doc[p]]
  /\ hand' = [hand EXCEPT !.step = "finish"]
  /\ UNCHANGED <<hot, seen, aged>> /\ Refreshes

\* update_by_query works on the index as last refreshed: a document written
\* since is a version conflict and is skipped, a new one is not seen.  It
\* refreshes the index itself when it has written something.
WriteSignals ==
  /\ Refreshing("write")
  /\ LET reached == seen \ hot
     IN  /\ doc' = [p \in Ids |-> IF p \in reached THEN [doc[p] EXCEPT !.may_sell = hand.value] ELSE doc[p]]
         /\ IF reached = {} THEN UNCHANGED <<hot, seen>> ELSE IndexRefresh
  /\ hand' = [hand EXCEPT !.step = IF hand.force /\ hand.value # "unknown" THEN "verify" ELSE "finish"]
  /\ UNCHANGED aged /\ Refreshes

\* _ensure_visibility_applied: count the documents that disagree.
VerifyVisibility ==
  /\ Refreshing("verify")
  /\ LET stale == {p \in seen : doc[p].may_sell # hand.value}
     IN  hand' = IF stale = {} \/ hand.tries = VISIBILITY_ATTEMPTS
                 THEN [hand EXCEPT !.step = "finish"]
                 ELSE [hand EXCEPT !.step = "sleep", !.tries = @ + 1]
  /\ UNCHANGED index /\ Refreshes

\* The second sleep ends more than a refresh interval after the first write.
SleepAndRetry ==
  /\ Refreshing("sleep")
  /\ IF hand.tries >= 2 THEN IndexRefresh ELSE UNCHANGED <<hot, seen>>
  /\ hand' = [hand EXCEPT !.step = "write"]
  /\ UNCHANGED <<doc, aged>> /\ Refreshes

\* A count that raises ends the verification; a retry that raises is logged.
VerifyFails ==
  /\ faults < setting.faults /\ faults' = faults + 1
  /\ \/ Refreshing("verify") /\ hand' = [hand EXCEPT !.step = "finish"]
     \/ Refreshing("write") /\ hand.tries > 0 /\ hand' = [hand EXCEPT !.step = "verify"]
  /\ UNCHANGED <<setting, log, done, producer, dlqVars, restarts, source, index, fresh, applied, skipped, pass>>

\* _mark_refreshed, and the commit; a worker that dies here reads the message
\* again with no memory of the refresh.
RefreshEnd ==
  /\ Refreshing("finish")
  /\ CommitOrDie("Seller")
  /\ fresh' = (restarts' = restarts)
  /\ applied' = applied \cup {Message("Seller").id}
  /\ hand' = NoRefresh
  /\ UNCHANGED <<setting, log, dlqVars, faults, source, index, skipped, pass>>

\* The message cannot be decoded, or Elasticsearch raises before or during
\* the first write.
HandleFails(t, error) ==
  /\ Idle \/ (t = "Seller" /\ error = "fault" /\ Refreshing("write") /\ hand.tries = 0)
  /\ Fails(t, error)
  /\ hand' = NoRefresh
  /\ fresh' = (fresh /\ restarts' = restarts)
  /\ UNCHANGED <<source, index, applied, skipped, pass>>

\* stream-processor dies, in the middle of a refresh or with letters unsent.
ProcessorDies ==
  /\ Dies
  /\ hand' = NoRefresh /\ fresh' = FALSE
  /\ UNCHANGED <<setting, log, done, dlqVars, faults, source, index, applied, skipped, pass>>

\* REFRESH_COALESCE_SECONDS pass.
WindowPasses ==
  /\ fresh /\ fresh' = FALSE
  /\ UNCHANGED <<setting, kafka, source, index, hand, applied, skipped, pass>>

\* Elasticsearch's refresh interval, and REAP_GRACE_SECONDS.
IndexRefreshes ==
  /\ hot # {} /\ IndexRefresh
  /\ UNCHANGED <<setting, kafka, source, doc, aged, worker, pass>>
GracePasses(p) ==
  /\ left.reap > 0
  /\ doc[p].exists /\ p \notin aged /\ aged' = aged \cup {p}
  /\ UNCHANGED <<setting, kafka, source, doc, hot, seen, worker, pass>>
-----------------------------------------------------------------------------
(* reindex-worker: run_pass, then reap_pass *)

Reindexing(step) == pass.step = step
PassMoves == UNCHANGED <<setting, log, done, producer, dlqVars, restarts, source, worker>>

\* Fault: a full batch is taken for the last one.
FullIsComplete(batch) == Cardinality(batch) <= BATCH_SIZE

is_complete(batch) == Cardinality(batch) < BATCH_SIZE

\* SCAN_SQL: the first BATCH_SIZE rows after the cursor.
Scan(cursor) ==
  {p \in rows : p > cursor /\ Cardinality({r \in rows : cursor < r /\ r < p}) < BATCH_SIZE}

PassBegin ==
  /\ Reindexing("none") /\ left.reindex > 0
  /\ left' = [left EXCEPT !.reindex = @ - 1]
  /\ pass' = [NoPass EXCEPT !.step = "scan", !.started = rows]
  /\ UNCHANGED <<setting, kafka, nextId, rows, priced, stock, standing, index, worker>>

PassScans ==
  /\ Reindexing("scan")
  /\ LET batch == Scan(pass.cursor)
     IN  pass' = [pass EXCEPT !.step = "rows", !.batch = batch, !.full = ~is_complete(batch),
                              !.cursor = IF batch = {} THEN @ ELSE CHOOSE p \in batch : \A r \in batch : r <= p]
  /\ UNCHANGED <<faults, index>> /\ PassMoves

\* build_document: catalog's fields and catalog_updated_at.
build_document == [exists |-> TRUE, sku |-> TRUE, base |-> TRUE, mark |-> TRUE]

\* One row of the batch.  created_at never changes, so should_index finds the
\* document's mark absent or equal, and writes.  A row that raises is left.
PassRow ==
  /\ Reindexing("rows") /\ pass.batch # {}
  /\ LET p == CHOOSE q \in pass.batch : \A r \in pass.batch : q <= r
     IN  \/ /\ Indexed(p, "catalog", build_document) /\ UNCHANGED faults
            /\ pass' = [pass EXCEPT !.batch = @ \ {p}]
         \/ /\ faults < setting.faults /\ faults' = faults + 1
            /\ pass' = [pass EXCEPT !.batch = @ \ {p}, !.failed = @ \cup {p}]
            /\ UNCHANGED index
  /\ PassMoves

PassBatchEnds ==
  /\ Reindexing("rows") /\ pass.batch = {}
  /\ pass' = [pass EXCEPT !.step = IF pass.full THEN "scan" ELSE "scanned"]
  /\ UNCHANGED <<faults, index>> /\ PassMoves

\* is_reapable: no catalog marker, and old enough.
is_reapable(p) == ~doc[p].sku /\ ~doc[p].mark /\ p \in aged

\* reap_pass: a search that raises ends the pass.
ReapSearches ==
  /\ Reindexing("scanned")
  /\ \/ /\ pass' = [pass EXCEPT !.step = "reap", !.hits = {p \in Ids \ hot : doc[p].exists /\ is_reapable(p)}]
        /\ UNCHANGED faults
     \/ faults < setting.faults /\ faults' = faults + 1 /\ pass' = NoPass
  /\ UNCHANGED index /\ PassMoves

\* reap_pass, one hit: the products table has the last word, and what it
\* cannot confirm or delete is kept.
Reap(p) ==
  /\ Reindexing("reap") /\ p \in pass.hits
  /\ pass' = [pass EXCEPT !.hits = @ \ {p}]
  /\ \/ p \in rows /\ UNCHANGED <<index, faults>>
     \/ /\ p \notin rows
        /\ doc' = [doc EXCEPT ![p] = NoDoc] /\ hot' = hot \ {p} /\ aged' = aged \ {p}
        /\ UNCHANGED <<seen, faults>>
     \/ faults < setting.faults /\ faults' = faults + 1 /\ UNCHANGED index
  /\ PassMoves

PassEnds ==
  /\ Reindexing("reap") /\ pass.hits = {}
  /\ pass' = NoPass
  /\ UNCHANGED <<faults, index>> /\ PassMoves

-----------------------------------------------------------------------------
(* search-service *)

\* The filters of search_products.
Served(p) == doc[p].exists /\ doc[p].sku /\ doc[p].may_sell # "no"

\* effective_price: pricing's price, else catalog's, else none (and not zero).
effective_price(p) ==
  CASE doc[p].price > 0 -> <<"pricing", doc[p].price>>
    [] doc[p].price = 0 /\ doc[p].base -> <<"catalog-base", 0>>
    [] OTHER -> <<"unpriced", 0>>

-----------------------------------------------------------------------------
Sources ==
  \/ \E p \in Products : \/ ProductIsListed(p) \/ ReservationFails(p)
                         \/ StockIsReserved(p) \/ StockIsReleased(p) \/ StockIsConsumed(p)
  \/ \E p \in Ids : PriceIsSet(p)
  \/ StandingChanges \/ ReviewIsPublished

Consume ==
  \/ \E t \in Topics : HandleDocument(t) \/ HandleSkips(t)
  \/ RefreshBegin \/ FetchSignals \/ WriteSignals \/ VerifyVisibility \/ SleepAndRetry \/ RefreshEnd

ConsumeFails == VerifyFails \/ ProcessorDies \/ \E t \in Topics, error \in {"schema", "fault"} : HandleFails(t, error)

Reindex ==
  \/ PassBegin \/ PassScans \/ PassRow \/ PassBatchEnds \/ ReapSearches \/ PassEnds
  \/ \E p \in Ids : Reap(p)

Clocks == WindowPasses \/ IndexRefreshes \/ \E p \in Ids : GracePasses(p)

SearchNext ==
  \/ Sources \/ Consume \/ ConsumeFails \/ Reindex \/ Clocks
  \/ (ReprocessorNext \/ \E t \in Topics : LetterIsSent(t)) /\ UNCHANGED <<source, index, worker, pass>>

SearchSpec == SearchInit /\ [][SearchNext]_searchVars

\* stream-processor's loop, dlq-reprocessor's loop and the clocks keep going.
SearchFairSpec ==
  /\ SearchSpec
  /\ WF_searchVars(Consume) /\ WF_searchVars(Reindex) /\ WF_searchVars(WindowPasses)
-----------------------------------------------------------------------------
(* Every variable keeps its type. *)
SearchTypeOK ==
  /\ \A t \in Topics : done[t] \in 0 .. Len(log[t]) /\ ddone[t] <= dpos[t] /\ dpos[t] \in 0 .. Len(dlq[t])
  /\ \A p \in Ids : /\ doc[p].price \in 0 .. priced[p] /\ doc[p].stock \in 0 .. stocked[p]
                    /\ doc[p].may_sell \in {"unknown", "yes", "no"}
                    /\ ~doc[p].exists => doc[p] = NoDoc
  /\ hot \cup aged \subseteq {p \in Ids : doc[p].exists}
  /\ hand.step \in {"none", "fetch", "write", "verify", "sleep", "finish"}
  /\ hand.tries \in 0 .. VISIBILITY_ATTEMPTS
  /\ ~Idle => HasNext("Seller")
  /\ applied \cup skipped \cup escalated \cup passed \cup lost \subseteq 1 .. nextId - 1

Quiet == Idle /\ \A t \in Topics : ~HasNext(t)
Settled == Quiet /\ \A t \in Topics : unsent[t] = <<>> /\ ddone[t] = Len(dlq[t])

(* When stream-processor has caught up and nothing failed on the way, every   *)
(* product that exists is in the index, at the latest price published and    *)
(* the stock its last reservation left, and what search serves exists.       *)
(* Redeliveries, a worker that dies, prices that arrive before their         *)
(* product, releases, backfills and the reaper change none of it             *)
(* (event_router, read_model, reindex-worker).                               *)
QuietIndexIsTrue ==
  faults = 0 /\ Quiet =>
    /\ \A p \in rows :
         /\ doc[p].sku /\ doc[p].stock = told[p]
         /\ effective_price(p) = IF priced[p] > 0 THEN <<"pricing", priced[p]>> ELSE <<"catalog-base", 0>>
    /\ \A p \in Ids : Served(p) => p \in rows

(* The index shows the available quantity there is.  It does not after a      *)
(* release: InventoryReleased is not in INDEXED_EVENTS (event_rules.py:64),  *)
(* and what came back shows with the next reservation only.                  *)
StockIsCurrent == faults = 0 /\ Quiet => \A p \in rows : told[p] > 0 => doc[p].stock = stocked[p]

(* An event is always somewhere: waiting on its topic, dead-lettered or on     *)
(* its way there, folded into the index, escalated to the audit log, or not  *)
(* recognised by stream-processor.  Two ways out are left, and no third,     *)
(* whenever either worker fails or dies, as long as the broker keeps what it *)
(* is given: a dead letter that a later one's commit went past, and one that *)
(* was in the producer's buffer when stream-processor died, which takes a    *)
(* death (KafkaAvroConsumer.consume, handle).                                *)
NothingVanishes ==
  /\ setting.broker =>
       \A e \in 1 .. nextId - 1 :
         OnTopic(e) \/ Unsent(e) \/ Dead(e) \/ e \in applied \cup escalated \cup skipped \cup passed \cup lost
  /\ restarts = 0 => lost = {}

(* "losing it loses the only remaining copy" (kafka_client.py:33): no dead    *)
(* letter is lost.  A worker that dies loses the ones its producer holds,    *)
(* because the offset is committed before they are sent (kafka_client.py:104).*)
NoLetterIsLost == setting.broker => lost = {}

(* Events and dead letters are accounted for: none vanishes, and none is     *)
(* retried past MAX_RETRIES (KafkaConsumerClient, dlq-reprocessor).          *)
LettersAreAccountedFor == SearchTypeOK /\ NothingVanishes /\ RetriesAreBounded

(* A backfill pass has, when its scan ends, put every product into the index  *)
(* that existed when it began, except the rows it logged as failed, however  *)
(* many rows were inserted between two batches (run_pass, next_cursor).      *)
ReindexIsComplete ==
  Reindexing("scanned") => \A p \in pass.started \ pass.failed : doc[p].sku

(* With seller-service reachable and nothing failing, the visibility flag of  *)
(* every document ends up agreeing with the seller's standing or unwritten,  *)
(* and a product that was indexed all along is served exactly when its       *)
(* seller is active: whatever is written to the documents at the same time,  *)
(* and however close two changes of standing follow each other               *)
(* (refresh_seller, _ensure_visibility_applied).                             *)
FlagsAgree ==
  /\ \A p \in Theirs : doc[p].may_sell \in {"unknown", IF standing = "active" THEN "yes" ELSE "no"}
  /\ \A p \in setting.listed : Served(p) <=> standing = "active"
VisibilitySettles == setting.faults = 0 /\ ~setting.outage => <>[]FlagsAgree

(* "A suspended seller's catalogue disappears from search"                    *)
(* (search_engine.py:57): once every event has been handled.                 *)
SuspendedIsHidden ==
  Settled /\ standing = "suspended" => \A p \in rows : ~Served(p)

(* "the message is simply re-read on a later poll" (dlq-reprocessor main.py:  *)
(* 16): no dead letter in its backoff window is left behind.                 *)
BackedOffIsReread == passed = {}
=============================================================================

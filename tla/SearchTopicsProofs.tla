-------------------------- MODULE SearchTopicsProofs --------------------------
(***************************************************************************)
(* The search read model for any topics, products, settings and bounds: the *)
(* invariant, and the steps that move topics and dead letters, which are    *)
(* publishing and the reprocessor.  SearchProofs has the rest.              *)
(***************************************************************************)
EXTENDS SearchIndex, TLAPS

-----------------------------------------------------------------------------
(* The inductive invariant *)

(* What may be on a topic, and what may be a dead letter.                    *)
StockKinds == {"InventoryReserved", "InventoryReleased", "InventoryConsumed"}
AllKinds == {"ProductCreated", "PriceUpdated", "InventoryReservationFailed"} \cup StockKinds \cup SELLER_SIGNAL_EVENTS
Kinds(t) ==
  CASE t = "Product" -> {"ProductCreated"}
    [] t = "Price" -> {"PriceUpdated"}
    [] t = "Inventory" -> StockKinds \cup {"InventoryReservationFailed"}
    [] t = "Seller" -> SELLER_SIGNAL_EVENTS
    [] OTHER -> {}
Messages == [id : Nat, kind : AllKinds, subject : Ids \cup {0}, value : Nat, typed : BOOLEAN]
Letters == [msg : Messages, error : {"schema", "fault"}]

(* An event that was published on this topic, about what its producer has    *)
(* committed: the version it carries is not ahead of the table.              *)
Genuine(t, m) ==
  /\ m.id \in EventIds /\ m.id >= 1 /\ m.id < nextId
  /\ m.kind \in Kinds(t)
  /\ m.kind = "ProductCreated" => m.subject \in rows
  /\ m.kind = "PriceUpdated" => m.subject \in Ids /\ m.value >= 1 /\ m.value <= priced[m.subject]
  /\ m.kind \in StockKinds => m.subject \in rows /\ m.value <= stocked[m.subject]
  /\ m.kind = "InventoryReserved" => m.value <= told[m.subject]

(* The tables of the producers.                                              *)
SourceInv ==
  /\ setting \in Settings
  /\ nextId \in Nat /\ nextId >= 1 /\ faults \in Nat /\ restarts \in Nat
  /\ rows \subseteq Products
  /\ priced \in [Ids -> Nat] /\ stocked \in [Ids -> Nat] /\ told \in [Ids -> Nat]
  /\ \A p \in Ids : told[p] <= stocked[p]
  /\ \A p \in Products \ rows : priced[p] = 0 /\ stocked[p] = 0

(* Offsets stay within the topics, and nothing is on them that was not       *)
(* published: a dead letter and its copies are genuine too.                  *)
KafkaInv ==
  /\ log \in [Topics -> Seq(Messages)] /\ dlq \in [Topics -> Seq(Letters)]
  /\ done \in [Topics -> Nat] /\ dpos \in [Topics -> Nat] /\ ddone \in [Topics -> Nat]
  /\ \A t \in Topics : done[t] <= Len(log[t]) /\ ddone[t] <= dpos[t] /\ dpos[t] <= Len(dlq[t])
  /\ \A t \in Topics : \A i \in 1 .. Len(log[t]) : Genuine(t, log[t][i])
  /\ \A t \in Topics : \A i \in 1 .. Len(dlq[t]) : Genuine(t, dlq[t][i].msg)

(* What stream-processor's producer holds, and what went down with one: dead  *)
(* letters, and none was lost before a death.                                *)
ProducerInv ==
  /\ unsent \in [Topics -> Seq(Letters)]
  /\ \A t \in Topics : \A i \in 1 .. Len(unsent[t]) : Genuine(t, unsent[t][i].msg)
  /\ lost \subseteq 1 .. nextId - 1
  /\ restarts = 0 => lost = {}

Docs == [exists : BOOLEAN, sku : BOOLEAN, base : BOOLEAN, price : Nat, stock : Nat,
         may_sell : {"unknown", "yes", "no"}, mark : BOOLEAN]

(* No document is ahead of the tables, and one with a sku has a row.         *)
DocInv ==
  /\ doc \in [Ids -> Docs]
  /\ \A p \in Ids : /\ doc[p].price <= priced[p] /\ doc[p].stock <= stocked[p]
                    /\ ~doc[p].exists => doc[p] = NoDoc
                    /\ doc[p].sku => doc[p].base /\ p \in rows
  /\ hot \cup aged \subseteq {p \in Ids : doc[p].exists}
  /\ seen \subseteq Theirs

Hands == [step : {"none", "fetch", "write", "verify", "sleep", "finish"}, force : BOOLEAN,
          value : {"unknown", "yes", "no"}, tries : Nat]

(* A refresh in progress holds a message that is not committed yet.          *)
WorkerInv ==
  /\ hand \in Hands /\ hand.tries <= VISIBILITY_ATTEMPTS
  /\ hand.step = "none" => hand = NoRefresh
  /\ hand.step # "none" => done["Seller"] < Len(log["Seller"])

(* Every event is somewhere.                                                 *)
Somewhere(e) ==
  OnTopic(e) \/ Unsent(e) \/ Dead(e) \/ e \in applied \cup escalated \cup skipped \cup passed \cup lost
Accounted == setting.broker => \A e \in 1 .. nextId - 1 : Somewhere(e)

(* Only events that exist are settled.                                       *)
HandledInv == applied \cup skipped \cup escalated \cup passed \subseteq 1 .. nextId - 1

(* The retry counter in Redis bounds the republications, but for the ones a  *)
(* restart cost it.                                                          *)
RetryInv ==
  /\ attempts \in [EventIds -> Nat] /\ republished \in [EventIds -> Nat]
  /\ \A e \in EventIds : attempts[e] <= MAX_RETRIES
  /\ setting.redis => \A e \in EventIds : republished[e] <= attempts[e] + restarts

Passes == [step : {"none", "scan", "rows", "scanned", "reap"}, cursor : Nat, batch : SUBSET Products,
           full : BOOLEAN, started : SUBSET Products, failed : SUBSET Products, hits : SUBSET Ids]

(* What a backfill has behind its cursor is indexed, in hand or on its list   *)
(* of failures.                                                              *)
PassInv ==
  /\ pass \in Passes
  /\ pass.batch \subseteq rows /\ pass.started \subseteq rows
  /\ pass.step = "scan" => pass.batch = {}
  /\ pass.step \in {"scan", "rows"} =>
       \A p \in pass.started : p <= pass.cursor => p \in pass.batch \cup pass.failed \/ doc[p].sku
  /\ pass.step = "rows" /\ ~pass.full => \A p \in pass.started : p <= pass.cursor
  /\ pass.step = "scanned" => \A p \in pass.started \ pass.failed : doc[p].sku

(* The versions of a field are published in order, the last one included.     *)
Versions(t, kind) ==
  \A i, j \in 1 .. Len(log[t]) :
    /\ i < j /\ log[t][i].kind = kind /\ log[t][j].kind = kind
    /\ log[t][i].subject = log[t][j].subject
    => log[t][i].value < log[t][j].value

Published(entries, kind, cur) ==
  \A p \in Ids : cur[p] > 0 =>
    \E i \in 1 .. Len(entries) : entries[i].kind = kind /\ entries[i].subject = p /\ entries[i].value = cur[p]

(* While nothing has failed: a row is indexed or its event is still ahead,    *)
(* and no document is behind the events that were read, nor its stock ahead  *)
(* of the reservations.                                                      *)
QuietInv ==
  faults = 0 =>
    /\ \A t \in Topics : dlq[t] = <<>> /\ unsent[t] = <<>>
    /\ \A t \in Topics : \A i \in 1 .. Len(log[t]) : log[t][i].typed
    /\ \A p \in Ids : doc[p].stock <= told[p]
    /\ \A p \in rows : doc[p].sku \/ \E i \in done["Product"] + 1 .. Len(log["Product"]) :
                                        log["Product"][i].subject = p
    /\ Versions("Price", "PriceUpdated") /\ Versions("Inventory", "InventoryReserved")
    /\ Published(log["Price"], "PriceUpdated", priced) /\ Published(log["Inventory"], "InventoryReserved", told)
    /\ \A i \in 1 .. done["Price"] :
         log["Price"][i].subject \in rows => log["Price"][i].value <= doc[log["Price"][i].subject].price
    /\ \A i \in 1 .. done["Inventory"] :
         log["Inventory"][i].kind = "InventoryReserved" =>
           log["Inventory"][i].value <= doc[log["Inventory"][i].subject].stock

Inv ==
  /\ SourceInv /\ KafkaInv /\ ProducerInv /\ DocInv /\ WorkerInv /\ HandledInv /\ RetryInv
  /\ Accounted /\ PassInv /\ QuietInv

-----------------------------------------------------------------------------
(* Sequences kept per topic *)

(* Appending to one topic's sequence.                                       *)
LEMMA Appended ==
  ASSUME NEW S, NEW f \in [Topics -> Seq(S)], NEW t \in Topics, NEW m \in S,
         NEW g, g = [f EXCEPT ![t] = Append(@, m)]
  PROVE  /\ g \in [Topics -> Seq(S)]
         /\ \A x \in Topics : x # t => g[x] = f[x]
         /\ Len(g[t]) = Len(f[t]) + 1 /\ g[t][Len(f[t]) + 1] = m
         /\ \A x \in Topics : /\ Len(f[x]) \in Nat /\ Len(g[x]) \in Nat /\ Len(f[x]) <= Len(g[x])
                              /\ \A i \in 1 .. Len(f[x]) : g[x][i] = f[x][i]
         /\ \A x \in Topics : \A i \in 1 .. Len(g[x]) :
              i \in 1 .. Len(f[x]) \/ (x = t /\ i = Len(f[t]) + 1 /\ g[x][i] = m)
<1>1. f[t] \in Seq(S) /\ g[t] = Append(f[t], m)
  OBVIOUS
<1>2. /\ g[t] \in Seq(S) /\ Len(g[t]) = Len(f[t]) + 1 /\ Len(f[t]) \in Nat
      /\ g[t][Len(f[t]) + 1] = m
      /\ \A i \in 1 .. Len(f[t]) : g[t][i] = f[t][i]
  BY <1>1
<1>3. \A x \in Topics : x # t => g[x] = f[x]
  OBVIOUS
<1>4. g \in [Topics -> Seq(S)]
  BY <1>2, <1>3
<1>5. \A x \in Topics : f[x] \in Seq(S) /\ Len(f[x]) \in Nat
  OBVIOUS
<1>6. \A n \in Nat : \A i \in 1 .. n + 1 : i \in 1 .. n \/ i = n + 1
  OBVIOUS
<1>7. ASSUME NEW x \in Topics
      PROVE  /\ Len(g[x]) \in Nat /\ Len(f[x]) <= Len(g[x])
             /\ \A i \in 1 .. Len(f[x]) : g[x][i] = f[x][i]
  BY <1>2, <1>3, <1>5
<1>8. ASSUME NEW x \in Topics, NEW i \in 1 .. Len(g[x])
      PROVE  i \in 1 .. Len(f[x]) \/ (x = t /\ i = Len(f[t]) + 1 /\ g[x][i] = m)
  <2>1. CASE x = t
    <3>1. i \in 1 .. Len(f[t]) \/ i = Len(f[t]) + 1
      BY <1>2, <1>6, <2>1
    <3> QED BY <1>2, <2>1, <3>1
  <2>2. CASE x # t
    BY <1>3, <2>2
  <2> QED BY <2>1, <2>2
<1> QED BY <1>2, <1>3, <1>4, <1>5, <1>7, <1>8

-----------------------------------------------------------------------------
(* The invariant holds before the first event.                               *)
LEMMA InitHolds == ASSUME SearchInit PROVE Inv
<1> USE DEF SearchInit, DeadLettersInit
<1>0. <<>> \in Seq(Messages) /\ <<>> \in Seq(Letters) /\ Len(<<>>) = 0
  OBVIOUS
<1>1. SourceInv
  <2>1. rows \subseteq Products
    BY SearchConstants
  <2>2. /\ priced \in [Ids -> Nat] /\ stocked \in [Ids -> Nat] /\ told \in [Ids -> Nat]
        /\ \A p \in Ids : told[p] <= stocked[p]
    OBVIOUS
  <2>3. \A p \in Products : priced[p] = 0 /\ stocked[p] = 0
    BY DEF Ids
  <2> QED BY <2>1, <2>2, <2>3 DEF SourceInv
<1>2. KafkaInv
  <2>1. \A t \in Topics : log[t] = <<>> /\ dlq[t] = <<>>
    OBVIOUS
  <2>2. log \in [Topics -> Seq(Messages)] /\ dlq \in [Topics -> Seq(Letters)]
    BY <1>0
  <2>3. done \in [Topics -> Nat] /\ dpos \in [Topics -> Nat] /\ ddone \in [Topics -> Nat]
    OBVIOUS
  <2>4. \A t \in Topics : done[t] = 0 /\ dpos[t] = 0 /\ ddone[t] = 0
    OBVIOUS
  <2> HIDE DEF SearchInit, DeadLettersInit
  <2> QED BY <1>0, <2>1, <2>2, <2>3, <2>4 DEF KafkaInv
<1>3. DocInv
  <2>0. setting.listed \subseteq Products /\ rows = setting.listed
    BY SearchConstants
  <2>1. ASSUME NEW p \in Ids, p \in setting.listed
        PROVE  doc[p] = [exists |-> TRUE, sku |-> TRUE, base |-> TRUE, price |-> 0, stock |-> 0,
                         may_sell |-> "unknown", mark |-> FALSE]
    BY <2>1 DEF NoDoc
  <2>2. ASSUME NEW p \in Ids, p \notin setting.listed PROVE doc[p] = NoDoc
    BY <2>2
  <2>3. ASSUME NEW p \in Ids
        PROVE  /\ doc[p] \in Docs
               /\ doc[p].price <= priced[p] /\ doc[p].stock <= stocked[p]
               /\ ~doc[p].exists => doc[p] = NoDoc
               /\ doc[p].sku => doc[p].base /\ p \in rows
               /\ p \in setting.listed => doc[p].exists /\ doc[p].sku
    <3>0. priced[p] = 0 /\ stocked[p] = 0
      OBVIOUS
    <3>1. CASE p \in setting.listed
      <4> HIDE DEF SearchInit, DeadLettersInit
      <4>1. doc[p] = [exists |-> TRUE, sku |-> TRUE, base |-> TRUE, price |-> 0, stock |-> 0,
                      may_sell |-> "unknown", mark |-> FALSE]
        BY <2>1, <3>1
      <4>2. doc[p] \in Docs
        BY <4>1 DEF Docs
      <4>3. doc[p].price = 0 /\ doc[p].stock = 0 /\ doc[p].exists = TRUE /\ doc[p].sku = TRUE /\ doc[p].base = TRUE
        BY <4>1
      <4> QED BY <2>0, <3>0, <3>1, <4>2, <4>3
    <3>2. CASE p \notin setting.listed
      BY <2>2, <3>2 DEF Docs, NoDoc
    <3> QED BY <3>1, <3>2
  <2>4. doc \in [Ids -> Docs]
    BY <2>3
  <2>5. hot \cup aged \subseteq {p \in Ids : doc[p].exists} /\ seen \subseteq Theirs
    BY <2>0, <2>3 DEF Theirs, Ids
  <2> QED BY <2>3, <2>4, <2>5 DEF DocInv
<1>4. WorkerInv
  BY SearchConstants DEF WorkerInv, Hands, NoRefresh
<1>5. HandledInv /\ RetryInv
  BY DeadLettersConstants DEF HandledInv, RetryInv
<1>6. Accounted
  BY DEF Accounted
<1>9. ProducerInv
  <2>1. unsent \in [Topics -> Seq(Letters)] /\ \A t \in Topics : Len(unsent[t]) = 0
    BY <1>0
  <2> QED BY <2>1 DEF ProducerInv
<1>7. PassInv
  BY DEF PassInv, Passes, NoPass
<1>8. QuietInv
  <2>1. \A t \in Topics : log[t] = <<>> /\ dlq[t] = <<>> /\ unsent[t] = <<>> /\ done[t] = 0
    OBVIOUS
  <2>2. Versions("Price", "PriceUpdated") /\ Versions("Inventory", "InventoryReserved")
    BY <1>0, <2>1, SearchConstants DEF Versions
  <2>3. Published(log["Price"], "PriceUpdated", priced) /\ Published(log["Inventory"], "InventoryReserved", told)
    BY DEF Published
  <2>4. \A p \in rows : doc[p].sku
    <3>1. \A p \in rows : p \in Ids /\ p \in setting.listed
      BY SearchConstants DEF Ids
    <3> QED BY <3>1 DEF NoDoc
  <2>5. done["Price"] = 0 /\ done["Inventory"] = 0
    BY <2>1, SearchConstants
  <2>6. \A p \in Ids : doc[p].stock <= told[p]
    BY DEF NoDoc
  <2> HIDE DEF SearchInit, DeadLettersInit
  <2>7. \A t \in Topics : \A i \in 1 .. Len(log[t]) : log[t][i].typed
    BY <1>0, <2>1
  <2> QED BY <2>1, <2>2, <2>3, <2>4, <2>5, <2>6, <2>7 DEF QuietInv
<1> QED BY <1>1, <1>2, <1>3, <1>4, <1>5, <1>6, <1>7, <1>8, <1>9 DEF Inv

-----------------------------------------------------------------------------
(* What a step does not touch keeps its part of the invariant. *)
LEMMA Frames ==
  ASSUME Inv
  PROVE  /\ UNCHANGED <<setting, nextId, faults, restarts, rows, priced, stocked, told>> => SourceInv'
         /\ UNCHANGED <<log, dlq, done, dpos, ddone, nextId, rows, priced, stocked, told>> => KafkaInv'
         /\ (restarts' = 0 => restarts = 0) /\ UNCHANGED <<unsent, lost, nextId, rows, priced, stocked, told>>
              => ProducerInv'
         /\ UNCHANGED <<doc, hot, seen, aged, rows, priced, stocked>> => DocInv'
         /\ UNCHANGED <<hand, done, log>> => WorkerInv'
         /\ UNCHANGED <<applied, skipped, escalated, passed, nextId>> => HandledInv'
         /\ UNCHANGED <<attempts, republished, setting, restarts>> => RetryInv'
         /\ UNCHANGED <<setting, nextId, log, done, unsent, dlq, ddone, applied, escalated, skipped, passed, lost>>
              => Accounted'
         /\ UNCHANGED <<pass, rows, doc>> => PassInv'
         /\ UNCHANGED <<faults, unsent, dlq, rows, doc, done, log, priced, told>> => QuietInv'
<1> USE DEF Inv
<1>1. UNCHANGED <<setting, nextId, faults, restarts, rows, priced, stocked, told>> => SourceInv'
  BY DEF SourceInv
<1>2. UNCHANGED <<log, dlq, done, dpos, ddone, nextId, rows, priced, stocked, told>> => KafkaInv'
  BY DEF KafkaInv, Genuine
<1>10. (restarts' = 0 => restarts = 0) /\ UNCHANGED <<unsent, lost, nextId, rows, priced, stocked, told>>
         => ProducerInv'
  BY DEF ProducerInv, Genuine
<1>3. UNCHANGED <<doc, hot, seen, aged, rows, priced, stocked>> => DocInv'
  BY DEF DocInv, Theirs
<1>4. UNCHANGED <<hand, done, log>> => WorkerInv'
  BY DEF WorkerInv
<1>5. UNCHANGED <<applied, skipped, escalated, passed, nextId>> => HandledInv'
  BY DEF HandledInv
<1>6. UNCHANGED <<attempts, republished, setting, restarts>> => RetryInv'
  BY DEF RetryInv
<1>7. UNCHANGED <<setting, nextId, log, done, unsent, dlq, ddone, applied, escalated, skipped, passed, lost>>
        => Accounted'
  BY DEF Accounted, Somewhere, OnTopic, Unsent, Dead
<1>8. UNCHANGED <<pass, rows, doc>> => PassInv'
  BY DEF PassInv
<1>9. UNCHANGED <<faults, unsent, dlq, rows, doc, done, log, priced, told>> => QuietInv'
  BY DEF QuietInv, Versions, Published
<1> QED BY <1>1, <1>2, <1>3, <1>4, <1>5, <1>6, <1>7, <1>8, <1>9, <1>10

(* What is on a topic, and what was dead-lettered, was published there.     *)
LEMMA OnRecord ==
  ASSUME Inv, NEW t \in Topics
  PROVE  /\ Len(log[t]) \in Nat /\ Len(dlq[t]) \in Nat
         /\ \A i \in 1 .. Len(log[t]) : log[t][i] \in Messages /\ Genuine(t, log[t][i])
         /\ \A i \in 1 .. Len(dlq[t]) :
              /\ dlq[t][i].msg \in Messages /\ Genuine(t, dlq[t][i].msg)
              /\ dlq[t][i].error \in {"schema", "fault"}
         /\ Len(unsent[t]) \in Nat
         /\ \A i \in 1 .. Len(unsent[t]) :
              unsent[t][i] \in Letters /\ unsent[t][i].msg \in Messages /\ Genuine(t, unsent[t][i].msg)
<1>1. log[t] \in Seq(Messages) /\ dlq[t] \in Seq(Letters) /\ unsent[t] \in Seq(Letters)
  BY DEF Inv, KafkaInv, ProducerInv
<1>2. /\ \A i \in 1 .. Len(dlq[t]) : dlq[t][i] \in Letters
      /\ \A i \in 1 .. Len(unsent[t]) : unsent[t][i] \in Letters
  BY <1>1
<1>3. \A l \in Letters : l.msg \in Messages /\ l.error \in {"schema", "fault"}
  BY DEF Letters
<1>4. /\ \A i \in 1 .. Len(log[t]) : Genuine(t, log[t][i])
      /\ \A i \in 1 .. Len(dlq[t]) : Genuine(t, dlq[t][i].msg)
      /\ \A i \in 1 .. Len(unsent[t]) : Genuine(t, unsent[t][i].msg)
  BY DEF Inv, KafkaInv, ProducerInv
<1> QED BY <1>1, <1>2, <1>3, <1>4

(* A failure ends the promise of a true index and is otherwise only counted.*)
LEMMA FaultCounted ==
  ASSUME Inv, faults' = faults + 1
  PROVE  /\ UNCHANGED <<setting, nextId, restarts, rows, priced, stocked, told>> => SourceInv'
         /\ QuietInv'
<1>1. faults \in Nat /\ faults' # 0
  BY DEF Inv, SourceInv
<1> QED BY <1>1 DEF Inv, SourceInv, QuietInv

-----------------------------------------------------------------------------
(* The services publish *)

Publishes(t, m) ==
  /\ nextId \in EventIds /\ nextId' = nextId + 1 /\ m.id = nextId
  /\ log' = [log EXCEPT ![t] = Append(@, m)]
  /\ rows \subseteq rows'
  /\ \A p \in Ids : priced[p] <= priced'[p] /\ stocked[p] <= stocked'[p] /\ told[p] <= told'[p]
  /\ UNCHANGED <<setting, done, producer, dlqVars, faults, restarts, index, worker, pass>>

(* An event is appended to its topic, and the table it is about moves on.    *)
LEMMA PublishKeeps ==
  ASSUME Inv, NEW t \in Topics, NEW m \in Messages, Publishes(t, m), SourceInv', Genuine(t, m)'
  PROVE  KafkaInv' /\ ProducerInv' /\ DocInv' /\ WorkerInv' /\ HandledInv' /\ RetryInv' /\ Accounted' /\ PassInv'
<1>0. /\ nextId \in EventIds /\ nextId' = nextId + 1 /\ m.id = nextId
      /\ log' = [log EXCEPT ![t] = Append(@, m)]
      /\ rows \subseteq rows'
      /\ \A p \in Ids : priced[p] <= priced'[p] /\ stocked[p] <= stocked'[p] /\ told[p] <= told'[p]
      /\ UNCHANGED <<unsent, lost>>
      /\ UNCHANGED <<setting, done, dlq, dpos, ddone, attempts, republished, escalated, passed, faults, restarts>>
      /\ UNCHANGED <<doc, hot, seen, aged, hand, applied, skipped, pass>>
  BY DEF Publishes, producer, dlqVars, index, worker
<1>1. /\ log' \in [Topics -> Seq(Messages)]
      /\ Len(log'[t]) = Len(log[t]) + 1 /\ log'[t][Len(log[t]) + 1] = m
      /\ \A x \in Topics : /\ Len(log[x]) \in Nat /\ Len(log'[x]) \in Nat /\ Len(log[x]) <= Len(log'[x])
                           /\ \A i \in 1 .. Len(log[x]) : log'[x][i] = log[x][i]
      /\ \A x \in Topics : \A i \in 1 .. Len(log'[x]) :
           i \in 1 .. Len(log[x]) \/ (x = t /\ i = Len(log[t]) + 1 /\ log'[x][i] = m)
  <2>1. log \in [Topics -> Seq(Messages)]
    BY DEF Inv, KafkaInv
  <2> QED BY ONLY <1>0, <2>1, t \in Topics, m \in Messages, Appended
<1>2. nextId \in Nat /\ nextId >= 1 /\ priced \in [Ids -> Nat] /\ stocked \in [Ids -> Nat]
      /\ told \in [Ids -> Nat] /\ told' \in [Ids -> Nat]
      /\ priced' \in [Ids -> Nat] /\ stocked' \in [Ids -> Nat] /\ rows \subseteq Ids
  BY DEF Inv, SourceInv, Ids
<1>3. ASSUME NEW x, NEW n \in Messages, Genuine(x, n) PROVE Genuine(x, n)'
  <2>1. n.value \in Nat /\ n.id \in Nat /\ n.id < nextId'
    BY <1>0, <1>2, <1>3 DEF Genuine, Messages
  <2>2. /\ n.kind \in StockKinds => n.subject \in Ids
        /\ n.kind = "InventoryReserved" => n.kind \in StockKinds
    BY <1>2, <1>3 DEF Genuine, StockKinds
  <2>3. /\ n.kind = "PriceUpdated" => n.value <= priced'[n.subject]
        /\ n.kind \in StockKinds => n.value <= stocked'[n.subject]
        /\ n.kind = "InventoryReserved" => n.value <= told'[n.subject]
    BY <1>0, <1>2, <1>3, <2>1, <2>2 DEF Genuine
  <2> QED BY <1>0, <1>3, <2>1, <2>3 DEF Genuine
<1>4. KafkaInv'
  <2>1. \A x \in Topics : done[x] <= Len(log'[x])
    BY <1>1 DEF Inv, KafkaInv
  <2>2. ASSUME NEW x \in Topics, NEW i \in 1 .. Len(log'[x]) PROVE Genuine(x, log[x][i])'
    <3>1. CASE i \in 1 .. Len(log[x])
      <4>1. log'[x][i] = log[x][i] /\ log[x][i] \in Messages /\ Genuine(x, log[x][i])
        BY <1>1, <3>1 DEF Inv, KafkaInv
      <4>2. PICK n : n = log[x][i]
        OBVIOUS
      <4>3. Genuine(x, n)'
        BY <1>3, <4>1, <4>2
      <4> QED BY <4>1, <4>2, <4>3
    <3>2. CASE x = t /\ log'[x][i] = m
      BY <3>2
    <3> QED BY <1>1, <3>1, <3>2
  <2>3. ASSUME NEW x \in Topics, NEW i \in 1 .. Len(dlq[x]) PROVE Genuine(x, dlq[x][i].msg)'
    <3>1. dlq[x][i].msg \in Messages /\ Genuine(x, dlq[x][i].msg)
      BY OnRecord
    <3>2. PICK n : n = dlq[x][i].msg
      OBVIOUS
    <3>3. Genuine(x, n)'
      BY <1>3, <3>1, <3>2
    <3> QED BY <1>0, <3>2, <3>3
  <2> QED BY <1>0, <1>1, <2>1, <2>2, <2>3 DEF Inv, KafkaInv
<1>5. DocInv'
  <2>1. ASSUME NEW p \in Ids PROVE doc[p].price <= priced'[p] /\ doc[p].stock <= stocked'[p]
    <3>1. doc[p].price \in Nat /\ doc[p].stock \in Nat /\ doc[p].price <= priced[p] /\ doc[p].stock <= stocked[p]
      BY DEF Inv, DocInv, Docs
    <3> QED BY <1>0, <1>2, <3>1
  <2> QED BY <1>0, <2>1 DEF Inv, DocInv, Theirs
<1>6. WorkerInv'
  <2>1. done["Seller"] \in Nat /\ Len(log["Seller"]) \in Nat /\ Len(log'["Seller"]) \in Nat
        /\ Len(log["Seller"]) <= Len(log'["Seller"])
    BY <1>1, SearchConstants DEF Inv, KafkaInv
  <2>2. UNCHANGED <<hand, done>>
    BY <1>0
  <2>3. hand.step # "none" => done["Seller"] < Len(log'["Seller"])
    <3>1. hand.step # "none" => done["Seller"] < Len(log["Seller"])
      BY DEF Inv, WorkerInv
    <3> QED BY <2>1, <3>1
  <2>4. /\ hand \in Hands /\ hand.tries <= VISIBILITY_ATTEMPTS
        /\ hand.step = "none" => hand = NoRefresh
    BY DEF Inv, WorkerInv
  <2> QED BY <2>2, <2>3, <2>4 DEF WorkerInv
<1>7. HandledInv'
  BY <1>0, <1>2 DEF Inv, HandledInv
<1>8. RetryInv'
  BY <1>0, Frames
<1>11. ProducerInv'
  <2>1. ASSUME NEW x \in Topics, NEW i \in 1 .. Len(unsent[x]) PROVE Genuine(x, unsent[x][i].msg)'
    <3>1. unsent[x][i].msg \in Messages /\ Genuine(x, unsent[x][i].msg)
      BY OnRecord
    <3>2. PICK n : n = unsent[x][i].msg
      OBVIOUS
    <3>3. Genuine(x, n)'
      BY <1>3, <3>1, <3>2
    <3> QED BY <1>0, <3>2, <3>3
  <2>2. lost' \subseteq 1 .. nextId' - 1
    BY <1>0, <1>2 DEF Inv, ProducerInv
  <2> QED BY <1>0, <2>1, <2>2 DEF Inv, ProducerInv
<1>9. Accounted'
  <2> SUFFICES ASSUME setting.broker, NEW e \in 1 .. nextId PROVE Somewhere(e)'
    BY <1>0, <1>2 DEF Accounted
  <2>1. CASE e = nextId
    <3>1. Len(log[t]) + 1 \in done[t] + 1 .. Len(log'[t])
      BY <1>1 DEF Inv, KafkaInv
    <3> QED BY <1>0, <1>1, <2>1, <3>1 DEF OnTopic, Somewhere
  <2>2. CASE e \in 1 .. nextId - 1
    <3>1. OnTopic(e) => OnTopic(e)'
      <4>1. ASSUME NEW x \in Topics, NEW i \in done[x] + 1 .. Len(log[x]), log[x][i].id = e
            PROVE  OnTopic(e)'
        <5>1. done[x] \in Nat /\ Len(log[x]) \in Nat /\ Len(log'[x]) \in Nat /\ Len(log[x]) <= Len(log'[x])
          BY <1>1 DEF Inv, KafkaInv
        <5>2. i \in 1 .. Len(log[x]) /\ i \in done[x] + 1 .. Len(log'[x])
          BY <5>1
        <5> QED BY <1>0, <1>1, <4>1, <5>2 DEF OnTopic
      <4> QED BY <4>1 DEF OnTopic
    <3>2. (Dead(e) => Dead(e)') /\ (Unsent(e) => Unsent(e)')
      BY <1>0 DEF Dead, Unsent
    <3> QED BY <1>0, <2>2, <3>1, <3>2 DEF Inv, Accounted, Somewhere
  <2> QED BY <1>2, <2>1, <2>2
<1>10. PassInv'
  BY <1>0 DEF Inv, PassInv
<1> QED BY <1>4, <1>5, <1>6, <1>7, <1>8, <1>9, <1>10, <1>11

(* The next version of a field is greater than all that were published.     *)
LEMMA VersionsGrow ==
  ASSUME Inv, NEW t \in Topics, NEW m \in Messages, log' = [log EXCEPT ![t] = Append(@, m)],
         NEW x \in Topics, NEW kind, Versions(x, kind),
         t = x /\ m.kind = kind =>
           \A i \in 1 .. Len(log[x]) :
             log[x][i].kind = kind /\ log[x][i].subject = m.subject => log[x][i].value < m.value
  PROVE  Versions(x, kind)'
<1>1. /\ Len(log[x]) \in Nat /\ Len(log'[x]) \in Nat
      /\ \A i \in 1 .. Len(log[x]) : log'[x][i] = log[x][i]
      /\ \A i \in 1 .. Len(log'[x]) :
           i \in 1 .. Len(log[x]) \/ (x = t /\ i = Len(log[t]) + 1 /\ log'[x][i] = m)
  BY Appended DEF Inv, KafkaInv
<1> SUFFICES ASSUME NEW i \in 1 .. Len(log'[x]), NEW j \in 1 .. Len(log'[x]), i < j,
                    log'[x][i].kind = kind, log'[x][j].kind = kind,
                    log'[x][i].subject = log'[x][j].subject
             PROVE  log'[x][i].value < log'[x][j].value
  BY DEF Versions
<1>2. CASE j \in 1 .. Len(log[x])
  <2>1. i \in 1 .. Len(log[x])
    BY <1>1, <1>2
  <2> QED BY <1>1, <1>2, <2>1 DEF Versions
<1>3. CASE x = t /\ j = Len(log[t]) + 1 /\ log'[x][j] = m
  <2>1. i \in 1 .. Len(log[x])
    BY <1>1, <1>3
  <2> QED BY <1>1, <1>3, <2>1
<1> QED BY <1>1, <1>2, <1>3

\* No version changes but the one m announces on x.
Advances(t, m, x, kind, cur, new) ==
  \A p \in Ids : new[p] = cur[p] \/ (t = x /\ m.kind = kind /\ m.subject = p /\ m.value = new[p])

(* The latest version of a field is on its topic.                           *)
LEMMA LatestIsPublished ==
  ASSUME Inv, NEW t \in Topics, NEW m \in Messages, log' = [log EXCEPT ![t] = Append(@, m)],
         NEW x \in Topics, NEW kind, NEW cur, NEW new, Published(log[x], kind, cur),
         Advances(t, m, x, kind, cur, new)
  PROVE  Published(log'[x], kind, new)
<1>1. /\ Len(log[x]) \in Nat /\ Len(log'[x]) \in Nat /\ Len(log[x]) <= Len(log'[x])
      /\ \A i \in 1 .. Len(log[x]) : log'[x][i] = log[x][i]
      /\ Len(log'[t]) = Len(log[t]) + 1 /\ log'[t][Len(log[t]) + 1] = m
  BY Appended DEF Inv, KafkaInv
<1> SUFFICES ASSUME NEW p \in Ids, new[p] > 0
             PROVE  \E i \in 1 .. Len(log'[x]) :
                      log'[x][i].kind = kind /\ log'[x][i].subject = p /\ log'[x][i].value = new[p]
  BY DEF Published
<1>2. CASE new[p] = cur[p]
  <2>1. PICK i \in 1 .. Len(log[x]) : log[x][i].kind = kind /\ log[x][i].subject = p /\ log[x][i].value = cur[p]
    BY <1>2 DEF Published
  <2>2. i \in 1 .. Len(log'[x])
    BY <1>1
  <2> QED BY <1>1, <1>2, <2>1, <2>2
<1>3. CASE t = x /\ m.kind = kind /\ m.subject = p /\ m.value = new[p]
  <2>1. Len(log[x]) + 1 \in 1 .. Len(log'[x])
    BY <1>1, <1>3
  <2> QED BY <1>1, <1>3, <2>1
<1> QED BY <1>2, <1>3 DEF Advances

(* Publishing keeps the promise of a true index.                            *)
LEMMA PublishStaysTrue ==
  ASSUME Inv, NEW t \in Topics, NEW m \in Messages, Publishes(t, m), SourceInv',
         \A p \in rows' \ rows : t = "Product" /\ m.subject = p,
         t = "Price" => /\ m.value = priced[m.subject] + 1 /\ m.kind = "PriceUpdated"
                        /\ m.subject \in Ids /\ priced' = [priced EXCEPT ![m.subject] = @ + 1],
         t # "Price" => priced' = priced,
         m.kind = "InventoryReserved" => /\ t = "Inventory" /\ m.value = stocked[m.subject] + 1
                                         /\ m.subject \in Ids /\ told' = [told EXCEPT ![m.subject] = m.value],
         m.kind # "InventoryReserved" => told' = told,
         m.typed
  PROVE  QuietInv'
<1>0. /\ log' = [log EXCEPT ![t] = Append(@, m)] /\ rows \subseteq rows'
      /\ UNCHANGED <<done, unsent, dlq, faults, doc>>
      /\ \A p \in Ids : told[p] <= told'[p]
  BY DEF Publishes, producer, dlqVars, index
<1> SUFFICES ASSUME faults = 0 PROVE QuietInv'
  BY <1>0 DEF QuietInv
<1>1. /\ Len(log'[t]) = Len(log[t]) + 1 /\ log'[t][Len(log[t]) + 1] = m
      /\ \A x \in Topics : /\ Len(log[x]) \in Nat /\ Len(log'[x]) \in Nat /\ Len(log[x]) <= Len(log'[x])
                           /\ \A i \in 1 .. Len(log[x]) : log'[x][i] = log[x][i]
      /\ \A x \in Topics : \A i \in 1 .. Len(log'[x]) : i \in 1 .. Len(log[x]) \/ log'[x][i] = m
      /\ \A x \in Topics : done[x] \in Nat /\ done[x] <= Len(log[x])
  BY <1>0, Appended DEF Inv, KafkaInv
<1>2. "Product" \in Topics /\ "Price" \in Topics /\ "Inventory" \in Topics
  BY SearchConstants
<1>3. /\ priced \in [Ids -> Nat] /\ stocked \in [Ids -> Nat] /\ told \in [Ids -> Nat] /\ rows \subseteq Ids
      /\ told' \in [Ids -> Nat] /\ \A p \in Ids : told[p] <= stocked[p]
  BY DEF Inv, SourceInv, Ids
<1>4. ASSUME NEW p \in rows'
      PROVE  doc[p].sku \/ \E i \in done["Product"] + 1 .. Len(log'["Product"]) : log'["Product"][i].subject = p
  <2>1. CASE p \in rows
    <3>1. doc[p].sku \/ \E i \in done["Product"] + 1 .. Len(log["Product"]) : log["Product"][i].subject = p
      BY <2>1 DEF Inv, QuietInv
    <3>2. ASSUME NEW i \in done["Product"] + 1 .. Len(log["Product"]), log["Product"][i].subject = p
          PROVE  i \in done["Product"] + 1 .. Len(log'["Product"]) /\ log'["Product"][i].subject = p
      <4>1. i \in 1 .. Len(log["Product"]) /\ i \in done["Product"] + 1 .. Len(log'["Product"])
        BY <1>1, <1>2
      <4> QED BY <1>1, <1>2, <3>2, <4>1
    <3> QED BY <3>1, <3>2
  <2>2. CASE p \in rows' \ rows
    <3>1. Len(log["Product"]) + 1 \in done["Product"] + 1 .. Len(log'["Product"])
      BY <1>1, <1>2, <2>2
    <3> QED BY <1>1, <2>2, <3>1
  <2> QED BY <2>1, <2>2
<1>5. Versions("Price", "PriceUpdated")'
  <2>1. \A i \in 1 .. Len(log["Price"]) :
          log["Price"][i].kind = "PriceUpdated" =>
            /\ log["Price"][i].subject \in Ids /\ log["Price"][i].value \in Nat
            /\ log["Price"][i].value <= priced[log["Price"][i].subject]
    BY <1>2, OnRecord DEF Genuine, Messages
  <2>2. t = "Price" /\ m.kind = "PriceUpdated" =>
          \A i \in 1 .. Len(log["Price"]) :
            log["Price"][i].kind = "PriceUpdated" /\ log["Price"][i].subject = m.subject
              => log["Price"][i].value < m.value
    BY <1>3, <2>1
  <2>3. Versions("Price", "PriceUpdated")
    BY DEF Inv, QuietInv
  <2> QED BY <1>0, <1>2, <2>2, <2>3, VersionsGrow
<1>6. Versions("Inventory", "InventoryReserved")'
  <2>1. \A i \in 1 .. Len(log["Inventory"]) :
          log["Inventory"][i].kind = "InventoryReserved" =>
            /\ log["Inventory"][i].subject \in Ids /\ log["Inventory"][i].value \in Nat
            /\ log["Inventory"][i].value <= told[log["Inventory"][i].subject]
    BY <1>2, <1>3, OnRecord DEF Genuine, Messages, StockKinds
  <2>2. t = "Inventory" /\ m.kind = "InventoryReserved" =>
          \A i \in 1 .. Len(log["Inventory"]) :
            log["Inventory"][i].kind = "InventoryReserved" /\ log["Inventory"][i].subject = m.subject
              => log["Inventory"][i].value < m.value
    BY <1>3, <2>1
  <2>3. Versions("Inventory", "InventoryReserved")
    BY DEF Inv, QuietInv
  <2> QED BY <1>0, <1>2, <2>2, <2>3, VersionsGrow
<1>7. Published(log["Price"], "PriceUpdated", priced)'
  <2>1. Published(log["Price"], "PriceUpdated", priced)
    BY DEF Inv, QuietInv
  <2>2. PICK new : new = priced'
    OBVIOUS
  <2>3. Advances(t, m, "Price", "PriceUpdated", priced, new)
    BY <1>3, <2>2 DEF Advances
  <2>4. Published(log'["Price"], "PriceUpdated", new)
    BY <1>0, <1>2, <2>1, <2>3, LatestIsPublished
  <2> QED BY <2>2, <2>4
<1>8. Published(log["Inventory"], "InventoryReserved", told)'
  <2>1. Published(log["Inventory"], "InventoryReserved", told)
    BY DEF Inv, QuietInv
  <2>2. PICK new : new = told'
    OBVIOUS
  <2>3. Advances(t, m, "Inventory", "InventoryReserved", told, new)
    BY <1>3, <2>2 DEF Advances
  <2>4. Published(log'["Inventory"], "InventoryReserved", new)
    BY <1>0, <1>2, <2>1, <2>3, LatestIsPublished
  <2> QED BY <2>2, <2>4
<1>9. ASSUME NEW i \in 1 .. done["Price"], log'["Price"][i].subject \in rows'
      PROVE  log'["Price"][i].value <= doc[log'["Price"][i].subject].price
  <2>1. i \in 1 .. Len(log["Price"]) /\ log'["Price"][i] = log["Price"][i]
    BY <1>1, <1>2
  <2>2. Genuine("Price", log["Price"][i])
    BY <1>2, <2>1, OnRecord
  <2>3. log["Price"][i].subject \in Ids /\ log["Price"][i].value >= 1
        /\ log["Price"][i].value <= priced[log["Price"][i].subject]
    BY <2>2 DEF Genuine, Kinds
  <2>4. log["Price"][i].value \in Nat
    BY <1>2, <2>1, OnRecord DEF Messages
  <2>5. log["Price"][i].subject \in rows
    <3>1. log["Price"][i].subject \in Products
      BY <1>9, <2>1 DEF SourceInv
    <3> QED BY <2>3, <2>4, <3>1 DEF Inv, SourceInv
  <2> QED BY <2>1, <2>5 DEF Inv, QuietInv
<1>10. ASSUME NEW i \in 1 .. done["Inventory"], log'["Inventory"][i].kind = "InventoryReserved"
       PROVE  log'["Inventory"][i].value <= doc[log'["Inventory"][i].subject].stock
  <2>1. i \in 1 .. Len(log["Inventory"]) /\ log'["Inventory"][i] = log["Inventory"][i]
    BY <1>1, <1>2
  <2> QED BY <1>10, <2>1 DEF Inv, QuietInv
<1>11. \A x \in Topics : dlq'[x] = <<>> /\ unsent'[x] = <<>>
  BY <1>0 DEF Inv, QuietInv
<1>12. \A x \in Topics : \A i \in 1 .. Len(log'[x]) : log'[x][i].typed
  BY <1>1 DEF Inv, QuietInv
<1>13. \A p \in Ids : doc[p].stock <= told'[p]
  <2>1. \A p \in Ids : doc[p].stock \in Nat /\ doc[p].stock <= told[p]
    BY DEF Inv, QuietInv, DocInv, Docs
  <2> QED BY <1>0, <1>3, <2>1
<1> QED BY <1>0, <1>4, <1>5, <1>6, <1>7, <1>8, <1>9, <1>10, <1>11, <1>12, <1>13 DEF QuietInv

EmittedBy(kind, subject, value) ==
  [id |-> nextId, kind |-> kind, subject |-> subject, value |-> value, typed |-> TRUE]

(* What the rows do in the transaction that emits such an event.            *)
Moves(t, kind, subject, value) ==
  /\ rows \subseteq rows' /\ rows' \subseteq Products
  /\ priced' \in [Ids -> Nat] /\ stocked' \in [Ids -> Nat] /\ told' \in [Ids -> Nat]
  /\ \A p \in Products \ rows' : priced'[p] = 0 /\ stocked'[p] = 0
  /\ \A p \in Ids : priced[p] <= priced'[p] /\ stocked[p] <= stocked'[p]
  /\ \A p \in Ids : told[p] <= told'[p] /\ told'[p] <= stocked'[p]
  /\ \A p \in rows' \ rows : t = "Product" /\ subject = p
  /\ kind = "ProductCreated" => subject \in rows'
  /\ t = "Price" => /\ value = priced[subject] + 1 /\ kind = "PriceUpdated" /\ subject \in Ids
                    /\ priced' = [priced EXCEPT ![subject] = @ + 1]
  /\ t # "Price" => kind # "PriceUpdated" /\ priced' = priced
  /\ kind \in StockKinds => subject \in rows' /\ value <= stocked'[subject]
  /\ kind = "InventoryReserved" => /\ t = "Inventory" /\ value = stocked[subject] + 1
                                   /\ subject \in rows' /\ told' = [told EXCEPT ![subject] = value]
  /\ kind # "InventoryReserved" => told' = told

(* One transaction of a service: a row, and its event on the outbox.        *)
LEMMA EmitsKeeps ==
  ASSUME Inv, NEW op, NEW t \in Topics, NEW kind \in Kinds(t), kind \in AllKinds,
         NEW subject \in Ids \cup {0}, NEW value \in Nat, Emits(op, t, kind, subject, value),
         Moves(t, kind, subject, value)
  PROVE  Inv'
<1>1. PICK m : m = EmittedBy(kind, subject, value)
  OBVIOUS
<1>2. /\ nextId \in Nat /\ nextId >= 1 /\ nextId \in EventIds /\ nextId' = nextId + 1
      /\ log' = [log EXCEPT ![t] = Append(@, m)]
      /\ UNCHANGED <<setting, done, producer, dlqVars, faults, restarts, index, worker, pass>>
  BY <1>1 DEF Emits, EmittedBy, Inv, SourceInv
<1>3. m.id = nextId /\ m.kind = kind /\ m.subject = subject /\ m.value = value /\ m.typed
  BY <1>1 DEF EmittedBy
<1>4. m \in Messages
  BY <1>1, <1>2 DEF EmittedBy, Messages
<1>5. Publishes(t, m)
  BY <1>2, <1>3 DEF Publishes, Moves
<1>6. SourceInv'
  BY <1>2 DEF Inv, SourceInv, Moves
<1>7. rows' \subseteq Ids /\ priced \in [Ids -> Nat] /\ stocked \in [Ids -> Nat] /\ told \in [Ids -> Nat]
  BY DEF Ids, Inv, SourceInv, Moves
<1>8. Genuine(t, m)'
  <2>1. m.id \in EventIds /\ m.id >= 1 /\ m.id < nextId'
    BY <1>2, <1>3
  <2>2. m.kind = "PriceUpdated" => m.subject \in Ids /\ m.value >= 1 /\ m.value <= priced'[m.subject]
    BY <1>3, <1>7 DEF Moves
  <2>3. m.kind \in StockKinds => m.subject \in rows' /\ m.value <= stocked'[m.subject]
    BY <1>3 DEF Moves
  <2>4. m.kind = "InventoryReserved" => m.value <= told'[m.subject]
    BY <1>3, <1>7 DEF Moves
  <2> QED BY <1>3, <2>1, <2>2, <2>3, <2>4 DEF Genuine, Moves
<1>9. QuietInv'
  BY <1>3, <1>4, <1>5, <1>6, <1>7, PublishStaysTrue DEF Moves
<1> QED BY <1>4, <1>5, <1>6, <1>8, <1>9, PublishKeeps DEF Inv

(* Every operation of the services keeps the invariant.                     *)
LEMMA SourcesKeep == ASSUME Inv, Sources PROVE Inv'
<1>0. /\ rows \subseteq Products /\ priced \in [Ids -> Nat] /\ stocked \in [Ids -> Nat]
      /\ told \in [Ids -> Nat] /\ \A p \in Ids : told[p] <= stocked[p]
      /\ \A p \in Products \ rows : priced[p] = 0 /\ stocked[p] = 0
      /\ Products \subseteq Ids /\ Ghost \in Ids /\ Ghost \notin Products
  BY SearchConstants DEF Inv, SourceInv, Ids
<1>t. "Product" \in Topics /\ "Price" \in Topics /\ "Inventory" \in Topics /\ "Seller" \in Topics
  BY SearchConstants
<1>k. /\ "ProductCreated" \in Kinds("Product") /\ "PriceUpdated" \in Kinds("Price")
      /\ StockKinds \subseteq Kinds("Inventory") /\ "InventoryReservationFailed" \in Kinds("Inventory")
      /\ SELLER_SIGNAL_EVENTS = Kinds("Seller")
      /\ AllKinds = {"ProductCreated", "PriceUpdated", "InventoryReservationFailed"} \cup StockKinds
                      \cup SELLER_SIGNAL_EVENTS
  BY DEF Kinds, AllKinds
<1>s. StockKinds = {"InventoryReserved", "InventoryReleased", "InventoryConsumed"}
  BY DEF StockKinds
<1>e. SELLER_SIGNAL_EVENTS = {"SellerSuspended", "SellerReinstated", "ReviewPublished"}
  BY DEF SELLER_SIGNAL_EVENTS, VISIBILITY_EVENTS
<1>1. ASSUME NEW p \in Products, ProductIsListed(p) PROVE Inv'
  <2>1. /\ rows' = rows \cup {p} /\ UNCHANGED <<priced, stocked, told>>
        /\ Emits("list", "Product", "ProductCreated", p, 0)
    BY <1>1 DEF ProductIsListed, stock
  <2>2. Moves("Product", "ProductCreated", p, 0)
    BY <1>0, <1>s, <2>1 DEF Moves
  <2> QED BY <1>0, <1>t, <1>k, <2>1, <2>2, EmitsKeeps
<1>2. ASSUME NEW p \in Ids, PriceIsSet(p) PROVE Inv'
  <2>1. /\ p \in rows \cup {Ghost} /\ UNCHANGED <<rows, stocked, told>>
        /\ priced' = [priced EXCEPT ![p] = @ + 1] /\ priced'[p] = priced[p] + 1
        /\ Emits("price", "Price", "PriceUpdated", p, priced'[p])
    BY <1>0, <1>2 DEF PriceIsSet, stock
  <2>2. PICK v : v = priced'[p]
    OBVIOUS
  <2>3. /\ priced' \in [Ids -> Nat] /\ v \in Nat
        /\ \A q \in Ids : priced[q] <= priced'[q]
        /\ \A q \in Products \ rows : priced'[q] = 0
    BY <1>0, <2>1, <2>2
  <2>4. Moves("Price", "PriceUpdated", p, v)
    BY <1>0, <1>s, <2>1, <2>2, <2>3 DEF Moves
  <2> QED BY <1>0, <1>t, <1>k, <2>1, <2>2, <2>3, <2>4, EmitsKeeps
<1>3. ASSUME NEW p \in Products, StockIsReserved(p) PROVE Inv'
  <2>1. PICK v : v = stocked'[p]
    OBVIOUS
  <2>2. /\ p \in rows /\ UNCHANGED <<rows, priced>>
        /\ stocked' = [stocked EXCEPT ![p] = @ + 1] /\ v = stocked[p] + 1 /\ v \in Nat
        /\ told' = [told EXCEPT ![p] = v]
        /\ Emits("stock", "Inventory", "InventoryReserved", p, v)
    BY <1>0, <1>3, <2>1 DEF StockIsReserved
  <2>3. /\ stocked' \in [Ids -> Nat] /\ told' \in [Ids -> Nat]
        /\ \A q \in Ids : stocked[q] <= stocked'[q]
        /\ \A q \in Products \ rows : stocked'[q] = 0
    BY <1>0, <2>1, <2>2
  <2>4. \A q \in Ids : told[q] <= told'[q] /\ told'[q] <= stocked'[q]
    BY <1>0, <2>2
  <2>5. Moves("Inventory", "InventoryReserved", p, v)
    BY <1>0, <2>1, <2>2, <2>3, <2>4 DEF Moves
  <2> QED BY <1>0, <1>t, <1>k, <1>s, <2>2, <2>5, EmitsKeeps
<1>8. ASSUME NEW p \in Products, StockIsReleased(p) PROVE Inv'
  <2>1. PICK v : v = stocked'[p]
    OBVIOUS
  <2>2. /\ p \in rows /\ UNCHANGED <<rows, priced, told>>
        /\ stocked' = [stocked EXCEPT ![p] = @ + 1] /\ v = stocked[p] + 1 /\ v \in Nat
        /\ Emits("return", "Inventory", "InventoryReleased", p, v)
    BY <1>0, <1>8, <2>1 DEF StockIsReleased
  <2>3. /\ stocked' \in [Ids -> Nat]
        /\ \A q \in Ids : stocked[q] <= stocked'[q] /\ told[q] <= stocked'[q]
        /\ \A q \in Products \ rows : stocked'[q] = 0
    BY <1>0, <2>1, <2>2
  <2>4. Moves("Inventory", "InventoryReleased", p, v)
    BY <1>0, <2>1, <2>2, <2>3 DEF Moves
  <2> QED BY <1>0, <1>t, <1>k, <1>s, <2>2, <2>4, EmitsKeeps
<1>9. ASSUME NEW p \in Products, StockIsConsumed(p) PROVE Inv'
  <2>1. PICK v : v = stocked[p]
    OBVIOUS
  <2>2. /\ p \in rows /\ UNCHANGED <<rows, priced, stocked, told>> /\ v \in Nat
        /\ Emits("return", "Inventory", "InventoryConsumed", p, v)
    BY <1>0, <1>9, <2>1 DEF StockIsConsumed
  <2>3. Moves("Inventory", "InventoryConsumed", p, v)
    BY <1>0, <2>1, <2>2 DEF Moves
  <2> QED BY <1>0, <1>t, <1>k, <1>s, <2>2, <2>3, EmitsKeeps
<1>4. ASSUME NEW op, NEW t \in Topics, NEW kind \in Kinds(t), kind \in AllKinds,
             kind \in {"InventoryReservationFailed"} \cup SELLER_SIGNAL_EVENTS, t # "Price",
             NEW subject \in Ids \cup {0}, Emits(op, t, kind, subject, 0),
             UNCHANGED <<rows, priced, stocked, told>>
      PROVE  Inv'
  <2>1. kind \notin {"ProductCreated", "PriceUpdated", "InventoryReserved"} /\ kind \notin StockKinds
    BY <1>4, <1>e, <1>s
  <2>2. Moves(t, kind, subject, 0)
    BY <1>0, <1>4, <2>1 DEF Moves
  <2> QED BY <1>4, <2>2, EmitsKeeps
<1>5. ASSUME NEW p \in Products, ReservationFails(p) PROVE Inv'
  BY <1>0, <1>t, <1>k, <1>4, <1>5 DEF ReservationFails, stock
<1>6. CASE StandingChanges
  BY <1>t, <1>k, <1>e, <1>4, <1>6 DEF StandingChanges, stock
<1>7. CASE ReviewIsPublished
  BY <1>t, <1>k, <1>e, <1>4, <1>7 DEF ReviewIsPublished, stock
<1> QED BY <1>1, <1>2, <1>3, <1>5, <1>6, <1>7, <1>8, <1>9 DEF Sources

-----------------------------------------------------------------------------
(* dlq-reprocessor *)

(* The dead letter in hand, if there is one, comes from a failure.          *)
LEMMA LetterInHand ==
  ASSUME Inv, NEW t \in Topics, dpos[t] < Len(dlq[t])
  PROVE  /\ Letter(t).msg \in Messages /\ Genuine(t, Letter(t).msg) /\ Letter(t).msg.id \in 1 .. nextId - 1
         /\ Letter(t).msg.id \in EventIds
         /\ dpos[t] + 1 \in 1 .. Len(dlq[t]) /\ faults \in Nat \ {0}
<1>1. dpos[t] \in Nat /\ Len(dlq[t]) \in Nat /\ nextId \in Nat
  BY OnRecord DEF Inv, KafkaInv, SourceInv
<1>2. dpos[t] + 1 \in 1 .. Len(dlq[t])
  BY <1>1
<1>3. Letter(t).msg \in Messages /\ Genuine(t, Letter(t).msg)
  BY <1>2, OnRecord DEF Letter
<1>4. Letter(t).msg.id \in 1 .. nextId - 1 /\ Letter(t).msg.id \in EventIds
  BY <1>1, <1>3 DEF Genuine, Messages
<1>5. faults # 0
  <2>1. dlq[t] # <<>>
    BY <1>1
  <2> QED BY <2>1 DEF Inv, QuietInv
<1> QED BY <1>2, <1>3, <1>4, <1>5 DEF Inv, SourceInv

(* Committing a dead letter: those before it that were waiting are passed.  *)
LEMMA SettlesKeeps ==
  ASSUME Inv, NEW t \in Topics, dpos[t] < Len(dlq[t]), Settles(t),
         dpos' = [dpos EXCEPT ![t] = @ + 1], UNCHANGED <<dlq, nextId>>
  PROVE  /\ dpos' \in [Topics -> Nat] /\ ddone' \in [Topics -> Nat]
         /\ \A x \in Topics : ddone'[x] <= dpos'[x] /\ dpos'[x] <= Len(dlq[x])
         /\ passed \subseteq passed' /\ passed' \subseteq 1 .. nextId - 1
         /\ \A e : Dead(e) => Dead(e)' \/ e \in passed' \/ e = Letter(t).msg.id
<1>1. /\ dpos \in [Topics -> Nat] /\ ddone \in [Topics -> Nat] /\ nextId \in Nat
      /\ \A x \in Topics : ddone[x] <= dpos[x] /\ dpos[x] <= Len(dlq[x]) /\ Len(dlq[x]) \in Nat
  BY OnRecord DEF Inv, KafkaInv, SourceInv
<1>2. /\ ddone' = [ddone EXCEPT ![t] = dpos[t] + 1]
      /\ passed' = passed \cup {dlq[t][i].msg.id : i \in ddone[t] + 1 .. dpos[t]}
  BY DEF Settles
<1>3. /\ dpos' \in [Topics -> Nat] /\ ddone' \in [Topics -> Nat]
      /\ dpos'[t] = dpos[t] + 1 /\ ddone'[t] = dpos[t] + 1
      /\ \A x \in Topics : x # t => dpos'[x] = dpos[x] /\ ddone'[x] = ddone[x]
  BY <1>1, <1>2
<1>4. \A x \in Topics : ddone'[x] <= dpos'[x] /\ dpos'[x] <= Len(dlq[x])
  BY <1>1, <1>3
<1>5. passed' \subseteq 1 .. nextId - 1
  <2>1. ASSUME NEW i \in ddone[t] + 1 .. dpos[t] PROVE dlq[t][i].msg.id \in 1 .. nextId - 1
    <3>1. i \in 1 .. Len(dlq[t])
      BY <1>1
    <3>2. dlq[t][i].msg \in Messages /\ Genuine(t, dlq[t][i].msg)
      BY <3>1, OnRecord
    <3> QED BY <1>1, <3>2 DEF Genuine, Messages
  <2>2. passed \subseteq 1 .. nextId - 1
    BY DEF Inv, HandledInv
  <2> QED BY <1>2, <2>1, <2>2
<1>6. ASSUME NEW e, Dead(e) PROVE Dead(e)' \/ e \in passed' \/ e = Letter(t).msg.id
  <2>1. PICK x \in Topics : \E i \in ddone[x] + 1 .. Len(dlq[x]) : dlq[x][i].msg.id = e
    BY <1>6 DEF Dead
  <2>2. PICK i \in ddone[x] + 1 .. Len(dlq[x]) : dlq[x][i].msg.id = e
    BY <2>1
  <2>3. CASE x # t
    BY <1>3, <2>2, <2>3 DEF Dead
  <2>4. CASE x = t /\ i \in ddone[t] + 1 .. dpos[t]
    BY <1>2, <2>2, <2>4
  <2>5. CASE x = t /\ i = dpos[t] + 1
    BY <2>2, <2>5 DEF Letter
  <2>6. CASE x = t /\ i \in dpos[t] + 2 .. Len(dlq[t])
    <3>1. i \in ddone'[x] + 1 .. Len(dlq'[x])
      BY <1>1, <1>3, <2>6
    <3> QED BY <2>2, <3>1 DEF Dead
  <2> QED BY <1>1, <2>2, <2>3, <2>4, <2>5, <2>6
<1> QED BY <1>2, <1>3, <1>4, <1>5, <1>6

(* A dead letter put back on its topic.                                     *)
LEMMA PutBack ==
  ASSUME Inv, NEW t \in Topics, NEW m \in Messages, Genuine(t, m), log' = [log EXCEPT ![t] = Append(@, m)],
         UNCHANGED <<done, nextId, rows, priced, stocked, told>>
  PROVE  /\ log' \in [Topics -> Seq(Messages)]
         /\ \A x \in Topics : Len(log[x]) \in Nat /\ Len(log'[x]) \in Nat /\ Len(log[x]) <= Len(log'[x])
         /\ \A x \in Topics : \A i \in 1 .. Len(log'[x]) : Genuine(x, log[x][i])'
         /\ \A e : OnTopic(e) => OnTopic(e)'
         /\ OnTopic(m.id)'
<1>0. log \in [Topics -> Seq(Messages)] /\ done \in [Topics -> Nat] /\ \A x \in Topics : done[x] <= Len(log[x])
  BY DEF Inv, KafkaInv
<1>1. /\ log' \in [Topics -> Seq(Messages)]
      /\ Len(log'[t]) = Len(log[t]) + 1 /\ log'[t][Len(log[t]) + 1] = m
      /\ \A x \in Topics : /\ Len(log[x]) \in Nat /\ Len(log'[x]) \in Nat /\ Len(log[x]) <= Len(log'[x])
                           /\ \A i \in 1 .. Len(log[x]) : log'[x][i] = log[x][i]
      /\ \A x \in Topics : \A i \in 1 .. Len(log'[x]) :
           i \in 1 .. Len(log[x]) \/ (x = t /\ i = Len(log[t]) + 1 /\ log'[x][i] = m)
  BY <1>0, Appended
<1>2. ASSUME NEW x \in Topics, NEW i \in 1 .. Len(log'[x]) PROVE Genuine(x, log[x][i])'
  <2>1. PICK k : k = log'[x][i]
    OBVIOUS
  <2>2. Genuine(x, k)
    <3>1. CASE i \in 1 .. Len(log[x])
      BY <1>1, <2>1, <3>1, OnRecord
    <3>2. CASE x = t /\ log'[x][i] = m
      BY <2>1, <3>2
    <3> QED BY <1>1, <3>1, <3>2
  <2> QED BY <2>1, <2>2 DEF Genuine
<1>3. ASSUME NEW e, OnTopic(e) PROVE OnTopic(e)'
  <2>1. PICK x \in Topics : \E i \in done[x] + 1 .. Len(log[x]) : log[x][i].id = e
    BY <1>3 DEF OnTopic
  <2>2. PICK i \in done[x] + 1 .. Len(log[x]) : log[x][i].id = e
    BY <2>1
  <2>3. i \in 1 .. Len(log[x]) /\ i \in done[x] + 1 .. Len(log'[x])
    BY <1>0, <1>1
  <2> QED BY <1>1, <2>2, <2>3 DEF OnTopic
<1>4. OnTopic(m.id)'
  <2>1. Len(log[t]) + 1 \in done[t] + 1 .. Len(log'[t])
    BY <1>0, <1>1
  <2> QED BY <1>1, <2>1 DEF OnTopic
<1> QED BY <1>1, <1>2, <1>3, <1>4

\* What dlq-reprocessor never touches.
Elsewhere == UNCHANGED <<setting, done, unsent, lost, nextId, rows, priced, stocked, told, doc, hot, seen, aged,
                         hand, applied, skipped, pass>>

(* A step of dlq-reprocessor with a letter in hand leaves the rest alone.   *)
LEMMA ElsewhereKeeps ==
  ASSUME Inv, Elsewhere, restarts' \in Nat, restarts' = 0 => restarts = 0, faults \in Nat \ {0},
         UNCHANGED faults \/ faults' = faults + 1
  PROVE  SourceInv' /\ ProducerInv' /\ DocInv' /\ PassInv' /\ QuietInv'
<1>1. faults' \in Nat /\ faults' # 0
  OBVIOUS
<1>2. SourceInv' /\ QuietInv'
  BY <1>1 DEF Elsewhere, Inv, SourceInv, QuietInv
<1> QED BY <1>2, Frames DEF Elsewhere

(* What was published stays genuine while the tables stand.                 *)
LEMMA LettersStand ==
  ASSUME Inv, UNCHANGED <<nextId, rows, priced, stocked, told>>
  PROVE  /\ UNCHANGED log => \A x \in Topics : \A i \in 1 .. Len(log'[x]) : Genuine(x, log[x][i])'
         /\ UNCHANGED dlq => \A x \in Topics : \A i \in 1 .. Len(dlq'[x]) : Genuine(x, dlq[x][i].msg)'
<1>1. \A x \in Topics : \A i \in 1 .. Len(log[x]) : Genuine(x, log[x][i])
  BY DEF Inv, KafkaInv
<1>2. \A x \in Topics : \A i \in 1 .. Len(dlq[x]) : Genuine(x, dlq[x][i].msg)
  BY DEF Inv, KafkaInv
<1> QED BY <1>1, <1>2 DEF Genuine

(* A letter whose backoff has not elapsed, or that could not be produced.   *)
LEMMA LeftBehindKeeps ==
  ASSUME Inv, NEW t \in Topics, dpos[t] < Len(dlq[t]), dpos' = [dpos EXCEPT ![t] = @ + 1], Elsewhere,
         UNCHANGED <<log, dlq, ddone, attempts, republished, escalated, passed, restarts>>,
         UNCHANGED faults \/ faults' = faults + 1
  PROVE  Inv'
<1>1. restarts' \in Nat /\ faults \in Nat \ {0}
  BY LetterInHand DEF Inv, SourceInv
<1>2. SourceInv' /\ ProducerInv' /\ DocInv' /\ PassInv' /\ QuietInv'
  BY <1>1, ElsewhereKeeps
<1>3. WorkerInv' /\ HandledInv' /\ RetryInv' /\ Accounted'
  BY Frames DEF Elsewhere
<1>4. KafkaInv'
  <2>1. /\ dpos \in [Topics -> Nat] /\ ddone \in [Topics -> Nat]
        /\ \A x \in Topics : ddone[x] <= dpos[x] /\ dpos[x] <= Len(dlq[x]) /\ Len(dlq[x]) \in Nat
    BY OnRecord DEF Inv, KafkaInv
  <2>2. dpos' \in [Topics -> Nat] /\ \A x \in Topics : ddone[x] <= dpos'[x] /\ dpos'[x] <= Len(dlq[x])
    BY <2>1
  <2> QED BY <2>2, LettersStand DEF Elsewhere, Inv, KafkaInv
<1> QED BY <1>2, <1>3, <1>4 DEF Inv

(* A letter written to the audit log and committed.                         *)
LEMMA EscalatedKeeps ==
  ASSUME Inv, NEW t \in Topics, dpos[t] < Len(dlq[t]), dpos' = [dpos EXCEPT ![t] = @ + 1], Elsewhere,
         escalated' = escalated \cup {Letter(t).msg.id}, Settles(t),
         UNCHANGED <<log, dlq, attempts, republished, restarts, faults>>
  PROVE  Inv'
<1>1. restarts' \in Nat /\ faults \in Nat \ {0} /\ Letter(t).msg.id \in 1 .. nextId - 1
  BY LetterInHand DEF Inv, SourceInv
<1>2. SourceInv' /\ ProducerInv' /\ DocInv' /\ PassInv' /\ QuietInv'
  BY <1>1, ElsewhereKeeps
<1>3. WorkerInv' /\ RetryInv'
  BY Frames DEF Elsewhere
<1>4. /\ dpos' \in [Topics -> Nat] /\ ddone' \in [Topics -> Nat]
      /\ \A x \in Topics : ddone'[x] <= dpos'[x] /\ dpos'[x] <= Len(dlq[x])
      /\ passed \subseteq passed' /\ passed' \subseteq 1 .. nextId - 1
      /\ \A e : Dead(e) => Dead(e)' \/ e \in passed' \/ e = Letter(t).msg.id
  BY SettlesKeeps DEF Elsewhere
<1>5. KafkaInv'
  BY <1>4, LettersStand DEF Elsewhere, Inv, KafkaInv
<1>6. HandledInv'
  BY <1>1, <1>4 DEF Elsewhere, Inv, HandledInv
<1>7. Accounted'
  <2> SUFFICES ASSUME setting.broker, NEW e \in 1 .. nextId - 1 PROVE Somewhere(e)'
    BY DEF Accounted, Elsewhere
  <2>1. (OnTopic(e) => OnTopic(e)') /\ (Unsent(e) => Unsent(e)')
    BY DEF OnTopic, Unsent, Elsewhere
  <2>2. Somewhere(e) /\ UNCHANGED <<applied, skipped, lost>> /\ escalated' = escalated \cup {Letter(t).msg.id}
    BY DEF Inv, Accounted, Elsewhere
  <2> QED BY <1>4, <2>1, <2>2 DEF Somewhere
<1> QED BY <1>2, <1>3, <1>5, <1>6, <1>7 DEF Inv

(* An attempt is only made, and counted, below the limit.                   *)
LEMMA RetryCounted ==
  ASSUME Inv, NEW e \in EventIds, NEW error, plan_recovery(e, error) = "republish",
         republished' = [republished EXCEPT ![e] = @ + 1], setting' = setting,
         \/ attempts' = [attempts EXCEPT ![e] = @ + 1] /\ restarts' \in {restarts, restarts + 1}
         \/ attempts' = attempts /\ restarts' = restarts + 1
         \/ attempts' = attempts /\ restarts' = restarts /\ ~setting.redis
  PROVE  RetryInv' /\ restarts' \in Nat
<1>1. /\ attempts \in [EventIds -> Nat] /\ republished \in [EventIds -> Nat] /\ restarts \in Nat
      /\ \A x \in EventIds : attempts[x] <= MAX_RETRIES
      /\ setting.redis => \A x \in EventIds : republished[x] <= attempts[x] + restarts
  BY DEF Inv, SourceInv, RetryInv
<1>2. MAX_RETRIES \in Nat
  BY DeadLettersConstants
<1>3. attempts[e] < MAX_RETRIES
  <2>1. ~(attempts[e] >= MAX_RETRIES)
    BY DEF plan_recovery
  <2> QED BY <1>1, <1>2, <2>1
<1>4. republished' \in [EventIds -> Nat] /\ republished'[e] = republished[e] + 1
      /\ \A x \in EventIds : x # e => republished'[x] = republished[x]
  BY <1>1
<1>5. attempts' \in [EventIds -> Nat] /\ \A x \in EventIds : x # e => attempts'[x] = attempts[x]
  BY <1>1
<1>6. attempts'[e] = attempts[e] \/ attempts'[e] = attempts[e] + 1
  BY <1>1
<1>7. \A x \in EventIds : attempts'[x] <= MAX_RETRIES
  BY <1>1, <1>2, <1>3, <1>5, <1>6
<1>8. restarts' = restarts \/ restarts' = restarts + 1
  OBVIOUS
<1>9. ASSUME setting.redis, NEW x \in EventIds PROVE republished'[x] <= attempts'[x] + restarts'
  <2>1. republished[x] <= attempts[x] + restarts /\ republished[x] \in Nat /\ attempts[x] \in Nat
    BY <1>1, <1>9
  <2>2. CASE x # e
    BY <1>1, <1>4, <1>5, <1>8, <2>1, <2>2
  <2>3. CASE x = e
    <3>1. \/ attempts'[e] = attempts[e] + 1
          \/ attempts'[e] = attempts[e] /\ restarts' = restarts + 1
      BY <1>1, <1>9
    <3> QED BY <1>1, <1>4, <1>8, <2>1, <2>3, <3>1
  <2> QED BY <2>2, <2>3
<1> QED BY <1>1, <1>4, <1>5, <1>7, <1>8, <1>9 DEF RetryInv

(* A letter put back, counted and committed.                                *)
LEMMA RepublishKeeps ==
  ASSUME Inv, NEW t \in Topics, Republish(t), UNCHANGED <<source, index, worker, pass>>
  PROVE  Inv'
<1>1. PICK m : m = Letter(t).msg
  OBVIOUS
<1>2. /\ dpos[t] < Len(dlq[t]) /\ plan_recovery(m.id, Letter(t).error) = "republish"
      /\ dpos' = [dpos EXCEPT ![t] = @ + 1] /\ Settles(t)
      /\ log' = [log EXCEPT ![t] = Append(@, m)] \/ (~setting.broker /\ log' = log)
      /\ republished' = [republished EXCEPT ![m.id] = @ + 1]
      /\ attempts' = [attempts EXCEPT ![m.id] = @ + 1] \/ (~setting.redis /\ attempts' = attempts)
      /\ UNCHANGED <<dlq, escalated, faults, restarts>> /\ Elsewhere
  BY <1>1 DEF Republish, Decides, Elsewhere, producer, source, stock, index, worker
<1>3. /\ m \in Messages /\ Genuine(t, m) /\ m.id \in 1 .. nextId - 1 /\ m.id \in EventIds
      /\ faults \in Nat \ {0}
  BY <1>1, <1>2, LetterInHand
<1>4. RetryInv' /\ restarts' \in Nat
  BY <1>2, <1>3, RetryCounted DEF Elsewhere
<1>5. SourceInv' /\ ProducerInv' /\ DocInv' /\ PassInv' /\ QuietInv'
  BY <1>2, <1>3, <1>4, ElsewhereKeeps
<1>6. /\ dpos' \in [Topics -> Nat] /\ ddone' \in [Topics -> Nat]
      /\ \A x \in Topics : ddone'[x] <= dpos'[x] /\ dpos'[x] <= Len(dlq[x])
      /\ passed \subseteq passed' /\ passed' \subseteq 1 .. nextId - 1
      /\ \A e : Dead(e) => Dead(e)' \/ e \in passed' \/ e = m.id
  BY <1>1, <1>2, SettlesKeeps DEF Elsewhere
<1>7. /\ log' \in [Topics -> Seq(Messages)]
      /\ \A x \in Topics : Len(log[x]) \in Nat /\ Len(log'[x]) \in Nat /\ Len(log[x]) <= Len(log'[x])
      /\ \A x \in Topics : \A i \in 1 .. Len(log'[x]) : Genuine(x, log[x][i])'
      /\ \A e : OnTopic(e) => OnTopic(e)'
      /\ setting.broker => OnTopic(m.id)'
  <2>1. CASE log' = [log EXCEPT ![t] = Append(@, m)]
    BY <1>2, <1>3, <2>1, PutBack DEF Elsewhere
  <2>2. CASE ~setting.broker /\ log' = log
    <3>1. \A x \in Topics : Len(log[x]) \in Nat
      BY OnRecord
    <3>2. log \in [Topics -> Seq(Messages)] /\ \A x \in Topics : \A i \in 1 .. Len(log[x]) : Genuine(x, log[x][i])
      BY DEF Inv, KafkaInv
    <3>3. \A x, y : Genuine(x, y)' = Genuine(x, y)
      BY <1>2 DEF Elsewhere, Genuine
    <3>4. \A e : OnTopic(e) => OnTopic(e)'
      BY <1>2, <2>2 DEF Elsewhere, OnTopic
    <3>5. \A x \in Topics : \A i \in 1 .. Len(log'[x]) : Genuine(x, log[x][i])'
      BY <1>2, <2>2, <3>2 DEF Elsewhere, Genuine
    <3> QED BY <2>2, <3>1, <3>2, <3>4, <3>5
  <2> QED BY <1>2, <2>1, <2>2
<1>8. KafkaInv'
  <2>1. \A x \in Topics : \A i \in 1 .. Len(dlq[x]) : Genuine(x, dlq[x][i].msg)'
    BY <1>2 DEF Elsewhere, Inv, KafkaInv, Genuine
  <2>2. \A x \in Topics : done[x] \in Nat /\ done[x] <= Len(log'[x])
    <3>1. \A x \in Topics : done[x] \in Nat /\ done[x] <= Len(log[x])
      BY DEF Inv, KafkaInv
    <3>2. \A x \in Topics : Len(log[x]) \in Nat /\ Len(log'[x]) \in Nat /\ Len(log[x]) <= Len(log'[x])
      BY <1>7
    <3> QED BY ONLY <3>1, <3>2
  <2> QED BY <1>2, <1>6, <1>7, <2>1, <2>2 DEF Elsewhere, Inv, KafkaInv
<1>9. WorkerInv'
  <2>1. "Seller" \in Topics /\ done["Seller"] \in Nat
    BY SearchConstants DEF Inv, KafkaInv
  <2>2. done["Seller"] < Len(log["Seller"]) => done["Seller"] < Len(log'["Seller"])
    BY <1>7, <2>1
  <2> QED BY <1>2, <2>2 DEF Elsewhere, Inv, WorkerInv
<1>10. HandledInv'
  BY <1>2, <1>6 DEF Elsewhere, Inv, HandledInv
<1>11. Accounted'
  <2> SUFFICES ASSUME setting.broker, NEW e \in 1 .. nextId - 1 PROVE Somewhere(e)'
    BY <1>2 DEF Accounted, Elsewhere
  <2>1. Unsent(e) => Unsent(e)'
    BY <1>2 DEF Unsent, Elsewhere
  <2>2. Somewhere(e) /\ UNCHANGED <<applied, skipped, escalated, lost>>
    BY <1>2 DEF Inv, Accounted, Elsewhere
  <2> QED BY <1>6, <1>7, <2>1, <2>2 DEF Somewhere
<1> QED BY <1>4, <1>5, <1>8, <1>9, <1>10, <1>11 DEF Inv

(* dlq-reprocessor dies after it produced: the letter is read again.        *)
LEMMA RepublishDiesKeeps ==
  ASSUME Inv, NEW t \in Topics, RepublishDies(t), UNCHANGED <<source, index, worker, pass>>
  PROVE  Inv'
<1>1. PICK m : m = Letter(t).msg
  OBVIOUS
<1>2. /\ dpos[t] < Len(dlq[t]) /\ plan_recovery(m.id, Letter(t).error) = "republish"
      /\ restarts' = restarts + 1 /\ dpos' = ddone
      /\ log' = [log EXCEPT ![t] = Append(@, m)]
      /\ republished' = [republished EXCEPT ![m.id] = @ + 1]
      /\ attempts' = [attempts EXCEPT ![m.id] = @ + 1] \/ attempts' = attempts
      /\ UNCHANGED <<dlq, ddone, escalated, passed, faults>> /\ Elsewhere
  BY <1>1 DEF RepublishDies, Elsewhere, producer, source, stock, index, worker
<1>3. /\ m \in Messages /\ Genuine(t, m) /\ m.id \in EventIds /\ faults \in Nat \ {0}
  BY <1>1, <1>2, LetterInHand
<1>4. RetryInv' /\ restarts' \in Nat /\ restarts' # 0
  <2>1. restarts \in Nat
    BY DEF Inv, SourceInv
  <2>2. RetryInv'
    BY <1>2, <1>3, RetryCounted DEF Elsewhere
  <2> QED BY <1>2, <2>1, <2>2
<1>5. SourceInv' /\ ProducerInv' /\ DocInv' /\ PassInv' /\ QuietInv'
  BY <1>2, <1>3, <1>4, ElsewhereKeeps
<1>6. /\ log' \in [Topics -> Seq(Messages)]
      /\ \A x \in Topics : Len(log[x]) \in Nat /\ Len(log'[x]) \in Nat /\ Len(log[x]) <= Len(log'[x])
      /\ \A x \in Topics : \A i \in 1 .. Len(log'[x]) : Genuine(x, log[x][i])'
      /\ \A e : OnTopic(e) => OnTopic(e)'
  BY <1>2, <1>3, PutBack DEF Elsewhere
<1>7. KafkaInv'
  <2>1. \A x \in Topics : \A i \in 1 .. Len(dlq[x]) : Genuine(x, dlq[x][i].msg)'
    BY <1>2 DEF Elsewhere, Inv, KafkaInv, Genuine
  <2>2. \A x \in Topics : done[x] \in Nat /\ done[x] <= Len(log'[x])
    <3>1. \A x \in Topics : done[x] \in Nat /\ done[x] <= Len(log[x])
      BY DEF Inv, KafkaInv
    <3>2. \A x \in Topics : Len(log[x]) \in Nat /\ Len(log'[x]) \in Nat /\ Len(log[x]) <= Len(log'[x])
      BY <1>6
    <3> QED BY ONLY <3>1, <3>2
  <2>3. \A x \in Topics : ddone[x] \in Nat /\ ddone[x] <= Len(dlq[x])
    <3>1. \A x \in Topics : ddone[x] \in Nat /\ dpos[x] \in Nat /\ Len(dlq[x]) \in Nat
                            /\ ddone[x] <= dpos[x] /\ dpos[x] <= Len(dlq[x])
      BY OnRecord DEF Inv, KafkaInv
    <3> QED BY ONLY <3>1
  <2>4. /\ dlq \in [Topics -> Seq(Letters)] /\ done \in [Topics -> Nat] /\ ddone \in [Topics -> Nat]
    BY DEF Inv, KafkaInv
  <2>5. \A x \in Topics : done'[x] <= Len(log'[x]) /\ ddone'[x] <= dpos'[x] /\ dpos'[x] <= Len(dlq'[x])
    <3>1. done' = done /\ ddone' = ddone /\ dpos' = ddone /\ dlq' = dlq
      BY <1>2 DEF Elsewhere
    <3> QED BY ONLY <2>2, <2>3, <3>1
  <2>6. \A x \in Topics : \A i \in 1 .. Len(dlq'[x]) : Genuine(x, dlq[x][i].msg)'
    BY <1>2, <2>1
  <2> QED BY <1>2, <1>6, <2>4, <2>5, <2>6 DEF Elsewhere, KafkaInv
<1>8. WorkerInv'
  <2>1. "Seller" \in Topics /\ done["Seller"] \in Nat
    BY SearchConstants DEF Inv, KafkaInv
  <2>2. done["Seller"] < Len(log["Seller"]) => done["Seller"] < Len(log'["Seller"])
    BY <1>6, <2>1
  <2> QED BY <1>2, <2>2 DEF Elsewhere, Inv, WorkerInv
<1>9. HandledInv'
  BY <1>2, Frames DEF Elsewhere
<1>10. Accounted'
  <2> SUFFICES ASSUME setting.broker, NEW e \in 1 .. nextId - 1 PROVE Somewhere(e)'
    BY <1>2 DEF Accounted, Elsewhere
  <2>1. (Dead(e) => Dead(e)') /\ (Unsent(e) => Unsent(e)')
    BY <1>2 DEF Dead, Unsent, Elsewhere
  <2>2. Somewhere(e) /\ UNCHANGED <<applied, skipped, escalated, passed, lost>>
    BY <1>2 DEF Inv, Accounted, Elsewhere
  <2> QED BY <1>6, <2>1, <2>2 DEF Somewhere
<1> QED BY <1>4, <1>5, <1>7, <1>8, <1>9, <1>10 DEF Inv

(* Every step of dlq-reprocessor keeps the invariant.                       *)
LEMMA ReprocessorKeeps ==
  ASSUME Inv, ReprocessorNext, UNCHANGED <<source, index, worker, pass>>
  PROVE  Inv'
<1>0. UNCHANGED <<nextId, rows, priced, stocked, told, doc, hot, seen, aged, hand, applied, skipped, pass>>
  BY DEF source, stock, index, worker
<1>1. ASSUME NEW t \in Topics, Wait(t) \/ RepublishFails(t) PROVE Inv'
  <2>1. /\ dpos[t] < Len(dlq[t]) /\ dpos' = [dpos EXCEPT ![t] = @ + 1]
        /\ UNCHANGED <<setting, log, done, dlq, ddone, attempts, republished, escalated, passed, restarts>>
        /\ UNCHANGED <<unsent, lost>>
        /\ UNCHANGED faults \/ faults' = faults + 1
    BY <1>1 DEF Wait, RepublishFails, Decides, producer
  <2> QED BY <1>0, <2>1, LeftBehindKeeps DEF Elsewhere
<1>2. ASSUME NEW t \in Topics, Escalate(t) PROVE Inv'
  <2>1. /\ dpos[t] < Len(dlq[t]) /\ dpos' = [dpos EXCEPT ![t] = @ + 1]
        /\ UNCHANGED <<setting, log, done, dlq, attempts, republished, restarts, unsent, lost>>
        /\ \/ escalated' = escalated \cup {Letter(t).msg.id} /\ Settles(t) /\ UNCHANGED faults
           \/ faults' = faults + 1 /\ UNCHANGED <<escalated, ddone, passed>>
    BY <1>2 DEF Escalate, Decides, producer
  <2>2. Elsewhere
    BY <1>0, <2>1 DEF Elsewhere
  <2>3. CASE escalated' = escalated \cup {Letter(t).msg.id} /\ Settles(t) /\ UNCHANGED faults
    BY <2>1, <2>2, <2>3, EscalatedKeeps
  <2>4. CASE faults' = faults + 1 /\ UNCHANGED <<escalated, ddone, passed>>
    BY <2>1, <2>2, <2>4, LeftBehindKeeps
  <2> QED BY <2>1, <2>3, <2>4
<1>3. ASSUME NEW t \in Topics, Republish(t) PROVE Inv'
  BY <1>3, RepublishKeeps
<1>4. ASSUME NEW t \in Topics, RepublishDies(t) PROVE Inv'
  BY <1>4, RepublishDiesKeeps
<1>5. CASE ReprocessorRestarts
  <2>1. /\ restarts' = restarts + 1 /\ dpos' = ddone
        /\ UNCHANGED <<setting, log, done, dlq, ddone, attempts, republished, escalated, passed, faults>>
        /\ UNCHANGED <<unsent, lost>>
    BY <1>5 DEF ReprocessorRestarts, producer
  <2>2. restarts \in Nat /\ restarts' \in Nat /\ restarts' # 0
    BY <2>1 DEF Inv, SourceInv
  <2>3. SourceInv'
    BY <1>0, <2>1, <2>2 DEF Inv, SourceInv
  <2>4. KafkaInv'
    <3>1. \A x \in Topics : ddone[x] \in Nat /\ dpos[x] \in Nat /\ Len(dlq[x]) \in Nat
                            /\ ddone[x] <= dpos[x] /\ dpos[x] <= Len(dlq[x])
      BY OnRecord DEF Inv, KafkaInv
    <3>2. \A x \in Topics : ddone[x] <= ddone[x] /\ ddone[x] <= Len(dlq[x])
      BY <3>1
    <3> QED BY <1>0, <2>1, <3>2, LettersStand DEF Inv, KafkaInv
  <2>5. RetryInv'
    <3>1. ASSUME setting.redis, NEW e \in EventIds PROVE republished[e] <= attempts[e] + restarts'
      <4>1. republished[e] \in Nat /\ attempts[e] \in Nat /\ republished[e] <= attempts[e] + restarts
        BY <3>1 DEF Inv, RetryInv
      <4> QED BY <2>1, <2>2, <4>1
    <3> QED BY <2>1, <3>1 DEF Inv, RetryInv
  <2>6. ProducerInv' /\ DocInv' /\ WorkerInv' /\ HandledInv' /\ Accounted' /\ PassInv' /\ QuietInv'
    BY <1>0, <2>1, <2>2, Frames
  <2> QED BY <2>3, <2>4, <2>5, <2>6 DEF Inv
<1>6. ASSUME NEW e \in EventIds, BackoffElapses(e) PROVE Inv'
  <2>1. UNCHANGED <<setting, log, done, unsent, lost, dlq, dpos, ddone, attempts, republished, escalated,
                    passed, faults, restarts>>
    BY <1>6 DEF BackoffElapses, producer
  <2>2. SourceInv' /\ KafkaInv' /\ ProducerInv' /\ DocInv' /\ WorkerInv' /\ HandledInv' /\ RetryInv'
    BY <1>0, <2>1, Frames
  <2>3. Accounted' /\ PassInv' /\ QuietInv'
    BY <1>0, <2>1, Frames
  <2> QED BY <2>2, <2>3 DEF Inv
<1> QED BY <1>1, <1>2, <1>3, <1>4, <1>5, <1>6 DEF ReprocessorNext, Reprocess

-----------------------------------------------------------------------------
(* stream-processor's producer *)

(* The producer is left alone, or its process dies and starts again without  *)
(* what it held.                                                             *)
LEMMA ProducerMoves ==
  ASSUME Inv, UNCHANGED <<restarts, unsent, lost>> \/ Dies,
         UNCHANGED <<setting, nextId, rows, priced, stocked, told>>
  PROVE  /\ ProducerInv'
         /\ lost \subseteq lost' /\ \A e : Unsent(e) => Unsent(e)' \/ e \in lost'
         /\ \A t \in Topics : unsent[t] = <<>> => unsent'[t] = <<>>
         /\ restarts' \in Nat
         /\ UNCHANGED <<attempts, republished>> => RetryInv'
<1>0. restarts \in Nat
  BY DEF Inv, SourceInv
<1>1. CASE UNCHANGED <<restarts, unsent, lost>>
  BY <1>0, <1>1, Frames DEF Unsent
<1>2. CASE Dies
  <2>1. /\ restarts' = restarts + 1 /\ unsent' = [t \in Topics |-> <<>>]
        /\ lost' = lost \cup UNION {{unsent[t][i].msg.id : i \in 1 .. Len(unsent[t])} : t \in Topics}
    BY <1>2 DEF Dies
  <2>2. unsent' \in [Topics -> Seq(Letters)] /\ \A t \in Topics : unsent'[t] = <<>> /\ Len(unsent'[t]) = 0
    <3>1. <<>> \in Seq(Letters) /\ Len(<<>>) = 0
      OBVIOUS
    <3> QED BY <2>1, <3>1
  <2>3. ASSUME NEW t \in Topics, NEW i \in 1 .. Len(unsent[t]) PROVE unsent[t][i].msg.id \in 1 .. nextId - 1
    <3>1. unsent[t][i].msg \in Messages /\ Genuine(t, unsent[t][i].msg) /\ nextId \in Nat
      BY OnRecord DEF Inv, SourceInv
    <3> QED BY <3>1 DEF Genuine, Messages
  <2>4. lost' \subseteq 1 .. nextId - 1
    <3>1. lost \subseteq 1 .. nextId - 1
      BY DEF Inv, ProducerInv
    <3>2. \A S \in {{unsent[t][i].msg.id : i \in 1 .. Len(unsent[t])} : t \in Topics} : S \subseteq 1 .. nextId - 1
      BY ONLY <2>3
    <3>3. PICK U : U = {{unsent[t][i].msg.id : i \in 1 .. Len(unsent[t])} : t \in Topics}
      OBVIOUS
    <3>4. \A S \in U : S \subseteq 1 .. nextId - 1
      BY <3>2, <3>3
    <3>5. lost' = lost \cup UNION U
      BY <2>1, <3>3
    <3> QED BY ONLY <3>1, <3>4, <3>5
  <2>5. restarts' \in Nat /\ restarts' # 0
    BY <1>0, <2>1
  <2>6. ProducerInv'
    BY <2>2, <2>4, <2>5 DEF ProducerInv
  <2>7. lost \subseteq lost' /\ \A e : Unsent(e) => e \in lost'
    BY <2>1 DEF Unsent
  <2>8. UNCHANGED <<attempts, republished>> => RetryInv'
    <3>1. ASSUME setting.redis, NEW e \in EventIds PROVE republished[e] <= attempts[e] + restarts'
      <4>1. republished[e] \in Nat /\ attempts[e] \in Nat /\ republished[e] <= attempts[e] + restarts
        BY <3>1 DEF Inv, RetryInv
      <4> QED BY <1>0, <2>1, <4>1
    <3> QED BY <3>1 DEF Inv, RetryInv
  <2> QED BY <2>2, <2>5, <2>6, <2>7, <2>8
<1> QED BY <1>1, <1>2

(* A dead letter arrives on its topic, or the broker dropped it.             *)
LEMMA LetterArrives ==
  ASSUME Inv, NEW t \in Topics, NEW l \in Letters, Genuine(t, l.msg),
         dlq' = [dlq EXCEPT ![t] = Append(@, l)] \/ (~setting.broker /\ dlq' = dlq),
         UNCHANGED <<log, done, dpos, ddone, nextId, rows, priced, stocked, told>>
  PROVE  /\ KafkaInv'
         /\ \A e : (Dead(e) => Dead(e)') /\ (OnTopic(e) => OnTopic(e)')
         /\ setting.broker => Dead(l.msg.id)'
<1>1. /\ dlq' \in [Topics -> Seq(Letters)]
      /\ \A x \in Topics : Len(dlq[x]) \in Nat /\ Len(dlq'[x]) \in Nat /\ Len(dlq[x]) <= Len(dlq'[x])
      /\ \A x \in Topics : \A i \in 1 .. Len(dlq[x]) : dlq'[x][i] = dlq[x][i]
      /\ \A x \in Topics : \A i \in 1 .. Len(dlq'[x]) : i \in 1 .. Len(dlq[x]) \/ (x = t /\ dlq'[x][i] = l)
      /\ setting.broker => Len(dlq'[t]) = Len(dlq[t]) + 1 /\ dlq'[t][Len(dlq[t]) + 1] = l
  <2>0. dlq \in [Topics -> Seq(Letters)]
    BY DEF Inv, KafkaInv
  <2>1. CASE dlq' = [dlq EXCEPT ![t] = Append(@, l)]
    BY <2>0, <2>1, Appended
  <2>2. CASE ~setting.broker /\ dlq' = dlq
    <3>1. \A x \in Topics : Len(dlq[x]) \in Nat
      BY OnRecord
    <3> QED BY <2>0, <2>2, <3>1
  <2> QED BY <2>1, <2>2
<1>2. KafkaInv'
  <2>1. ASSUME NEW x \in Topics, NEW i \in 1 .. Len(dlq'[x]) PROVE Genuine(x, dlq[x][i].msg)'
    <3>1. PICK n : n = dlq'[x][i].msg
      OBVIOUS
    <3>2. Genuine(x, n)
      <4>1. CASE i \in 1 .. Len(dlq[x])
        BY <1>1, <3>1, <4>1, OnRecord
      <4>2. CASE x = t /\ dlq'[x][i] = l
        BY <3>1, <4>2
      <4> QED BY <1>1, <4>1, <4>2
    <3> QED BY <3>1, <3>2 DEF Genuine
  <2>2. \A x \in Topics : dpos[x] \in Nat /\ dpos[x] <= Len(dlq'[x])
    <3>1. \A x \in Topics : dpos[x] \in Nat /\ dpos[x] <= Len(dlq[x])
      BY DEF Inv, KafkaInv
    <3> QED BY <1>1, <3>1
  <2>3. \A x \in Topics : \A i \in 1 .. Len(log'[x]) : Genuine(x, log[x][i])'
    BY LettersStand
  <2> QED BY <1>1, <2>1, <2>2, <2>3 DEF Inv, KafkaInv
<1>3. ASSUME NEW e PROVE Dead(e) => Dead(e)'
  <2>1. ASSUME NEW x \in Topics, NEW i \in ddone[x] + 1 .. Len(dlq[x]), dlq[x][i].msg.id = e PROVE Dead(e)'
    <3>1. ddone[x] \in Nat /\ Len(dlq[x]) \in Nat /\ Len(dlq'[x]) \in Nat /\ Len(dlq[x]) <= Len(dlq'[x])
      BY <1>1 DEF Inv, KafkaInv
    <3>2. i \in 1 .. Len(dlq[x]) /\ i \in ddone[x] + 1 .. Len(dlq'[x])
      BY <3>1
    <3>3. dlq'[x][i].msg.id = e
      BY <1>1, <2>1, <3>2
    <3> QED BY <3>2, <3>3 DEF Dead
  <2> QED BY <2>1 DEF Dead
<1>4. ASSUME setting.broker PROVE Dead(l.msg.id)'
  <2>1. /\ ddone[t] \in Nat /\ dpos[t] \in Nat /\ Len(dlq[t]) \in Nat
        /\ ddone[t] <= dpos[t] /\ dpos[t] <= Len(dlq[t])
    BY <1>1, <1>4 DEF Inv, KafkaInv
  <2>2. Len(dlq[t]) + 1 \in ddone[t] + 1 .. Len(dlq'[t])
    BY <1>1, <1>4, <2>1
  <2>3. PICK i \in ddone[t] + 1 .. Len(dlq'[t]) : dlq'[t][i] = l
    BY <1>1, <1>4, <2>2
  <2> QED BY <2>3 DEF Dead
<1>5. \A e : OnTopic(e) => OnTopic(e)'
  BY DEF OnTopic
<1> QED BY <1>2, <1>3, <1>4, <1>5

(* What is taken from the front of a sequence, and what stays.               *)
LEMMA HeadAndTail ==
  ASSUME NEW S, NEW u \in Seq(S), u # <<>>
  PROVE  /\ Len(u) \in Nat /\ 1 \in 1 .. Len(u) /\ Head(u) = u[1] /\ Head(u) \in S
         /\ Tail(u) \in Seq(S) /\ Len(Tail(u)) = Len(u) - 1
         /\ \A i \in 1 .. Len(Tail(u)) : i + 1 \in 1 .. Len(u) /\ Tail(u)[i] = u[i + 1]
<1>1. Len(u) \in Nat /\ 1 \in 1 .. Len(u)
  OBVIOUS
<1>2. Head(u) = u[1]
  OBVIOUS
<1>3. Head(u) \in S
  BY <1>1, <1>2
<1>4. Tail(u) \in Seq(S) /\ Len(Tail(u)) = Len(u) - 1
  OBVIOUS
<1>5. ASSUME NEW i \in 1 .. Len(Tail(u)) PROVE i + 1 \in 1 .. Len(u) /\ Tail(u)[i] = u[i + 1]
  <2>1. i + 1 \in 1 .. Len(u)
    BY <1>1, <1>4
  <2>2. Tail(u)[i] = u[i + 1]
    BY <1>1, <1>4
  <2> QED BY <2>1, <2>2
<1> QED BY <1>1, <1>2, <1>3, <1>4, <1>5

(* The broker takes the oldest letter, or nobody hears that it did not.      *)
LEMMA LetterIsSentKeeps ==
  ASSUME Inv, NEW t \in Topics, LetterIsSent(t), UNCHANGED <<source, index, worker, pass>>
  PROVE  Inv'
<1>1. /\ unsent[t] # <<>> /\ unsent' = [unsent EXCEPT ![t] = Tail(@)]
      /\ dlq' = [dlq EXCEPT ![t] = Append(@, Head(unsent[t]))] \/ (~setting.broker /\ dlq' = dlq)
      /\ UNCHANGED <<setting, log, done, dpos, ddone, attempts, republished, escalated, passed, faults,
                     restarts, lost>>
  BY DEF LetterIsSent
<1>2. UNCHANGED <<nextId, rows, priced, stocked, told, doc, hot, seen, aged, hand, applied, skipped, pass>>
  BY DEF source, stock, index, worker
<1>3. PICK u \in Seq(Letters) : u = unsent[t] /\ u # <<>>
  BY <1>1 DEF Inv, ProducerInv
<1>4. /\ Len(u) \in Nat /\ 1 \in 1 .. Len(u) /\ Head(u) = u[1] /\ Head(u) \in Letters
      /\ Tail(u) \in Seq(Letters) /\ Len(Tail(u)) = Len(u) - 1
      /\ \A i \in 1 .. Len(Tail(u)) : i + 1 \in 1 .. Len(u) /\ Tail(u)[i] = u[i + 1]
  BY ONLY <1>3, HeadAndTail
<1>5. PICK l \in Letters : l = Head(u)
  BY <1>4
<1>6. l.msg \in Messages /\ Genuine(t, l.msg)
  BY <1>3, <1>4, <1>5, OnRecord
<1>7. /\ unsent' \in [Topics -> Seq(Letters)] /\ unsent'[t] = Tail(u)
      /\ \A x \in Topics : x # t => unsent'[x] = unsent[x]
  BY <1>1, <1>3, <1>4 DEF Inv, ProducerInv
<1>8. \A x \in Topics : \A i \in 1 .. Len(unsent'[x]) :
        \E j \in 1 .. Len(unsent[x]) : unsent'[x][i] = unsent[x][j]
  <2> SUFFICES ASSUME NEW x \in Topics, NEW i \in 1 .. Len(unsent'[x])
               PROVE  \E j \in 1 .. Len(unsent[x]) : unsent'[x][i] = unsent[x][j]
    OBVIOUS
  <2>1. CASE x # t
    BY <1>7, <2>1
  <2>2. CASE x = t
    <3>1. i \in 1 .. Len(Tail(u)) /\ unsent'[x][i] = Tail(u)[i]
      BY <1>7, <2>2
    <3>2. i + 1 \in 1 .. Len(unsent[x]) /\ unsent'[x][i] = unsent[x][i + 1]
      BY <1>3, <1>4, <2>2, <3>1
    <3> QED BY <3>2
  <2> QED BY <2>1, <2>2
<1>9. ProducerInv'
  <2>1. ASSUME NEW x \in Topics, NEW i \in 1 .. Len(unsent'[x]) PROVE Genuine(x, unsent[x][i].msg)'
    <3>1. PICK n : n = unsent'[x][i].msg
      OBVIOUS
    <3>2. Genuine(x, n)
      BY <1>8, <3>1, OnRecord
    <3> QED BY <1>2, <3>1, <3>2 DEF Genuine
  <2> QED BY <1>1, <1>2, <1>7, <2>1 DEF Inv, ProducerInv
<1>10. faults \in Nat \ {0}
  BY <1>1 DEF Inv, SourceInv, QuietInv
<1>11. /\ KafkaInv'
       /\ \A e : (Dead(e) => Dead(e)') /\ (OnTopic(e) => OnTopic(e)')
       /\ setting.broker => Dead(l.msg.id)'
  BY <1>1, <1>2, <1>3, <1>5, <1>6, LetterArrives
<1>13. Accounted'
  <2> SUFFICES ASSUME setting.broker, NEW e \in 1 .. nextId - 1 PROVE Somewhere(e)'
    BY <1>1, <1>2 DEF Accounted
  <2>4. Unsent(e) => Unsent(e)' \/ e = l.msg.id
    <3> SUFFICES ASSUME NEW x \in Topics, NEW i \in 1 .. Len(unsent[x]), unsent[x][i].msg.id = e
                 PROVE  Unsent(e)' \/ e = l.msg.id
      BY DEF Unsent
    <3>1. CASE x # t
      BY <1>7, <3>1 DEF Unsent
    <3>2. CASE x = t /\ i = 1
      BY <1>3, <1>4, <1>5, <3>2
    <3>3. CASE x = t /\ i # 1
      <4>1. i - 1 \in 1 .. Len(Tail(u)) /\ Tail(u)[i - 1] = u[i]
        BY <1>3, <1>4, <3>3
      <4> QED BY <1>3, <1>7, <3>3, <4>1 DEF Unsent
    <3> QED BY <3>1, <3>2, <3>3
  <2>5. Somewhere(e)
    BY DEF Inv, Accounted
  <2> QED BY <1>1, <1>2, <1>11, <2>4, <2>5 DEF Somewhere
<1>14. SourceInv' /\ DocInv' /\ WorkerInv' /\ HandledInv' /\ RetryInv' /\ PassInv'
  BY <1>1, <1>2, Frames
<1>15. QuietInv'
  BY <1>1, <1>10 DEF QuietInv
<1> QED BY <1>9, <1>11, <1>13, <1>14, <1>15 DEF Inv

-----------------------------------------------------------------------------
(* The consumer commits *)

(* The message in hand, and what its commit changes.                        *)
LEMMA Delivered ==
  ASSUME Inv, NEW t \in Topics, HasNext(t), Commit(t) \/ UNCHANGED done, UNCHANGED log
  PROVE  /\ Message(t) \in Messages /\ Genuine(t, Message(t)) /\ Message(t).id \in 1 .. nextId - 1
         /\ done[t] + 1 \in 1 .. Len(log[t])
         /\ done' \in [Topics -> Nat] /\ \A x \in Topics : done'[x] <= Len(log[x])
         /\ \A x \in Topics : x # t => done'[x] = done[x]
         /\ done'[t] = done[t] \/ done'[t] = done[t] + 1
         /\ \A e : OnTopic(e) => OnTopic(e)' \/ e = Message(t).id
<1>1. done \in [Topics -> Nat] /\ nextId \in Nat
      /\ \A x \in Topics : done[x] <= Len(log[x]) /\ Len(log[x]) \in Nat
  BY OnRecord DEF Inv, KafkaInv, SourceInv
<1>2. done[t] + 1 \in 1 .. Len(log[t])
  BY <1>1 DEF HasNext
<1>3. Message(t) \in Messages /\ Genuine(t, Message(t))
  BY <1>2, OnRecord DEF Message
<1>4. Message(t).id \in 1 .. nextId - 1
  BY <1>1, <1>3 DEF Genuine, Messages
<1>5. done' = done \/ done' = [done EXCEPT ![t] = done[t] + 1]
  BY DEF Commit
<1>7. /\ done' \in [Topics -> Nat]
      /\ \A x \in Topics : x # t => done'[x] = done[x]
      /\ done'[t] = done[t] \/ done'[t] = done[t] + 1
  BY <1>1, <1>5
<1>8. \A x \in Topics : done'[x] <= Len(log[x])
  BY <1>1, <1>2, <1>7
<1>9. ASSUME NEW e, OnTopic(e), e # Message(t).id PROVE OnTopic(e)'
  <2>0. PICK x \in Topics : \E i \in done[x] + 1 .. Len(log[x]) : log[x][i].id = e
    BY <1>9 DEF OnTopic
  <2>1. PICK i \in done[x] + 1 .. Len(log[x]) : log[x][i].id = e
    BY <2>0
  <2>2. x # t \/ i # done[t] + 1
    BY <1>9, <2>1 DEF Message
  <2>3. i \in done'[x] + 1 .. Len(log[x])
    BY <1>1, <1>7, <2>1, <2>2
  <2> QED BY <2>1, <2>3 DEF OnTopic
<1> QED BY <1>2, <1>3, <1>4, <1>7, <1>8, <1>9

(* A handled message leaves the topic and is accounted for.                 *)
LEMMA DeliveryKeeps ==
  ASSUME Inv, NEW t \in Topics, HasNext(t), CommitOrDie(t),
         UNCHANGED <<setting, log, nextId, rows, priced, stocked, told, dlqVars, faults>>,
         \/ applied' = applied \cup {Message(t).id} /\ skipped' = skipped
         \/ skipped' = skipped \cup {Message(t).id} /\ applied' = applied
  PROVE  /\ SourceInv' /\ KafkaInv' /\ ProducerInv' /\ HandledInv' /\ RetryInv' /\ Accounted'
         /\ \A x \in Topics : unsent[x] = <<>> => unsent'[x] = <<>>
<1>0. UNCHANGED <<dlq, dpos, ddone, attempts, republished, escalated, passed>>
  BY DEF dlqVars
<1>1. /\ Message(t).id \in 1 .. nextId - 1
      /\ done' \in [Topics -> Nat] /\ \A x \in Topics : done'[x] <= Len(log[x])
      /\ \A e : OnTopic(e) => OnTopic(e)' \/ e = Message(t).id
      /\ UNCHANGED <<restarts, unsent, lost>> \/ Dies
  <2>1. /\ Commit(t) \/ UNCHANGED done
        /\ UNCHANGED <<restarts, unsent, lost>> \/ Dies
    BY DEF CommitOrDie, producer
  <2> QED BY <2>1, Delivered
<1>2. /\ ProducerInv' /\ lost \subseteq lost' /\ restarts' \in Nat /\ RetryInv'
      /\ \A e : Unsent(e) => Unsent(e)' \/ e \in lost'
      /\ \A x \in Topics : unsent[x] = <<>> => unsent'[x] = <<>>
  BY <1>0, <1>1, ProducerMoves
<1>3. SourceInv'
  BY <1>2 DEF Inv, SourceInv
<1>4. KafkaInv'
  <2>1. /\ \A x \in Topics : \A i \in 1 .. Len(log'[x]) : Genuine(x, log[x][i])'
        /\ \A x \in Topics : \A i \in 1 .. Len(dlq'[x]) : Genuine(x, dlq[x][i].msg)'
    BY <1>0, LettersStand
  <2> QED BY <1>0, <1>1, <2>1 DEF Inv, KafkaInv
<1>5. HandledInv'
  BY <1>0, <1>1 DEF Inv, HandledInv
<1>6. Accounted'
  <2> SUFFICES ASSUME setting.broker, NEW e \in 1 .. nextId - 1 PROVE Somewhere(e)'
    BY DEF Accounted
  <2>1. Dead(e) => Dead(e)'
    BY <1>0 DEF Dead
  <2>2. Somewhere(e)
    BY DEF Inv, Accounted
  <2>3. /\ applied \subseteq applied' /\ skipped \subseteq skipped' /\ Message(t).id \in applied' \cup skipped'
        /\ UNCHANGED <<escalated, passed>>
    BY <1>0
  <2> QED BY <1>1, <1>2, <2>1, <2>2, <2>3 DEF Somewhere
<1> QED BY <1>2, <1>3, <1>4, <1>5, <1>6

-----------------------------------------------------------------------------
(* What the invariant says *)

(* The topics, the dead letters and the settled events hold everything, and  *)
(* no event is republished more often than its retries allow.                *)
LEMMA AccountedFor == ASSUME Inv PROVE LettersAreAccountedFor
<1>1. RetriesAreBounded
  <2> SUFFICES ASSUME setting.redis, NEW e \in EventIds PROVE republished[e] <= MAX_RETRIES + restarts
    BY DEF RetriesAreBounded
  <2>1. /\ republished[e] \in Nat /\ attempts[e] \in Nat /\ restarts \in Nat /\ MAX_RETRIES \in Nat
        /\ attempts[e] <= MAX_RETRIES /\ republished[e] <= attempts[e] + restarts
    BY DeadLettersConstants DEF Inv, SourceInv, RetryInv
  <2> QED BY <2>1
<1>2. SearchTypeOK
  <2>1. \A t \in Topics : done[t] \in 0 .. Len(log[t]) /\ ddone[t] <= dpos[t] /\ dpos[t] \in 0 .. Len(dlq[t])
    <3>1. \A t \in Topics : /\ done[t] \in Nat /\ dpos[t] \in Nat /\ Len(log[t]) \in Nat /\ Len(dlq[t]) \in Nat
                            /\ done[t] <= Len(log[t]) /\ ddone[t] <= dpos[t] /\ dpos[t] <= Len(dlq[t])
      BY OnRecord DEF Inv, KafkaInv
    <3> QED BY <3>1
  <2>2. ASSUME NEW p \in Ids
        PROVE  /\ doc[p].price \in 0 .. priced[p] /\ doc[p].stock \in 0 .. stocked[p]
               /\ doc[p].may_sell \in {"unknown", "yes", "no"} /\ (~doc[p].exists => doc[p] = NoDoc)
    <3>1. /\ doc[p] \in Docs /\ doc[p].price <= priced[p] /\ doc[p].stock <= stocked[p]
          /\ ~doc[p].exists => doc[p] = NoDoc
          /\ priced[p] \in Nat /\ stocked[p] \in Nat
      BY DEF Inv, DocInv, SourceInv
    <3>2. doc[p].price \in Nat /\ doc[p].stock \in Nat /\ doc[p].may_sell \in {"unknown", "yes", "no"}
      BY <3>1 DEF Docs
    <3> QED BY <3>1, <3>2
  <2>3. hot \cup aged \subseteq {p \in Ids : doc[p].exists}
    BY DEF Inv, DocInv
  <2>4. /\ hand.step \in {"none", "fetch", "write", "verify", "sleep", "finish"}
        /\ hand.tries \in 0 .. VISIBILITY_ATTEMPTS
    BY SearchConstants DEF Inv, WorkerInv, Hands
  <2>5. ~Idle => HasNext("Seller")
    BY DEF Inv, WorkerInv, Idle, HasNext
  <2>6. applied \cup skipped \cup escalated \cup passed \cup lost \subseteq 1 .. nextId - 1
    BY DEF Inv, HandledInv, ProducerInv
  <2> QED BY <2>1, <2>2, <2>3, <2>4, <2>5, <2>6 DEF SearchTypeOK
<1>3. NothingVanishes
  BY DEF Inv, Accounted, Somewhere, ProducerInv, NothingVanishes
<1> QED BY <1>1, <1>2, <1>3 DEF LettersAreAccountedFor

(* A worker that has read everything, with nothing failed, has every document *)
(* at the last version.                                                      *)
LEMMA TrueWhenQuiet == ASSUME Inv PROVE QuietIndexIsTrue
<1> SUFFICES ASSUME faults = 0, Quiet
             PROVE  /\ \A p \in rows :
                         /\ doc[p].sku /\ doc[p].stock = told[p]
                         /\ effective_price(p) = IF priced[p] > 0 THEN <<"pricing", priced[p]>>
                                                                  ELSE <<"catalog-base", 0>>
                    /\ \A p \in Ids : Served(p) => p \in rows
  BY DEF QuietIndexIsTrue
<1>0. /\ "Product" \in Topics /\ "Price" \in Topics /\ "Inventory" \in Topics
      /\ rows \subseteq Ids
  BY SearchConstants DEF Inv, SourceInv, Ids
<1>1. \A t \in Topics : done[t] = Len(log[t]) /\ Len(log[t]) \in Nat
  <2>1. \A t \in Topics : ~(done[t] < Len(log[t]))
    BY DEF Quiet, HasNext
  <2>2. \A t \in Topics : done[t] \in Nat /\ Len(log[t]) \in Nat /\ done[t] <= Len(log[t])
    BY OnRecord DEF Inv, KafkaInv
  <2> QED BY <2>1, <2>2
<1>2. ASSUME NEW p \in Ids
      PROVE  /\ doc[p] \in Docs /\ doc[p].price \in Nat /\ doc[p].stock \in Nat
             /\ priced[p] \in Nat /\ told[p] \in Nat
             /\ doc[p].price <= priced[p] /\ doc[p].stock <= told[p]
             /\ doc[p].sku => doc[p].base /\ p \in rows
  <2>1. doc[p] \in Docs
    BY DEF Inv, DocInv
  <2>2. doc[p].price \in Nat /\ doc[p].stock \in Nat
    BY <2>1 DEF Docs
  <2> QED BY <2>1, <2>2 DEF Inv, DocInv, SourceInv, QuietInv
<1>3. ASSUME NEW p \in rows PROVE doc[p].sku
  <2>1. done["Product"] + 1 .. Len(log["Product"]) = {}
    BY <1>0, <1>1
  <2> QED BY <2>1 DEF Inv, QuietInv
<1>4. ASSUME NEW p \in rows PROVE doc[p].stock = told[p]
  <2>1. CASE told[p] > 0
    <3>1. PICK i \in 1 .. Len(log["Inventory"]) :
            /\ log["Inventory"][i].kind = "InventoryReserved" /\ log["Inventory"][i].subject = p
            /\ log["Inventory"][i].value = told[p]
      BY <1>0, <2>1 DEF Inv, QuietInv, Published
    <3>2. told[p] <= doc[p].stock
      BY <1>0, <1>1, <3>1 DEF Inv, QuietInv
    <3> QED BY <1>0, <1>2, <3>2
  <2>2. CASE ~(told[p] > 0)
    BY <1>0, <1>2, <2>2
  <2> QED BY <2>1, <2>2
<1>5. ASSUME NEW p \in rows PROVE doc[p].price = priced[p]
  <2>1. CASE priced[p] > 0
    <3>1. PICK i \in 1 .. Len(log["Price"]) :
            /\ log["Price"][i].kind = "PriceUpdated" /\ log["Price"][i].subject = p
            /\ log["Price"][i].value = priced[p]
      BY <1>0, <2>1 DEF Inv, QuietInv, Published
    <3>2. priced[p] <= doc[p].price
      BY <1>0, <1>1, <3>1 DEF Inv, QuietInv
    <3> QED BY <1>0, <1>2, <3>2
  <2>2. CASE ~(priced[p] > 0)
    BY <1>0, <1>2, <2>2
  <2> QED BY <2>1, <2>2
<1>6. ASSUME NEW p \in rows
      PROVE  effective_price(p) = IF priced[p] > 0 THEN <<"pricing", priced[p]>> ELSE <<"catalog-base", 0>>
  <2>1. doc[p].price = priced[p] /\ priced[p] \in Nat /\ doc[p].base
    BY <1>0, <1>2, <1>3, <1>5
  <2>2. CASE priced[p] > 0
    <3>1. doc[p].price > 0 /\ ~(doc[p].price = 0)
      BY <2>1, <2>2
    <3> QED BY <2>1, <2>2, <3>1 DEF effective_price
  <2>3. CASE ~(priced[p] > 0)
    <3>1. doc[p].price = 0 /\ ~(doc[p].price > 0)
      BY <2>1, <2>3
    <3> QED BY <2>1, <2>3, <3>1 DEF effective_price
  <2> QED BY <2>2, <2>3
<1>7. \A p \in Ids : Served(p) => p \in rows
  BY <1>2 DEF Served
<1> QED BY <1>3, <1>4, <1>6, <1>7

===============================================================================

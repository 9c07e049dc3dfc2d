--------------------------- MODULE InventoryProofs ---------------------------
(***************************************************************************)
(* Inventory, for every set of products, orders, keys and workers, every   *)
(* stock and every interleaving: the columns stay natural numbers and no   *)
(* unit is invented or lost.  When requests on one order do not overlap,   *)
(* an ended ledger row stays as it is, the ledger and the counters agree,  *)
(* and the service implements StockPromise.                                *)
(***************************************************************************)
EXTENDS Inventory, FiniteSetTheorems, TLAPS

(* A ledger row exists only under a key that is bound, so no reserve ever   *)
(* overwrites a row.                                                        *)
WrittenIsBound == Written \subseteq bound

(* A transaction works on rows that exist; an idle worker has none.         *)
TxRows ==
  \A w \in Workers : /\ tx[w].rows \subseteq Written
                     /\ tx[w].todo \subseteq tx[w].rows
                     /\ tx[w].kind = "idle" => tx[w].rows = {}

LockedRows(w) == tx[w].rows \ tx[w].todo

(* A stock row is locked by one transaction at a time.                      *)
LocksExclusive ==
  \A v, w \in Workers : v # w =>
    \A j \in LockedRows(v), k \in LockedRows(w) : row[j].product # row[k].product

(* What a consume checked when it locked the stock row still holds: the row *)
(* has at least the units it is about to retire.                            *)
ConsumeCovered ==
  \A w \in Workers : tx[w].kind = "consume" =>
    \A k \in LockedRows(w) : reserved[row[k].product] >= row[k].quantity

StockInv ==
  TypeOK /\ StockConserved /\ WrittenIsBound /\ TxRows /\ LocksExclusive /\ ConsumeCovered

-----------------------------------------------------------------------------
(* A written row is a row of the ledger. *)
LEMMA WrittenRow ==
  ASSUME TypeOK, NEW k \in Written
  PROVE  /\ k \in Keys
         /\ row[k] \in Rows
         /\ row[k].product \in Listed
         /\ row[k].quantity \in Nat
         /\ row[k].quantity > 0
<1>1. k \in Keys /\ row[k] # NoRow /\ row[k] \in Rows \cup {NoRow}
  BY DEF TypeOK, Written
<1>2. row[k] \in Rows
  BY <1>1
<1>3. row[k].product \in Listed /\ row[k].quantity \in Quantities
  BY <1>2 DEF Rows
<1>4. row[k].quantity \in Nat \ {0}
  BY <1>3, InventoryConstants, Zenon
<1>5. row[k].quantity \in Nat /\ row[k].quantity > 0
  BY <1>4
<1> QED
  BY <1>1, <1>2, <1>3, <1>5

(* The quantity a settlement uses for a product is that of one of its rows. *)
LEMMA QuantityOfARow ==
  ASSUME NEW rows, NEW k \in rows
  PROVE  \E j \in rows : /\ row[j].product = row[k].product
                         /\ QuantityIn(rows, row[k].product) = row[j].quantity
<1>1. k \in RowFor(rows, row[k].product)
  BY DEF RowFor
<1>2. (CHOOSE j \in RowFor(rows, row[k].product) : TRUE) \in RowFor(rows, row[k].product)
  BY <1>1
<1> QED
  BY <1>2 DEF QuantityIn, RowFor

(* plan_release moves units from one column to the other. *)
LEMMA ReleaseMovesUnits ==
  ASSUME NEW a \in Nat, NEW r \in Nat, NEW q \in Nat
  PROVE  LET new == plan_release([available |-> a, reserved |-> r], q)
         IN  /\ new.available \in Nat /\ new.reserved \in Nat
             /\ new.available + new.reserved = a + r
BY DEF plan_release, Smaller

(* plan_consume retires the units it is asked to, when they are there. *)
LEMMA ConsumeRetiresUnits ==
  ASSUME NEW a \in Nat, NEW r \in Nat, NEW q \in Nat, r >= q
  PROVE  LET new == plan_consume([available |-> a, reserved |-> r], q)
         IN  /\ new.available \in Nat /\ new.reserved \in Nat
             /\ new.available + new.reserved + q = a + r
BY DEF plan_consume

(* The initial state satisfies the invariant. *)
LEMMA InitStock == Init => StockInv
<1> SUFFICES ASSUME Init PROVE StockInv
  OBVIOUS
<1> USE InventoryConstants, NoRowAssumption DEF Init
<1>1. TypeOK
  BY DEF TypeOK, Idle
<1>2. StockConserved
  BY DEF StockConserved
<1>3. Written = {}
  BY DEF Written
<1>4. WrittenIsBound /\ TxRows /\ LocksExclusive /\ ConsumeCovered
  BY <1>3 DEF WrittenIsBound, TxRows, LocksExclusive, ConsumeCovered, LockedRows, Idle
<1> QED
  BY <1>1, <1>2, <1>4 DEF StockInv

(* Steps that only move a worker to Idle keep the invariant: a rollback.    *)
LEMMA RollbackKeepsStock ==
  ASSUME StockInv, NEW w \in Workers, tx' = [tx EXCEPT ![w] = Idle],
         UNCHANGED <<available, reserved, row, bound, consumed, anonymous>>
  PROVE  StockInv'
<1> USE DEF StockInv
<1>1. TypeOK'
  BY InventoryConstants DEF TypeOK, Idle
<1>2. StockConserved' /\ WrittenIsBound'
  BY DEF StockConserved, WrittenIsBound, Written
<1>3. \A v \in Workers : tx'[v] = IF v = w THEN Idle ELSE tx[v]
  BY DEF TypeOK
<1>4. TxRows'
  BY <1>3 DEF TxRows, Written, Idle
<1>5. LocksExclusive'
  BY <1>3 DEF LocksExclusive, LockedRows, Idle
<1>6. ConsumeCovered'
  BY <1>3 DEF ConsumeCovered, LockedRows, Idle
<1> QED
  BY <1>1, <1>2, <1>4, <1>5, <1>6

(* A reserve of an order adds a row under a key that had none, and adds to  *)
(* what is reserved: no other transaction is disturbed.                     *)
LEMMA ReserveKeepsStock ==
  ASSUME StockInv, NEW k \in Keys, NEW o \in Orders \cup {NoOrder},
         NEW p \in Products, NEW q \in Quantities, Reserve(k, o, p, q)
  PROVE  StockInv'
<1> USE DEF StockInv
<1>1. /\ k \notin bound /\ p \in Listed
      /\ ~Insufficient(Level(p), q)
      /\ available' = [available EXCEPT ![p] = @ - q]
      /\ reserved' = [reserved EXCEPT ![p] = @ + q]
      /\ bound' = bound \cup {k}
      /\ tx' = tx /\ consumed' = consumed
  BY DEF Reserve, plan_reservation, Level, TypeOK
<1>2. q \in Nat /\ q > 0
  <2>1. q \in Nat \ {0}
    BY InventoryConstants, Zenon
  <2> QED
    BY <2>1
<1>3. available[p] \in Nat /\ reserved[p] \in Nat /\ available[p] >= q
  BY <1>1, <1>2 DEF Insufficient, Level, TypeOK
<1>4. \/ /\ o \in Orders
         /\ row' = [row EXCEPT ![k] = [order |-> o, product |-> p,
                                       quantity |-> q, status |-> "held"]]
         /\ anonymous' = anonymous
      \/ /\ row' = row
         /\ anonymous' = [anonymous EXCEPT ![p] = @ + q]
  BY InventoryConstants DEF Reserve
<1>5. row' \in [Keys -> Rows \cup {NoRow}] /\ anonymous' \in [Listed -> Nat]
  <2>1. CASE row' = row /\ anonymous' = [anonymous EXCEPT ![p] = @ + q]
    BY <2>1, <1>1, <1>2 DEF TypeOK
  <2>2. CASE /\ o \in Orders
             /\ row' = [row EXCEPT ![k] = [order |-> o, product |-> p,
                                           quantity |-> q, status |-> "held"]]
             /\ anonymous' = anonymous
    <3>1. [order |-> o, product |-> p, quantity |-> q, status |-> "held"] \in Rows
      BY <2>2, <1>1 DEF Rows
    <3> QED
      BY <3>1, <2>2 DEF TypeOK
  <2> QED
    BY <1>4, <2>1, <2>2
<1>6. TypeOK'
  <2>1. available' \in [Listed -> Nat] /\ reserved' \in [Listed -> Nat]
    BY <1>1, <1>2, <1>3 DEF TypeOK
  <2> QED
    BY <2>1, <1>1, <1>5 DEF TypeOK
<1>7. StockConserved'
  BY <1>1, <1>2, <1>3 DEF StockConserved, TypeOK
<1>8. k \notin Written
  BY <1>1 DEF WrittenIsBound
<1>9. \A j \in Written : j \in Written' /\ row'[j] = row[j]
  BY <1>4, <1>8 DEF Written, TypeOK
<1>10. WrittenIsBound'
  BY <1>1, <1>4 DEF WrittenIsBound, Written, TypeOK
<1>11. TxRows'
  BY <1>1, <1>9 DEF TxRows
<1>12. \A w \in Workers : LockedRows(w)' = LockedRows(w) /\ LockedRows(w) \subseteq Written
  BY <1>1 DEF LockedRows, TxRows
<1>13. LocksExclusive'
  BY <1>9, <1>12 DEF LocksExclusive
<1>14. \A x \in Listed : reserved'[x] >= reserved[x]
  BY <1>1, <1>2, <1>3 DEF TypeOK
<1>15. ConsumeCovered'
  <2> SUFFICES ASSUME NEW w \in Workers, tx[w].kind = "consume", NEW j \in LockedRows(w)
               PROVE  reserved'[row'[j].product] >= row'[j].quantity
    BY <1>1, <1>12 DEF ConsumeCovered
  <2>1. j \in Written /\ row'[j] = row[j]
    BY <1>9, <1>12
  <2>2. row[j].product \in Listed /\ row[j].quantity \in Nat
    BY <2>1, WrittenRow
  <2>3. reserved[row[j].product] >= row[j].quantity
    BY DEF ConsumeCovered
  <2>4. reserved[row[j].product] \in Nat /\ reserved'[row[j].product] \in Nat
    BY <2>2, <1>6 DEF TypeOK
  <2> QED
    BY <1>14, <2>1, <2>2, <2>3, <2>4
<1> QED
  BY <1>6, <1>7, <1>10, <1>11, <1>13, <1>15

(* A release or consume begins with rows that exist and no lock.            *)
LEMMA BeginKeepsStock ==
  ASSUME StockInv, NEW w \in Workers, NEW kind \in {"release", "consume"},
         NEW o \in Orders, NEW scope, Begin(w, kind, o, scope)
  PROVE  StockInv'
<1> USE DEF StockInv
<1> DEFINE mine == HeldBy(o, scope)
<1>1. mine \subseteq Written /\ Written \subseteq Keys
  BY DEF HeldBy, Held, Written
<1>2. UNCHANGED <<available, reserved, row, bound, consumed, anonymous>>
  BY DEF Begin
<1>3. tx' = [tx EXCEPT ![w] = [kind |-> kind, order |-> o, rows |-> mine, todo |-> mine]]
  BY DEF Begin
<1> HIDE DEF mine
<1>4. \A v \in Workers : tx'[v] = IF v = w THEN [kind |-> kind, order |-> o,
                                                 rows |-> mine, todo |-> mine]
                                  ELSE tx[v]
  BY <1>3 DEF TypeOK
<1>5. TypeOK'
  BY <1>1, <1>2, <1>3 DEF TypeOK
<1>6. StockConserved' /\ WrittenIsBound'
  BY <1>2 DEF StockConserved, WrittenIsBound, Written
<1>7. TxRows'
  BY <1>1, <1>2, <1>4 DEF TxRows, Written
<1>8. \A v \in Workers : LockedRows(v)' = IF v = w THEN {} ELSE LockedRows(v)
  BY <1>4 DEF LockedRows
<1>9. LocksExclusive'
  BY <1>2, <1>8 DEF LocksExclusive
<1>10. ConsumeCovered'
  BY <1>2, <1>4, <1>8 DEF ConsumeCovered
<1> QED
  BY <1>5, <1>6, <1>7, <1>9, <1>10

(* Locking takes a stock row nobody has locked, and checks that a consume   *)
(* finds its units there.                                                   *)
LEMMA LockKeepsStock ==
  ASSUME StockInv, NEW w \in Workers, NEW k \in Keys, LockItem(w, k)
  PROVE  StockInv'
<1> USE DEF StockInv
<1>1. /\ k \in tx[w].todo /\ k \in tx[w].rows /\ k \in Written
      /\ UNCHANGED <<available, reserved, row, bound, consumed, anonymous>>
      /\ tx' = [tx EXCEPT ![w].todo = @ \ {k}]
  BY DEF LockItem, TxRows
<1>2. \A v \in Workers : /\ tx'[v].kind = tx[v].kind /\ tx'[v].rows = tx[v].rows
                         /\ tx'[v].todo = IF v = w THEN tx[w].todo \ {k} ELSE tx[v].todo
  BY <1>1 DEF TypeOK
<1>3. TypeOK'
  BY <1>1, SMTT(60) DEF TypeOK
<1>4. StockConserved' /\ WrittenIsBound'
  BY <1>1 DEF StockConserved, WrittenIsBound, Written
<1>5. TxRows'
  BY <1>1, <1>2 DEF TxRows, Written
<1>6. \A v \in Workers : LockedRows(v)' = IF v = w THEN LockedRows(w) \cup {k}
                                          ELSE LockedRows(v)
  BY <1>1, <1>2 DEF LockedRows
<1>7. \A v \in Workers : \A j \in LockedRows(v) : row[j].product # row[k].product
  BY DEF LockItem, Locked, LockedRows
<1>8. LocksExclusive'
  <2> SUFFICES ASSUME NEW u \in Workers, NEW v \in Workers, u # v,
                      NEW i \in LockedRows(u)', NEW j \in LockedRows(v)'
               PROVE  row[i].product # row[j].product
    BY <1>1 DEF LocksExclusive
  <2>1. CASE u # w /\ v # w
    BY <2>1, <1>6 DEF LocksExclusive
  <2>2. CASE u = w
    BY <2>2, <1>6, <1>7 DEF LocksExclusive
  <2>3. CASE v = w
    BY <2>3, <1>6, <1>7 DEF LocksExclusive
  <2> QED
    BY <2>1, <2>2, <2>3
<1>9. tx[w].kind = "consume" => reserved[row[k].product] >= row[k].quantity
  <2>1. row[k].product \in Listed /\ row[k].quantity \in Nat
    BY <1>1, WrittenRow
  <2>2. reserved[row[k].product] \in Nat
    BY <2>1 DEF TypeOK
  <2> QED
    BY <2>1, <2>2 DEF LockItem, InvalidConsume, Level
<1>10. ConsumeCovered'
  BY <1>1, <1>2, <1>6, <1>9 DEF ConsumeCovered
<1> QED
  BY <1>3, <1>4, <1>5, <1>8, <1>10

(* A step that touches no transaction, reservation row or reserved level     *)
(* keeps what the invariant says of the locks.                              *)
LEMMA IdleKeepsLocks ==
  ASSUME TxRows, LocksExclusive, ConsumeCovered,
         tx' = tx, row' = row, reserved' = reserved
  PROVE  TxRows' /\ LocksExclusive' /\ ConsumeCovered'
<1>1. TxRows'
  BY DEF TxRows, Written
<1>2. \A w : LockedRows(w)' = LockedRows(w)
  BY DEF LockedRows
<1>3. LocksExclusive'
  <2> SUFFICES ASSUME NEW v \in Workers, NEW w \in Workers, v # w,
                      NEW j \in LockedRows(v)', NEW k \in LockedRows(w)'
               PROVE  row'[j].product # row'[k].product
    BY DEF LocksExclusive
  <2>1. j \in LockedRows(v) /\ k \in LockedRows(w)
    BY <1>2
  <2> QED
    BY <2>1 DEF LocksExclusive
<1>4. ConsumeCovered'
  <2> SUFFICES ASSUME NEW w \in Workers, tx'[w].kind = "consume", NEW k \in LockedRows(w)'
               PROVE  reserved'[row'[k].product] >= row'[k].quantity
    BY DEF ConsumeCovered
  <2>1. k \in LockedRows(w) /\ tx[w].kind = "consume"
    BY <1>2
  <2> QED
    BY <2>1 DEF ConsumeCovered
<1> QED
  BY <1>1, <1>3, <1>4

(* What a commit writes on each stock row: a product the transaction did    *)
(* not select is left alone; on the others the units move or leave.         *)
LEMMA CommittedLevels ==
  ASSUME StockInv, NEW w \in Workers, Commit(w), NEW p \in Listed
  PROVE  /\ available'[p] \in Nat /\ reserved'[p] \in Nat /\ consumed'[p] \in Nat
         /\ available'[p] + reserved'[p] + consumed'[p]
              = available[p] + reserved[p] + consumed[p]
         /\ (\A k \in tx[w].rows : row[k].product # p) =>
              available'[p] = available[p] /\ reserved'[p] = reserved[p]
<1> USE DEF StockInv
<1> DEFINE rows == tx[w].rows
           kind == tx[w].kind
           touched == {row[k].product : k \in rows}
           held == QuantityIn(rows, p)
           new == NewLevel(kind, Level(p), held)
<1>1. /\ available'[p] = IF p \in touched THEN new.available ELSE available[p]
      /\ reserved'[p] = IF p \in touched THEN new.reserved ELSE reserved[p]
      /\ consumed'[p] = IF kind = "consume" /\ p \in touched THEN consumed[p] + held
                        ELSE consumed[p]
  BY DEF Commit, Settle
<1>2. available[p] \in Nat /\ reserved[p] \in Nat /\ consumed[p] \in Nat
  BY DEF TypeOK
<1>3. CASE p \notin touched
  BY <1>1, <1>2, <1>3
<1>4. CASE p \in touched
  <2>1. PICK k \in rows : row[k].product = p
    BY <1>4
  <2>2. PICK j \in rows : row[j].product = p /\ held = row[j].quantity
    BY <2>1, QuantityOfARow
  <2>3. j \in Written
    BY DEF TxRows
  <2>4. held \in Nat
    BY <2>2, <2>3, WrittenRow
  <2>5. kind \in {"release", "consume"}
    <3>1. kind # "idle"
      BY <2>1 DEF TxRows
    <3> QED
      BY <3>1 DEF TypeOK
  <2>6. CASE kind = "release"
    <3>1. new = plan_release([available |-> available[p], reserved |-> reserved[p]], held)
      BY <2>6 DEF NewLevel, Level
    <3> HIDE DEF new, held
    <3>2. /\ new.available \in Nat /\ new.reserved \in Nat
          /\ new.available + new.reserved = available[p] + reserved[p]
      BY <3>1, <1>2, <2>4, ReleaseMovesUnits
    <3>3. /\ available'[p] = new.available /\ reserved'[p] = new.reserved
          /\ consumed'[p] = consumed[p]
      BY <1>1, <1>4, <2>6
    <3> QED
      BY <3>2, <3>3, <1>2, <2>1
  <2>7. CASE kind = "consume"
    <3>1. j \in LockedRows(w)
      BY DEF LockedRows, Commit
    <3>2. reserved[p] >= held
      BY <3>1, <2>2, <2>7 DEF ConsumeCovered
    <3>3. new = plan_consume([available |-> available[p], reserved |-> reserved[p]], held)
      BY <2>7 DEF NewLevel, Level
    <3> HIDE DEF new, held
    <3>4. /\ new.available \in Nat /\ new.reserved \in Nat
          /\ new.available + new.reserved + held = available[p] + reserved[p]
      BY <3>2, <3>3, <1>2, <2>4, ConsumeRetiresUnits
    <3>5. /\ available'[p] = new.available /\ reserved'[p] = new.reserved
          /\ consumed'[p] = consumed[p] + held
      BY <1>1, <1>4, <2>7
    <3> QED
      BY <3>4, <3>5, <1>2, <2>1, <2>4
  <2> QED
    BY <2>5, <2>6, <2>7
<1> QED
  BY <1>3, <1>4

(* A commit changes the status of rows and nothing else about them.         *)
LEMMA CommittedRows ==
  ASSUME StockInv, NEW w \in Workers, Commit(w)
  PROVE  /\ row' \in [Keys -> Rows \cup {NoRow}]
         /\ Written' = Written
         /\ \A k \in Keys : k \notin tx[w].rows => row'[k] = row[k]
         /\ \A k \in Written : /\ row'[k].order = row[k].order
                               /\ row'[k].product = row[k].product
                               /\ row'[k].quantity = row[k].quantity
<1> USE DEF StockInv
<1> DEFINE rows == tx[w].rows
           mark == IF tx[w].kind = "release" THEN "released" ELSE "consumed"
<1>1. row' = [k \in Keys |-> IF k \in rows THEN [row[k] EXCEPT !.status = mark] ELSE row[k]]
  BY DEF Commit, Settle, Marked
<1>2. mark \in {"held", "released", "consumed"}
  OBVIOUS
<1> HIDE DEF mark
<1>3. \A k \in rows : /\ k \in Written /\ k \in Keys /\ row[k] \in Rows
                      /\ row'[k] = [row[k] EXCEPT !.status = mark]
                      /\ row'[k] \in Rows
  <2> SUFFICES ASSUME NEW k \in rows
               PROVE  /\ k \in Written /\ k \in Keys /\ row[k] \in Rows
                      /\ row'[k] = [row[k] EXCEPT !.status = mark]
                      /\ row'[k] \in Rows
    OBVIOUS
  <2>1. k \in Written
    BY DEF TxRows
  <2>2. k \in Keys /\ row[k] \in Rows
    BY <2>1, WrittenRow
  <2>3. row'[k] = [row[k] EXCEPT !.status = mark]
    BY <1>1, <2>2
  <2>4. [row[k] EXCEPT !.status = mark] \in Rows
    BY <1>2, <2>2 DEF Rows
  <2> QED
    BY <2>1, <2>2, <2>3, <2>4
<1>4. \A k \in Keys : k \notin rows => row'[k] = row[k]
  BY <1>1
<1>5. row' \in [Keys -> Rows \cup {NoRow}]
  BY <1>1, <1>3, <1>4 DEF TypeOK
<1>6. Written' = Written
  BY <1>3, <1>4, NoRowAssumption DEF Written
<1>7. \A k \in Written : /\ row'[k].order = row[k].order
                         /\ row'[k].product = row[k].product
                         /\ row'[k].quantity = row[k].quantity
  <2> SUFFICES ASSUME NEW k \in Written
               PROVE  /\ row'[k].order = row[k].order
                      /\ row'[k].product = row[k].product
                      /\ row'[k].quantity = row[k].quantity
    OBVIOUS
  <2>1. CASE k \notin rows
    BY <2>1, <1>4 DEF Written
  <2>2. CASE k \in rows
    <3>1. row[k] \in Rows /\ row'[k] = [row[k] EXCEPT !.status = mark]
      BY <2>2, <1>3
    <3> QED
      BY <3>1 DEF Rows
  <2> QED
    BY <2>1, <2>2
<1> QED
  BY <1>4, <1>5, <1>6, <1>7

(* A commit keeps the invariant: it writes only stock rows it has locked.   *)
LEMMA CommitKeepsStock ==
  ASSUME StockInv, NEW w \in Workers, Commit(w)
  PROVE  StockInv'
<1> USE DEF StockInv
<1>1. /\ tx' = [tx EXCEPT ![w] = Idle]
      /\ UNCHANGED <<bound, anonymous>>
      /\ tx[w].todo = {}
  BY DEF Commit
<1>2. \A v \in Workers : tx'[v] = IF v = w THEN Idle ELSE tx[v]
  BY <1>1 DEF TypeOK
<1>3. TypeOK'
  <2>1. /\ available' = [p \in Listed |-> available'[p]]
        /\ reserved' = [p \in Listed |-> reserved'[p]]
        /\ consumed' = [p \in Listed |-> consumed'[p]]
    BY DEF Commit, Settle
  <2>2. /\ available' \in [Listed -> Nat]
        /\ reserved' \in [Listed -> Nat]
        /\ consumed' \in [Listed -> Nat]
    BY <2>1, CommittedLevels
  <2>3. tx' \in [Workers -> [kind : {"idle", "release", "consume"},
                             order : Orders \cup {NoOrder},
                             rows : SUBSET Keys, todo : SUBSET Keys]]
    BY <1>1 DEF TypeOK, Idle
  <2>4. row' \in [Keys -> Rows \cup {NoRow}]
    BY CommittedRows
  <2> QED
    BY <2>2, <2>3, <2>4, <1>1 DEF TypeOK
<1>4. StockConserved'
  BY CommittedLevels DEF StockConserved
<1>5. WrittenIsBound'
  BY <1>1, CommittedRows DEF WrittenIsBound
<1>6. TxRows'
  <2>1. Written' = Written
    BY CommittedRows
  <2> QED
    BY <2>1, <1>2 DEF TxRows, Idle
<1>7. \A v \in Workers : LockedRows(v)' = IF v = w THEN {} ELSE LockedRows(v)
  BY <1>2 DEF LockedRows, Idle
<1>8. \A v \in Workers : LockedRows(v) \subseteq Written
  BY DEF LockedRows, TxRows
<1>9. LocksExclusive'
  <2>1. \A k \in Written : row'[k].product = row[k].product
    BY CommittedRows
  <2> QED
    BY <2>1, <1>7, <1>8 DEF LocksExclusive
<1>10. ConsumeCovered'
  <2> SUFFICES ASSUME NEW v \in Workers, tx'[v].kind = "consume", NEW k \in LockedRows(v)'
               PROVE  reserved'[row'[k].product] >= row'[k].quantity
    BY DEF ConsumeCovered
  <2>1. v # w /\ tx'[v] = tx[v] /\ k \in LockedRows(v) /\ k \in Written
    BY <1>2, <1>7, <1>8 DEF Idle
  <2>2. row'[k].product = row[k].product /\ row'[k].quantity = row[k].quantity
    BY <2>1, CommittedRows
  <2>3. row[k].product \in Listed
    BY <2>1, WrittenRow
  <2>4. \A j \in tx[w].rows : row[j].product # row[k].product
    BY <2>1, <1>1 DEF LocksExclusive, LockedRows
  <2>5. reserved'[row[k].product] = reserved[row[k].product]
    BY <2>3, <2>4, CommittedLevels
  <2>6. reserved[row[k].product] >= row[k].quantity
    BY <2>1 DEF ConsumeCovered
  <2> QED
    BY <2>2, <2>5, <2>6
<1> QED
  BY <1>3, <1>4, <1>5, <1>6, <1>9, <1>10

(* The remaining answers of /reserve touch no stock. *)
LEMMA AnswersKeepStock ==
  ASSUME StockInv, NEW k \in Keys,
         ReserveCached(k) \/ \E p \in Products, q \in Quantities : ReserveRejected(k, p, q)
  PROVE  StockInv'
<1> USE DEF StockInv
<1>1. /\ UNCHANGED <<available, reserved, row, tx, consumed, anonymous>>
      /\ bound' = bound \/ bound' = bound \cup {k}
  BY DEF ReserveCached, ReserveRejected, vars
<1>2. TypeOK'
  BY <1>1 DEF TypeOK
<1>3. StockConserved' /\ WrittenIsBound'
  BY <1>1 DEF StockConserved, WrittenIsBound, Written
<1>4. tx' = tx /\ row' = row /\ reserved' = reserved
  BY <1>1
<1>5. TxRows' /\ LocksExclusive' /\ ConsumeCovered'
  BY <1>4, IdleKeepsLocks
<1> QED
  BY <1>2, <1>3, <1>5

(* Every step keeps the invariant. *)
LEMMA NextKeepsStock == StockInv /\ [Next]_vars => StockInv'
<1> SUFFICES ASSUME StockInv, [Next]_vars PROVE StockInv'
  OBVIOUS
<1>1. CASE UNCHANGED vars
  <2>1. TypeOK' /\ StockConserved' /\ WrittenIsBound'
    BY <1>1, SMTT(60) DEF vars, StockInv, TypeOK, StockConserved, WrittenIsBound, Written
  <2>2. tx' = tx /\ row' = row /\ reserved' = reserved
    BY <1>1 DEF vars
  <2>3. TxRows' /\ LocksExclusive' /\ ConsumeCovered'
    BY <2>2, IdleKeepsLocks DEF StockInv
  <2> QED
    BY <2>1, <2>3 DEF StockInv
<1>2. CASE Request
  <2>1. CASE \E k \in Keys : \/ ReserveCached(k)
                             \/ \E p \in Products, q \in Quantities : ReserveRejected(k, p, q)
    BY <2>1, AnswersKeepStock
  <2>2. CASE \E k \in Keys, o \in Orders \cup {NoOrder}, p \in Products, q \in Quantities :
               Reserve(k, o, p, q)
    BY <2>2, ReserveKeepsStock
  <2>3. CASE \E w \in Workers, kind \in {"release", "consume"}, o \in Orders, s \in Scopes :
               Begin(w, kind, o, s)
    BY <2>3, BeginKeepsStock
  <2> QED
    BY <1>2, <2>1, <2>2, <2>3 DEF Request
<1>3. CASE \E w \in Workers : Proceed(w)
  <2>1. PICK w \in Workers : Proceed(w)
    BY <1>3
  <2>2. CASE \E k \in Keys : LockItem(w, k)
    BY <2>2, LockKeepsStock
  <2>3. CASE (\E k \in Keys : RefuseConsume(w, k) \/ LockTimeout(w, k)) \/ CommitFails(w)
    <3>1. /\ tx' = [tx EXCEPT ![w] = Idle]
          /\ UNCHANGED <<available, reserved, row, bound, consumed, anonymous>>
      BY <2>3 DEF RefuseConsume, LockTimeout, CommitFails
    <3> QED
      BY <3>1, RollbackKeepsStock
  <2>4. CASE Commit(w)
    BY <2>4, CommitKeepsStock
  <2> QED
    BY <2>1, <2>2, <2>3, <2>4 DEF Proceed
<1> QED
  BY <1>1, <1>2, <1>3 DEF Next

(* The invariant behind the theorems below. *)
THEOREM StockInvariant == Spec => []StockInv
<1>1. Init => StockInv
  BY InitStock
<1>2. StockInv /\ [Next]_vars => StockInv'
  BY NextKeepsStock
<1> QED
  BY <1>1, <1>2, PTL DEF Spec

(* quantity_available and quantity_reserved never go below zero, whatever   *)
(* reserves, releases and consumes interleave.                              *)
THEOREM TypesAreKept == Spec => []TypeOK
<1>1. StockInv => TypeOK
  BY DEF StockInv
<1> QED
  BY <1>1, StockInvariant, PTL

(* reserve_inventory, release_inventory and consume_inventory neither       *)
(* invent nor lose a unit, also when releases and consumes of one order     *)
(* overlap.                                                                 *)
THEOREM StockIsConserved == Spec => []StockConserved
<1>1. StockInv => StockConserved
  BY DEF StockInv
<1> QED
  BY <1>1, StockInvariant, PTL

-----------------------------------------------------------------------------
(* The rows a transaction has selected are held by its order for as long as *)
(* it is open.                                                              *)
StillHeld ==
  \A w \in Workers : \A k \in tx[w].rows :
    row[k].status = "held" /\ row[k].order = tx[w].order

(* No order is worked on by two transactions.                               *)
OneRequestPerOrder ==
  \A v, w \in Workers : v # w /\ tx[v].order \in Orders => tx[v].order # tx[w].order

HoldInv == StockInv /\ StillHeld /\ OneRequestPerOrder

(* No transaction is open at the start. *)
LEMMA InitHolds == Init => HoldInv
<1> SUFFICES ASSUME Init PROVE HoldInv
  OBVIOUS
<1>1. \A w \in Workers : tx[w].rows = {} /\ tx[w].order = NoOrder
  BY DEF Init, Idle
<1>2. StillHeld
  BY <1>1 DEF StillHeld
<1>3. OneRequestPerOrder
  BY <1>1, InventoryConstants DEF OneRequestPerOrder
<1> QED
  BY <1>2, <1>3, InitStock DEF HoldInv

(* A step leaves ended rows alone and, without overlap, keeps HoldInv.      *)
LEMMA NextKeepsHolds ==
  ASSUME ~Overlap, HoldInv, [Next]_vars
  PROVE  HoldInv' /\ (\A k \in Written : row[k].status # "held" => row'[k] = row[k])
<1> USE DEF HoldInv
<1>1. StockInv'
  BY NextKeepsStock
<1>2. CASE UNCHANGED vars
  BY <1>1, <1>2 DEF vars, StillHeld, OneRequestPerOrder
<1>3. ASSUME NEW k \in Keys,
             ReserveCached(k) \/ \E p \in Products, q \in Quantities : ReserveRejected(k, p, q)
      PROVE  UNCHANGED <<row, tx>>
  BY <1>3 DEF ReserveCached, ReserveRejected, vars
<1>4. ASSUME NEW k \in Keys, NEW o \in Orders \cup {NoOrder}, NEW p \in Products,
             NEW q \in Quantities, Reserve(k, o, p, q)
      PROVE  tx' = tx /\ \A j \in Written : row'[j] = row[j]
  <2>1. k \notin Written /\ tx' = tx
    BY <1>4 DEF Reserve, StockInv, WrittenIsBound
  <2>2. row' = row \/ \E r : row' = [row EXCEPT ![k] = r]
    BY <1>4 DEF Reserve
  <2> QED
    BY <2>1, <2>2 DEF Written, StockInv, TypeOK
<1>5. ASSUME tx' = tx, \A j \in Written : row'[j] = row[j]
      PROVE  HoldInv' /\ (\A k \in Written : row[k].status # "held" => row'[k] = row[k])
  <2>1. \A w \in Workers : tx[w].rows \subseteq Written
    BY DEF StockInv, TxRows
  <2> QED
    BY <1>1, <1>5, <2>1 DEF StillHeld, OneRequestPerOrder
<1>6. ASSUME NEW w \in Workers, NEW kind \in {"release", "consume"}, NEW o \in Orders,
             NEW s \in Scopes, Begin(w, kind, o, s)
      PROVE  HoldInv' /\ row' = row
  <2> DEFINE mine == HeldBy(o, s)
  <2>1. \A k \in mine : row[k].status = "held" /\ row[k].order = o
    BY DEF HeldBy, Held
  <2>2. /\ row' = row
        /\ tx' = [tx EXCEPT ![w] = [kind |-> kind, order |-> o, rows |-> mine, todo |-> mine]]
        /\ \A v \in Workers : tx[v].order # o
    BY <1>6 DEF Begin
  <2> HIDE DEF mine
  <2>3. \A v \in Workers : tx'[v] = IF v = w THEN [kind |-> kind, order |-> o,
                                                   rows |-> mine, todo |-> mine]
                                    ELSE tx[v]
    BY <2>2 DEF StockInv, TypeOK
  <2>4. StillHeld'
    BY <2>1, <2>2, <2>3 DEF StillHeld
  <2>5. OneRequestPerOrder'
    BY <2>2, <2>3 DEF OneRequestPerOrder
  <2> QED
    BY <1>1, <2>2, <2>4, <2>5
<1>7. ASSUME NEW w \in Workers, tx' = [tx EXCEPT ![w] = Idle],
             \A v \in Workers : v # w => \A k \in tx[v].rows : row'[k] = row[k]
      PROVE  StillHeld' /\ OneRequestPerOrder'
  <2>1. \A v \in Workers : tx'[v] = IF v = w THEN Idle ELSE tx[v]
    BY <1>7 DEF StockInv, TypeOK
  <2>2. StillHeld'
    <3> SUFFICES ASSUME NEW v \in Workers, NEW k \in tx'[v].rows
                 PROVE  row'[k].status = "held" /\ row'[k].order = tx'[v].order
      BY DEF StillHeld
    <3>1. v # w
      BY <2>1 DEF Idle
    <3>2. tx'[v] = tx[v]
      BY <2>1, <3>1
    <3>3. row'[k] = row[k]
      BY <1>7, <3>1, <3>2
    <3>4. row[k].status = "held" /\ row[k].order = tx[v].order
      BY <3>2 DEF StillHeld
    <3> QED
      BY <3>2, <3>3, <3>4
  <2>3. OneRequestPerOrder'
    BY <2>1, InventoryConstants DEF OneRequestPerOrder, Idle
  <2> QED
    BY <2>2, <2>3
<1>8. ASSUME NEW w \in Workers, NEW k \in Keys, LockItem(w, k)
      PROVE  HoldInv' /\ row' = row
  <2>1. row' = row /\ tx' = [tx EXCEPT ![w].todo = @ \ {k}]
    BY <1>8 DEF LockItem
  <2>2. \A v \in Workers : tx'[v].rows = tx[v].rows /\ tx'[v].order = tx[v].order
    BY <2>1 DEF StockInv, TypeOK
  <2> QED
    BY <1>1, <2>1, <2>2 DEF StillHeld, OneRequestPerOrder
<1>9. ASSUME NEW w \in Workers, Commit(w)
      PROVE  HoldInv' /\ (\A k \in Written : row[k].status # "held" => row'[k] = row[k])
  <2>1. \A k \in Keys : k \notin tx[w].rows => row'[k] = row[k]
    BY <1>9, CommittedRows
  <2>2. \A k \in Written : row[k].status # "held" => row'[k] = row[k]
    BY <2>1 DEF StillHeld, Written
  <2>3. ASSUME NEW v \in Workers, v # w, NEW k \in tx[v].rows
        PROVE  row'[k] = row[k]
    <3>1. k \in Written
      BY DEF StockInv, TxRows
    <3>2. k \in Keys /\ row[k].order \in Orders
      BY <3>1, WrittenRow DEF Rows, StockInv
    <3>3. k \notin tx[w].rows
      BY <2>3, <3>2 DEF StillHeld, OneRequestPerOrder
    <3> QED
      BY <2>1, <3>2, <3>3
  <2>4. tx' = [tx EXCEPT ![w] = Idle]
    BY <1>9 DEF Commit
  <2> QED
    BY <1>1, <1>7, <2>2, <2>3, <2>4
<1>10. ASSUME NEW w \in Workers,
              (\E k \in Keys : RefuseConsume(w, k) \/ LockTimeout(w, k)) \/ CommitFails(w)
       PROVE  HoldInv' /\ row' = row
  <2>1. tx' = [tx EXCEPT ![w] = Idle] /\ row' = row
    BY <1>10 DEF RefuseConsume, LockTimeout, CommitFails
  <2> QED
    BY <1>1, <1>7, <2>1
<1>11. CASE Request
  BY <1>3, <1>4, <1>5, <1>6, <1>11 DEF Request
<1>12. CASE \E w \in Workers : Proceed(w)
  BY <1>8, <1>9, <1>10, <1>12 DEF Proceed
<1> QED
  BY <1>2, <1>11, <1>12 DEF Next

(* When no two requests work on one order at once, a row that was released  *)
(* or consumed is never released or consumed again, whatever the number of  *)
(* orders, workers and retries.                                             *)
THEOREM EndedRowsAreFinal ==
  ASSUME ~Overlap
  PROVE  Spec => EndedRowIsFinal
<1>1. Init => HoldInv
  BY InitHolds
<1>2. HoldInv /\ [Next]_vars => HoldInv'
  BY NextKeepsHolds
<1>3. HoldInv /\ [Next]_vars =>
        [\A k \in Written : row[k].status # "held" => row'[k] = row[k]]_vars
  BY NextKeepsHolds
<1> QED
  BY <1>1, <1>2, <1>3, PTL DEF Spec, EndedRowIsFinal

-----------------------------------------------------------------------------
(* The partial unique index: an order has at most one live row per product. *)
LiveRowsUnique ==
  \A j, k \in Held :
    row[j].order = row[k].order /\ row[j].product = row[k].product => j = k

(* The counter of a stock row counts the units its live rows hold.          *)
TokensCounted ==
  \A p \in Listed : /\ IsFiniteSet(HeldTokens(p))
                    /\ reserved[p] = Cardinality(HeldTokens(p)) + anonymous[p]

LedgerInv == HoldInv /\ LiveRowsUnique /\ TokensCounted

RowTokens(k) == {k} \X (1 .. row[k].quantity)

(* q units of one row count q. *)
LEMMA CountTokens ==
  ASSUME NEW k, NEW q \in Nat
  PROVE  IsFiniteSet({k} \X (1 .. q)) /\ Cardinality({k} \X (1 .. q)) = q
<1>1. IsFiniteSet({k}) /\ Cardinality({k}) = 1
  BY FS_Singleton
<1>2. IsFiniteSet(1 .. q) /\ Cardinality(1 .. q) = IF 1 > q THEN 0 ELSE q - 1 + 1
  BY FS_Interval
<1>3. IsFiniteSet(1 .. q) /\ Cardinality(1 .. q) = q
  BY <1>2
<1>4. /\ IsFiniteSet({k} \X (1 .. q))
      /\ Cardinality({k} \X (1 .. q)) = Cardinality({k}) * Cardinality(1 .. q)
  BY <1>1, <1>3, FS_Product
<1> QED
  BY <1>1, <1>3, <1>4

(* The units of a row that had none are added to the count. *)
LEMMA AddTokens ==
  ASSUME NEW S, IsFiniteSet(S), NEW k, NEW q \in Nat, ({k} \X (1 .. q)) \cap S = {}
  PROVE  /\ IsFiniteSet(S \cup ({k} \X (1 .. q)))
         /\ Cardinality(S \cup ({k} \X (1 .. q))) = Cardinality(S) + q
<1> DEFINE T == {k} \X (1 .. q)
<1>1. IsFiniteSet(T) /\ Cardinality(T) = q
  BY CountTokens
<1>2. T \cap S = {}
  OBVIOUS
<1> HIDE DEF T
<1>3. S \cap T = {} /\ Cardinality(S) \in Nat
  BY <1>2, FS_CardinalityType
<1>4. /\ IsFiniteSet(S \cup T)
      /\ Cardinality(S \cup T) = Cardinality(S) + Cardinality(T) - Cardinality(S \cap T)
  BY <1>1, FS_Union
<1>5. Cardinality(S \cap T) = 0
  BY <1>3, FS_EmptySet
<1>6. IsFiniteSet(S \cup T) /\ Cardinality(S \cup T) = Cardinality(S) + q
  BY <1>1, <1>3, <1>4, <1>5
<1> QED
  BY <1>6 DEF T

(* The units of a row that is ended are taken off the count. *)
LEMMA RemoveTokens ==
  ASSUME NEW S, IsFiniteSet(S), NEW k, NEW q \in Nat, ({k} \X (1 .. q)) \subseteq S
  PROVE  /\ IsFiniteSet(S \ ({k} \X (1 .. q)))
         /\ Cardinality(S \ ({k} \X (1 .. q))) = Cardinality(S) - q
         /\ Cardinality(S) >= q
<1> DEFINE T == {k} \X (1 .. q)
<1>1. IsFiniteSet(T) /\ Cardinality(T) = q
  BY CountTokens
<1>2. T \subseteq S
  OBVIOUS
<1> HIDE DEF T
<1>3. S \cap T = T
  BY <1>2
<1>4. IsFiniteSet(S \ T) /\ Cardinality(S \ T) = Cardinality(S) - Cardinality(S \cap T)
  BY FS_Difference
<1>5. Cardinality(S) >= q
  <2>1. Cardinality(T) <= Cardinality(S) /\ Cardinality(S) \in Nat
    BY <1>2, FS_Subset, FS_CardinalityType
  <2> QED
    BY <1>1, <2>1
<1>6. IsFiniteSet(S \ T) /\ Cardinality(S \ T) = Cardinality(S) - q
  BY <1>1, <1>3, <1>4
<1> QED
  BY <1>5, <1>6 DEF T

(* The tokens of a product are those of its live rows. *)
LEMMA TokenMembers ==
  ASSUME NEW p, NEW t
  PROVE  t \in HeldTokens(p) <=> \E k \in Held : row[k].product = p /\ t \in RowTokens(k)
BY DEF HeldTokens, RowTokens, RowFor

(* A step that leaves the rows, the counters and the anonymous units alone  *)
(* leaves the ledger in agreement.                                          *)
LEMMA QuietKeepsLedger ==
  ASSUME LiveRowsUnique, TokensCounted, UNCHANGED <<row, reserved, anonymous>>
  PROVE  LiveRowsUnique' /\ TokensCounted'
<1>1. Held' = Held
  BY DEF Held, Written
<1>2. LiveRowsUnique'
  BY <1>1 DEF LiveRowsUnique
<1>3. \A p \in Listed : HeldTokens(p)' = HeldTokens(p)
  BY <1>1 DEF HeldTokens, RowFor
<1> QED
  BY <1>2, <1>3 DEF TokensCounted

(* A reserve that names no order counts its units as anonymous.             *)
LEMMA AnonymousKeepsLedger ==
  ASSUME LedgerInv, NEW k \in Keys, NEW p \in Products, NEW q \in Quantities,
         Reserve(k, NoOrder, p, q)
  PROVE  LiveRowsUnique' /\ TokensCounted'
<1> USE DEF LedgerInv, HoldInv, StockInv
<1>1. /\ row' = row /\ p \in Listed
      /\ reserved' = [reserved EXCEPT ![p] = @ + q]
      /\ anonymous' = [anonymous EXCEPT ![p] = @ + q]
  BY DEF Reserve, plan_reservation, Level, TypeOK
<1>2. q \in Nat
  BY InventoryConstants, Zenon
<1>3. Held' = Held
  BY <1>1 DEF Held, Written
<1>4. LiveRowsUnique'
  BY <1>1, <1>3 DEF LiveRowsUnique
<1>5. \A x \in Listed : HeldTokens(x)' = HeldTokens(x)
  BY <1>1, <1>3 DEF HeldTokens, RowFor
<1>6. ASSUME NEW x \in Listed
      PROVE  reserved'[x] = Cardinality(HeldTokens(x)) + anonymous'[x]
  <2>1. /\ reserved[x] = Cardinality(HeldTokens(x)) + anonymous[x]
        /\ Cardinality(HeldTokens(x)) \in Nat
    BY FS_CardinalityType DEF TokensCounted
  <2>2. reserved[x] \in Nat /\ anonymous[x] \in Nat
    BY DEF TypeOK
  <2>3. reserved' [x] = IF x = p THEN reserved[x] + q ELSE reserved[x]
    BY <1>1 DEF TypeOK
  <2>4. anonymous'[x] = IF x = p THEN anonymous[x] + q ELSE anonymous[x]
    BY <1>1 DEF TypeOK
  <2> QED
    BY <1>2, <2>1, <2>2, <2>3, <2>4
<1> QED
  BY <1>4, <1>5, <1>6 DEF TokensCounted

(* A reserve of an order adds one live row, and its units to the counter.   *)
LEMMA ReserveKeepsLedger ==
  ASSUME LedgerInv, NEW k \in Keys, NEW o \in Orders, NEW p \in Products,
         NEW q \in Quantities, Reserve(k, o, p, q)
  PROVE  LiveRowsUnique' /\ TokensCounted'
<1> USE DEF LedgerInv, HoldInv, StockInv
<1> DEFINE new == [order |-> o, product |-> p, quantity |-> q, status |-> "held"]
<1>1. /\ p \in Listed /\ k \notin Written /\ HeldBy(o, {p}) = {}
      /\ row' = [row EXCEPT ![k] = new]
      /\ reserved' = [reserved EXCEPT ![p] = @ + q]
      /\ anonymous' = anonymous
  BY InventoryConstants DEF Reserve, plan_reservation, Level, TypeOK, WrittenIsBound
<1>2. q \in Nat
  BY InventoryConstants, Zenon
<1>3. new # NoRow
  <2>1. new \in Rows
    BY <1>1 DEF Rows
  <2> QED
    BY <2>1, NoRowAssumption
<1>4. \A j \in Keys : row'[j] = IF j = k THEN new ELSE row[j]
  BY <1>1 DEF TypeOK
<1>5. new.order = o /\ new.product = p /\ new.quantity = q /\ new.status = "held"
  OBVIOUS
<1> HIDE DEF new
<1>6. Held' = Held \cup {k} /\ k \notin Held /\ Held \subseteq Keys
  BY <1>1, <1>3, <1>4, <1>5 DEF Held, Written
<1>7. LiveRowsUnique'
  <2> SUFFICES ASSUME NEW i \in Held', NEW j \in Held',
                      row'[i].order = row'[j].order, row'[i].product = row'[j].product
               PROVE  i = j
    BY DEF LiveRowsUnique
  <2>1. \A x \in Held : row'[x] = row[x]
    BY <1>4, <1>6
  <2>2. \A x \in Held : ~(row[x].order = o /\ row[x].product = p)
    BY <1>1 DEF HeldBy
  <2>3. row'[k] = new
    BY <1>4
  <2>4. CASE i = k
    BY <2>1, <2>2, <2>3, <2>4, <1>5, <1>6
  <2>5. CASE j = k
    BY <2>1, <2>2, <2>3, <2>5, <1>5, <1>6
  <2>6. CASE i # k /\ j # k
    BY <2>1, <2>6, <1>6 DEF LiveRowsUnique
  <2> QED
    BY <2>4, <2>5, <2>6
<1>8. ASSUME NEW x \in Listed, x # p
      PROVE  HeldTokens(x)' = HeldTokens(x)
  <2>1. RowFor(Held, x)' = RowFor(Held, x)
    BY <1>4, <1>5, <1>6, <1>8 DEF RowFor
  <2>2. \A j \in RowFor(Held, x) : row'[j] = row[j]
    BY <1>4, <1>6 DEF RowFor
  <2> QED
    BY <2>1, <2>2 DEF HeldTokens
<1>9. HeldTokens(p)' = HeldTokens(p) \cup ({k} \X (1 .. q))
  <2>1. RowFor(Held, p)' = RowFor(Held, p) \cup {k}
    BY <1>4, <1>5, <1>6 DEF RowFor
  <2>2. \A j \in RowFor(Held, p) : row'[j] = row[j]
    BY <1>4, <1>6 DEF RowFor
  <2>3. row'[k].quantity = q
    BY <1>4, <1>5
  <2> QED
    BY <2>1, <2>2, <2>3 DEF HeldTokens
<1>10. ({k} \X (1 .. q)) \cap HeldTokens(p) = {}
  BY <1>6 DEF HeldTokens, RowFor
<1>11. TokensCounted'
  <2> SUFFICES ASSUME NEW x \in Listed
               PROVE  /\ IsFiniteSet(HeldTokens(x)')
                      /\ reserved'[x] = Cardinality(HeldTokens(x)') + anonymous'[x]
    BY DEF TokensCounted
  <2>1. /\ IsFiniteSet(HeldTokens(x))
        /\ reserved[x] = Cardinality(HeldTokens(x)) + anonymous[x]
        /\ Cardinality(HeldTokens(x)) \in Nat
    BY FS_CardinalityType DEF TokensCounted
  <2>2. anonymous'[x] = anonymous[x] /\ anonymous[x] \in Nat
    BY <1>1 DEF TypeOK
  <2>3. reserved'[x] = IF x = p THEN reserved[x] + q ELSE reserved[x]
    BY <1>1 DEF TypeOK
  <2>4. CASE x # p
    BY <1>8, <2>1, <2>2, <2>3, <2>4
  <2>5. CASE x = p
    <3> DEFINE S == HeldTokens(p)
    <3>1. S \cup ({k} \X (1 .. q)) = HeldTokens(p)' /\ ({k} \X (1 .. q)) \cap S = {}
      BY <1>9, <1>10
    <3>2. IsFiniteSet(S)
      BY <2>1, <2>5
    <3> HIDE DEF S
    <3>3. /\ IsFiniteSet(S \cup ({k} \X (1 .. q)))
          /\ Cardinality(S \cup ({k} \X (1 .. q))) = Cardinality(S) + q
      BY <1>2, <3>1, <3>2, AddTokens
    <3>4. /\ IsFiniteSet(HeldTokens(p)')
          /\ Cardinality(HeldTokens(p)') = Cardinality(HeldTokens(p)) + q
      BY <3>1, <3>3 DEF S
    <3> QED
      BY <1>2, <2>1, <2>2, <2>3, <2>5, <3>4
  <2> QED
    BY <2>4, <2>5
<1> QED
  BY <1>7, <1>11

(* A transaction has one row for each product it settles, so the quantity   *)
(* it uses is that row's.                                                   *)
LEMMA OneRowPerProduct ==
  ASSUME LedgerInv, NEW w \in Workers, NEW j \in tx[w].rows
  PROVE  /\ j \in Held
         /\ RowFor(tx[w].rows, row[j].product) = {j}
         /\ QuantityIn(tx[w].rows, row[j].product) = row[j].quantity
<1> USE DEF LedgerInv, HoldInv, StockInv
<1>1. \A k \in tx[w].rows : k \in Held /\ row[k].order = tx[w].order
  BY DEF TxRows, StillHeld, Held
<1>2. RowFor(tx[w].rows, row[j].product) = {j}
  BY <1>1 DEF LiveRowsUnique, RowFor
<1>3. (CHOOSE k \in {j} : TRUE) = j
  OBVIOUS
<1> QED
  BY <1>1, <1>2, <1>3 DEF QuantityIn

(* The units of a live row are among those the counter counts. *)
LEMMA RowIsCounted ==
  ASSUME LedgerInv, NEW j \in Held
  PROVE  reserved[row[j].product] >= row[j].quantity
<1> USE DEF LedgerInv, HoldInv, StockInv
<1> DEFINE p == row[j].product
           S == HeldTokens(p)
<1>1. p \in Listed /\ row[j].quantity \in Nat
  BY WrittenRow DEF Held
<1>2. IsFiniteSet(S) /\ reserved[p] = Cardinality(S) + anonymous[p]
  BY <1>1 DEF TokensCounted
<1>3. ({j} \X (1 .. row[j].quantity)) \subseteq S
  BY DEF HeldTokens, RowFor
<1>4. Cardinality(S) \in Nat /\ anonymous[p] \in Nat
  BY <1>1, <1>2, FS_CardinalityType DEF TypeOK
<1> HIDE DEF S, p
<1>5. Cardinality(S) >= row[j].quantity
  BY <1>1, <1>2, <1>3, RemoveTokens
<1>6. reserved[p] >= row[j].quantity
  BY <1>1, <1>2, <1>4, <1>5
<1> QED
  BY <1>6 DEF p

(* What a commit writes on the stock row of a row it ends.                  *)
LEMMA SettledLevels ==
  ASSUME LedgerInv, NEW w \in Workers, Commit(w), NEW j \in tx[w].rows
  PROVE  LET p == row[j].product
             q == row[j].quantity
         IN  /\ tx[w].kind \in {"release", "consume"}
             /\ reserved'[p] = reserved[p] - q
             /\ tx[w].kind = "release" => /\ available'[p] = available[p] + q
                                          /\ consumed'[p] = consumed[p]
             /\ tx[w].kind = "consume" => /\ available'[p] = available[p]
                                          /\ consumed'[p] = consumed[p] + q
<1> USE DEF LedgerInv, HoldInv, StockInv
<1> DEFINE p == row[j].product
           q == row[j].quantity
           rows == tx[w].rows
           kind == tx[w].kind
<1>1. j \in Held /\ QuantityIn(rows, p) = q
  BY OneRowPerProduct
<1>2. p \in Listed /\ q \in Nat
  BY <1>1, WrittenRow DEF Held
<1>3. reserved[p] >= q /\ reserved[p] \in Nat /\ available[p] \in Nat
  BY <1>1, <1>2, RowIsCounted DEF TypeOK
<1>4. p \in {row[k].product : k \in rows}
  OBVIOUS
<1>5. /\ available'[p] = NewLevel(kind, Level(p), q).available
      /\ reserved'[p] = NewLevel(kind, Level(p), q).reserved
      /\ consumed'[p] = IF kind = "consume" THEN consumed[p] + q ELSE consumed[p]
  BY <1>1, <1>2, <1>4 DEF Commit, Settle
<1>6. kind \in {"release", "consume"}
  <2>1. kind # "idle"
    BY DEF TxRows
  <2> QED
    BY <2>1 DEF TypeOK
<1> HIDE DEF p, q, rows, kind
<1>7. CASE kind = "release"
  BY <1>3, <1>2, <1>5, <1>7 DEF NewLevel, plan_release, Smaller, Level, p, q, kind
<1>8. CASE kind = "consume"
  BY <1>3, <1>2, <1>5, <1>8 DEF NewLevel, plan_consume, Level, p, q, kind
<1> QED
  BY <1>6, <1>7, <1>8

(* A commit ends the rows it selected, and takes their units off the        *)
(* counters.                                                                *)
LEMMA CommitKeepsLedger ==
  ASSUME LedgerInv, NEW w \in Workers, Commit(w)
  PROVE  Held' = Held \ tx[w].rows /\ LiveRowsUnique' /\ TokensCounted'
<1> USE DEF LedgerInv, HoldInv, StockInv
<1> DEFINE rows == tx[w].rows
<1>1. \A k \in Keys : k \notin rows => row'[k] = row[k]
  BY CommittedRows
<1>2. Written' = Written /\ Written \subseteq Keys
  BY CommittedRows DEF Written
<1>3. \A k \in rows : k \in Held /\ k \in Keys /\ row'[k].status # "held"
  <2> SUFFICES ASSUME NEW k \in rows
               PROVE  k \in Held /\ k \in Keys /\ row'[k].status # "held"
    OBVIOUS
  <2>1. k \in Held
    BY OneRowPerProduct
  <2>2. k \in Keys /\ row[k] \in Rows
    BY <2>1, WrittenRow DEF Held
  <2>3. row'[k] = [row[k] EXCEPT !.status = IF tx[w].kind = "release" THEN "released"
                                                                     ELSE "consumed"]
    BY <2>2 DEF Commit, Settle, Marked
  <2>4. row'[k].status = IF tx[w].kind = "release" THEN "released" ELSE "consumed"
    BY <2>2, <2>3 DEF Rows
  <2> QED
    BY <2>1, <2>2, <2>4
<1>4. Held' = Held \ rows
  BY <1>1, <1>2, <1>3 DEF Held
<1>5. \A k \in Held' : k \in Held /\ row'[k] = row[k]
  BY <1>1, <1>2, <1>4 DEF Held
<1>6. LiveRowsUnique'
  BY <1>5 DEF LiveRowsUnique
<1>7. anonymous' = anonymous
  BY DEF Commit
<1> SUFFICES ASSUME NEW p \in Listed
             PROVE  /\ IsFiniteSet(HeldTokens(p)')
                    /\ reserved'[p] = Cardinality(HeldTokens(p)') + anonymous'[p]
  BY <1>4, <1>6 DEF TokensCounted
<1> DEFINE S == HeldTokens(p)
<1>8. IsFiniteSet(S) /\ reserved[p] = Cardinality(S) + anonymous[p]
  BY DEF TokensCounted
<1>9. Cardinality(S) \in Nat /\ anonymous[p] \in Nat
  BY <1>8, FS_CardinalityType DEF TypeOK
<1>10. CASE \A k \in rows : row[k].product # p
  <2>1. reserved'[p] = reserved[p]
    BY <1>10, CommittedLevels
  <2>2. RowFor(Held, p)' = RowFor(Held, p)
    BY <1>4, <1>5, <1>10 DEF RowFor
  <2>3. HeldTokens(p)' = S
    BY <1>5, <2>2 DEF HeldTokens, RowFor
  <2> QED
    BY <1>7, <1>8, <2>1, <2>3
<1>11. ASSUME NEW j \in rows, row[j].product = p
       PROVE  /\ IsFiniteSet(HeldTokens(p)')
              /\ reserved'[p] = Cardinality(HeldTokens(p)') + anonymous'[p]
  <2> DEFINE q == row[j].quantity
             T == {j} \X (1 .. q)
  <2>1. j \in Held /\ RowFor(rows, p) = {j}
    BY <1>11, OneRowPerProduct
  <2>2. q \in Nat
    BY <2>1, WrittenRow DEF Held
  <2>3. RowFor(Held, p)' = RowFor(Held, p) \ {j}
    BY <1>4, <1>5, <2>1 DEF RowFor
  <2>4. HeldTokens(p)' = S \ T
    <3>1. \A k \in RowFor(Held, p)' : row'[k] = row[k]
      BY <1>5 DEF RowFor
    <3>2. HeldTokens(p)' = UNION {{k} \X (1 .. row[k].quantity) : k \in RowFor(Held, p) \ {j}}
      BY <2>3, <3>1 DEF HeldTokens
    <3> QED
      BY <3>2 DEF HeldTokens
  <2>5. T \subseteq S
    BY <2>1, <1>11 DEF HeldTokens, RowFor
  <2>6. reserved'[p] = reserved[p] - q
    BY <1>11, SettledLevels
  <2> HIDE DEF S, q
  <2>7. IsFiniteSet(S \ T) /\ Cardinality(S \ T) = Cardinality(S) - q
    BY <1>8, <2>2, <2>5, RemoveTokens
  <2> HIDE DEF T
  <2> QED
    BY <1>7, <1>8, <1>9, <2>2, <2>4, <2>6, <2>7
<1> QED
  BY <1>10, <1>11

(* Every step keeps the ledger invariant, when requests on one order do not *)
(* overlap.                                                                 *)
LEMMA NextKeepsLedger ==
  ASSUME ~Overlap, LedgerInv, [Next]_vars
  PROVE  LedgerInv'
<1> USE DEF LedgerInv
<1>1. HoldInv'
  BY NextKeepsHolds
<1>2. ASSUME UNCHANGED <<row, reserved, anonymous>>
      PROVE  LiveRowsUnique' /\ TokensCounted'
  BY <1>2, QuietKeepsLedger
<1>3. CASE UNCHANGED vars
  BY <1>1, <1>2, <1>3 DEF vars
<1>4. CASE Request
  <2>1. CASE \/ \E k \in Keys : ReserveCached(k)
             \/ \E k \in Keys, p \in Products, q \in Quantities : ReserveRejected(k, p, q)
    BY <2>1, <1>1, <1>2 DEF ReserveCached, ReserveRejected, vars
  <2>2. ASSUME NEW k \in Keys, NEW o \in Orders \cup {NoOrder}, NEW p \in Products,
               NEW q \in Quantities, Reserve(k, o, p, q)
        PROVE  LiveRowsUnique' /\ TokensCounted'
    <3>1. CASE o = NoOrder
      BY <2>2, <3>1, AnonymousKeepsLedger
    <3>2. CASE o \in Orders
      BY <2>2, <3>2, ReserveKeepsLedger
    <3> QED
      BY <3>1, <3>2
  <2>3. CASE \E w \in Workers, kind \in {"release", "consume"}, o \in Orders, s \in Scopes :
               Begin(w, kind, o, s)
    BY <2>3, <1>1, <1>2 DEF Begin
  <2> QED
    BY <1>1, <1>4, <2>1, <2>2, <2>3 DEF Request
<1>5. ASSUME NEW w \in Workers, Proceed(w)
      PROVE  LiveRowsUnique' /\ TokensCounted'
  <2>1. CASE \/ \E k \in Keys : LockItem(w, k) \/ RefuseConsume(w, k) \/ LockTimeout(w, k)
             \/ CommitFails(w)
    BY <2>1, <1>2 DEF LockItem, RefuseConsume, LockTimeout, CommitFails
  <2>2. CASE Commit(w)
    BY <2>2, CommitKeepsLedger
  <2> QED
    BY <1>5, <2>1, <2>2 DEF Proceed
<1> QED
  BY <1>1, <1>3, <1>4, <1>5 DEF Next

(* The ledger invariant holds at the start. *)
LEMMA InitLedger == Init => LedgerInv
<1> SUFFICES ASSUME Init PROVE LedgerInv
  OBVIOUS
<1>1. HoldInv
  BY InitHolds
<1>2. Held = {}
  BY DEF Init, Held, Written
<1>3. ASSUME NEW p \in Listed
      PROVE  IsFiniteSet(HeldTokens(p)) /\ reserved[p] = Cardinality(HeldTokens(p)) + anonymous[p]
  <2>1. HeldTokens(p) = {}
    BY <1>2 DEF HeldTokens, RowFor
  <2>2. IsFiniteSet(HeldTokens(p)) /\ Cardinality(HeldTokens(p)) = 0
    BY <2>1, FS_EmptySet
  <2>3. reserved[p] = 0 /\ anonymous[p] = 0
    BY DEF Init
  <2> QED
    BY <2>2, <2>3
<1> QED
  BY <1>1, <1>2, <1>3 DEF LedgerInv, LiveRowsUnique, TokensCounted

(* The invariant behind the agreement of ledger and counters, and behind    *)
(* the promise.                                                             *)
THEOREM LedgerInvariant ==
  ASSUME ~Overlap
  PROVE  Spec => []LedgerInv
<1>1. Init => LedgerInv
  BY InitLedger
<1>2. LedgerInv /\ [Next]_vars => LedgerInv'
  BY NextKeepsLedger
<1> QED
  BY <1>1, <1>2, PTL DEF Spec

(* When no two requests work on one order at once, quantity_reserved of     *)
(* every product is exactly what the live rows of inventory_reservations    *)
(* and the reserves without an order account for.                           *)
THEOREM LedgerAgreement ==
  ASSUME ~Overlap
  PROVE  Spec => []LedgerAgrees
<1>1. LedgerInv => LedgerAgrees
  BY DEF LedgerInv, TokensCounted, LedgerAgrees, HeldUnits
<1> QED
  BY <1>1, LedgerInvariant, PTL

-----------------------------------------------------------------------------
(* What an order is promised of a product is the quantity of its live row,  *)
(* and nothing without one.                                                 *)
LEMMA PromiseOfARow ==
  ASSUME LiveRowsUnique, NEW o \in Orders, NEW p \in Listed
  PROVE  /\ Promises[o][p] = PromisedTo(o, p)
         /\ HeldBy(o, {p}) = {} => PromisedTo(o, p) = 0
         /\ \A k \in Held : row[k].order = o /\ row[k].product = p =>
              PromisedTo(o, p) = row[k].quantity
<1>1. Promises[o][p] = PromisedTo(o, p)
  BY DEF Promises
<1>2. HeldBy(o, {p}) = {} => PromisedTo(o, p) = 0
  BY DEF PromisedTo
<1>3. ASSUME NEW k \in Held, row[k].order = o, row[k].product = p
      PROVE  PromisedTo(o, p) = row[k].quantity
  <2>1. HeldBy(o, {p}) = {k}
    BY <1>3 DEF HeldBy, LiveRowsUnique
  <2>2. RowFor({k}, p) = {k}
    BY <1>3 DEF RowFor
  <2>3. (CHOOSE j \in {k} : TRUE) = k
    OBVIOUS
  <2> QED
    BY <2>1, <2>2, <2>3 DEF PromisedTo, QuantityIn
<1> QED
  BY <1>1, <1>2, <1>3

(* An order's promise is the same as long as its live rows of the product   *)
(* are.                                                                     *)
LEMMA SameRowsSamePromise ==
  ASSUME NEW o \in Orders, NEW p \in Listed,
         HeldBy(o, {p})' = HeldBy(o, {p}),
         \A k \in HeldBy(o, {p}) : row'[k] = row[k]
  PROVE  PromisedTo(o, p)' = PromisedTo(o, p)
<1> DEFINE mine == HeldBy(o, {p})
<1>1. RowFor(mine, p)' = RowFor(mine, p)
  BY DEF RowFor
<1>2. CASE RowFor(mine, p) = {}
  <2>1. mine = {}
    BY <1>2 DEF RowFor, HeldBy
  <2> QED
    BY <2>1 DEF PromisedTo
<1>3. CASE RowFor(mine, p) # {}
  <2> DEFINE k == CHOOSE j \in RowFor(mine, p) : TRUE
  <2>1. k \in RowFor(mine, p)
    BY <1>3
  <2>2. row'[k] = row[k]
    BY <2>1 DEF RowFor
  <2>3. QuantityIn(mine, p)' = QuantityIn(mine, p)
    BY <1>1, <2>2 DEF QuantityIn
  <2> QED
    BY <2>3 DEF PromisedTo
<1> QED
  BY <1>2, <1>3

(* A reserve of an order is a Promise.                                      *)
LEMMA ReservePromises ==
  ASSUME LedgerInv, LedgerInv', NEW k \in Keys, NEW o \in Orders, NEW p \in Products,
         NEW q \in Quantities, Reserve(k, o, p, q)
  PROVE  p \in Listed /\ StockPromised!Promise(o, p, q)
<1> USE DEF LedgerInv, HoldInv, StockInv
<1> DEFINE new == [order |-> o, product |-> p, quantity |-> q, status |-> "held"]
<1>1. /\ p \in Listed /\ k \notin Written /\ HeldBy(o, {p}) = {}
      /\ ~Insufficient(Level(p), q)
      /\ available' = [available EXCEPT ![p] = @ - q]
      /\ row' = [row EXCEPT ![k] = new]
      /\ UNCHANGED <<anonymous, consumed>>
  BY InventoryConstants DEF Reserve, plan_reservation, Level, TypeOK, WrittenIsBound
<1>2. q \in Nat
  BY InventoryConstants, Zenon
<1>3. q <= available[p]
  BY <1>1, <1>2 DEF Insufficient, Level, TypeOK
<1>4. new # NoRow
  <2>1. new \in Rows
    BY <1>1 DEF Rows
  <2> QED
    BY <2>1, NoRowAssumption
<1>5. \A j \in Keys : row'[j] = IF j = k THEN new ELSE row[j]
  BY <1>1 DEF TypeOK
<1>6. new.order = o /\ new.product = p /\ new.quantity = q /\ new.status = "held"
  OBVIOUS
<1> HIDE DEF new
<1>7. Held' = Held \cup {k} /\ k \notin Held /\ Held \subseteq Keys
  BY <1>1, <1>4, <1>5, <1>6 DEF Held, Written
<1>8. Promises[o][p] = 0
  BY <1>1, PromiseOfARow
<1>9. PromisedTo(o, p)' = q
  <2>1. k \in Held' /\ row'[k].order = o /\ row'[k].product = p /\ row'[k].quantity = q
    BY <1>5, <1>6, <1>7
  <2>2. LiveRowsUnique'
    OBVIOUS
  <2>3. HeldBy(o, {p})' = {k}
    BY <2>1, <2>2 DEF HeldBy, LiveRowsUnique
  <2>4. RowFor(HeldBy(o, {p}), p)' = {k}
    BY <2>1, <2>3 DEF RowFor
  <2>5. (CHOOSE j \in {k} : TRUE) = k
    OBVIOUS
  <2> QED
    BY <2>1, <2>3, <2>4, <2>5 DEF PromisedTo, QuantityIn
<1>10. ASSUME NEW x \in Orders, NEW y \in Listed, ~(x = o /\ y = p)
       PROVE  PromisedTo(x, y)' = PromisedTo(x, y)
  <2>1. HeldBy(x, {y})' = HeldBy(x, {y})
    BY <1>5, <1>6, <1>7, <1>10 DEF HeldBy
  <2>2. \A j \in HeldBy(x, {y}) : row'[j] = row[j]
    BY <1>5, <1>7 DEF HeldBy
  <2> QED
    BY <2>1, <2>2, SameRowsSamePromise
<1>11. Promises' = [Promises EXCEPT ![o][p] = q]
  BY <1>1, <1>9, <1>10 DEF Promises
<1> QED
  BY <1>1, <1>3, <1>8, <1>11 DEF StockPromised!Promise, StockPromised!Take

(* A reserve without an order is a TakeUnattributed.                        *)
LEMMA AnonymousTakes ==
  ASSUME LedgerInv, NEW k \in Keys, NEW p \in Products, NEW q \in Quantities,
         Reserve(k, NoOrder, p, q)
  PROVE  p \in Listed /\ StockPromised!TakeUnattributed(p, q)
<1> USE DEF LedgerInv, HoldInv, StockInv
<1>1. /\ p \in Listed
      /\ ~Insufficient(Level(p), q)
      /\ available' = [available EXCEPT ![p] = @ - q]
      /\ anonymous' = [anonymous EXCEPT ![p] = @ + q]
      /\ UNCHANGED <<row, consumed>>
  BY DEF Reserve, plan_reservation, Level, TypeOK
<1>2. q \in Nat
  BY InventoryConstants, Zenon
<1>3. q <= available[p]
  BY <1>1, <1>2 DEF Insufficient, Level, TypeOK
<1>4. Promises' = Promises
  BY <1>1 DEF Promises, PromisedTo, HeldBy, Held, Written, QuantityIn, RowFor
<1> QED
  BY <1>1, <1>3, <1>4 DEF StockPromised!TakeUnattributed, StockPromised!Take

(* A commit clears what the transaction's order was promised of the         *)
(* products of its rows, and nothing else.                                  *)
LEMMA CommitClears ==
  ASSUME LedgerInv, LedgerInv', NEW w \in Workers, Commit(w), tx[w].rows # {}
  PROVE  /\ tx[w].order \in Orders
         /\ Promises' = StockPromised!Cleared(tx[w].order,
                                              {row[k].product : k \in tx[w].rows})
<1> USE DEF LedgerInv, HoldInv, StockInv
<1> DEFINE rows == tx[w].rows
           touched == {row[k].product : k \in rows}
<1>1. \A k \in rows : k \in Held /\ row[k].order = tx[w].order /\ row[k].product \in Listed
  BY OneRowPerProduct, WrittenRow DEF StillHeld, Held
<1>2. PICK o \in Orders : tx[w].order = o
  BY <1>1, WrittenRow DEF Held, Rows
<1>3. Held' = Held \ rows
  BY CommitKeepsLedger
<1>4. \A k \in Held' : k \in Held /\ row'[k] = row[k]
  BY <1>3, CommittedRows DEF Held, Written
<1>5. ASSUME NEW y \in touched
      PROVE  PromisedTo(o, y)' = 0
  <2>1. PICK j \in rows : row[j].product = y
    BY <1>5
  <2>2. \A k \in Held : row[k].order = o /\ row[k].product = y => k = j
    BY <1>1, <1>2, <2>1 DEF LiveRowsUnique
  <2>3. HeldBy(o, {y})' = {}
    BY <1>3, <1>4, <2>1, <2>2 DEF HeldBy
  <2> QED
    BY <2>3 DEF PromisedTo
<1>6. ASSUME NEW x \in Orders, NEW y \in Listed, x # o \/ y \notin touched
      PROVE  PromisedTo(x, y)' = PromisedTo(x, y)
  <2>1. HeldBy(x, {y})' = HeldBy(x, {y})
    BY <1>1, <1>2, <1>3, <1>4, <1>6 DEF HeldBy
  <2>2. \A k \in HeldBy(x, {y}) : row'[k] = row[k]
    BY <1>4, <2>1 DEF HeldBy
  <2> QED
    BY <2>1, <2>2, SameRowsSamePromise
<1> HIDE DEF rows, touched
<1>7. Promises' = [Promises EXCEPT ![o] = [y \in Listed |-> IF y \in touched THEN 0
                                                             ELSE Promises[o][y]]]
  <2>1. ASSUME NEW x \in Orders, NEW y \in Listed
        PROVE  Promises'[x][y] = IF x = o /\ y \in touched THEN 0 ELSE Promises[x][y]
    BY <1>5, <1>6 DEF Promises
  <2>2. ASSUME NEW x \in Orders
        PROVE  /\ Promises[x] = [y \in Listed |-> Promises[x][y]]
               /\ Promises'[x] = [y \in Listed |-> Promises'[x][y]]
    BY DEF Promises
  <2>3. /\ Promises = [x \in Orders |-> Promises[x]]
        /\ Promises' = [x \in Orders |-> Promises'[x]]
    BY DEF Promises
  <2>4. ASSUME NEW x \in Orders
        PROVE  Promises'[x] = IF x = o
                              THEN [y \in Listed |-> IF y \in touched THEN 0
                                                     ELSE Promises[o][y]]
                              ELSE Promises[x]
    <3>1. CASE x = o
      <4>1. \A y \in Listed : Promises'[x][y] = IF y \in touched THEN 0 ELSE Promises[o][y]
        BY <2>1, <3>1
      <4>2. Promises'[x] = [y \in Listed |-> Promises'[x][y]]
        BY <2>2
      <4> QED
        BY <3>1, <4>1, <4>2
    <3>2. CASE x # o
      <4>1. \A y \in Listed : Promises'[x][y] = Promises[x][y]
        BY <2>1, <3>2
      <4>2. /\ Promises[x] = [y \in Listed |-> Promises[x][y]]
            /\ Promises'[x] = [y \in Listed |-> Promises'[x][y]]
        BY <2>2
      <4> QED
        BY <3>2, <4>1, <4>2
    <3> QED
      BY <3>1, <3>2
  <2> QED
    BY <1>2, <2>3, <2>4
<1> QED
  BY <1>2, <1>7 DEF StockPromised!Cleared, touched, rows

(* The commit of a release is a GiveBack, that of a consume is a Sell.      *)
LEMMA CommitSettlesPromise ==
  ASSUME LedgerInv, LedgerInv', NEW w \in Workers, Commit(w), tx[w].rows # {}
  PROVE  \E o \in Orders, scope \in SUBSET Listed :
           StockPromised!GiveBack(o, scope) \/ StockPromised!Sell(o, scope)
<1> USE DEF LedgerInv, HoldInv, StockInv
<1>1. PICK o \in Orders : tx[w].order = o
  BY CommitClears
<1>2. PICK scope : scope = {row[k].product : k \in tx[w].rows}
  OBVIOUS
<1>3. Promises' = StockPromised!Cleared(o, scope)
  BY <1>1, <1>2, CommitClears
<1>4. anonymous' = anonymous
  BY DEF Commit
<1>5. \A k \in tx[w].rows : k \in Held /\ row[k].order = o /\ row[k].product \in Listed
  BY <1>1, OneRowPerProduct, WrittenRow DEF StillHeld, Held
<1>6. scope \in SUBSET Listed
  BY <1>2, <1>5
<1>7. PICK kind \in {"release", "consume"} : tx[w].kind = kind
  BY SettledLevels
<1>8. ASSUME NEW p \in scope
      PROVE  /\ kind = "release" => /\ available'[p] = available[p] + Promises[o][p]
                                    /\ consumed'[p] = consumed[p]
             /\ kind = "consume" => /\ available'[p] = available[p]
                                    /\ consumed'[p] = consumed[p] + Promises[o][p]
  <2>1. PICK k \in tx[w].rows : row[k].product = p
    BY <1>2
  <2>2. Promises[o][p] = row[k].quantity
    BY <1>5, <1>6, <2>1, PromiseOfARow
  <2> QED
    BY <1>7, <2>1, <2>2, SettledLevels
<1>9. ASSUME NEW p \in Listed, p \notin scope
      PROVE  available'[p] = available[p] /\ consumed'[p] = consumed[p]
  BY <1>2, <1>9 DEF Commit, Settle
<1>10. /\ available' = [p \in Listed |-> available'[p]]
       /\ consumed' = [p \in Listed |-> consumed'[p]]
       /\ available = [p \in Listed |-> available[p]]
       /\ consumed = [p \in Listed |-> consumed[p]]
  BY DEF Commit, Settle, TypeOK
<1>11. CASE kind = "release"
  <2>1. available' = [p \in Listed |-> IF p \in scope THEN available[p] + Promises[o][p]
                                                      ELSE available[p]]
    BY <1>8, <1>9, <1>10, <1>11
  <2>2. consumed' = consumed
    BY <1>8, <1>9, <1>10, <1>11
  <2>3. StockPromised!GiveBack(o, scope)
    BY <1>3, <1>4, <2>1, <2>2 DEF StockPromised!GiveBack
  <2> QED
    BY <1>6, <2>3
<1>12. CASE kind = "consume"
  <2>1. consumed' = [p \in Listed |-> IF p \in scope THEN consumed[p] + Promises[o][p]
                                                     ELSE consumed[p]]
    BY <1>8, <1>9, <1>10, <1>12
  <2>2. available' = available
    BY <1>8, <1>9, <1>10, <1>12
  <2>3. StockPromised!Sell(o, scope)
    BY <1>3, <1>4, <2>1, <2>2 DEF StockPromised!Sell
  <2> QED
    BY <1>6, <2>3
<1> QED
  BY <1>11, <1>12

(* A step that leaves the rows, the shelf, the sales and the anonymous      *)
(* units alone is invisible.                                                *)
LEMMA QuietIsInvisible ==
  ASSUME UNCHANGED <<row, available, consumed, anonymous>>
  PROVE  UNCHANGED StockPromised!promiseVars
<1>1. Promises' = Promises
  BY DEF Promises, PromisedTo, HeldBy, Held, Written, QuantityIn, RowFor
<1> QED
  BY <1>1 DEF StockPromised!promiseVars

(* Every step is a step of the promise, or invisible. *)
LEMMA NextKeepsPromise ==
  ASSUME LedgerInv, LedgerInv', [Next]_vars
  PROVE  [StockPromised!PromiseNext]_(StockPromised!promiseVars)
<1> USE DEF StockPromised!PromiseNext
<1>1. CASE UNCHANGED vars
  BY <1>1, QuietIsInvisible DEF vars
<1>2. CASE \/ \E k \in Keys : ReserveCached(k)
           \/ \E k \in Keys, p \in Products, q \in Quantities : ReserveRejected(k, p, q)
  BY <1>2, QuietIsInvisible DEF ReserveCached, ReserveRejected, vars
<1>3. ASSUME NEW k \in Keys, NEW o \in Orders \cup {NoOrder}, NEW p \in Products,
             NEW q \in Quantities, Reserve(k, o, p, q)
      PROVE  StockPromised!PromiseNext
  <2>1. CASE o = NoOrder
    BY <1>3, <2>1, AnonymousTakes
  <2>2. CASE o \in Orders
    BY <1>3, <2>2, ReservePromises
  <2> QED
    BY <2>1, <2>2
<1>4. CASE \E w \in Workers, kind \in {"release", "consume"}, o \in Orders, s \in Scopes :
             Begin(w, kind, o, s)
  BY <1>4, QuietIsInvisible DEF Begin
<1>5. CASE \E w \in Workers :
             \/ \E k \in Keys : LockItem(w, k) \/ RefuseConsume(w, k) \/ LockTimeout(w, k)
             \/ CommitFails(w)
  BY <1>5, QuietIsInvisible DEF LockItem, RefuseConsume, LockTimeout, CommitFails
<1>6. ASSUME NEW w \in Workers, Commit(w)
      PROVE  [StockPromised!PromiseNext]_(StockPromised!promiseVars)
  <2>1. CASE tx[w].rows # {}
    BY <1>6, <2>1, CommitSettlesPromise
  <2>2. CASE tx[w].rows = {}
    <3>1. available' = available /\ consumed' = consumed
      BY <1>6, <2>2 DEF Commit, Settle, LedgerInv, HoldInv, StockInv, TypeOK
    <3>2. row' = row
      BY <1>6, <2>2 DEF Commit, Settle, Marked, LedgerInv, HoldInv, StockInv, TypeOK
    <3>3. anonymous' = anonymous
      BY <1>6 DEF Commit
    <3> QED
      BY <3>1, <3>2, <3>3, QuietIsInvisible
  <2> QED
    BY <2>1, <2>2
<1> HIDE DEF StockPromised!PromiseNext
<1>7. CASE Request
  BY <1>2, <1>3, <1>4, <1>7 DEF Request
<1>8. CASE \E w \in Workers : Proceed(w)
  BY <1>5, <1>6, <1>8 DEF Proceed
<1> QED
  BY <1>1, <1>7, <1>8 DEF Next

(* When no two requests work on one order at once, inventory-service        *)
(* implements its promise for every set of products, orders and workers:    *)
(* whatever the interleaving of reserves, releases, consumes, lock          *)
(* timeouts and failed commits, every unit is on the shelf, promised to one *)
(* order, taken anonymously or sold, and an order's units come back or      *)
(* leave once.                                                              *)
THEOREM PromiseIsKept ==
  ASSUME ~Overlap
  PROVE  Spec => KeepsPromise
<1>1. Init => StockPromised!PromiseInit
  <2> SUFFICES ASSUME Init PROVE StockPromised!PromiseInit
    OBVIOUS
  <2>1. Held = {}
    BY DEF Init, Held, Written
  <2>2. \A o \in Orders, p \in Listed : PromisedTo(o, p) = 0
    BY <2>1 DEF PromisedTo, HeldBy
  <2>3. Promises = [o \in Orders |-> [p \in Listed |-> 0]]
    BY <2>2 DEF Promises
  <2> QED
    BY <2>3 DEF Init, StockPromised!PromiseInit
<1>2. LedgerInv /\ LedgerInv' /\ [Next]_vars =>
        [StockPromised!PromiseNext]_(StockPromised!promiseVars)
  BY NextKeepsPromise
<1> QED
  BY <1>1, <1>2, LedgerInvariant, PTL DEF Spec, KeepsPromise, StockPromised!PromiseSpec
=============================================================================

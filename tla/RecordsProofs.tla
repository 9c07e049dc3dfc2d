--------------------------- MODULE RecordsProofs ----------------------------
(***************************************************************************)
(* Tables that are only appended to, and the queue that is worked off: the *)
(* payment ledger, the hash chain of audit-service and the outbox.         *)
(***************************************************************************)
EXTENDS Dispatcher, Payment, Audit, FiniteSetTheorems, TLAPS

(***************************************************************************)
(* payment-service: RefundsAreSound for any orders, keys, amounts and      *)
(* refunders.                                                              *)
(***************************************************************************)
LedgerRows == 1 .. Len(ledger)

(* Row e reverses a charge that ledger l holds at position n or before.      *)
Reverses(l, e, n) ==
  \E j \in 1 .. n : /\ l[j].status = "SUCCESS"
                    /\ l[j].order = e.order
                    /\ l[j].amount = -(e.amount)

(* The inductive invariant.  A refund appends what it planned when it read:  *)
(* the advisory lock keeps it the only one of its order, so the order is     *)
(* still unsettled, and the charge it found cannot have gone away.           *)
RefundInv ==
  /\ PaymentTypeOK
  /\ \A i, j \in LedgerRows :
       (/\ ledger[i].order = ledger[j].order
        /\ ledger[i].status \in SETTLED_STATUSES
        /\ ledger[j].status \in SETTLED_STATUSES) => i = j
  /\ \A i \in LedgerRows : ledger[i].status = "REFUNDED" => Reverses(ledger, ledger[i], i - 1)
  /\ \A r, s \in Refunders :
       (refund[r] # NoRefund /\ refund[s] # NoRefund /\ refund[r].order = refund[s].order) => r = s
  /\ \A r \in Refunders : refund[r] # NoRefund =>
       /\ refund[r].status \in SETTLED_STATUSES
       /\ \A i \in LedgerRows : ledger[i].order = refund[r].order => ledger[i].status \notin SETTLED_STATUSES
       /\ refund[r].status = "REFUNDED" => Reverses(ledger, refund[r], Len(ledger))

LEMMA Appended ==
  ASSUME NEW s \in Seq(Entry), NEW e \in Entry
  PROVE  /\ Append(s, e) \in Seq(Entry)
         /\ Len(s) \in Nat
         /\ Len(Append(s, e)) = Len(s) + 1
         /\ \A i \in 1 .. Len(s) : Append(s, e)[i] = s[i] /\ s[i] \in Entry
         /\ Append(s, e)[Len(s) + 1] = e
OBVIOUS

LEMMA InitPayment == PaymentInit => RefundInv
BY DEF PaymentInit, RefundInv, PaymentTypeOK, LedgerRows

(* process_charge appends a row that is no settlement.                       *)
LEMMA ChargeKeeps ==
  ASSUME RefundInv, NEW k \in ChargeKeys, NEW o \in Orders, NEW amount \in Amounts,
         process_charge(k, o, amount)
  PROVE  RefundInv'
<1>1. PICK status \in {"SUCCESS", "FAILED"} :
        ledger' = Append(ledger, [order |-> o, status |-> status, amount |-> amount])
  BY DEF process_charge, authorize
<1> DEFINE e == [order |-> o, status |-> status, amount |-> amount]
<1>2. e \in Entry /\ e.status \notin SETTLED_STATUSES
  BY PaymentConstants DEF Entry, SETTLED_STATUSES
<1>3. ledger \in Seq(Entry) /\ refund' = refund
  BY DEF RefundInv, PaymentTypeOK, process_charge
<1>4. /\ ledger' \in Seq(Entry) /\ Len(ledger) \in Nat /\ Len(ledger') = Len(ledger) + 1
      /\ \A i \in LedgerRows : ledger'[i] = ledger[i]
      /\ ledger'[Len(ledger) + 1] = e
  BY <1>1, <1>2, <1>3, Appended DEF LedgerRows
<1>5. LedgerRows' = LedgerRows \cup {Len(ledger) + 1}
  BY <1>4 DEF LedgerRows
<1>6. PaymentTypeOK'
  BY <1>3, <1>4 DEF process_charge, RefundInv, PaymentTypeOK
<1> HIDE DEF e
<1>7. \A x, n : n \in 0 .. Len(ledger) /\ Reverses(ledger, x, n) => Reverses(ledger', x, n)
  BY <1>4 DEF Reverses, LedgerRows
<1>8. \A x : Reverses(ledger, x, Len(ledger)) => Reverses(ledger', x, Len(ledger'))
  BY <1>4 DEF Reverses, LedgerRows
<1> QED
  BY <1>2, <1>3, <1>4, <1>5, <1>6, <1>7, <1>8, SMTT(60) DEF RefundInv, LedgerRows, SETTLED_STATUSES

(* What plan_refund appends: a settlement of the order which, when it gives   *)
(* money back, reverses a charge that is on the ledger.                      *)
LEMMA RefundIsPlanned ==
  ASSUME PaymentTypeOK, NEW o \in Orders
  PROVE  /\ plan_refund(o) \in Entry
         /\ plan_refund(o).order = o
         /\ plan_refund(o).status \in SETTLED_STATUSES
         /\ plan_refund(o).status = "REFUNDED" => Reverses(ledger, plan_refund(o), Len(ledger))
<1> DEFINE charges == EntriesOf(o, {"SUCCESS"})
<1>1. CASE charges = {}
  BY <1>1 DEF plan_refund, Entry, SETTLED_STATUSES
<1>2. CASE charges # {}
  <2> DEFINE c == CHOOSE i \in charges : TRUE
  <2>1. c \in charges
    BY <1>2
  <2>2. plan_refund(o) = [order |-> o, status |-> "REFUNDED", amount |-> -(ledger[c].amount)]
    BY <1>2 DEF plan_refund
  <2> HIDE DEF c
  <2>3. /\ c \in 1 .. Len(ledger) /\ ledger[c] \in Entry
        /\ ledger[c].order = o /\ ledger[c].status = "SUCCESS" /\ ledger[c].amount \in Int
    <3>1. c \in DOMAIN ledger /\ ledger[c].order = o /\ ledger[c].status = "SUCCESS"
      BY <2>1 DEF EntriesOf
    <3> HIDE DEF charges
    <3>2. c \in 1 .. Len(ledger) /\ ledger[c] \in Entry
      BY <3>1 DEF PaymentTypeOK
    <3> QED BY <3>1, <3>2 DEF Entry
  <2> QED BY <2>2, <2>3 DEF Entry, SETTLED_STATUSES, Reverses
<1> QED BY <1>1, <1>2

(* process_refund, up to its commit, under the advisory lock.                *)
LEMMA ReadKeeps ==
  ASSUME RefundInv, NEW r \in Refunders, NEW o \in Orders, RefundRead(r, o)
  PROVE  RefundInv'
<1>1. /\ ledger' = ledger /\ charged' = charged
      /\ refund' = [refund EXCEPT ![r] = plan_refund(o)]
  BY DEF RefundRead
<1>2. /\ plan_refund(o) \in Entry /\ plan_refund(o).order = o
      /\ plan_refund(o).status \in SETTLED_STATUSES
      /\ plan_refund(o).status = "REFUNDED" => Reverses(ledger, plan_refund(o), Len(ledger))
  BY RefundIsPlanned DEF RefundInv
<1>3. PaymentTypeOK'
  BY <1>1, <1>2 DEF RefundInv, PaymentTypeOK
<1>4. /\ refund'[r] = plan_refund(o)
      /\ \A s \in Refunders \ {r} : refund'[s] = refund[s]
  BY <1>1 DEF RefundInv, PaymentTypeOK
<1>5. \A s \in Refunders : refund[s] # NoRefund => refund[s].order # o
  BY DEF RefundRead, LockedForRefund
<1>6. \A i \in LedgerRows : ledger[i].order = o => ledger[i].status \notin SETTLED_STATUSES
  BY DEF RefundRead, EntriesOf, LedgerRows, RefundInv, PaymentTypeOK
<1>7. LedgerRows' = LedgerRows /\ Len(ledger') = Len(ledger)
  BY <1>1 DEF LedgerRows
<1>8. \A x, n : Reverses(ledger', x, n) = Reverses(ledger, x, n)
  BY <1>1 DEF Reverses
<1>9. \A s, u \in Refunders :
       (refund'[s] # NoRefund /\ refund'[u] # NoRefund /\ refund'[s].order = refund'[u].order) => s = u
  BY <1>2, <1>4, <1>5 DEF RefundInv
<1>10. \A s \in Refunders : refund'[s] # NoRefund =>
         /\ refund'[s].status \in SETTLED_STATUSES
         /\ \A i \in LedgerRows : ledger[i].order = refund'[s].order => ledger[i].status \notin SETTLED_STATUSES
         /\ refund'[s].status = "REFUNDED" => Reverses(ledger, refund'[s], Len(ledger))
  BY <1>2, <1>4, <1>6 DEF RefundInv
<1> QED BY <1>1, <1>3, <1>7, <1>8, <1>9, <1>10 DEF RefundInv

(* process_refund's commit: the planned row is the order's only settlement.  *)
LEMMA CommitKeeps ==
  ASSUME RefundInv, NEW r \in Refunders, RefundCommit(r)
  PROVE  RefundInv'
<1> DEFINE e == refund[r]
<1>1. /\ e # NoRefund /\ e \in Entry /\ e.status \in SETTLED_STATUSES
      /\ \A i \in LedgerRows : ledger[i].order = e.order => ledger[i].status \notin SETTLED_STATUSES
      /\ e.status = "REFUNDED" => Reverses(ledger, e, Len(ledger))
  BY DEF RefundCommit, RefundInv, PaymentTypeOK
<1>2. /\ ledger \in Seq(Entry) /\ ledger' = Append(ledger, e)
      /\ refund'[r] = NoRefund /\ \A s \in Refunders \ {r} : refund'[s] = refund[s]
  BY DEF RefundCommit, RefundInv, PaymentTypeOK
<1>3. PaymentTypeOK'
  BY <1>1, <1>2, Appended DEF RefundCommit, RefundInv, PaymentTypeOK
<1>4. \A s \in Refunders \ {r} : refund[s] # NoRefund => refund[s].order # e.order
  BY <1>1 DEF RefundInv
<1> HIDE DEF e
<1>5. /\ Len(ledger) \in Nat /\ Len(ledger') = Len(ledger) + 1
      /\ \A i \in LedgerRows : ledger'[i] = ledger[i]
      /\ ledger'[Len(ledger) + 1] = e
  BY <1>1, <1>2, Appended DEF LedgerRows
<1>6. LedgerRows' = LedgerRows \cup {Len(ledger) + 1} /\ Len(ledger) + 1 \notin LedgerRows
  BY <1>5 DEF LedgerRows
<1>7. \A x, n : n \in 0 .. Len(ledger) /\ Reverses(ledger, x, n) => Reverses(ledger', x, n)
  BY <1>5 DEF Reverses, LedgerRows
<1>8. \A x : Reverses(ledger, x, Len(ledger)) => Reverses(ledger', x, Len(ledger'))
  BY <1>5 DEF Reverses, LedgerRows
<1>9. \A i, j \in LedgerRows' :
        (/\ ledger'[i].order = ledger'[j].order
         /\ ledger'[i].status \in SETTLED_STATUSES
         /\ ledger'[j].status \in SETTLED_STATUSES) => i = j
  BY <1>1, <1>5, <1>6 DEF RefundInv
<1>10. \A i \in LedgerRows' : ledger'[i].status = "REFUNDED" => Reverses(ledger', ledger'[i], i - 1)
  <2> SUFFICES ASSUME NEW i \in LedgerRows', ledger'[i].status = "REFUNDED"
               PROVE  Reverses(ledger', ledger'[i], i - 1)
    OBVIOUS
  <2>1. CASE i \in LedgerRows
    BY <1>5, <1>7, <2>1 DEF RefundInv, LedgerRows
  <2>2. CASE i = Len(ledger) + 1
    BY <1>1, <1>5, <1>7, <2>2
  <2> QED BY <1>6, <2>1, <2>2
<1>11. \A s, u \in Refunders :
         (refund'[s] # NoRefund /\ refund'[u] # NoRefund /\ refund'[s].order = refund'[u].order) => s = u
  BY <1>2 DEF RefundInv
<1>12. \A s \in Refunders : refund'[s] # NoRefund =>
         /\ refund'[s].status \in SETTLED_STATUSES
         /\ \A i \in LedgerRows' : ledger'[i].order = refund'[s].order => ledger'[i].status \notin SETTLED_STATUSES
         /\ refund'[s].status = "REFUNDED" => Reverses(ledger', refund'[s], Len(ledger'))
  <2> SUFFICES ASSUME NEW s \in Refunders, refund'[s] # NoRefund
               PROVE  /\ refund'[s].status \in SETTLED_STATUSES
                      /\ \A i \in LedgerRows' : ledger'[i].order = refund'[s].order => ledger'[i].status \notin SETTLED_STATUSES
                      /\ refund'[s].status = "REFUNDED" => Reverses(ledger', refund'[s], Len(ledger'))
    OBVIOUS
  <2>1. s # r /\ refund'[s] = refund[s] /\ refund[s] # NoRefund /\ refund[s].order # e.order
    BY <1>2, <1>4
  <2>2. /\ refund[s].status \in SETTLED_STATUSES
        /\ \A i \in LedgerRows : ledger[i].order = refund[s].order => ledger[i].status \notin SETTLED_STATUSES
        /\ refund[s].status = "REFUNDED" => Reverses(ledger, refund[s], Len(ledger))
    BY <2>1 DEF RefundInv
  <2>3. \A i \in LedgerRows' : ledger'[i].order = refund[s].order => ledger'[i].status \notin SETTLED_STATUSES
    BY <1>5, <1>6, <2>1, <2>2
  <2> QED BY <1>8, <2>1, <2>2, <2>3
<1> QED BY <1>3, <1>9, <1>10, <1>11, <1>12 DEF RefundInv

LEMMA FailKeeps ==
  ASSUME RefundInv, NEW r \in Refunders, RefundFails(r)
  PROVE  RefundInv'
<1>1. /\ ledger' = ledger /\ charged' = charged
      /\ refund'[r] = NoRefund /\ \A s \in Refunders \ {r} : refund'[s] = refund[s]
  BY DEF RefundFails, RefundInv, PaymentTypeOK
<1>2. PaymentTypeOK'
  BY DEF RefundFails, RefundInv, PaymentTypeOK
<1>3. LedgerRows' = LedgerRows /\ Len(ledger') = Len(ledger)
  BY <1>1 DEF LedgerRows
<1>4. \A x, n : Reverses(ledger', x, n) = Reverses(ledger, x, n)
  BY <1>1 DEF Reverses
<1> QED BY <1>1, <1>2, <1>3, <1>4 DEF RefundInv

LEMMA PaymentStep == RefundInv /\ [PaymentNext]_paymentVars => RefundInv'
<1> SUFFICES ASSUME RefundInv, [PaymentNext]_paymentVars PROVE RefundInv'
  OBVIOUS
<1>1. CASE \E k \in ChargeKeys, o \in Orders, amount \in Amounts : process_charge(k, o, amount)
  BY <1>1, ChargeKeeps
<1>2. CASE \E r \in Refunders, o \in Orders : RefundRead(r, o)
  BY <1>2, ReadKeeps
<1>3. CASE \E r \in Refunders : RefundCommit(r) \/ RefundFails(r)
  BY <1>3, CommitKeeps, FailKeeps
<1>4. CASE UNCHANGED paymentVars
  <2>1. LedgerRows' = LedgerRows /\ \A x, n : Reverses(ledger', x, n) = Reverses(ledger, x, n)
    BY <1>4 DEF paymentVars, LedgerRows, Reverses
  <2> QED BY <1>4, <2>1 DEF paymentVars, RefundInv, PaymentTypeOK
<1> QED BY <1>1, <1>2, <1>3, <1>4 DEF PaymentNext

(* The invariant says what the property says.                                *)
LEMMA InvariantIsSound == RefundInv => RefundsAreSound
<1> SUFFICES ASSUME RefundInv PROVE RefundsAreSound
  OBVIOUS
<1>1. PaymentTypeOK /\ DOMAIN ledger = LedgerRows
  BY DEF RefundInv, PaymentTypeOK, LedgerRows
<1>2. SettledOnce
  <2> SUFFICES ASSUME NEW o \in Orders
               PROVE  Cardinality(EntriesOf(o, SETTLED_STATUSES)) <= 1
    BY DEF SettledOnce
  <2> DEFINE S == EntriesOf(o, SETTLED_STATUSES)
  <2>1. \A i, j \in S : i = j
    BY <1>1 DEF RefundInv, EntriesOf
  <2> SUFFICES Cardinality(S) <= 1
    OBVIOUS
  <2> HIDE DEF S
  <2>2. CASE S = {}
    BY <2>2, FS_EmptySet
  <2>3. CASE S # {}
    <3>1. PICK i \in S : TRUE
      BY <2>3
    <3>2. S = {i}
      BY <2>1, <3>1
    <3>3. Cardinality({i}) = 1
      BY FS_Singleton
    <3> QED BY <3>2, <3>3
  <2> QED BY <2>2, <2>3
<1>3. RefundsReverseCharges
  BY <1>1 DEF RefundInv, RefundsReverseCharges, Reverses
<1> QED BY <1>1, <1>2, <1>3 DEF RefundsAreSound

(* process_refund settles an order once and gives back only what came in,    *)
(* whatever refunds and charges run at the same time.                        *)
THEOREM RefundsStaySound == PaymentSpec => []RefundsAreSound
BY InitPayment, PaymentStep, InvariantIsSound, PTL DEF PaymentSpec

(***************************************************************************)
(* audit-service: AuditIsSound for any number of appends at the same time. *)
(***************************************************************************)
(* What Append does to a sequence of members of S.                           *)
LEMMA RecordAppended ==
  ASSUME NEW S, NEW s \in Seq(S), NEW e \in S
  PROVE  /\ Append(s, e) \in Seq(S) /\ Len(Append(s, e)) = Len(s) + 1
         /\ Append(s, e)[Len(s) + 1] = e
         /\ \A i \in 1 .. Len(s) : Append(s, e)[i] = s[i]
OBVIOUS

(* A function on 1 .. n with values in S is a sequence over S.               *)
LEMMA IsSequence ==
  ASSUME NEW S, NEW n \in Nat, NEW f \in [1 .. n -> S]
  PROVE  f \in Seq(S) /\ Len(f) = n
OBVIOUS

IsRecord(r) ==
  r = [sequence |-> r.sequence, content |-> r.content, at |-> r.at,
       prev_hash |-> r.prev_hash, record_hash |-> r.record_hash]

(* The hash the record after the first n has to point at.                    *)
TailHash(n) == IF n = 0 THEN GENESIS_HASH ELSE log[n].record_hash

(* Record r is number n of the chain.                                        *)
Linked(r, n) ==
  /\ r.sequence = n /\ r.content \in Contents
  /\ r.prev_hash = TailHash(n - 1) /\ r.record_hash = Recomputed(r)

(* The records are the chain 1 .. n, each announced once and in order.       *)
LogInv ==
  /\ \E S : log \in Seq(S)
  /\ Len(log) <= LOG_BOUND
  /\ \A i \in 1 .. Len(log) : IsRecord(log[i]) /\ Linked(log[i], i)
  /\ announced = [i \in 1 .. Len(log) |-> i]

(* An append is linked to the tail, or its sequence has been taken since.    *)
AppendInv ==
  /\ append = [a \in Appenders |-> append[a]]
  /\ \A a \in Appenders :
       /\ append[a].step \in {"free", "commit"}
       /\ append[a].step = "commit" =>
            /\ append[a].sequence \in Nat /\ append[a].sequence <= LOG_BOUND
            /\ append[a].sequence <= Len(log) \/ (append[a].sequence = Len(log) + 1 /\ Linked(append[a], Len(log) + 1))

AuditInv == auditSetting \in AuditSettings /\ LogInv /\ AppendInv

(* The empty log is a chain.                                                 *)
LEMMA InitAudit == AuditInit => AuditInv
<1> SUFFICES ASSUME AuditInit PROVE AuditInv
  OBVIOUS
<1>1. log = <<>> /\ log \in Seq({}) /\ Len(log) = 0 /\ announced = <<>>
  BY DEF AuditInit
<1>2. LogInv
  BY <1>1, AuditConstants DEF LogInv
<1>3. AppendInv
  BY DEF AuditInit, AppendInv, NoAppend
<1> QED
  BY <1>2, <1>3 DEF AuditInit, AuditInv

(* append_record, up to the insert: the record is linked to the tail.        *)
LEMMA ReadTailKeeps ==
  ASSUME AuditInv, NEW a \in Appenders, NEW content \in Contents, NEW offset,
         ReadTail(a, content, offset)
  PROVE  AuditInv'
<1>1. UNCHANGED <<auditSetting, log, announced>> /\ Len(log) < LOG_BOUND
  BY DEF ReadTail
<1>2. LogInv'
  BY <1>1 DEF AuditInv, LogInv, Linked, TailHash
<1>3. Len(log) \in Nat /\ (log = <<>> <=> Len(log) = 0)
  BY DEF AuditInv, LogInv
<1> DEFINE prev == IF log = <<>> THEN GENESIS_HASH ELSE Last(log).record_hash
           at == <<0, offset>>
           new == [step |-> "commit", sequence |-> Len(log) + 1, content |-> content, at |-> at,
                   prev_hash |-> prev, record_hash |-> compute_hash(prev, Len(log) + 1, content, at)]
<1>4. append' = [append EXCEPT ![a] = new]
  BY DEF ReadTail, link
<1>5. prev = TailHash(Len(log) + 1 - 1)
  BY <1>3 DEF TailHash, Last
<1>6. Linked(new, Len(log) + 1) /\ new.step = "commit" /\ new.sequence = Len(log) + 1
  <2> HIDE DEF prev, at
  <2> QED
    BY <1>5 DEF Linked, Recomputed
<1>7. Linked(new, Len(log) + 1)'
  <2>1. \A n : TailHash(n)' = TailHash(n)
    BY <1>1 DEF TailHash
  <2>2. new' = new
    BY <1>1
  <2> HIDE DEF new
  <2> QED
    BY <1>1, <1>6, <2>1, <2>2 DEF Linked, Recomputed, compute_hash, canonical_bytes
<1>8. AppendInv'
  <2>1. \A b \in Appenders : append'[b] = IF b = a THEN new ELSE append[b]
    BY <1>4 DEF AuditInv, AppendInv
  <2>2. append' = [b \in Appenders |-> append'[b]]
    BY <1>4 DEF AuditInv, AppendInv
  <2>3. \A b \in Appenders : Linked(append[b], Len(log) + 1) /\ b # a => Linked(append[b], Len(log) + 1)'
    BY <1>1, <2>1 DEF Linked, TailHash, Recomputed, compute_hash, canonical_bytes
  <2> QED
    BY <1>1, <1>3, <1>6, <1>7, <2>1, <2>2, <2>3, AuditConstants DEF AuditInv, AppendInv
<1> QED
  BY <1>1, <1>2, <1>8 DEF AuditInv

(* The insert: UNIQUE refuses it, or the chain grows by the record read for. *)
LEMMA AppendCommitsKeeps ==
  ASSUME AuditInv, NEW a \in Appenders, AppendCommits(a)
  PROVE  AuditInv'
<1>1. auditSetting' = auditSetting /\ append' = [append EXCEPT ![a] = NoAppend] /\ append[a].step = "commit"
  BY DEF AppendCommits, Appending, AuditInv, AppendInv
<1>2. /\ append' = [b \in Appenders |-> append'[b]]
      /\ \A b \in Appenders : append'[b] = IF b = a THEN NoAppend ELSE append[b]
  BY <1>1 DEF AuditInv, AppendInv
<1>3. Len(log) \in Nat /\ append[a].sequence \in Nat /\ LOG_BOUND \in Nat
  BY <1>1, AuditConstants DEF AuditInv, LogInv, AppendInv
<1>4. CASE append[a].sequence <= Len(log)
  <2>1. UNCHANGED <<log, announced>>
    BY <1>4 DEF AppendCommits
  <2>2. LogInv'
    BY <2>1 DEF AuditInv, LogInv, Linked, TailHash
  <2>3. \A b \in Appenders : Linked(append[b], Len(log) + 1) /\ b # a => Linked(append[b], Len(log) + 1)'
    BY <1>2, <2>1 DEF Linked, TailHash, Recomputed, compute_hash, canonical_bytes
  <2>4. AppendInv'
    BY <1>2, <2>1, <2>3 DEF AuditInv, AppendInv, NoAppend
  <2> QED
    BY <1>1, <2>2, <2>4 DEF AuditInv
<1>5. CASE ~(append[a].sequence <= Len(log))
  <2>1. append[a].sequence = Len(log) + 1 /\ Linked(append[a], Len(log) + 1) /\ Len(log) + 1 <= LOG_BOUND
    BY <1>1, <1>3, <1>5 DEF AuditInv, AppendInv
  <2> DEFINE n == Len(log)
             r == Row(a)
  <2>2. log' = Append(log, r) /\ announced' = Append(announced, n + 1)
    BY <1>5, <2>1 DEF AppendCommits
  <2>3. IsRecord(r) /\ Linked(r, n + 1)
    BY <2>1 DEF Row, IsRecord, Linked, Recomputed
  <2>4. PICK S : log \in Seq(S)
    BY DEF AuditInv, LogInv
  <2> HIDE DEF r
  <2>5. /\ log' \in Seq(S \cup {r}) /\ Len(log') = n + 1 /\ log'[n + 1] = r
        /\ \A i \in 1 .. n : log'[i] = log[i]
    <3>1. log \in Seq(S \cup {r}) /\ r \in S \cup {r}
      BY <2>4
    <3> QED
      BY <2>2, <3>1, RecordAppended
  <2>6. \A i \in 0 .. n : TailHash(i)' = TailHash(i)
    BY <1>3, <2>5 DEF TailHash
  <2>7. \A i \in 1 .. n + 1 : IsRecord(log'[i]) /\ Linked(log'[i], i)
    BY <1>3, <2>3, <2>5 DEF AuditInv, LogInv
  <2>8. \A i \in 1 .. n + 1 : i - 1 \in 0 .. n
    BY <1>3
  <2>9. \A i \in 1 .. n + 1 : Linked(log[i], i)'
    BY <2>6, <2>7, <2>8 DEF Linked, Recomputed, compute_hash, canonical_bytes
  <2>10. announced' = [i \in 1 .. n + 1 |-> i]
    <3>1. announced = [i \in 1 .. n |-> i]
      BY DEF AuditInv, LogInv
    <3>2. announced \in Seq(Nat) /\ Len(announced) = n
      BY <1>3, <3>1, IsSequence
    <3> HIDE DEF n
    <3> QED
      BY <1>3, <2>2, <3>1, <3>2 DEF n
  <2>11. LogInv'
    BY <2>1, <2>5, <2>7, <2>9, <2>10 DEF LogInv, IsRecord
  <2>12. \A b \in Appenders : append[b].step = "commit" => append[b].sequence <= Len(log')
    BY <1>3, <2>1, <2>5 DEF AuditInv, AppendInv
  <2>13. AppendInv'
    BY <1>2, <2>12 DEF AuditInv, AppendInv, NoAppend
  <2> QED
    BY <1>1, <2>11, <2>13 DEF AuditInv
<1> QED
  BY <1>4, <1>5

(* An append that fails leaves the log as it was.                            *)
LEMMA AppendFailsKeeps ==
  ASSUME AuditInv, NEW a \in Appenders, AppendFails(a)
  PROVE  AuditInv'
<1>1. UNCHANGED <<auditSetting, log, announced>> /\ append' = [append EXCEPT ![a] = NoAppend]
  BY DEF AppendFails
<1>2. /\ append' = [b \in Appenders |-> append'[b]]
      /\ \A b \in Appenders : append'[b] = IF b = a THEN NoAppend ELSE append[b]
  BY <1>1 DEF AuditInv, AppendInv
<1>3. LogInv'
  BY <1>1 DEF AuditInv, LogInv, Linked, TailHash
<1>4. \A b \in Appenders : Linked(append[b], Len(log) + 1) /\ b # a => Linked(append[b], Len(log) + 1)'
  BY <1>1, <1>2 DEF Linked, TailHash, Recomputed, compute_hash, canonical_bytes
<1>5. AppendInv'
  BY <1>1, <1>2, <1>4 DEF AuditInv, AppendInv, NoAppend
<1> QED
  BY <1>1, <1>3, <1>5 DEF AuditInv

(* Every append that commits extends the chain, with or without the lock     *)
(* (append_record): the invariant behind the next theorem.                   *)
THEOREM AuditInvariant == AuditSpec => []AuditInv
<1>1. AuditInv /\ [AuditNext]_auditVars => AuditInv'
  <2> SUFFICES ASSUME AuditInv, [AuditNext]_auditVars PROVE AuditInv'
    OBVIOUS
  <2>1. CASE UNCHANGED auditVars
    BY <2>1 DEF auditVars, AuditInv, LogInv, AppendInv, Linked, TailHash, IsRecord, Recomputed
  <2> QED
    BY <2>1, ReadTailKeeps, AppendCommitsKeeps, AppendFailsKeeps DEF AuditNext
<1> QED
  BY <1>1, InitAudit, PTL DEF AuditSpec

(* A chain as it was appended has no break.                                  *)
LEMMA IntactChain == LogInv => verify_chain(log) = {} /\ DOMAIN log = 1 .. Len(log) /\ Len(log) \in Nat
<1> SUFFICES ASSUME LogInv PROVE verify_chain(log) = {} /\ DOMAIN log = 1 .. Len(log) /\ Len(log) \in Nat
  OBVIOUS
<1>1. DOMAIN log = 1 .. Len(log) /\ Len(log) \in Nat
  BY DEF LogInv
<1>2. \A i \in DOMAIN log : /\ log[i].sequence = i /\ log[i].record_hash = Recomputed(log[i])
                            /\ log[i].prev_hash = IF i = 1 THEN GENESIS_HASH ELSE log[i - 1].record_hash
  BY <1>1 DEF LogInv, Linked, TailHash
<1>3. \A i \in DOMAIN log \ {1} : log[i].sequence = log[i - 1].sequence + 1
  BY <1>1, <1>2
<1> QED
  BY <1>1, <1>2, <1>3 DEF verify_chain

(* Appends made at the same time leave one chain that verifies.              *)
LEMMA ChainAlwaysVerifies == LogInv => ChainVerifies
<1> SUFFICES ASSUME LogInv PROVE ChainVerifies
  OBVIOUS
<1>1. announced = [i \in DOMAIN log |-> i]
  BY IntactChain DEF LogInv
<1>2. ASSUME InUtc PROVE verify = {}
  <2>1. \A i \in DOMAIN log : to_dict(log[i]) = log[i]
    <3> SUFFICES ASSUME NEW i \in DOMAIN log PROVE to_dict(log[i]) = log[i]
      OBVIOUS
    <3>1. IsRecord(log[i])
      BY IntactChain DEF LogInv
    <3>2. log[i].at = ReadBack(log[i].at)
      BY <1>2 DEF InUtc
    <3> QED
      BY <3>1, <3>2 DEF to_dict, IsRecord
  <2>2. [i \in DOMAIN log |-> to_dict(log[i])] = log
    BY <2>1 DEF LogInv
  <2> QED
    BY <2>2, IntactChain DEF verify
<1> QED
  BY <1>1, <1>2 DEF ChainVerifies

(* What RemoveAt leaves: the records before i where they were, the ones      *)
(* after it one place down.                                                  *)
LEMMA RemoveAtElements ==
  ASSUME NEW S, NEW s \in Seq(S), NEW i \in 1 .. Len(s)
  PROVE  /\ RemoveAt(s, i) \in Seq(S) /\ Len(RemoveAt(s, i)) = Len(s) - 1
         /\ \A j \in 1 .. Len(s) - 1 : RemoveAt(s, i)[j] = IF j < i THEN s[j] ELSE s[j + 1]
<1> DEFINE front == SubSeq(s, 1, i - 1)
           back == SubSeq(s, i + 1, Len(s))
<1>0. Len(s) \in Nat /\ i \in Nat
  OBVIOUS
<1>1. front \in Seq(S) /\ Len(front) = i - 1 /\ \A j \in 1 .. i - 1 : front[j] = s[j]
  BY <1>0
<1>2. back \in Seq(S) /\ Len(back) = Len(s) - i /\ \A j \in 1 .. Len(s) - i : back[j] = s[i + j]
  BY <1>0
<1>3. RemoveAt(s, i) = front \o back
  BY DEF RemoveAt
<1> HIDE DEF front, back
<1>4. RemoveAt(s, i) \in Seq(S) /\ Len(RemoveAt(s, i)) = Len(s) - 1
  BY <1>0, <1>1, <1>2, <1>3
<1>5. ASSUME NEW j \in 1 .. Len(s) - 1 PROVE RemoveAt(s, i)[j] = IF j < i THEN s[j] ELSE s[j + 1]
  <2>1. j \in 1 .. Len(front) + Len(back)
    BY <1>0, <1>1, <1>2
  <2>2. RemoveAt(s, i)[j] = IF j <= Len(front) THEN front[j] ELSE back[j - Len(front)]
    BY <1>1, <1>2, <1>3, <2>1
  <2>3. CASE j < i
    BY <1>0, <1>1, <2>2, <2>3
  <2>4. CASE ~(j < i)
    <3>1. j - Len(front) \in 1 .. Len(s) - i /\ ~(j <= Len(front)) /\ i + (j - Len(front)) = j + 1
      BY <1>0, <1>1, <2>4
    <3> QED
      BY <1>2, <2>2, <2>4, <3>1
  <2> QED
    BY <2>3, <2>4
<1> QED
  BY <1>4, <1>5

(* A record whose contents were changed is the only break, and it breaks     *)
(* its own hash.                                                             *)
LEMMA ChangeIsFound ==
  ASSUME LogInv, NEW i \in DOMAIN log, NEW c \in Contents, c # log[i].content
  PROVE  verify_chain([log EXCEPT ![i].content = c]) = {<<i, "hash">>}
<1> DEFINE new == [log EXCEPT ![i].content = c]
<1>1. DOMAIN log = 1 .. Len(log) /\ Len(log) \in Nat
  BY IntactChain
<1>2. \A j \in DOMAIN log : /\ IsRecord(log[j])
                            /\ log[j].sequence = j /\ log[j].record_hash = Recomputed(log[j])
                            /\ log[j].prev_hash = IF j = 1 THEN GENESIS_HASH ELSE log[j - 1].record_hash
  BY <1>1 DEF LogInv, Linked, TailHash
<1>3. /\ DOMAIN new = DOMAIN log /\ new[i] = [log[i] EXCEPT !.content = c]
      /\ \A j \in DOMAIN log : j # i => new[j] = log[j]
  OBVIOUS
<1>4. /\ new[i].sequence = i /\ new[i].content = c /\ new[i].at = log[i].at
      /\ new[i].prev_hash = log[i].prev_hash /\ new[i].record_hash = log[i].record_hash
  BY <1>2, <1>3 DEF IsRecord
<1> HIDE DEF new
<1>5. \A j \in DOMAIN log : /\ new[j].sequence = j /\ new[j].prev_hash = log[j].prev_hash
                            /\ new[j].record_hash = log[j].record_hash
  BY <1>2, <1>3, <1>4
<1>6. \A j \in DOMAIN log \ {1} : j - 1 \in DOMAIN log
  BY <1>1
<1>7. {j \in DOMAIN new : new[j].prev_hash # (IF j = 1 THEN GENESIS_HASH ELSE new[j - 1].record_hash)} = {}
  BY <1>2, <1>3, <1>5, <1>6
<1>8. {j \in DOMAIN new \ {1} : new[j].sequence # new[j - 1].sequence + 1} = {}
  BY <1>1, <1>3, <1>5, <1>6
<1>9. new[i].record_hash # Recomputed(new[i])
  BY <1>2, <1>4 DEF Recomputed, compute_hash, canonical_bytes
<1>10. {j \in DOMAIN new : new[j].record_hash # Recomputed(new[j])} = {i}
  <2>1. \A j \in DOMAIN log : j # i => new[j].record_hash = Recomputed(new[j])
    BY <1>2, <1>3
  <2> QED
    BY <1>3, <1>9, <2>1
<1>11. verify_chain(new) = {<<i, "hash">>}
  BY <1>7, <1>8, <1>10 DEF verify_chain
<1> QED
  BY <1>11 DEF new

(* A record that is missing before the last one is a break where it was, and *)
(* there is no other.                                                        *)
LEMMA GapIsFound ==
  ASSUME LogInv, NEW i \in DOMAIN log, i < Len(log)
  PROVE  {b[1] : b \in verify_chain(RemoveAt(log, i))} = {i}
<1>1. DOMAIN log = 1 .. Len(log) /\ Len(log) \in Nat /\ i \in Nat /\ i >= 1
  BY IntactChain
<1>2. \A j \in DOMAIN log : /\ log[j].sequence = j /\ log[j].record_hash = Recomputed(log[j])
                            /\ log[j].prev_hash = IF j = 1 THEN GENESIS_HASH ELSE log[j - 1].record_hash
  BY <1>1 DEF LogInv, Linked, TailHash
<1> DEFINE new == RemoveAt(log, i)
           m == Len(log) - 1
<1>3. DOMAIN new = 1 .. m /\ \A j \in 1 .. m : new[j] = IF j < i THEN log[j] ELSE log[j + 1]
  <2>1. PICK S : log \in Seq(S)
    BY DEF LogInv
  <2>2. /\ new \in Seq(S) /\ Len(new) = m
        /\ \A j \in 1 .. m : new[j] = IF j < i THEN log[j] ELSE log[j + 1]
    BY <1>1, <2>1, RemoveAtElements
  <2> HIDE DEF new
  <2> QED BY <2>2
<1>4. m \in Nat /\ i \in 1 .. m
  BY <1>1
<1> HIDE DEF new
<1>5. \A j \in 1 .. m : j \in DOMAIN log /\ j + 1 \in DOMAIN log /\ (j # 1 => j - 1 \in 1 .. m)
  BY <1>1
<1>6. \A j \in 1 .. m : new[j].record_hash = Recomputed(new[j])
  BY <1>2, <1>3, <1>5
<1>7. \A j \in 1 .. m : j # 1 /\ j # i => /\ new[j].prev_hash = new[j - 1].record_hash
                                         /\ new[j].sequence = new[j - 1].sequence + 1
  <2> SUFFICES ASSUME NEW j \in 1 .. m, j # 1, j # i
               PROVE  /\ new[j].prev_hash = new[j - 1].record_hash
                      /\ new[j].sequence = new[j - 1].sequence + 1
    OBVIOUS
  <2>1. CASE j < i
    <3>1. new[j] = log[j] /\ new[j - 1] = log[j - 1] /\ j - 1 \in DOMAIN log
      BY <1>1, <1>3, <1>4, <1>5, <2>1
    <3> QED
      BY <1>2, <1>4, <1>5, <3>1
  <2>2. CASE ~(j < i)
    <3>1. new[j] = log[j + 1] /\ new[j - 1] = log[j] /\ j + 1 # 1 /\ (j + 1) - 1 = j
      BY <1>1, <1>3, <1>4, <1>5, <2>2
    <3>2. j \in DOMAIN log /\ j + 1 \in DOMAIN log
      BY <1>5
    <3>3. log[j + 1].prev_hash = log[j].record_hash
      BY <1>2, <3>1, <3>2
    <3>4. log[j + 1].sequence = j + 1 /\ log[j].sequence = j
      BY <1>2, <3>2
    <3> QED
      BY <3>1, <3>3, <3>4
  <2> QED
    BY <2>1, <2>2
<1>8. i # 1 => new[1].prev_hash = GENESIS_HASH
  <2>1. i # 1 => 1 \in 1 .. m /\ 1 < i /\ 1 \in DOMAIN log
    BY <1>1, <1>4
  <2> QED
    BY <1>2, <1>3, <2>1
<1>9. new[i] = log[i + 1] /\ i + 1 \in DOMAIN log
  BY <1>1, <1>3, <1>4, <1>5
<1>10. i = 1 => new[i].prev_hash # GENESIS_HASH
  <2> SUFFICES ASSUME i = 1 PROVE new[i].prev_hash # GENESIS_HASH
    OBVIOUS
  <2>1. new[i].prev_hash = log[i].record_hash
    BY <1>1, <1>2, <1>9
  <2>2. log[i].record_hash = Recomputed(log[i])
    BY <1>2
  <2>3. Recomputed(log[i]) # GENESIS_HASH
    BY DEF Recomputed, compute_hash, GENESIS_HASH
  <2> QED
    BY <2>1, <2>2, <2>3
<1>11. i # 1 => new[i].sequence # new[i - 1].sequence + 1
  <2> SUFFICES ASSUME i # 1 PROVE new[i].sequence # new[i - 1].sequence + 1
    OBVIOUS
  <2>1. i - 1 \in 1 .. m /\ i - 1 < i /\ i - 1 \in DOMAIN log
    BY <1>1, <1>4
  <2>2. new[i].sequence = i + 1 /\ new[i - 1].sequence = i - 1
    BY <1>2, <1>3, <1>9, <2>1
  <2> QED
    BY <1>1, <2>2
<1> DEFINE P == {j \in DOMAIN new : new[j].prev_hash # (IF j = 1 THEN GENESIS_HASH ELSE new[j - 1].record_hash)}
           H == {j \in DOMAIN new : new[j].record_hash # Recomputed(new[j])}
           Q == {j \in DOMAIN new \ {1} : new[j].sequence # new[j - 1].sequence + 1}
<1>12. P \subseteq {i} /\ Q \subseteq {i} /\ H = {}
  BY <1>3, <1>6, <1>7, <1>8
<1>13. i \in P \/ i \in Q
  BY <1>3, <1>4, <1>10, <1>11
<1>14. verify_chain(new) = {<<j, "prev">> : j \in P} \cup {<<j, "hash">> : j \in H} \cup {<<j, "sequence">> : j \in Q}
  BY DEF verify_chain
<1> HIDE DEF P, H, Q
<1>15. \A b \in verify_chain(new) : b[1] = i
  BY <1>12, <1>14
<1>16. \E b \in verify_chain(new) : TRUE
  BY <1>13, <1>14
<1>17. {b[1] : b \in verify_chain(new)} = {i}
  BY <1>15, <1>16
<1> QED
  BY <1>17 DEF new

(* The log is evidence: for any number of appends at the same time, with or  *)
(* without the advisory lock, the chain verifies, and a change or a gap is   *)
(* found where it was made.                                                  *)
THEOREM AuditStaysSound == AuditSpec => []AuditIsSound
<1>1. AuditInv => AuditIsSound
  <2> SUFFICES ASSUME AuditInv PROVE AuditIsSound
    OBVIOUS
  <2>1. AuditTypeOK
    BY IntactChain DEF AuditInv, LogInv, AppendInv, Linked, AuditTypeOK
  <2>2. BlameIsPrecise
    BY ChangeIsFound, GapIsFound DEF AuditInv, BlameIsPrecise
  <2> QED
    BY <2>1, <2>2, ChainAlwaysVerifies DEF AuditInv, AuditIsSound
<1> QED
  BY <1>1, AuditInvariant, PTL

(***************************************************************************)
(* worker-kit: OneHolder and OutboxTellsTheTruth for any number of         *)
(* dispatchers, any queue, batch size, attempt cap and number of deaths, as*)
(* long as the lease outlasts the handler (~SlowHandlers).                 *)
(***************************************************************************)
(* A handler works under a live claim, on a row that is neither processed    *)
(* nor parked, with the attempts the claim returned.                         *)
HeldWhileWorking ==
  \A d \in Dispatchers, m \in Commands : job[d][m] # NoJob =>
    /\ job[d][m].stage # "none"
    /\ out[m].claim = "held"
    /\ out[m].processed = FALSE /\ out[m].parked = FALSE
    /\ job[d][m].attempts = out[m].attempts

Alone ==
  \A m \in Commands : \A d, e \in Dispatchers :
    job[d][m] # NoJob /\ job[e][m] # NoJob => d = e

(* An unparked row has an attempt left, and one that is deferred after a     *)
(* counted attempt has another.                                              *)
AttemptsLeft ==
  /\ \A m \in Commands : out[m].parked = FALSE => out[m].attempts < MAX_ATTEMPTS
  /\ \A d \in Dispatchers, m \in Commands :
       job[d][m].stage = "deferring" => job[d][m].attempts + 1 < MAX_ATTEMPTS

(* A loop claims again only when its gather has returned.                    *)
GatherFirst ==
  \A d \in Dispatchers : loop[d].at # "gather" => \A m \in Commands : job[d][m] = NoJob

NeverBoth == \A m \in Commands : out[m].processed = FALSE \/ out[m].parked = FALSE

Trying == {"handle", "retry", "park", "shed"}

(* Without a death, a record in processed_events belongs to a command that   *)
(* is done or is being tried.                                                *)
RecordsAreTrue ==
  deaths = 0 => \A m \in Commands :
    /\ out[m].processed = TRUE => m \in done
    /\ \A d \in Dispatchers : job[d][m].stage = "settle" => m \in done
    /\ m \in recorded => m \in done \/ \E d \in Dispatchers : job[d][m].stage \in Trying

DispatchInv ==
  /\ DispatchTypeOK
  /\ HeldWhileWorking /\ Alone /\ AttemptsLeft /\ GatherFirst /\ NeverBoth
  /\ RecordsAreTrue

OutType == [processed : BOOLEAN, parked : BOOLEAN, attempts : 0..MAX_ATTEMPTS,
            wait : 0..MaxWait, claim : {"none", "held", "expired"}]
JobType == [stage : Stages, attempts : 0..MAX_ATTEMPTS]
LoopType == [at : {"claim", "gather", "sleep"}, settled : BOOLEAN]

LEMMA Types ==
  DispatchTypeOK <=>
    /\ out \in [Commands -> OutType] /\ recorded \subseteq Commands
    /\ job \in [Dispatchers -> [Commands -> JobType]]
    /\ loop \in [Dispatchers -> LoopType]
    /\ done \subseteq Commands /\ deaths \in 0..MaxDeaths
BY DEF DispatchTypeOK, OutType, JobType, LoopType

-----------------------------------------------------------------------------
LEMMA InitHolds == DispatchInit => DispatchInv
<1> SUFFICES ASSUME DispatchInit PROVE DispatchInv
  OBVIOUS
<1>1. /\ out = [m \in Commands |-> Fresh] /\ recorded = {}
      /\ job = [d \in Dispatchers |-> [m \in Commands |-> NoJob]]
      /\ loop = [d \in Dispatchers |-> [at |-> "claim", settled |-> FALSE]]
      /\ done = {} /\ deaths = 0
  BY DEF DispatchInit
<1>2. Fresh \in OutType /\ NoJob \in JobType /\ [at |-> "claim", settled |-> FALSE] \in LoopType
  BY DispatcherConstants DEF Fresh, NoJob, OutType, JobType, LoopType, Stages
<1>3. /\ Fresh.processed = FALSE /\ Fresh.parked = FALSE /\ Fresh.attempts = 0
      /\ NoJob.stage = "none"
  BY DEF Fresh, NoJob
<1>4. DispatchTypeOK
  <2>1. deaths \in 0..MaxDeaths
    BY <1>1, DispatcherConstants
  <2>2. /\ out \in [Commands -> OutType] /\ recorded \subseteq Commands
        /\ job \in [Dispatchers -> [Commands -> JobType]]
        /\ loop \in [Dispatchers -> LoopType] /\ done \subseteq Commands
    BY <1>1, <1>2
  <2> QED BY <2>1, <2>2, Types
<1>5. HeldWhileWorking /\ Alone /\ GatherFirst
  BY <1>1 DEF HeldWhileWorking, Alone, GatherFirst
<1>6. AttemptsLeft
  BY <1>1, <1>3, DispatcherConstants DEF AttemptsLeft
<1>7. NeverBoth
  BY <1>1, <1>3 DEF NeverBoth
<1>8. RecordsAreTrue
  BY <1>1, <1>3 DEF RecordsAreTrue
<1> QED BY <1>4, <1>5, <1>6, <1>7, <1>8 DEF DispatchInv

-----------------------------------------------------------------------------
(* A handler that goes on to another stage. *)
LEMMA StageKeeps ==
  ASSUME DispatchInv, NEW d \in Dispatchers, NEW m \in Commands, NEW stage \in Stages \ {"none"},
         job[d][m] # NoJob, Becomes(d, m, stage), out' = out, loop' = loop,
         stage = "deferring" => job[d][m].attempts + 1 < MAX_ATTEMPTS
  PROVE  /\ job' \in [Dispatchers -> [Commands -> JobType]]
         /\ HeldWhileWorking' /\ Alone' /\ AttemptsLeft' /\ GatherFirst' /\ NeverBoth'
         /\ job'[d][m].stage = stage
         /\ \A e \in Dispatchers, n \in Commands : <<e, n>> # <<d, m>> => job'[e][n] = job[e][n]
<1>1. job \in [Dispatchers -> [Commands -> JobType]] /\ job[d][m] \in JobType
  BY Types DEF DispatchInv
<1>2. job'[d][m] = [job[d][m] EXCEPT !.stage = stage]
  BY <1>1 DEF Becomes
<1>3. /\ job'[d][m] \in JobType /\ job'[d][m].stage = stage
      /\ job'[d][m].attempts = job[d][m].attempts
  BY <1>1, <1>2 DEF JobType
<1>4. job' \in [Dispatchers -> [Commands -> JobType]]
  BY <1>1, <1>2, <1>3 DEF Becomes
<1>5. \A e \in Dispatchers, n \in Commands : <<e, n>> # <<d, m>> => job'[e][n] = job[e][n]
  BY <1>1 DEF Becomes
<1>6. \A e \in Dispatchers, n \in Commands : job'[e][n] # NoJob => job[e][n] # NoJob
  BY <1>5
<1>7. HeldWhileWorking'
  <2> SUFFICES ASSUME NEW e \in Dispatchers, NEW n \in Commands, job'[e][n] # NoJob
               PROVE  /\ job'[e][n].stage # "none"
                      /\ out[n].claim = "held"
                      /\ out[n].processed = FALSE /\ out[n].parked = FALSE
                      /\ job'[e][n].attempts = out[n].attempts
    BY DEF HeldWhileWorking
  <2>1. CASE <<e, n>> = <<d, m>>
    BY <1>3, <2>1 DEF DispatchInv, HeldWhileWorking
  <2>2. CASE <<e, n>> # <<d, m>>
    BY <1>5, <2>2 DEF DispatchInv, HeldWhileWorking
  <2> QED BY <2>1, <2>2
<1>8. Alone'
  BY <1>6 DEF DispatchInv, Alone
<1>9. AttemptsLeft'
  BY <1>3, <1>5 DEF DispatchInv, AttemptsLeft
<1>10. GatherFirst'
  BY <1>6 DEF DispatchInv, GatherFirst
<1>11. NeverBoth'
  BY DEF DispatchInv, NeverBoth
<1> QED BY <1>3, <1>4, <1>5, <1>7, <1>8, <1>9, <1>10, <1>11

(* A handler that is finished with its row.                                  *)
LEMMA FinishKeeps ==
  ASSUME DispatchInv, NEW d \in Dispatchers, NEW m \in Commands, NEW settled \in BOOLEAN,
         job[d][m] # NoJob, Finish(d, m, settled),
         \A n \in Commands \ {m} : out'[n] = out[n],
         out'[m].parked = FALSE => out'[m].attempts < MAX_ATTEMPTS,
         out'[m].processed = FALSE \/ out'[m].parked = FALSE
  PROVE  /\ job' \in [Dispatchers -> [Commands -> JobType]]
         /\ loop' \in [Dispatchers -> LoopType]
         /\ HeldWhileWorking' /\ Alone' /\ AttemptsLeft' /\ GatherFirst' /\ NeverBoth'
         /\ \A e \in Dispatchers : job'[e][m] = NoJob
         /\ \A e \in Dispatchers, n \in Commands \ {m} : job'[e][n] = job[e][n]
<1>1. /\ job \in [Dispatchers -> [Commands -> JobType]] /\ loop \in [Dispatchers -> LoopType]
      /\ job' = [job EXCEPT ![d][m] = NoJob]
      /\ loop' = [loop EXCEPT ![d].settled = @ \/ settled]
  BY Types DEF DispatchInv, Finish
<1>2. NoJob \in JobType /\ NoJob.stage = "none"
  BY DispatcherConstants DEF NoJob, JobType, Stages
<1>3. job' \in [Dispatchers -> [Commands -> JobType]]
  BY <1>1, <1>2
<1>4. loop' \in [Dispatchers -> LoopType] /\ \A e \in Dispatchers : loop'[e].at = loop[e].at
  <2>1. loop[d] \in LoopType
    BY <1>1
  <2>2. (loop[d].settled \/ settled) \in BOOLEAN
    OBVIOUS
  <2>3. /\ [loop[d] EXCEPT !.settled = @ \/ settled] \in LoopType
        /\ [loop[d] EXCEPT !.settled = @ \/ settled].at = loop[d].at
    BY <2>1, <2>2 DEF LoopType
  <2> QED BY <1>1, <2>3
<1>5. /\ \A e \in Dispatchers : job'[e][m] = NoJob
      /\ \A e \in Dispatchers, n \in Commands \ {m} : job'[e][n] = job[e][n]
  <2>1. \A e \in Dispatchers \ {d} : job[e][m] = NoJob
    BY DEF DispatchInv, Alone
  <2> QED BY <1>1, <2>1
<1>6. HeldWhileWorking'
  BY <1>5 DEF DispatchInv, HeldWhileWorking
<1>7. Alone'
  BY <1>5 DEF DispatchInv, Alone
<1>8. AttemptsLeft'
  BY <1>2, <1>5 DEF DispatchInv, AttemptsLeft
<1>9. GatherFirst'
  BY <1>4, <1>5 DEF DispatchInv, GatherFirst
<1>10. NeverBoth'
  BY DEF DispatchInv, NeverBoth
<1> QED BY <1>3, <1>4, <1>5, <1>6, <1>7, <1>8, <1>9, <1>10

(* The stages of a handler are stages of a job.                              *)
LEMMA WorkingStage ==
  ASSUME NEW d, NEW m, job[d][m].stage # "none"
  PROVE  job[d][m] # NoJob
BY DEF NoJob

LEMMA RecordKeeps ==
  ASSUME DispatchInv, NEW d \in Dispatchers, NEW m \in Commands, record_processed_event(d, m)
  PROVE  DispatchInv'
<1> DEFINE stage == IF m \in recorded THEN "settle" ELSE "handle"
<1>1. /\ job[d][m].stage = "claimed" /\ recorded' = recorded \cup {m} /\ Becomes(d, m, stage)
      /\ out' = out /\ loop' = loop /\ done' = done /\ deaths' = deaths
  BY DEF record_processed_event
<1>2. job[d][m] # NoJob /\ stage \in Stages \ {"none"} /\ stage # "deferring"
  BY <1>1, WorkingStage DEF Stages
<1>3. /\ job' \in [Dispatchers -> [Commands -> JobType]]
      /\ HeldWhileWorking' /\ Alone' /\ AttemptsLeft' /\ GatherFirst' /\ NeverBoth'
      /\ job'[d][m].stage = stage
      /\ \A e \in Dispatchers, n \in Commands : <<e, n>> # <<d, m>> => job'[e][n] = job[e][n]
  <2> HIDE DEF stage
  <2> QED BY <1>1, <1>2, StageKeeps
<1>4. DispatchTypeOK'
  BY <1>1, <1>3, Types DEF DispatchInv, DispatchTypeOK, JobType
<1>5. \A e \in Dispatchers : job[e][m].stage \notin Trying
  <2> SUFFICES ASSUME NEW e \in Dispatchers, job[e][m].stage \in Trying PROVE FALSE
    OBVIOUS
  <2>1. job[e][m] # NoJob
    BY WorkingStage DEF Trying
  <2>2. e = d
    BY <1>2, <2>1 DEF DispatchInv, Alone
  <2> QED BY <1>1, <2>2 DEF Trying
<1>6. RecordsAreTrue'
  <2> SUFFICES ASSUME deaths = 0, NEW n \in Commands
               PROVE  /\ out[n].processed = TRUE => n \in done
                      /\ \A e \in Dispatchers : job'[e][n].stage = "settle" => n \in done
                      /\ n \in recorded' => n \in done \/ \E e \in Dispatchers : job'[e][n].stage \in Trying
    BY <1>1 DEF RecordsAreTrue
  <2>1. /\ out[n].processed = TRUE => n \in done
        /\ \A e \in Dispatchers : job[e][n].stage = "settle" => n \in done
        /\ n \in recorded => n \in done \/ \E e \in Dispatchers : job[e][n].stage \in Trying
    BY DEF DispatchInv, RecordsAreTrue
  <2>2. CASE n # m
    BY <1>1, <1>3, <2>1, <2>2
  <2>3. CASE n = m /\ m \in recorded
    BY <1>5, <2>1, <2>3
  <2>4. CASE n = m /\ m \notin recorded
    <3>1. job'[d][m].stage = "handle"
      BY <1>3, <2>4
    <3>2. \A e \in Dispatchers : job'[e][n].stage = "settle" => job[e][n].stage = "settle"
      BY <1>3, <2>4, <3>1
    <3> QED BY <2>1, <2>4, <3>1, <3>2 DEF Trying
  <2> QED BY <2>2, <2>3, <2>4
<1> QED BY <1>3, <1>4, <1>6 DEF DispatchInv

LEMMA HandleKeeps ==
  ASSUME DispatchInv, NEW d \in Dispatchers, NEW m \in Commands, NEW answer \in Answers,
         handle(d, m, answer)
  PROVE  DispatchInv'
<1> DEFINE stage == CASE answer = "ok" -> "settle"
                      [] answer \in {"lost", "error"} -> "retry"
                      [] answer = "refused" -> "park"
                      [] answer = "shed" -> "shed"
<1>1. /\ job[d][m].stage = "handle" /\ Becomes(d, m, stage)
      /\ done' = IF answer \in {"ok", "lost"} THEN done \cup {m} ELSE done
      /\ out' = out /\ loop' = loop /\ recorded' = recorded /\ deaths' = deaths
  BY DEF handle
<1>2. /\ job[d][m] # NoJob /\ stage \in Stages \ {"none"} /\ stage # "deferring"
      /\ stage \in Trying \cup {"settle"}
      /\ stage = "settle" => m \in done'
  BY <1>1, WorkingStage DEF Stages, Answers, Trying
<1> HIDE DEF stage
<1>3. /\ job' \in [Dispatchers -> [Commands -> JobType]]
      /\ HeldWhileWorking' /\ Alone' /\ AttemptsLeft' /\ GatherFirst' /\ NeverBoth'
      /\ job'[d][m].stage = stage
      /\ \A e \in Dispatchers, n \in Commands : <<e, n>> # <<d, m>> => job'[e][n] = job[e][n]
  BY <1>1, <1>2, StageKeeps
<1>4. DispatchTypeOK'
  BY <1>1, <1>3, Types DEF DispatchInv, DispatchTypeOK, JobType
<1>5. RecordsAreTrue'
  <2> SUFFICES ASSUME deaths = 0, NEW n \in Commands
               PROVE  /\ out[n].processed = TRUE => n \in done'
                      /\ \A e \in Dispatchers : job'[e][n].stage = "settle" => n \in done'
                      /\ n \in recorded => n \in done' \/ \E e \in Dispatchers : job'[e][n].stage \in Trying
    BY <1>1 DEF RecordsAreTrue
  <2>1. /\ out[n].processed = TRUE => n \in done
        /\ \A e \in Dispatchers : job[e][n].stage = "settle" => n \in done
        /\ n \in recorded => n \in done \/ \E e \in Dispatchers : job[e][n].stage \in Trying
    BY DEF DispatchInv, RecordsAreTrue
  <2>2. done \subseteq done'
    BY <1>1
  <2>3. CASE n # m
    BY <1>3, <2>1, <2>2, <2>3
  <2>4. CASE n = m
    <3>1. ASSUME NEW e \in Dispatchers, job'[e][n].stage = "settle" PROVE n \in done'
      <4>1. CASE e = d
        BY <1>2, <1>3, <2>4, <3>1, <4>1
      <4>2. CASE e # d
        BY <1>3, <2>1, <2>2, <3>1, <4>2
      <4> QED BY <4>1, <4>2
    <3>2. n \in done' \/ \E e \in Dispatchers : job'[e][n].stage \in Trying
      BY <1>2, <1>3, <2>4
    <3> QED BY <2>1, <2>2, <3>1, <3>2
  <2> QED BY <2>3, <2>4
<1> QED BY <1>3, <1>4, <1>5 DEF DispatchInv

LEMMA ForgetKeeps ==
  ASSUME DispatchInv, NEW d \in Dispatchers, NEW m \in Commands, forget_processed_event(d, m)
  PROVE  DispatchInv'
<1> DEFINE was == job[d][m].stage
           attempts == job[d][m].attempts + (IF was = "shed" THEN 0 ELSE 1)
           disposition == disposition_after(IF was = "park" THEN "park" ELSE "retry", attempts)
           stage == IF disposition = "park" THEN "parking"
                    ELSE IF was = "shed" THEN "deferring shed" ELSE "deferring"
<1>1. /\ was \in {"retry", "park", "shed"} /\ recorded' = recorded \ {m} /\ Becomes(d, m, stage)
      /\ out' = out /\ loop' = loop /\ done' = done /\ deaths' = deaths
  BY DEF forget_processed_event, Becomes
<1>2. job[d][m] # NoJob /\ stage \in Stages \ {"none"} /\ stage \notin Trying \cup {"settle"}
  BY <1>1, WorkingStage DEF Stages, Trying
<1>3. stage = "deferring" => job[d][m].attempts + 1 < MAX_ATTEMPTS
  <2>1. job[d][m].attempts \in Int
    BY Types DEF DispatchInv, JobType
  <2> SUFFICES ASSUME stage = "deferring" PROVE job[d][m].attempts + 1 < MAX_ATTEMPTS
    OBVIOUS
  <2>2. disposition # "park" /\ was # "shed"
    OBVIOUS
  <2>3. was = "retry"
    BY <1>1, <2>2 DEF disposition_after
  <2>4. ~(job[d][m].attempts + 1 >= MAX_ATTEMPTS)
    BY <2>2, <2>3 DEF disposition_after
  <2> QED BY <2>1, <2>4, DispatcherConstants
<1> HIDE DEF stage
<1>4. /\ job' \in [Dispatchers -> [Commands -> JobType]]
      /\ HeldWhileWorking' /\ Alone' /\ AttemptsLeft' /\ GatherFirst' /\ NeverBoth'
      /\ job'[d][m].stage = stage
      /\ \A e \in Dispatchers, n \in Commands : <<e, n>> # <<d, m>> => job'[e][n] = job[e][n]
  BY <1>1, <1>2, <1>3, StageKeeps
<1>5. DispatchTypeOK'
  BY <1>1, <1>4, Types DEF DispatchInv, DispatchTypeOK, JobType
<1>6. RecordsAreTrue'
  <2> SUFFICES ASSUME deaths = 0, NEW n \in Commands
               PROVE  /\ out[n].processed = TRUE => n \in done
                      /\ \A e \in Dispatchers : job'[e][n].stage = "settle" => n \in done
                      /\ n \in recorded' => n \in done \/ \E e \in Dispatchers : job'[e][n].stage \in Trying
    BY <1>1 DEF RecordsAreTrue
  <2>1. /\ out[n].processed = TRUE => n \in done
        /\ \A e \in Dispatchers : job[e][n].stage = "settle" => n \in done
        /\ n \in recorded => n \in done \/ \E e \in Dispatchers : job[e][n].stage \in Trying
    BY DEF DispatchInv, RecordsAreTrue
  <2>2. CASE n # m
    BY <1>1, <1>4, <2>1, <2>2
  <2>3. CASE n = m
    BY <1>1, <1>2, <1>4, <2>1, <2>3
  <2> QED BY <2>2, <2>3
<1> QED BY <1>4, <1>5, <1>6 DEF DispatchInv

(* Without a death, a row whose handler finished is recorded only if done.   *)
LEMMA FinishedRecords ==
  ASSUME DispatchInv, NEW m \in Commands, deaths' = 0 => deaths = 0,
         recorded' = recorded, done' = done,
         deaths' = 0 => (m \in recorded => m \in done),
         \A e \in Dispatchers : job'[e][m] = NoJob,
         \A e \in Dispatchers, n \in Commands \ {m} : job'[e][n] = job[e][n],
         \A n \in Commands \ {m} : out'[n] = out[n],
         deaths' = 0 /\ out'[m].processed = TRUE => m \in done
  PROVE  RecordsAreTrue'
<1> SUFFICES ASSUME deaths' = 0, NEW n \in Commands
             PROVE  /\ out'[n].processed = TRUE => n \in done
                    /\ \A e \in Dispatchers : job'[e][n].stage = "settle" => n \in done
                    /\ n \in recorded => n \in done \/ \E e \in Dispatchers : job'[e][n].stage \in Trying
  BY DEF RecordsAreTrue
<1>1. /\ out[n].processed = TRUE => n \in done
      /\ \A e \in Dispatchers : job[e][n].stage = "settle" => n \in done
      /\ n \in recorded => n \in done \/ \E e \in Dispatchers : job[e][n].stage \in Trying
  BY DEF DispatchInv, RecordsAreTrue
<1>2. NoJob.stage # "settle"
  BY DEF NoJob
<1>3. CASE n # m
  BY <1>1, <1>3
<1>4. CASE n = m
  BY <1>2, <1>4
<1> QED BY <1>3, <1>4

(* A recorded row whose handler tries nothing any more is done.              *)
LEMMA NotTrying ==
  ASSUME DispatchInv, deaths = 0, NEW d \in Dispatchers, NEW m \in Commands,
         job[d][m] # NoJob, job[d][m].stage \notin Trying, m \in recorded
  PROVE  m \in done
<1> SUFFICES ASSUME NEW e \in Dispatchers, job[e][m].stage \in Trying PROVE FALSE
  BY DEF DispatchInv, RecordsAreTrue
<1>1. job[e][m] # NoJob
  BY WorkingStage DEF Trying
<1> QED BY <1>1 DEF DispatchInv, Alone

LEMMA MarkKeeps ==
  ASSUME DispatchInv, NEW d \in Dispatchers, NEW m \in Commands, mark_processed(d, m)
  PROVE  DispatchInv'
<1>1. /\ job[d][m].stage = "settle" /\ out' = [out EXCEPT ![m].processed = TRUE]
      /\ Finish(d, m, TRUE) /\ recorded' = recorded /\ done' = done /\ deaths' = deaths
  BY DEF mark_processed
<1>2. out \in [Commands -> OutType] /\ out[m] \in OutType /\ job[d][m] # NoJob
  BY <1>1, Types, WorkingStage DEF DispatchInv
<1>3. /\ out' \in [Commands -> OutType]
      /\ \A n \in Commands \ {m} : out'[n] = out[n]
      /\ out'[m].parked = out[m].parked /\ out'[m].attempts = out[m].attempts
  BY <1>1, <1>2 DEF OutType
<1>4. out[m].parked = FALSE /\ out[m].attempts < MAX_ATTEMPTS
  BY <1>2 DEF DispatchInv, HeldWhileWorking, AttemptsLeft
<1>5. /\ job' \in [Dispatchers -> [Commands -> JobType]] /\ loop' \in [Dispatchers -> LoopType]
      /\ HeldWhileWorking' /\ Alone' /\ AttemptsLeft' /\ GatherFirst' /\ NeverBoth'
      /\ \A e \in Dispatchers : job'[e][m] = NoJob
      /\ \A e \in Dispatchers, n \in Commands \ {m} : job'[e][n] = job[e][n]
  <2>1. /\ TRUE \in BOOLEAN
        /\ out'[m].parked = FALSE => out'[m].attempts < MAX_ATTEMPTS
        /\ out'[m].processed = FALSE \/ out'[m].parked = FALSE
    BY <1>3, <1>4
  <2> QED BY <1>1, <1>2, <1>3, <2>1, FinishKeeps, ZenonT(60)
<1>6. DispatchTypeOK'
  BY <1>1, <1>3, <1>5 DEF DispatchInv, DispatchTypeOK, OutType, JobType, LoopType
<1>7. deaths = 0 => m \in done
  BY <1>1 DEF DispatchInv, RecordsAreTrue
<1>8. RecordsAreTrue'
  BY <1>1, <1>3, <1>5, <1>7, FinishedRecords
<1> QED BY <1>5, <1>6, <1>8 DEF DispatchInv

LEMMA ParkKeeps ==
  ASSUME DispatchInv, NEW d \in Dispatchers, NEW m \in Commands, park_claim(d, m)
  PROVE  DispatchInv'
<1>1. /\ job[d][m].stage = "parking"
      /\ out' = [out EXCEPT ![m].claim = "none", ![m].parked = TRUE, ![m].attempts = @ + 1]
      /\ Finish(d, m, TRUE) /\ recorded' = recorded /\ done' = done /\ deaths' = deaths
  BY DEF park_claim
<1>2. out \in [Commands -> OutType] /\ out[m] \in OutType /\ job[d][m] # NoJob
  BY <1>1, Types, WorkingStage DEF DispatchInv
<1>3. out[m].processed = FALSE /\ out[m].parked = FALSE /\ out[m].attempts < MAX_ATTEMPTS
  BY <1>2 DEF DispatchInv, HeldWhileWorking, AttemptsLeft
<1>4. out[m].attempts + 1 \in 0..MAX_ATTEMPTS
  BY <1>2, <1>3, DispatcherConstants DEF OutType
<1>5. /\ out' \in [Commands -> OutType]
      /\ \A n \in Commands \ {m} : out'[n] = out[n]
      /\ out'[m].parked = TRUE /\ out'[m].processed = out[m].processed
  BY <1>1, <1>2, <1>4 DEF OutType
<1>6. /\ job' \in [Dispatchers -> [Commands -> JobType]] /\ loop' \in [Dispatchers -> LoopType]
      /\ HeldWhileWorking' /\ Alone' /\ AttemptsLeft' /\ GatherFirst' /\ NeverBoth'
      /\ \A e \in Dispatchers : job'[e][m] = NoJob
      /\ \A e \in Dispatchers, n \in Commands \ {m} : job'[e][n] = job[e][n]
  <2>1. /\ TRUE \in BOOLEAN
        /\ out'[m].parked = FALSE => out'[m].attempts < MAX_ATTEMPTS
        /\ out'[m].processed = FALSE \/ out'[m].parked = FALSE
    BY <1>3, <1>5
  <2> QED BY <1>1, <1>2, <1>5, <2>1, FinishKeeps, ZenonT(60)
<1>7. DispatchTypeOK'
  BY <1>1, <1>5, <1>6 DEF DispatchInv, DispatchTypeOK, OutType, JobType, LoopType
<1>8. deaths = 0 /\ m \in recorded => m \in done
  BY <1>1, <1>2, NotTrying DEF Trying
<1>9. RecordsAreTrue'
  <2>1. out'[m].processed # TRUE
    BY <1>3, <1>5
  <2> QED BY <1>1, <1>5, <1>6, <1>8, <2>1, FinishedRecords
<1> QED BY <1>6, <1>7, <1>9 DEF DispatchInv

LEMMA DeathKeeps ==
  ASSUME DispatchInv, NEW d \in Dispatchers, NEW m \in Commands, Dies(d, m)
  PROVE  DispatchInv'
<1>1. /\ job[d][m] # NoJob /\ deaths < MaxDeaths /\ deaths' = deaths + 1
      /\ Finish(d, m, FALSE) /\ out' = out /\ recorded' = recorded /\ done' = done
  BY DEF Dies
<1>2. /\ job' \in [Dispatchers -> [Commands -> JobType]] /\ loop' \in [Dispatchers -> LoopType]
      /\ HeldWhileWorking' /\ Alone' /\ AttemptsLeft' /\ GatherFirst' /\ NeverBoth'
  <2>1. /\ FALSE \in BOOLEAN
        /\ out'[m].parked = FALSE => out'[m].attempts < MAX_ATTEMPTS
        /\ out'[m].processed = FALSE \/ out'[m].parked = FALSE
    BY <1>1 DEF DispatchInv, HeldWhileWorking, AttemptsLeft
  <2> QED BY <1>1, <2>1, FinishKeeps, ZenonT(60)
<1>3. deaths' \in 0..MaxDeaths /\ deaths' # 0
  BY <1>1, Types, DispatcherConstants DEF DispatchInv
<1>4. DispatchTypeOK'
  BY <1>1, <1>2, <1>3 DEF DispatchInv, DispatchTypeOK, JobType, LoopType
<1>5. RecordsAreTrue'
  BY <1>3 DEF RecordsAreTrue
<1> QED BY <1>2, <1>4, <1>5 DEF DispatchInv

(* The delay is at least one poll and at most RETRY_CAP_SECONDS.             *)
LEMMA BackoffBounds ==
  ASSUME NEW attempts \in Nat \ {0}, NEW wait \in backoff_seconds(attempts)
  PROVE  wait \in 0..MaxWait
<1> DEFINE delay == Min({2^(attempts - 1), MaxWait})
<1>1. 2^(attempts - 1) \in Int /\ MaxWait \in Int
  <2>1. \A n \in Nat : 2^n \in Int
    OBVIOUS
  <2> QED BY <2>1, DispatcherConstants
<1>2. \E x \in {2^(attempts - 1), MaxWait} : \A y \in {2^(attempts - 1), MaxWait} : x <= y
  BY <1>1
<1>3. delay \in Int /\ delay <= MaxWait
  BY <1>1, <1>2 DEF Min
<1>4. wait \in (delay \div 2 + 1)..delay
  BY DEF backoff_seconds
<1> HIDE DEF delay
<1>5. delay \div 2 \in Int /\ delay < 2 * (delay \div 2) + 2
  BY <1>3
<1>6. wait \in Int /\ delay \div 2 + 1 <= wait /\ wait <= delay
  BY <1>3, <1>4, <1>5
<1> QED BY <1>1, <1>3, <1>5, <1>6

LEMMA DeferKeeps ==
  ASSUME DispatchInv, NEW d \in Dispatchers, NEW m \in Commands, defer_claim(d, m)
  PROVE  DispatchInv'
<1> DEFINE count == IF job[d][m].stage = "deferring" THEN 1 ELSE 0
           tried == Max({1, job[d][m].attempts + count})
<1>1. PICK wait \in backoff_seconds(tried) :
        out' = [out EXCEPT ![m].claim = "none", ![m].wait = wait, ![m].attempts = @ + count]
  BY DEF defer_claim
<1>2. /\ job[d][m].stage \in {"deferring", "deferring shed"}
      /\ Finish(d, m, FALSE) /\ recorded' = recorded /\ done' = done /\ deaths' = deaths
  BY DEF defer_claim
<1>3. out \in [Commands -> OutType] /\ out[m] \in OutType /\ job[d][m] # NoJob /\ job[d][m] \in JobType
  BY <1>2, Types, WorkingStage DEF DispatchInv
<1>4. out[m].processed = FALSE /\ out[m].parked = FALSE /\ out[m].attempts < MAX_ATTEMPTS
  BY <1>3 DEF DispatchInv, HeldWhileWorking, AttemptsLeft
<1>5. job[d][m].attempts \in Int /\ job[d][m].attempts = out[m].attempts /\ out[m].attempts \in Nat
  <2>1. job[d][m].attempts = out[m].attempts
    BY <1>3 DEF DispatchInv, HeldWhileWorking
  <2>2. job[d][m].attempts \in Int /\ out[m].attempts \in Nat
    BY <1>3 DEF JobType, OutType
  <2> QED BY <2>1, <2>2
<1>6. count \in {0, 1} /\ out[m].attempts + count < MAX_ATTEMPTS
  <2>1. CASE job[d][m].stage = "deferring"
    BY <1>5, <2>1 DEF DispatchInv, AttemptsLeft
  <2>2. CASE job[d][m].stage # "deferring"
    <3>1. count = 0
      BY <2>2
    <3> HIDE DEF count
    <3> QED BY <1>4, <1>5, <3>1
  <2> QED BY <2>1, <2>2
<1> HIDE DEF count
<1>7. tried \in Nat \ {0}
  <2>1. job[d][m].attempts + count \in Int
    BY <1>5, <1>6
  <2>2. \E x \in {1, job[d][m].attempts + count} : \A y \in {1, job[d][m].attempts + count} : x >= y
    BY <2>1
  <2>3. tried \in {1, job[d][m].attempts + count} /\ tried >= 1
    BY <2>1, <2>2 DEF Max
  <2> HIDE DEF tried
  <2> QED BY <2>1, <2>3
<1> HIDE DEF tried
<1>8. wait \in 0..MaxWait /\ out[m].attempts + count \in 0..MAX_ATTEMPTS
  BY <1>5, <1>6, <1>7, BackoffBounds, DispatcherConstants
<1>9. /\ out' \in [Commands -> OutType]
      /\ \A n \in Commands \ {m} : out'[n] = out[n]
      /\ out'[m].parked = out[m].parked /\ out'[m].processed = out[m].processed
      /\ out'[m].attempts = out[m].attempts + count
  BY <1>1, <1>3, <1>8 DEF OutType
<1>10. /\ job' \in [Dispatchers -> [Commands -> JobType]] /\ loop' \in [Dispatchers -> LoopType]
       /\ HeldWhileWorking' /\ Alone' /\ AttemptsLeft' /\ GatherFirst' /\ NeverBoth'
       /\ \A e \in Dispatchers : job'[e][m] = NoJob
       /\ \A e \in Dispatchers, n \in Commands \ {m} : job'[e][n] = job[e][n]
  <2>1. /\ FALSE \in BOOLEAN
        /\ out'[m].parked = FALSE => out'[m].attempts < MAX_ATTEMPTS
        /\ out'[m].processed = FALSE \/ out'[m].parked = FALSE
    BY <1>4, <1>6, <1>9
  <2> QED BY <1>2, <1>3, <1>9, <2>1, FinishKeeps, ZenonT(60)
<1>11. DispatchTypeOK'
  BY <1>2, <1>9, <1>10 DEF DispatchInv, DispatchTypeOK, OutType, JobType, LoopType
<1>12. deaths = 0 /\ m \in recorded => m \in done
  BY <1>2, <1>3, NotTrying DEF Trying
<1>13. RecordsAreTrue'
  <2>1. out'[m].processed # TRUE
    BY <1>4, <1>9
  <2> QED BY <1>2, <1>9, <1>10, <1>12, <2>1, FinishedRecords
<1> QED BY <1>10, <1>11, <1>13 DEF DispatchInv

-----------------------------------------------------------------------------
(* The loop, the clock and the leases *)

LEMMA ClaimKeeps ==
  ASSUME DispatchInv, NEW d \in Dispatchers, claim_batch(d)
  PROVE  DispatchInv'
<1> DEFINE claimed(m) == [stage |-> "claimed", attempts |-> out[m].attempts]
           at == IF Batch = {} THEN "sleep" ELSE "gather"
<1>1. /\ loop[d].at = "claim"
      /\ out' = [m \in Commands |-> IF m \in Batch THEN [out[m] EXCEPT !.claim = "held"] ELSE out[m]]
      /\ job' = [job EXCEPT ![d] = [m \in Commands |-> IF m \in Batch THEN claimed(m) ELSE NoJob]]
      /\ loop' = [loop EXCEPT ![d] = [at |-> at, settled |-> FALSE]]
      /\ recorded' = recorded /\ done' = done /\ deaths' = deaths
  BY DEF claim_batch
<1>2. /\ out \in [Commands -> OutType] /\ job \in [Dispatchers -> [Commands -> JobType]]
      /\ loop \in [Dispatchers -> LoopType]
  BY Types DEF DispatchInv
<1>3. \A m \in Batch : m \in Commands /\ Claimable(m)
  BY DEF Batch
<1>4. \A m \in Batch : out[m].processed = FALSE /\ out[m].parked = FALSE /\ out[m].claim # "held"
  BY <1>2, <1>3 DEF Claimable, OutType
<1>5. \A m \in Commands : \A e \in Dispatchers : m \in Batch => job[e][m] = NoJob
  BY <1>3, <1>4 DEF DispatchInv, HeldWhileWorking
<1>6. \A m \in Commands : job[d][m] = NoJob
  BY <1>1 DEF DispatchInv, GatherFirst
<1>7. /\ \A m \in Commands : job'[d][m] = IF m \in Batch THEN claimed(m) ELSE NoJob
      /\ \A e \in Dispatchers \ {d} : job'[e] = job[e]
  BY <1>1, <1>2
<1>8. \A m \in Commands : /\ claimed(m) \in JobType /\ claimed(m) # NoJob
                          /\ claimed(m).stage = "claimed" /\ claimed(m).attempts = out[m].attempts
  BY <1>2 DEF JobType, OutType, Stages, NoJob
<1>9. \A m \in Commands :
        /\ out'[m] \in OutType
        /\ out'[m].processed = out[m].processed /\ out'[m].parked = out[m].parked
        /\ out'[m].attempts = out[m].attempts
        /\ out'[m].claim = IF m \in Batch THEN "held" ELSE out[m].claim
  BY <1>1, <1>2, SMTT(60) DEF OutType
<1>10. NoJob \in JobType /\ NoJob.stage = "none"
  BY DispatcherConstants DEF NoJob, JobType, Stages
<1> HIDE DEF claimed
<1>11. DispatchTypeOK'
  <2>1. [at |-> at, settled |-> FALSE] \in LoopType
    BY DEF LoopType
  <2> HIDE DEF at
  <2>2. loop' \in [Dispatchers -> LoopType]
    BY <1>1, <1>2, <2>1
  <2>3. job' \in [Dispatchers -> [Commands -> JobType]]
    BY <1>1, <1>2, <1>8, <1>10
  <2>4. out' \in [Commands -> OutType]
    BY <1>1, <1>9
  <2> QED BY <1>1, <2>2, <2>3, <2>4 DEF DispatchInv, DispatchTypeOK, OutType, JobType, LoopType
<1>12. \A e \in Dispatchers, m \in Commands :
         job'[e][m] # NoJob => /\ m \in Batch => e = d /\ job'[e][m] = claimed(m)
                               /\ m \notin Batch => e # d /\ job'[e][m] = job[e][m]
  BY <1>5, <1>7
<1>13. HeldWhileWorking'
  <2> SUFFICES ASSUME NEW e \in Dispatchers, NEW m \in Commands, job'[e][m] # NoJob
               PROVE  /\ job'[e][m].stage # "none" /\ out'[m].claim = "held"
                      /\ out'[m].processed = FALSE /\ out'[m].parked = FALSE
                      /\ job'[e][m].attempts = out'[m].attempts
    BY DEF HeldWhileWorking
  <2>1. CASE m \in Batch
    BY <1>4, <1>8, <1>9, <1>12, <2>1
  <2>2. CASE m \notin Batch
    <3>1. job'[e][m] = job[e][m] /\ job[e][m] # NoJob
      BY <1>12, <2>2
    <3>2. /\ job[e][m].stage # "none" /\ out[m].claim = "held"
          /\ out[m].processed = FALSE /\ out[m].parked = FALSE
          /\ job[e][m].attempts = out[m].attempts
      BY <3>1 DEF DispatchInv, HeldWhileWorking
    <3>3. /\ out'[m].claim = out[m].claim /\ out'[m].processed = out[m].processed
          /\ out'[m].parked = out[m].parked /\ out'[m].attempts = out[m].attempts
      BY <1>9, <2>2
    <3> QED BY <3>1, <3>2, <3>3
  <2> QED BY <2>1, <2>2
<1>14. Alone'
  <2> SUFFICES ASSUME NEW m \in Commands, NEW e \in Dispatchers, NEW f \in Dispatchers,
                      job'[e][m] # NoJob, job'[f][m] # NoJob
               PROVE  e = f
    BY DEF Alone
  <2>1. CASE m \in Batch
    BY <1>12, <2>1
  <2>2. CASE m \notin Batch
    <3>1. job[e][m] # NoJob /\ job[f][m] # NoJob
      BY <1>12, <2>2
    <3> QED BY <3>1 DEF DispatchInv, Alone
  <2> QED BY <2>1, <2>2
<1>15. \A e \in Dispatchers, m \in Commands :
         job'[e][m].stage # "none" => job'[e][m].stage = "claimed" \/ job'[e][m] = job[e][m]
  BY <1>7, <1>8, <1>10
<1>16. AttemptsLeft'
  <2>1. \A e \in Dispatchers, m \in Commands :
          job'[e][m].stage = "deferring" => job'[e][m] = job[e][m]
    BY <1>15
  <2> QED BY <1>9, <2>1 DEF DispatchInv, AttemptsLeft
<1>17. GatherFirst'
  <2>1. loop'[d].at # "gather" => Batch = {}
    BY <1>1, <1>2
  <2>2. \A e \in Dispatchers \ {d} : loop'[e] = loop[e]
    BY <1>1, <1>2
  <2> QED BY <1>7, <2>1, <2>2, SMTT(60) DEF DispatchInv, GatherFirst
<1>18. NeverBoth'
  BY <1>9 DEF DispatchInv, NeverBoth
<1>19. RecordsAreTrue'
  <2> SUFFICES ASSUME deaths = 0, NEW n \in Commands
               PROVE  /\ out'[n].processed = TRUE => n \in done
                      /\ \A e \in Dispatchers : job'[e][n].stage = "settle" => n \in done
                      /\ n \in recorded => n \in done \/ \E e \in Dispatchers : job'[e][n].stage \in Trying
    BY <1>1 DEF RecordsAreTrue
  <2>1. /\ out[n].processed = TRUE => n \in done
        /\ \A e \in Dispatchers : job[e][n].stage = "settle" => n \in done
        /\ n \in recorded => n \in done \/ \E e \in Dispatchers : job[e][n].stage \in Trying
    BY DEF DispatchInv, RecordsAreTrue
  <2>2. \A e \in Dispatchers : job'[e][n].stage = "settle" => job'[e][n] = job[e][n]
    BY <1>15
  <2>3. \A e \in Dispatchers : job[e][n].stage \in Trying => job'[e][n] = job[e][n]
    BY <1>6, <1>7, <1>10 DEF Trying
  <2> QED BY <1>9, <2>1, <2>2, <2>3
<1> QED BY <1>11, <1>13, <1>14, <1>16, <1>17, <1>18, <1>19 DEF DispatchInv

LEMMA GatherKeeps ==
  ASSUME DispatchInv, NEW d \in Dispatchers, gather(d)
  PROVE  DispatchInv'
<1> DEFINE at == IF loop[d].settled THEN "claim" ELSE "sleep"
<1>1. /\ \A m \in Commands : job[d][m] = NoJob
      /\ loop' = [loop EXCEPT ![d].at = at]
      /\ out' = out /\ recorded' = recorded /\ job' = job /\ done' = done /\ deaths' = deaths
  BY DEF gather
<1>2. at \in {"claim", "gather", "sleep"}
  OBVIOUS
<1> HIDE DEF at
<1>3. loop \in [Dispatchers -> LoopType] /\ loop[d] \in LoopType
  BY Types DEF DispatchInv
<1>4. loop' \in [Dispatchers -> LoopType] /\ \A e \in Dispatchers \ {d} : loop'[e] = loop[e]
  BY <1>1, <1>2, <1>3 DEF LoopType
<1>5. DispatchTypeOK'
  BY <1>1, <1>4 DEF DispatchInv, DispatchTypeOK, LoopType
<1>6. GatherFirst'
  BY <1>1, <1>4 DEF DispatchInv, GatherFirst
<1>7. HeldWhileWorking' /\ Alone' /\ AttemptsLeft' /\ NeverBoth' /\ RecordsAreTrue'
  BY <1>1 DEF DispatchInv, HeldWhileWorking, Alone, AttemptsLeft, NeverBoth, RecordsAreTrue
<1> QED BY <1>5, <1>6, <1>7 DEF DispatchInv

(* Rows that change in their wait or an unworked claim only.                 *)
LEMMA RowsKeep ==
  ASSUME DispatchInv, job' = job, recorded' = recorded, done' = done, deaths' = deaths,
         \A m \in Commands :
           /\ out'[m].processed = out[m].processed /\ out'[m].parked = out[m].parked
           /\ out'[m].attempts = out[m].attempts
           /\ Working(m) # {} => out'[m].claim = out[m].claim
  PROVE  HeldWhileWorking' /\ Alone' /\ AttemptsLeft' /\ NeverBoth' /\ RecordsAreTrue'
<1>1. \A d \in Dispatchers, m \in Commands : job[d][m] # NoJob => Working(m) # {}
  BY DEF Working
<1>2. HeldWhileWorking'
  BY <1>1 DEF DispatchInv, HeldWhileWorking
<1>3. Alone' /\ AttemptsLeft' /\ NeverBoth'
  BY DEF DispatchInv, Alone, AttemptsLeft, NeverBoth
<1>4. RecordsAreTrue'
  BY DEF DispatchInv, RecordsAreTrue
<1> QED BY <1>2, <1>3, <1>4

LEMMA TickKeeps ==
  ASSUME DispatchInv, Tick
  PROVE  DispatchInv'
<1>1. /\ loop' = [d \in Dispatchers |->
                    IF loop[d].at = "sleep" THEN [loop[d] EXCEPT !.at = "claim"] ELSE loop[d]]
      /\ out' = [m \in Commands |-> [out[m] EXCEPT !.wait = Max({@ - 1, 0})]]
      /\ recorded' = recorded /\ job' = job /\ done' = done /\ deaths' = deaths
  BY DEF Tick
<1>2. out \in [Commands -> OutType] /\ loop \in [Dispatchers -> LoopType]
  BY Types DEF DispatchInv
<1>3. \A w \in 0..MaxWait : Max({w - 1, 0}) \in 0..MaxWait
  <2> SUFFICES ASSUME NEW w \in 0..MaxWait PROVE Max({w - 1, 0}) \in 0..MaxWait
    OBVIOUS
  <2>1. w \in Int /\ MaxWait \in Int /\ MaxWait >= 0 /\ w <= MaxWait
    BY DispatcherConstants
  <2>2. \E x \in {w - 1, 0} : \A y \in {w - 1, 0} : x >= y
    BY <2>1
  <2>3. Max({w - 1, 0}) \in {w - 1, 0} /\ Max({w - 1, 0}) >= 0
    BY <2>1, <2>2 DEF Max
  <2> QED BY <2>1, <2>3
<1>4. \A m \in Commands :
        /\ out'[m] \in OutType
        /\ out'[m].processed = out[m].processed /\ out'[m].parked = out[m].parked
        /\ out'[m].attempts = out[m].attempts /\ out'[m].claim = out[m].claim
  BY <1>1, <1>2, <1>3 DEF OutType
<1>5. \A d \in Dispatchers : loop'[d] \in LoopType /\ (loop'[d].at # "gather" => loop[d].at # "gather")
  BY <1>1, <1>2 DEF LoopType
<1>6. DispatchTypeOK'
  BY <1>1, <1>4, <1>5 DEF DispatchInv, DispatchTypeOK, OutType, LoopType
<1>7. GatherFirst'
  BY <1>1, <1>5 DEF DispatchInv, GatherFirst
<1> QED BY <1>1, <1>4, <1>6, <1>7, RowsKeep DEF DispatchInv

LEMMA ExpiryKeeps ==
  ASSUME ~SlowHandlers, DispatchInv, NEW m \in Commands, LeaseExpires(m)
  PROVE  DispatchInv'
<1>1. /\ Working(m) = {} /\ out' = [out EXCEPT ![m].claim = "expired"]
      /\ recorded' = recorded /\ job' = job /\ loop' = loop /\ done' = done /\ deaths' = deaths
  BY DEF LeaseExpires
<1>2. out \in [Commands -> OutType]
  BY Types DEF DispatchInv
<1>3. /\ out' \in [Commands -> OutType]
      /\ \A n \in Commands :
           /\ out'[n].processed = out[n].processed /\ out'[n].parked = out[n].parked
           /\ out'[n].attempts = out[n].attempts
           /\ n # m => out'[n].claim = out[n].claim
  BY <1>1, <1>2 DEF OutType
<1>4. DispatchTypeOK'
  BY <1>1, <1>3 DEF DispatchInv, DispatchTypeOK, OutType
<1>5. GatherFirst'
  BY <1>1 DEF DispatchInv, GatherFirst
<1> QED BY <1>1, <1>3, <1>4, <1>5, RowsKeep DEF DispatchInv

-----------------------------------------------------------------------------
LEMMA StepKeeps ==
  ASSUME ~SlowHandlers
  PROVE  DispatchInv /\ [DispatchNext]_dispatchVars => DispatchInv'
<1> SUFFICES ASSUME DispatchInv, [DispatchNext]_dispatchVars PROVE DispatchInv'
  OBVIOUS
<1>1. CASE \E d \in Dispatchers : claim_batch(d) \/ gather(d)
  BY <1>1, ClaimKeeps, GatherKeeps
<1>2. CASE \E d \in Dispatchers, m \in Commands : process_one(d, m)
  BY <1>2, RecordKeeps, HandleKeeps, MarkKeeps, ForgetKeeps, DeferKeeps, ParkKeeps DEF process_one
<1>3. CASE \E d \in Dispatchers, m \in Commands : Dies(d, m)
  BY <1>3, DeathKeeps
<1>4. CASE \E m \in Commands : LeaseExpires(m)
  BY <1>4, ExpiryKeeps
<1>5. CASE Tick
  BY <1>5, TickKeeps
<1>6. CASE UNCHANGED dispatchVars
  <2>1. /\ out' = out /\ recorded' = recorded /\ job' = job /\ loop' = loop
        /\ done' = done /\ deaths' = deaths
    BY <1>6 DEF dispatchVars
  <2>2. DispatchTypeOK' /\ GatherFirst'
    BY <2>1 DEF DispatchInv, DispatchTypeOK, GatherFirst
  <2> QED BY <2>1, <2>2, RowsKeep DEF DispatchInv
<1> QED BY <1>1, <1>2, <1>3, <1>4, <1>5, <1>6 DEF DispatchNext

(* DispatchInv holds throughout, while the lease outlasts every handler.     *)
THEOREM DispatchInvariant == ASSUME ~SlowHandlers PROVE DispatchSpec => []DispatchInv
BY InitHolds, StepKeeps, PTL DEF DispatchSpec

(* While the lease outlasts the handler no two handlers work on one command, *)
(* through deaths, expired leases and retries (CLAIM_SQL).                   *)
THEOREM ClaimsAreExclusive == ASSUME ~SlowHandlers PROVE DispatchSpec => []OneHolder
<1>1. DispatchInv => OneHolder
  <2> SUFFICES ASSUME DispatchInv, NEW m \in Commands PROVE Cardinality(Working(m)) <= 1
    BY DEF OneHolder
  <2>1. \A d, e \in Working(m) : d = e
    BY DEF Working, DispatchInv, Alone
  <2> DEFINE W == Working(m)
  <2> SUFFICES Cardinality(W) <= 1
    OBVIOUS
  <2>2. CASE W = {}
    BY <2>2, FS_EmptySet
  <2>3. CASE W # {}
    <3>1. PICK d \in W : W = {d}
      BY <2>1, <2>3
    <3>2. Cardinality({d}) = 1
      BY FS_Singleton
    <3> HIDE DEF W
    <3> QED BY <3>1, <3>2
  <2> QED BY <2>2, <2>3
<1> QED BY <1>1, DispatchInvariant, PTL

(* Attempts stay within MAX_ATTEMPTS, only a death can lose a command, and a *)
(* parked row is never also processed (process_one).                         *)
THEOREM OutboxStaysTrue == ASSUME ~SlowHandlers PROVE DispatchSpec => []OutboxTellsTheTruth
<1>1. DispatchInv => OutboxTellsTheTruth
  <2> SUFFICES ASSUME DispatchInv PROVE OutboxTellsTheTruth
    OBVIOUS
  <2>1. \A m \in Commands : out[m].processed \in BOOLEAN /\ out[m].parked \in BOOLEAN
    BY Types DEF DispatchInv, OutType
  <2>2. OnlyDeathsLoseCommands
    BY <2>1 DEF DispatchInv, RecordsAreTrue, OnlyDeathsLoseCommands, ProcessedMeansDone
  <2>3. ParkedIsNotProcessed
    BY <2>1 DEF DispatchInv, NeverBoth, ParkedIsNotProcessed
  <2> QED BY <2>2, <2>3 DEF DispatchInv, OutboxTellsTheTruth
<1> QED BY <1>1, DispatchInvariant, PTL

=============================================================================

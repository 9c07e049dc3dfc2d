------------------------------- MODULE Payment -------------------------------
(***************************************************************************)
(* payment-service, card side: the append-only payment ledger, the         *)
(* idempotency keys of /charge and the refunds in progress.                *)
(*                                                                         *)
(* A charge is one transaction.  A refund takes the order's advisory lock, *)
(* reads what is settled and what was charged, and appends at commit: it   *)
(* is modelled as the read and the commit, because a charge does not take  *)
(* that lock and may commit in between.                                    *)
(***************************************************************************)
EXTENDS Integers, Sequences, FiniteSets, SequencesExt

CONSTANTS
  Orders,
  ChargeKeys,    \* idempotency keys of /charge
  Amounts,       \* amount_cents a charge may carry
  Refunders,     \* requests to /refund that may be in flight
  Declines,      \* whether the provider may decline a token
  MaxLedger,     \* bound on the ledger's length
  NoRefund       \* a refunder with no open transaction

ASSUME PaymentConstants ==
  /\ Amounts \subseteq Nat \ {0}
  /\ Declines \in BOOLEAN
  /\ MaxLedger \in Nat

SETTLED_STATUSES == {"REFUNDED", "REFUND_NOOP"}

Entry == [order : Orders, status : {"SUCCESS", "FAILED"} \cup SETTLED_STATUSES,
          amount : Int]

ASSUME NoRefundAssumption == NoRefund \notin Entry

VARIABLES
  ledger,     \* payment_ledger, in commit order
  charged,    \* idempotency_keys that have a ledger row
  refund      \* each refunder's open transaction: what it will append

paymentVars == <<ledger, charged, refund>>

EntriesOf(o, statuses) ==
  {i \in DOMAIN ledger : ledger[i].order = o /\ ledger[i].status \in statuses}

\* authorize, for the tokens a caller may present.
authorize == IF Declines THEN {"SUCCESS", "FAILED"} ELSE {"SUCCESS"}

-----------------------------------------------------------------------------
PaymentInit ==
  /\ ledger = << >>
  /\ charged = {}
  /\ refund = [r \in Refunders |-> NoRefund]

\* process_charge under a key that has no result yet.  A key with a result
\* replays its ledger row and changes nothing.  The row carries the amount
\* asked for, whether or not the provider took it.
process_charge(k, o, amount) ==
  /\ k \notin charged
  /\ Len(ledger) < MaxLedger
  /\ \E status \in authorize :
       ledger' = Append(ledger, [order |-> o, status |-> status, amount |-> amount])
  /\ charged' = charged \cup {k}
  /\ UNCHANGED refund

\* What a refund appends: the reversal of the charge, or the record that
\* there was nothing to reverse.
plan_refund(o) ==
  LET charges == EntriesOf(o, {"SUCCESS"})
  IN  IF charges = {}
      THEN [order |-> o, status |-> "REFUND_NOOP", amount |-> 0]
      ELSE [order |-> o, status |-> "REFUNDED",
            amount |-> -(ledger[CHOOSE i \in charges : TRUE].amount)]

\* Fault: no advisory lock; with no charge there is no row to lock either.
NeverLocked(o) == o \notin Orders

\* The advisory lock of the order: one refund of it at a time.
LockedForRefund(o) == \E r \in Refunders : refund[r] # NoRefund /\ refund[r].order = o

\* An order that is settled already is answered 200 and left alone; two
\* SUCCESS rows make scalar_one_or_none raise (500).  Both change nothing.
RefundRead(r, o) ==
  /\ refund[r] = NoRefund
  /\ ~LockedForRefund(o)
  /\ EntriesOf(o, SETTLED_STATUSES) = {}
  /\ Cardinality(EntriesOf(o, {"SUCCESS"})) <= 1
  /\ refund' = [refund EXCEPT ![r] = plan_refund(o)]
  /\ UNCHANGED <<ledger, charged>>

RefundCommit(r) ==
  /\ refund[r] # NoRefund
  /\ Len(ledger) < MaxLedger
  /\ ledger' = Append(ledger, refund[r])
  /\ refund' = [refund EXCEPT ![r] = NoRefund]
  /\ UNCHANGED charged

\* The commit raises or the process dies; the lock goes with the transaction.
RefundFails(r) ==
  /\ refund[r] # NoRefund
  /\ refund' = [refund EXCEPT ![r] = NoRefund]
  /\ UNCHANGED <<ledger, charged>>

PaymentNext ==
  \/ \E k \in ChargeKeys, o \in Orders, amount \in Amounts : process_charge(k, o, amount)
  \/ \E r \in Refunders, o \in Orders : RefundRead(r, o)
  \/ \E r \in Refunders : RefundCommit(r) \/ RefundFails(r)

PaymentSpec == PaymentInit /\ [][PaymentNext]_paymentVars

-----------------------------------------------------------------------------
(* Every variable keeps its type. *)
PaymentTypeOK ==
  /\ ledger \in Seq(Entry)
  /\ charged \subseteq ChargeKeys
  /\ refund \in [Refunders -> Entry \cup {NoRefund}]

(* An order is settled at most once: concurrent and repeated refunds,       *)
(* under whatever keys, leave one REFUNDED or REFUND_NOOP row behind.       *)
SettledOnce == \A o \in Orders : Cardinality(EntriesOf(o, SETTLED_STATUSES)) <= 1

(* Money never goes back that did not come in: every REFUNDED row reverses, *)
(* cent for cent, a successful charge of the same order made before it.     *)
RefundsReverseCharges ==
  \A i \in DOMAIN ledger : ledger[i].status = "REFUNDED" =>
    \E j \in 1..(i - 1) : /\ ledger[j].status = "SUCCESS"
                          /\ ledger[j].order = ledger[i].order
                          /\ ledger[j].amount = -(ledger[i].amount)

SumOf(entries) == FoldLeft(LAMBDA total, e : total + e.amount, 0, entries)

net_position(o) == SumOf(SelectSeq(ledger, LAMBDA e : e.order = o))

MoneyHeld(o) ==
  SumOf(SelectSeq(ledger, LAMBDA e : e.order = o /\ e.status \in {"SUCCESS", "REFUNDED"}))

(* Summing amount_cents over an order's rows yields the true net position:  *)
(* what the customer has actually paid and not got back.                    *)
NetPositionIsTrue == \A o \in Orders : net_position(o) = MoneyHeld(o)

(* Refunds are sound: an order is settled once, for money that came in      *)
(* (process_refund, plan_refund).                                            *)
RefundsAreSound == PaymentTypeOK /\ SettledOnce /\ RefundsReverseCharges
=============================================================================

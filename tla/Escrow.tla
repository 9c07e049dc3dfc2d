-------------------------------- MODULE Escrow --------------------------------
(***************************************************************************)
(* payment-service, the escrow ledger: what the courier, the platform and  *)
(* the sellers owe one another under cash on delivery.                     *)
(*                                                                         *)
(* book_delivery and book_settlement read whether the thing is booked,     *)
(* await (the commission rate, the database) and commit later, so each is  *)
(* two steps; the unique index on (seller_order_id, reason, account)       *)
(* decides between two copies.  Amounts are integers of the minor unit.    *)
(***************************************************************************)
EXTENDS SellerOrders, Integers, Sequences, FiniteSets, Functions

CONSTANTS
  Amounts,     \* amounts a caller may report
  Rates,       \* commission rates seller-service may answer, in basis points
  NoRate,      \* seller-service answers 404: no accepted contract
  Calls,       \* requests in flight
  NoCall,
  NoDeal,      \* a payout belongs to no seller order
  MaxPayouts   \* bound on the payouts of a run

ASSUME EscrowConstants ==
  /\ Expected \in [Deals -> Int] /\ Amounts \subseteq Int /\ Rates \subseteq Int
  /\ NoDeal \notin Deals

EscrowSellers == {SellerOf[d] : d \in Deals}

VARIABLES
  ledger,     \* ledger_entries, grouped by transaction, in commit order
  call,       \* the request each caller has open, and how it was answered
  contract    \* the rate in the contract each seller has accepted

escrowVars == <<ledger, call, contract>>

Accounts == {"COURIER_RECEIVABLE", "CASH", "SELLER_PAYABLE", "COMMISSION_REVENUE"}
Reasons == {"DELIVERY", "SETTLEMENT", "PAYOUT"}

-----------------------------------------------------------------------------
(* ledger_rules: debits are positive.  A plan is a set of at most one       *)
(* entry set; no plan is a LedgerError.                                     *)

split_commission(amount, rate) ==
  LET commission == (amount * rate) \div 10000
  IN  [commission |-> commission, seller_share |-> amount - commission]

Amount(lines, a) == IF a \in DOMAIN lines THEN lines[a] ELSE 0

Total(lines) == Amount(lines, "COURIER_RECEIVABLE") + Amount(lines, "CASH")
                + Amount(lines, "SELLER_PAYABLE") + Amount(lines, "COMMISSION_REVENUE")

assert_balanced(lines) == DOMAIN lines # {} /\ Total(lines) = 0

plan_delivery(collected, rate) ==
  LET split == split_commission(collected, rate)
      owed == [a \in {"COURIER_RECEIVABLE", "SELLER_PAYABLE"} |->
                 IF a = "SELLER_PAYABLE" THEN -split.seller_share ELSE collected]
      earned == [a \in {"COMMISSION_REVENUE"} |-> -split.commission]
  IN  {lines \in {IF split.commission = 0 THEN owed
                  ELSE [a \in DOMAIN owed \cup DOMAIN earned |->
                          IF a \in DOMAIN owed THEN owed[a] ELSE earned[a]]} :
         collected > 0 /\ 0 <= rate /\ rate <= 10000}

plan_settlement(remitted) ==
  {lines \in {[a \in {"CASH", "COURIER_RECEIVABLE"} |->
                 IF a = "CASH" THEN remitted ELSE -remitted]} : remitted > 0}

plan_payout(amount) ==
  {lines \in {[a \in {"SELLER_PAYABLE", "CASH"} |->
                 IF a = "SELLER_PAYABLE" THEN amount ELSE -amount]} : amount > 0}

-----------------------------------------------------------------------------
Transaction(reason, deal, seller, rate, lines) ==
  [reason |-> reason, deal |-> deal, seller |-> seller, rate |-> rate, lines |-> lines]

Booked(d, reason) == {i \in DOMAIN ledger : ledger[i].deal = d /\ ledger[i].reason = reason}

_already_booked(d, reason) == Booked(d, reason) # {}

\* Fault: nothing keeps a second copy out.
NeverCollides(t) == FALSE

\* The unique index: an entry of the same seller order, reason and account.
Collides(t) ==
  \E i \in Booked(t.deal, t.reason) :
     t.deal # NoDeal /\ DOMAIN ledger[i].lines \cap DOMAIN t.lines # {}

Answered(c, stage) == call' = [call EXCEPT ![c].stage = stage]

Opened(c, stage, t) == call' = [call EXCEPT ![c] = [stage |-> stage, tx |-> t]]

EscrowInit ==
  /\ ledger = <<>>
  /\ call = [c \in Calls |-> NoCall]
  /\ contract \in [EscrowSellers -> Rates \cup {NoRate}]

\* What a request is about before it has planned anything.
Asked(reason, d) == Transaction(reason, d, SellerOf[d], NoRate, <<>>)

\* book_delivery up to its commit: a repeat is answered, a seller with no
\* contract is refused (409), a plan that LedgerError rejects is refused
\* (422), otherwise the transaction is written and waits for the commit.
book_delivery(c, d, collected) ==
  /\ call[c] = NoCall
  /\ LET s == SellerOf[d]
         plans == IF contract[s] = NoRate THEN {} ELSE plan_delivery(collected, contract[s])
     IN  \/ /\ _already_booked(d, "DELIVERY")
            /\ Opened(c, "ok", Asked("DELIVERY", d))
         \/ /\ ~_already_booked(d, "DELIVERY")
            /\ \E lines \in plans :
                 /\ assert_balanced(lines)
                 /\ Opened(c, "writing", Transaction("DELIVERY", d, s, contract[s], lines))
         \/ /\ ~_already_booked(d, "DELIVERY")
            /\ \A lines \in plans : ~assert_balanced(lines)
            /\ Opened(c, "refused", Asked("DELIVERY", d))
  /\ UNCHANGED <<ledger, contract>>

\* seller-service cannot be asked (an open circuit, a full bulkhead, a
\* timeout) or answers 5xx: 503, and nothing is booked at a guessed rate.
commission_unavailable(c, d) ==
  /\ call[c] = NoCall
  /\ ~_already_booked(d, "DELIVERY")
  /\ Opened(c, "retry", Asked("DELIVERY", d))
  /\ UNCHANGED <<ledger, contract>>

book_settlement(c, d, remitted) ==
  /\ call[c] = NoCall
  /\ \/ /\ _already_booked(d, "SETTLEMENT")
        /\ Opened(c, "ok", Asked("SETTLEMENT", d))
     \/ /\ ~_already_booked(d, "SETTLEMENT")
        /\ \E lines \in plan_settlement(remitted) :
             Opened(c, "writing", Transaction("SETTLEMENT", d, SellerOf[d], NoRate, lines))
     \/ /\ ~_already_booked(d, "SETTLEMENT")
        /\ plan_settlement(remitted) = {}
        /\ Opened(c, "refused", Asked("SETTLEMENT", d))
  /\ UNCHANGED <<ledger, contract>>

\* book_payout: a balance across many orders, so nothing makes it idempotent.
book_payout(s, amount) ==
  /\ Cardinality({i \in DOMAIN ledger : ledger[i].reason = "PAYOUT"}) < MaxPayouts
  /\ \E lines \in plan_payout(amount) :
       ledger' = Append(ledger, Transaction("PAYOUT", NoDeal, s, NoRate, lines))
  /\ UNCHANGED <<call, contract>>

\* Every line of the entry set is stored under one transaction id.
commit(c) ==
  /\ call[c] # NoCall /\ call[c].stage = "writing"
  /\ ~Collides(call[c].tx)
  /\ ledger' = Append(ledger, call[c].tx)
  /\ Answered(c, "ok")
  /\ UNCHANGED contract

\* The index refuses the second copy: answered 200, already booked.
commit_raced(c) ==
  /\ call[c] # NoCall /\ call[c].stage = "writing"
  /\ Collides(call[c].tx)
  /\ Answered(c, "ok")
  /\ UNCHANGED <<ledger, contract>>

\* The commit raises for any other reason; the same handler answers 200.
commit_fails(c) ==
  /\ call[c] # NoCall /\ call[c].stage = "writing"
  /\ Answered(c, "ok")
  /\ UNCHANGED <<ledger, contract>>

\* The caller has its answer.
Hangup(c) ==
  /\ call[c] # NoCall /\ call[c].stage # "writing"
  /\ call' = [call EXCEPT ![c] = NoCall]
  /\ UNCHANGED <<ledger, contract>>

\* seller-service accept_contract: the only thing that moves a rate.
contract_accepted(s, rate) ==
  /\ contract[s] # rate
  /\ contract' = [contract EXCEPT ![s] = rate]
  /\ UNCHANGED <<ledger, call>>

seller_balance(s) ==
  LET due(i) == IF ledger[i].seller = s /\ "SELLER_PAYABLE" \in DOMAIN ledger[i].lines
                THEN -ledger[i].lines["SELLER_PAYABLE"] ELSE 0
  IN  FoldFunction(+, 0, [i \in DOMAIN ledger |-> due(i)])

ledger_health == FoldFunction(+, 0, [i \in DOMAIN ledger |-> Total(ledger[i].lines)])

-----------------------------------------------------------------------------
(* Every variable keeps its type. *)
EscrowTypeOK ==
  /\ \A i \in DOMAIN ledger : /\ ledger[i].deal \in Deals \cup {NoDeal}
                              /\ ledger[i].reason \in Reasons
                              /\ DOMAIN ledger[i].lines \subseteq Accounts
  /\ \A c \in Calls : call[c] # NoCall =>
       call[c].stage \in {"writing", "ok", "refused", "retry"}
  /\ contract \in [EscrowSellers -> Rates \cup {NoRate}]

(* A seller is credited once for one parcel, and a courier's debt cleared   *)
(* once, however often the command is delivered, retried or run by two      *)
(* dispatchers at the same time.                                            *)
BookedOnce ==
  \A d \in Deals, reason \in {"DELIVERY", "SETTLEMENT"} : Cardinality(Booked(d, reason)) <= 1

(* The whole ledger sums to zero (ledger_health reports "balanced"), so     *)
(* what the couriers and the bank hold is what the sellers are owed and     *)
(* the platform has earned.                                                 *)
BooksBalance == ledger_health = 0

(* The fraction of a minor unit the commission leaves goes to the seller,   *)
(* and a commission is never more than the rate on the entry allows, for    *)
(* the rate the entry itself records.                                       *)
RoundedForTheSeller ==
  \A i \in DOMAIN ledger : ledger[i].reason = "DELIVERY" =>
    LET lines == ledger[i].lines
        collected == lines["COURIER_RECEIVABLE"]
    IN  /\ -lines["SELLER_PAYABLE"] * 10000 >= collected * (10000 - ledger[i].rate)
        /\ -lines["SELLER_PAYABLE"] <= collected

(* A caller that is answered 200 can rely on it: the booking it asked for   *)
(* is in the ledger, by its own commit or by the copy that won the race.    *)
AnswersAreTrue ==
  \A c \in Calls : call[c] # NoCall /\ call[c].stage = "ok" =>
                     _already_booked(call[c].tx.deal, call[c].tx.reason)
=============================================================================

-------------------------------- MODULE Sellers --------------------------------
(***************************************************************************)
(* seller-service: onboarding, review, contract, suspension and ban.       *)
(*                                                                         *)
(* Every handler loads the row without a lock, decides from what it read   *)
(* and commits later.  SQLAlchemy writes back the columns that changed, so *)
(* a handler that decides on the status it has read does not write it.     *)
(***************************************************************************)
EXTENDS Integers, FiniteSets, FiniteSetsExt

CONSTANTS
  Sellers,
  Clerks,         \* requests in progress at the same time
  MaxUploads,     \* bound on document uploads per seller
  MaxTerms,       \* bound on changes of the contract
  NoClerkCall,
  Settings        \* circumstances; here: [clerks, ops, sellers, starts]

ASSUME SellersConstants ==
  /\ MaxUploads \in Nat /\ MaxTerms \in Nat
  /\ \A x \in Settings :
       /\ IsFiniteSet(x.clerks)
       /\ x.starts \subseteq {"none", "registered", "active", "suspended"}

VARIABLES
  setting,
  seller,         \* [status, reason, contract, docs] per seller
  terms,          \* CURRENT_CONTRACT_VERSION of the deployed service
  clerk,          \* NoClerkCall or the decision a handler has not committed
  opened,         \* documents as they were when the review started
  cleared         \* sellers a reviewer has approved

sellerVars == <<seller, terms, clerk, opened, cleared>>

SellerStatus == {"none", "registered", "documents_submitted", "under_review",
                 "approved", "active", "rejected", "suspended", "banned"}
REQUIRED_DOCUMENTS == {"national_id", "trade_licence"}
NoPapers == [t \in REQUIRED_DOCUMENTS |-> 0]

\* Requests do not overlap.
OneAtATime == Cardinality(setting.clerks) = 1

SellersInit ==
  /\ setting \in Settings
  /\ terms = 1
  /\ seller \in [Sellers -> {[status |-> st, docs |-> NoPapers,
                              reason |-> IF st = "suspended" THEN st ELSE "none",
                              contract |-> IF st \in {"active", "suspended"} THEN 1 ELSE 0] : st \in setting.starts}]
  /\ clerk = [c \in Clerks |-> NoClerkCall]
  /\ opened = [s \in Sellers |-> NoPapers]
  /\ cleared = {s \in Sellers : seller[s].status \in {"active", "suspended"}}

-----------------------------------------------------------------------------
(* seller_rules: the status a decision leads to, or Refused *)

Refused == "refused"

missing_documents(docs) == {t \in REQUIRED_DOCUMENTS : docs[t] = 0}

plan_document_submission(status, docs) ==
  IF status \in {"registered", "rejected", "documents_submitted"}
     /\ missing_documents(docs) = {}
  THEN "documents_submitted" ELSE Refused

plan_review_start(status) ==
  IF status = "documents_submitted" THEN "under_review" ELSE Refused

plan_review_result(status, approved) ==
  IF status # "under_review" THEN Refused
  ELSE IF approved THEN "approved" ELSE "rejected"

\* Fault: the contract may be accepted while the review is going on.
AcceptDuringReview(status, version) ==
  IF status \in {"under_review", "approved", "active"} /\ version = terms THEN "active" ELSE Refused

plan_contract_acceptance(status, version) ==
  IF status \in {"approved", "active"} /\ version = terms THEN "active" ELSE Refused

plan_suspension(status) == IF status = "active" THEN "suspended" ELSE Refused

\* Fault: reinstatement undoes whatever stopped the seller.
ReinstateAny(status) ==
  IF status \in {"suspended", "banned"} THEN "active" ELSE Refused

plan_reinstatement(status) == IF status = "suspended" THEN "active" ELSE Refused

plan_ban(status) == IF status \in {"none", "banned"} THEN Refused ELSE "banned"

may_list_products(s) == seller[s].status = "active" /\ seller[s].contract = terms
may_receive_orders(s) == may_list_products(s)

-----------------------------------------------------------------------------
\* register_seller: a repeated key answers with the row it made.
register_seller(s) ==
  /\ seller[s].status = "none" /\ "register" \in setting.ops /\ s \in setting.sellers
  /\ seller' = [seller EXCEPT ![s].status = "registered"]
  /\ UNCHANGED <<setting, terms, clerk, opened, cleared>>

\* A handler up to its commit: what it read, and what it will write.
Decides(c, s, op, status, change) ==
  /\ op \in setting.ops /\ s \in setting.sellers
  /\ c \in setting.clerks /\ clerk[c] = NoClerkCall
  /\ seller[s].status # "none"
  /\ status # Refused
  /\ clerk' = [clerk EXCEPT ![c] = [seller |-> s, op |-> op, read |-> seller[s],
                                    write |-> [change EXCEPT !.status = status]]]
  /\ UNCHANGED <<setting, seller, terms, opened, cleared>>

\* Uploads are numbered; the newest one on file.
Papers(s) == Max({seller[s].docs[t] : t \in REQUIRED_DOCUMENTS})

\* incoming replaces documents by type; the set is judged as it will be.
submit_documents(c, s, incoming) ==
  /\ Papers(s) < MaxUploads
  /\ LET docs == [t \in REQUIRED_DOCUMENTS |->
                    IF t \in incoming THEN Papers(s) + 1 ELSE seller[s].docs[t]]
     IN  Decides(c, s, "submit", plan_document_submission(seller[s].status, docs),
                 [seller[s] EXCEPT !.docs = docs, !.reason = "none"])

start_review(c, s) ==
  Decides(c, s, "start", plan_review_start(seller[s].status), seller[s])

record_review_result(c, s, approved) ==
  Decides(c, s, IF approved THEN "approve" ELSE "reject",
          plan_review_result(seller[s].status, approved),
          [seller[s] EXCEPT !.reason = IF approved THEN @ ELSE "rejected"])

accept_contract(c, s, version) ==
  Decides(c, s, "accept", plan_contract_acceptance(seller[s].status, version),
          [seller[s] EXCEPT !.contract = version])

suspend_seller(c, s) ==
  Decides(c, s, "suspend", plan_suspension(seller[s].status),
          [seller[s] EXCEPT !.reason = "suspended"])

reinstate_seller(c, s) ==
  Decides(c, s, "reinstate", plan_reinstatement(seller[s].status),
          [seller[s] EXCEPT !.reason = "none"])

ban_seller(c, s) ==
  Decides(c, s, "ban", plan_ban(seller[s].status),
          [seller[s] EXCEPT !.reason = "banned"])

\* _apply: the columns that differ from what was read are written.
Written(row, call) ==
  [f \in DOMAIN row |-> IF call.write[f] = call.read[f] THEN row[f] ELSE call.write[f]]

_apply(c) ==
  /\ clerk[c] # NoClerkCall
  /\ LET call == clerk[c]
         s == call.seller
     IN  /\ seller' = [seller EXCEPT ![s] = Written(@, call)]
         /\ opened' = IF call.op = "start"
                      THEN [opened EXCEPT ![s] = seller[s].docs] ELSE opened
         /\ cleared' = IF call.op = "approve" THEN cleared \cup {s} ELSE cleared
  /\ clerk' = [clerk EXCEPT ![c] = NoClerkCall]
  /\ UNCHANGED <<setting, terms>>

\* The commit fails: nothing of the request stays.
ApplyFails(c) ==
  /\ clerk[c] # NoClerkCall
  /\ clerk' = [clerk EXCEPT ![c] = NoClerkCall]
  /\ UNCHANGED <<setting, seller, terms, opened, cleared>>

\* A release raises CURRENT_CONTRACT_VERSION.
NewTerms ==
  /\ "terms" \in setting.ops /\ terms < MaxTerms
  /\ terms' = terms + 1
  /\ UNCHANGED <<setting, seller, clerk, opened, cleared>>

SellersNext ==
  \/ NewTerms
  \/ \E s \in Sellers : register_seller(s)
  \/ \E c \in Clerks : _apply(c) \/ ApplyFails(c)
  \/ \E c \in Clerks, s \in Sellers :
       \/ \E incoming \in SUBSET REQUIRED_DOCUMENTS : submit_documents(c, s, incoming)
       \/ start_review(c, s)
       \/ \E approved \in BOOLEAN : record_review_result(c, s, approved)
       \/ \E version \in 1..MaxTerms : accept_contract(c, s, version)
       \/ suspend_seller(c, s) \/ reinstate_seller(c, s) \/ ban_seller(c, s)

-----------------------------------------------------------------------------
(* Every variable keeps its type, and a contract on file is one that has    *)
(* been in force.                                                           *)
SellersTypeOK ==
  /\ setting \in Settings
  /\ \A s \in Sellers :
       /\ seller[s].status \in SellerStatus
       /\ seller[s].contract \in 0..terms
       /\ seller[s].docs \in [REQUIRED_DOCUMENTS -> 0..MaxUploads]
  /\ cleared \subseteq Sellers

(* A seller may list only after a reviewer has approved them with a         *)
(* complete set of documents, in whatever order the requests that led there *)
(* read the row and committed.                                              *)
SellsOnlyAfterReview == \A s \in Sellers : may_list_products(s) => s \in cleared

(* TRANSITIONS, the table the tests and the documentation use.              *)
TRANSITIONS ==
  [st \in SellerStatus |->
     CASE st = "none" -> {"registered"}
       [] st \in {"registered", "rejected"} -> {"documents_submitted", "banned"}
       [] st = "documents_submitted" -> {"documents_submitted", "under_review", "banned"}
       [] st = "under_review" -> {"approved", "rejected", "banned"}
       [] st = "approved" -> {"active", "banned"}
       [] st = "active" -> {"active", "suspended", "banned"}
       [] st = "suspended" -> {"active", "banned"}
       [] st = "banned" -> {}]

(* One request at a time, the row only moves along TRANSITIONS: what the    *)
(* handlers read, decide and write back adds up to the documented machine.  *)
FollowsTransitions ==
  [][\A s \in Sellers : OneAtATime /\ seller'[s].status # seller[s].status
       => seller'[s].status \in TRANSITIONS[seller[s].status]]_<<setting, sellerVars>>

(* "Which trade licence did the reviewer look at" has one answer: the       *)
(* documents of a seller who passed are the ones the reviewer opened.       *)
ReviewedPapersAreOnFile ==
  \A s \in Sellers : OneAtATime /\ seller[s].status \in {"under_review", "approved"}
    => seller[s].docs = opened[s]

(* The reason shown to a seller belongs to the status shown beside it: no   *)
(* approved or active seller shows an old rejection or suspension.          *)
ReasonFitsStatus ==
  \A s \in Sellers : OneAtATime /\ seller[s].reason # "none"
    => seller[s].reason = seller[s].status

(* BANNED is "terminal, never reversible", whoever else is at work on the   *)
(* same seller.                                                             *)
BannedIsFinal ==
  [][\A s \in Sellers : seller[s].status = "banned" => seller'[s].status = "banned"]_seller

(* A review is honoured: only sellers a reviewer has cleared may list, the   *)
(* papers on file are the ones the reviewer opened, and no reason outlives   *)
(* the status it was given for (seller_service, each handler).               *)
ReviewIsHonoured ==
  SellersTypeOK /\ SellsOnlyAfterReview /\ ReviewedPapersAreOnFile /\ ReasonFitsStatus
=============================================================================

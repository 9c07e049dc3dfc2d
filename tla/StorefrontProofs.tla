------------------------- MODULE StorefrontProofs ---------------------------
(***************************************************************************)
(* The shop: who may sell, what an order vouches for, and the reviews of   *)
(* what was bought.                                                        *)
(***************************************************************************)
EXTENDS Storefront, Reviews, FiniteSetTheorems, TLAPS

(***************************************************************************)
(* seller-service: what every step preserves, for any sellers, any number  *)
(* of overlapping requests and any bounds.                                 *)
(***************************************************************************)
Row == [status : SellerStatus, docs : [REQUIRED_DOCUMENTS -> 0..MaxUploads],
        reason : {"none", "rejected", "suspended", "banned"}, contract : Nat]
Ops == {"submit", "start", "approve", "reject", "accept", "suspend", "reinstate", "ban"}
Call == [seller : Sellers, op : Ops, read : Row, write : Row]

(* Statuses that follow an approval.                                         *)
Passed == {"approved", "active", "suspended"}

(* A handler that has not committed yet: it read an existing row, and what   *)
(* it will write passes the seller only if it is the approval itself or the  *)
(* seller has been approved before.                                          *)
Pending(call, version, approved) ==
  /\ call \in Call
  /\ call.read.status # "none"
  /\ call.write.contract <= version
  /\ call.write.status \in Passed /\ call.op # "approve" => call.seller \in approved

(* What a row that nobody else is working on satisfies, ...                  *)
Settled(row, papers) ==
  /\ row.status \in {"under_review", "approved"} => row.docs = papers
  /\ row.reason # "none" => row.reason = row.status

(* ... and a decision that was made from such a row.                         *)
Sound(call, papers) ==
  /\ call.write.status # call.read.status =>
       call.write.status \in TRANSITIONS[call.read.status]
  /\ Settled(call.write, IF call.op = "start" THEN call.read.docs ELSE papers)

SellerTypes ==
  /\ setting \in Settings
  /\ terms \in Nat
  /\ seller \in [Sellers -> Row]
  /\ DOMAIN clerk = Clerks /\ DOMAIN opened = Sellers
  /\ cleared \subseteq Sellers

(* The inductive invariant: for requests in any order, and the part that     *)
(* needs them one at a time, when the row is still the one that was read.    *)
ReviewInv ==
  /\ \A s \in Sellers : /\ seller[s].contract <= terms
                        /\ seller[s].status \in Passed => s \in cleared
  /\ \A c \in Clerks : clerk[c] # NoClerkCall =>
       c \in setting.clerks /\ Pending(clerk[c], terms, cleared)
AloneInv ==
  OneAtATime =>
    /\ \A s \in Sellers : Settled(seller[s], opened[s])
    /\ \A c \in Clerks : clerk[c] # NoClerkCall =>
         /\ seller[clerk[c].seller] = clerk[c].read
         /\ Sound(clerk[c], opened[clerk[c].seller])
SellersInv == SellerTypes /\ ReviewInv /\ AloneInv

-----------------------------------------------------------------------------
LEMMA SellersInitHolds == SellersInit => SellersInv
<1> SUFFICES ASSUME SellersInit PROVE SellersInv
  OBVIOUS
<1>1. setting.starts \subseteq {"none", "registered", "active", "suspended"}
  BY SellersConstants DEF SellersInit
<1>2. NoPapers \in [REQUIRED_DOCUMENTS -> 0..MaxUploads]
  BY SellersConstants DEF NoPapers
<1>3. ASSUME NEW s \in Sellers
      PROVE  /\ seller[s] \in Row
             /\ seller[s].status \in {"none", "registered", "active", "suspended"}
             /\ seller[s].contract <= 1
             /\ seller[s].docs = NoPapers
             /\ seller[s].reason # "none" => seller[s].reason = seller[s].status
  <2>1. PICK st \in setting.starts :
          seller[s] = [status |-> st, docs |-> NoPapers,
                       reason |-> IF st = "suspended" THEN st ELSE "none",
                       contract |-> IF st \in {"active", "suspended"} THEN 1 ELSE 0]
    BY DEF SellersInit
  <2>2. st \in SellerStatus /\ (IF st = "suspended" THEN st ELSE "none") \in {"none", "suspended"}
    BY <1>1 DEF SellerStatus
  <2> QED BY <1>1, <1>2, <2>1, <2>2 DEF Row
<1>4. seller \in [Sellers -> Row]
  BY <1>3 DEF SellersInit
<1>5. SellerTypes
  BY <1>4 DEF SellersInit, SellerTypes
<1>6. ReviewInv
  BY <1>3 DEF SellersInit, ReviewInv, Passed
<1>7. \A s \in Sellers : Settled(seller[s], opened[s])
  BY <1>3 DEF SellersInit, Settled
<1>8. AloneInv
  BY <1>7 DEF SellersInit, AloneInv
<1> QED BY <1>5, <1>6, <1>8 DEF SellersInv

(* _apply writes column by column.                                           *)
LEMMA WrittenRow ==
  ASSUME NEW row \in Row, NEW call \in Call
  PROVE  /\ Written(row, call) \in Row
         /\ Written(row, call).status \in {row.status, call.write.status}
         /\ Written(row, call).contract \in {row.contract, call.write.contract}
         /\ row = call.read => Written(row, call) = call.write
<1>1. DOMAIN row = {"status", "docs", "reason", "contract"}
  BY DEF Row
<1>2. Written(row, call) =
        [status |-> IF call.write.status = call.read.status THEN row.status ELSE call.write.status,
         docs |-> IF call.write.docs = call.read.docs THEN row.docs ELSE call.write.docs,
         reason |-> IF call.write.reason = call.read.reason THEN row.reason ELSE call.write.reason,
         contract |-> IF call.write.contract = call.read.contract THEN row.contract ELSE call.write.contract]
  BY <1>1 DEF Written
<1> QED BY <1>2 DEF Row, Call

-----------------------------------------------------------------------------
(* Requests one at a time: only the clerk at work can have a decision open.  *)
LEMMA OnlyOne ==
  ASSUME SellersInv, OneAtATime,
         NEW c \in setting.clerks, NEW d \in Clerks, clerk[d] # NoClerkCall
  PROVE  c = d
<1>1. IsFiniteSet(setting.clerks)
  BY SellersConstants DEF SellersInv, SellerTypes
<1>2. PICK x : setting.clerks = {x}
  BY <1>1, FS_Singleton DEF OneAtATime
<1> QED BY <1>2 DEF SellersInv, ReviewInv

(* The highest number among the papers on file.                              *)
LEMMA PapersNumber ==
  ASSUME SellerTypes, NEW s \in Sellers
  PROVE  Papers(s) \in Nat
<1>1. seller[s].docs \in [REQUIRED_DOCUMENTS -> 0..MaxUploads]
  BY DEF SellerTypes, Row
<1> DEFINE numbers == {seller[s].docs[t] : t \in REQUIRED_DOCUMENTS}
<1>2. numbers = {seller[s].docs["national_id"], seller[s].docs["trade_licence"]}
  BY DEF REQUIRED_DOCUMENTS
<1>3. /\ seller[s].docs["national_id"] \in Nat /\ seller[s].docs["trade_licence"] \in Nat
  BY <1>1, SellersConstants DEF REQUIRED_DOCUMENTS
<1>4. \E x \in numbers : \A y \in numbers : x >= y
  <2> HIDE DEF numbers
  <2>1. CASE seller[s].docs["national_id"] >= seller[s].docs["trade_licence"]
    BY <1>2, <1>3, <2>1
  <2>2. CASE seller[s].docs["trade_licence"] >= seller[s].docs["national_id"]
    BY <1>2, <1>3, <2>2
  <2> QED BY <1>3, <2>1, <2>2
<1>5. Max(numbers) \in numbers
  BY <1>4 DEF Max
<1> QED BY <1>2, <1>3, <1>5 DEF Papers

(* What a handler may decide about the row it has read.                     *)
Admissible(row, op, status, change, papers, version, s, passed) ==
  /\ status \in SellerStatus
  /\ change \in Row
  /\ change.contract <= version
  /\ status \in Passed /\ op # "approve" => s \in passed
  /\ row.status # status => status \in TRANSITIONS[row.status]
  /\ Settled(row, papers) =>
       Settled([change EXCEPT !.status = status], IF op = "start" THEN row.docs ELSE papers)

(* A handler decides: the call it opens is pending, and sound when the row   *)
(* it read is settled.                                                       *)
LEMMA DecidesKeeps ==
  ASSUME SellersInv, NEW c \in Clerks, NEW s \in Sellers, NEW op \in Ops, NEW status, NEW change,
         Decides(c, s, op, status, change),
         Admissible(seller[s], op, status, change, opened[s], terms, s, cleared)
  PROVE  SellersInv'
<1> DEFINE call == [seller |-> s, op |-> op, read |-> seller[s],
                    write |-> [change EXCEPT !.status = status]]
<1>1. /\ status \in SellerStatus /\ c \in setting.clerks /\ seller[s].status # "none"
      /\ clerk' = [clerk EXCEPT ![c] = call]
      /\ UNCHANGED <<setting, seller, terms, opened, cleared>>
  BY DEF Decides, Admissible
<1>2. seller[s] \in Row /\ call.write \in Row
  BY <1>1 DEF SellersInv, SellerTypes, Row, Admissible
<1>3. call \in Call /\ call.write.status = status /\ call.write.contract = change.contract
  BY <1>2 DEF Call, Row
<1>4. clerk'[c] = call /\ \A d \in Clerks \ {c} : clerk'[d] = clerk[d]
  BY <1>1 DEF SellersInv, SellerTypes
<1>5. SellerTypes'
  BY <1>1 DEF SellersInv, SellerTypes
<1>6. Pending(call, terms, cleared)
  BY <1>1, <1>3 DEF Pending, Admissible
<1>7. ReviewInv'
  BY <1>1, <1>4, <1>6 DEF SellersInv, ReviewInv
<1>8. ASSUME OneAtATime' PROVE
        /\ \A t \in Sellers : Settled(seller[t], opened[t])
        /\ \A d \in Clerks : clerk'[d] # NoClerkCall => d = c
        /\ Sound(call, opened[s])
  <2>1. OneAtATime
    BY <1>1, <1>8 DEF OneAtATime
  <2>2. \A t \in Sellers : Settled(seller[t], opened[t])
    BY <2>1 DEF SellersInv, AloneInv
  <2>3. \A d \in Clerks : clerk'[d] # NoClerkCall => d = c
    BY <1>1, <1>4, <2>1, OnlyOne
  <2>4. Sound(call, opened[s])
    BY <1>3, <2>2 DEF Sound, Admissible
  <2> QED BY <2>2, <2>3, <2>4
<1>9. AloneInv'
  <2> SUFFICES ASSUME OneAtATime'
               PROVE  /\ \A t \in Sellers : Settled(seller'[t], opened'[t])
                      /\ \A d \in Clerks : clerk'[d] # NoClerkCall =>
                           /\ seller'[clerk'[d].seller] = clerk'[d].read
                           /\ Sound(clerk'[d], opened'[clerk'[d].seller])
    BY DEF AloneInv
  <2>1. call.seller = s /\ call.read = seller[s]
    OBVIOUS
  <2> HIDE DEF call
  <2> QED BY <1>1, <1>4, <1>8, <2>1
<1> QED BY <1>5, <1>7, <1>9 DEF SellersInv

LEMMA RequestKeeps ==
  ASSUME SellersInv, NEW c \in Clerks, NEW s \in Sellers,
         \/ \E incoming \in SUBSET REQUIRED_DOCUMENTS : submit_documents(c, s, incoming)
         \/ start_review(c, s)
         \/ \E approved \in BOOLEAN : record_review_result(c, s, approved)
         \/ \E version \in 1..MaxTerms : accept_contract(c, s, version)
         \/ suspend_seller(c, s) \/ reinstate_seller(c, s) \/ ban_seller(c, s)
  PROVE  SellersInv'
<1> DEFINE row == seller[s]
<1>0. /\ row \in Row /\ row.contract <= terms /\ terms \in Nat
      /\ row.status \in Passed => s \in cleared
      /\ row.status \in SellerStatus
      /\ row.reason \in {"none", "rejected", "suspended", "banned"}
      /\ row.docs \in [REQUIRED_DOCUMENTS -> 0..MaxUploads]
      /\ row.contract \in Nat
  BY DEF SellersInv, SellerTypes, ReviewInv, Row
<1> HIDE DEF row
<1>1. ASSUME NEW incoming \in SUBSET REQUIRED_DOCUMENTS, submit_documents(c, s, incoming)
      PROVE  SellersInv'
  <2> DEFINE docs == [t \in REQUIRED_DOCUMENTS |-> IF t \in incoming THEN Papers(s) + 1 ELSE row.docs[t]]
             change == [row EXCEPT !.docs = docs, !.reason = "none"]
             status == plan_document_submission(row.status, docs)
  <2>1. Papers(s) < MaxUploads /\ Decides(c, s, "submit", status, change)
    BY <1>1 DEF submit_documents, row
  <2>2. Papers(s) \in Nat
    BY PapersNumber DEF SellersInv
  <2>3. docs \in [REQUIRED_DOCUMENTS -> 0..MaxUploads]
    BY <1>0, <2>1, <2>2, SellersConstants
  <2>4. change \in Row /\ change.contract = row.contract /\ change.reason = "none"
    BY <1>0, <2>3 DEF Row
  <2>5. status = "documents_submitted" /\ row.status \in {"registered", "rejected", "documents_submitted"}
    BY <2>1 DEF Decides, plan_document_submission
  <2> HIDE DEF change, status
  <2>6. Settled([change EXCEPT !.status = status], opened[s])
    BY <2>4, <2>5 DEF Settled, Row
  <2>7. row.status # status => status \in TRANSITIONS[row.status]
    BY <2>5 DEF TRANSITIONS, SellerStatus
  <2>8. "submit" # "start" /\ status \notin Passed /\ status \in SellerStatus
    BY <2>5 DEF Passed, SellerStatus
  <2>9. Admissible(row, "submit", status, change, opened[s], terms, s, cleared)
    BY <1>0, <2>4, <2>6, <2>7, <2>8 DEF Admissible
  <2> QED BY <2>1, <2>9, DecidesKeeps DEF row, Ops
<1>2. CASE start_review(c, s)
  <2> DEFINE status == plan_review_start(row.status)
  <2>1. Decides(c, s, "start", status, row)
    BY <1>2 DEF start_review, row
  <2>2. status = "under_review" /\ row.status = "documents_submitted"
    BY <2>1 DEF Decides, plan_review_start
  <2> HIDE DEF status
  <2>3. Settled(row, opened[s]) => Settled([row EXCEPT !.status = status], row.docs)
    BY <1>0, <2>2 DEF Settled, Row
  <2>4. status \in TRANSITIONS[row.status] /\ status \notin Passed /\ status \in SellerStatus
    BY <2>2 DEF TRANSITIONS, Passed, SellerStatus
  <2>9. Admissible(row, "start", status, row, opened[s], terms, s, cleared)
    BY <1>0, <2>3, <2>4 DEF Admissible
  <2> QED BY <2>1, <2>9, DecidesKeeps DEF row, Ops
<1>3. ASSUME record_review_result(c, s, TRUE)
      PROVE  SellersInv'
  <2> DEFINE change == [row EXCEPT !.reason = row.reason]
             status == plan_review_result(row.status, TRUE)
  <2>1. Decides(c, s, "approve", status, change)
    BY <1>3 DEF record_review_result, row
  <2>2. status = "approved" /\ row.status = "under_review"
    BY <2>1 DEF Decides, plan_review_result
  <2>3. change = row
    BY <1>0 DEF Row
  <2> HIDE DEF status, change
  <2>4. Settled(row, opened[s]) => Settled([row EXCEPT !.status = status], opened[s])
    BY <1>0, <2>2 DEF Settled, Row
  <2>5. status \in TRANSITIONS[row.status] /\ status \in SellerStatus /\ "approve" # "start"
    BY <2>2 DEF TRANSITIONS, SellerStatus
  <2>9. Admissible(row, "approve", status, row, opened[s], terms, s, cleared)
    BY <1>0, <2>3, <2>4, <2>5 DEF Admissible
  <2> QED BY <2>1, <2>3, <2>9, DecidesKeeps DEF row, Ops
<1>4. ASSUME record_review_result(c, s, FALSE)
      PROVE  SellersInv'
  <2> DEFINE change == [row EXCEPT !.reason = "rejected"]
             status == plan_review_result(row.status, FALSE)
  <2>1. Decides(c, s, "reject", status, change)
    BY <1>4 DEF record_review_result, row
  <2>2. status = "rejected" /\ row.status = "under_review"
    BY <2>1 DEF Decides, plan_review_result
  <2>3. change \in Row /\ change.contract = row.contract /\ change.reason = "rejected"
    BY <1>0 DEF Row
  <2> HIDE DEF status, change
  <2>4. Settled([change EXCEPT !.status = status], opened[s])
    BY <2>2, <2>3 DEF Settled, Row
  <2>5. /\ status \in TRANSITIONS[row.status] /\ status \in SellerStatus
        /\ status \notin Passed /\ "reject" # "start"
    BY <2>2 DEF TRANSITIONS, SellerStatus, Passed
  <2>9. Admissible(row, "reject", status, change, opened[s], terms, s, cleared)
    BY <1>0, <2>3, <2>4, <2>5 DEF Admissible
  <2> QED BY <2>1, <2>9, DecidesKeeps DEF row, Ops
<1>5. ASSUME NEW version \in 1..MaxTerms, accept_contract(c, s, version)
      PROVE  SellersInv'
  <2> DEFINE change == [row EXCEPT !.contract = version]
             status == plan_contract_acceptance(row.status, version)
  <2>1. Decides(c, s, "accept", status, change)
    BY <1>5 DEF accept_contract, row
  <2>2. status = "active" /\ row.status \in {"approved", "active"} /\ version = terms
    BY <2>1 DEF Decides, plan_contract_acceptance
  <2>3. /\ change \in Row /\ change.contract = version /\ change.reason = row.reason
    BY <1>0, SellersConstants DEF Row
  <2> HIDE DEF status, change
  <2>4. Settled(row, opened[s]) => Settled([change EXCEPT !.status = status], opened[s])
    BY <1>0, <2>2, <2>3 DEF Settled, Row
  <2>5. row.status # status => status \in TRANSITIONS[row.status]
    BY <2>2 DEF TRANSITIONS, SellerStatus
  <2>6. status \in SellerStatus /\ s \in cleared /\ "accept" # "start" /\ version <= terms
    BY <1>0, <2>2 DEF SellerStatus, Passed
  <2>9. Admissible(row, "accept", status, change, opened[s], terms, s, cleared)
    BY <1>0, <2>3, <2>4, <2>5, <2>6 DEF Admissible
  <2> QED BY <2>1, <2>9, DecidesKeeps DEF row, Ops
<1>6. CASE suspend_seller(c, s)
  <2> DEFINE change == [row EXCEPT !.reason = "suspended"]
             status == plan_suspension(row.status)
  <2>1. Decides(c, s, "suspend", status, change)
    BY <1>6 DEF suspend_seller, row
  <2>2. status = "suspended" /\ row.status = "active"
    BY <2>1 DEF Decides, plan_suspension
  <2>3. change \in Row /\ change.contract = row.contract /\ change.reason = "suspended"
    BY <1>0 DEF Row
  <2> HIDE DEF status, change
  <2>4. Settled([change EXCEPT !.status = status], opened[s])
    BY <2>2, <2>3 DEF Settled, Row
  <2>5. /\ status \in TRANSITIONS[row.status] /\ status \in SellerStatus
        /\ s \in cleared /\ "suspend" # "start"
    BY <1>0, <2>2 DEF TRANSITIONS, SellerStatus, Passed
  <2>9. Admissible(row, "suspend", status, change, opened[s], terms, s, cleared)
    BY <1>0, <2>3, <2>4, <2>5 DEF Admissible
  <2> QED BY <2>1, <2>9, DecidesKeeps DEF row, Ops
<1>7. CASE reinstate_seller(c, s)
  <2> DEFINE change == [row EXCEPT !.reason = "none"]
             status == plan_reinstatement(row.status)
  <2>1. Decides(c, s, "reinstate", status, change)
    BY <1>7 DEF reinstate_seller, row
  <2>2. status = "active" /\ row.status = "suspended"
    BY <2>1 DEF Decides, plan_reinstatement
  <2>3. change \in Row /\ change.contract = row.contract /\ change.reason = "none"
    BY <1>0 DEF Row
  <2> HIDE DEF status, change
  <2>4. Settled([change EXCEPT !.status = status], opened[s])
    BY <2>2, <2>3 DEF Settled, Row
  <2>5. /\ status \in TRANSITIONS[row.status] /\ status \in SellerStatus
        /\ s \in cleared /\ "reinstate" # "start"
    BY <1>0, <2>2 DEF TRANSITIONS, SellerStatus, Passed
  <2>9. Admissible(row, "reinstate", status, change, opened[s], terms, s, cleared)
    BY <1>0, <2>3, <2>4, <2>5 DEF Admissible
  <2> QED BY <2>1, <2>9, DecidesKeeps DEF row, Ops
<1>8. CASE ban_seller(c, s)
  <2> DEFINE change == [row EXCEPT !.reason = "banned"]
             status == plan_ban(row.status)
  <2>1. Decides(c, s, "ban", status, change)
    BY <1>8 DEF ban_seller, row
  <2>2. status = "banned" /\ row.status \notin {"none", "banned"}
    BY <2>1 DEF Decides, plan_ban
  <2>3. change \in Row /\ change.contract = row.contract /\ change.reason = "banned"
    BY <1>0 DEF Row
  <2> HIDE DEF status, change
  <2>4. Settled([change EXCEPT !.status = status], opened[s])
    BY <2>2, <2>3 DEF Settled, Row
  <2>5. /\ status \in TRANSITIONS[row.status] /\ status \in SellerStatus
        /\ status \notin Passed /\ "ban" # "start"
    BY <1>0, <2>2 DEF TRANSITIONS, SellerStatus, Passed
  <2>9. Admissible(row, "ban", status, change, opened[s], terms, s, cleared)
    BY <1>0, <2>3, <2>4, <2>5 DEF Admissible
  <2> QED BY <2>1, <2>9, DecidesKeeps DEF row, Ops
<1>9. ASSUME NEW approved \in BOOLEAN, record_review_result(c, s, approved)
      PROVE  SellersInv'
  <2>1. CASE approved = TRUE
    BY <1>3, <1>9, <2>1
  <2>2. CASE approved = FALSE
    BY <1>4, <1>9, <2>2
  <2> QED BY <2>1, <2>2
<1> QED BY <1>1, <1>2, <1>5, <1>6, <1>7, <1>8, <1>9

LEMMA RegisterKeeps ==
  ASSUME SellersInv, NEW s \in Sellers, register_seller(s)
  PROVE  SellersInv'
<1> DEFINE new == [seller[s] EXCEPT !.status = "registered"]
<1>1. /\ seller[s].status = "none" /\ seller' = [seller EXCEPT ![s] = new]
      /\ UNCHANGED <<setting, terms, clerk, opened, cleared>>
  BY DEF register_seller
<1>2. seller[s] \in Row
  BY DEF SellersInv, SellerTypes
<1>3. /\ new \in Row /\ new.status = "registered" /\ new.contract = seller[s].contract
      /\ new.reason = seller[s].reason
  BY <1>2 DEF Row, SellerStatus
<1>4. seller'[s] = new /\ \A t \in Sellers \ {s} : seller'[t] = seller[t]
  BY <1>1 DEF SellersInv, SellerTypes
<1>5. SellerTypes'
  BY <1>1, <1>3 DEF SellersInv, SellerTypes
<1>6. ReviewInv'
  BY <1>1, <1>3, <1>4 DEF SellersInv, ReviewInv, Passed
<1>7. ASSUME OneAtATime'
      PROVE  /\ \A t \in Sellers : Settled(seller'[t], opened[t])
             /\ \A c \in Clerks : clerk[c] # NoClerkCall =>
                  /\ seller'[clerk[c].seller] = clerk[c].read
                  /\ Sound(clerk[c], opened[clerk[c].seller])
  <2>1. OneAtATime
    BY <1>1, <1>7 DEF OneAtATime
  <2>2. seller[s].reason = "none"
    BY <1>1, <1>2, <2>1 DEF SellersInv, AloneInv, Settled, Row
  <2>3. Settled(new, opened[s])
    BY <1>3, <2>2 DEF Settled
  <2>4. ASSUME NEW c \in Clerks, clerk[c] # NoClerkCall
        PROVE  clerk[c].seller \in Sellers \ {s}
    BY <1>1, <2>1, <2>4 DEF SellersInv, ReviewInv, AloneInv, Pending, Call
  <2> QED BY <1>4, <2>1, <2>3, <2>4 DEF SellersInv, AloneInv
<1>8. AloneInv'
  BY <1>1, <1>7 DEF AloneInv
<1> QED BY <1>5, <1>6, <1>8 DEF SellersInv

(* A commit: what is written is what was decided, when nobody else has       *)
(* touched the row.                                                          *)
LEMMA ApplyWrites ==
  ASSUME SellersInv, NEW c \in Clerks, _apply(c)
  PROVE  /\ clerk[c].seller \in Sellers /\ c \in setting.clerks
         /\ \A t \in Sellers \ {clerk[c].seller} : seller'[t] = seller[t]
         /\ OneAtATime => seller'[clerk[c].seller] = clerk[c].write
         /\ OneAtATime => seller[clerk[c].seller] = clerk[c].read
         /\ seller'[clerk[c].seller] = Written(seller[clerk[c].seller], clerk[c])
         /\ clerk[c] \in Call /\ Pending(clerk[c], terms, cleared)
         /\ seller[clerk[c].seller] \in Row
<1>1. clerk[c] \in Call /\ Pending(clerk[c], terms, cleared) /\ c \in setting.clerks
  BY DEF _apply, SellersInv, ReviewInv, Pending
<1>2. clerk[c].seller \in Sellers /\ seller[clerk[c].seller] \in Row
  BY <1>1 DEF Call, SellersInv, SellerTypes
<1>3. /\ seller'[clerk[c].seller] = Written(seller[clerk[c].seller], clerk[c])
      /\ \A t \in Sellers \ {clerk[c].seller} : seller'[t] = seller[t]
  BY <1>2 DEF _apply, SellersInv, SellerTypes
<1>4. OneAtATime => seller[clerk[c].seller] = clerk[c].read
  BY DEF _apply, SellersInv, AloneInv
<1>5. OneAtATime => seller'[clerk[c].seller] = clerk[c].write
  BY <1>1, <1>2, <1>3, <1>4, WrittenRow
<1> QED BY <1>1, <1>2, <1>3, <1>4, <1>5

LEMMA ApplyKeeps ==
  ASSUME SellersInv, NEW c \in Clerks, _apply(c)
  PROVE  SellersInv'
<1> DEFINE call == clerk[c]
           s == call.seller
           new == Written(seller[s], call)
<1>0. /\ s \in Sellers /\ c \in setting.clerks /\ call \in Call /\ seller[s] \in Row
      /\ Pending(call, terms, cleared)
      /\ seller'[s] = new /\ \A t \in Sellers \ {s} : seller'[t] = seller[t]
  BY ApplyWrites
<1>1. /\ new \in Row
      /\ new.status \in {seller[s].status, call.write.status}
      /\ new.contract \in {seller[s].contract, call.write.contract}
  BY <1>0, WrittenRow
<1>2. /\ clerk[c] # NoClerkCall
      /\ seller' = [seller EXCEPT ![s] = new]
      /\ opened' = IF call.op = "start" THEN [opened EXCEPT ![s] = seller[s].docs] ELSE opened
      /\ cleared' = IF call.op = "approve" THEN cleared \cup {s} ELSE cleared
      /\ clerk' = [clerk EXCEPT ![c] = NoClerkCall]
      /\ setting' = setting /\ terms' = terms
  BY DEF _apply
<1>3. SellerTypes'
  BY <1>0, <1>1, <1>2 DEF SellersInv, SellerTypes
<1>4. clerk'[c] = NoClerkCall /\ \A d \in Clerks \ {c} : clerk'[d] = clerk[d]
  BY <1>2 DEF SellersInv, SellerTypes
<1>5. /\ \A t \in Sellers : t # s => opened'[t] = opened[t]
      /\ opened'[s] = IF call.op = "start" THEN seller[s].docs ELSE opened[s]
  BY <1>0, <1>2 DEF SellersInv, SellerTypes
<1>6. cleared \subseteq cleared' /\ (call.op = "approve" => s \in cleared')
  BY <1>2
<1> HIDE DEF new
<1>7. seller[s].status \in Passed => s \in cleared
  BY <1>0 DEF SellersInv, ReviewInv
<1>8. new.status \in Passed => s \in cleared'
  <2>1. CASE new.status = seller[s].status
    BY <1>6, <1>7, <2>1
  <2>2. CASE new.status = call.write.status
    BY <1>0, <1>6, <2>2 DEF Pending
  <2> QED BY <1>1, <2>1, <2>2
<1>9. new.contract <= terms
  BY <1>0, <1>1 DEF SellersInv, ReviewInv, Pending
<1>10. ReviewInv'
  <2>1. ASSUME NEW t \in Sellers
        PROVE  seller'[t].contract <= terms' /\ (seller'[t].status \in Passed => t \in cleared')
    <3>1. CASE t = s
      BY <1>0, <1>2, <1>8, <1>9, <3>1
    <3>2. CASE t # s
      BY <1>0, <1>2, <1>6, <3>2 DEF SellersInv, ReviewInv
    <3> QED BY <3>1, <3>2
  <2>2. ASSUME NEW d \in Clerks, clerk'[d] # NoClerkCall
        PROVE  d \in setting.clerks' /\ Pending(clerk'[d], terms', cleared')
    <3>1. d # c /\ clerk'[d] = clerk[d]
      BY <1>4, <2>2
    <3>2. d \in setting.clerks /\ Pending(clerk[d], terms, cleared)
      BY <2>2, <3>1 DEF SellersInv, ReviewInv
    <3> QED BY <1>2, <1>6, <3>1, <3>2 DEF Pending
  <2> QED BY <2>1, <2>2 DEF ReviewInv
<1>11. ASSUME OneAtATime'
       PROVE  /\ \A t \in Sellers : Settled(seller'[t], opened'[t])
              /\ \A d \in Clerks : clerk'[d] = NoClerkCall
  <2>1. OneAtATime
    BY <1>2, <1>11 DEF OneAtATime
  <2>2. seller'[s] = call.write /\ seller[s] = call.read
    BY <2>1, ApplyWrites
  <2>3. Sound(call, opened[s])
    BY <1>2, <2>1 DEF SellersInv, AloneInv
  <2>4. Settled(seller'[s], opened'[s])
    BY <1>5, <2>2, <2>3 DEF Sound
  <2>5. \A t \in Sellers : t # s => Settled(seller'[t], opened'[t])
    BY <1>0, <1>5, <2>1 DEF SellersInv, AloneInv
  <2>6. \A d \in Clerks : clerk'[d] = NoClerkCall
    BY <1>0, <1>4, <2>1, OnlyOne
  <2> QED BY <2>4, <2>5, <2>6
<1>12. AloneInv'
  BY <1>11 DEF AloneInv
<1> QED BY <1>3, <1>10, <1>12 DEF SellersInv

LEMMA FailKeeps ==
  ASSUME SellersInv, NEW c \in Clerks, ApplyFails(c)
  PROVE  SellersInv'
<1>1. /\ clerk' = [clerk EXCEPT ![c] = NoClerkCall]
      /\ UNCHANGED <<setting, seller, terms, opened, cleared>>
  BY DEF ApplyFails
<1>2. clerk'[c] = NoClerkCall /\ \A d \in Clerks \ {c} : clerk'[d] = clerk[d]
  BY <1>1 DEF SellersInv, SellerTypes
<1>3. SellerTypes' /\ ReviewInv'
  BY <1>1, <1>2 DEF SellersInv, SellerTypes, ReviewInv
<1>4. AloneInv'
  BY <1>1, <1>2 DEF SellersInv, AloneInv, OneAtATime
<1> QED BY <1>3, <1>4 DEF SellersInv

LEMMA TermsKeep ==
  ASSUME SellersInv, NewTerms
  PROVE  SellersInv'
<1>1. terms' = terms + 1 /\ UNCHANGED <<setting, seller, clerk, opened, cleared>>
  BY DEF NewTerms
<1>2. SellerTypes' /\ AloneInv'
  BY <1>1 DEF SellersInv, SellerTypes, AloneInv, OneAtATime
<1>3. \A s \in Sellers : seller[s].contract \in Nat
  BY DEF SellersInv, SellerTypes, Row
<1>4. \A c \in Clerks : clerk[c] # NoClerkCall => clerk[c].write.contract \in Nat
  BY DEF SellersInv, ReviewInv, Pending, Call, Row
<1>5. ReviewInv'
  BY <1>1, <1>3, <1>4 DEF SellersInv, SellerTypes, ReviewInv, Pending
<1> QED BY <1>2, <1>5 DEF SellersInv

(* Every step of seller-service keeps the invariant, ...                     *)
LEMMA SellersStepKeeps == SellersInv /\ SellersNext => SellersInv'
<1> SUFFICES ASSUME SellersInv, SellersNext PROVE SellersInv'
  OBVIOUS
<1> QED
  BY RequestKeeps, RegisterKeeps, ApplyKeeps, FailKeeps, TermsKeep DEF SellersNext

(* ... which gives what ReviewIsHonoured says, ...                           *)
LEMMA InvariantHonoursReview == SellersInv => ReviewIsHonoured
<1> SUFFICES ASSUME SellersInv PROVE ReviewIsHonoured
  OBVIOUS
<1>1. SellersTypeOK
  BY DEF SellersInv, SellerTypes, ReviewInv, SellersTypeOK, Row
<1>2. SellsOnlyAfterReview
  BY DEF SellersInv, ReviewInv, SellsOnlyAfterReview, may_list_products, Passed
<1>3. ReviewedPapersAreOnFile /\ ReasonFitsStatus
  BY DEF SellersInv, AloneInv, Settled, ReviewedPapersAreOnFile, ReasonFitsStatus
<1> QED BY <1>1, <1>2, <1>3 DEF ReviewIsHonoured

(* ... and moves a row only along TRANSITIONS, one request at a time.        *)
LEMMA StepFollowsTransitions ==
  ASSUME SellersInv, SellersNext, OneAtATime,
         NEW s \in Sellers, seller'[s].status # seller[s].status
  PROVE  seller'[s].status \in TRANSITIONS[seller[s].status]
<1>1. ASSUME NEW c \in Clerks, _apply(c)
      PROVE  seller'[s].status \in TRANSITIONS[seller[s].status]
  <2>1. /\ clerk[c].seller = s
        /\ seller'[s] = clerk[c].write /\ seller[s] = clerk[c].read
    BY <1>1, ApplyWrites
  <2>2. Sound(clerk[c], opened[s])
    BY <1>1, <2>1 DEF _apply, SellersInv, AloneInv
  <2> QED BY <2>1, <2>2 DEF Sound
<1>2. ASSUME NEW t \in Sellers, register_seller(t)
      PROVE  seller'[s].status \in TRANSITIONS[seller[s].status]
  <2>1. t = s /\ seller[s].status = "none" /\ seller'[s].status = "registered"
    BY <1>2 DEF register_seller, SellersInv, SellerTypes, Row
  <2> QED BY <2>1 DEF TRANSITIONS, SellerStatus
<1>3. \A c, t, op, status, change : Decides(c, t, op, status, change) => seller' = seller
  BY DEF Decides
<1>4. ASSUME NEW c \in Clerks, NEW t \in Sellers
      PROVE  /\ \A incoming \in SUBSET REQUIRED_DOCUMENTS : submit_documents(c, t, incoming) => seller' = seller
             /\ start_review(c, t) => seller' = seller
             /\ \A approved \in BOOLEAN : record_review_result(c, t, approved) => seller' = seller
             /\ \A version \in 1..MaxTerms : accept_contract(c, t, version) => seller' = seller
             /\ suspend_seller(c, t) \/ reinstate_seller(c, t) \/ ban_seller(c, t) => seller' = seller
  <2>1. \A incoming \in SUBSET REQUIRED_DOCUMENTS : submit_documents(c, t, incoming) => seller' = seller
    BY <1>3, Zenon DEF submit_documents
  <2>2. \A approved \in BOOLEAN : record_review_result(c, t, approved) => seller' = seller
    BY <1>3, Zenon DEF record_review_result
  <2>3. \A version \in 1..MaxTerms : accept_contract(c, t, version) => seller' = seller
    BY <1>3, Zenon DEF accept_contract
  <2>4. start_review(c, t) => seller' = seller
    BY <1>3, Zenon DEF start_review
  <2>5. suspend_seller(c, t) \/ reinstate_seller(c, t) \/ ban_seller(c, t) => seller' = seller
    BY <1>3, Zenon DEF suspend_seller, reinstate_seller, ban_seller
  <2> QED BY <2>1, <2>2, <2>3, <2>4, <2>5
<1>5. NewTerms \/ (\E c \in Clerks : ApplyFails(c)) => seller' = seller
  BY DEF NewTerms, ApplyFails
<1>6. seller' # seller
  OBVIOUS
<1> QED BY <1>1, <1>2, <1>4, <1>5, <1>6, Zenon DEF SellersNext

(***************************************************************************)
(* The shop around it, for any sellers, products, carts and attempts: what *)
(* seller-service keeps to while checkouts run, and what an order vouches  *)
(* for.                                                                    *)
(***************************************************************************)
Places == {"idle", "validate", "sellers", "fraud", "quote", "submit",
           "placed", "refused", "conflict", "failed"}
Progress == [at : Places, checked : SUBSET Products, asked : SUBSET Sellers, blocked : SUBSET Sellers]
Verdicts == {"none", "clean", "blocked"}

(* How far a checkout has got tells what it has made sure of: a seller who   *)
(* was asked and not blocked was allowed at some time in this attempt, and   *)
(* past the sellers all of them were.                                        *)
OnTrack(a, x, allowed, seen, verdicts, quoted) ==
  /\ x.at \in {"idle", "validate"} => x.asked = {}
  /\ x.at = "sellers" \/ x.asked # {} => x.checked = CartOf[a]
  /\ x.at # "idle" => allowed \subseteq seen
  /\ x.asked \subseteq seen \cup x.blocked
  /\ x.at \in {"fraud", "quote", "submit"} => SellersIn(CartOf[a]) \subseteq seen
  /\ x.at \in {"quote", "submit"} => verdicts[OrderKey[a]] # "none"
  /\ x.at = "submit" => OrderKey[a] \in quoted

(* What stands behind an order: the attempt that placed it.                  *)
Vouched(k, o, x, seen, verdicts, quoted) ==
  /\ o \in Attempts
  /\ x.at # "idle"
  /\ SellersIn(CartOf[o]) \subseteq seen
  /\ k \in quoted
  /\ verdicts[k] # "none"

ShopTypes ==
  /\ listed \subseteq Products
  /\ prices \in [Products -> 0..MaxPrices]
  /\ evaluated \in [Keys -> Verdicts]
  /\ attempt \in [Attempts -> Progress]
  /\ DOMAIN orders = Keys /\ DOMAIN permitted = Attempts
Tracks ==
  \A a \in Attempts : OnTrack(a, attempt[a], Allowed, permitted[a], evaluated, quotes)
Orders ==
  \A k \in Keys : orders[k] # NoOrder =>
    Vouched(k, orders[k], attempt[orders[k]], permitted[orders[k]], evaluated, quotes)
ShopInv == ShopTypes /\ Tracks /\ Orders

-----------------------------------------------------------------------------
LEMMA ShopInitHolds == StorefrontInit => ShopInv
<1> SUFFICES ASSUME StorefrontInit PROVE ShopInv
  OBVIOUS
<1>1. ShopTypes
  BY StorefrontConstants DEF StorefrontInit, ShopTypes, Progress, Places, Verdicts
<1>2. Tracks
  BY DEF StorefrontInit, Tracks, OnTrack
<1>3. Orders
  BY DEF StorefrontInit, Orders
<1> QED BY <1>1, <1>2, <1>3 DEF ShopInv

(* A step of one checkout: it stays on track and forgets nothing.            *)
Moved(a, x) ==
  /\ attempt' = [attempt EXCEPT ![a] = x] /\ x \in Progress /\ x.at # "idle"
  /\ UNCHANGED <<setting, sellerVars, listed, prices>>
  /\ DOMAIN permitted' = Attempts
  /\ \A b \in Attempts \ {a} : permitted'[b] = permitted[b]
  /\ permitted'[a] = permitted[a] \/ attempt[a].at = "idle"
  /\ evaluated' \in [Keys -> Verdicts]
  /\ \A k \in Keys : evaluated[k] # "none" => evaluated'[k] # "none"
  /\ quotes \subseteq quotes'
  /\ OnTrack(a, x, Allowed, permitted'[a], evaluated', quotes')
  /\ \/ orders' = orders
     \/ /\ orders' = [orders EXCEPT ![OrderKey[a]] = IF @ = NoOrder THEN a ELSE @]
        /\ attempt[a].at = "submit"

LEMMA AttemptMoves ==
  ASSUME ShopInv, NEW a \in Attempts, NEW x, Moved(a, x)
  PROVE  ShopInv'
<1> USE DEF Moved
<1>1. attempt'[a] = x /\ \A b \in Attempts \ {a} : attempt'[b] = attempt[b]
  BY DEF ShopInv, ShopTypes
<1>2. Allowed' = Allowed
  BY DEF Allowed, may_receive_orders, may_list_products, sellerVars
<1>3. \A b \in Attempts : OrderKey[b] \in Keys
  BY DEF Keys
<1>4. ShopTypes'
  BY DEF ShopInv, ShopTypes
<1>5. \A b \in Attempts \ {a} : OnTrack(b, attempt[b], Allowed, permitted[b], evaluated', quotes')
  BY <1>3 DEF ShopInv, Tracks, OnTrack
<1>6. Tracks'
  BY <1>1, <1>2, <1>5 DEF Tracks
<1>7. ASSUME NEW k \in Keys, orders[k] # NoOrder
      PROVE  Vouched(k, orders[k], attempt'[orders[k]], permitted'[orders[k]], evaluated', quotes')
  <2>1. Vouched(k, orders[k], attempt[orders[k]], permitted[orders[k]], evaluated, quotes)
    BY <1>7 DEF ShopInv, Orders
  <2> QED BY <1>1, <2>1 DEF Vouched
<1>8. ASSUME NEW k \in Keys, orders'[k] # NoOrder
      PROVE  Vouched(k, orders'[k], attempt'[orders'[k]], permitted'[orders'[k]], evaluated', quotes')
  <2>1. CASE orders'[k] = orders[k]
    BY <1>7, <1>8, <2>1
  <2>2. CASE orders'[k] # orders[k]
    <3>1. orders'[k] = a /\ k = OrderKey[a] /\ attempt[a].at = "submit"
      BY <1>3, <2>2 DEF ShopInv, ShopTypes
    <3>2. OnTrack(a, attempt[a], Allowed, permitted[a], evaluated, quotes)
      BY DEF ShopInv, Tracks
    <3>3. permitted'[a] = permitted[a]
      BY <3>1
    <3>4. Vouched(k, a, attempt'[a], permitted'[a], evaluated', quotes')
      BY <1>1, <3>1, <3>2, <3>3 DEF OnTrack, Vouched
    <3> QED BY <3>1, <3>4
  <2> QED BY <2>1, <2>2
<1>9. Orders'
  BY <1>8 DEF Orders
<1> QED BY <1>4, <1>6, <1>9 DEF ShopInv

(* The checkout's own steps.                                                 *)
LEMMA CheckoutKeeps ==
  ASSUME ShopInv, NEW a \in Attempts, Start(a) \/ CheckoutStep(a) \/ Unanswered(a)
  PROVE  ShopInv'
<1> DEFINE was == attempt[a]
<1>0. /\ was \in Progress /\ OrderKey[a] \in Keys
      /\ OnTrack(a, was, Allowed, permitted[a], evaluated, quotes)
      /\ evaluated \in [Keys -> Verdicts] /\ DOMAIN permitted = Attempts
  BY DEF ShopInv, ShopTypes, Tracks, Keys
<1> HIDE DEF was
<1>1. CASE Start(a)
  <2> DEFINE x == [was EXCEPT !.at = IF CartOf[a] = {} THEN "refused" ELSE "validate"]
  <2>1. /\ attempt' = [attempt EXCEPT ![a] = x] /\ was.at = "idle"
        /\ permitted' = [permitted EXCEPT ![a] = Allowed]
        /\ UNCHANGED <<setting, sellerVars, listed, prices, evaluated, quotes, orders>>
    BY <1>1 DEF Start, Moves, was
  <2>2. /\ x \in Progress /\ x.at \in {"refused", "validate"}
        /\ x.asked = was.asked /\ x.checked = was.checked /\ x.blocked = was.blocked
    BY <1>0 DEF Progress, Places
  <2> HIDE DEF x
  <2>3. OnTrack(a, x, Allowed, Allowed, evaluated, quotes)
    BY <1>0, <2>1, <2>2 DEF OnTrack
  <2>4. Moved(a, x)
    BY <1>0, <2>1, <2>2, <2>3 DEF Moved, was
  <2> QED BY <2>4, AttemptMoves
<1>2. ASSUME NEW p \in Products, Validate(a, p)
      PROVE  ShopInv'
  <2> DEFINE x == IF p \in listed /\ prices[p] = 1
                  THEN [was EXCEPT !.checked = was.checked \cup {p},
                          !.at = IF was.checked \cup {p} = CartOf[a] THEN "sellers" ELSE "validate"]
                  ELSE [was EXCEPT !.at = "refused"]
  <2>1. /\ attempt' = [attempt EXCEPT ![a] = x] /\ was.at = "validate"
        /\ UNCHANGED <<setting, sellerVars, listed, prices, evaluated, quotes, orders, permitted>>
    BY <1>2 DEF Validate, was
  <2>2. /\ x \in Progress /\ x.at \in {"refused", "validate", "sellers"}
        /\ x.at = "sellers" => x.checked = CartOf[a]
        /\ x.asked = was.asked
    BY <1>0, <2>1 DEF Progress, Places
  <2> HIDE DEF x
  <2>3. OnTrack(a, x, Allowed, permitted[a], evaluated, quotes)
    BY <1>0, <2>1, <2>2 DEF OnTrack
  <2>4. Moved(a, x)
    BY <1>0, <2>1, <2>2, <2>3 DEF Moved
  <2> QED BY <2>4, AttemptMoves
<1>3. ASSUME NEW s \in Sellers, AskSeller(a, s)
      PROVE  ShopInv'
  <2>1. PICK answer \in Answers(s) :
          attempt' = [attempt EXCEPT ![a] =
            [was EXCEPT !.asked = was.asked \cup {s},
                      !.blocked = was.blocked \cup IF maySellTo(answer) THEN {} ELSE {s},
                      !.at = IF was.asked \cup {s} # SellersIn(CartOf[a]) THEN "sellers"
                             ELSE IF was.blocked \cup (IF maySellTo(answer) THEN {} ELSE {s}) = {}
                                  THEN "fraud" ELSE "refused"]]
    BY <1>3 DEF AskSeller, was
  <2> DEFINE blocked == was.blocked \cup IF maySellTo(answer) THEN {} ELSE {s}
             x == [was EXCEPT !.asked = was.asked \cup {s}, !.blocked = blocked,
                     !.at = IF was.asked \cup {s} # SellersIn(CartOf[a]) THEN "sellers"
                            ELSE IF blocked = {} THEN "fraud" ELSE "refused"]
  <2>2. /\ attempt' = [attempt EXCEPT ![a] = x] /\ was.at = "sellers"
        /\ UNCHANGED <<setting, sellerVars, listed, prices, evaluated, quotes, orders, permitted>>
    BY <1>3, <2>1 DEF AskSeller, was
  <2>3. blocked \subseteq Sellers /\ was.blocked \subseteq blocked
    BY <1>0 DEF Progress
  <2>4. s \in permitted[a] \/ s \in blocked
    <3>1. CASE maySellTo(answer)
      <4>1. s \in Allowed
        BY <3>1 DEF maySellTo, Answers, Allowed, may_receive_orders
      <4> QED BY <1>0, <2>2, <4>1 DEF OnTrack
    <3>2. CASE ~maySellTo(answer)
      BY <3>2
    <3> QED BY <3>1, <3>2
  <2> HIDE DEF blocked
  <2>5. /\ x \in Progress /\ x.at \in {"sellers", "fraud", "refused"}
        /\ x.at = "fraud" => blocked = {} /\ was.asked \cup {s} = SellersIn(CartOf[a])
        /\ x.asked = was.asked \cup {s} /\ x.blocked = blocked /\ x.checked = was.checked
    BY <1>0, <2>2, <2>3 DEF Progress, Places
  <2> HIDE DEF x
  <2>6. was.asked \cup {s} \subseteq permitted[a] \cup blocked
    BY <1>0, <2>3, <2>4 DEF OnTrack
  <2>7. OnTrack(a, x, Allowed, permitted[a], evaluated, quotes)
    BY <1>0, <2>2, <2>5, <2>6 DEF OnTrack
  <2>8. Moved(a, x)
    BY <1>0, <2>2, <2>5, <2>7 DEF Moved
  <2> QED BY <2>8, AttemptMoves
<1>4. CASE Fraud(a)
  <2> DEFINE x == [was EXCEPT !.at = "quote"]
  <2>1. PICK verdict \in {"clean", "blocked"} :
          evaluated' = [evaluated EXCEPT ![OrderKey[a]] = IF @ = "none" THEN verdict ELSE @]
    BY <1>4 DEF Fraud
  <2>2. /\ attempt' = [attempt EXCEPT ![a] = x] /\ was.at = "fraud"
        /\ UNCHANGED <<setting, sellerVars, listed, prices, quotes, orders, permitted>>
    BY <1>4 DEF Fraud, Moves, was
  <2>3. /\ evaluated' \in [Keys -> Verdicts] /\ evaluated'[OrderKey[a]] # "none"
        /\ \A k \in Keys : evaluated[k] # "none" => evaluated'[k] # "none"
    BY <1>0, <2>1 DEF Verdicts
  <2>4. /\ x \in Progress /\ x.at = "quote"
        /\ x.asked = was.asked /\ x.checked = was.checked /\ x.blocked = was.blocked
    BY <1>0 DEF Progress, Places
  <2> HIDE DEF x
  <2>5. OnTrack(a, x, Allowed, permitted[a], evaluated', quotes)
    BY <1>0, <2>2, <2>3, <2>4 DEF OnTrack
  <2>6. Moved(a, x)
    BY <1>0, <2>2, <2>3, <2>4, <2>5 DEF Moved
  <2> QED BY <2>6, AttemptMoves
<1>5. CASE Quote(a)
  <2> DEFINE x == [was EXCEPT !.at = IF OrderKey[a] \in quotes THEN "conflict" ELSE "submit"]
  <2>1. /\ attempt' = [attempt EXCEPT ![a] = x] /\ was.at = "quote"
        /\ quotes' = quotes \cup {OrderKey[a]}
        /\ UNCHANGED <<setting, sellerVars, listed, prices, evaluated, orders, permitted>>
    BY <1>5 DEF Quote, was
  <2>2. /\ x \in Progress /\ x.at \in {"conflict", "submit"}
        /\ x.asked = was.asked /\ x.checked = was.checked /\ x.blocked = was.blocked
    BY <1>0 DEF Progress, Places
  <2> HIDE DEF x
  <2>3. OnTrack(a, x, Allowed, permitted[a], evaluated, quotes')
    BY <1>0, <2>1, <2>2 DEF OnTrack
  <2>4. Moved(a, x)
    BY <1>0, <2>1, <2>2, <2>3 DEF Moved
  <2> QED BY <2>4, AttemptMoves
<1>6. ASSUME NEW where \in {"placed", "failed"},
             Moves(a, where), was.at # "idle",
             UNCHANGED <<setting, sellerVars, listed, prices, evaluated, permitted>>,
             quotes \subseteq quotes',
             orders' = orders
             \/ (/\ orders' = [orders EXCEPT ![OrderKey[a]] = IF @ = NoOrder THEN a ELSE @]
                 /\ was.at = "submit")
      PROVE  ShopInv'
  <2> DEFINE x == [was EXCEPT !.at = where]
  <2>1. attempt' = [attempt EXCEPT ![a] = x]
    BY <1>6 DEF Moves, was
  <2>2. /\ x \in Progress /\ x.at = where
        /\ x.asked = was.asked /\ x.checked = was.checked /\ x.blocked = was.blocked
    BY <1>0 DEF Progress, Places
  <2> HIDE DEF x
  <2>3. OnTrack(a, x, Allowed, permitted[a], evaluated, quotes')
    BY <1>0, <1>6, <2>2 DEF OnTrack
  <2>4. Moved(a, x)
    BY <1>0, <1>6, <2>1, <2>2, <2>3 DEF Moved, was
  <2> QED BY <2>4, AttemptMoves
<1>7. CASE Submit(a)
  <2>1. was.at = "submit" /\ was.at # "idle" /\ quotes \subseteq quotes'
    BY <1>7 DEF Submit, was
  <2> QED BY <1>6, <1>7, <2>1 DEF Submit
<1>8. CASE Unanswered(a)
  <2>1. was.at # "idle" /\ quotes \subseteq quotes' /\ evaluated' = evaluated
    BY <1>8 DEF Unanswered, was
  <2>2. \/ orders' = orders
        \/ /\ orders' = [orders EXCEPT ![OrderKey[a]] = IF @ = NoOrder THEN a ELSE @]
           /\ was.at = "submit"
    BY <1>8 DEF Unanswered, was
  <2>3. Moves(a, "failed") /\ UNCHANGED <<setting, sellerVars, listed, prices, permitted>>
    BY <1>8 DEF Unanswered
  <2> QED BY <1>6, <2>1, <2>2, <2>3
<1> QED BY <1>1, <1>2, <1>3, <1>4, <1>5, <1>7, <1>8 DEF CheckoutStep

(* A step of seller-service under the checkouts' feet: each one in progress  *)
(* sees who is allowed afterwards.                                           *)
LEMMA SellerStepKeeps ==
  ASSUME ShopInv, SellerStep
  PROVE  ShopInv'
<1>1. /\ DOMAIN permitted' = Attempts
      /\ \A a \in Attempts :
           permitted'[a] = IF attempt[a].at = "idle" THEN {} ELSE permitted[a] \cup Allowed'
      /\ UNCHANGED <<listed, listing, prices, evaluated, quotes, attempt, orders>>
  BY DEF SellerStep
<1>2. ShopTypes'
  BY <1>1 DEF ShopInv, ShopTypes
<1>3. ASSUME NEW a \in Attempts
      PROVE  OnTrack(a, attempt[a], Allowed', permitted'[a], evaluated, quotes)
  <2>1. OnTrack(a, attempt[a], Allowed, permitted[a], evaluated, quotes)
    BY DEF ShopInv, Tracks
  <2>2. CASE attempt[a].at = "idle"
    BY <1>1, <2>1, <2>2 DEF OnTrack
  <2>3. CASE attempt[a].at # "idle"
    <3>1. permitted'[a] = permitted[a] \cup Allowed'
      BY <1>1, <2>3
    <3> QED BY <2>1, <2>3, <3>1 DEF OnTrack
  <2> QED BY <2>2, <2>3
<1>4. Tracks'
  BY <1>1, <1>3 DEF Tracks
<1>5. ASSUME NEW k \in Keys, orders[k] # NoOrder
      PROVE  Vouched(k, orders[k], attempt[orders[k]], permitted'[orders[k]], evaluated, quotes)
  BY <1>1, <1>5 DEF ShopInv, Orders, Vouched
<1>6. Orders'
  BY <1>1, <1>5 DEF Orders
<1> QED BY <1>2, <1>4, <1>6 DEF ShopInv

(* Listing and pricing leave every checkout where it is.                     *)
LEMMA ListingKeeps ==
  ASSUME ShopInv, NEW p \in Products, ListBegin(p) \/ ListCommit(p) \/ set_product_price(p)
  PROVE  ShopInv'
<1>1. /\ listed' \subseteq Products /\ prices' \in [Products -> 0..MaxPrices]
      /\ UNCHANGED <<setting, sellerVars, evaluated, quotes, attempt, orders, permitted>>
  <2>1. CASE ListBegin(p)
    BY <2>1 DEF ListBegin, ShopInv, ShopTypes
  <2>2. CASE ListCommit(p)
    BY <2>2 DEF ListCommit, ShopInv, ShopTypes
  <2>3. CASE set_product_price(p)
    BY <2>3, StorefrontConstants DEF set_product_price, ShopInv, ShopTypes
  <2> QED BY <2>1, <2>2, <2>3
<1>2. Allowed' = Allowed
  BY <1>1 DEF Allowed, may_receive_orders, may_list_products, sellerVars
<1>3. ShopTypes'
  BY <1>1 DEF ShopInv, ShopTypes
<1>4. Tracks' /\ Orders'
  BY <1>1, <1>2 DEF ShopInv, Tracks, Orders
<1> QED BY <1>3, <1>4 DEF ShopInv

(* Steps of the shop leave seller-service alone.                             *)
LEMMA ShopStepLeavesSellers ==
  ASSUME StorefrontNext
  PROVE  SellersNext \/ UNCHANGED <<setting, sellerVars>>
BY ZenonT(60) DEF StorefrontNext, SellerStep, ListBegin, ListCommit, set_product_price,
       Start, CheckoutStep, Validate, AskSeller, Fraud, Quote, Submit, Unanswered

LEMMA SellersAsTheyWere ==
  ASSUME SellersInv, UNCHANGED <<setting, sellerVars>>
  PROVE  SellersInv'
<1>1. UNCHANGED <<setting, seller, terms, clerk, opened, cleared>>
  BY DEF sellerVars
<1> QED BY <1>1 DEF SellersInv, SellerTypes, ReviewInv, AloneInv, OneAtATime

StorefrontInv == SellersInv /\ ShopInv

LEMMA StorefrontStepKeeps == StorefrontInv /\ [StorefrontNext]_storefrontVars => StorefrontInv'
<1> SUFFICES ASSUME StorefrontInv, [StorefrontNext]_storefrontVars PROVE StorefrontInv'
  OBVIOUS
<1> USE DEF StorefrontInv
<1>1. SellersInv'
  BY ShopStepLeavesSellers, SellersStepKeeps, SellersAsTheyWere DEF storefrontVars
<1>2. CASE StorefrontNext
  <2>1. ShopInv'
    BY <1>2, SellerStepKeeps, ListingKeeps, CheckoutKeeps DEF StorefrontNext
  <2> QED BY <1>1, <2>1
<1>3. CASE UNCHANGED storefrontVars
  <2>1. Allowed' = Allowed
    BY <1>3 DEF Allowed, may_receive_orders, may_list_products, storefrontVars, sellerVars
  <2>2. ShopInv'
    BY <1>3, <2>1 DEF storefrontVars, shopVars, ShopInv, ShopTypes, Tracks, Orders
  <2> QED BY <1>1, <2>2
<1> QED BY <1>2, <1>3

(* StorefrontInv holds throughout: seller-service's part and the shop's.     *)
THEOREM StorefrontInvariant == StorefrontSpec => []StorefrontInv
<1>1. StorefrontInit => StorefrontInv
  BY SellersInitHolds, ShopInitHolds DEF StorefrontInit, StorefrontInv
<1> QED BY <1>1, StorefrontStepKeeps, PTL DEF StorefrontSpec

(* A review is honoured, whatever handlers of seller-service overlap and     *)
(* whichever of their commits fail: nobody lists who was never approved; and *)
(* one request at a time, papers and reasons are the reviewer's              *)
(* (seller_service, each handler and _apply).                                *)
THEOREM ReviewStaysHonoured == StorefrontSpec => []ReviewIsHonoured
<1>1. StorefrontInv => ReviewIsHonoured
  BY InvariantHonoursReview DEF StorefrontInv
<1> QED BY <1>1, StorefrontInvariant, PTL

(* One request at a time, the handlers of seller-service add up to the       *)
(* TRANSITIONS table of seller_rules, for any sellers, papers and terms.     *)
THEOREM HandlersFollowTransitions == StorefrontSpec => FollowsTransitions
<1> DEFINE Follows == \A s \in Sellers : OneAtATime /\ seller'[s].status # seller[s].status
                        => seller'[s].status \in TRANSITIONS[seller[s].status]
<1>1. StorefrontInv /\ [StorefrontNext]_storefrontVars => [Follows]_<<setting, sellerVars>>
  <2> SUFFICES ASSUME StorefrontInv, StorefrontNext, SellersNext PROVE Follows
    BY ShopStepLeavesSellers DEF storefrontVars
  <2> QED BY StepFollowsTransitions DEF StorefrontInv
<1> QED BY <1>1, StorefrontInvariant, PTL DEF StorefrontSpec, FollowsTransitions

(* bff-checkout starts no order with a seller who was stopped throughout the *)
(* checkout, for any carts, sellers and attempts, with seller-service        *)
(* changing its mind, not answering, or both.                                *)
THEOREM StoppedSellersGetNoOrder == StorefrontSpec => []NoOrderFromStoppedSeller
<1>1. StorefrontInv => NoOrderFromStoppedSeller
  BY DEF StorefrontInv, ShopInv, Orders, Vouched, NoOrderFromStoppedSeller
<1> QED BY <1>1, StorefrontInvariant, PTL

(* Every order was evaluated and quoted under its own key, for any number of *)
(* attempts with the same key and whichever of their calls time out          *)
(* (bff-checkout, POST /api/checkout).                                       *)
THEOREM OrdersWereQuoted == StorefrontSpec => []OrderedOnlyWhatWasQuoted
<1>1. ASSUME StorefrontInv PROVE StorefrontTypeOK
  <2>1. \A k \in Keys : orders[k] \in Attempts \cup {NoOrder}
    BY <1>1 DEF StorefrontInv, ShopInv, Orders, Vouched
  <2>2. \A a \in Attempts : attempt[a].asked # {} => attempt[a].checked = CartOf[a]
    BY <1>1 DEF StorefrontInv, ShopInv, Tracks, OnTrack
  <2> QED BY <1>1, <2>1, <2>2 DEF StorefrontInv, ShopInv, ShopTypes, Verdicts, StorefrontTypeOK
<1>2. StorefrontInv => OrderedOnlyWhatWasQuoted
  BY <1>1 DEF StorefrontInv, ShopInv, Orders, Vouched, OrderedOnlyWhatWasQuoted
<1> QED BY <1>2, StorefrontInvariant, PTL

(***************************************************************************)
(* reviews-service: ReviewsAreEarned and ReportsCount for any readers and  *)
(* submissions.                                                            *)
(***************************************************************************)
People == Readers \cup {Author}
Submission == [step : {"free", "fetch", "count", "commit"}, by : reviewSetting.by \cup {Author},
               key : reviewSetting.keys \cup {0}, status : OrderStatuses \cup {"none"}, already : BOOLEAN]
ReportRequest == [step : {"free", "file", "count"}, state : {"none", "visible", "hidden_pending_review"}]

(* The submissions: a key names what was written, a purchase is reviewed     *)
(* once, and what was fetched as delivered still is.                         *)
SubmitInv ==
  /\ reviewSetting \in ReviewSettings /\ windowOpen \in BOOLEAN /\ editOpen \in BOOLEAN
  /\ orderStatus \in OrderStatuses
  /\ written \subseteq Writers /\ keyOf \in [reviewSetting.keys -> Writers \cup {0}]
  /\ submit \in [Writers -> Submission]
  /\ \A w \in Writers : submit[w].step # "free" => submit[w].key \in reviewSetting.keys
  /\ \A v, w \in written : v = w
  /\ \A k \in reviewSetting.keys : keyOf[k] # 0 => keyOf[k] \in written
  /\ \A w \in Writers : /\ submit[w].status \in DELIVERED_STATES => orderStatus \in DELIVERED_STATES
                        /\ submit[w].step = "commit" => submit[w].status \in DELIVERED_STATES
  /\ Published => orderStatus \in DELIVERED_STATES

(* The reports: only others report; while nobody has ruled a report that is  *)
(* being handled has read "visible" if the review still is, and one that     *)
(* has yet to count is what is left to do when enough have been filed.       *)
ReportInv ==
  /\ report \in [People -> ReportRequest] /\ reports \subseteq Readers \cup {Author}
  /\ IsFiniteSet(reports) /\ Author \notin reports
  /\ \A r \in People : report[r].step # "free" => r # Author /\ report[r].state # "none"
  /\ moderation \in {"visible", "hidden_pending_review", "removed", "cleared"}
  /\ ruling \in {"none", "removed", "cleared"} /\ contested \in BOOLEAN /\ crashed \in Nat
  /\ ruling = "none" => moderation \in {"visible", "hidden_pending_review"}
  /\ ruling = "none" /\ moderation = "visible" =>
       \A r \in People : report[r].step # "free" => report[r].state = "visible"
  /\ moderation = "hidden_pending_review" => Cardinality(reports) >= REPORTS_TO_HIDE
  /\ (/\ Cardinality(reports) >= REPORTS_TO_HIDE /\ ruling = "none" /\ crashed = 0
      /\ moderation # "hidden_pending_review") => \E r \in People : report[r].step = "count"
  /\ ruling # "none" /\ ~contested =>
       moderation = ruling /\ \A r \in People : report[r].step = "free"

ReviewsInv == SubmitInv /\ ReportInv /\ rating \in Stars

(* The invariant holds before the first submission.                          *)
LEMMA InitReviews == ReviewsInit => ReviewsInv
<1> SUFFICES ASSUME ReviewsInit PROVE ReviewsInv
  OBVIOUS
<1>1. reviewSetting \in ReviewSettings /\ orderStatus \in OrderStatuses
  BY ReviewConstants DEF ReviewsInit
<1>2. NoSubmit \in Submission /\ NoSubmit.step = "free" /\ NoSubmit.status = "none"
  BY DEF NoSubmit, Submission, OrderStatuses
<1>3. submit \in [Writers -> Submission] /\ \A w \in Writers : submit[w] = NoSubmit
  BY <1>2 DEF ReviewsInit
<1>4. SubmitInv
  BY <1>1, <1>2, <1>3 DEF ReviewsInit, SubmitInv, Published, DELIVERED_STATES
<1>5. NoReport \in ReportRequest /\ NoReport.step = "free"
  BY DEF NoReport, ReportRequest
<1>6. report \in [People -> ReportRequest] /\ \A r \in People : report[r].step = "free"
  BY <1>5 DEF ReviewsInit, People
<1>7. IsFiniteSet(reports) /\ Cardinality(reports) = 0 /\ reports = {}
  BY FS_EmptySet DEF ReviewsInit
<1>8. ~(Cardinality(reports) >= REPORTS_TO_HIDE)
  BY <1>7, ReviewConstants
<1>9. ReportInv
  BY <1>6, <1>7, <1>8 DEF ReviewsInit, ReportInv
<1> QED
  BY <1>4, <1>9 DEF ReviewsInit, ReviewsInv, Stars

(* What a submission may become without a commit.                            *)
Follows(x) ==
  /\ x \in Submission
  /\ x.step # "free" => x.key \in reviewSetting.keys
  /\ x.status \in DELIVERED_STATES => orderStatus \in DELIVERED_STATES
  /\ x.step = "commit" => x.status \in DELIVERED_STATES

(* One submission takes a step; the others stay where they were.             *)
LEMMA SubmissionMoves ==
  ASSUME ReviewsInv, NEW w \in Writers, NEW x, Follows(x), submit' = [submit EXCEPT ![w] = x],
         UNCHANGED <<reviewSetting, orderStatus, windowOpen, editOpen, written, keyOf>>
  PROVE  SubmitInv'
<1>1. \A v \in Writers : submit'[v] = IF v = w THEN x ELSE submit[v]
  BY DEF ReviewsInv, SubmitInv
<1>2. Submission' = Submission
  BY DEF Submission
<1>3. submit' \in [Writers -> Submission']
  BY <1>2 DEF ReviewsInv, SubmitInv, Follows
<1>4. Published' = Published
  BY DEF Published
<1> QED
  BY <1>1, <1>3, <1>4 DEF ReviewsInv, SubmitInv, Follows

(* An idle writer has nothing to answer for.                                 *)
LEMMA NothingFollows == Follows(NoSubmit) /\ NoSubmit \in Submission /\ NoSubmit.step = "free"
BY DEF Follows, NoSubmit, Submission, OrderStatuses, DELIVERED_STATES

(* Steps of a submission.                                                    *)
LEMMA SubmittingKeeps ==
  ASSUME ReviewsInv, NEW w \in Writers,
         \/ Submitting(w)
         \/ \E by \in reviewSetting.by, k \in reviewSetting.keys : SubmitBegin(w, by, k)
  PROVE  ReviewsInv'
<1>1. UNCHANGED <<reviewSetting, orderStatus, windowOpen, editOpen, moderated, editing, crashed>>
  BY DEF Submitting, SubmitBegin, FetchPurchase, Judge, Publish, surroundings
<1>2. ReportInv' /\ rating' \in Stars
  BY <1>1 DEF ReviewsInv, ReportInv, moderated, editing
<1> SUFFICES SubmitInv'
  BY <1>2 DEF ReviewsInv
<1>3. Submission' = Submission
  BY <1>1 DEF Submission
<1>4. submit[w] \in Submission
  BY DEF ReviewsInv, SubmitInv
<1>5. ASSUME NEW by \in reviewSetting.by, NEW k \in reviewSetting.keys, SubmitBegin(w, by, k)
      PROVE  SubmitInv'
  <2> DEFINE x == [NoSubmit EXCEPT !.step = "fetch", !.by = by, !.key = k]
  <2>1. x \in Submission /\ x.step = "fetch" /\ x.key = k /\ x.status = "none"
    BY DEF NoSubmit, Submission, OrderStatuses
  <2>2. submit' = [submit EXCEPT ![w] = x] /\ UNCHANGED <<written, keyOf>>
    BY <1>5 DEF SubmitBegin
  <2> HIDE DEF x
  <2> QED
    BY <1>1, <2>1, <2>2, SubmissionMoves DEF Follows, DELIVERED_STATES
<1>6. CASE FetchPurchase(w)
  <2> DEFINE x == [submit[w] EXCEPT !.step = "count", !.status = orderStatus]
  <2>1. /\ x \in Submission /\ x.step = "count" /\ x.key = submit[w].key /\ x.status = orderStatus
        /\ submit[w].step = "fetch"
    BY <1>4, <1>6 DEF Submission, FetchPurchase, ReviewsInv, SubmitInv
  <2>2. submit' = [submit EXCEPT ![w] = x] /\ UNCHANGED <<written, keyOf>>
    BY <1>4, <1>6 DEF FetchPurchase, ReviewsInv, SubmitInv, Submission
  <2>3. submit[w].key \in reviewSetting.keys
    BY <2>1 DEF ReviewsInv, SubmitInv
  <2> HIDE DEF x
  <2> QED
    BY <1>1, <2>1, <2>2, <2>3, SubmissionMoves DEF Follows
<1>7. CASE Judge(w)
  <2>1. UNCHANGED <<written, keyOf>> /\ submit[w].step = "count"
    BY <1>7 DEF Judge
  <2>2. CASE may_review(submit[w].by, submit[w].status, Published)
    <3> DEFINE x == [submit[w] EXCEPT !.step = "commit"]
    <3>1. x \in Submission /\ x.step = "commit" /\ x.key = submit[w].key /\ x.status = submit[w].status
      BY <1>4 DEF Submission
    <3>2. submit' = [submit EXCEPT ![w] = x]
      BY <1>7, <2>2 DEF Judge
    <3>3. submit[w].key \in reviewSetting.keys /\ submit[w].status \in DELIVERED_STATES
      BY <2>1, <2>2 DEF ReviewsInv, SubmitInv, may_review
    <3>4. orderStatus \in DELIVERED_STATES
      BY <3>3 DEF ReviewsInv, SubmitInv
    <3> HIDE DEF x
    <3> QED
      BY <1>1, <2>1, <3>1, <3>2, <3>3, <3>4, SubmissionMoves DEF Follows
  <2>3. CASE ~may_review(submit[w].by, submit[w].status, Published)
    <3>1. submit' = [submit EXCEPT ![w] = NoSubmit]
      BY <1>7, <2>3 DEF Judge
    <3> QED
      BY <1>1, <2>1, <3>1, NothingFollows, SubmissionMoves
  <2> QED
    BY <2>2, <2>3
<1>8. CASE Publish(w)
  <2>1. submit[w].step = "commit" /\ submit' = [submit EXCEPT ![w] = NoSubmit]
    BY <1>8 DEF Publish
  <2>2. CASE Published \/ keyOf[submit[w].key] # 0
    <3>1. UNCHANGED <<written, keyOf>>
      BY <1>8, <2>2 DEF Publish
    <3> QED
      BY <1>1, <2>1, <3>1, NothingFollows, SubmissionMoves
  <2>3. CASE ~(Published \/ keyOf[submit[w].key] # 0)
    <3>1. written = {} /\ written' = {w} /\ keyOf' = [keyOf EXCEPT ![submit[w].key] = w]
      BY <1>8, <2>3 DEF Publish, Published
    <3>2. submit[w].key \in reviewSetting.keys /\ orderStatus \in DELIVERED_STATES
      BY <2>1 DEF ReviewsInv, SubmitInv
    <3>3. \A k \in reviewSetting.keys : keyOf[k] = 0
      BY <3>1 DEF ReviewsInv, SubmitInv
    <3>4. keyOf' \in [reviewSetting.keys -> Writers \cup {0}]
      BY <3>1, <3>2 DEF ReviewsInv, SubmitInv
    <3>5. \A k \in reviewSetting.keys : keyOf'[k] \in {0, w}
      BY <3>1, <3>2, <3>3 DEF ReviewsInv, SubmitInv
    <3>6. \A v \in Writers : submit'[v] = IF v = w THEN NoSubmit ELSE submit[v]
      BY <2>1 DEF ReviewsInv, SubmitInv
    <3>7. submit' \in [Writers -> Submission']
      BY <1>3, <2>1, NothingFollows DEF ReviewsInv, SubmitInv
    <3>8. \A v \in Writers : /\ submit'[v].step # "free" => submit'[v].key \in reviewSetting.keys
                             /\ submit'[v].step = "commit" => submit'[v].status \in DELIVERED_STATES
      BY <3>6, NothingFollows DEF ReviewsInv, SubmitInv
    <3>9. \A v, u \in written' : v = u
      BY <3>1
    <3>10. written' \subseteq Writers /\ \A k \in reviewSetting.keys : keyOf'[k] # 0 => keyOf'[k] \in written'
      BY <3>1, <3>5
    <3> QED
      BY <1>1, <3>2, <3>4, <3>7, <3>8, <3>9, <3>10 DEF ReviewsInv, SubmitInv
  <2> QED
    BY <2>2, <2>3
<1> QED
  BY <1>5, <1>6, <1>7, <1>8 DEF Submitting

(* What a reader's request may become without a word on the review.          *)
LEMMA ReportMoves ==
  ASSUME ReviewsInv, NEW r \in People, NEW x \in ReportRequest,
         report' = [report EXCEPT ![r] = x],
         UNCHANGED <<moderation, ruling, contested>>,
         reports' = reports \/ (reports' = reports \cup {r} /\ r # Author),
         x.step # "free" => r # Author /\ x.state # "none",
         x.step # "free" /\ ruling = "none" /\ moderation = "visible" => x.state = "visible",
         ruling # "none" /\ ~contested => x.step = "free",
         \/ x.step = "count"
         \/ reports' = reports /\ report[r].step # "count"
         \/ crashed' # 0,
         crashed' = crashed \/ crashed' = crashed + 1
  PROVE  ReportInv'
<1>1. \A q \in People : report'[q] = IF q = r THEN x ELSE report[q]
  BY DEF ReviewsInv, ReportInv
<1>2. report' \in [People -> ReportRequest] /\ reports' \subseteq Readers \cup {Author} /\ Author \notin reports'
  BY DEF ReviewsInv, ReportInv, People
<1>3. IsFiniteSet(reports') /\ reports \subseteq reports'
  BY FS_AddElement DEF ReviewsInv, ReportInv
<1>4. moderation = "hidden_pending_review" => Cardinality(reports') >= REPORTS_TO_HIDE
  <2>1. Cardinality(reports) <= Cardinality(reports')
    BY <1>3, FS_Subset
  <2>2. Cardinality(reports) \in Nat /\ Cardinality(reports') \in Nat /\ REPORTS_TO_HIDE \in Nat
    BY <1>3, FS_CardinalityType, ReviewConstants DEF ReviewsInv, ReportInv
  <2>3. moderation = "hidden_pending_review" => Cardinality(reports) >= REPORTS_TO_HIDE
    BY DEF ReviewsInv, ReportInv
  <2> QED
    BY <2>1, <2>2, <2>3
<1>5. crashed' \in Nat /\ (crashed' = 0 => crashed = 0)
  BY DEF ReviewsInv, ReportInv
<1>6. ASSUME Cardinality(reports') >= REPORTS_TO_HIDE, ruling = "none", crashed' = 0,
             moderation # "hidden_pending_review"
      PROVE  \E q \in People : report'[q].step = "count"
  <2>1. CASE x.step = "count"
    BY <1>1, <2>1
  <2>2. CASE reports' = reports /\ report[r].step # "count"
    <3>1. PICK q \in People : report[q].step = "count"
      BY <1>5, <1>6, <2>2 DEF ReviewsInv, ReportInv
    <3>2. q # r
      BY <2>2, <3>1
    <3> QED
      BY <1>1, <3>1, <3>2
  <2> QED
    BY <1>6, <2>1, <2>2
<1>7. \A q \in People : report'[q].step # "free" => q # Author /\ report'[q].state # "none"
  BY <1>1 DEF ReviewsInv, ReportInv
<1>8. ruling = "none" /\ moderation = "visible" =>
        \A q \in People : report'[q].step # "free" => report'[q].state = "visible"
  BY <1>1 DEF ReviewsInv, ReportInv
<1>9. ruling # "none" /\ ~contested =>
        moderation = ruling /\ \A q \in People : report'[q].step = "free"
  BY <1>1 DEF ReviewsInv, ReportInv
<1>10. /\ moderation \in {"visible", "hidden_pending_review", "removed", "cleared"}
       /\ ruling \in {"none", "removed", "cleared"} /\ contested \in BOOLEAN
       /\ ruling = "none" => moderation \in {"visible", "hidden_pending_review"}
  BY DEF ReviewsInv, ReportInv
<1> QED
  BY <1>2, <1>3, <1>4, <1>5, <1>6, <1>7, <1>8, <1>9, <1>10 DEF ReportInv

(* report_review.                                                            *)
LEMMA ReportingKeeps ==
  ASSUME ReviewsInv, NEW r \in reviewSetting.reporters, Reporting(r)
  PROVE  ReviewsInv'
<1>1. /\ UNCHANGED <<surroundings, submission, ruling, contested, editing>>
  BY DEF Reporting, ReportBegin, File, CountReports, ReportCrashes
<1>2. SubmitInv' /\ rating' \in Stars
  BY <1>1 DEF ReviewsInv, SubmitInv, Submission, Published, surroundings, submission, editing
<1>3. r \in People /\ report[r] \in ReportRequest
  BY ReviewConstants DEF ReviewsInv, SubmitInv, ReportInv, People
<1>4. NoReport \in ReportRequest /\ NoReport.step = "free"
  BY DEF NoReport, ReportRequest
<1> SUFFICES ReportInv'
  BY <1>2 DEF ReviewsInv
<1>5. CASE ReportBegin(r)
  <2> DEFINE x == [step |-> "file", state |-> moderation]
  <2>1. /\ report' = [report EXCEPT ![r] = x] /\ UNCHANGED <<moderation, reports, crashed>>
        /\ r # Author /\ moderation \in {"visible", "hidden_pending_review"}
        /\ report[r].step = "free"
    BY <1>5 DEF ReportBegin, may_report
  <2>2. x \in ReportRequest /\ x.step = "file" /\ x.state = moderation
    BY <2>1 DEF ReportRequest
  <2>3. ~(ruling # "none" /\ ~contested)
    BY <2>1 DEF ReviewsInv, ReportInv
  <2> HIDE DEF x
  <2> QED
    BY <1>1, <1>3, <2>1, <2>2, <2>3, ReportMoves
<1>6. CASE File(r)
  <2>1. /\ report[r].step = "file" /\ reports' = reports \cup {r}
        /\ report' = [report EXCEPT ![r] = IF r \in reports THEN NoReport ELSE [report[r] EXCEPT !.step = "count"]]
        /\ UNCHANGED <<moderation, crashed>>
    BY <1>6 DEF File
  <2>2. r # Author /\ report[r].state # "none" /\ ~(ruling # "none" /\ ~contested)
    BY <1>3, <2>1 DEF ReviewsInv, ReportInv
  <2>3. CASE r \in reports
    <3>1. reports' = reports /\ report' = [report EXCEPT ![r] = NoReport]
      BY <2>1, <2>3
    <3> QED
      BY <1>1, <1>3, <1>4, <2>1, <2>2, <3>1, ReportMoves
  <2>4. CASE r \notin reports
    <3> DEFINE x == [report[r] EXCEPT !.step = "count"]
    <3>1. x \in ReportRequest /\ x.step = "count" /\ x.state = report[r].state
      BY <1>3 DEF ReportRequest
    <3>2. report' = [report EXCEPT ![r] = x]
      BY <2>1, <2>4
    <3>3. ruling = "none" /\ moderation = "visible" => report[r].state = "visible"
      BY <1>3, <2>1 DEF ReviewsInv, ReportInv
    <3> HIDE DEF x
    <3> QED
      BY <1>1, <1>3, <2>1, <2>2, <3>1, <3>2, <3>3, ReportMoves
  <2> QED
    BY <2>3, <2>4
<1>7. CASE ReportCrashes(r)
  <2>1. /\ report' = [report EXCEPT ![r] = NoReport] /\ crashed' = crashed + 1 /\ crashed \in Nat
        /\ UNCHANGED <<moderation, reports>>
    BY <1>7 DEF ReportCrashes, ReviewsInv, ReportInv
  <2>2. crashed' # 0
    BY <2>1
  <2> QED
    BY <1>1, <1>3, <1>4, <2>1, <2>2, ReportMoves
<1>8. CASE CountReports(r)
  <2>1. /\ report[r].step = "count" /\ report' = [report EXCEPT ![r] = NoReport]
        /\ UNCHANGED <<reports, crashed>>
        /\ LET new == state_after_report(report[r].state, Cardinality(reports))
           IN  moderation' = IF new # report[r].state THEN new ELSE moderation
    BY <1>8 DEF CountReports
  <2>2. \A q \in People : report'[q] = IF q = r THEN NoReport ELSE report[q]
    BY <2>1 DEF ReviewsInv, ReportInv
  <2>3. report' \in [People -> ReportRequest]
    BY <1>4, <2>1 DEF ReviewsInv, ReportInv
  <2>4. ~(ruling # "none" /\ ~contested)
    BY <1>3, <2>1 DEF ReviewsInv, ReportInv
  <2>5. CASE report[r].state = "visible" /\ Cardinality(reports) >= REPORTS_TO_HIDE
    <3>1. moderation' = "hidden_pending_review"
      BY <2>1, <2>5 DEF state_after_report
    <3>2. \A q \in People : report'[q].step # "free" => q # Author /\ report'[q].state # "none"
      BY <1>4, <2>2 DEF ReviewsInv, ReportInv
    <3> QED
      BY <1>1, <2>1, <2>3, <2>4, <2>5, <3>1, <3>2 DEF ReviewsInv, ReportInv
  <2>6. CASE ~(report[r].state = "visible" /\ Cardinality(reports) >= REPORTS_TO_HIDE)
    <3>1. moderation' = moderation
      BY <2>1, <2>6 DEF state_after_report
    <3>2. \A q \in People : report'[q].step # "free" => report'[q] = report[q]
      BY <1>4, <2>2
    <3>3. \A q \in People : report'[q].step # "free" => q # Author /\ report'[q].state # "none"
      BY <3>2 DEF ReviewsInv, ReportInv
    <3>4. ruling = "none" /\ moderation = "visible" =>
            \A q \in People : report'[q].step # "free" => report'[q].state = "visible"
      BY <3>2 DEF ReviewsInv, ReportInv
    <3>5. ASSUME Cardinality(reports) >= REPORTS_TO_HIDE, ruling = "none", crashed = 0,
                 moderation # "hidden_pending_review"
          PROVE  FALSE
      <4>1. moderation = "visible"
        BY <3>5 DEF ReviewsInv, ReportInv
      <4>2. report[r].state = "visible"
        BY <1>3, <2>1, <3>5, <4>1 DEF ReviewsInv, ReportInv
      <4> QED
        BY <2>6, <3>5, <4>2
    <3> QED
      BY <1>1, <2>1, <2>3, <2>4, <3>1, <3>3, <3>4, <3>5 DEF ReviewsInv, ReportInv
  <2> QED
    BY <2>5, <2>6
<1> QED
  BY <1>5, <1>6, <1>7, <1>8 DEF Reporting

(* moderate_review.                                                          *)
LEMMA ModerateKeeps ==
  ASSUME ReviewsInv, NEW d \in {"removed", "cleared"}, moderate_review(d)
  PROVE  ReviewsInv'
<1>1. /\ ruling' = d /\ moderation' = d
      /\ contested' = (\E r \in DOMAIN report : report[r].step # "free")
      /\ UNCHANGED <<surroundings, submission, reports, report, editing, crashed>>
  BY DEF moderate_review
<1>2. SubmitInv' /\ rating' \in Stars
  BY <1>1 DEF ReviewsInv, SubmitInv, Submission, Published, surroundings, submission, editing
<1>3. contested' \in BOOLEAN /\ (~contested' => \A r \in People : report[r].step = "free")
  BY <1>1 DEF ReviewsInv, ReportInv
<1>4. ReportInv'
  BY <1>1, <1>3 DEF ReviewsInv, ReportInv
<1> QED
  BY <1>2, <1>4 DEF ReviewsInv

(* Every step keeps the invariant.                                           *)
LEMMA NextKeepsReviews == ReviewsInv /\ [ReviewsNext]_reviewVars => ReviewsInv'
<1> SUFFICES ASSUME ReviewsInv, [ReviewsNext]_reviewVars PROVE ReviewsInv'
  OBVIOUS
<1>1. CASE EditBegin \/ \E stars \in Stars : EditCommits(stars)
  <2>1. UNCHANGED <<surroundings, submission, moderated, crashed>> /\ rating' \in Stars
    BY <1>1 DEF EditBegin, EditCommits, ReviewsInv
  <2>2. SubmitInv'
    BY <2>1 DEF ReviewsInv, SubmitInv, Submission, Published, surroundings, submission
  <2>3. ReportInv'
    BY <2>1 DEF ReviewsInv, ReportInv, moderated
  <2> QED
    BY <2>1, <2>2, <2>3 DEF ReviewsInv
<1>2. CASE OrderMoves \/ WindowCloses \/ EditWindowCloses
  <2>1. /\ UNCHANGED <<reviewSetting, submission, moderated, editing, crashed>>
        /\ windowOpen' \in BOOLEAN /\ editOpen' \in BOOLEAN
        /\ orderStatus' \in OrderStatuses
        /\ orderStatus \in DELIVERED_STATES => orderStatus' \in DELIVERED_STATES
    BY <1>2 DEF OrderMoves, WindowCloses, EditWindowCloses, ReviewsInv, SubmitInv, OrderStatuses, DELIVERED_STATES
  <2>2. SubmitInv'
    BY <2>1 DEF ReviewsInv, SubmitInv, Submission, Published, submission
  <2>3. ReportInv' /\ rating' \in Stars
    BY <2>1 DEF ReviewsInv, ReportInv, moderated, editing
  <2> QED
    BY <2>2, <2>3 DEF ReviewsInv
<1>3. CASE UNCHANGED reviewVars
  <2>1. SubmitInv'
    BY <1>3 DEF reviewVars, ReviewsInv, SubmitInv, Submission, Published
  <2>2. ReportInv' /\ rating' \in Stars
    BY <1>3 DEF reviewVars, ReviewsInv, ReportInv
  <2> QED
    BY <2>1, <2>2 DEF ReviewsInv
<1> QED
  BY <1>1, <1>2, <1>3, SubmittingKeeps, ReportingKeeps, ModerateKeeps DEF ReviewsNext

(* The invariant behind the two theorems on reviews.                         *)
THEOREM ReviewInvariant == ReviewsSpec => []ReviewsInv
BY InitReviews, NextKeepsReviews, PTL DEF ReviewsSpec

(* A purchase is reviewed at most once, a key names a review that was        *)
(* written, and what was reviewed had been delivered: for any number of      *)
(* submissions judged at the same time.                                      *)
THEOREM ReviewsStayEarned == ReviewsSpec => []ReviewsAreEarned
<1>1. ReviewsInv => ReviewsAreEarned
  <2> SUFFICES ASSUME ReviewsInv PROVE ReviewsAreEarned
    OBVIOUS
  <2>1. ReviewsTypeOK
    BY DEF ReviewsInv, SubmitInv, ReportInv, Submission, ReportRequest, People, ReviewsTypeOK
  <2>2. Cardinality(written) <= 1
    <3>1. CASE written = {}
      BY <3>1, FS_EmptySet
    <3>2. CASE written # {}
      <4>0. PICK w \in written : TRUE
        BY <3>2
      <4>1. written = {w}
        BY <4>0 DEF ReviewsInv, SubmitInv
      <4>2. Cardinality(written) = 1
        BY <4>1, FS_Singleton
      <4> QED
        BY <4>2
    <3> QED
      BY <3>1, <3>2
  <2>3. OneReviewPerPurchase
    BY <2>2 DEF ReviewsInv, SubmitInv, OneReviewPerPurchase
  <2>4. ReviewedWasDelivered
    BY DEF ReviewsInv, SubmitInv, ReviewedWasDelivered
  <2> QED
    BY <2>1, <2>3, <2>4 DEF ReviewsAreEarned
<1> QED
  BY <1>1, ReviewInvariant, PTL

(* Reports hide a review exactly when REPORTS_TO_HIDE others have filed one  *)
(* and none is being handled, and a ruling made while none was stands: for   *)
(* any number of readers and whatever the order of the commits.              *)
THEOREM ReportsAlwaysCount == ReviewsSpec => []ReportsCount
<1>1. ReviewsInv => ReportsCount
  <2> SUFFICES ASSUME ReviewsInv PROVE ReportsCount
    OBVIOUS
  <2>1. reports \ {Author} = reports /\ DOMAIN report = People
    BY DEF ReviewsInv, ReportInv
  <2>2. HiddenByEnoughReaders
    BY <2>1 DEF ReviewsInv, ReportInv, HiddenByEnoughReaders
  <2>3. EnoughReportsHide
    BY <2>1 DEF ReviewsInv, ReportInv, EnoughReportsHide
  <2>4. QuietRulingStands
    BY DEF ReviewsInv, ReportInv, QuietRulingStands
  <2> QED
    BY <2>2, <2>3, <2>4 DEF ReportsCount
<1> QED
  BY <1>1, ReviewInvariant, PTL

=============================================================================

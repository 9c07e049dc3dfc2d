------------------------------ MODULE Reviews ------------------------------
(***************************************************************************)
(* reviews-service: one product of one purchase, the submissions, edits and *)
(* reports made of it at the same time, and the moderator.                  *)
(***************************************************************************)
EXTENDS Integers, FiniteSets

CONSTANTS
  Author,           \* the buyer of the purchase
  Readers,          \* other people
  Writers,          \* submissions in service at once
  REPORTS_TO_HIDE,
  ReviewSettings    \* [status, contains, rulings, crashes, keys, by, reporters, clock]

OrderStatuses == {"DISPATCHED", "DELIVERED", "SETTLED", "RETURNED"}

ASSUME ReviewConstants ==
  /\ REPORTS_TO_HIDE \in Nat \ {0}
  /\ \A s \in ReviewSettings : s.status \in OrderStatuses /\ s.reporters \subseteq Readers \cup {Author}

VARIABLES
  reviewSetting,
  orderStatus,      \* order-saga: the purchase's seller order
  windowOpen,       \* REVIEW_WINDOW_DAYS since delivery have not passed
  editOpen,         \* EDIT_WINDOW_DAYS since the review have not passed
  written,          \* per submission that committed: its review row
  keyOf,            \* idempotency_keys: key -> the submission whose row it names
  submit,           \* per submission: step, key, by, and what it has read
  moderation,       \* moderation_state of the first row
  ruling,           \* the moderator's last word, or "none"
  reports,          \* review_reports: who has reported it
  report,           \* per reader: step and the moderation state read
  rating,           \* product_rating of the first row
  edit,             \* the author's edit: step, and the row as loaded
  contested,        \* a report was being handled when the moderator ruled
  crashed

reviewVars == <<reviewSetting, orderStatus, windowOpen, editOpen, written, keyOf, submit, moderation,
                ruling, reports, report, rating, edit, contested, crashed>>

NoSubmit == [step |-> "free", by |-> Author, key |-> 0, status |-> "none", already |-> FALSE]
Stars == {1, 5}
NoEdit == [step |-> "free", state |-> "none"]
NoReport == [step |-> "free", state |-> "none"]
DELIVERED_STATES == {"DELIVERED", "SETTLED"}
Published == written # {}

ReviewsInit ==
  /\ reviewSetting \in ReviewSettings
  /\ orderStatus = reviewSetting.status /\ windowOpen = TRUE /\ editOpen = TRUE
  /\ written = {} /\ keyOf = [k \in reviewSetting.keys |-> 0]
  /\ submit = [w \in Writers |-> NoSubmit]
  /\ moderation = "visible" /\ ruling = "none" /\ reports = {}
  /\ report = [r \in Readers \cup {Author} |-> NoReport]
  /\ rating = 5 /\ edit = NoEdit /\ contested = FALSE /\ crashed = 0

surroundings == <<reviewSetting, orderStatus, windowOpen, editOpen>>
submission == <<written, keyOf, submit>>
editing == <<rating, edit>>
moderated == <<moderation, ruling, contested, reports, report>>

-----------------------------------------------------------------------------
(* submit_review *)

\* The key is looked up first; a stored one answers with its review.
SubmitBegin(w, by, k) ==
  /\ submit[w].step = "free" /\ w \notin written
  /\ keyOf[k] = 0
  /\ submit' = [submit EXCEPT ![w] = [NoSubmit EXCEPT !.step = "fetch", !.by = by, !.key = k]]
  /\ UNCHANGED <<surroundings, written, keyOf, moderated, editing, crashed>>

\* fetch_purchase
FetchPurchase(w) ==
  /\ submit[w].step = "fetch"
  /\ submit' = [submit EXCEPT ![w].step = "count", ![w].status = orderStatus]
  /\ UNCHANGED <<surroundings, written, keyOf, moderated, editing, crashed>>

may_review(by, status, already) ==
  /\ by = Author
  /\ status \in DELIVERED_STATES
  /\ reviewSetting.contains
  /\ ~already
  /\ windowOpen

\* The count of reviews, and may_review with what was fetched before it.
Judge(w) ==
  /\ submit[w].step = "count"
  /\ submit' = IF may_review(submit[w].by, submit[w].status, Published)
               THEN [submit EXCEPT ![w].step = "commit"]
               ELSE [submit EXCEPT ![w] = NoSubmit]
  /\ UNCHANGED <<surroundings, written, keyOf, moderated, editing, crashed>>

\* Fault: the count is all that stands against a second review.
PublishUnguarded(w) ==
  /\ submit[w].step = "commit"
  /\ written' = written \cup {w} /\ keyOf' = [keyOf EXCEPT ![submit[w].key] = w]
  /\ submit' = [submit EXCEPT ![w] = NoSubmit]
  /\ UNCHANGED <<surroundings, moderated, editing, crashed>>

\* The row, its event and its key in one commit, which the unique constraint
\* on (seller_order_id, product_id) and the key's primary key may refuse.
Publish(w) ==
  /\ submit[w].step = "commit"
  /\ IF Published \/ keyOf[submit[w].key] # 0
     THEN UNCHANGED <<written, keyOf>>
     ELSE written' = {w} /\ keyOf' = [keyOf EXCEPT ![submit[w].key] = w]
  /\ submit' = [submit EXCEPT ![w] = NoSubmit]
  /\ UNCHANGED <<surroundings, moderated, editing, crashed>>

-----------------------------------------------------------------------------
(* report_review *)

may_report(state, who) == who # Author /\ state \in {"visible", "hidden_pending_review"}

\* db.get: the row as it is now, kept until the request ends.
ReportBegin(r) ==
  /\ Published /\ report[r].step = "free"
  /\ may_report(moderation, r)
  /\ report' = [report EXCEPT ![r] = [step |-> "file", state |-> moderation]]
  /\ UNCHANGED <<surroundings, submission, moderation, ruling, contested, reports, editing, crashed>>

\* Fault: the reporters are counted before this one is.
FileUncounted(r) ==
  /\ report[r].step = "file"
  /\ reports' = reports \cup {r}
  /\ report' = [report EXCEPT ![r].step = IF Cardinality(reports) >= REPORTS_TO_HIDE THEN "count" ELSE "free"]
  /\ UNCHANGED <<surroundings, submission, moderation, ruling, contested, editing, crashed>>

\* The first commit: one report per person, or 409.
File(r) ==
  /\ report[r].step = "file"
  /\ reports' = reports \cup {r}
  /\ report' = [report EXCEPT ![r] = IF r \in reports THEN NoReport ELSE [@ EXCEPT !.step = "count"]]
  /\ UNCHANGED <<surroundings, submission, moderation, ruling, contested, editing, crashed>>

state_after_report(state, reporters) ==
  IF state = "visible" /\ reporters >= REPORTS_TO_HIDE THEN "hidden_pending_review" ELSE state

\* The second: decided on the state that was read before the first.
CountReports(r) ==
  /\ report[r].step = "count"
  /\ LET new == state_after_report(report[r].state, Cardinality(reports))
     IN  moderation' = IF new # report[r].state THEN new ELSE moderation
  /\ report' = [report EXCEPT ![r] = NoReport]
  /\ UNCHANGED <<surroundings, submission, ruling, contested, reports, editing, crashed>>

\* The service dies between the two commits.
ReportCrashes(r) ==
  /\ report[r].step = "count"
  /\ crashed < reviewSetting.crashes /\ crashed' = crashed + 1
  /\ report' = [report EXCEPT ![r] = NoReport]
  /\ UNCHANGED <<surroundings, submission, moderation, ruling, contested, reports, editing>>

\* moderate_review: does not look at the state it replaces.
moderate_review(decision) ==
  /\ Published /\ ruling = "none" /\ decision \in reviewSetting.rulings
  /\ moderation' = decision /\ ruling' = decision
  /\ contested' = (\E r \in DOMAIN report : report[r].step # "free")
  /\ UNCHANGED <<surroundings, submission, reports, report, editing, crashed>>

-----------------------------------------------------------------------------
(* edit_review *)

\* Only the author finds the review, and only within the edit window.
EditBegin ==
  /\ Published /\ edit.step = "free" /\ editOpen
  /\ edit' = [step |-> "commit", state |-> moderation]
  /\ UNCHANGED <<surroundings, submission, moderated, rating, crashed>>

\* The commit writes the columns that were assigned, and no others.
EditCommits(stars) ==
  /\ edit.step = "commit"
  /\ rating' = stars /\ edit' = NoEdit
  /\ UNCHANGED <<surroundings, submission, moderated, crashed>>

\* The seller order moves on, and time passes.
OrderMoves ==
  /\ \/ orderStatus = "DISPATCHED" /\ orderStatus' \in {"DELIVERED", "RETURNED"}
     \/ orderStatus = "DELIVERED" /\ orderStatus' = "SETTLED"
  /\ UNCHANGED <<reviewSetting, windowOpen, editOpen, submission, moderated, editing, crashed>>
WindowCloses ==
  /\ reviewSetting.clock /\ windowOpen /\ orderStatus \in DELIVERED_STATES /\ windowOpen' = FALSE
  /\ UNCHANGED <<reviewSetting, orderStatus, editOpen, submission, moderated, editing, crashed>>
EditWindowCloses ==
  /\ reviewSetting.clock /\ editOpen /\ Published /\ editOpen' = FALSE
  /\ UNCHANGED <<reviewSetting, orderStatus, windowOpen, submission, moderated, editing, crashed>>

Submitting(w) == FetchPurchase(w) \/ Judge(w) \/ Publish(w)
Reporting(r) == ReportBegin(r) \/ File(r) \/ CountReports(r) \/ ReportCrashes(r)

ReviewsNext ==
  \/ \E w \in Writers : \/ Submitting(w)
                        \/ \E by \in reviewSetting.by, k \in reviewSetting.keys : SubmitBegin(w, by, k)
  \/ \E r \in reviewSetting.reporters : Reporting(r)
  \/ \E d \in {"removed", "cleared"} : moderate_review(d)
  \/ EditBegin \/ \E stars \in Stars : EditCommits(stars)
  \/ OrderMoves \/ WindowCloses \/ EditWindowCloses

ReviewsSpec == ReviewsInit /\ [][ReviewsNext]_reviewVars

-----------------------------------------------------------------------------
ReviewsTypeOK ==
  /\ reviewSetting \in ReviewSettings /\ windowOpen \in BOOLEAN /\ editOpen \in BOOLEAN
  /\ orderStatus \in OrderStatuses
  /\ written \subseteq Writers /\ keyOf \in [reviewSetting.keys -> Writers \cup {0}]
  /\ \A w \in Writers : submit[w].step \in {"free", "fetch", "count", "commit"}
  /\ moderation \in {"visible", "hidden_pending_review", "removed", "cleared"}
  /\ ruling \in {"none", "removed", "cleared"} /\ contested \in BOOLEAN
  /\ reports \subseteq DOMAIN report /\ rating \in Stars /\ crashed \in Nat
  /\ \A r \in DOMAIN report : report[r].step \in {"free", "file", "count"}

(* A purchase is reviewed once, by its buyer, however many submissions are   *)
(* judged before the first of them commits: the count in submit_review       *)
(* cannot see them, the constraint on the table does. A key never names a    *)
(* review that was not written.                                              *)
OneReviewPerPurchase ==
  /\ Cardinality(written) <= 1
  /\ \A k \in DOMAIN keyOf : keyOf[k] # 0 => keyOf[k] \in written

(* What was reviewed had been delivered: the status submit_review reads from *)
(* order-saga may be old when the review commits, but delivery is not undone.*)
ReviewedWasDelivered == Published => orderStatus \in DELIVERED_STATES

(* Reports hide a review only when REPORTS_TO_HIDE people other than its     *)
(* author have filed one.                                                    *)
HiddenByEnoughReaders ==
  moderation = "hidden_pending_review" => Cardinality(reports \ {Author}) >= REPORTS_TO_HIDE

(* And that many do hide it. Reports are handled side by side, each one      *)
(* commits before it counts, so the last to commit counts them all: once no  *)
(* report is being handled, a review that enough people reported is hidden   *)
(* or a moderator has ruled (or the service died between the two commits).   *)
EnoughReportsHide ==
  (/\ Cardinality(reports) >= REPORTS_TO_HIDE
   /\ \A r \in DOMAIN report : report[r].step = "free"
   /\ ruling = "none" /\ crashed = 0) => moderation = "hidden_pending_review"

(* A ruling made while no report was being handled stands: neither later     *)
(* reports, which may_report refuses, nor an edit that had loaded the review *)
(* before the ruling bring it back or take it away.                          *)
QuietRulingStands == ruling # "none" /\ ~contested => moderation = ruling

(* "A human's ruling, which no volume of further reports can overturn"       *)
(* (review_service.py, moderate_review), whatever else is going on.          *)
RulingStands == ruling # "none" => moderation = ruling

(* A review is earned: one for each purchase, and only of delivered goods    *)
(* (submit_review).                                                          *)
ReviewsAreEarned == ReviewsTypeOK /\ OneReviewPerPurchase /\ ReviewedWasDelivered

(* Reports hide a review exactly when enough readers filed one, and never    *)
(* against a ruling (report_review, moderate_review).                        *)
ReportsCount == HiddenByEnoughReaders /\ EnoughReportsHide /\ QuietRulingStands
=============================================================================

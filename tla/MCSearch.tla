------------------------------ MODULE MCSearch ------------------------------
(* Instances of SearchIndex.  MAX_RETRIES is 2 where the code has 3, and      *)
(* BATCH_SIZE 2 where it has 500: both small enough to be reached.           *)
EXTENDS SearchIndex

MCTopics == {"Product", "Price", "Inventory", "Seller"}
MCProducts == 1 .. 3
MCEventIds == 1 .. 5

Ops == [list |-> 0, price |-> 0, stock |-> 0, return |-> 0, refuse |-> 0, stand |-> 0, review |-> 0,
        reindex |-> 0, reap |-> 0]
Calm == [ops |-> Ops, listed |-> {}, faults |-> 0, errors |-> {}, restarts |-> 0,
         redis |-> TRUE, broker |-> TRUE, outage |-> FALSE]

\* A product, two prices (one may be for an id catalog never had), stock, a
\* backfill and a reaper that overlap them, and a worker that dies once.
Busy == [Calm EXCEPT !.ops = [Ops EXCEPT !.list = 1, !.price = 2, !.reindex = 1, !.reap = 1],
                     !.restarts = 1]
Stocked == [Calm EXCEPT !.ops = [Ops EXCEPT !.list = 1, !.stock = 2, !.return = 1, !.refuse = 1, !.reindex = 1],
                        !.restarts = 1]

\* One event that fails until it is escalated, another behind it.
Failing == [Calm EXCEPT !.ops = [Ops EXCEPT !.price = 2], !.listed = {1}, !.faults = 3,
                        !.errors = {"schema", "fault"}, !.restarts = 1]
Forgetful == [Failing EXCEPT !.redis = FALSE, !.restarts = 0]
\* The same, and a broker that drops what it is given.
Leaky == [Failing EXCEPT !.broker = FALSE, !.restarts = 0]

\* A release or a consume whose event fails and comes back without its type.
Returned == [Failing EXCEPT !.ops = [Ops EXCEPT !.stock = 1, !.return = 1], !.faults = 1]

\* Two changes of standing and a review, against price writes and a backfill.
Judged == [Calm EXCEPT !.ops = [Ops EXCEPT !.stand = 2, !.review = 1, !.price = 1, !.reindex = 1],
                       !.listed = {1}]
JudgedLate == [Calm EXCEPT !.ops = [Ops EXCEPT !.stand = 2, !.list = 1, !.review = 1],
                           !.listed = {1, 3}, !.restarts = 1]
JudgedBadly == [Judged EXCEPT !.ops = [Ops EXCEPT !.stand = 1, !.review = 1, !.price = 1],
                              !.faults = 2, !.errors = {"fault"}, !.outage = TRUE]

\* Listings between the batches of a backfill, rows and events that fail.
Backfilled == [Calm EXCEPT !.ops = [Ops EXCEPT !.list = 3, !.reindex = 1], !.faults = 1,
                           !.errors = {"fault"}]

\* A reaper whose search, lookup or delete may fail.
Reaped == [Calm EXCEPT !.ops = [Ops EXCEPT !.list = 1, !.price = 1, !.reindex = 1, !.reap = 2], !.faults = 1]

Normal == {Busy, Reaped, Stocked, Returned, Failing, Forgetful, Leaky, Judged, JudgedLate, JudgedBadly,
           Backfilled}
Suspended == {[Calm EXCEPT !.ops = [Ops EXCEPT !.stand = 1, !.list = 1]]}
TwoFailures == {[Failing EXCEPT !.restarts = 0]}
=============================================================================

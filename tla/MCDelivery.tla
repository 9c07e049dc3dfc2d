------------------------------ MODULE MCDelivery ------------------------------
(* A small instance of Delivery for TLC: one seller order of an odd amount, *)
(* one courier, and remittance files: one with its row, one that repeats it *)
(* behind a parcel nobody knows, and one short by one that has it twice.    *)
EXTENDS Delivery, TLC

CONSTANTS d1, s1, stray, c1, c2, op

MCSellerOf == d1 :> s1
MCExpected == d1 :> 9
MCRates == {1250}

MCFiles == [b1 |-> <<[ref |-> d1, cents |-> 9]>>,
            b2 |-> <<[ref |-> stray, cents |-> 9], [ref |-> d1, cents |-> 9]>>,
            b3 |-> <<[ref |-> d1, cents |-> 8], [ref |-> d1, cents |-> 8]>>]

\* Three configuration files: the shipped one, one that cannot report a
\* return and one that gives a word two meanings.
MCMappings ==
  {[PICKED_UP |-> {"picked_up"}, DELIVERED |-> {"delivered"}, RETURNING |-> {"rto"},
    RETURNED |-> {"returned"}, CANCELLED |-> {"cancelled"}, DELIVERY_FAILED |-> {"not_home"}],
   [PICKED_UP |-> {"picked_up"}, DELIVERED |-> {"delivered"}, RETURNING |-> {"rto"}],
   [PICKED_UP |-> {"picked_up"}, DELIVERED |-> {"delivered"}, RETURNING |-> {"rto"},
    RETURNED |-> {"returned", "rto"}]}

Calm == [files |-> {}, overlap |-> FALSE, workers |-> {}, operators |-> {},
         bulkhead |-> 1, failing |-> FALSE]

\* The courier's words race one another; its files arrive; the command is
\* run twice at once while operators book, pay and change the contract; a
\* commit of payment-service fails.
Apart == {[Calm EXCEPT !.workers = {c1}, !.bulkhead = 2],
          [Calm EXCEPT !.workers = {c1}, !.files = {"b1", "b2", "b3"}],
          [Calm EXCEPT !.workers = {c1, c2}, !.operators = {op}, !.files = {"b1"}],
          [Calm EXCEPT !.workers = {c1}, !.failing = TRUE]}
Failing == {[Calm EXCEPT !.workers = {c1}, !.failing = TRUE]}

MCWords == {"picked_up", "delivered", "rto", "returned", "cancelled", "not_home", "held"}
=============================================================================

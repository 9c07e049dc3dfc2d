------------------------------ MODULE Storefront ------------------------------
(***************************************************************************)
(* Listing and buying: catalog-service's create_product, pricing-service,  *)
(* fraud-service, delivery-quote-service and the checkout of bff-checkout, *)
(* which asks all of them and seller-service before it starts the saga.    *)
(*                                                                         *)
(* An attempt is one POST /api/checkout; a client that got no answer makes *)
(* another attempt with the same Idempotency-Key.                          *)
(***************************************************************************)
EXTENDS Sellers

CONSTANTS
  Products, OwnerOf,     \* a product's seller
  Attempts, OrderKey,    \* [Attempts -> keys]
  CartOf,                \* what GET /cart answers an attempt
  MaxPrices,             \* bound on the prices set per product
  VELOCITY,              \* evaluations a minute before fraud-service blocks
  NoOrder, NoListing

ASSUME StorefrontConstants == MaxPrices \in Nat

VARIABLES
  listed,       \* products with a row in catalog
  listing,      \* per product: NoListing, or the permission create_product has
  prices,       \* price rows per product
  evaluated,    \* fraud-service: verdict per key
  quotes,       \* delivery-quote-service: idempotency keys, one quote each
  attempt,      \* per attempt: [at, checked, asked, blocked]
  orders,       \* per key: NoOrder or the attempt that started the saga
  permitted     \* per attempt: sellers that were allowed at some time in it

shopVars == <<listed, listing, prices, evaluated, quotes, attempt, orders, permitted>>
storefrontVars == <<setting, sellerVars, shopVars>>

Keys == {OrderKey[a] : a \in Attempts}
Allowed == {s \in Sellers : may_receive_orders(s)}
SellersIn(items) == {OwnerOf[p] : p \in items}

StorefrontInit ==
  /\ SellersInit
  /\ listed = {}
  /\ listing = [p \in Products |-> NoListing]
  /\ prices = [p \in Products |-> 0]
  /\ evaluated = [k \in Keys |-> "none"]
  /\ quotes = {}
  /\ attempt = [a \in Attempts |-> [at |-> "idle", checked |-> {}, asked |-> {}, blocked |-> {}]]
  /\ orders = [k \in Keys |-> NoOrder]
  /\ permitted = [a \in Attempts |-> {}]

-----------------------------------------------------------------------------
(* Catalogue and prices *)

\* decide_listing, from the answer of seller-service or the lack of one.
decide_listing(answer) ==
  CASE answer = "unreachable" -> "unavailable"
    [] answer = "unknown" -> "unknown_seller"
    [] answer = "may_list" -> "allowed"
    [] OTHER -> "refused"

\* What GET /sellers/{id}/permission answers; behind the breaker it may not.
Answers(s) ==
  {IF seller[s].status = "none" THEN "unknown"
   ELSE IF may_list_products(s) THEN "may_list" ELSE "may_not"}
  \cup IF setting.outages THEN {"unreachable"} ELSE {}

\* create_product up to the answer: a refused seller leaves nothing behind.
ListBegin(p) ==
  /\ setting.shop /\ p \notin listed /\ listing[p] = NoListing
  /\ \E answer \in Answers(OwnerOf[p]) :
       /\ decide_listing(answer) = "allowed"
       /\ listing' = [listing EXCEPT ![p] = decide_listing(answer)]
  /\ UNCHANGED <<setting, sellerVars, listed, prices, evaluated, quotes, attempt, orders, permitted>>

\* create_product's commit: the row and its event, unless the sku is taken.
ListCommit(p) ==
  /\ listing[p] # NoListing
  /\ listed' = listed \cup {p}
  /\ listing' = [listing EXCEPT ![p] = NoListing]
  /\ UNCHANGED <<setting, sellerVars, prices, evaluated, quotes, attempt, orders, permitted>>

\* set_product_price: always a new row.
set_product_price(p) ==
  /\ setting.shop /\ prices[p] < MaxPrices
  /\ prices' = [prices EXCEPT ![p] = @ + 1]
  /\ UNCHANGED <<setting, sellerVars, listed, listing, evaluated, quotes, attempt, orders, permitted>>

-----------------------------------------------------------------------------
(* Checkout *)

Moves(a, where) == attempt' = [attempt EXCEPT ![a].at = where]

\* POST /api/checkout: the cart; an empty one is a 400.
Start(a) ==
  /\ setting.shop /\ attempt[a].at = "idle"
  /\ \A b \in Attempts : OrderKey[b] = OrderKey[a] => attempt[b].at \in {"idle", "failed", "conflict"}
  /\ Moves(a, IF CartOf[a] = {} THEN "refused" ELSE "validate")
  /\ permitted' = [permitted EXCEPT ![a] = Allowed]
  /\ UNCHANGED <<setting, sellerVars, listed, listing, prices, evaluated, quotes, orders>>

\* One item: catalog must list it, and GET /prices answers when there is
\* exactly one row (none is a 404, two make scalar_one_or_none raise).
Validate(a, p) ==
  /\ attempt[a].at = "validate" /\ p \in CartOf[a] \ attempt[a].checked
  /\ attempt' = [attempt EXCEPT ![a] =
       IF p \in listed /\ prices[p] = 1
       THEN [attempt[a] EXCEPT !.checked = attempt[a].checked \cup {p},
               !.at = IF attempt[a].checked \cup {p} = CartOf[a] THEN "sellers" ELSE "validate"]
       ELSE [attempt[a] EXCEPT !.at = "refused"]]
  /\ UNCHANGED <<setting, sellerVars, listed, listing, prices, evaluated, quotes, orders, permitted>>

\* maySellTo: exactly true, and no answer is a no.
maySellTo(answer) == answer = "may_list"

\* Fault: one seller is asked for the whole cart.
AskOneSeller(a, s) ==
  /\ attempt[a].at = "sellers" /\ s \in SellersIn(CartOf[a]) \ attempt[a].asked
  /\ \E answer \in Answers(s) :
       attempt' = [attempt EXCEPT ![a].at = IF maySellTo(answer) THEN "fraud" ELSE "refused"]
  /\ UNCHANGED <<setting, sellerVars, listed, listing, prices, evaluated, quotes, orders, permitted>>

\* One distinct seller of the cart; when all have answered, any that is
\* blocked refuses the checkout with 409.
AskSeller(a, s) ==
  /\ attempt[a].at = "sellers" /\ s \in SellersIn(CartOf[a]) \ attempt[a].asked
  /\ \E answer \in Answers(s) :
       LET asked == attempt[a].asked \cup {s}
           blocked == attempt[a].blocked \cup IF maySellTo(answer) THEN {} ELSE {s}
       IN  attempt' = [attempt EXCEPT ![a] = [attempt[a] EXCEPT !.asked = asked, !.blocked = blocked,
             !.at = IF asked # SellersIn(CartOf[a]) THEN "sellers"
                    ELSE IF blocked = {} THEN "fraud" ELSE "refused"]]
  /\ UNCHANGED <<setting, sellerVars, listed, listing, prices, evaluated, quotes, orders, permitted>>

\* evaluate_checkout_risk: a repeated key answers with its evaluation; a new
\* one is blocked by its telemetry, or by more than VELOCITY in the minute.
\* The response has no "decision", which is what the caller looks at, so
\* every evaluation that arrives lets the checkout go on.
Fraud(a) ==
  /\ attempt[a].at = "fraud"
  /\ \E verdict \in {"clean", "blocked"} :
       /\ verdict = "clean" => Cardinality({k \in Keys : evaluated[k] # "none"}) <= VELOCITY
       /\ evaluated' = [evaluated EXCEPT ![OrderKey[a]] = IF @ = "none" THEN verdict ELSE @]
  /\ Moves(a, "quote")
  /\ UNCHANGED <<setting, sellerVars, listed, listing, prices, quotes, orders, permitted>>

\* Fault: the saga is started first and the delivery quoted afterwards.
SubmitBeforeQuote(a) ==
  /\ attempt[a].at \in {"quote", "submit"}
  /\ orders' = [orders EXCEPT ![OrderKey[a]] = IF @ = NoOrder THEN a ELSE @]
  /\ Moves(a, IF attempt[a].at = "quote" THEN "quote" ELSE "placed")
  /\ UNCHANGED <<setting, sellerVars, listed, listing, prices, evaluated, quotes, permitted>>

\* generate_quote: a repeated key is a 409, which the caller turns into 500.
Quote(a) ==
  /\ attempt[a].at = "quote"
  /\ quotes' = quotes \cup {OrderKey[a]}
  /\ attempt' = [attempt EXCEPT ![a].at = IF OrderKey[a] \in quotes THEN "conflict" ELSE "submit"]
  /\ UNCHANGED <<setting, sellerVars, listed, listing, prices, evaluated, orders, permitted>>

\* POST /orders: start_saga answers a repeated key with the saga it started.
Submit(a) ==
  /\ attempt[a].at = "submit"
  /\ orders' = [orders EXCEPT ![OrderKey[a]] = IF @ = NoOrder THEN a ELSE @]
  /\ Moves(a, "placed")
  /\ UNCHANGED <<setting, sellerVars, listed, listing, prices, evaluated, quotes, permitted>>

\* A call times out or its breaker is open: the attempt ends with 500, and
\* what the downstream did stays done.
Unanswered(a) ==
  /\ setting.outages
  /\ \/ attempt[a].at \in {"validate", "fraud", "quote", "submit"} /\ UNCHANGED <<evaluated, quotes, orders>>
     \/ attempt[a].at = "quote" /\ quotes' = quotes \cup {OrderKey[a]} /\ UNCHANGED <<evaluated, orders>>
     \/ /\ attempt[a].at = "submit"
        /\ orders' = [orders EXCEPT ![OrderKey[a]] = IF @ = NoOrder THEN a ELSE @]
        /\ UNCHANGED <<evaluated, quotes>>
  /\ Moves(a, "failed")
  /\ UNCHANGED <<setting, sellerVars, listed, listing, prices, permitted>>

-----------------------------------------------------------------------------
CheckoutStep(a) ==
  \/ \E p \in Products : Validate(a, p)
  \/ \E s \in Sellers : AskSeller(a, s)
  \/ Fraud(a) \/ Quote(a) \/ Submit(a)

\* A step of seller-service, and which checkouts saw the seller allowed.
SellerStep ==
  /\ SellersNext
  /\ permitted' = [a \in Attempts |->
       IF attempt[a].at = "idle" THEN {} ELSE permitted[a] \cup Allowed']
  /\ UNCHANGED <<listed, listing, prices, evaluated, quotes, attempt, orders>>

StorefrontNext ==
  \/ SellerStep
  \/ \E p \in Products : ListBegin(p) \/ ListCommit(p) \/ set_product_price(p)
  \/ \E a \in Attempts : Start(a) \/ CheckoutStep(a) \/ Unanswered(a)

StorefrontSpec == StorefrontInit /\ [][StorefrontNext]_storefrontVars

-----------------------------------------------------------------------------
(* Every variable keeps its type; nothing is asked of a seller before every *)
(* item has its price.                                                      *)
StorefrontTypeOK ==
  /\ listed \subseteq Products
  /\ prices \in [Products -> 0..MaxPrices]
  /\ \A k \in Keys : evaluated[k] \in {"none", "clean", "blocked"} /\ orders[k] \in Attempts \cup {NoOrder}
  /\ \A a \in Attempts : attempt[a].asked # {} => attempt[a].checked = CartOf[a]

(* No order is placed with a seller who was stopped throughout the          *)
(* checkout: not when seller-service cannot be reached, not when the cart   *)
(* mixes sellers, and not when the seller was still allowed as the product  *)
(* was listed or the first attempt was made.                                *)
NoOrderFromStoppedSeller ==
  \A k \in Keys : orders[k] # NoOrder => SellersIn(CartOf[orders[k]]) \subseteq permitted[orders[k]]

(* An order exists only for a checkout that was evaluated and quoted under  *)
(* its own key, however often the client had to ask.                        *)
OrderedOnlyWhatWasQuoted ==
  /\ StorefrontTypeOK
  /\ \A k \in Keys : orders[k] # NoOrder => k \in quotes /\ evaluated[k] # "none"

(* "On idempotency conflict the service MUST return the previously          *)
(* committed result, never an error": a retried checkout is not refused     *)
(* because its first attempt got as far as the quote.                       *)
RepeatedKeyIsAnswered == \A a \in Attempts : attempt[a].at # "conflict"
=============================================================================

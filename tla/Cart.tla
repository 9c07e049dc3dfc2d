--------------------------------- MODULE Cart ---------------------------------
(***************************************************************************)
(* cart-service: one user's cart, kept in Redis (cache) and in cart_state  *)
(* rows of Postgres, the checkout lock in Redis, and the sweeper.          *)
(*                                                                         *)
(* A request is a coroutine; every await on Redis or Postgres is a step of *)
(* its own.  What a request has not committed only it can see; another one *)
(* that needs the same idempotency key or the same row waits for it.       *)
(***************************************************************************)
EXTENDS Integers, Sequences, FiniteSets, Functions

CONSTANTS
  Requests,     \* requests of the user, each made once
  KindOf,       \* [Requests -> {"add", "checkout", "read"}]
  KeyOf,        \* Idempotency-Key: a retry is another request with the key
  ItemOf,       \* product an add asks for (one unit)
  Products,
  NoRequest, NoCart,
  Settings      \* circumstances: [requests, overlap, lapse, faults]

\* The two sentinels are no request and no cart.
ASSUME CartConstants ==
  /\ DOMAIN KeyOf = Requests /\ NoRequest \notin Requests
  /\ NoCart \notin [Products -> Nat]
  /\ NoCart \notin [items : [Products -> Nat], by : Requests \cup {NoRequest}]

VARIABLES
  setting,      \* the member of Settings this behaviour runs under
  cache,        \* cart:{user}: NoCart or [items, by]; by is the add that set
                \*   it and has not committed
  rows,         \* cart_state rows: [items, status, aged, stale]
  keys,         \* idempotency_keys
  lock,         \* lock:checkout:{user}
  lease,        \* holders whose lock has not reached its TTL
  req,          \* per request: [at, mode, items, rows]
  orders,       \* CartCheckoutInitiated outbox rows: [items, rows]
  live          \* what the user has added and neither ordered nor let expire

cartVars == <<setting, cache, rows, keys, lock, lease, req, orders, live>>

None == [p \in Products |-> 0]
merge_item(items, p) == [items EXCEPT ![p] = @ + 1]
ActiveRow == {i \in DOMAIN rows : rows[i].status = "active"}
Idle == [at |-> "idle", mode |-> "read", items |-> None, rows |-> {}]
Finished == [Idle EXCEPT !.at = "done"]

CartInit ==
  /\ setting \in Settings
  /\ cache = NoCart
  /\ rows = <<>>
  /\ keys = {}
  /\ lock = NoRequest
  /\ lease = {}
  /\ req = [r \in Requests |-> Idle]
  /\ orders = <<>>
  /\ live = None

Running == {r \in Requests : req[r].at \notin {"idle", "done"}}
InTransaction(r) == req[r].at \in {"get", "load", "store", "select", "commit", "claimed"}
Claimed == UNION {req[r].rows : r \in {s \in Requests : req[s].at = "claimed"}}
MayStart(r) ==
  /\ req[r].at = "idle"
  /\ r \in setting.requests
  /\ setting.overlap \/ Running = {}
\* The insert of a key waits for the transaction that has inserted it.
KeyIsFree(r) ==
  \A s \in Requests \ {r} : KeyOf[s] = KeyOf[r] =>
     ~(req[s].mode = "add" /\ InTransaction(s)) /\ req[s].at # "claimed"

Goes(r, where) ==
  req' = [req EXCEPT ![r] = IF where = "done" THEN Finished ELSE [@ EXCEPT !.at = where]]

\* Where an exception or an early return leaves a request: the transaction is
\* rolled back, and a checkout still runs its finally block.
Ending(r) == IF req[r].mode = "checkout" THEN "release" ELSE "done"

\* resolve_cart: what Redis said, else the active row unless its time is over.
resolve_cart(seen, durable) ==
  IF seen # NoCart THEN [items |-> seen, rehydrated |-> FALSE]
  ELSE IF \E i \in durable : ~rows[i].aged
  THEN [items |-> rows[CHOOSE i \in durable : ~rows[i].aged].items, rehydrated |-> TRUE]
  ELSE [items |-> None, rehydrated |-> FALSE]

-----------------------------------------------------------------------------
(* Requests *)

\* add_to_cart, check_idempotency: a key that is known makes it a read.
AddBegin(r) ==
  /\ MayStart(r) /\ KindOf[r] = "add" /\ KeyIsFree(r)
  /\ req' = [req EXCEPT ![r].at = "get",
                        ![r].mode = IF KeyOf[r] \in keys THEN "read" ELSE "add"]
  /\ UNCHANGED <<setting, cache, rows, keys, lock, lease, orders, live>>

ReadBegin(r) ==
  /\ MayStart(r) /\ KindOf[r] = "read"
  /\ Goes(r, "get")
  /\ UNCHANGED <<setting, cache, rows, keys, lock, lease, orders, live>>

\* checkout_cart, acquire: SET NX EX, or 409.
CheckoutBegin(r) ==
  /\ MayStart(r) /\ KindOf[r] = "checkout"
  /\ req' = [req EXCEPT ![r] = IF lock # NoRequest THEN Finished
                               ELSE [@ EXCEPT !.at = "get", !.mode = "checkout"]]
  /\ lock' = IF lock = NoRequest THEN r ELSE lock
  /\ lease' = IF lock = NoRequest THEN lease \cup {r} ELSE lease
  /\ UNCHANGED <<setting, cache, rows, keys, orders, live>>

\* _resolve, first await: GET.
RedisGet(r) ==
  /\ req[r].at = "get"
  /\ req' = [req EXCEPT ![r].at = "load",
                        ![r].items = IF cache = NoCart THEN NoCart ELSE cache.items]
  /\ UNCHANGED <<setting, cache, rows, keys, lock, lease, orders, live>>

\* _resolve, second await: _load_durable raises when it finds two rows.  The
\* row is remembered for _rewarm.
Load(r) ==
  /\ req[r].at = "load"
  /\ IF Cardinality(ActiveRow) > 1 THEN Goes(r, Ending(r))
     ELSE LET view == resolve_cart(req[r].items, ActiveRow)
              next == CASE req[r].mode = "add" -> "store"
                        [] req[r].mode = "read" ->
                             IF view.rehydrated THEN "rewarm" ELSE "done"
                        [] req[r].mode = "checkout" ->
                             IF view.items = None THEN "release" ELSE "claim"
          IN  req' = [req EXCEPT ![r] = IF next = "done" THEN Finished
                       ELSE [@ EXCEPT !.at = next, !.items = view.items, !.rows = ActiveRow]]
  /\ UNCHANGED <<setting, cache, rows, keys, lock, lease, orders, live>>

\* _rewarm: not once the row's time is over.
Rewarm(r) ==
  /\ req[r].at = "rewarm"
  /\ cache' = IF \E i \in req[r].rows : rows[i].aged THEN cache
              ELSE [items |-> req[r].items, by |-> NoRequest]
  /\ Goes(r, "done")
  /\ UNCHANGED <<setting, rows, keys, lock, lease, orders, live>>

\* add_to_cart: the merged cart goes to Redis first.
AddStore(r) ==
  /\ req[r].at = "store"
  /\ LET items == merge_item(req[r].items, ItemOf[r])
     IN  /\ cache' = [items |-> items, by |-> r]
         /\ req' = [req EXCEPT ![r].items = items, ![r].at = "select"]
  /\ UNCHANGED <<setting, rows, keys, lock, lease, orders, live>>

\* add_to_cart: which row the commit will write, 0 for a new one.
AddSelect(r) ==
  /\ req[r].at = "select"
  /\ IF Cardinality(ActiveRow) > 1 THEN Goes(r, "done")
     ELSE req' = [req EXCEPT ![r].at = "commit", ![r].rows = ActiveRow]
  /\ UNCHANGED <<setting, cache, rows, keys, lock, lease, orders, live>>

\* add_to_cart: the row is written by its primary key, whatever its status
\* has become, and a checkout that has claimed it is waited for.
AddCommit(r) ==
  /\ req[r].at = "commit"
  /\ req[r].rows \cap Claimed = {}
  /\ rows' = IF req[r].rows = {}
             THEN Append(rows, [items |-> req[r].items, status |-> "active",
                                aged |-> FALSE, stale |-> FALSE])
             ELSE [i \in DOMAIN rows |-> IF i \notin req[r].rows THEN rows[i]
                    ELSE [rows[i] EXCEPT !.items = req[r].items,
                                         !.aged = FALSE, !.stale = FALSE]]
  /\ keys' = keys \cup {KeyOf[r]}
  /\ cache' = IF cache # NoCart /\ cache.by = r
              THEN [cache EXCEPT !.by = NoRequest] ELSE cache
  /\ live' = merge_item(live, ItemOf[r])
  /\ Goes(r, "done")
  /\ UNCHANGED <<setting, lock, lease, orders>>

\* checkout_cart: check_idempotency, then UPDATE ... WHERE status = 'active'
\* RETURNING; a known key and no such row (409) both end it.
Claim(r) ==
  /\ req[r].at = "claim" /\ KeyIsFree(r) /\ Claimed \cap ActiveRow = {}
  /\ IF KeyOf[r] \in keys \/ ActiveRow = {} THEN Goes(r, "release")
     ELSE req' = [req EXCEPT ![r].at = "claimed", ![r].rows = ActiveRow]
  /\ UNCHANGED <<setting, cache, rows, keys, lock, lease, orders, live>>

\* checkout_cart: the claim, the outbox row and the key commit together.  The
\* outbox row carries the items resolved earlier.
CheckoutCommit(r) ==
  /\ req[r].at = "claimed"
  /\ rows' = [i \in DOMAIN rows |-> IF i \notin req[r].rows THEN rows[i]
               ELSE [rows[i] EXCEPT !.status = "checkout_in_progress", !.stale = FALSE]]
  /\ orders' = Append(orders, [items |-> req[r].items, rows |-> req[r].rows])
  /\ keys' = keys \cup {KeyOf[r]}
  /\ live' = None
  /\ Goes(r, "delete")
  /\ UNCHANGED <<setting, cache, lock, lease>>

\* checkout_cart: DEL cart:{user}, after the commit.
CacheDelete(r) ==
  /\ req[r].at = "delete"
  /\ cache' = NoCart
  /\ Goes(r, "release")
  /\ UNCHANGED <<setting, rows, keys, lock, lease, orders, live>>

\* Fault: DEL without asking who holds the lock.
ReleaseAny(r) ==
  /\ req[r].at = "release"
  /\ lock' = NoRequest
  /\ lease' = lease \ {r}
  /\ Goes(r, "done")
  /\ UNCHANGED <<setting, cache, rows, keys, orders, live>>

\* release: RELEASE_SCRIPT compares the token and deletes in one step.
Release(r) ==
  /\ req[r].at = "release"
  /\ lock' = IF lock = r THEN NoRequest ELSE lock
  /\ lease' = lease \ {r}
  /\ Goes(r, "done")
  /\ UNCHANGED <<setting, cache, rows, keys, orders, live>>

\* An await on Redis or Postgres raises: nothing of the transaction stays,
\* but what Redis was told does.
Fails(r) ==
  /\ setting.faults
  /\ r \in Running /\ req[r].at # "release"
  /\ Goes(r, Ending(r))
  /\ UNCHANGED <<setting, cache, rows, keys, lock, lease, orders, live>>

\* The process is killed: no finally block runs.
RequestDies(r) ==
  /\ setting.faults
  /\ r \in Running
  /\ Goes(r, "done")
  /\ UNCHANGED <<setting, cache, rows, keys, lock, lease, orders, live>>

-----------------------------------------------------------------------------
(* Time, Redis and the sweeper *)

\* DEFAULT_TTL_SECONDS pass: a holder that died, or one that is slow.
LockLapses ==
  /\ lock # NoRequest
  /\ setting.lapse \/ req[lock].at = "done"
  /\ lock' = NoRequest
  /\ lease' = lease \ {lock}
  /\ UNCHANGED <<setting, cache, rows, keys, req, orders, live>>

\* Redis (external) loses the key: its TTL, a maxmemory trim, a restart.
Evict ==
  /\ cache # NoCart
  /\ cache' = NoCart
  /\ UNCHANGED <<setting, rows, keys, lock, lease, req, orders, live>>

\* CART_TTL pass since the row was last written.  Redis was written before the
\* row, so a cache entry that is still there belongs to a newer add.  Where
\* requests do not overlap, neither the hour nor a sweep ends in one either.
Age(i) ==
  /\ setting.overlap \/ Running = {}
  /\ rows[i].status = "active" /\ ~rows[i].aged
  /\ cache # NoCart => cache.by # NoRequest
  /\ rows' = [rows EXCEPT ![i].aged = TRUE]
  /\ live' = None
  /\ UNCHANGED <<setting, cache, keys, lock, lease, req, orders>>

\* Ten minutes in checkout_in_progress.
TenMinutes(i) ==
  /\ rows[i].status = "checkout_in_progress" /\ ~rows[i].stale
  /\ rows' = [rows EXCEPT ![i].stale = TRUE]
  /\ UNCHANGED <<setting, cache, keys, lock, lease, req, orders, live>>

\* One sweep, in a transaction of its own.
Expire(due) ==
  /\ setting.overlap \/ Running = {}
  /\ due # {} /\ due \cap Claimed = {}
  /\ rows' = [i \in DOMAIN rows |->
               IF i \in due THEN [rows[i] EXCEPT !.status = "expired"] ELSE rows[i]]
  /\ UNCHANGED <<setting, cache, keys, lock, lease, req, orders, live>>

\* run_sweep(EXPIRE_BY_TTL_SQL)
SweepTtl == Expire({i \in ActiveRow : rows[i].aged})

\* Fault: the reclaim looks at the expiry of the cart, which a checkout freezes.
ReclaimByExpiry == Expire({i \in DOMAIN rows :
                     rows[i].status = "checkout_in_progress" /\ rows[i].aged})

\* run_sweep(RECLAIM_STALE_CHECKOUT_SQL)
SweepStaleCheckout == Expire({i \in DOMAIN rows :
                     rows[i].status = "checkout_in_progress" /\ rows[i].stale})

-----------------------------------------------------------------------------
Step(r) ==
  \/ AddBegin(r) \/ ReadBegin(r) \/ CheckoutBegin(r)
  \/ RedisGet(r) \/ Load(r) \/ Rewarm(r)
  \/ AddStore(r) \/ AddSelect(r) \/ AddCommit(r)
  \/ Claim(r) \/ CheckoutCommit(r) \/ CacheDelete(r) \/ Release(r)

cart_sweeper_loop == SweepTtl \/ SweepStaleCheckout

CartNext ==
  \/ \E r \in Requests : Step(r) \/ Fails(r) \/ RequestDies(r)
  \/ LockLapses \/ Evict
  \/ \E i \in DOMAIN rows : Age(i) \/ TenMinutes(i)
  \/ cart_sweeper_loop

CartSpec == CartInit /\ [][CartNext]_cartVars

\* The sweeper runs every minute whatever happened before, time passes, and a
\* request that has begun goes on.
CartFairSpec ==
  /\ CartSpec
  /\ WF_cartVars(SweepTtl) /\ WF_cartVars(SweepStaleCheckout)
  /\ WF_cartVars(\E i \in DOMAIN rows : TenMinutes(i))
  /\ \A r \in Requests : WF_cartVars(r \in Running /\ Step(r))

-----------------------------------------------------------------------------
(* Every variable keeps its type, and a request that holds a lock which has *)
(* not lapsed is one that has begun.                                        *)
CartTypeOK ==
  /\ setting \in Settings
  /\ cache # NoCart => cache.by \in Requests \cup {NoRequest}
  /\ \A i \in DOMAIN rows : rows[i].status \in {"active", "checkout_in_progress", "expired"}
  /\ keys \subseteq Range(KeyOf)
  /\ lock \in Requests \cup {NoRequest} /\ lease \subseteq Requests
  /\ \A r \in Requests : req[r].rows \subseteq DOMAIN rows
  /\ \A r \in lease : KindOf[r] = "checkout" /\ req[r].at # "idle"

(* The checkout mutex: a checkout whose lock has not reached its TTL still  *)
(* owns it.  No other request, late or dying, can have taken or freed it.   *)
LeaseIsHonoured == \A r \in lease : lock = r

(* A cart is handed to the saga once: no cart_state row is behind two       *)
(* CartCheckoutInitiated events, even when the lock lapses under a slow     *)
(* checkout, a retry repeats its key, or an add rewrites the row meanwhile. *)
HandedOverOnce ==
  \A j, k \in DOMAIN orders : j # k => orders[j].rows \cap orders[k].rows = {}

(* Between requests the cart is what the user has put in and neither        *)
(* ordered nor let expire, whatever Redis has lost and whichever adds were  *)
(* retried.  One request at a time, none of them failing.                   *)
CartIsWhatWasAdded ==
  ~setting.overlap /\ ~setting.faults /\ Running = {} =>
    resolve_cart(IF cache = NoCart THEN NoCart ELSE cache.items, ActiveRow).items = live

(* "At most one active cart per user", which _load_durable assumes: with    *)
(* two it raises, and so does every add, read and checkout.                 *)
OneActiveCart == Cardinality(ActiveRow) <= 1

RowIs(i, status) == i \in DOMAIN rows /\ rows[i].status = status
Overdue(i) == RowIs(i, "active") /\ rows[i].aged

Ordered(p) ==
  Cardinality({j \in DOMAIN orders : orders[j].items[p] > 0})

(* Units handed to the saga are not handed over again: each product was     *)
(* added under one key here, so at most one order can contain it.           *)
NoDoubleOrder ==
  \A p \in Products :
    Ordered(p) <= Cardinality({KeyOf[r] : r \in {s \in Requests :
                                 KindOf[s] = "add" /\ ItemOf[s] = p}})

(* Every cart that has run out, and every checkout that is over, is swept   *)
(* in the end: no row stays active past its time or in checkout for good.   *)
CartsAreSwept ==
  []<>(\A i \in DOMAIN rows : ~Overdue(i) /\ ~RowIs(i, "checkout_in_progress"))

(* The cart is sound: nobody breaks a lock that is held, a cart is handed    *)
(* over once, and what is shown is what was added (add_to_cart,              *)
(* checkout_cart, checkout_lock).                                            *)
CartIsSound == CartTypeOK /\ LeaseIsHonoured /\ HandedOverOnce /\ CartIsWhatWasAdded
=============================================================================

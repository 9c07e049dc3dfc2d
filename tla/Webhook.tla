------------------------------ MODULE Webhook ------------------------------
(***************************************************************************)
(* webhook-handler: receive_webhook and its four layers.  The payment       *)
(* provider sends an event until it is answered 2xx, and may send it again  *)
(* while an earlier request is still being served.                          *)
(***************************************************************************)
EXTENDS Integers, FiniteSets

CONSTANTS
  Hooks,            \* event ids
  HookRequests,         \* requests in service at once
  TOLERANCE,        \* seconds a timestamp may be off, both ways
  HookSettings      \* [redis, fails, lapses]: Redis is up; failures; keys that expire

ASSUME WebhookConstants == TOLERANCE \in Nat

VARIABLES
  hookSetting,
  seenKeys,         \* Redis: webhook:seen:<id>
  processedHooks,   \* processed_webhooks, committed
  emitted,          \* per event: outbox rows committed
  hookReq,          \* per request: step, event and age of its timestamp
  told,             \* events answered 2xx
  hookFails         \* failures so far

webhookVars == <<hookSetting, seenKeys, processedHooks, emitted, hookReq, told, hookFails>>

NoHookRequest == [step |-> "free", hook |-> 0, age |-> 0]
Serving(r, step) == hookReq[r].step = step

WebhookInit ==
  /\ hookSetting \in HookSettings
  /\ seenKeys = {} /\ processedHooks = {} /\ told = {} /\ hookFails = 0
  /\ emitted = [e \in Hooks |-> 0]
  /\ hookReq = [r \in HookRequests |-> NoHookRequest]

\* verify_signature, for a header made by the provider: absent, mangled on
\* the way, or read.  The freshness check bounds both directions.
verify_signature(header, age) ==
  CASE header = "none" -> "missing"
    [] header = "unreadable" -> "malformed"
    [] header = "read" /\ (age > TOLERANCE \/ age < -TOLERANCE) -> "stale"
    [] OTHER -> "accept"

\* The provider sends an event it has had no 2xx for.  A request layer 1
\* refuses (400, 401) leaves nothing behind.
Deliver(r, e, header, age) ==
  /\ Serving(r, "free") /\ e \notin told
  /\ verify_signature(header, age) = "accept"
  /\ hookReq' = [hookReq EXCEPT ![r] = [step |-> "redis", hook |-> e, age |-> age]]
  /\ UNCHANGED <<hookSetting, seenKeys, processedHooks, emitted, told, hookFails>>

Answer(r, success) ==
  /\ hookReq' = [hookReq EXCEPT ![r] = NoHookRequest]
  /\ told' = IF success THEN told \cup {hookReq[r].hook} ELSE told

\* Layer 2: SET NX.  Redis being down lets the event through.
RedisLayer(r) ==
  /\ Serving(r, "redis")
  /\ IF hookSetting.redis /\ hookReq[r].hook \in seenKeys
     THEN Answer(r, TRUE) /\ UNCHANGED seenKeys
     ELSE /\ seenKeys' = IF hookSetting.redis THEN seenKeys \cup {hookReq[r].hook} ELSE seenKeys
          /\ hookReq' = [hookReq EXCEPT ![r].step = "insert"]
          /\ UNCHANGED told
  /\ UNCHANGED <<hookSetting, processedHooks, emitted, hookFails>>

Inserting(e) == \E r \in HookRequests : Serving(r, "commit") /\ hookReq[r].hook = e

\* Fault: the conflict clause is gone.
InsertAnyway(r) ==
  /\ Serving(r, "insert")
  /\ hookReq' = [hookReq EXCEPT ![r].step = "commit"]
  /\ UNCHANGED <<hookSetting, seenKeys, processedHooks, emitted, told, hookFails>>

\* Layer 3: INSERT .. ON CONFLICT DO NOTHING, which waits for an open
\* transaction that has inserted the same id; the outbox row follows.
Insert(r) ==
  /\ Serving(r, "insert") /\ ~Inserting(hookReq[r].hook)
  /\ IF hookReq[r].hook \in processedHooks
     THEN Answer(r, TRUE)
     ELSE hookReq' = [hookReq EXCEPT ![r].step = "commit"] /\ UNCHANGED told
  /\ UNCHANGED <<hookSetting, seenKeys, processedHooks, emitted, hookFails>>

\* Layer 4: both rows commit together.
RecordCommits(r) ==
  /\ Serving(r, "commit")
  /\ processedHooks' = processedHooks \cup {hookReq[r].hook}
  /\ emitted' = [emitted EXCEPT ![hookReq[r].hook] = @ + 1]
  /\ Answer(r, TRUE)
  /\ UNCHANGED <<hookSetting, seenKeys, hookFails>>

\* The commit fails (500), or the handler dies before it; an answer that is
\* lost after the commit leaves the provider to try again.
RequestFails(r) ==
  /\ hookFails < hookSetting.fails /\ hookFails' = hookFails + 1
  /\ hookReq[r].step \in {"insert", "commit"}
  /\ \/ UNCHANGED <<processedHooks, emitted>>
     \/ /\ Serving(r, "commit")
        /\ processedHooks' = processedHooks \cup {hookReq[r].hook}
        /\ emitted' = [emitted EXCEPT ![hookReq[r].hook] = @ + 1]
  /\ Answer(r, FALSE)
  /\ UNCHANGED <<hookSetting, seenKeys>>

\* DEDUP_TTL_SECONDS pass.
KeyExpires(e) ==
  /\ hookSetting.lapses /\ e \in seenKeys /\ seenKeys' = seenKeys \ {e}
  /\ UNCHANGED <<hookSetting, processedHooks, emitted, hookReq, told, hookFails>>

Serve(r) == RedisLayer(r) \/ Insert(r) \/ RecordCommits(r)
Sends(r) == \E e \in Hooks, header \in {"none", "unreadable", "read"}, age \in -2 .. 2 : Deliver(r, e, header, age)

WebhookNext ==
  \/ \E r \in HookRequests : Sends(r) \/ Serve(r) \/ RequestFails(r)
  \/ \E e \in Hooks : KeyExpires(e)

WebhookSpec == WebhookInit /\ [][WebhookNext]_webhookVars

-----------------------------------------------------------------------------
(* Every variable keeps its type; a request past layer 1 is fresh.            *)
WebhookTypeOK ==
  /\ seenKeys \cup processedHooks \cup told \subseteq Hooks
  /\ \A r \in HookRequests : hookReq[r].step \in {"free", "redis", "insert", "commit"}
                         /\ hookReq[r].age \in -TOLERANCE .. TOLERANCE

(* An event is emitted at most once, and is marked as processed exactly when  *)
(* it has been: whatever is retried, sent twice at once, lost, or answered   *)
(* by a handler that died, with Redis up or down (receive_webhook).          *)
EmittedOnce == \A e \in Hooks : emitted[e] = IF e \in processedHooks THEN 1 ELSE 0

(* Every event the provider has to report is emitted in the end: as long as   *)
(* no request fails or, when some do, the durable layer decides alone        *)
(* because Redis is down (receive_webhook, layers 3 and 4).                  *)
Reported ==
  hookSetting.fails = 0 \/ ~hookSetting.redis => \A e \in Hooks : <>(e \in processedHooks)

(* "nothing was recorded, so a retry is the correct outcome rather than a     *)
(* duplicate" (webhook-handler main.py:173): an event answered 2xx with no   *)
(* request for it in service has been emitted.                               *)
ToldIsRecorded ==
  \A e \in told : e \in processedHooks \/ \E r \in HookRequests : hookReq[r].hook = e

(* receive_webhook emits an event once and records exactly what it emitted.  *)
WebhookIsSound == WebhookTypeOK /\ EmittedOnce
=============================================================================

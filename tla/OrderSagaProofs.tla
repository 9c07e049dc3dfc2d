-------------------------- MODULE OrderSagaProofs ---------------------------
(***************************************************************************)
(* The circuit breaker, payment-webhook, media-service and order-saga, one *)
(* section each, for every value of the constants.                         *)
(***************************************************************************)
EXTENDS OrderSaga, CircuitBreaker, Webhook, Media, FiniteSetTheorems, TLAPS

(***************************************************************************)
(* The circuit breaker: SingleProbe and ProbeIsReal for any number of      *)
(* callers, any threshold and any bulkhead, provided that no call outlives *)
(* the reset window.                                                       *)
(***************************************************************************)
(* The inductive invariant.  A circuit that is about to half-open has no     *)
(* call left from before; one that is half open and not waiting for its     *)
(* probe has none either, which is what keeps the next probe alone.         *)
BreakerInv ==
  /\ BreakerTypeOK
  /\ IsFiniteSet(flight)
  /\ SingleProbe
  /\ ProbeIsReal
  /\ circuit = "open" /\ elapsed => flight = {}
  /\ circuit = "half_open" /\ ~probe => flight = {}

(* Taking a call out of a finite set of calls; the last one leaves nothing.  *)
LEMMA Leaves ==
  ASSUME IsFiniteSet(flight), NEW c \in flight
  PROVE  /\ IsFiniteSet(flight \ {c})
         /\ Cardinality(flight) \in Nat
         /\ Cardinality(flight \ {c}) = Cardinality(flight) - 1
         /\ Cardinality(flight) <= 1 => flight \ {c} = {}
<1>1. IsFiniteSet(flight \ {c}) /\ Cardinality(flight \ {c}) = Cardinality(flight) - 1
  BY FS_RemoveElement
<1>2. Cardinality(flight) \in Nat /\ Cardinality(flight \ {c}) \in Nat
  BY <1>1, FS_CardinalityType
<1>3. Cardinality(flight) <= 1 => Cardinality(flight \ {c}) = 0
  BY <1>1, <1>2
<1>4. Cardinality(flight \ {c}) = 0 => flight \ {c} = {}
  BY <1>1, FS_EmptySet
<1> QED BY <1>1, <1>2, <1>3, <1>4

(* A call that starts while the circuit is closed, or when nothing is in     *)
(* flight, keeps the bulkhead's bound.                                       *)
LEMMA Joins ==
  ASSUME IsFiniteSet(flight), NEW c, c \notin flight
  PROVE  /\ IsFiniteSet(flight \cup {c})
         /\ Cardinality(flight) \in Nat
         /\ Cardinality(flight \cup {c}) = Cardinality(flight) + 1
         /\ Cardinality({}) = 0
BY FS_AddElement, FS_CardinalityType, FS_EmptySet

LEMMA InitBreaker == BreakerInit => BreakerInv
<1> SUFFICES ASSUME BreakerInit PROVE BreakerInv
  OBVIOUS
<1>1. IsFiniteSet(flight) /\ Cardinality(flight) = 0
  BY FS_EmptySet DEF BreakerInit
<1>2. failures \in 0 .. FAILURE_THRESHOLD - 1 /\ Cardinality(flight) <= BULKHEAD
  BY BreakerConstants, <1>1 DEF BreakerInit
<1>3. circuit = "closed" /\ flight = {} /\ probe \in BOOLEAN /\ elapsed \in BOOLEAN /\ recovered \in BOOLEAN
  BY DEF BreakerInit
<1> QED BY <1>1, <1>2, <1>3 DEF BreakerInv, BreakerTypeOK, SingleProbe, ProbeIsReal

(* call, up to its first await.                                              *)
LEMMA EnterKeeps ==
  ASSUME BreakerInv, NEW c \in Callers, Enter(c)
  PROVE  BreakerInv'
<1> USE BreakerConstants
<1>1. CASE circuit = "closed"
  <2>1. circuit' = "closed"
    BY <1>1 DEF Enter
  <2>2. IsFiniteSet(flight') /\ flight' \subseteq Callers /\ Cardinality(flight') <= BULKHEAD
    BY Joins DEF Enter, BreakerInv, BreakerTypeOK
  <2>3. probe' \in BOOLEAN
    BY DEF Enter, BreakerInv, BreakerTypeOK
  <2> QED BY <2>1, <2>2, <2>3 DEF Enter, BreakerInv, BreakerTypeOK, SingleProbe, ProbeIsReal
<1>2. CASE circuit # "closed"
  <2>1. flight = {}
    BY <1>2 DEF Enter, Admits, BreakerInv, BreakerTypeOK
  <2>2. Cardinality(flight) = 0
    BY <2>1, FS_EmptySet
  <2>3. Cardinality(flight \cup {c}) = 1 /\ IsFiniteSet(flight \cup {c})
    BY <2>2, Joins DEF Enter, BreakerInv
  <2>4. circuit' = "half_open" /\ flight' = flight \cup {c}
    BY <1>2, <2>2 DEF Enter
  <2>5. probe' = TRUE
    BY <1>2 DEF Enter
  <2> QED BY <2>3, <2>4, <2>5 DEF Enter, BreakerInv, BreakerTypeOK, SingleProbe, ProbeIsReal
<1> QED BY <1>1, <1>2

(* _on_success and the two branches of _on_failure.                          *)
LEMMA OutcomeKeeps ==
  ASSUME BreakerInv, NEW c \in Callers, OnSuccess(c) \/ OnAnswered(c) \/ OnFailure(c)
  PROVE  BreakerInv'
<1> USE BreakerConstants
<1>1. c \in flight /\ flight' = flight \ {c}
  BY DEF OnSuccess, OnAnswered, OnFailure
<1>2. /\ IsFiniteSet(flight') /\ flight' \subseteq Callers
      /\ Cardinality(flight') <= BULKHEAD /\ Cardinality(flight') <= Cardinality(flight)
      /\ Cardinality(flight) <= 1 => flight' = {}
      /\ Cardinality(flight) \in Nat /\ Cardinality(flight') \in Nat
  BY <1>1, Leaves, FS_CardinalityType, SMTT(60) DEF BreakerInv, BreakerTypeOK
<1>3. CASE OnSuccess(c)
  <2>1. circuit' = "closed" /\ failures' \in 0 .. FAILURE_THRESHOLD - 1
    BY <1>3 DEF OnSuccess
  <2>2. probe' \in BOOLEAN /\ elapsed' \in BOOLEAN /\ recovered' \in BOOLEAN
    BY <1>3 DEF OnSuccess, BreakerInv, BreakerTypeOK
  <2> QED BY <1>2, <2>1, <2>2 DEF BreakerInv, BreakerTypeOK, SingleProbe, ProbeIsReal
<1>4. CASE OnAnswered(c)
  <2>1. circuit' = circuit /\ failures' = failures /\ elapsed' = elapsed /\ recovered' = recovered
    BY <1>4 DEF OnAnswered
  <2>2. probe' \in BOOLEAN /\ ~probe'
    BY <1>4 DEF OnAnswered
  <2>3. circuit = "open" => ~elapsed
    BY <1>1 DEF BreakerInv, BreakerTypeOK
  <2>4. circuit = "half_open" => flight' = {} /\ Cardinality(flight') <= 1
    BY <1>2 DEF BreakerInv, SingleProbe
  <2> QED BY <1>2, <2>1, <2>2, <2>3, <2>4 DEF BreakerInv, BreakerTypeOK, SingleProbe, ProbeIsReal
<1>5. CASE OnFailure(c)
  <2>1. circuit' \in {"closed", "open"} /\ (circuit' = "open" => ~elapsed')
    BY <1>1, <1>5 DEF OnFailure, Opens, BreakerInv, BreakerTypeOK
  <2>2. failures' \in 0 .. FAILURE_THRESHOLD - 1
    BY <1>5 DEF OnFailure, Opens, BreakerInv, BreakerTypeOK
  <2>3. probe' \in BOOLEAN /\ elapsed' \in BOOLEAN /\ recovered' \in BOOLEAN
    BY <1>5 DEF OnFailure, BreakerInv, BreakerTypeOK
  <2> QED BY <1>2, <2>1, <2>2, <2>3 DEF BreakerInv, BreakerTypeOK, SingleProbe, ProbeIsReal
<1> QED BY <1>3, <1>4, <1>5

LEMMA NextKeepsBreaker ==
  ASSUME ~Outlive, BreakerInv, [BreakerNext]_breakerVars
  PROVE  BreakerInv'
<1>1. CASE \E c \in Callers : Enter(c) \/ OnSuccess(c) \/ OnAnswered(c) \/ OnFailure(c)
  BY <1>1, EnterKeeps, OutcomeKeeps
<1>2. CASE WindowElapses
  BY <1>2 DEF WindowElapses, BreakerInv, BreakerTypeOK, SingleProbe, ProbeIsReal
<1>3. CASE Recovers
  BY <1>3 DEF Recovers, BreakerInv, BreakerTypeOK, SingleProbe, ProbeIsReal
<1>4. CASE UNCHANGED breakerVars
  BY <1>4 DEF breakerVars, BreakerInv, BreakerTypeOK, SingleProbe, ProbeIsReal
<1> QED BY <1>1, <1>2, <1>3, <1>4 DEF BreakerNext

(* The invariant holds in every state of AsyncCircuitBreaker.                *)
THEOREM BreakerInvariant ==
  ASSUME ~Outlive
  PROVE  BreakerSpec => []BreakerInv
<1>1. BreakerInv /\ [BreakerNext]_breakerVars => BreakerInv'
  BY NextKeepsBreaker
<1> QED BY InitBreaker, <1>1, PTL DEF BreakerSpec

(* _before_call lets exactly one probe through, a half-open circuit that     *)
(* turns calls away has a probe in flight, and the count of failures and the *)
(* bulkhead keep their bounds.                                               *)
THEOREM BreakerStaysSound ==
  ASSUME ~Outlive
  PROVE  BreakerSpec => []BreakerIsSound
<1>1. BreakerInv => BreakerIsSound
  BY DEF BreakerInv, BreakerIsSound
<1> QED BY BreakerInvariant, <1>1, PTL

(***************************************************************************)
(* payment-webhook: WebhookIsSound for any events and any number of        *)
(* requests in service.                                                    *)
(***************************************************************************)
HookSteps == {"free", "redis", "insert", "commit"}
RequestType == [step : HookSteps, hook : Hooks \cup {0}, age : -TOLERANCE .. TOLERANCE]

(* The inductive invariant.  INSERT .. ON CONFLICT lets one transaction at a *)
(* time past layer 3 for an event, and none for one that is processed, so a  *)
(* commit finds the event unrecorded.                                        *)
HookInv ==
  /\ seenKeys \cup processedHooks \cup told \subseteq Hooks
  /\ hookReq \in [HookRequests -> RequestType]
  /\ \A r \in HookRequests : hookReq[r].step # "free" => hookReq[r].hook \in Hooks
  /\ \A r \in HookRequests : hookReq[r].step = "commit" => hookReq[r].hook \notin processedHooks
  /\ \A r, q \in HookRequests :
       (/\ hookReq[r].step = "commit" /\ hookReq[q].step = "commit"
        /\ hookReq[r].hook = hookReq[q].hook) => r = q
  /\ DOMAIN emitted = Hooks
  /\ EmittedOnce

LEMMA NothingOpen == NoHookRequest \in RequestType /\ NoHookRequest.step = "free"
BY WebhookConstants DEF NoHookRequest, RequestType, HookSteps

LEMMA InitWebhook == WebhookInit => HookInv
BY NothingOpen DEF WebhookInit, HookInv, EmittedOnce

(* A request moves on without entering its transaction.                      *)
LEMMA MovesOn ==
  ASSUME HookInv, NEW r \in HookRequests, NEW x \in RequestType,
         x.step # "commit", x.step # "free" => x.hook \in Hooks,
         hookReq' = [hookReq EXCEPT ![r] = x],
         processedHooks' = processedHooks, emitted' = emitted,
         seenKeys' \cup told' \subseteq Hooks
  PROVE  HookInv'
<1>1. hookReq'[r] = x /\ \A q \in HookRequests \ {r} : hookReq'[q] = hookReq[q]
  BY DEF HookInv
<1>2. hookReq' \in [HookRequests -> RequestType]
  BY DEF HookInv
<1>3. EmittedOnce'
  BY DEF HookInv, EmittedOnce
<1>4. \A q \in HookRequests : hookReq'[q].step = "commit" => q # r /\ hookReq'[q] = hookReq[q]
  BY <1>1
<1> QED BY <1>1, <1>2, <1>3, <1>4 DEF HookInv

(* The event commits: its request ends, the row and the outbox entry appear. *)
LEMMA CommitsOnce ==
  ASSUME HookInv, NEW r \in HookRequests, hookReq[r].step = "commit",
         hookReq' = [hookReq EXCEPT ![r] = NoHookRequest],
         processedHooks' = processedHooks \cup {hookReq[r].hook},
         emitted' = [emitted EXCEPT ![hookReq[r].hook] = @ + 1],
         seenKeys' = seenKeys, told' \subseteq Hooks
  PROVE  HookInv'
<1> DEFINE e == hookReq[r].hook
<1>1. e \in Hooks /\ e \notin processedHooks /\ emitted[e] = 0
  BY DEF HookInv, EmittedOnce
<1>2. hookReq'[r] = NoHookRequest /\ \A q \in HookRequests \ {r} : hookReq'[q] = hookReq[q]
  BY DEF HookInv
<1>3. hookReq' \in [HookRequests -> RequestType]
  BY NothingOpen DEF HookInv
<1>4. EmittedOnce'
  BY <1>1 DEF HookInv, EmittedOnce
<1>5. \A q \in HookRequests : hookReq'[q].step # "free" => q # r /\ hookReq'[q] = hookReq[q]
  BY <1>2, NothingOpen
<1>6. \A q \in HookRequests : hookReq'[q].step = "commit" =>
        /\ q # r /\ hookReq'[q] = hookReq[q]
        /\ hookReq'[q].hook \notin processedHooks'
  BY <1>5 DEF HookInv
<1>7. seenKeys' \cup processedHooks' \cup told' \subseteq Hooks
  BY <1>1 DEF HookInv
<1>8. DOMAIN emitted' = Hooks
  BY DEF HookInv
<1> QED BY <1>3, <1>4, <1>5, <1>6, <1>7, <1>8 DEF HookInv

LEMMA NextKeepsWebhook == HookInv /\ [WebhookNext]_webhookVars => HookInv'
<1> SUFFICES ASSUME HookInv, [WebhookNext]_webhookVars PROVE HookInv'
  OBVIOUS
<1>0. ASSUME NEW r \in HookRequests
      PROVE  /\ hookReq[r] \in RequestType
             /\ hookReq[r].step # "free" => told \cup {hookReq[r].hook} \subseteq Hooks
             /\ [hookReq[r] EXCEPT !.step = "insert"] \in RequestType
             /\ [hookReq[r] EXCEPT !.step = "commit"] \in RequestType
  BY DEF HookInv, RequestType, HookSteps
<1>1. ASSUME NEW r \in HookRequests, Sends(r)
      PROVE  HookInv'
  <2>1. PICK e \in Hooks, header \in {"none", "unreadable", "read"}, age \in -2 .. 2 :
          Deliver(r, e, header, age)
    BY <1>1 DEF Sends
  <2> DEFINE x == [step |-> "redis", hook |-> e, age |-> age]
  <2>2. age \in -TOLERANCE .. TOLERANCE
    BY <2>1, WebhookConstants DEF Deliver, verify_signature
  <2>3. x \in RequestType
    BY <2>2 DEF RequestType, HookSteps
  <2>4. hookReq' = [hookReq EXCEPT ![r] = x] /\ UNCHANGED <<seenKeys, processedHooks, emitted, told>>
    BY <2>1 DEF Deliver
  <2>5. seenKeys' \cup told' \subseteq Hooks
    BY <2>4 DEF HookInv
  <2> QED BY <2>3, <2>4, <2>5, MovesOn
<1>2. ASSUME NEW r \in HookRequests, RedisLayer(r)
      PROVE  HookInv'
  <2> DEFINE y == [hookReq[r] EXCEPT !.step = "insert"]
  <2>1. seenKeys' \cup told' \subseteq Hooks
    BY <1>0, <1>2 DEF RedisLayer, Serving, Answer, HookInv
  <2>2. processedHooks' = processedHooks /\ emitted' = emitted
    BY <1>2 DEF RedisLayer
  <2>3. CASE hookReq' = [hookReq EXCEPT ![r] = NoHookRequest]
    BY <2>1, <2>2, <2>3, NothingOpen, MovesOn
  <2>4. CASE hookReq' = [hookReq EXCEPT ![r] = y]
    <3>1. y \in RequestType /\ y.step = "insert" /\ y.hook \in Hooks
      BY <1>0, <1>2 DEF RedisLayer, Serving, HookInv, RequestType
    <3> QED BY <2>1, <2>2, <2>4, <3>1, MovesOn
  <2> QED BY <1>2, <2>3, <2>4 DEF RedisLayer, Answer
<1>3. ASSUME NEW r \in HookRequests, Insert(r)
      PROVE  HookInv'
  <2> DEFINE y == [hookReq[r] EXCEPT !.step = "commit"]
  <2>1. hookReq[r].hook \in Hooks /\ UNCHANGED <<seenKeys, processedHooks, emitted>>
    BY <1>0, <1>3 DEF Insert, Serving
  <2>2. CASE Answer(r, TRUE)
    <3>1. seenKeys' \cup told' \subseteq Hooks
      BY <2>1, <2>2 DEF Answer, HookInv
    <3> QED BY <2>1, <2>2, <3>1, NothingOpen, MovesOn DEF Answer
  <2>3. CASE /\ hookReq[r].hook \notin processedHooks
             /\ hookReq' = [hookReq EXCEPT ![r] = y] /\ UNCHANGED told
    <3>1. y \in RequestType /\ y.hook = hookReq[r].hook
      BY <1>0 DEF RequestType
    <3>2. hookReq' \in [HookRequests -> RequestType]
      BY <2>3, <3>1 DEF HookInv
    <3>3. hookReq'[r] = y /\ \A q \in HookRequests \ {r} : hookReq'[q] = hookReq[q]
      BY <2>3 DEF HookInv
    <3>4. \A q \in HookRequests : hookReq[q].step = "commit" => hookReq[q].hook # y.hook
      BY <1>3, <3>1 DEF Insert, Inserting, Serving
    <3>5. \A q \in HookRequests : hookReq'[q].hook = hookReq[q].hook
      BY <3>1, <3>3
    <3>6. EmittedOnce' /\ DOMAIN emitted' = Hooks /\ (seenKeys \cup processedHooks \cup told \subseteq Hooks)'
      BY <2>1, <2>3 DEF HookInv, EmittedOnce
    <3> HIDE DEF y
    <3>7. \A q \in HookRequests : hookReq'[q].step = "commit" => hookReq'[q].hook \notin processedHooks'
      BY <2>1, <2>3, <3>1, <3>3 DEF HookInv
    <3>8. \A q \in HookRequests : hookReq'[q].step # "free" => hookReq'[q].hook \in Hooks
      BY <2>1, <3>1, <3>3 DEF HookInv
    <3>9. \A q, w \in HookRequests :
            (/\ hookReq'[q].step = "commit" /\ hookReq'[w].step = "commit"
             /\ hookReq'[q].hook = hookReq'[w].hook) => q = w
      BY <3>1, <3>3, <3>4 DEF HookInv
    <3> QED BY <3>2, <3>6, <3>7, <3>8, <3>9 DEF HookInv
  <2> QED BY <1>3, <2>2, <2>3 DEF Insert
<1>4. ASSUME NEW r \in HookRequests, RecordCommits(r)
      PROVE  HookInv'
  <2>1. hookReq[r].step = "commit" /\ told' \subseteq Hooks
    BY <1>0, <1>4 DEF RecordCommits, Serving, Answer
  <2> QED BY <1>4, <2>1, CommitsOnce DEF RecordCommits, Answer
<1>5. ASSUME NEW r \in HookRequests, RequestFails(r)
      PROVE  HookInv'
  <2>1. /\ hookReq' = [hookReq EXCEPT ![r] = NoHookRequest]
        /\ told' = told /\ seenKeys' = seenKeys
        /\ told' \subseteq Hooks /\ seenKeys' \cup told' \subseteq Hooks
    BY <1>5 DEF RequestFails, Answer, HookInv
  <2>2. CASE UNCHANGED <<processedHooks, emitted>>
    BY <2>1, <2>2, NothingOpen, MovesOn
  <2>3. CASE /\ hookReq[r].step = "commit"
             /\ processedHooks' = processedHooks \cup {hookReq[r].hook}
             /\ emitted' = [emitted EXCEPT ![hookReq[r].hook] = @ + 1]
    BY <2>1, <2>3, CommitsOnce
  <2> QED BY <1>5, <2>2, <2>3 DEF RequestFails, Serving
<1>6. ASSUME NEW e \in Hooks, KeyExpires(e)
      PROVE  HookInv'
  BY <1>6 DEF KeyExpires, HookInv, EmittedOnce
<1>7. CASE UNCHANGED webhookVars
  BY <1>7 DEF webhookVars, HookInv, EmittedOnce
<1> QED BY <1>1, <1>2, <1>3, <1>4, <1>5, <1>6, <1>7 DEF WebhookNext, Serve

(* HookInv holds throughout.                                                 *)
THEOREM WebhookInvariant == WebhookSpec => []HookInv
<1> QED BY InitWebhook, NextKeepsWebhook, PTL DEF WebhookSpec

(* receive_webhook emits an event at most once and marks exactly those       *)
(* events as processed, for any events and any number of concurrent          *)
(* requests: with Redis up or down, keys that expire, commits that fail and  *)
(* answers that are lost.                                                    *)
THEOREM WebhookStaysSound == WebhookSpec => []WebhookIsSound
<1>1. HookInv => WebhookIsSound
  BY DEF HookInv, WebhookIsSound, WebhookTypeOK, RequestType, HookSteps
<1> QED BY WebhookInvariant, <1>1, PTL

(***************************************************************************)
(* media-service: MediaIsSound for any uploads and any concurrent changes. *)
(***************************************************************************)
Registration == [step : {"free", "inserted", "told"}, asset : Registrars \cup {0}]
MediaChange == [op : ScanOps \cup {"none"}, scan : Nat, loaded : MediaStatus]

MediaShapes ==
  /\ mediaSetting \in MediaSettings /\ assets \subseteq Registrars /\ assetStatus \in MediaStatus
  /\ registering \in [Registrars -> Registration]
  /\ change \in [Changers -> MediaChange]
  /\ scans \in Seq(Verdicts) /\ recorded \subseteq 1 .. Len(scans)

(* The key lets one attempt at a time past its INSERT, and none once an      *)
(* asset is committed.                                                       *)
OneRegistration ==
  /\ \A g \in Registrars : registering[g].step = "inserted" => assets = {}
  /\ \A g, h \in Registrars : registering[g].step = "inserted" /\ registering[h].step = "inserted" => g = h
  /\ \A a, b \in assets : a = b
  /\ \A g \in Registrars : registering[g].step = "told" => registering[g].asset \in assets
  /\ assets = {} => assetStatus = "absent" /\ \A c \in Changers : change[c].op = "none"

(* A change that is under way was not refused, and a result is one of a scan *)
(* that was begun; when changes are made one at a time it is the only one,   *)
(* and what it has loaded is still true.                                     *)
ChangesSound ==
  /\ \A c \in Changers : change[c].op # "none" => Planned(change[c].op, change[c].scan, change[c].loaded) # "refused"
  /\ \A c \in Changers : IF change[c].op = "record_scan_result" THEN change[c].scan \in 1 .. Len(scans)
                                                              ELSE change[c].scan = 0
  /\ mediaSetting.serial =>
       /\ \A c, d \in Changers : change[c].op # "none" /\ change[d].op # "none" => c = d
       /\ \A c \in Changers : change[c].op # "none" => change[c].loaded = assetStatus
       /\ mediaSetting.once => \A c \in Changers : change[c].scan \notin recorded

(* Only the scan begun last can be without a result, and only while the      *)
(* asset is being scanned or once it is gone.                                *)
ResultsTaken ==
  mediaSetting.serial /\ mediaSetting.once =>
    /\ \A k \in 1 .. Len(scans) : k = Len(scans) \/ k \in recorded
    /\ assetStatus \notin {"scanning", "deleted"} => 1 .. Len(scans) \subseteq recorded

(* An asset whose status is clean has the clean result of a scan.            *)
MediaInv == MediaShapes /\ OneRegistration /\ ChangesSound /\ ResultsTaken /\ ScansDecide

(* The invariant holds before the first registration.                        *)
LEMMA InitMedia == MediaInit => MediaInv
<1> SUFFICES ASSUME MediaInit PROVE MediaInv
  OBVIOUS
<1>1. MediaShapes
  BY DEF MediaInit, MediaShapes, Registration, MediaChange, MediaStatus, At, NoChange
<1>2. OneRegistration
  BY DEF MediaInit, OneRegistration, At, NoChange
<1>3. ChangesSound
  BY DEF MediaInit, ChangesSound, NoChange
<1>4. ResultsTaken /\ ScansDecide
  BY DEF MediaInit, ResultsTaken, ScansDecide, ServedOnAScan, InfectedIsFinal, LatestScanDecides
<1> QED
  BY <1>1, <1>2, <1>3, <1>4 DEF MediaInv

(* What was said of the scans does not change with an attempt to register.   *)
LEMMA ScansStand ==
  ASSUME MediaInv, UNCHANGED <<mediaSetting, assetStatus, scans, recorded>>
  PROVE  ResultsTaken' /\ ScansDecide'
BY DEF MediaInv, ResultsTaken, ScansDecide, ServedOnAScan, InfectedIsFinal, LatestScanDecides

(* An attempt moves on without committing an asset.                          *)
LEMMA ClaimKeepsMedia ==
  ASSUME MediaInv, NEW g \in Registrars, _claim_idempotency(g) \/ RegistrationFails(g)
  PROVE  MediaInv'
<1>1. UNCHANGED <<mediaSetting, assets, assetStatus, change, scans, recorded>>
  BY DEF _claim_idempotency, RegistrationFails, scanning
<1>2. ChangesSound' /\ ResultsTaken' /\ ScansDecide'
  BY <1>1, ScansStand DEF MediaInv, ChangesSound, Planned
<1>3. PICK x \in Registration :
        /\ registering' = [registering EXCEPT ![g] = x]
        /\ x.step = "inserted" => assets = {} /\ \A o \in Registrars : registering[o].step # "inserted"
        /\ x.step = "told" => x.asset \in assets
  <2>1. CASE RegistrationFails(g)
    <3>1. At("free") \in Registration /\ At("free").step = "free"
      BY DEF At, Registration
    <3> QED
      BY <2>1, <3>1 DEF RegistrationFails
  <2>2. CASE _claim_idempotency(g) /\ assets = {}
    <3>1. At("inserted") \in Registration /\ At("inserted").step = "inserted"
      BY DEF At, Registration
    <3> QED
      BY <2>2, <3>1 DEF _claim_idempotency
  <2>3. CASE _claim_idempotency(g) /\ assets # {}
    <3> DEFINE a == CHOOSE a \in assets : TRUE
    <3>1. a \in assets /\ a \in Registrars
      BY <2>3 DEF MediaInv, MediaShapes
    <3> HIDE DEF a
    <3>2. Told(a) \in Registration /\ Told(a).step = "told" /\ Told(a).asset = a
      BY <3>1 DEF Told, Registration
    <3>3. registering' = [registering EXCEPT ![g] = Told(a)]
      BY <2>3 DEF _claim_idempotency, a
    <3> QED
      BY <3>1, <3>2, <3>3
  <2> QED
    BY <2>1, <2>2, <2>3
<1>4. \A h \in Registrars : registering'[h] = IF h = g THEN x ELSE registering[h]
  BY <1>3 DEF MediaInv, MediaShapes
<1>5. MediaShapes'
  BY <1>1, <1>3 DEF MediaInv, MediaShapes
<1>6. OneRegistration'
  BY <1>1, <1>3, <1>4 DEF MediaInv, OneRegistration
<1> QED
  BY <1>2, <1>5, <1>6 DEF MediaInv

(* The asset, its event and the key commit together.                         *)
LEMMA RegisterKeepsMedia ==
  ASSUME MediaInv, NEW g \in Registrars, register_media(g)
  PROVE  MediaInv'
<1>1. /\ registering[g].step = "inserted" /\ assets' = assets \cup {g} /\ assetStatus' = "quarantined"
      /\ registering' = [registering EXCEPT ![g] = Told(g)]
      /\ UNCHANGED <<mediaSetting, change, scans, recorded>>
  BY DEF register_media, scanning
<1>2. assets = {} /\ assetStatus = "absent" /\ \A c \in Changers : change[c].op = "none"
  BY <1>1 DEF MediaInv, OneRegistration
<1>3. Told(g) \in Registration /\ Told(g).step = "told" /\ Told(g).asset = g
  BY DEF Told, Registration
<1>4. \A h \in Registrars : registering'[h] = IF h = g THEN Told(g) ELSE registering[h]
  BY <1>1 DEF MediaInv, MediaShapes
<1>5. MediaShapes'
  BY <1>1, <1>3 DEF MediaInv, MediaShapes, MediaStatus
<1>6. OneRegistration'
  BY <1>1, <1>2, <1>3, <1>4 DEF MediaInv, OneRegistration
<1>7. ChangesSound'
  BY <1>1, <1>2 DEF MediaInv, ChangesSound
<1>8. ResultsTaken'
  BY <1>1, <1>2 DEF MediaInv, ResultsTaken
<1>9. ScansDecide'
  BY <1>1, <1>2 DEF MediaInv, ScansDecide, ServedOnAScan, InfectedIsFinal, LatestScanDecides, TERMINAL
<1> QED
  BY <1>5, <1>6, <1>7, <1>8, <1>9 DEF MediaInv

(* Reading the asset before a change is decided.                             *)
LEMMA LoadKeepsMedia ==
  ASSUME MediaInv, NEW c \in Changers, NEW op \in ScanOps, _load(c, op)
  PROVE  MediaInv'
<1>1. PICK k \in Subjects(op) :
        /\ Planned(op, k, assetStatus) # "refused"
        /\ change' = [change EXCEPT ![c] = [op |-> op, scan |-> k, loaded |-> assetStatus]]
  BY DEF _load
<1>2. /\ assetStatus # "absent"
      /\ mediaSetting.serial => \A o \in Changers : change[o].op = "none"
      /\ UNCHANGED <<mediaSetting, assets, registering, assetStatus, scans, recorded>>
  BY DEF _load, scanning
<1>3. /\ k \in Nat
      /\ IF op = "record_scan_result" THEN k \in 1 .. Len(scans) ELSE k = 0
      /\ mediaSetting.once => k \notin recorded
  <2>1. Len(scans) \in Nat /\ recorded \subseteq 1 .. Len(scans)
    BY DEF MediaInv, MediaShapes
  <2>2. CASE op = "record_scan_result"
    BY <1>1, <2>1, <2>2 DEF Subjects
  <2>3. CASE op # "record_scan_result"
    <3>1. k = 0
      BY <1>1, <2>3 DEF Subjects, ScanOps
    <3> QED
      BY <2>1, <2>3, <3>1
  <2> QED
    BY <2>2, <2>3
<1>4. PICK x : x = [op |-> op, scan |-> k, loaded |-> assetStatus]
  OBVIOUS
<1>5. x \in MediaChange /\ x.op = op /\ x.scan = k /\ x.loaded = assetStatus
  BY <1>3, <1>4 DEF MediaInv, MediaShapes, MediaChange
<1>6. \A d \in Changers : change'[d] = IF d = c THEN x ELSE change[d]
  BY <1>1, <1>4 DEF MediaInv, MediaShapes
<1>7. MediaShapes'
  BY <1>1, <1>2, <1>4, <1>5 DEF MediaInv, MediaShapes
<1>8. OneRegistration'
  BY <1>2 DEF MediaInv, OneRegistration
<1>9. ChangesSound'
  <2>1. ASSUME NEW d \in Changers, change'[d].op # "none"
        PROVE  (Planned(change[d].op, change[d].scan, change[d].loaded) # "refused")'
    <3>1. CASE d = c
      <4>1. change'[d].op = op /\ change'[d].scan = k /\ change'[d].loaded = assetStatus
        BY <1>5, <1>6, <3>1
      <4> QED
        BY <1>1, <1>2, <4>1 DEF Planned
    <3>2. CASE d # c
      <4>1. change'[d] = change[d]
        BY <1>6, <3>2
      <4>2. Planned(change[d].op, change[d].scan, change[d].loaded) # "refused"
        BY <2>1, <4>1 DEF MediaInv, ChangesSound
      <4> QED
        BY <1>2, <4>1, <4>2 DEF Planned
    <3> QED
      BY <3>1, <3>2
  <2>2. ASSUME NEW d \in Changers, mediaSetting.serial
        PROVE  /\ change'[d].op # "none" => d = c /\ change'[d].loaded = assetStatus
               /\ mediaSetting.once => change'[d].scan \notin recorded
    BY <1>2, <1>3, <1>5, <1>6, <2>2 DEF MediaInv, ChangesSound
  <2>3. \A d \in Changers : IF change'[d].op = "record_scan_result" THEN change'[d].scan \in 1 .. Len(scans')
                                                                  ELSE change'[d].scan = 0
    BY <1>2, <1>3, <1>5, <1>6 DEF MediaInv, ChangesSound
  <2> QED
    BY <1>2, <2>1, <2>2, <2>3 DEF ChangesSound
<1> QED
  BY <1>2, <1>7, <1>8, <1>9, ScansStand DEF MediaInv

(* What a change that was not refused does to the status.                    *)
LEMMA PlannedStatus ==
  ASSUME NEW op \in ScanOps, NEW k, NEW old \in MediaStatus, NEW new, new = Planned(op, k, old), new # "refused"
  PROVE  /\ new \in {"scanning", "clean", "infected", "deleted"}
         /\ new = "scanning" <=> op = "start_scan"
         /\ new = "scanning" => old \notin TERMINAL
         /\ op = "record_scan_result" => old = "scanning" \/ (old = "infected" /\ new = old)
         /\ op = "record_scan_result" => new = IF scans[k] = "infected" THEN "infected" ELSE "clean"
         /\ new \in {"clean", "infected"} => op = "record_scan_result"
<1>1. CASE op = "start_scan"
  BY <1>1 DEF Planned, plan_scan_start
<1>2. CASE op = "record_scan_result"
  BY <1>2 DEF Planned, plan_scan_result
<1>3. CASE op = "delete_media"
  BY <1>3 DEF Planned, plan_delete
<1> QED
  BY <1>1, <1>2, <1>3 DEF ScanOps

(* A change ends and leaves everything as it is.                             *)
LEMMA EndKeepsMedia ==
  ASSUME MediaInv, NEW c \in Changers, change[c].op # "none", change' = [change EXCEPT ![c] = NoChange],
         UNCHANGED <<mediaSetting, assets, registering, assetStatus, scans, recorded>>
  PROVE  MediaInv'
<1>1. NoChange \in MediaChange /\ NoChange.op = "none" /\ NoChange.scan = 0
  BY DEF NoChange, MediaChange, MediaStatus
<1>2. \A d \in Changers : change'[d] = IF d = c THEN NoChange ELSE change[d]
  BY DEF MediaInv, MediaShapes
<1>3. MediaShapes' /\ OneRegistration'
  BY <1>1 DEF MediaInv, MediaShapes, OneRegistration
<1>4. 0 \notin recorded
  BY DEF MediaInv, MediaShapes
<1>5. ChangesSound'
  <2>1. ASSUME NEW d \in Changers, change'[d].op # "none"
        PROVE  (Planned(change[d].op, change[d].scan, change[d].loaded) # "refused")'
    <3>1. change'[d] = change[d]
      BY <1>1, <1>2, <2>1
    <3>2. Planned(change[d].op, change[d].scan, change[d].loaded) # "refused"
      BY <2>1, <3>1 DEF MediaInv, ChangesSound
    <3> QED
      BY <3>1, <3>2 DEF Planned
  <2>2. \A d \in Changers : change'[d].op # "none" => change'[d] = change[d]
    BY <1>1, <1>2
  <2>3. \A d \in Changers : IF change'[d].op = "record_scan_result" THEN change'[d].scan \in 1 .. Len(scans')
                                                                  ELSE change'[d].scan = 0
    BY <1>1, <1>2 DEF MediaInv, ChangesSound
  <2>4. mediaSetting.serial /\ mediaSetting.once => \A d \in Changers : change'[d].scan \notin recorded
    BY <1>1, <1>2, <1>4 DEF MediaInv, ChangesSound
  <2> QED
    BY <2>1, <2>2, <2>3, <2>4 DEF MediaInv, ChangesSound
<1> QED
  BY <1>3, <1>5, ScansStand DEF MediaInv

(* A change is written over whatever the status is by now.                   *)
LEMMA ApplyKeepsMedia ==
  ASSUME MediaInv, NEW c \in Changers, ApplyChange(c)
  PROVE  MediaInv'
<1>1. PICK op, k, old, new : /\ op = change[c].op /\ k = change[c].scan /\ old = change[c].loaded
                             /\ new = Planned(op, k, old)
  OBVIOUS
<1>2. /\ op # "none" /\ change' = [change EXCEPT ![c] = NoChange]
      /\ UNCHANGED <<mediaSetting, assets, registering>>
  BY <1>1 DEF ApplyChange
<1>3. /\ op \in ScanOps /\ old \in MediaStatus /\ new # "refused"
      /\ IF op = "record_scan_result" THEN k \in 1 .. Len(scans) ELSE k = 0
  BY <1>1, <1>2 DEF MediaInv, MediaShapes, MediaChange, ChangesSound
<1>4. CASE new = old
  BY <1>1, <1>2, <1>4, EndKeepsMedia DEF ApplyChange, scanning
<1>5. CASE new # old
  <2>1. /\ assetStatus' = new /\ recorded' = recorded \cup ({k} \ {0})
        /\ IF new = "scanning" THEN \E v \in Verdicts : scans' = Append(scans, v) ELSE scans' = scans
    BY <1>1, <1>5 DEF ApplyChange
  <2>2. /\ new \in {"scanning", "clean", "infected", "deleted"}
        /\ new = "scanning" <=> op = "start_scan"
        /\ new = "scanning" => old \notin TERMINAL
        /\ op = "record_scan_result" => old = "scanning" /\ new = IF scans[k] = "infected" THEN "infected" ELSE "clean"
        /\ new \in {"clean", "infected"} => op = "record_scan_result"
    BY <1>1, <1>3, <1>5, PlannedStatus
  <2>3. Len(scans) \in Nat /\ scans \in Seq(Verdicts) /\ recorded \subseteq 1 .. Len(scans)
    BY DEF MediaInv, MediaShapes
  <2>4. /\ scans' \in Seq(Verdicts) /\ Len(scans') = IF new = "scanning" THEN Len(scans) + 1 ELSE Len(scans)
        /\ \A i \in 1 .. Len(scans) : scans'[i] = scans[i]
    <3>1. CASE new = "scanning"
      <4>1. PICK v \in Verdicts : scans' = Append(scans, v)
        BY <2>1, <3>1
      <4> QED
        BY <2>3, <3>1, <4>1
    <3> QED
      BY <2>1, <2>3, <3>1
  <2>5. 1 .. Len(scans) \subseteq 1 .. Len(scans')
    BY <2>3, <2>4
  <2>6. recorded' \subseteq 1 .. Len(scans') /\ k \in Nat
    <3>1. k \in Nat /\ (k = 0 \/ k \in 1 .. Len(scans))
      BY <1>3, <2>3
    <3> QED
      BY <2>1, <2>3, <2>5, <3>1
  <2>7. NoChange \in MediaChange /\ NoChange.op = "none" /\ NoChange.scan = 0
    BY DEF NoChange, MediaChange, MediaStatus
  <2>8. \A d \in Changers : change'[d] = IF d = c THEN NoChange ELSE change[d]
    BY <1>2 DEF MediaInv, MediaShapes
  <2>9. MediaShapes'
    <3>1. change' \in [Changers -> MediaChange] /\ new \in MediaStatus
      BY <1>2, <2>2, <2>7 DEF MediaInv, MediaShapes, MediaStatus
    <3> QED
      BY <1>2, <2>1, <2>4, <2>6, <3>1 DEF MediaInv, MediaShapes
  <2>10. OneRegistration'
    <3>1. assets # {}
      BY <1>1, <1>2 DEF MediaInv, OneRegistration
    <3> QED
      BY <1>2, <3>1 DEF MediaInv, OneRegistration
  <2>11. ChangesSound'
    <3>1. ASSUME NEW d \in Changers, change'[d].op # "none"
          PROVE  (Planned(change[d].op, change[d].scan, change[d].loaded) # "refused")'
      <4>1. change'[d] = change[d] /\ change[d].op \in ScanOps
        BY <2>7, <2>8, <3>1 DEF MediaInv, MediaShapes, MediaChange
      <4>2. Planned(change[d].op, change[d].scan, change[d].loaded) # "refused"
        BY <3>1, <4>1 DEF MediaInv, ChangesSound
      <4>3. change[d].op = "record_scan_result" => scans'[change[d].scan] = scans[change[d].scan]
        BY <2>4 DEF MediaInv, ChangesSound
      <4> QED
        BY <4>1, <4>2, <4>3 DEF Planned, ScanOps
    <3>2. ASSUME NEW d \in Changers
          PROVE  IF change'[d].op = "record_scan_result" THEN change'[d].scan \in 1 .. Len(scans')
                                                        ELSE change'[d].scan = 0
      BY <2>5, <2>7, <2>8 DEF MediaInv, ChangesSound
    <3>3. mediaSetting.serial => \A d \in Changers : change'[d].op = "none"
      BY <1>1, <1>2, <2>7, <2>8 DEF MediaInv, ChangesSound
    <3>4. mediaSetting.serial => \A d \in Changers : change'[d].scan \notin recorded'
      BY <2>6, <3>2, <3>3
    <3> QED
      BY <1>2, <3>1, <3>2, <3>3, <3>4 DEF ChangesSound
  <2>12. /\ mediaSetting.serial => old = assetStatus
         /\ mediaSetting.serial /\ mediaSetting.once => k \notin recorded
    BY <1>1, <1>2 DEF MediaInv, ChangesSound
  <2>13. ASSUME mediaSetting.serial, mediaSetting.once, op = "record_scan_result"
         PROVE  k = Len(scans) /\ 1 .. Len(scans) \subseteq recorded'
    BY <1>3, <2>1, <2>3, <2>12, <2>13 DEF MediaInv, ResultsTaken
  <2>14. ResultsTaken'
    <3> SUFFICES ASSUME mediaSetting.serial, mediaSetting.once
                 PROVE  /\ \A j \in 1 .. Len(scans') : j = Len(scans') \/ j \in recorded'
                        /\ assetStatus' \notin {"scanning", "deleted"} => 1 .. Len(scans') \subseteq recorded'
      BY <1>2 DEF ResultsTaken
    <3>1. CASE op = "start_scan"
      <4>1. 1 .. Len(scans) \subseteq recorded
        BY <1>5, <2>2, <2>12, <3>1 DEF MediaInv, ResultsTaken, TERMINAL
      <4> QED
        BY <2>1, <2>2, <2>3, <2>4, <3>1, <4>1
    <3>2. CASE op = "record_scan_result"
      BY <2>1, <2>2, <2>4, <2>13, <3>2
    <3>3. CASE op = "delete_media"
      <4>1. new = "deleted" /\ scans' = scans
        BY <2>1, <2>2, <3>3
      <4> QED
        BY <2>1, <4>1 DEF MediaInv, ResultsTaken
    <3> QED
      BY <1>3, <3>1, <3>2, <3>3 DEF ScanOps
  <2>15. new = "clean" => scans[k] = "clean" /\ k \in recorded' /\ scans' = scans
    <3> SUFFICES ASSUME new = "clean" PROVE scans[k] = "clean" /\ k \in recorded' /\ scans' = scans
      OBVIOUS
    <3>1. k \in 1 .. Len(scans) /\ scans[k] # "infected" /\ scans' = scans
      BY <1>3, <2>1, <2>2
    <3>2. scans[k] \in Verdicts /\ k # 0
      BY <2>3, <3>1
    <3> QED
      BY <2>1, <3>1, <3>2 DEF Verdicts
  <2>16. ServedOnAScan'
    BY <2>1, <2>15 DEF ServedOnAScan
  <2>17. mediaSetting.serial => InfectedIsFinal'
    <3> SUFFICES ASSUME mediaSetting.serial, NEW j \in recorded', scans'[j] = "infected"
                 PROVE  new \in TERMINAL
      BY <2>1 DEF InfectedIsFinal
    <3>1. CASE new = "scanning"
      <4>1. j \in recorded /\ j \in 1 .. Len(scans)
        BY <1>3, <2>1, <2>2, <2>3, <3>1
      <4> QED
        BY <2>2, <2>4, <2>12, <3>1, <4>1 DEF MediaInv, ScansDecide, InfectedIsFinal
    <3>2. CASE new = "clean"
      <4>1. j \in recorded /\ scans[j] = "infected" /\ old = "scanning"
        BY <2>1, <2>2, <2>15, <3>2
      <4> QED
        BY <2>12, <4>1 DEF MediaInv, ScansDecide, InfectedIsFinal, TERMINAL
    <3> QED
      BY <2>2, <3>1, <3>2 DEF TERMINAL
  <2>18. mediaSetting.serial /\ mediaSetting.once => LatestScanDecides'
    BY <2>1, <2>2, <2>13, <2>15 DEF LatestScanDecides
  <2> QED
    BY <1>2, <2>9, <2>10, <2>11, <2>14, <2>16, <2>17, <2>18 DEF MediaInv, ScansDecide
<1> QED
  BY <1>4, <1>5

(* Every step keeps the invariant.                                           *)
LEMMA NextKeepsMedia == MediaInv /\ [MediaNext]_mediaVars => MediaInv'
<1> SUFFICES ASSUME MediaInv, [MediaNext]_mediaVars PROVE MediaInv'
  OBVIOUS
<1>1. CASE \E g \in Registrars : Registers(g)
  BY <1>1, ClaimKeepsMedia, RegisterKeepsMedia DEF Registers
<1>2. CASE \E c \in Changers : Changes(c)
  <2>1. ASSUME NEW c \in Changers, ChangeFails(c) PROVE MediaInv'
    BY <2>1, EndKeepsMedia DEF ChangeFails, scanning
  <2> QED
    BY <1>2, <2>1, LoadKeepsMedia, ApplyKeepsMedia DEF Changes
<1>3. CASE UNCHANGED mediaVars
  <2>1. UNCHANGED <<mediaSetting, assets, registering, assetStatus, change, scans, recorded>>
    BY <1>3 DEF mediaVars, scanning
  <2> QED
    BY <2>1, ScansStand DEF MediaInv, MediaShapes, OneRegistration, ChangesSound, Planned
<1> QED
  BY <1>1, <1>2, <1>3 DEF MediaNext

(* Any number of attempts to register with one key make one asset and are    *)
(* told of it.  However its changes overlap, an asset is served only if a    *)
(* scan of it found it clean; when they are made one at a time an infected   *)
(* one is never scanned or served again; and when, as well, no result is     *)
(* reported twice, it is the scan begun last that decides.                   *)
THEOREM MediaStaysSound == MediaSpec => []MediaIsSound
<1>1. MediaInv => MediaIsSound
  <2> SUFFICES ASSUME MediaInv PROVE MediaIsSound
    OBVIOUS
  <2>1. MediaTypeOK
    BY DEF MediaInv, MediaShapes, Registration, MediaChange, MediaTypeOK
  <2>2. Cardinality(assets) <= 1
    <3>1. CASE assets = {}
      BY <3>1, FS_EmptySet
    <3>2. CASE assets # {}
      <4> PICK a \in assets : TRUE
        BY <3>2
      <4>1. assets = {a}
        BY DEF MediaInv, OneRegistration
      <4>2. Cardinality(assets) = 1
        BY <4>1, FS_Singleton
      <4> QED
        BY <4>2
    <3> QED
      BY <3>1, <3>2
  <2>3. RegisteredOnce
    BY <2>2 DEF MediaInv, OneRegistration, RegisteredOnce
  <2> QED
    BY <2>1, <2>3 DEF MediaInv, MediaIsSound
<1> QED
  BY <1>1, InitMedia, NextKeepsMedia, PTL DEF MediaSpec

(***************************************************************************)
(* order-saga: its safety properties for any orders, any split of them     *)
(* across sellers and any keys a caller of /events sends.                  *)
(***************************************************************************)
-----------------------------------------------------------------------------
(* What resolve decides *)

AllArms == TRANSITIONS \cup COD_TRANSITIONS \cup LATE_RESOURCE_COMPENSATIONS

(* An event that changes anything follows a row of the tables that starts    *)
(* where the saga is, and under cash on delivery never the row that charges. *)
LEMMA DecidedByAnArm ==
  ASSUME NEW status, NEW event, NEW pay,
         resolve(status, event, pay).outcome \in {"apply", "compensate"}
  PROVE  \E a \in AllArms :
           /\ a.from = status /\ a.event = event
           /\ resolve(status, event, pay).to = a.to
           /\ resolve(status, event, pay).command = a.command
           /\ pay = "COD" => a.command # "ChargePaymentCommand"
           /\ resolve(status, event, pay).outcome = "apply" => a \in TRANSITIONS \cup COD_TRANSITIONS
<1> DEFINE apply == Applicable(status, event, pay)
           late == Arms(LATE_RESOURCE_COMPENSATIONS, status, event)
<1>1. \A a \in apply : /\ a \in TRANSITIONS \cup COD_TRANSITIONS /\ a.from = status /\ a.event = event
                       /\ pay = "COD" => a.command # "ChargePaymentCommand"
  <2> SUFFICES ASSUME NEW a \in apply
               PROVE  /\ a \in TRANSITIONS \cup COD_TRANSITIONS /\ a.from = status /\ a.event = event
                      /\ pay = "COD" => a.command # "ChargePaymentCommand"
    OBVIOUS
  <2>1. a \in TRANSITIONS \cup COD_TRANSITIONS /\ a.from = status /\ a.event = event
    BY DEF Applicable, Arms
  <2>2. ASSUME pay = "COD", a.command = "ChargePaymentCommand" PROVE FALSE
    <3>1. a \in TRANSITIONS /\ Arms(COD_TRANSITIONS, status, event) = {}
      BY <2>2 DEF Applicable, Arms, COD_TRANSITIONS, Arm, NoCommand
    <3>2. a.from = "PENDING" /\ a.event = "InventoryReserved"
      BY <2>2, <3>1 DEF TRANSITIONS, Arm, NoCommand
    <3>3. Arm("PENDING", "InventoryReserved", "ORDER_COMPLETED", NoCommand)
            \in Arms(COD_TRANSITIONS, status, event)
      BY <2>1, <3>2 DEF Arms, COD_TRANSITIONS, Arm
    <3> QED BY <3>1, <3>3
  <2> QED BY <2>1, <2>2
<1>2. \A a \in late : /\ a \in AllArms /\ a.from = status /\ a.event = event
                      /\ a.command # "ChargePaymentCommand"
  BY DEF Arms, AllArms, LATE_RESOURCE_COMPENSATIONS, Arm
<1> HIDE DEF apply, late
<1>3. \/ apply # {} /\ resolve(status, event, pay) = Decision("apply", apply, status)
      \/ late # {} /\ resolve(status, event, pay) = Decision("compensate", late, status)
  BY DEF resolve, Decision, apply, late
<1>4. CASE apply # {} /\ resolve(status, event, pay) = Decision("apply", apply, status)
  <2> DEFINE pick == CHOOSE a \in apply : TRUE
  <2>1. pick \in apply
    BY <1>4
  <2>2. resolve(status, event, pay) =
          [outcome |-> "apply", to |-> pick.to, command |-> pick.command]
    BY <1>4 DEF Decision
  <2> HIDE DEF pick
  <2> QED BY <1>1, <2>1, <2>2 DEF AllArms
<1>5. CASE late # {} /\ resolve(status, event, pay) = Decision("compensate", late, status)
  <2> DEFINE pick == CHOOSE a \in late : TRUE
  <2>1. pick \in late
    BY <1>5
  <2>2. resolve(status, event, pay) =
          [outcome |-> "compensate", to |-> pick.to, command |-> pick.command]
    BY <1>5 DEF Decision
  <2> HIDE DEF pick
  <2> QED BY <1>2, <2>1, <2>2
<1> QED BY <1>3, <1>4, <1>5

(* The facts of the tables the invariants need.                              *)
LEMMA ArmFacts ==
  ASSUME NEW a \in AllArms
  PROVE  /\ a.from \in ALL_STATES /\ a.to \in ALL_STATES
         /\ a.from # "ORDER_COMPLETED" /\ a.to # "PENDING"
         /\ a.command = "ChargePaymentCommand" => a.from = "PENDING"
BY DEF AllArms, TRANSITIONS, COD_TRANSITIONS, LATE_RESOURCE_COMPENSATIONS, Arm,
       ALL_STATES, NoCommand

(* Under cash on delivery, held stock completes the saga.                    *)
LEMMA ReservedFacts ==
  ASSUME NEW a \in TRANSITIONS \cup COD_TRANSITIONS, a.event = "InventoryReserved",
         a.command # "ChargePaymentCommand"
  PROVE  a.to = "ORDER_COMPLETED"
BY DEF TRANSITIONS, COD_TRANSITIONS, Arm, NoCommand

(* What the handler knows once the event applies.                            *)
LEMMA DecisionFacts ==
  ASSUME NEW status \in ALL_STATES, NEW event, NEW pay,
         resolve(status, event, pay).outcome \in {"apply", "compensate"}
  PROVE  /\ resolve(status, event, pay).to \in ALL_STATES \ {"PENDING"}
         /\ status # "ORDER_COMPLETED"
         /\ resolve(status, event, pay).command = "ChargePaymentCommand"
              => status = "PENDING" /\ pay # "COD"
         /\ (/\ pay = "COD" /\ event = "InventoryReserved"
             /\ resolve(status, event, pay).outcome = "apply")
              => resolve(status, event, pay).to = "ORDER_COMPLETED"
<1>1. PICK a \in AllArms :
        /\ a.from = status /\ a.event = event
        /\ resolve(status, event, pay).to = a.to
        /\ resolve(status, event, pay).command = a.command
        /\ pay = "COD" => a.command # "ChargePaymentCommand"
        /\ resolve(status, event, pay).outcome = "apply" => a \in TRANSITIONS \cup COD_TRANSITIONS
  BY DecidedByAnArm
<1> QED BY <1>1, ArmFacts, ReservedFacts

-----------------------------------------------------------------------------
(* What the buyer is shown *)

Active == SellerOrderStatus \ ENDED_UNFAVOURABLY

LEMMA Ranks ==
  /\ \A x \in SellerOrderStatus : Rank(x) \in 0..7
  /\ \A x \in Active : Rank(x) = Progress(x) /\ Rank(x) < 7
  /\ \A x \in ENDED_UNFAVOURABLY : Rank(x) = 7
BY DEF SellerOrderStatus, ENDED_UNFAVOURABLY, Active, Rank, Progress

LEMMA LeastAdvanced ==
  ASSUME NEW T \in SUBSET Active, T # {}
  PROVE  \E a \in T : \A b \in T : Progress(a) <= Progress(b)
BY DEF Active, SellerOrderStatus, ENDED_UNFAVOURABLY, Progress

(* The rank of the derived status is the least rank among the children.      *)
LEMMA DerivedIsLeast ==
  ASSUME NEW S, S # {}, NEW f \in [S -> SellerOrderStatus]
  PROVE  /\ \E s \in S : Rank(derive_order_status(f)) = Rank(f[s])
         /\ \A s \in S : Rank(derive_order_status(f)) <= Rank(f[s])
<1> DEFINE all == {f[s] : s \in DOMAIN f}
           active == all \ ENDED_UNFAVOURABLY
<1>1. DOMAIN f = S /\ all \subseteq SellerOrderStatus /\ active \subseteq Active
  BY DEF Active
<1>2. CASE active # {}
  <2> DEFINE least == CHOOSE a \in active : \A b \in active : Progress(a) <= Progress(b)
  <2>1. derive_order_status(f) = least
    BY <1>2 DEF derive_order_status
  <2>2. least \in active /\ \A b \in active : Progress(least) <= Progress(b)
    <3> HIDE DEF active
    <3> QED BY <1>1, <1>2, LeastAdvanced
  <2> HIDE DEF least
  <2>3. PICK s \in S : least = f[s]
    BY <1>1, <2>2
  <2>4. ASSUME NEW r \in S PROVE Rank(least) <= Rank(f[r])
    <3>1. CASE f[r] \in active
      BY <1>1, <2>2, <3>1, Ranks
    <3>2. CASE f[r] \in ENDED_UNFAVOURABLY
      <4>1. Rank(f[r]) = 7 /\ Rank(least) < 7 /\ Rank(least) \in 0..7
        BY <1>1, <2>2, <3>2, Ranks DEF Active
      <4> QED BY <4>1
    <3> QED BY <1>1, <3>1, <3>2
  <2> QED BY <2>1, <2>3, <2>4
<1>3. CASE active = {}
  <2>1. derive_order_status(f) \in ENDED_UNFAVOURABLY
    BY <1>3 DEF derive_order_status, ENDED_UNFAVOURABLY
  <2>2. \A s \in S : f[s] \in ENDED_UNFAVOURABLY
    BY <1>1, <1>3
  <2> QED BY <2>1, <2>2, Ranks
<1> QED BY <1>2, <1>3

LEMMA DerivedIsMonotone ==
  ASSUME NEW S, S # {}, NEW f \in [S -> SellerOrderStatus], NEW g \in [S -> SellerOrderStatus],
         \A s \in S : Rank(f[s]) <= Rank(g[s])
  PROVE  Rank(derive_order_status(f)) <= Rank(derive_order_status(g))
<1>1. PICK s \in S : Rank(derive_order_status(g)) = Rank(g[s])
  BY DerivedIsLeast
<1>2. Rank(derive_order_status(f)) <= Rank(f[s])
  BY DerivedIsLeast
<1>3. PICK r \in S : Rank(derive_order_status(f)) = Rank(f[r])
  BY DerivedIsLeast
<1>4. Rank(f[r]) \in 0..7 /\ Rank(f[s]) \in 0..7 /\ Rank(g[s]) \in 0..7
  BY Ranks
<1> QED BY <1>1, <1>2, <1>3, <1>4

-----------------------------------------------------------------------------
(* The inductive invariant *)

SagaTypes ==
  /\ saga \in [Orders -> ALL_STATES \cup {"ABSENT"}]
  /\ method \in [Orders -> {"COD", "CARD"}]
  /\ DOMAIN child = Orders
  /\ \A o \in Orders : child[o] \in [SellersOf[o] -> SellerOrderStatus]
  /\ DOMAIN open = Orders

(* The lock on the saga row: what an advance has decided still applies when  *)
(* it commits, and it cancels children only if it ends the order.            *)
LockHolds ==
  \A o \in Orders : open[o] # NoTx =>
    /\ saga[o] # "ABSENT"
    /\ Decide(o, open[o].event).outcome \in {"apply", "compensate"}
    /\ open[o].doomed \subseteq SellersOf[o]
    /\ open[o].doomed # {} => Decide(o, open[o].event).to \in SAGA_STATES_ENDING_THE_ORDER

(* A charge is asked for on leaving PENDING, and no saga returns there.      *)
ChargeInv ==
  \A o \in Orders :
    /\ saga[o] \in {"ABSENT", "PENDING"} \/ method[o] = "COD"
         => Emitted("ChargePaymentCommand", o) = {}
    /\ \E c : Emitted("ChargePaymentCommand", o) \subseteq {c}

(* Under cash on delivery no seller acts before the saga has handed off.     *)
CodInv ==
  \A o \in Orders : method[o] = "COD" /\ saga[o] # "ORDER_COMPLETED" =>
    \A s \in SellersOf[o] : child[o][s] \in {"PENDING", "CANCELLED"}

SagaInv == SagaTypes /\ LockHolds /\ ChargeInv /\ CodInv

-----------------------------------------------------------------------------
(* Commands and seller orders *)

LEMMA CommandFacts ==
  ASSUME NEW types, NEW o, NEW s
  PROVE  \A m \in Commands(types, o, s) :
           m.order = o /\ m.type \in types /\ m.type # NoCommand
<1>1. \A type : Command(type, o, s).order = o /\ Command(type, o, s).type = type
  BY DEF Command
<1> QED BY <1>1 DEF Commands

(* Commands of other types or orders leave the emitted ones as they are.     *)
LEMMA OthersEmitted ==
  ASSUME NEW more, outbox' = outbox \cup more, NEW type, NEW o,
         \A m \in more : m.type # type \/ m.order # o
  PROVE  Emitted(type, o)' = Emitted(type, o)
<1>1. Emitted(type, o)' = {m \in outbox' : m.type = type /\ m.order = o}
  BY DEF Emitted
<1>2. \A m : m \in Emitted(type, o)' <=> m \in Emitted(type, o)
  BY <1>1 DEF Emitted
<1> QED BY <1>2

LEMMA TransitionFacts ==
  ASSUME NEW action, NEW status \in SellerOrderStatus,
         NEW t \in plan_transition(action, status)
  PROVE  /\ t.to \in SellerOrderStatus
         /\ Rank(status) <= Rank(t.to)
         /\ status \in Shipped => t.to # "CANCELLED"
         /\ status \in {"PENDING", "CANCELLED"} => t.to = "CANCELLED"
         /\ EffectCommands(t) \cup EscrowCommands(t) \subseteq
              {"ReleaseSellerOrderInventoryCommand", "ConsumeSellerOrderInventoryCommand",
               "BookEscrowDeliveryCommand"}
<1>1. t \in COD_ACTIONS /\ t.from = status
  BY DEF plan_transition
<1>2. /\ t.to \in SellerOrderStatus
      /\ Rank(status) <= Rank(t.to)
      /\ status \in Shipped => t.to # "CANCELLED"
      /\ status \in {"PENDING", "CANCELLED"} => t.to = "CANCELLED"
  BY <1>1 DEF COD_ACTIONS, Transition, SellerOrderStatus, Rank, Progress, ENDED_UNFAVOURABLY, Shipped
<1>3. EffectCommands(t) \cup EscrowCommands(t) \subseteq
        {"ReleaseSellerOrderInventoryCommand", "ConsumeSellerOrderInventoryCommand",
         "BookEscrowDeliveryCommand"}
  BY DEF EffectCommands, EscrowCommands
<1> QED BY <1>2, <1>3

LEMMA CancelFacts ==
  ASSUME NEW status, NEW S, NEW f \in [S -> SellerOrderStatus]
  PROVE  /\ children_to_cancel(status, f) \subseteq S
         /\ children_to_cancel(status, f) # {} => status \in SAGA_STATES_ENDING_THE_ORDER
BY DEF children_to_cancel

LEMMA CancelledRanksLast ==
  ASSUME NEW x \in SellerOrderStatus
  PROVE  /\ Rank(x) <= Rank("CANCELLED") /\ Rank(x) <= Rank(x)
         /\ "CANCELLED" \in SellerOrderStatus /\ "INVENTORY_RESERVED" \in SellerOrderStatus
         /\ Rank("PENDING") <= Rank("INVENTORY_RESERVED")
BY DEF SellerOrderStatus, Rank, Progress, ENDED_UNFAVOURABLY

-----------------------------------------------------------------------------
(* Initially *)

LEMMA InitHolds == SagaInit => SagaInv
<1> SUFFICES ASSUME NEW cards \in SUBSET Orders, SagaInitWith(cards) PROVE SagaInv
  BY DEF SagaInit
<1>1. SagaTypes
  BY DEF SagaInitWith, SagaTypes, ALL_STATES, SellerOrderStatus
<1>2. LockHolds
  BY DEF SagaInitWith, LockHolds
<1>3. \A o \in Orders : Emitted("ChargePaymentCommand", o) = {}
  BY DEF SagaInitWith, Emitted
<1>4. ChargeInv
  BY <1>3 DEF ChargeInv
<1>5. CodInv
  BY DEF SagaInitWith, CodInv
<1> QED BY <1>1, <1>2, <1>4, <1>5 DEF SagaInv

-----------------------------------------------------------------------------
(* Every step keeps the invariant, moves no seller order backwards, and      *)
(* leaves alone what a completed saga has handed off.                        *)

ChildrenAdvance ==
  \A o \in Orders : \A s \in SellersOf[o] : Rank(child[o][s]) <= Rank(child'[o][s])

HandedOff ==
  /\ \A o \in Orders : saga[o] = "ORDER_COMPLETED" =>
       Emitted("ReleaseInventoryCommand", o)' = Emitted("ReleaseInventoryCommand", o)
  /\ \A o \in Orders : method[o] = "COD" => ParcelsAreKept(o)

LEMMA ChildrenUnmoved ==
  ASSUME SagaTypes, child' = child, method' = method
  PROVE  ChildrenAdvance /\ \A o \in Orders : ParcelsAreKept(o)
<1>1. \A o \in Orders : \A s \in SellersOf[o] : child[o][s] \in SellerOrderStatus
  BY DEF SagaTypes
<1>2. ChildrenAdvance
  BY <1>1, CancelledRanksLast DEF ChildrenAdvance
<1>3. \A o \in Orders : ParcelsAreKept(o)
  BY DEF ParcelsAreKept, Shipped
<1> QED BY <1>2, <1>3

LEMMA StartKeeps ==
  ASSUME SagaInv, NEW o \in Orders, start_saga(o)
  PROVE  SagaInv' /\ ChildrenAdvance /\ HandedOff
<1> DEFINE more == Commands({"ReserveInventoryCommand"}, o, NoSeller)
<1>1. /\ saga[o] = "ABSENT" /\ saga' = [saga EXCEPT ![o] = "PENDING"]
      /\ outbox' = outbox \cup more /\ method' = method /\ child' = child /\ open' = open
  BY DEF start_saga
<1>2. \A m \in more : m.type = "ReserveInventoryCommand"
  BY CommandFacts
<1> HIDE DEF more
<1>3. \A p \in Orders : /\ Emitted("ChargePaymentCommand", p)' = Emitted("ChargePaymentCommand", p)
                        /\ Emitted("ReleaseInventoryCommand", p)' = Emitted("ReleaseInventoryCommand", p)
  BY <1>1, <1>2, OthersEmitted
<1>4. SagaTypes'
  BY <1>1 DEF SagaInv, SagaTypes, ALL_STATES
<1>5. \A p \in Orders : p # o => saga'[p] = saga[p]
  BY <1>1 DEF SagaInv, SagaTypes
<1>6. saga'[o] = "PENDING" /\ open[o] = NoTx
  BY <1>1 DEF SagaInv, SagaTypes, LockHolds
<1>7. LockHolds'
  BY <1>1, <1>5, <1>6 DEF SagaInv, LockHolds, Decide
<1>8. ChargeInv'
  BY <1>1, <1>3, <1>5, <1>6 DEF SagaInv, ChargeInv
<1>9. CodInv'
  BY <1>1, <1>5, <1>6 DEF SagaInv, CodInv
<1>10. ChildrenAdvance /\ HandedOff
  BY <1>1, <1>3, ChildrenUnmoved DEF HandedOff, SagaInv
<1> QED BY <1>4, <1>7, <1>8, <1>9, <1>10 DEF SagaInv

LEMMA ReadKeeps ==
  ASSUME SagaInv, NEW o \in Orders, NEW event \in KNOWN_EVENT_TYPES, NEW key \in Keys,
         AdvanceRead(o, event, key)
  PROVE  SagaInv' /\ ChildrenAdvance /\ HandedOff
<1> DEFINE tx == [event |-> event, key |-> key, doomed |-> Doomed(o, event, child[o])]
<1>1. /\ saga[o] # "ABSENT" /\ Decide(o, event).outcome \in {"apply", "compensate"}
      /\ open' = [open EXCEPT ![o] = tx]
      /\ saga' = saga /\ outbox' = outbox /\ method' = method /\ child' = child
  BY DEF AdvanceRead
<1>2. /\ Doomed(o, event, child[o]) \subseteq SellersOf[o]
      /\ Doomed(o, event, child[o]) # {} => Decide(o, event).to \in SAGA_STATES_ENDING_THE_ORDER
  BY CancelFacts DEF Doomed, SagaInv, SagaTypes
<1>3. SagaTypes'
  BY <1>1 DEF SagaInv, SagaTypes
<1>4. LockHolds'
  <2> SUFFICES ASSUME NEW p \in Orders, open'[p] # NoTx
               PROVE  /\ saga[p] # "ABSENT"
                      /\ Decide(p, open'[p].event).outcome \in {"apply", "compensate"}
                      /\ open'[p].doomed \subseteq SellersOf[p]
                      /\ open'[p].doomed # {} =>
                           Decide(p, open'[p].event).to \in SAGA_STATES_ENDING_THE_ORDER
    BY <1>1 DEF LockHolds, Decide
  <2>1. CASE p = o
    <3>1. DOMAIN open = Orders
      BY DEF SagaInv, SagaTypes
    <3>2. tx.event = event /\ tx.doomed = Doomed(o, event, child[o])
      OBVIOUS
    <3> HIDE DEF tx
    <3>3. open'[p] = tx
      BY <1>1, <2>1, <3>1
    <3> QED BY <1>1, <1>2, <2>1, <3>2, <3>3
  <2>2. CASE p # o
    <3>1. open'[p] = open[p]
      BY <1>1, <2>2 DEF SagaInv, SagaTypes
    <3> QED BY <3>1 DEF SagaInv, LockHolds
  <2> QED BY <2>1, <2>2
<1>5. \A type, p : Emitted(type, p)' = Emitted(type, p)
  BY <1>1 DEF Emitted
<1>6. ChargeInv' /\ CodInv'
  BY <1>1, <1>5 DEF SagaInv, ChargeInv, CodInv
<1>7. ChildrenAdvance /\ HandedOff
  BY <1>1, <1>5, ChildrenUnmoved DEF HandedOff, SagaInv
<1> QED BY <1>3, <1>4, <1>6, <1>7 DEF SagaInv

LEMMA FailKeeps ==
  ASSUME SagaInv, NEW o \in Orders, AdvanceFails(o)
  PROVE  SagaInv' /\ ChildrenAdvance /\ HandedOff
<1>1. /\ open' = [open EXCEPT ![o] = NoTx]
      /\ saga' = saga /\ outbox' = outbox /\ method' = method /\ child' = child
  BY DEF AdvanceFails
<1>2. SagaTypes'
  BY <1>1 DEF SagaInv, SagaTypes
<1>3. \A p \in Orders : open'[p] # NoTx => open'[p] = open[p]
  BY <1>1 DEF SagaInv, SagaTypes
<1>4. LockHolds'
  BY <1>1, <1>3 DEF SagaInv, LockHolds, Decide
<1>5. \A type, p : Emitted(type, p)' = Emitted(type, p)
  BY <1>1 DEF Emitted
<1>6. ChargeInv' /\ CodInv'
  BY <1>1, <1>5 DEF SagaInv, ChargeInv, CodInv
<1>7. ChildrenAdvance /\ HandedOff
  BY <1>1, <1>5, ChildrenUnmoved DEF HandedOff, SagaInv
<1> QED BY <1>2, <1>4, <1>6, <1>7 DEF SagaInv

LEMMA CommitKeeps ==
  ASSUME SagaInv, NEW o \in Orders, AdvanceCommit(o)
  PROVE  SagaInv' /\ ChildrenAdvance /\ HandedOff
<1> DEFINE event == open[o].event
           doomed == open[o].doomed
           d == Decide(o, event)
           reserving == event = "InventoryReserved" /\ d.outcome = "apply"
           more == Commands({d.command}, o, NoSeller)
<1>1. /\ open[o] # NoTx /\ saga' = [saga EXCEPT ![o] = d.to]
      /\ child' = [child EXCEPT ![o] =
                     [s \in SellersOf[o] |->
                        IF s \in doomed THEN "CANCELLED"
                        ELSE IF reserving /\ child[o][s] = "PENDING"
                        THEN "INVENTORY_RESERVED" ELSE child[o][s]]]
      /\ outbox' = outbox \cup more /\ method' = method
      /\ open' = [open EXCEPT ![o] = NoTx]
  BY DEF AdvanceCommit, Advance
<1>2. saga[o] \in ALL_STATES /\ d.outcome \in {"apply", "compensate"}
  BY <1>1 DEF SagaInv, SagaTypes, LockHolds
<1>3. /\ d.to \in ALL_STATES \ {"PENDING"} /\ saga[o] # "ORDER_COMPLETED"
      /\ d.command = "ChargePaymentCommand" => saga[o] = "PENDING" /\ method[o] # "COD"
      /\ method[o] = "COD" /\ reserving => d.to = "ORDER_COMPLETED"
  BY <1>2, DecisionFacts DEF Decide
<1>4. \A m \in more : m.order = o /\ m.type = d.command /\ m = Command(d.command, o, NoSeller)
  <2>1. \A m \in more : m = Command(d.command, o, NoSeller)
    BY DEF Commands
  <2> QED BY <2>1, CommandFacts
<1> HIDE DEF event, doomed, d, reserving, more
<1>5. /\ saga'[o] = d.to /\ open'[o] = NoTx
      /\ \A s \in SellersOf[o] :
           child'[o][s] = IF s \in doomed THEN "CANCELLED"
                          ELSE IF reserving /\ child[o][s] = "PENDING"
                          THEN "INVENTORY_RESERVED" ELSE child[o][s]
  BY <1>1 DEF SagaInv, SagaTypes
<1>6. \A p \in Orders \ {o} : saga'[p] = saga[p] /\ child'[p] = child[p] /\ open'[p] = open[p]
  BY <1>1 DEF SagaInv, SagaTypes
<1>7. \A p \in Orders : \A s \in SellersOf[p] : child[p][s] \in SellerOrderStatus
  BY DEF SagaInv, SagaTypes
<1>8. SagaTypes'
  <2>1. child'[o] \in [SellersOf[o] -> SellerOrderStatus]
    BY <1>1, <1>7, CancelledRanksLast DEF SagaInv, SagaTypes
  <2> QED BY <1>1, <1>3, <1>6, <2>1 DEF SagaInv, SagaTypes
<1>9. LockHolds'
  BY <1>1, <1>5, <1>6 DEF SagaInv, LockHolds, Decide
<1>10. \A p \in Orders \ {o} :
         /\ Emitted("ChargePaymentCommand", p)' = Emitted("ChargePaymentCommand", p)
         /\ Emitted("ReleaseInventoryCommand", p)' = Emitted("ReleaseInventoryCommand", p)
  BY <1>1, <1>4, OthersEmitted
<1>11. ChargeInv'
  <2>1. ASSUME NEW p \in Orders \ {o}
        PROVE  /\ saga'[p] \in {"ABSENT", "PENDING"} \/ method'[p] = "COD"
                    => Emitted("ChargePaymentCommand", p)' = {}
               /\ \E c : Emitted("ChargePaymentCommand", p)' \subseteq {c}
    BY <1>1, <1>6, <1>10 DEF SagaInv, ChargeInv
  <2>2. CASE d.command # "ChargePaymentCommand"
    <3>1. Emitted("ChargePaymentCommand", o)' = Emitted("ChargePaymentCommand", o)
      BY <1>1, <1>4, <2>2, OthersEmitted
    <3>2. saga'[o] \notin {"ABSENT", "PENDING"}
      BY <1>3, <1>5 DEF ALL_STATES
    <3> QED BY <1>1, <2>1, <3>1, <3>2 DEF SagaInv, ChargeInv
  <2>3. CASE d.command = "ChargePaymentCommand"
    <3>1. Emitted("ChargePaymentCommand", o) = {} /\ method'[o] # "COD"
      BY <1>1, <1>3, <2>3 DEF SagaInv, ChargeInv
    <3>2. Emitted("ChargePaymentCommand", o)' = {m \in outbox' : m.type = "ChargePaymentCommand" /\ m.order = o}
      BY DEF Emitted
    <3>3. \A m \in Emitted("ChargePaymentCommand", o)' : m = Command(d.command, o, NoSeller)
      BY <1>1, <1>4, <3>1, <3>2 DEF Emitted
    <3>4. \E c : Emitted("ChargePaymentCommand", o)' \subseteq {c}
      <4> DEFINE e == Emitted("ChargePaymentCommand", o)'
                 c == Command(d.command, o, NoSeller)
      <4>1. \A m \in e : m = c
        BY <3>3
      <4> HIDE DEF e, c
      <4>2. e \subseteq {c}
        BY <4>1
      <4>3. \E x : e \subseteq {x}
        BY <4>2
      <4> QED BY <4>3 DEF e
    <3>5. saga'[o] \notin {"ABSENT", "PENDING"}
      BY <1>3, <1>5 DEF ALL_STATES
    <3> QED BY <2>1, <3>1, <3>4, <3>5 DEF ChargeInv
  <2> QED BY <2>2, <2>3
<1>12. CodInv'
  <2>1. ASSUME method[o] = "COD", d.to # "ORDER_COMPLETED", NEW s \in SellersOf[o]
        PROVE  child'[o][s] \in {"PENDING", "CANCELLED"}
    <3>1. child[o][s] \in {"PENDING", "CANCELLED"}
      BY <1>3, <2>1 DEF SagaInv, CodInv
    <3>2. ~reserving
      BY <1>3, <2>1
    <3> QED BY <1>5, <3>1, <3>2
  <2> QED BY <1>1, <1>5, <1>6, <2>1, ZenonT(60) DEF SagaInv, CodInv
<1>13. ChildrenAdvance
  <2>1. ASSUME NEW s \in SellersOf[o] PROVE Rank(child[o][s]) <= Rank(child'[o][s])
    BY <1>5, <1>7, CancelledRanksLast
  <2> QED BY <1>6, <1>7, <2>1, CancelledRanksLast DEF ChildrenAdvance
<1>14. HandedOff
  <2>1. method[o] = "COD" => ParcelsAreKept(o)
    BY <1>3 DEF SagaInv, CodInv, ParcelsAreKept, Shipped
  <2>2. \A p \in Orders \ {o} : ParcelsAreKept(p)
    BY <1>6 DEF ParcelsAreKept, Shipped
  <2> QED BY <1>3, <1>10, <2>1, <2>2 DEF HandedOff
<1> QED BY <1>8, <1>9, <1>11, <1>12, <1>13, <1>14 DEF SagaInv

(* Commands of types that neither charge nor release the order.              *)
LEMMA SellerMovesKeep ==
  ASSUME SagaInv, NEW o \in Orders, NEW s \in SellersOf[o], NEW action \in ActionNames,
         transition_seller_order(o, s, action)
  PROVE  SagaInv' /\ ChildrenAdvance /\ HandedOff
<1>1. PICK t \in plan_transition(action, child[o][s]) :
        /\ child' = [child EXCEPT ![o][s] = t.to]
        /\ outbox' = outbox \cup Commands(EffectCommands(t) \cup EscrowCommands(t), o, s)
  BY DEF transition_seller_order
<1> DEFINE more == Commands(EffectCommands(t) \cup EscrowCommands(t), o, s)
<1>2. saga' = saga /\ method' = method /\ open' = open
  BY DEF transition_seller_order
<1>3. \A p \in Orders : \A r \in SellersOf[p] : child[p][r] \in SellerOrderStatus
  BY DEF SagaInv, SagaTypes
<1>4. /\ t.to \in SellerOrderStatus /\ Rank(child[o][s]) <= Rank(t.to)
      /\ child[o][s] \in Shipped => t.to # "CANCELLED"
      /\ child[o][s] \in {"PENDING", "CANCELLED"} => t.to = "CANCELLED"
      /\ EffectCommands(t) \cup EscrowCommands(t) \subseteq
           {"ReleaseSellerOrderInventoryCommand", "ConsumeSellerOrderInventoryCommand",
            "BookEscrowDeliveryCommand"}
  BY <1>3, TransitionFacts
<1>5. \A m \in more : m.type \notin {"ChargePaymentCommand", "ReleaseInventoryCommand"}
  BY <1>4, CommandFacts
<1>6. outbox' = outbox \cup more
  BY <1>1
<1> HIDE DEF more
<1>7. \A p \in Orders : /\ Emitted("ChargePaymentCommand", p)' = Emitted("ChargePaymentCommand", p)
                        /\ Emitted("ReleaseInventoryCommand", p)' = Emitted("ReleaseInventoryCommand", p)
  BY <1>5, <1>6, OthersEmitted
<1>8. /\ child'[o][s] = t.to
      /\ \A r \in SellersOf[o] \ {s} : child'[o][r] = child[o][r]
      /\ \A p \in Orders \ {o} : child'[p] = child[p]
  BY <1>1 DEF SagaInv, SagaTypes
<1>9. SagaTypes'
  BY <1>1, <1>2, <1>4 DEF SagaInv, SagaTypes
<1>10. LockHolds'
  BY <1>2 DEF SagaInv, LockHolds, Decide
<1>11. ChargeInv'
  BY <1>2, <1>7 DEF SagaInv, ChargeInv
<1>12. CodInv'
  <2>1. ASSUME NEW p \in Orders, method[p] = "COD", saga[p] # "ORDER_COMPLETED", NEW r \in SellersOf[p]
        PROVE  child'[p][r] \in {"PENDING", "CANCELLED"}
    <3>1. child[p][r] \in {"PENDING", "CANCELLED"}
      BY <2>1 DEF SagaInv, CodInv
    <3> QED BY <1>4, <1>8, <3>1
  <2> QED BY <1>2, <2>1 DEF CodInv
<1>13. ChildrenAdvance
  BY <1>3, <1>4, <1>8, CancelledRanksLast DEF ChildrenAdvance
<1>14. \A p \in Orders : ParcelsAreKept(p)
  BY <1>4, <1>8 DEF ParcelsAreKept, Shipped
<1> QED BY <1>7, <1>9, <1>10, <1>11, <1>12, <1>13, <1>14 DEF SagaInv, HandedOff

LEMMA SweepKeeps ==
  ASSUME SagaInv, NEW stale \in SUBSET Orders, Sweep(stale)
  PROVE  SagaInv' /\ ChildrenAdvance /\ HandedOff
<1> DEFINE swept == [o \in Orders |-> IF o \in stale THEN "TIMED_OUT" ELSE saga[o]]
           gone(o) == children_to_cancel(swept[o], child[o])
           more == UNION {Commands(CompensationsFor(saga[o]), o, NoSeller) : o \in stale}
<1>1. /\ \A o \in stale : Reapable(o) /\ open[o] = NoTx
      /\ saga' = swept
      /\ child' = [o \in Orders |-> [s \in SellersOf[o] |->
                     IF s \in gone(o) THEN "CANCELLED" ELSE child[o][s]]]
      /\ outbox' = outbox \cup more
      /\ method' = method /\ open' = open
  BY DEF Sweep
<1>2. \A o \in stale : /\ saga[o] \in {"PENDING", "INVENTORY_RESERVED", "PAID"}
                       /\ "ChargePaymentCommand" \notin CompensationsFor(saga[o])
  BY <1>1 DEF Reapable, CompensationsFor
<1>3. \A m \in more : /\ m.type # "ChargePaymentCommand"
                      /\ m.order \in stale
  BY <1>2, CommandFacts
<1>4. \A p \in Orders :
        /\ Emitted("ChargePaymentCommand", p)' = Emitted("ChargePaymentCommand", p)
        /\ saga[p] = "ORDER_COMPLETED" =>
             Emitted("ReleaseInventoryCommand", p)' = Emitted("ReleaseInventoryCommand", p)
  <2> HIDE DEF more
  <2>1. \A p : Emitted("ChargePaymentCommand", p)' = Emitted("ChargePaymentCommand", p)
    BY <1>1, <1>3, OthersEmitted
  <2>2. ASSUME NEW p \in Orders, saga[p] = "ORDER_COMPLETED"
        PROVE  Emitted("ReleaseInventoryCommand", p)' = Emitted("ReleaseInventoryCommand", p)
    <3>1. \A m \in more : m.order # p
      BY <1>2, <1>3, <2>2
    <3> QED BY <1>1, <3>1, OthersEmitted
  <2> QED BY <2>1, <2>2
<1>5. \A p \in Orders : saga'[p] = (IF p \in stale THEN "TIMED_OUT" ELSE saga[p])
  BY <1>1
<1>6. \A p \in Orders : \A s \in SellersOf[p] :
        \/ child'[p][s] = child[p][s]
        \/ child'[p][s] = "CANCELLED" /\ saga'[p] # "ORDER_COMPLETED"
  <2>1. \A p \in Orders : gone(p) # {} => swept[p] \in SAGA_STATES_ENDING_THE_ORDER
    BY CancelFacts DEF SagaInv, SagaTypes
  <2> SUFFICES ASSUME NEW p \in Orders, NEW s \in SellersOf[p]
               PROVE  \/ child'[p][s] = child[p][s]
                      \/ child'[p][s] = "CANCELLED" /\ saga'[p] # "ORDER_COMPLETED"
    OBVIOUS
  <2>2. child'[p][s] = IF s \in gone(p) THEN "CANCELLED" ELSE child[p][s]
    BY <1>1
  <2>3. saga'[p] = swept[p]
    BY <1>1
  <2> HIDE DEF gone, swept
  <2>4. CASE s \in gone(p)
    <3>1. swept[p] \in SAGA_STATES_ENDING_THE_ORDER
      BY <2>1, <2>4
    <3> QED BY <2>2, <2>3, <2>4, <3>1 DEF SAGA_STATES_ENDING_THE_ORDER
  <2> QED BY <2>2, <2>4
<1>7. \A p \in Orders : \A s \in SellersOf[p] : child[p][s] \in SellerOrderStatus
  BY DEF SagaInv, SagaTypes
<1>8. SagaTypes'
  <2>1. saga' \in [Orders -> ALL_STATES \cup {"ABSENT"}]
    BY <1>1 DEF SagaInv, SagaTypes, ALL_STATES
  <2>2. DOMAIN child' = Orders /\ \A p \in Orders : child'[p] \in [SellersOf[p] -> SellerOrderStatus]
    <3> HIDE DEF gone
    <3> QED BY <1>1, <1>7, CancelledRanksLast
  <2> QED BY <1>1, <2>1, <2>2 DEF SagaInv, SagaTypes
<1> HIDE DEF swept, gone, more
<1>9. LockHolds'
  BY <1>1, <1>5 DEF SagaInv, LockHolds, Decide
<1>10. ChargeInv'
  BY <1>1, <1>4, <1>5 DEF SagaInv, ChargeInv
<1>11. CodInv'
  <2>1. ASSUME NEW p \in Orders, method[p] = "COD", saga'[p] # "ORDER_COMPLETED", NEW s \in SellersOf[p]
        PROVE  child'[p][s] \in {"PENDING", "CANCELLED"}
    <3>1. saga[p] # "ORDER_COMPLETED"
      BY <1>2, <1>5, <2>1
    <3>2. child[p][s] \in {"PENDING", "CANCELLED"}
      BY <2>1, <3>1 DEF SagaInv, CodInv
    <3> QED BY <1>6, <3>2
  <2> QED BY <1>1, <2>1 DEF CodInv
<1>12. ChildrenAdvance
  BY <1>6, <1>7, CancelledRanksLast DEF ChildrenAdvance
<1>13. \A p \in Orders : method[p] = "COD" => ParcelsAreKept(p)
  <2> SUFFICES ASSUME NEW p \in Orders, method[p] = "COD", NEW s \in SellersOf[p],
                      child[p][s] \in Shipped
               PROVE  child'[p][s] # "CANCELLED"
    BY DEF ParcelsAreKept
  <2>1. saga[p] = "ORDER_COMPLETED"
    BY DEF SagaInv, CodInv, Shipped
  <2>2. saga'[p] = "ORDER_COMPLETED"
    BY <1>2, <1>5, <2>1
  <2> QED BY <1>6, <2>2 DEF Shipped
<1> QED BY <1>4, <1>8, <1>9, <1>10, <1>11, <1>12, <1>13 DEF SagaInv, HandedOff

-----------------------------------------------------------------------------
LEMMA SagaStepKeeps ==
  SagaInv /\ [SagaNext]_sagaVars => SagaInv' /\ ChildrenAdvance /\ HandedOff
<1> SUFFICES ASSUME SagaInv, [SagaNext]_sagaVars PROVE SagaInv' /\ ChildrenAdvance /\ HandedOff
  OBVIOUS
<1>1. CASE \E o \in Orders : start_saga(o) \/ AdvanceCommit(o) \/ AdvanceFails(o)
  BY <1>1, StartKeeps, CommitKeeps, FailKeeps
<1>2. CASE \E o \in Orders, event \in KNOWN_EVENT_TYPES, key \in Keys : AdvanceRead(o, event, key)
  BY <1>2, ReadKeeps
<1>3. CASE \E o \in Orders : \E s \in SellersOf[o], action \in ActionNames :
             transition_seller_order(o, s, action)
  BY <1>3, SellerMovesKeep
<1>4. CASE \E stale \in SUBSET Orders : Sweep(stale)
  BY <1>4, SweepKeeps
<1>5. CASE UNCHANGED sagaVars
  <2>1. /\ saga' = saga /\ method' = method /\ child' = child /\ open' = open /\ outbox' = outbox
    BY <1>5 DEF sagaVars
  <2>2. \A type, p : Emitted(type, p)' = Emitted(type, p)
    BY <2>1 DEF Emitted
  <2>3. SagaInv'
    BY <2>1, <2>2 DEF SagaInv, SagaTypes, LockHolds, Decide, ChargeInv, CodInv
  <2> QED BY <2>1, <2>2, <2>3, ChildrenUnmoved DEF HandedOff, SagaInv
<1> QED BY <1>1, <1>2, <1>3, <1>4, <1>5 DEF SagaNext, SagaStep

(* advance_saga, the seller's actions and the reaper keep the invariant.     *)
THEOREM SagaInvariant == SagaSpec => []SagaInv
BY InitHolds, SagaStepKeeps, PTL DEF SagaSpec

(* An order asks for its payment once at most, and under cash on delivery    *)
(* never (advance_saga, TRANSITIONS, COD_TRANSITIONS).                       *)
THEOREM ChargesAtMostOnce == SagaSpec => []ChargedAtMostOnce
<1>1. SagaInv => ChargedAtMostOnce
  <2> SUFFICES ASSUME SagaInv, NEW o \in Orders
               PROVE  Cardinality(Emitted("ChargePaymentCommand", o)) <= IF method[o] = "COD" THEN 0 ELSE 1
    BY DEF ChargedAtMostOnce
  <2> DEFINE e == Emitted("ChargePaymentCommand", o)
  <2>1. (method[o] = "COD" => e = {}) /\ \E c : e \subseteq {c}
    BY DEF SagaInv, ChargeInv
  <2>2. Cardinality(e) <= IF method[o] = "COD" THEN 0 ELSE 1
    <3> HIDE DEF e
    <3>1. PICK c : e \subseteq {c}
      BY <2>1
    <3>2. e = {} \/ e = {c}
      BY <3>1
    <3>3. Cardinality({}) = 0 /\ Cardinality({c}) = 1
      BY FS_EmptySet, FS_Singleton
    <3> QED BY <2>1, <3>2, <3>3
  <2> QED BY <2>2
<1> QED BY <1>1, SagaInvariant, PTL

(* Once the saga has handed off, what left with a courier is neither put     *)
(* back on sale nor, under cash on delivery, marked cancelled.               *)
THEOREM HandedOffStaysHandedOff == SagaSpec => HandedOffIsLeftAlone
<1>1. SagaInv /\ [SagaNext]_sagaVars =>
        [\A o \in Orders : saga[o] = "ORDER_COMPLETED" =>
           Emitted("ReleaseInventoryCommand", o)' = Emitted("ReleaseInventoryCommand", o)]_sagaVars
  BY SagaStepKeeps DEF HandedOff
<1>2. SagaInv /\ [SagaNext]_sagaVars =>
        [\A o \in Orders : method[o] = "COD" => ParcelsAreKept(o)]_sagaVars
  BY SagaStepKeeps DEF HandedOff
<1> QED
  BY <1>1, <1>2, SagaInvariant, PTL
  DEF SagaSpec, HandedOffIsLeftAlone, HandedOffStockIsNotReleased, CodParcelIsNotCancelled

(* The status shown to the buyer never moves backwards, however many         *)
(* sellers share the order (derive_order_status).                            *)
THEOREM BuyerStatusAdvances == SagaSpec => BuyerStatusNeverRegresses
<1>1. SagaInv /\ [SagaNext]_sagaVars =>
        \A o \in Orders : Rank(derive_order_status(child[o])) <= Rank(derive_order_status(child'[o]))
  <2> SUFFICES ASSUME SagaInv, [SagaNext]_sagaVars, NEW o \in Orders
               PROVE  Rank(derive_order_status(child[o])) <= Rank(derive_order_status(child'[o]))
    OBVIOUS
  <2>1. SagaInv' /\ ChildrenAdvance
    BY SagaStepKeeps
  <2>2. /\ SellersOf[o] # {}
        /\ child[o] \in [SellersOf[o] -> SellerOrderStatus]
        /\ child'[o] \in [SellersOf[o] -> SellerOrderStatus]
        /\ \A s \in SellersOf[o] : Rank(child[o][s]) <= Rank(child'[o][s])
    BY <2>1, OrderSagaConstants DEF SagaInv, SagaTypes, ChildrenAdvance
  <2> QED BY <2>2, DerivedIsMonotone
<1>2. SagaInv /\ [SagaNext]_sagaVars =>
        [\A o \in Orders : Rank(derive_order_status(child[o])) <= Rank(derive_order_status(child[o]'))]_sagaVars
  BY <1>1
<1> QED BY <1>2, SagaInvariant, PTL DEF SagaSpec, BuyerStatusNeverRegresses

=============================================================================

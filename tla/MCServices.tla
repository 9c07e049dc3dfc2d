----------------------------- MODULE MCServices -----------------------------
(***************************************************************************)
(* Model checking of eight components that share nothing: a behaviour        *)
(* chooses one of them at the start and is a behaviour of that one.         *)
(***************************************************************************)
EXTENDS Webhook, Notifications, Reviews, Media, Audit, CircuitBreaker, Payment, MCCart

CONSTANTS Parts     \* the components that are checked

VARIABLE part

servicesVars ==
  <<part, webhookVars, noteVars, reviewVars, mediaVars, auditVars, breakerVars, paymentVars, cartVars>>

ServicesInit ==
  /\ part \in Parts
  /\ WebhookInit /\ NotificationsInit /\ ReviewsInit /\ MediaInit /\ AuditInit /\ BreakerInit
  /\ PaymentInit /\ CartInit
  \* The others' circumstances do not matter.
  /\ part # "webhook" => hookSetting = CHOOSE s \in HookSettings : TRUE
  /\ part # "notifications" => noteSetting = CHOOSE s \in NoteSettings : TRUE
  /\ part # "reviews" => reviewSetting = CHOOSE s \in ReviewSettings : TRUE
  /\ part # "media" => mediaSetting = CHOOSE s \in MediaSettings : TRUE
  /\ part # "audit" => auditSetting = CHOOSE s \in AuditSettings : TRUE
  /\ part # "cart" => setting = CHOOSE s \in Settings : TRUE

\* A step of the component that was chosen.
AsWebhook(A) ==
  /\ part = "webhook" /\ A
  /\ UNCHANGED <<part, noteVars, reviewVars, mediaVars, auditVars, breakerVars, paymentVars, cartVars>>
AsNotifications(A) ==
  /\ part = "notifications" /\ A
  /\ UNCHANGED <<part, webhookVars, reviewVars, mediaVars, auditVars, breakerVars, paymentVars, cartVars>>
AsReviews(A) ==
  /\ part = "reviews" /\ A
  /\ UNCHANGED <<part, webhookVars, noteVars, mediaVars, auditVars, breakerVars, paymentVars, cartVars>>
AsMedia(A) ==
  /\ part = "media" /\ A
  /\ UNCHANGED <<part, webhookVars, noteVars, reviewVars, auditVars, breakerVars, paymentVars, cartVars>>
AsAudit(A) ==
  /\ part = "audit" /\ A
  /\ UNCHANGED <<part, webhookVars, noteVars, reviewVars, mediaVars, breakerVars, paymentVars, cartVars>>
AsBreaker(A) ==
  /\ part = "breaker" /\ A
  /\ UNCHANGED <<part, webhookVars, noteVars, reviewVars, mediaVars, auditVars, paymentVars, cartVars>>
AsPayment(A) ==
  /\ part = "payment" /\ A
  /\ UNCHANGED <<part, webhookVars, noteVars, reviewVars, mediaVars, auditVars, breakerVars, cartVars>>
AsCart(A) ==
  /\ part = "cart" /\ A
  /\ UNCHANGED <<part, webhookVars, noteVars, reviewVars, mediaVars, auditVars, breakerVars, paymentVars>>

ServicesNext ==
  \/ AsWebhook(WebhookNext) \/ AsNotifications(NotificationsNext) \/ AsReviews(ReviewsNext)
  \/ AsMedia(MediaNext) \/ AsAudit(AuditNext) \/ AsBreaker(BreakerNext)
  \/ AsPayment(PaymentNext) \/ AsCart(CartNext)

ServicesSpec == ServicesInit /\ [][ServicesNext]_servicesVars

\* The provider keeps sending and a request is served; workers run and a
\* backoff ends; callers keep calling, calls return, and a healthy downstream
\* does not refuse every call.
WebhookFairness ==
  \A r \in HookRequests : WF_webhookVars(AsWebhook(Sends(r))) /\ WF_webhookVars(AsWebhook(Serve(r)))
NotificationsFairness ==
  /\ \A w \in Senders : WF_noteVars(AsNotifications(Works(w)))
  /\ \A n \in Notes : WF_noteVars(AsNotifications(BackoffPasses(n)))
BreakerFairness ==
  /\ WF_breakerVars(AsBreaker(WindowElapses))
  /\ WF_breakerVars(AsBreaker(\E c \in Callers : Enter(c)))
  /\ \A c \in Callers : WF_breakerVars(AsBreaker(OnSuccess(c) \/ OnAnswered(c) \/ OnFailure(c)))
  /\ SF_breakerVars(AsBreaker(recovered /\ \E c \in Callers : OnSuccess(c)))

\* As in CartFairSpec.
CartFairness ==
  /\ WF_cartVars(AsCart(SweepTtl)) /\ WF_cartVars(AsCart(SweepStaleCheckout))
  /\ WF_cartVars(AsCart(\E i \in DOMAIN rows : TenMinutes(i)))
  /\ \A r \in Requests : WF_cartVars(AsCart(r \in Running /\ Step(r)))

ServicesFairSpec == ServicesSpec /\ WebhookFairness /\ NotificationsFairness /\ BreakerFairness /\ CartFairness

(* Every event the payment provider has to report is emitted in the end, as  *)
(* Reported says of receive_webhook, when that is what is running.           *)
EventsAreReported == part = "webhook" => Reported

(* Whichever service is running finishes its work: events are reported,      *)
(* notifications end and carts are swept.                                    *)
WorkIsFinished == EventsAreReported /\ NotificationsEnd /\ CartsAreSwept

-----------------------------------------------------------------------------
Services == {"webhook", "notifications", "reviews", "media", "audit", "breaker", "payment", "cart"}

\* Redis up or down; a failure with Redis up loses what ToldIsRecorded says.
MCHookSettings == [redis : BOOLEAN, fails : {0, 1}, lapses : BOOLEAN]
\* One worker may die.
MCNoteSettings == {[fails |-> 1]}
\* Many submissions; a product that was not bought; many reports.
MCReviewSettings ==
  {[status |-> "DISPATCHED", contains |-> TRUE, rulings |-> {}, crashes |-> 0, keys |-> {1, 2},
    by |-> {Author} \cup Readers, reporters |-> {}, clock |-> TRUE],
   [status |-> "DELIVERED", contains |-> FALSE, rulings |-> {}, crashes |-> 0, keys |-> {1},
    by |-> {Author}, reporters |-> {}, clock |-> TRUE],
   [status |-> "SETTLED", contains |-> TRUE, rulings |-> {"removed", "cleared"}, crashes |-> 1, keys |-> {1},
    by |-> {Author}, reporters |-> {Author} \cup Readers, clock |-> FALSE]}
MCMediaSettings ==
  {[serial |-> FALSE, once |-> FALSE], [serial |-> TRUE, once |-> FALSE], [serial |-> TRUE, once |-> TRUE]}
Utc == [locked : BOOLEAN, offsets : {{0}}]
Abroad == [locked : {TRUE}, offsets : {{0, 6}}]
=============================================================================

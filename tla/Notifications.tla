--------------------------- MODULE Notifications ---------------------------
(***************************************************************************)
(* notification-service's schedule_notification and notification-worker:    *)
(* claim a batch, send each message, settle its row.  Several workers may   *)
(* run (FOR UPDATE SKIP LOCKED); each is sequential.                        *)
(***************************************************************************)
EXTENDS Integers, Sequences, FiniteSets

CONSTANTS
  Senders,          \* workers
  Notes,            \* notifications, naturals in the order of created_at
  NOTE_ATTEMPTS,
  NOTE_BATCH,       \* BATCH_SIZE
  NoteSettings      \* [fails]: workers that die or abandon a batch

ASSUME NoteConstants ==
  Notes \subseteq Nat /\ NOTE_ATTEMPTS \in Nat \ {0} /\ NOTE_BATCH \in Nat \ {0}

VARIABLES
  noteSetting,
  note,             \* notification_records: status, attempts, claimed, due
  batch,            \* per worker: the rows it still has to process
  sending,          \* per worker: the provider's result for the first of them
  answers,          \* per row: what the provider answered, call by call
  reached,          \* per row: messages that came through
  stranded,         \* rows in the batch of a worker that died or gave up
  noteFails

provider == <<answers, reached>>
noteVars == <<noteSetting, note, batch, sending, provider, stranded, noteFails>>

\* What a provider may answer, by what classify makes of it.
Results == {"delivered", "permanent", "retryable"}
NoNote == [status |-> "absent", attempts |-> 0, claimed |-> FALSE, due |-> TRUE]

NotificationsInit ==
  /\ noteSetting \in NoteSettings
  /\ note = [n \in Notes |-> NoNote]
  /\ batch = [w \in Senders |-> <<>>]
  /\ sending = [w \in Senders |-> "nothing"]
  /\ answers = [n \in Notes |-> <<>>] /\ reached = [n \in Notes |-> 0]
  /\ stranded = {} /\ noteFails = 0

\* The row and its idempotency key; a repeated key is refused with 409.
schedule_notification(n) ==
  /\ note[n].status = "absent"
  /\ note' = [note EXCEPT ![n].status = "PENDING"]
  /\ UNCHANGED <<noteSetting, batch, sending, provider, stranded, noteFails>>

\* CLAIM_SQL's WHERE.  claimed_at is set and cleared together with the status,
\* so the lease has no say.
NoteClaimable(n) == note[n].status \in {"PENDING", "RETRY"} /\ note[n].due /\ ~note[n].claimed

\* claim_batch: the oldest claimable rows, at most NOTE_BATCH of them.
ClaimNotes(w) ==
  /\ batch[w] = <<>> /\ sending[w] = "nothing"
  /\ LET free == {n \in Notes : NoteClaimable(n)}
         mine == {n \in free : Cardinality({k \in free : k < n}) < NOTE_BATCH}
     IN  /\ mine # {}
         /\ note' = [n \in Notes |-> IF n \in mine
                                     THEN [note[n] EXCEPT !.status = "SENDING", !.claimed = TRUE]
                                     ELSE note[n]]
         /\ \E s \in [1 .. Cardinality(mine) -> mine] :
              /\ \A i, j \in DOMAIN s : i < j => s[i] < s[j]
              /\ batch' = [batch EXCEPT ![w] = s]
  /\ UNCHANGED <<noteSetting, sending, provider, stranded, noteFails>>

\* process_one up to the provider's answer; an adapter that raises counts as
\* retryable.  A call that times out may have come through all the same.
Send(w, result) ==
  /\ batch[w] # <<>> /\ sending[w] = "nothing"
  /\ sending' = [sending EXCEPT ![w] = result]
  /\ LET n == Head(batch[w])
     IN  /\ answers' = [answers EXCEPT ![n] = Append(@, result)]
         /\ \/ result # "permanent" /\ reached' = [reached EXCEPT ![n] = @ + 1]
            \/ result # "delivered" /\ UNCHANGED reached
  /\ UNCHANGED <<noteSetting, note, batch, stranded, noteFails>>

\* process_one: a channel nobody serves fails at once.  A row keeps its channel,
\* so one that was ever sent has one.
NoChannel(w) ==
  /\ batch[w] # <<>> /\ sending[w] = "nothing"
  /\ answers[Head(batch[w])] = <<>>
  /\ sending' = [sending EXCEPT ![w] = "permanent"]
  /\ UNCHANGED <<noteSetting, note, batch, provider, stranded, noteFails>>

\* Fault: every failure is retried while attempts are left.
RetriesEveryFailure(result, attempt) ==
  CASE result = "delivered" -> "DELIVERED"
    [] result # "delivered" /\ attempt >= NOTE_ATTEMPTS -> "FAILED"
    [] OTHER -> "RETRY"

classify(result, attempt) ==
  CASE result = "delivered" -> "DELIVERED"
    [] result = "permanent" -> "FAILED"
    [] result = "retryable" /\ attempt >= NOTE_ATTEMPTS -> "FAILED"
    [] OTHER -> "RETRY"

\* SETTLE_DELIVERED_SQL, SETTLE_RETRY_SQL, SETTLE_FAILED_SQL.
Settled(row, result) ==
  LET status == classify(result, row.attempts + 1)
  IN  [status |-> status, attempts |-> row.attempts + 1, claimed |-> FALSE, due |-> status # "RETRY"]

Settle(w) ==
  /\ sending[w] # "nothing"
  /\ note' = [note EXCEPT ![Head(batch[w])] = Settled(@, sending[w])]
  /\ batch' = [batch EXCEPT ![w] = Tail(@)]
  /\ sending' = [sending EXCEPT ![w] = "nothing"]
  /\ UNCHANGED <<noteSetting, provider, stranded, noteFails>>

\* The worker dies, or an exception ends its loop's turn: what is left of the
\* batch is forgotten.
Abandon(w) ==
  /\ noteFails < noteSetting.fails /\ noteFails' = noteFails + 1
  /\ batch[w] # <<>>
  /\ stranded' = stranded \cup {batch[w][i] : i \in DOMAIN batch[w]}
  /\ batch' = [batch EXCEPT ![w] = <<>>] /\ sending' = [sending EXCEPT ![w] = "nothing"]
  /\ UNCHANGED <<noteSetting, note, provider>>

\* backoff_delay passes.
BackoffPasses(n) ==
  /\ note[n].status = "RETRY" /\ ~note[n].due
  /\ note' = [note EXCEPT ![n].due = TRUE]
  /\ UNCHANGED <<noteSetting, batch, sending, provider, stranded, noteFails>>

\* worker_loop
Works(w) == ClaimNotes(w) \/ NoChannel(w) \/ Settle(w) \/ \E result \in Results : Send(w, result)

NotificationsNext ==
  \/ \E n \in Notes : schedule_notification(n) \/ BackoffPasses(n)
  \/ \E w \in Senders : Works(w) \/ Abandon(w)

NotificationsSpec == NotificationsInit /\ [][NotificationsNext]_noteVars

-----------------------------------------------------------------------------
(* Every variable keeps its type; a row is claimed exactly while a worker     *)
(* may be sending it.                                                        *)
NotificationsTypeOK ==
  /\ \A n \in Notes : /\ note[n].status \in {"absent", "PENDING", "SENDING", "RETRY", "DELIVERED", "FAILED"}
                      /\ note[n].attempts \in Nat
                      /\ note[n].claimed <=> note[n].status = "SENDING"
  /\ \A w \in Senders : sending[w] \in Results \cup {"nothing"} /\ Len(batch[w]) <= NOTE_BATCH

(* The row a worker works on is SENDING and no other worker's, nor one that a *)
(* dead worker left: with several workers claiming at once, nothing is sent   *)
(* by two of them (CLAIM_SQL, settle).                                       *)
OneSender ==
  \A w \in Senders : \A i \in DOMAIN batch[w] :
    /\ note[batch[w][i]].status = "SENDING" /\ batch[w][i] \notin stranded
    /\ \A v \in Senders : \A j \in DOMAIN batch[v] : batch[v][j] = batch[w][i] => v = w /\ j = i

(* A provider is asked again only after an answer that leaves it open whether *)
(* the message came through: never after a delivery, and never after an      *)
(* answer that is final (notification_rules: "An unsubscribe is worse").      *)
(* So a recipient gets a message twice only if such an answer was wrong.     *)
OnlyDoubtIsRetried ==
  \A n \in Notes :
    /\ \A i \in 1 .. Len(answers[n]) - 1 : answers[n][i] = "retryable"
    /\ reached[n] > 1 => answers[n][1] = "retryable"

(* A row says DELIVERED only if the last answer said so, and FAILED only if   *)
(* there was no channel, the last answer was final, or the provider was asked *)
(* NOTE_ATTEMPTS times, which is never exceeded (classify, settle).           *)
OutcomesAreAnswered ==
  \A n \in Notes :
    LET asked == Len(answers[n])
    IN  /\ asked <= NOTE_ATTEMPTS
        /\ note[n].status = "DELIVERED" => asked > 0 /\ answers[n][asked] = "delivered" /\ reached[n] > 0
        /\ note[n].status = "FAILED" =>
             asked = 0 \/ answers[n][asked] = "permanent" \/ asked = NOTE_ATTEMPTS

(* Every scheduled notification is delivered or given up on in the end, or is *)
(* in the batch of a worker that died.                                       *)
NotificationsEnd ==
  \A n \in Notes :
    note[n].status # "absent" ~> note[n].status \in {"DELIVERED", "FAILED"} \/ n \in stranded

(* "a worker that dies mid-send does not strand its rows: any claim older    *)
(* than the lease window is reclaimable" (notification-worker main.py:14).    *)
(* Not so: a claimed row is SENDING, and CLAIM_SQL takes PENDING and RETRY.  *)
DeadWorkersRowsEnd ==
  \A n \in Notes : note[n].status # "absent" ~> note[n].status \in {"DELIVERED", "FAILED"}

(* A message is sent by one worker, asked for again only in doubt, at most    *)
(* NOTE_ATTEMPTS times, and its row says what came of it (CLAIM_SQL,         *)
(* process_one, settle).                                                     *)
NotificationsAreSound == NotificationsTypeOK /\ OneSender /\ OnlyDoubtIsRetried /\ OutcomesAreAnswered
=============================================================================

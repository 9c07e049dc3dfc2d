----------------------------- MODULE DeadLetters -----------------------------
(***************************************************************************)
(* Kafka as the workers use it: KafkaAvroConsumer (python-common), which    *)
(* commits after every message and routes a failed one to dlq.<topic>, and  *)
(* dlq-reprocessor, which moves dead letters back or escalates them.        *)
(*                                                                         *)
(* A topic is one partition.  stream-processor has one replica and no two   *)
(* messages in hand, so its committed offset is all there is to it.         *)
(* dlq-reprocessor also has a position: a message it does not commit is     *)
(* behind that position, and only a restart goes back to the committed one. *)
(* A dead letter is in the producer's buffer before it is on its topic, and  *)
(* a worker that dies takes the buffer with it.                              *)
(***************************************************************************)
EXTENDS Integers, Sequences, FiniteSets

CONSTANTS
  Topics,
  MAX_RETRIES,
  EventIds,         \* identities of events; a replay keeps its identity
  Settings          \* circumstances; here: [faults, errors, restarts, redis, broker]

ASSUME DeadLettersConstants == MAX_RETRIES \in Nat

VARIABLES
  setting,
  log,              \* per topic: sequence of messages
  done,             \* per topic: offset stream-processor has committed
  unsent,           \* per topic: dead letters in stream-processor's producer, [msg, error]
  dlq,              \* per topic: dead letters the broker has, [msg, error]
  dpos, ddone,      \* per topic: dlq-reprocessor's position and committed offset
  attempts,         \* per event: the counter in Redis
  recent,           \* events republished less than BACKOFF_SECONDS ago
  republished,      \* per event: how often it was put back
  escalated,        \* events with an audit record
  passed,           \* events whose dead letter a later commit went past
  faults,           \* failures so far
  restarts,         \* restarts of either worker so far
  lost              \* events whose dead letter was in a buffer when the worker died

producer == <<unsent, lost>>
dlqVars == <<dlq, dpos, ddone, attempts, recent, republished, escalated, passed>>

DeadLettersInit ==
  /\ setting \in Settings
  /\ log = [t \in Topics |-> <<>>]
  /\ done = [t \in Topics |-> 0]
  /\ unsent = [t \in Topics |-> <<>>] /\ dlq = [t \in Topics |-> <<>>]
  /\ dpos = [t \in Topics |-> 0] /\ ddone = [t \in Topics |-> 0]
  /\ attempts = [e \in EventIds |-> 0]
  /\ recent = {}
  /\ republished = [e \in EventIds |-> 0]
  /\ escalated = {} /\ passed = {} /\ lost = {}
  /\ faults = 0 /\ restarts = 0

-----------------------------------------------------------------------------
(* The consumer *)

HasNext(t) == done[t] < Len(log[t])
Message(t) == log[t][done[t] + 1]

\* consumer.commit
Commit(t) == done' = [done EXCEPT ![t] = @ + 1]

\* The process dies and starts again: what its producer has not sent is gone,
\* since only a clean exit flushes it.
Dies ==
  /\ restarts < setting.restarts /\ restarts' = restarts + 1
  /\ unsent' = [t \in Topics |-> <<>>]
  /\ lost' = lost \cup UNION {{unsent[t][i].msg.id : i \in 1 .. Len(unsent[t])} : t \in Topics}

\* The message was handled; the worker may die before it commits, and then
\* the message is delivered again.
CommitOrDie(t) ==
  \/ Commit(t) /\ UNCHANGED <<restarts, producer>>
  \/ Dies /\ UNCHANGED done

\* The value and an error header, nothing else.
DeadLetter(m, error) == [msg |-> [m EXCEPT !.typed = FALSE], error |-> error]

\* _route_to_dlq: produce puts the letter into the producer's buffer, and
\* poll(0) waits for nothing.  A produce that raises is logged, and the caller
\* commits all the same.
_route_to_dlq(t, m, error) ==
  \/ unsent' = [unsent EXCEPT ![t] = Append(@, DeadLetter(m, error))]
  \/ ~setting.broker /\ UNCHANGED unsent

\* The message could not be decoded ("schema"), or its handler or the schema
\* registry raised.  The offset is committed while the letter is in the buffer;
\* or the letter is sent at once and the worker dies before it commits.  (One
\* that dies with the letter unsent has done nothing: that is Dies.)
Fails(t, error) ==
  /\ HasNext(t)
  /\ error \in setting.errors
  /\ faults < setting.faults /\ faults' = faults + 1
  /\ \/ /\ _route_to_dlq(t, Message(t), error) /\ Commit(t)
        /\ UNCHANGED <<dlq, lost, restarts>>
     \/ /\ unsent[t] = <<>>
        /\ dlq' = [dlq EXCEPT ![t] = Append(@, DeadLetter(Message(t), error))]
        /\ Dies /\ UNCHANGED done
  /\ UNCHANGED <<setting, log, dpos, ddone, attempts, recent, republished, escalated, passed>>

\* librdkafka's thread sends the oldest letter of a topic.  Nobody asks for
\* the delivery report of one the broker does not take.
LetterIsSent(t) ==
  /\ unsent[t] # <<>>
  /\ unsent' = [unsent EXCEPT ![t] = Tail(@)]
  /\ \/ dlq' = [dlq EXCEPT ![t] = Append(@, Head(unsent[t]))]
     \/ ~setting.broker /\ UNCHANGED dlq
  /\ UNCHANGED <<setting, log, done, dpos, ddone, attempts, recent, republished, escalated, passed,
                 faults, restarts, lost>>

-----------------------------------------------------------------------------
(* dlq-reprocessor *)

Letter(t) == dlq[t][dpos[t] + 1]

plan_recovery(e, error) ==
  CASE error = "schema" -> "escalate"
    [] error # "schema" /\ attempts[e] >= MAX_RETRIES -> "escalate"
    [] error # "schema" /\ attempts[e] < MAX_RETRIES /\ e \in recent -> "wait"
    [] OTHER -> "republish"

Decides(t, action) ==
  /\ dpos[t] < Len(dlq[t])
  /\ plan_recovery(Letter(t).msg.id, Letter(t).error) = action
  /\ dpos' = [dpos EXCEPT ![t] = @ + 1]

\* commit(message=msg): this offset, and with it every earlier one.
Settles(t) ==
  /\ ddone' = [ddone EXCEPT ![t] = dpos[t] + 1]
  /\ passed' = passed \cup {dlq[t][i].msg.id : i \in ddone[t] + 1 .. dpos[t]}

\* handle: the backoff has not elapsed.  Nothing is committed, and the next
\* poll returns the next message.
Wait(t) ==
  /\ Decides(t, "wait")
  /\ UNCHANGED <<setting, log, done, dlq, ddone, attempts, recent, republished, escalated, passed,
                 faults, restarts, producer>>

\* handle: written to the audit log, and committed only if that worked.
Escalate(t) ==
  /\ Decides(t, "escalate")
  /\ \/ escalated' = escalated \cup {Letter(t).msg.id} /\ Settles(t) /\ UNCHANGED faults
     \/ /\ faults < setting.faults /\ faults' = faults + 1
        /\ UNCHANGED <<escalated, ddone, passed>>
  /\ UNCHANGED <<setting, log, done, dlq, attempts, recent, republished, restarts, producer>>

\* Fault: the dead letter is committed before it is back on its topic.
CommitBeforeProduce(t) ==
  /\ Decides(t, "republish") /\ Settles(t)
  /\ LET m == Letter(t).msg
     IN  \/ /\ log' = [log EXCEPT ![t] = Append(@, m)]
            /\ republished' = [republished EXCEPT ![m.id] = @ + 1]
            /\ attempts' = [attempts EXCEPT ![m.id] = @ + 1]
            /\ recent' = recent \cup {m.id}
            /\ UNCHANGED restarts
         \/ /\ restarts < setting.restarts /\ restarts' = restarts + 1
            /\ UNCHANGED <<log, republished, attempts, recent>>
  /\ UNCHANGED <<setting, done, dlq, escalated, faults, producer>>

\* handle: produce and flush, then count the attempt, then commit.  flush
\* answers how many messages are still unsent, which nobody looks at.
Republish(t) ==
  /\ Decides(t, "republish") /\ Settles(t)
  /\ LET m == Letter(t).msg
     IN  /\ \/ log' = [log EXCEPT ![t] = Append(@, m)]
            \/ ~setting.broker /\ UNCHANGED log
         /\ republished' = [republished EXCEPT ![m.id] = @ + 1]
         /\ \/ /\ attempts' = [attempts EXCEPT ![m.id] = @ + 1]
               /\ recent' = recent \cup {m.id}
            \/ ~setting.redis /\ UNCHANGED <<attempts, recent>>
  /\ UNCHANGED <<setting, done, dlq, escalated, faults, restarts, producer>>

\* The worker dies between produce and commit, with the attempt counted or
\* not, and comes back at its committed offsets.
RepublishDies(t) ==
  /\ restarts < setting.restarts /\ restarts' = restarts + 1
  /\ dpos[t] < Len(dlq[t])
  /\ LET m == Letter(t).msg
     IN  /\ plan_recovery(m.id, Letter(t).error) = "republish"
         /\ log' = [log EXCEPT ![t] = Append(@, m)]
         /\ republished' = [republished EXCEPT ![m.id] = @ + 1]
         /\ \/ attempts' = [attempts EXCEPT ![m.id] = @ + 1] /\ recent' = recent \cup {m.id}
            \/ UNCHANGED <<attempts, recent>>
  /\ dpos' = ddone
  /\ UNCHANGED <<setting, done, dlq, ddone, escalated, passed, faults, producer>>

\* handle: produce raised; nothing is counted or committed.
RepublishFails(t) ==
  /\ Decides(t, "republish")
  /\ faults < setting.faults /\ faults' = faults + 1
  /\ UNCHANGED <<setting, log, done, dlq, ddone, attempts, recent, republished, escalated, passed,
                 restarts, producer>>

\* A deployment restarts dlq-reprocessor.
ReprocessorRestarts ==
  /\ restarts < setting.restarts /\ restarts' = restarts + 1
  /\ dpos # ddone /\ dpos' = ddone
  /\ UNCHANGED <<setting, log, done, dlq, ddone, attempts, recent, republished, escalated, passed,
                 faults, producer>>

\* BACKOFF_SECONDS pass.
BackoffElapses(e) ==
  /\ e \in recent /\ recent' = recent \ {e}
  /\ UNCHANGED <<setting, log, done, dlq, dpos, ddone, attempts, republished, escalated, passed,
                 faults, restarts, producer>>

Reprocess(t) == Wait(t) \/ Escalate(t) \/ Republish(t)

ReprocessorNext ==
  \/ \E t \in Topics : Reprocess(t) \/ RepublishDies(t) \/ RepublishFails(t)
  \/ ReprocessorRestarts
  \/ \E e \in EventIds : BackoffElapses(e)

-----------------------------------------------------------------------------
\* Where a message can still be found: on its topic before it is handled, on its
\* way to the dead-letter topic, or there and ahead of what a restarted
\* reprocessor would read.
OnTopic(e) == \E t \in Topics : \E i \in done[t] + 1 .. Len(log[t]) : log[t][i].id = e
Unsent(e) == \E t \in Topics : \E i \in 1 .. Len(unsent[t]) : unsent[t][i].msg.id = e
Dead(e) == \E t \in Topics : \E i \in ddone[t] + 1 .. Len(dlq[t]) : dlq[t][i].msg.id = e

(* No dead letter is retried more than MAX_RETRIES times, however often the  *)
(* same event fails, comes back at another offset and is counted in Redis;  *)
(* only a worker that dies between producing and counting adds one.         *)
RetriesAreBounded ==
  setting.redis => \A e \in EventIds : republished[e] <= MAX_RETRIES + restarts
=============================================================================

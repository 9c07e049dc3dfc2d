------------------------------ MODULE Dispatcher ------------------------------
(***************************************************************************)
(* saga-dispatcher: the life of a command on the outbox.  Dispatchers      *)
(* claim the oldest due rows in one statement, record each command in      *)
(* processed_events, call the services it names, and then mark the row     *)
(* processed, hand it back with a delay, or park it.  No transaction spans *)
(* two of those steps, so each is an action.                               *)
(*                                                                         *)
(* A command is its place in the queue: 1 is the oldest.  Time is counted  *)
(* in poll intervals (POLL_INTERVAL and RETRY_BASE_SECONDS are both 2s).   *)
(* What the services do is one bit per command, `done`: the effect the     *)
(* command asks for has been achieved.                                     *)
(***************************************************************************)
EXTENDS Integers, FiniteSets, FiniteSetsExt

CONSTANTS
  Dispatchers,
  Length,         \* commands on the outbox
  BATCH_SIZE,
  MAX_ATTEMPTS,
  MaxWait,        \* RETRY_CAP_SECONDS in poll intervals
  MaxDeaths,      \* bound on the handlers that die half way
  SlowHandlers    \* whether a handler may outlive its own lease

ASSUME DispatcherConstants ==
  /\ Length \in Nat
  /\ BATCH_SIZE \in Nat \ {0}
  /\ MAX_ATTEMPTS \in Nat \ {0}
  /\ MaxWait \in Nat \ {0}
  /\ MaxDeaths \in Nat
  /\ SlowHandlers \in BOOLEAN

Commands == 1..Length

VARIABLES
  out,        \* the outbox rows
  recorded,   \* processed_events of this consumer
  job,        \* what each dispatcher is doing with each command it claimed
  loop,       \* where each dispatch_loop is, and whether its batch settled a row
  done,       \* history: commands whose effect has been achieved
  deaths      \* handlers that have died so far

dispatchVars == <<out, recorded, job, loop, done, deaths>>

NoJob == [stage |-> "none", attempts |-> 0]

Fresh == [processed |-> FALSE, parked |-> FALSE, attempts |-> 0,
          wait |-> 0, claim |-> "none"]

Working(m) == {d \in Dispatchers : job[d][m] # NoJob}

DispatchInit ==
  /\ out = [m \in Commands |-> Fresh]
  /\ recorded = {}
  /\ job = [d \in Dispatchers |-> [m \in Commands |-> NoJob]]
  /\ loop = [d \in Dispatchers |-> [at |-> "claim", settled |-> FALSE]]
  /\ done = {}
  /\ deaths = 0

-----------------------------------------------------------------------------
(* The rows and the retry rules. *)

\* Faults: a claim is not looked at; a lease never runs out; parked rows are
\* claimed like any other.
ClaimableThoughHeld(m) ==
  ~out[m].processed /\ ~out[m].parked /\ out[m].wait = 0

ClaimableWithoutLease(m) ==
  ~out[m].processed /\ ~out[m].parked /\ out[m].wait = 0 /\ out[m].claim = "none"

ClaimableThoughParked(m) ==
  ~out[m].processed /\ out[m].wait = 0 /\ out[m].claim \in {"none", "expired"}

\* The WHERE clause of CLAIM_SQL; an expired lease is as good as no claim.
Claimable(m) ==
  /\ ~out[m].processed
  /\ ~out[m].parked
  /\ out[m].wait = 0
  /\ out[m].claim \in {"none", "expired"}

\* ORDER BY created_at LIMIT BATCH_SIZE.
Batch ==
  LET due == {m \in Commands : Claimable(m)}
  IN  {m \in due : Cardinality({n \in due : n < m}) < BATCH_SIZE}

\* The polls a deferred row may have to sit out.  Jitter spreads the delay
\* downwards to half of it, and the row is due at the first poll after it.
backoff_seconds(attempts) ==
  LET delay == Min({2^(attempts - 1), MaxWait})
  IN  (delay \div 2 + 1)..delay

disposition_after(disposition, attempts) ==
  IF disposition = "retry" /\ attempts >= MAX_ATTEMPTS THEN "park" ELSE disposition

-----------------------------------------------------------------------------
(* dispatch_loop *)

\* Claim a batch; an empty one sends the loop to sleep.
claim_batch(d) ==
  /\ loop[d].at = "claim"
  /\ out' = [m \in Commands |->
               IF m \in Batch THEN [out[m] EXCEPT !.claim = "held"] ELSE out[m]]
  /\ job' = [job EXCEPT ![d] =
               [m \in Commands |->
                  IF m \in Batch
                  THEN [stage |-> "claimed", attempts |-> out[m].attempts]
                  ELSE NoJob]]
  /\ loop' = [loop EXCEPT ![d] =
                [at |-> IF Batch = {} THEN "sleep" ELSE "gather", settled |-> FALSE]]
  /\ UNCHANGED <<recorded, done, deaths>>

\* The gather returns: claim again if some row left the queue, else sleep.
gather(d) ==
  /\ loop[d].at = "gather"
  /\ \A m \in Commands : job[d][m] = NoJob
  /\ loop' = [loop EXCEPT ![d].at = IF loop[d].settled THEN "claim" ELSE "sleep"]
  /\ UNCHANGED <<out, recorded, job, done, deaths>>

\* A poll interval passes: sleeping loops wake, delays run down.
Tick ==
  /\ \/ \E d \in Dispatchers : loop[d].at = "sleep"
     \/ \E m \in Commands : out[m].wait > 0
  /\ loop' = [d \in Dispatchers |->
                IF loop[d].at = "sleep" THEN [loop[d] EXCEPT !.at = "claim"] ELSE loop[d]]
  /\ out' = [m \in Commands |-> [out[m] EXCEPT !.wait = Max({@ - 1, 0})]]
  /\ UNCHANGED <<recorded, job, done, deaths>>

\* A claim reaches CLAIM_LEASE_SECONDS.
LeaseExpires(m) ==
  /\ out[m].claim = "held"
  /\ ~out[m].processed
  /\ SlowHandlers \/ Working(m) = {}
  /\ out' = [out EXCEPT ![m].claim = "expired"]
  /\ UNCHANGED <<recorded, job, loop, done, deaths>>

-----------------------------------------------------------------------------
(* process_one *)

Becomes(d, m, stage) == job' = [job EXCEPT ![d][m].stage = stage]

\* A row that is recorded already is marked processed without being handled.
record_processed_event(d, m) ==
  /\ job[d][m].stage = "claimed"
  /\ recorded' = recorded \cup {m}
  /\ Becomes(d, m, IF m \in recorded THEN "settle" ELSE "handle")
  /\ UNCHANGED <<out, loop, done, deaths>>

\* handle returns or raises.  "lost" is a call that took effect and whose
\* answer never came; "shed" is an open circuit or a full bulkhead.
handle(d, m, answer) ==
  /\ job[d][m].stage = "handle"
  /\ done' = IF answer \in {"ok", "lost"} THEN done \cup {m} ELSE done
  /\ Becomes(d, m, CASE answer = "ok" -> "settle"
                     [] answer \in {"lost", "error"} -> "retry"
                     [] answer = "refused" -> "park"
                     [] answer = "shed" -> "shed")
  /\ UNCHANGED <<out, recorded, loop, deaths>>

Answers == {"ok", "lost", "error", "refused", "shed"}

Finish(d, m, settled) ==
  /\ job' = [job EXCEPT ![d][m] = NoJob]
  /\ loop' = [loop EXCEPT ![d].settled = @ \/ settled]

mark_processed(d, m) ==
  /\ job[d][m].stage = "settle"
  /\ out' = [out EXCEPT ![m].processed = TRUE]
  /\ Finish(d, m, TRUE)
  /\ UNCHANGED <<recorded, done, deaths>>

\* Fault: the idempotency record stays behind.
ForgetNothing(d, m) ==
  LET stage == job[d][m].stage
  IN  /\ stage \in {"retry", "park", "shed"}
      /\ job' = [job EXCEPT ![d][m].stage =
                   IF stage = "park" \/ job[d][m].attempts + 1 >= MAX_ATTEMPTS
                   THEN "parking" ELSE "deferring"]
      /\ UNCHANGED <<out, recorded, loop, done, deaths>>

\* The attempt counts unless it was shed; the cap turns a retry into a park.
forget_processed_event(d, m) ==
  LET stage == job[d][m].stage
      attempts == job[d][m].attempts + (IF stage = "shed" THEN 0 ELSE 1)
      disposition == disposition_after(IF stage = "park" THEN "park" ELSE "retry", attempts)
  IN  /\ stage \in {"retry", "park", "shed"}
      /\ recorded' = recorded \ {m}
      /\ job' = [job EXCEPT ![d][m].stage =
                   IF disposition = "park" THEN "parking"
                   ELSE IF stage = "shed" THEN "deferring shed" ELSE "deferring"]
      /\ UNCHANGED <<out, loop, done, deaths>>

defer_claim(d, m) ==
  LET count == IF job[d][m].stage = "deferring" THEN 1 ELSE 0
  IN  /\ job[d][m].stage \in {"deferring", "deferring shed"}
      /\ \E wait \in backoff_seconds(Max({1, job[d][m].attempts + count})) :
           out' = [out EXCEPT ![m].claim = "none", ![m].wait = wait,
                              ![m].attempts = @ + count]
      /\ Finish(d, m, FALSE)
      /\ UNCHANGED <<recorded, done, deaths>>

park_claim(d, m) ==
  /\ job[d][m].stage = "parking"
  /\ out' = [out EXCEPT ![m].claim = "none", ![m].parked = TRUE, ![m].attempts = @ + 1]
  /\ Finish(d, m, TRUE)
  /\ UNCHANGED <<recorded, done, deaths>>

\* The process dies, or a statement of process_one raises: the handler is
\* gone and the row keeps whatever was committed.
Dies(d, m) ==
  /\ job[d][m] # NoJob
  /\ deaths < MaxDeaths
  /\ deaths' = deaths + 1
  /\ Finish(d, m, FALSE)
  /\ UNCHANGED <<out, recorded, done>>

-----------------------------------------------------------------------------
process_one(d, m) ==
  \/ record_processed_event(d, m)
  \/ \E answer \in Answers : handle(d, m, answer)
  \/ mark_processed(d, m)
  \/ forget_processed_event(d, m)
  \/ defer_claim(d, m)
  \/ park_claim(d, m)

DispatchNext ==
  \/ \E d \in Dispatchers : claim_batch(d) \/ gather(d)
  \/ \E d \in Dispatchers, m \in Commands : process_one(d, m) \/ Dies(d, m)
  \/ \E m \in Commands : LeaseExpires(m)
  \/ Tick

DispatchSpec == DispatchInit /\ [][DispatchNext]_dispatchVars

\* The loop and the handlers run on (every call has a timeout), time passes,
\* and a service does not shed one command for ever: its circuit half-opens.
DispatchFairness ==
  /\ WF_dispatchVars(Tick)
  /\ \A d \in Dispatchers : WF_dispatchVars(claim_batch(d)) /\ WF_dispatchVars(gather(d))
  /\ \A m \in Commands : WF_dispatchVars(LeaseExpires(m))
  /\ \A d \in Dispatchers, m \in Commands :
       /\ WF_dispatchVars(process_one(d, m))
       /\ SF_dispatchVars(\E answer \in Answers \ {"shed"} : handle(d, m, answer))

DispatchFairSpec == DispatchSpec /\ DispatchFairness

-----------------------------------------------------------------------------
Stages == {"none", "claimed", "handle", "settle", "retry", "park", "shed",
           "parking", "deferring", "deferring shed"}

(* Every variable keeps its type; a row is never tried more than            *)
(* MAX_ATTEMPTS times.                                                      *)
DispatchTypeOK ==
  /\ out \in [Commands -> [processed : BOOLEAN, parked : BOOLEAN,
                           attempts : 0..MAX_ATTEMPTS, wait : 0..MaxWait,
                           claim : {"none", "held", "expired"}]]
  /\ recorded \subseteq Commands
  /\ job \in [Dispatchers -> [Commands -> [stage : Stages, attempts : 0..MAX_ATTEMPTS]]]
  /\ loop \in [Dispatchers -> [at : {"claim", "gather", "sleep"}, settled : BOOLEAN]]
  /\ done \subseteq Commands
  /\ deaths \in 0..MaxDeaths

(* A claim is exclusive: as long as the lease outlasts the calls a handler  *)
(* makes, no two handlers ever work on one command, through crashes,        *)
(* expired leases and retries.                                              *)
OneHolder == \A m \in Commands : Cardinality(Working(m)) <= 1

(* A command that the outbox shows as processed has had its effect: a crash *)
(* at any point leads to another delivery, never to a silent loss.          *)
ProcessedMeansDone == \A m \in Commands : out[m].processed => m \in done

(* Only a death can lose a command: as long as no handler has died, a       *)
(* processed command has had its effect, through errors, lost answers,      *)
(* refusals, shedding, retries and reclaimed leases.                        *)
OnlyDeathsLoseCommands == deaths = 0 => ProcessedMeansDone

(* A parked command is one the platform could not achieve and knows it: it  *)
(* is never also marked processed.                                          *)
ParkedIsNotProcessed == \A m \in Commands : ~(out[m].processed /\ out[m].parked)

(* The outbox tells the truth: attempts stay within their cap, a processed   *)
(* command was done unless a handler died, and a parked one is not also      *)
(* processed (record_processed_event, mark_processed, park).                 *)
OutboxTellsTheTruth == DispatchTypeOK /\ OnlyDeathsLoseCommands /\ ParkedIsNotProcessed

(* No command is starved: whatever fails, is shed or dies ahead of it in    *)
(* the queue, each one is in the end processed or parked.                   *)
EveryCommandLeavesTheQueue ==
  \A m \in Commands : <>(out[m].processed \/ out[m].parked)
=============================================================================

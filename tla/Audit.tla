-------------------------------- MODULE Audit --------------------------------
(***************************************************************************)
(* audit-service: appends to the hash chain, and its verification.  A hash  *)
(* is the value it was computed from, so equal hashes mean equal inputs.    *)
(***************************************************************************)
EXTENDS Integers, Sequences, FiniteSets, SequencesExt

CONSTANTS
  Appenders,        \* appends in service at once
  Contents,         \* actor, action, resource and payload, together
  LOG_BOUND,        \* bound on the records
  AuditSettings     \* [locked, offsets]: the advisory lock is held; UTC
                    \* offsets of the times callers send

ASSUME AuditConstants == LOG_BOUND \in Nat

VARIABLES
  auditSetting,
  log,              \* audit_records by sequence
  append,           \* per append: step and the record it is about to insert
  announced         \* outbox: sequences of the records announced

auditVars == <<auditSetting, log, append, announced>>

GENESIS_HASH == <<>>
NoAppend == [step |-> "free", sequence |-> 0, content |-> 0, at |-> <<0, 0>>, prev_hash |-> <<>>, record_hash |-> <<>>]

AuditInit ==
  /\ auditSetting \in AuditSettings
  /\ log = <<>> /\ announced = <<>>
  /\ append = [a \in Appenders |-> NoAppend]

\* HASHED_FIELDS in their canonical form; a time is hashed as its isoformat,
\* the local time and the offset it is given in.
canonical_bytes(sequence, content, at) == <<sequence, content, at>>
compute_hash(prev, sequence, content, at) == <<prev, canonical_bytes(sequence, content, at)>>

link(prev, sequence, content, at) ==
  [prev_hash |-> prev, record_hash |-> compute_hash(prev, sequence, content, at)]

\* A timestamptz keeps the instant; it is read back in UTC.
ReadBack(at) == <<at[1], 0>>
to_dict(r) == [r EXCEPT !.at = ReadBack(@)]

-----------------------------------------------------------------------------
(* append_record *)

Appending(a) == append[a].step # "free"

\* The lock, the tail, and the record linked to it.
ReadTail(a, content, offset) ==
  /\ ~Appending(a) /\ Len(log) < LOG_BOUND
  /\ auditSetting.locked => ~\E o \in Appenders : Appending(o)
  /\ offset \in auditSetting.offsets
  /\ LET sequence == Len(log) + 1
         prev == IF log = <<>> THEN GENESIS_HASH ELSE Last(log).record_hash
         at == <<0, offset>>
         hashes == link(prev, sequence, content, at)
     IN  append' = [append EXCEPT ![a] = [step |-> "commit", sequence |-> sequence, content |-> content, at |-> at,
                                          prev_hash |-> hashes.prev_hash, record_hash |-> hashes.record_hash]]
  /\ UNCHANGED <<auditSetting, log, announced>>

Row(a) == [sequence |-> append[a].sequence, content |-> append[a].content, at |-> append[a].at,
           prev_hash |-> append[a].prev_hash, record_hash |-> append[a].record_hash]

\* The record and its event commit, unless UNIQUE refuses the sequence (409).
AppendCommits(a) ==
  /\ Appending(a)
  /\ IF append[a].sequence <= Len(log)
     THEN UNCHANGED <<log, announced>>
     ELSE log' = Append(log, Row(a)) /\ announced' = Append(announced, append[a].sequence)
  /\ append' = [append EXCEPT ![a] = NoAppend]
  /\ UNCHANGED auditSetting

AppendFails(a) ==
  /\ Appending(a) /\ append' = [append EXCEPT ![a] = NoAppend]
  /\ UNCHANGED <<auditSetting, log, announced>>

AuditNext ==
  \E a \in Appenders :
    \/ \E content \in Contents, offset \in auditSetting.offsets : ReadTail(a, content, offset)
    \/ AppendCommits(a) \/ AppendFails(a)

AuditSpec == AuditInit /\ [][AuditNext]_auditVars

-----------------------------------------------------------------------------
(* verify *)

Recomputed(r) == compute_hash(r.prev_hash, r.sequence, r.content, r.at)

\* Fault: the chain is followed along the recomputed hashes.
verify_chain_recomputed(records) ==
  {<<i, "prev">> : i \in {j \in DOMAIN records :
      records[j].prev_hash # (IF j = 1 THEN GENESIS_HASH ELSE Recomputed(records[j - 1]))}}
  \cup {<<i, "hash">> : i \in {j \in DOMAIN records : records[j].record_hash # Recomputed(records[j])}}
  \cup {<<i, "sequence">> : i \in {j \in DOMAIN records \ {1} : records[j].sequence # records[j - 1].sequence + 1}}

\* The breaks: a record that does not point at the one before it, one that
\* is not what was hashed, and a sequence that does not go up by one.
verify_chain(records) ==
  {<<i, "prev">> : i \in {j \in DOMAIN records :
      records[j].prev_hash # (IF j = 1 THEN GENESIS_HASH ELSE records[j - 1].record_hash)}}
  \cup {<<i, "hash">> : i \in {j \in DOMAIN records : records[j].record_hash # Recomputed(records[j])}}
  \cup {<<i, "sequence">> : i \in {j \in DOMAIN records \ {1} : records[j].sequence # records[j - 1].sequence + 1}}

verify == verify_chain([i \in DOMAIN log |-> to_dict(log[i])])

InUtc == \A i \in DOMAIN log : log[i].at = ReadBack(log[i].at)
-----------------------------------------------------------------------------
AuditTypeOK ==
  /\ auditSetting \in AuditSettings
  /\ Len(log) <= LOG_BOUND /\ \A i \in DOMAIN log : log[i].content \in Contents
  /\ \A a \in Appenders : append[a].step \in {"free", "commit"}

(* Appends made at the same time leave one chain, with or without the        *)
(* advisory lock: read back, it verifies, as long as callers send UTC times. *)
(* Each record was announced once, in order (append_record).                 *)
ChainVerifies ==
  /\ InUtc => verify = {}
  /\ announced = [i \in DOMAIN log |-> i]

(* "blame stays precise": changing one record's contents is reported at that *)
(* record and at no other, and a record missing before the last one is       *)
(* reported where it was (verify_chain).                                     *)
BlameIsPrecise ==
  InUtc =>
    \A i \in DOMAIN log :
      /\ \A c \in Contents \ {log[i].content} :
           verify_chain([log EXCEPT ![i].content = c]) = {<<i, "hash">>}
      /\ i < Len(log) =>
           {b[1] : b \in verify_chain(RemoveAt(log, i))} = {i}

(* The chain does not break "for reasons that have nothing to do with        *)
(* tampering" (audit_rules.py:19), and "a caller replaying history [...]     *)
(* should send the original time, since it is what gets hashed"              *)
(* (schemas.py:14): what was appended verifies when it is read back.         *)
WhatWasAppendedVerifies == verify = {}

(* The log is evidence: what was appended verifies, and what was altered is  *)
(* found where it was altered (append_record, verify_chain).                 *)
AuditIsSound == AuditTypeOK /\ ChainVerifies /\ BlameIsPrecise
=============================================================================

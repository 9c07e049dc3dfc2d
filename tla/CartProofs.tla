---------------------------- MODULE CartProofs ------------------------------
(***************************************************************************)
(* What a customer meets: the cart, and the notifications that are sent.   *)
(***************************************************************************)
EXTENDS Cart, Notifications, FiniteSetTheorems, TLAPS

(***************************************************************************)
(* notification-service: NotificationsAreSound for any notifications, any  *)
(* number of workers and any batch.                                        *)
(***************************************************************************)
NoteStatus == {"absent", "PENDING", "SENDING", "RETRY", "DELIVERED", "FAILED"}
NoteType == [status : NoteStatus, attempts : Nat, claimed : BOOLEAN, due : BOOLEAN]

NoteShapes ==
  /\ note \in [Notes -> NoteType]
  /\ batch \in [Senders -> Seq(Notes)]
  /\ sending \in [Senders -> Results \cup {"nothing"}]
  /\ answers \in [Notes -> Seq(Results)] /\ reached \in [Notes -> Nat]

(* Every answer but the last left it open whether the message came through.   *)
Answered(n) ==
  /\ \A i \in 1 .. Len(answers[n]) - 1 : answers[n][i] = "retryable"
  /\ Len(answers[n]) <= NOTE_ATTEMPTS
  /\ reached[n] <= Len(answers[n])
  /\ Len(answers[n]) > 0 /\ answers[n][Len(answers[n])] = "delivered" => reached[n] > 0

(* So did the last, and the row has counted them all.                         *)
Open(n) ==
  /\ Len(answers[n]) = note[n].attempts
  /\ \A i \in 1 .. Len(answers[n]) : answers[n][i] = "retryable"

(* The result in hand is the last answer, or that there is no channel.        *)
Tried(n, result) ==
  \/ Len(answers[n]) = note[n].attempts + 1 /\ answers[n][Len(answers[n])] = result
  \/ Len(answers[n]) = 0 /\ result = "permanent"

(* A row that may still be tried has tries left, and its answers are open;    *)
(* one that ended says what the last answer was.                              *)
RowSound(n) ==
  /\ note[n].claimed <=> note[n].status = "SENDING"
  /\ note[n].status \in {"absent", "PENDING", "RETRY", "SENDING"} => note[n].attempts < NOTE_ATTEMPTS
  /\ Answered(n)
  /\ note[n].status \in {"absent", "PENDING", "RETRY"} => Open(n)
  /\ n \in stranded => note[n].status = "SENDING"
  /\ note[n].status = "DELIVERED" => Len(answers[n]) > 0 /\ answers[n][Len(answers[n])] = "delivered"
  /\ note[n].status = "FAILED" =>
       \/ Len(answers[n]) = 0 \/ Len(answers[n]) = NOTE_ATTEMPTS
       \/ answers[n][Len(answers[n])] = "permanent"

(* A row of a batch is claimed and nobody else's; one that is not being sent  *)
(* has not been sent since it was claimed.                                    *)
BatchSound(w, i) ==
  LET n == batch[w][i] IN
  /\ note[n].status = "SENDING" /\ n \notin stranded
  /\ i # 1 \/ sending[w] = "nothing" => Open(n)
  /\ i = 1 /\ sending[w] # "nothing" => Tried(n, sending[w])

NoteInv ==
  /\ NoteShapes
  /\ IsFiniteSet({n \in Notes : note[n].status # "absent"})
  /\ \A n \in Notes : RowSound(n)
  /\ \A w \in Senders : /\ Len(batch[w]) <= NOTE_BATCH
                        /\ sending[w] # "nothing" => batch[w] # <<>>
                        /\ \A i \in 1 .. Len(batch[w]) : BatchSound(w, i)
  /\ \A v, w \in Senders : \A i \in 1 .. Len(batch[v]), j \in 1 .. Len(batch[w]) :
       batch[v][i] = batch[w][j] => v = w /\ i = j

(* The invariant holds before the first notification.                        *)
LEMMA InitNotes == NotificationsInit => NoteInv
<1> SUFFICES ASSUME NotificationsInit PROVE NoteInv
  OBVIOUS
<1>1. NoteShapes
  BY NoteConstants DEF NotificationsInit, NoteShapes, NoteType, NoteStatus, NoNote, Results
<1>2. {n \in Notes : note[n].status # "absent"} = {}
  BY DEF NotificationsInit, NoNote
<1>3. IsFiniteSet({n \in Notes : note[n].status # "absent"})
  BY <1>2, FS_EmptySet
<1>4. \A n \in Notes : RowSound(n)
  <2>1. \A n \in Notes : Len(answers[n]) = 0 /\ reached[n] = 0 /\ stranded = {}
    BY DEF NotificationsInit
  <2>2. \A n \in Notes : note[n].status = "absent" /\ note[n].attempts = 0 /\ note[n].claimed = FALSE
    BY DEF NotificationsInit, NoNote
  <2> QED
    BY <2>1, <2>2, NoteConstants DEF RowSound, Answered, Open
<1>5. \A w \in Senders : batch[w] = <<>> /\ Len(batch[w]) = 0 /\ sending[w] = "nothing"
  BY DEF NotificationsInit
<1> QED
  BY <1>1, <1>3, <1>4, <1>5, NoteConstants DEF NoteInv

(* What a step has to show, row by row and batch by batch.                   *)
LEMMA NoteStep ==
  ASSUME NoteInv, NoteShapes',
         IsFiniteSet({n \in Notes : note'[n].status # "absent"}),
         \A n \in Notes : RowSound(n)',
         \A w \in Senders : /\ Len(batch'[w]) <= NOTE_BATCH
                            /\ sending'[w] # "nothing" => batch'[w] # <<>>
                            /\ \A i \in 1 .. Len(batch'[w]) : BatchSound(w, i)',
         \A v, w \in Senders : \A i \in 1 .. Len(batch'[v]), j \in 1 .. Len(batch'[w]) :
           batch'[v][i] = batch'[w][j] => v = w /\ i = j
  PROVE  NoteInv'
BY DEF NoteInv

(* A row nobody is sending changes: schedule_notification, backoff_delay.    *)
LEMMA IdleRowMoves ==
  ASSUME NoteInv, NEW n \in Notes, NEW x \in NoteType, note[n].status # "SENDING",
         note' = [note EXCEPT ![n] = x], UNCHANGED <<batch, sending, answers, reached, stranded>>,
         RowSound(n)'
  PROVE  NoteInv'
<1>1. \A m \in Notes : note'[m] = IF m = n THEN x ELSE note[m]
  BY DEF NoteInv, NoteShapes
<1>2. NoteShapes'
  BY DEF NoteInv, NoteShapes
<1>3. IsFiniteSet({m \in Notes : note'[m].status # "absent"})
  <2> DEFINE S == {m \in Notes : note[m].status # "absent"}
             T == {m \in Notes : note'[m].status # "absent"}
  <2>1. IsFiniteSet(S \cup {n})
    BY FS_AddElement DEF NoteInv
  <2>2. T \subseteq S \cup {n}
    BY <1>1
  <2> QED
    BY <2>1, <2>2, FS_Subset
<1>4. \A m \in Notes : RowSound(m)'
  <2> SUFFICES ASSUME NEW m \in Notes, m # n PROVE RowSound(m)'
    OBVIOUS
  <2>1. note'[m] = note[m] /\ RowSound(m)
    BY <1>1 DEF NoteInv
  <2> QED
    BY <2>1 DEF RowSound, Answered, Open
<1>5. ASSUME NEW w \in Senders, NEW i \in 1 .. Len(batch'[w])
      PROVE  BatchSound(w, i)'
  <2>1. BatchSound(w, i) /\ batch[w][i] \in Notes
    BY DEF NoteInv, NoteShapes
  <2>2. batch[w][i] # n
    BY <2>1 DEF BatchSound
  <2>3. note'[batch[w][i]] = note[batch[w][i]]
    BY <1>1, <2>1, <2>2
  <2> QED
    BY <2>1, <2>3 DEF BatchSound, Open, Tried
<1> QED
  BY <1>2, <1>3, <1>4, <1>5, NoteStep DEF NoteInv

(* A notification is enqueued, or its back-off passes.                       *)
LEMMA ScheduleKeeps ==
  ASSUME NoteInv, NEW n \in Notes, schedule_notification(n) \/ BackoffPasses(n)
  PROVE  NoteInv'
<1>1. note[n] \in NoteType /\ RowSound(n)
  BY DEF NoteInv, NoteShapes
<1>2. UNCHANGED <<batch, sending, answers, reached, stranded>>
  BY DEF schedule_notification, BackoffPasses, provider
<1>3. CASE schedule_notification(n)
  <2> DEFINE x == [note[n] EXCEPT !.status = "PENDING"]
  <2>1. note' = [note EXCEPT ![n] = x] /\ note[n].status = "absent"
    BY <1>3 DEF schedule_notification
  <2>2. /\ x \in NoteType /\ x.status = "PENDING" /\ x.attempts = note[n].attempts
        /\ x.claimed = note[n].claimed
    BY <1>1 DEF NoteType, NoteStatus
  <2>3. note'[n] = x
    BY <2>1 DEF NoteInv, NoteShapes
  <2> HIDE DEF x
  <2>4. RowSound(n)'
    BY <1>1, <1>2, <2>1, <2>2, <2>3 DEF RowSound, Answered, Open
  <2> QED
    BY <1>2, <2>1, <2>2, <2>4, IdleRowMoves
<1>4. CASE BackoffPasses(n)
  <2> DEFINE x == [note[n] EXCEPT !.due = TRUE]
  <2>1. note' = [note EXCEPT ![n] = x] /\ note[n].status = "RETRY"
    BY <1>4 DEF BackoffPasses
  <2>2. /\ x \in NoteType /\ x.status = "RETRY" /\ x.attempts = note[n].attempts
        /\ x.claimed = note[n].claimed
    BY <1>1, <2>1 DEF NoteType, NoteStatus
  <2>3. note'[n] = x
    BY <2>1 DEF NoteInv, NoteShapes
  <2> HIDE DEF x
  <2>4. RowSound(n)'
    BY <1>1, <1>2, <2>1, <2>2, <2>3 DEF RowSound, Answered, Open
  <2> QED
    BY <1>2, <2>1, <2>2, <2>4, IdleRowMoves
<1> QED
  BY <1>3, <1>4

(* CLAIM_SQL's LIMIT: of a finite set of rows, those with fewer than         *)
(* NOTE_BATCH older ones are at most NOTE_BATCH.                             *)
LEMMA OldestAreFew ==
  ASSUME NEW free \in SUBSET Nat, IsFiniteSet(free), NEW B \in Nat
  PROVE  LET mine == {n \in free : Cardinality({k \in free : k < n}) < B}
         IN  IsFiniteSet(mine) /\ Cardinality(mine) <= B
<1> DEFINE older(n) == {k \in free : k < n}
           mine == {n \in free : Cardinality(older(n)) < B}
           f == [n \in mine |-> Cardinality(older(n))]
<1>1. \A n \in free : IsFiniteSet(older(n)) /\ Cardinality(older(n)) \in Nat
  <2> SUFFICES ASSUME NEW n \in free
               PROVE  IsFiniteSet(older(n)) /\ Cardinality(older(n)) \in Nat
    OBVIOUS
  <2>1. older(n) \subseteq free
    OBVIOUS
  <2> QED
    BY <2>1, FS_Subset, FS_CardinalityType
<1>2. \A m, n \in free : m < n => Cardinality(older(m)) # Cardinality(older(n))
  <2> SUFFICES ASSUME NEW m \in free, NEW n \in free, m < n,
                      Cardinality(older(m)) = Cardinality(older(n))
               PROVE  FALSE
    OBVIOUS
  <2>1. m \in Nat /\ n \in Nat /\ \A k \in free : k \in Nat
    OBVIOUS
  <2>2. \A k \in free : k < m => k < n
    BY <2>1
  <2>3. m < n /\ ~(m < m)
    BY <2>1
  <2>4. older(m) \subseteq older(n) /\ m \in older(n) /\ m \notin older(m)
    BY <2>2, <2>3
  <2>5. IsFiniteSet(older(n))
    BY <1>1
  <2> HIDE DEF older
  <2>6. older(n) = older(m)
    BY <2>4, <2>5, FS_Subset
  <2> QED
    BY <2>4, <2>6
<1>3. f \in Injection(mine, 0 .. B - 1)
  <2>1. f \in [mine -> 0 .. B - 1]
    <3>1. \A n \in mine : Cardinality(older(n)) \in Nat /\ Cardinality(older(n)) < B
      BY <1>1
    <3> HIDE DEF older, mine
    <3>2. \A n \in mine : Cardinality(older(n)) \in 0 .. B - 1
      BY <3>1
    <3> QED
      BY <3>2
  <2>2. \A m, n \in mine : f[m] = f[n] => m = n
    <3> SUFFICES ASSUME NEW m \in mine, NEW n \in mine, f[m] = f[n], m # n
                 PROVE  FALSE
      OBVIOUS
    <3>1. Cardinality(older(m)) = Cardinality(older(n)) /\ m \in free /\ n \in free
      OBVIOUS
    <3> QED
      BY <1>2, <3>1
  <2> QED
    BY <2>1, <2>2 DEF Injection, IsInjective
<1> HIDE DEF f, mine
<1>4. IsFiniteSet(0 .. B - 1) /\ Cardinality(0 .. B - 1) = B
  <2>1. IsFiniteSet(0 .. B - 1) /\ Cardinality(0 .. B - 1) = IF 0 > B - 1 THEN 0 ELSE B - 1 - 0 + 1
    BY FS_Interval
  <2> QED
    BY <2>1
<1>5. IsFiniteSet(mine) /\ Cardinality(mine) <= B
  BY <1>3, <1>4, FS_Injection
<1> QED
  BY <1>5 DEF mine

(* claim_batch: no other worker holds a row that is claimed now.             *)
LEMMA ClaimKeepsNotes ==
  ASSUME NoteInv, NEW w \in Senders, ClaimNotes(w)
  PROVE  NoteInv'
<1> DEFINE free == {n \in Notes : NoteClaimable(n)}
           mine == {n \in free : Cardinality({k \in free : k < n}) < NOTE_BATCH}
<1>1. /\ note' = [n \in Notes |-> IF n \in mine
                                  THEN [note[n] EXCEPT !.status = "SENDING", !.claimed = TRUE]
                                  ELSE note[n]]
      /\ sending[w] = "nothing"
      /\ UNCHANGED <<sending, answers, reached, stranded>>
  BY DEF ClaimNotes, provider
<1>2. PICK s \in [1 .. Cardinality(mine) -> mine] :
        /\ \A i, j \in DOMAIN s : i < j => s[i] < s[j]
        /\ batch' = [batch EXCEPT ![w] = s]
  BY DEF ClaimNotes
<1>3. mine \subseteq Notes /\ \A n \in mine : note[n].status \in {"PENDING", "RETRY"}
  BY DEF NoteClaimable
<1>4. IsFiniteSet(mine) /\ Cardinality(mine) <= NOTE_BATCH /\ Cardinality(mine) \in Nat
  <2>1. free \subseteq {n \in Notes : note[n].status # "absent"}
    BY DEF NoteClaimable
  <2>2. IsFiniteSet(free) /\ free \in SUBSET Nat
    BY <2>1, FS_Subset, NoteConstants DEF NoteInv
  <2>3. NOTE_BATCH \in Nat
    BY NoteConstants
  <2> HIDE DEF free
  <2>4. IsFiniteSet(mine) /\ Cardinality(mine) <= NOTE_BATCH
    BY <2>2, <2>3, OldestAreFew
  <2> QED
    BY <2>4, FS_CardinalityType
<1> HIDE DEF mine
<1>5. s \in Seq(Notes) /\ Len(s) = Cardinality(mine) /\ DOMAIN s = 1 .. Len(s)
  BY <1>3, <1>4
<1>6. \A i, j \in 1 .. Len(s) : s[i] = s[j] => i = j
  <2> SUFFICES ASSUME NEW i \in 1 .. Len(s), NEW j \in 1 .. Len(s), s[i] = s[j], i < j
               PROVE  FALSE
    OBVIOUS
  <2>1. s[i] < s[j] /\ s[i] \in Nat
    BY <1>2, <1>3, <1>5, NoteConstants
  <2> QED
    BY <2>1
<1>7. ASSUME NEW n \in Notes
      PROVE  /\ note'[n] \in NoteType
             /\ n \in mine => /\ note'[n].status = "SENDING" /\ note'[n].claimed
                              /\ note'[n].attempts = note[n].attempts
             /\ n \notin mine => note'[n] = note[n]
  BY <1>1 DEF NoteInv, NoteShapes, NoteType, NoteStatus
<1>8. NoteShapes'
  <2>1. note' \in [Notes -> NoteType]
    BY <1>1, <1>7
  <2>2. batch' \in [Senders -> Seq(Notes)]
    BY <1>2, <1>5 DEF NoteInv, NoteShapes
  <2> QED
    BY <1>1, <2>1, <2>2 DEF NoteInv, NoteShapes
<1>9. {n \in Notes : note'[n].status # "absent"} = {n \in Notes : note[n].status # "absent"}
  BY <1>3, <1>7
<1>10. ASSUME NEW n \in Notes
       PROVE  RowSound(n)'
  <2>1. RowSound(n)
    BY DEF NoteInv
  <2>2. CASE n \notin mine
    BY <1>1, <1>7, <2>1, <2>2 DEF RowSound, Answered, Open
  <2>3. CASE n \in mine
    <3>1. /\ note[n].status \in {"PENDING", "RETRY"}
          /\ note'[n].status = "SENDING" /\ note'[n].claimed /\ note'[n].attempts = note[n].attempts
      BY <1>3, <1>7, <2>3
    <3> QED
      BY <1>1, <2>1, <3>1 DEF RowSound, Answered
  <2> QED
    BY <2>2, <2>3
<1>11. \A v \in Senders : batch'[v] = IF v = w THEN s ELSE batch[v]
  BY <1>2 DEF NoteInv, NoteShapes
<1>12. ASSUME NEW v \in Senders, v # w, NEW i \in 1 .. Len(batch[v])
       PROVE  batch[v][i] \in Notes \ mine /\ BatchSound(v, i)
  <2>1. BatchSound(v, i) /\ batch[v][i] \in Notes
    BY DEF NoteInv, NoteShapes
  <2> QED
    BY <2>1, <1>3 DEF BatchSound
<1>13. ASSUME NEW v \in Senders, NEW i \in 1 .. Len(batch'[v])
       PROVE  BatchSound(v, i)'
  <2>1. CASE v # w
    <3>1. batch'[v] = batch[v] /\ batch[v][i] \in Notes \ mine /\ BatchSound(v, i)
      BY <1>11, <1>12, <2>1
    <3>2. note'[batch[v][i]] = note[batch[v][i]]
      BY <1>7, <3>1
    <3> QED
      BY <1>1, <3>1, <3>2 DEF BatchSound, Open, Tried
  <2>2. CASE v = w
    <3>1. batch'[v] = s /\ i \in 1 .. Len(s) /\ s[i] \in mine
      BY <1>2, <1>5, <1>11, <2>2
    <3>2. /\ note'[s[i]].status = "SENDING" /\ note'[s[i]].attempts = note[s[i]].attempts
          /\ note[s[i]].status \in {"PENDING", "RETRY"} /\ RowSound(s[i])
      BY <1>3, <1>7, <3>1 DEF NoteInv
    <3>3. Open(s[i]) /\ s[i] \notin stranded
      BY <3>2 DEF RowSound
    <3>4. sending'[v] = "nothing"
      BY <1>1, <2>2
    <3> QED
      BY <1>1, <3>1, <3>2, <3>3, <3>4 DEF BatchSound, Open
  <2> QED
    BY <2>1, <2>2
<1>14. ASSUME NEW u \in Senders, NEW v \in Senders,
              NEW i \in 1 .. Len(batch'[u]), NEW j \in 1 .. Len(batch'[v]),
              batch'[u][i] = batch'[v][j]
       PROVE  u = v /\ i = j
  <2>0. s \in [1 .. Len(s) -> mine]
    BY <1>2, <1>5
  <2>1. CASE u # w /\ v # w
    BY <1>11, <1>14, <2>1 DEF NoteInv
  <2>2. CASE u = w /\ v = w
    BY <1>6, <1>11, <1>14, <2>2
  <2>3. CASE u = w /\ v # w
    BY <1>11, <1>12, <1>14, <2>0, <2>3
  <2>4. CASE u # w /\ v = w
    BY <1>11, <1>12, <1>14, <2>0, <2>4
  <2> QED
    BY <2>1, <2>2, <2>3, <2>4
<1>15. \A v \in Senders : Len(batch'[v]) <= NOTE_BATCH /\ (sending'[v] # "nothing" => batch'[v] # <<>>)
  BY <1>1, <1>4, <1>5, <1>11 DEF NoteInv
<1> QED
  BY <1>8, <1>9, <1>10, <1>13, <1>14, <1>15, NoteStep DEF NoteInv

(* process_one asks the provider, or finds no channel: only the head of the  *)
(* worker's batch is concerned, and no other worker has it.                  *)
LEMMA SendKeepsNotes ==
  ASSUME NoteInv, NEW w \in Senders, NoChannel(w) \/ \E result \in Results : Send(w, result)
  PROVE  NoteInv'
<1>1. PICK result \in Results : sending' = [sending EXCEPT ![w] = result]
  <2>1. CASE NoChannel(w)
    BY <2>1 DEF NoChannel, Results
  <2>2. CASE \E result \in Results : Send(w, result)
    BY <2>2 DEF Send
  <2> QED BY <2>1, <2>2
<1>2. /\ batch[w] # <<>> /\ sending[w] = "nothing" /\ UNCHANGED <<note, batch>>
      /\ result # "nothing"
  BY <1>1 DEF NoChannel, Send, Results
<1>3. PICK n \in Notes : n = Head(batch[w]) /\ n = batch[w][1] /\ 1 \in 1 .. Len(batch[w])
  <2>1. batch[w] \in Seq(Notes)
    BY DEF NoteInv, NoteShapes
  <2> QED
    BY <1>2, <2>1
<1>4. BatchSound(w, 1) /\ RowSound(n)
  BY <1>3 DEF NoteInv
<1>5. /\ note[n].status = "SENDING" /\ Open(n) /\ n \notin stranded
      /\ note[n].attempts \in Nat /\ note[n].attempts < NOTE_ATTEMPTS
      /\ answers[n] \in Seq(Results) /\ reached[n] \in Nat
  BY <1>2, <1>3, <1>4 DEF BatchSound, RowSound, NoteInv, NoteShapes, NoteType
<1>6. /\ answers' \in [Notes -> Seq(Results)] /\ reached' \in [Notes -> Nat] /\ stranded' = stranded
      /\ Answered(n)' /\ Tried(n, result)'
      /\ \A m \in Notes \ {n} : answers'[m] = answers[m] /\ reached'[m] = reached[m]
  <2>1. CASE NoChannel(w)
    <3>1. /\ result = "permanent" /\ answers[n] = <<>> /\ UNCHANGED <<answers, reached, stranded>>
      BY <1>1, <1>3, <2>1 DEF NoChannel, provider, NoteInv, NoteShapes
    <3> QED
      BY <1>4, <3>1 DEF RowSound, Answered, Tried, NoteInv, NoteShapes
  <2>2. ASSUME NEW r \in Results, Send(w, r)
        PROVE  /\ answers' \in [Notes -> Seq(Results)] /\ reached' \in [Notes -> Nat] /\ stranded' = stranded
               /\ Answered(n)' /\ Tried(n, result)'
               /\ \A m \in Notes \ {n} : answers'[m] = answers[m] /\ reached'[m] = reached[m]
    <3>1. r = result /\ stranded' = stranded
      BY <1>1, <2>2 DEF Send, NoteInv, NoteShapes
    <3>2. /\ answers' = [answers EXCEPT ![n] = Append(@, result)]
          /\ \/ reached' = [reached EXCEPT ![n] = @ + 1]
             \/ result # "delivered" /\ reached' = reached
      BY <1>3, <2>2, <3>1 DEF Send
    <3>3. PICK a \in Seq(Results) : a = answers[n]
      BY <1>5
    <3>4. /\ Append(a, result) \in Seq(Results) /\ Len(Append(a, result)) = Len(a) + 1 /\ Len(a) \in Nat
          /\ Append(a, result)[Len(a) + 1] = result
          /\ \A i \in 1 .. Len(a) : Append(a, result)[i] = a[i]
      OBVIOUS
    <3>5. /\ answers' \in [Notes -> Seq(Results)] /\ answers'[n] = Append(a, result)
          /\ \A m \in Notes \ {n} : answers'[m] = answers[m]
      BY <3>2, <3>3, <3>4 DEF NoteInv, NoteShapes
    <3>6. /\ reached' \in [Notes -> Nat] /\ \A m \in Notes \ {n} : reached'[m] = reached[m]
          /\ reached'[n] = reached[n] + 1 \/ (result # "delivered" /\ reached'[n] = reached[n])
      <4>1. reached \in [Notes -> Nat]
        BY DEF NoteInv, NoteShapes
      <4>2. CASE reached' = [reached EXCEPT ![n] = @ + 1]
        BY <4>1, <4>2
      <4>3. CASE result # "delivered" /\ reached' = reached
        BY <4>1, <4>3
      <4> QED
        BY <3>2, <4>2, <4>3
    <3>7. /\ Len(a) = note[n].attempts /\ \A i \in 1 .. Len(a) : a[i] = "retryable"
          /\ reached[n] <= Len(a)
      BY <1>4, <1>5, <3>3 DEF Open, RowSound, Answered
    <3>8. /\ Len(answers'[n]) = Len(a) + 1 /\ answers'[n][Len(a) + 1] = result
          /\ \A i \in 1 .. Len(a) : answers'[n][i] = "retryable"
      BY <3>4, <3>5, <3>7
    <3>9. Answered(n)'
      <4>1. \A i \in 1 .. Len(answers'[n]) - 1 : answers'[n][i] = "retryable"
        BY <3>4, <3>8
      <4>2. Len(answers'[n]) <= NOTE_ATTEMPTS /\ reached'[n] <= Len(answers'[n])
        BY <1>5, <3>4, <3>6, <3>7, <3>8, NoteConstants
      <4>3. result = "delivered" => reached'[n] > 0
        BY <1>5, <3>6
      <4> QED
        BY <3>4, <3>8, <4>1, <4>2, <4>3 DEF Answered
    <3>10. Tried(n, result)'
      BY <1>2, <3>7, <3>8 DEF Tried
    <3> QED
      BY <3>1, <3>5, <3>6, <3>9, <3>10
  <2> QED
    BY <2>1, <2>2
<1>7. NoteShapes'
  BY <1>1, <1>2, <1>6 DEF NoteInv, NoteShapes
<1>8. ASSUME NEW m \in Notes
      PROVE  RowSound(m)'
  <2>1. CASE m # n
    <3>1. RowSound(m) /\ note'[m] = note[m] /\ answers'[m] = answers[m] /\ reached'[m] = reached[m]
      BY <1>2, <1>6, <2>1 DEF NoteInv
    <3> QED
      BY <1>6, <3>1 DEF RowSound, Answered, Open
  <2>2. CASE m = n
    BY <1>2, <1>4, <1>5, <1>6, <2>2 DEF RowSound
  <2> QED
    BY <2>1, <2>2
<1>9. \A v \in Senders : sending'[v] = IF v = w THEN result ELSE sending[v]
  BY <1>1 DEF NoteInv, NoteShapes
<1>10. ASSUME NEW v \in Senders, NEW i \in 1 .. Len(batch'[v])
       PROVE  BatchSound(v, i)'
  <2>1. BatchSound(v, i) /\ batch[v][i] \in Notes /\ batch' = batch /\ note' = note
    BY <1>2 DEF NoteInv, NoteShapes
  <2>2. CASE v = w /\ i = 1
    BY <1>2, <1>3, <1>5, <1>6, <1>9, <2>1, <2>2 DEF BatchSound
  <2>3. CASE ~(v = w /\ i = 1)
    <3>1. batch[v][i] # n
      BY <1>2, <1>3, <2>3 DEF NoteInv
    <3>2. answers'[batch[v][i]] = answers[batch[v][i]]
      BY <1>6, <2>1, <3>1
    <3>3. i # 1 \/ sending'[v] = sending[v]
      BY <1>9, <2>3
    <3> QED
      BY <1>2, <1>6, <2>1, <3>2, <3>3 DEF BatchSound, Open, Tried
  <2> QED
    BY <2>2, <2>3
<1>11. \A v \in Senders : sending'[v] # "nothing" => batch'[v] # <<>>
  BY <1>2, <1>9 DEF NoteInv
<1> QED
  BY <1>2, <1>7, <1>8, <1>10, <1>11, NoteStep DEF NoteInv

(* settle: the head's row leaves SENDING and the batch.                      *)
LEMMA SettleKeepsNotes ==
  ASSUME NoteInv, NEW w \in Senders, Settle(w)
  PROVE  NoteInv'
<1>1. /\ sending[w] # "nothing" /\ sending[w] \in Results
      /\ note' = [note EXCEPT ![Head(batch[w])] = Settled(@, sending[w])]
      /\ batch' = [batch EXCEPT ![w] = Tail(@)]
      /\ sending' = [sending EXCEPT ![w] = "nothing"]
      /\ UNCHANGED <<answers, reached, stranded>>
  BY DEF Settle, provider, NoteInv, NoteShapes
<1>2. PICK s \in Seq(Notes) : s = batch[w] /\ s # <<>>
  BY <1>1 DEF NoteInv, NoteShapes
<1>3. PICK n \in Notes : n = Head(s) /\ n = s[1] /\ 1 \in 1 .. Len(s)
  BY <1>2
<1>4. /\ Tail(s) \in Seq(Notes) /\ Len(Tail(s)) = Len(s) - 1 /\ Len(s) \in Nat
      /\ \A i \in 1 .. Len(Tail(s)) : Tail(s)[i] = s[i + 1] /\ i + 1 \in 1 .. Len(s) /\ i + 1 # 1
  BY <1>2
<1>5. PICK x : x = Settled(note[n], sending[w])
  OBVIOUS
<1>6. BatchSound(w, 1) /\ RowSound(n) /\ note[n] \in NoteType /\ Len(answers[n]) \in Nat
  BY <1>2, <1>3 DEF NoteInv, NoteShapes
<1>7. /\ note[n].status = "SENDING" /\ note[n].attempts \in Nat
      /\ n \notin stranded /\ Tried(n, sending[w]) /\ Answered(n)
      /\ note[n].attempts < NOTE_ATTEMPTS
  BY <1>1, <1>2, <1>3, <1>6 DEF BatchSound, RowSound, NoteType
<1>8. /\ x \in NoteType /\ x.attempts = note[n].attempts + 1 /\ ~x.claimed
      /\ x.status \in {"DELIVERED", "FAILED", "RETRY"}
      /\ x.status = "DELIVERED" <=> sending[w] = "delivered"
      /\ x.status = "RETRY" => x.attempts < NOTE_ATTEMPTS /\ sending[w] = "retryable"
      /\ x.status = "FAILED" => sending[w] = "permanent" \/ x.attempts = NOTE_ATTEMPTS
  <2> DEFINE status == classify(sending[w], note[n].attempts + 1)
  <2>1. /\ status \in {"DELIVERED", "FAILED", "RETRY"}
        /\ status = "DELIVERED" <=> sending[w] = "delivered"
        /\ status = "RETRY" => note[n].attempts + 1 < NOTE_ATTEMPTS /\ sending[w] = "retryable"
        /\ status = "FAILED" => sending[w] = "permanent" \/ note[n].attempts + 1 = NOTE_ATTEMPTS
    <3>1. CASE sending[w] = "delivered"
      BY <3>1 DEF classify
    <3>2. CASE sending[w] = "permanent"
      BY <3>2 DEF classify
    <3>3. CASE sending[w] = "retryable" /\ note[n].attempts + 1 >= NOTE_ATTEMPTS
      <4>1. status = "FAILED" /\ note[n].attempts + 1 = NOTE_ATTEMPTS
        BY <1>7, <3>3, NoteConstants DEF classify
      <4> QED
        BY <3>3, <4>1
    <3>4. CASE sending[w] = "retryable" /\ ~(note[n].attempts + 1 >= NOTE_ATTEMPTS)
      <4>1. status = "RETRY" /\ note[n].attempts + 1 < NOTE_ATTEMPTS
        BY <1>7, <3>4, NoteConstants DEF classify
      <4> QED
        BY <3>4, <4>1
    <3> QED
      BY <1>1, <3>1, <3>2, <3>3, <3>4 DEF Results
  <2>2. x = [status |-> status, attempts |-> note[n].attempts + 1, claimed |-> FALSE,
             due |-> status # "RETRY"]
    BY <1>5 DEF Settled
  <2> HIDE DEF status
  <2>3. (status # "RETRY") \in BOOLEAN
    OBVIOUS
  <2> QED
    BY <1>7, <2>1, <2>2, <2>3 DEF NoteType, NoteStatus
<1>9. \A m \in Notes : note'[m] = IF m = n THEN x ELSE note[m]
  BY <1>1, <1>2, <1>3, <1>5 DEF NoteInv, NoteShapes
<1>10. /\ \A v \in Senders : batch'[v] = IF v = w THEN Tail(s) ELSE batch[v]
       /\ \A v \in Senders : sending'[v] = IF v = w THEN "nothing" ELSE sending[v]
  BY <1>1, <1>2 DEF NoteInv, NoteShapes
<1>11. NoteShapes'
  <2>1. note' \in [Notes -> NoteType]
    BY <1>1, <1>2, <1>3, <1>5, <1>8 DEF NoteInv, NoteShapes
  <2>2. batch' \in [Senders -> Seq(Notes)]
    BY <1>1, <1>2, <1>4 DEF NoteInv, NoteShapes
  <2> QED
    BY <1>1, <2>1, <2>2 DEF NoteInv, NoteShapes
<1>12. {m \in Notes : note'[m].status # "absent"} = {m \in Notes : note[m].status # "absent"}
  BY <1>7, <1>8, <1>9
<1>13. ASSUME NEW m \in Notes
       PROVE  RowSound(m)'
  <2>1. CASE m # n
    BY <1>1, <1>9, <2>1 DEF NoteInv, RowSound, Answered, Open
  <2>2. CASE m = n
    <3>1. note'[n] = x /\ answers'[n] = answers[n] /\ reached'[n] = reached[n] /\ stranded' = stranded
      BY <1>1, <1>9
    <3>2. Answered(n)'
      BY <1>7, <3>1 DEF Answered
    <3>3. x.status = "RETRY" => Open(n)'
      <4> SUFFICES ASSUME x.status = "RETRY" PROVE Open(n)'
        OBVIOUS
      <4>1. /\ Len(answers[n]) = note[n].attempts + 1
            /\ answers[n][Len(answers[n])] = "retryable"
        BY <1>7, <1>8 DEF Tried
      <4>2. \A i \in 1 .. Len(answers[n]) : answers[n][i] = "retryable"
        <5>1. \A i \in 1 .. Len(answers[n]) - 1 : answers[n][i] = "retryable"
          BY <1>7 DEF Answered
        <5> QED
          BY <1>6, <4>1, <5>1
      <4> QED
        BY <1>8, <3>1, <4>1, <4>2 DEF Open
    <3>4. x.status = "DELIVERED" => Len(answers[n]) > 0 /\ answers[n][Len(answers[n])] = "delivered"
      BY <1>7, <1>8 DEF Tried
    <3>5. x.status = "FAILED" => \/ Len(answers[n]) = 0 \/ Len(answers[n]) = NOTE_ATTEMPTS
                                \/ answers[n][Len(answers[n])] = "permanent"
      BY <1>7, <1>8 DEF Tried
    <3> QED
      BY <1>7, <1>8, <2>2, <3>1, <3>2, <3>3, <3>4, <3>5 DEF RowSound
  <2> QED
    BY <2>1, <2>2
<1>14. ASSUME NEW v \in Senders, NEW i \in 1 .. Len(batch'[v])
       PROVE  \E j \in 1 .. Len(batch[v]) :
                /\ batch'[v][i] = batch[v][j] /\ batch[v][j] \in Notes \ {n}
                /\ BatchSound(v, j) /\ (v = w => j # 1 /\ j = i + 1) /\ (v # w => j = i)
  <2>1. CASE v = w
    <3>1. i \in 1 .. Len(Tail(s)) /\ batch'[v][i] = s[i + 1] /\ i + 1 \in 1 .. Len(s) /\ i + 1 # 1
      BY <1>4, <1>10, <2>1
    <3>2. s[i + 1] # n /\ s[i + 1] \in Notes /\ BatchSound(v, i + 1)
      BY <1>2, <1>3, <2>1, <3>1 DEF NoteInv
    <3> QED
      BY <1>2, <2>1, <3>1, <3>2
  <2>2. CASE v # w
    <3>1. batch'[v] = batch[v]
      BY <1>10, <2>2
    <3>2. batch[v][i] # n /\ batch[v][i] \in Notes /\ BatchSound(v, i)
      BY <1>2, <1>3, <2>2, <3>1 DEF NoteInv, NoteShapes
    <3> QED
      BY <2>2, <3>1, <3>2
  <2> QED
    BY <2>1, <2>2
<1>15. ASSUME NEW v \in Senders, NEW i \in 1 .. Len(batch'[v])
       PROVE  BatchSound(v, i)'
  <2>1. PICK j \in 1 .. Len(batch[v]) :
          /\ batch'[v][i] = batch[v][j] /\ batch[v][j] \in Notes \ {n}
          /\ BatchSound(v, j) /\ (v = w => j # 1 /\ j = i + 1) /\ (v # w => j = i)
    BY <1>14
  <2>2. note'[batch[v][j]] = note[batch[v][j]]
    BY <1>9, <2>1
  <2>3. CASE v = w
    BY <1>1, <1>10, <2>1, <2>2, <2>3 DEF BatchSound, Open
  <2>4. CASE v # w
    BY <1>1, <1>10, <2>1, <2>2, <2>4 DEF BatchSound, Open, Tried
  <2> QED
    BY <2>3, <2>4
<1>16. ASSUME NEW u \in Senders, NEW v \in Senders,
              NEW i \in 1 .. Len(batch'[u]), NEW j \in 1 .. Len(batch'[v]),
              batch'[u][i] = batch'[v][j]
       PROVE  u = v /\ i = j
  <2>1. PICK k \in 1 .. Len(batch[u]) :
          batch'[u][i] = batch[u][k] /\ (u = w => k = i + 1) /\ (u # w => k = i)
    BY <1>14
  <2>2. PICK l \in 1 .. Len(batch[v]) :
          batch'[v][j] = batch[v][l] /\ (v = w => l = j + 1) /\ (v # w => l = j)
    BY <1>14
  <2>3. u = v /\ k = l
    BY <1>16, <2>1, <2>2 DEF NoteInv
  <2>4. i \in Int /\ j \in Int
    OBVIOUS
  <2> QED
    BY <2>1, <2>2, <2>3, <2>4
<1>17. \A v \in Senders : Len(batch'[v]) <= NOTE_BATCH /\ (sending'[v] # "nothing" => batch'[v] # <<>>)
  <2> SUFFICES ASSUME NEW v \in Senders
               PROVE  Len(batch'[v]) <= NOTE_BATCH /\ (sending'[v] # "nothing" => batch'[v] # <<>>)
    OBVIOUS
  <2>1. Len(batch[v]) <= NOTE_BATCH /\ (sending[v] # "nothing" => batch[v] # <<>>)
    BY DEF NoteInv
  <2>2. CASE v = w
    <3>1. batch'[v] = Tail(s) /\ sending'[v] = "nothing" /\ Len(s) <= NOTE_BATCH
      BY <1>2, <1>10, <2>1, <2>2
    <3>2. Len(Tail(s)) = Len(s) - 1 /\ Len(s) \in Nat /\ NOTE_BATCH \in Nat
      BY <1>4, NoteConstants
    <3>3. Len(Tail(s)) <= NOTE_BATCH
      BY <3>1, <3>2
    <3> QED
      BY <3>1, <3>3
  <2>3. CASE v # w
    BY <1>10, <2>1, <2>3
  <2> QED
    BY <2>2, <2>3
<1> QED
  BY <1>11, <1>12, <1>13, <1>15, <1>16, <1>17, NoteStep DEF NoteInv

(* A worker that dies forgets its batch; its rows stay claimed.              *)
LEMMA AbandonKeepsNotes ==
  ASSUME NoteInv, NEW w \in Senders, Abandon(w)
  PROVE  NoteInv'
<1>1. /\ UNCHANGED <<note, answers, reached>>
      /\ stranded' = stranded \cup {batch[w][i] : i \in DOMAIN batch[w]}
      /\ batch' = [batch EXCEPT ![w] = <<>>] /\ sending' = [sending EXCEPT ![w] = "nothing"]
  BY DEF Abandon, provider
<1>2. \A v \in Senders : /\ batch'[v] = IF v = w THEN <<>> ELSE batch[v]
                         /\ sending'[v] = IF v = w THEN "nothing" ELSE sending[v]
  BY <1>1 DEF NoteInv, NoteShapes
<1>3. NoteShapes'
  BY <1>1 DEF NoteInv, NoteShapes
<1>4. \A n \in Notes : RowSound(n)'
  <2>1. DOMAIN batch[w] = 1 .. Len(batch[w])
    BY DEF NoteInv, NoteShapes
  <2>2. \A i \in DOMAIN batch[w] : note[batch[w][i]].status = "SENDING"
    BY <2>1 DEF NoteInv, BatchSound
  <2> QED
    BY <1>1, <2>2 DEF NoteInv, RowSound, Answered, Open
<1>5. \A v \in Senders : \A i \in 1 .. Len(batch'[v]) :
        v # w /\ batch'[v] = batch[v] /\ sending'[v] = sending[v]
  <2>1. Len(<<>>) = 0
    OBVIOUS
  <2> QED
    BY <1>2, <2>1
<1>6. \A v \in Senders : \A i \in 1 .. Len(batch'[v]) : BatchSound(v, i)'
  <2>1. DOMAIN batch[w] = 1 .. Len(batch[w])
    BY DEF NoteInv, NoteShapes
  <2>2. ASSUME NEW v \in Senders, NEW i \in 1 .. Len(batch'[v]) PROVE batch[v][i] \notin stranded'
    <3>1. v # w /\ i \in 1 .. Len(batch[v])
      BY <1>5
    <3> QED
      BY <1>1, <2>1, <3>1 DEF NoteInv, BatchSound
  <2> QED
    BY <1>1, <1>5, <2>2 DEF NoteInv, BatchSound, Open, Tried
<1>7. \A v \in Senders : Len(batch'[v]) <= NOTE_BATCH /\ (sending'[v] # "nothing" => batch'[v] # <<>>)
  BY <1>2, NoteConstants DEF NoteInv
<1>8. \A u, v \in Senders : \A i \in 1 .. Len(batch'[u]), j \in 1 .. Len(batch'[v]) :
        batch'[u][i] = batch'[v][j] => u = v /\ i = j
  BY <1>5 DEF NoteInv
<1> QED
  BY <1>1, <1>3, <1>4, <1>6, <1>7, <1>8, NoteStep DEF NoteInv

(* Every step keeps the invariant.                                           *)
LEMMA NextKeepsNotes == NoteInv /\ [NotificationsNext]_noteVars => NoteInv'
<1> SUFFICES ASSUME NoteInv, [NotificationsNext]_noteVars PROVE NoteInv'
  OBVIOUS
<1>1. CASE \E n \in Notes : schedule_notification(n) \/ BackoffPasses(n)
  BY <1>1, ScheduleKeeps
<1>2. CASE \E w \in Senders : Works(w) \/ Abandon(w)
  BY <1>2, ClaimKeepsNotes, SendKeepsNotes, SettleKeepsNotes, AbandonKeepsNotes DEF Works
<1>3. CASE UNCHANGED noteVars
  BY <1>3 DEF noteVars, provider, NoteInv, NoteShapes, RowSound, BatchSound, Answered, Open, Tried
<1> QED
  BY <1>1, <1>2, <1>3 DEF NotificationsNext

(* A message is sent by one worker at a time, asked for again only after an   *)
(* answer that leaves it open, at most NOTE_ATTEMPTS times, and its row says  *)
(* what came of it: for any number of notifications and of workers that      *)
(* claim, send, settle and die (CLAIM_SQL, process_one, classify, settle).    *)
THEOREM NotificationsStaySound == NotificationsSpec => []NotificationsAreSound
<1>1. NoteInv => NotificationsAreSound
  <2> SUFFICES ASSUME NoteInv PROVE NotificationsAreSound
    OBVIOUS
  <2>1. NotificationsTypeOK
    BY DEF NoteInv, NoteShapes, NoteType, NoteStatus, RowSound, NotificationsTypeOK
  <2>2. OneSender
    <3>1. \A w \in Senders : DOMAIN batch[w] = 1 .. Len(batch[w])
      BY DEF NoteInv, NoteShapes
    <3> QED
      BY <3>1 DEF NoteInv, BatchSound, OneSender
  <2>3. OnlyDoubtIsRetried
    <3> SUFFICES ASSUME NEW n \in Notes
                 PROVE  /\ \A i \in 1 .. Len(answers[n]) - 1 : answers[n][i] = "retryable"
                        /\ reached[n] > 1 => answers[n][1] = "retryable"
      BY DEF OnlyDoubtIsRetried
    <3>1. /\ \A i \in 1 .. Len(answers[n]) - 1 : answers[n][i] = "retryable"
          /\ reached[n] <= Len(answers[n]) /\ reached[n] \in Nat /\ Len(answers[n]) \in Nat
      BY DEF NoteInv, NoteShapes, RowSound, Answered
    <3>2. reached[n] > 1 => 1 \in 1 .. Len(answers[n]) - 1
      BY <3>1
    <3> QED
      BY <3>1, <3>2
  <2>4. OutcomesAreAnswered
    BY DEF NoteInv, RowSound, Answered, OutcomesAreAnswered
  <2> QED
    BY <2>1, <2>2, <2>3, <2>4 DEF NotificationsAreSound
<1> QED
  BY <1>1, InitNotes, NextKeepsNotes, PTL DEF NotificationsSpec

(***************************************************************************)
(* cart-service: CartIsSound for any requests, products and circumstances. *)
(***************************************************************************)
(* What Append does to a sequence of members of S.                           *)
LEMMA Appended ==
  ASSUME NEW S, NEW s \in Seq(S), NEW e \in S
  PROVE  /\ Append(s, e) \in Seq(S) /\ Len(Append(s, e)) = Len(s) + 1
         /\ Append(s, e)[Len(s) + 1] = e
         /\ \A i \in 1 .. Len(s) : Append(s, e)[i] = s[i]
OBVIOUS

(* A function on 1 .. n with values in S is a sequence over S.               *)
LEMMA Listed ==
  ASSUME NEW S, NEW n \in Nat, NEW f \in [1 .. n -> S]
  PROVE  f \in Seq(S) /\ Len(f) = n
OBVIOUS

Items == [Products -> Nat]
CartRow == [items : Items, status : {"active", "checkout_in_progress", "expired"},
            aged : BOOLEAN, stale : BOOLEAN]
CartRequest ==
  [at : {"idle", "get", "load", "rewarm", "store", "select", "commit", "claim", "claimed",
         "delete", "release", "done"},
   mode : {"add", "read", "checkout"}, items : Items \cup {NoCart}, rows : SUBSET Nat]

(* What a request has in hand at each of its steps.                          *)
RequestTypes ==
  /\ setting \in Settings
  /\ cache \in [items : Items, by : Requests \cup {NoRequest}] \cup {NoCart}
  /\ rows \in Seq(CartRow) /\ keys \subseteq Range(KeyOf) /\ live \in Items
  /\ req \in [Requests -> CartRequest]
  /\ \A r \in Requests :
       /\ req[r].rows \subseteq DOMAIN rows
       /\ req[r].at \in {"rewarm", "store", "select", "commit", "claim", "claimed"} => req[r].items \in Items

(* The checkout lock: what has not lapsed is held, by a checkout that began. *)
LockInv ==
  /\ lock \in Requests \cup {NoRequest} /\ lease \subseteq Requests
  /\ \A r \in lease : lock = r /\ KindOf[r] = "checkout" /\ req[r].at # "idle"

(* Rows that were handed over are not active any more, rows that are claimed *)
(* still are, and no two checkouts claim the same one.                       *)
HandoverInv ==
  /\ \E S : orders \in Seq(S)
  /\ \A j \in 1 .. Len(orders) : orders[j].rows \subseteq DOMAIN rows \ ActiveRow
  /\ \A j, k \in 1 .. Len(orders) : j # k => orders[j].rows \cap orders[k].rows = {}
  /\ \A r \in Requests : req[r].at = "claimed" => req[r].rows \subseteq ActiveRow
  /\ \A r, s \in Requests : r # s /\ req[r].at = "claimed" /\ req[s].at = "claimed" =>
       req[r].rows \cap req[s].rows = {}

(* One request at a time, none of them failing: the row that is active shows *)
(* what was added, Redis repeats it or is ahead of it by the add under way,  *)
(* and so does what a request has read.                                      *)
SerialInv ==
  /\ \A r, s \in Running : r = s
  /\ \A i, k \in ActiveRow : i = k
  /\ \A i \in ActiveRow : ~rows[i].aged => rows[i].items = live
  /\ (\A i \in ActiveRow : rows[i].aged) => live = None
  /\ (cache # NoCart /\ \A r \in Running : req[r].at \notin {"select", "commit", "delete"}) =>
       cache.items = live /\ cache.by = NoRequest
  /\ \A r \in Requests :
       /\ req[r].at = "load" => req[r].items \in {NoCart, live}
       /\ req[r].at \in {"rewarm", "store"} => req[r].items = live
       /\ req[r].at \in {"select", "commit"} =>
            /\ req[r].items = merge_item(live, ItemOf[r])
            /\ cache # NoCart => cache.by = r /\ cache.items = req[r].items
       /\ req[r].at \in {"commit", "claimed"} => req[r].rows = ActiveRow

Serially == ~setting.overlap /\ ~setting.faults
CartInv == RequestTypes /\ LockInv /\ HandoverInv /\ (Serially => SerialInv)

(* The invariant holds before the first request.                             *)
LEMMA InitCart == CartInit => CartInv
<1> SUFFICES ASSUME CartInit PROVE CartInv
  OBVIOUS
<1>1. None \in Items /\ Idle \in CartRequest /\ Idle.at = "idle" /\ Idle.rows = {}
  BY DEF None, Items, Idle, CartRequest
<1>2. rows = <<>> /\ DOMAIN rows = {} /\ rows \in Seq(CartRow) /\ ActiveRow = {}
  BY DEF CartInit, ActiveRow
<1>3. req \in [Requests -> CartRequest] /\ \A r \in Requests : req[r] = Idle
  BY <1>1 DEF CartInit
<1>4. RequestTypes
  BY <1>1, <1>2, <1>3 DEF CartInit, RequestTypes
<1>5. LockInv
  BY DEF CartInit, LockInv
<1>6. orders = <<>> /\ orders \in Seq({}) /\ Len(orders) = 0
  BY DEF CartInit
<1>7. HandoverInv
  BY <1>1, <1>3, <1>6 DEF HandoverInv
<1>8. Running = {}
  BY <1>1, <1>3 DEF Running
<1>9. SerialInv
  BY <1>1, <1>2, <1>3, <1>8 DEF CartInit, SerialInv
<1> QED
  BY <1>4, <1>5, <1>7, <1>9 DEF CartInv

Underway == {"select", "commit", "delete"}

(* What request r may become, as far as the other requests and the rows are  *)
(* concerned.                                                                *)
Fits(r, x) ==
  /\ x \in CartRequest /\ x.at # "idle" /\ x.rows \subseteq DOMAIN rows
  /\ x.at \in {"rewarm", "store", "select", "commit", "claim", "claimed"} => x.items \in Items
  /\ x.at = "claimed" =>
       /\ x.rows \subseteq ActiveRow
       /\ \A s \in Requests \ {r} : req[s].at = "claimed" => x.rows \cap req[s].rows = {}

(* What it and the cache c may become when requests do not overlap.          *)
FitsAlone(r, x, c) ==
  /\ r \in Running \/ Running = {}
  /\ \/ c = cache /\ (req[r].at \in Underway => x.at \in Underway)
     \/ c # NoCart /\ x.at \notin Underway => c.items = live /\ c.by = NoRequest
  /\ x.at = "load" => x.items \in {NoCart, live}
  /\ x.at \in {"rewarm", "store"} => x.items = live
  /\ x.at \in {"select", "commit"} =>
       /\ x.items = merge_item(live, ItemOf[r])
       /\ c # NoCart => c.by = r /\ c.items = x.items
  /\ x.at \in {"commit", "claimed"} => x.rows = ActiveRow

CacheValue == [items : Items, by : Requests \cup {NoRequest}] \cup {NoCart}

(* A step that changes nothing but the request, the cache and the lock.      *)
LEMMA RequestMoves ==
  ASSUME CartInv, NEW r \in Requests, NEW x, NEW c \in CacheValue,
         req' = [req EXCEPT ![r] = x], cache' = c,
         UNCHANGED <<setting, rows, keys, orders, live>>,
         Fits(r, x), Serially => FitsAlone(r, x, c), LockInv'
  PROVE  CartInv'
<1>1. \A s \in Requests : req'[s] = IF s = r THEN x ELSE req[s]
  BY DEF CartInv, RequestTypes
<1>2. ActiveRow' = ActiveRow
  BY DEF ActiveRow
<1>3. RequestTypes'
  <2>1. req' \in [Requests -> CartRequest]
    BY DEF CartInv, RequestTypes, Fits
  <2> QED
    BY <1>1, <2>1 DEF CartInv, RequestTypes, Fits, CacheValue
<1>4. HandoverInv'
  BY <1>1, <1>2 DEF CartInv, HandoverInv, Fits
<1>5. ASSUME Serially PROVE SerialInv'
  <2>1. \A s \in Running' : s \in Running \/ s = r
    BY <1>1 DEF Running
  <2>2. \A s, t \in Running' : s = t
    BY <1>5, <2>1 DEF CartInv, SerialInv, FitsAlone
  <2>3. \A s \in Requests \ {r} : req[s].at \in {"idle", "done"} /\ req'[s] = req[s]
    BY <1>1, <1>5 DEF CartInv, SerialInv, FitsAlone, Running
  <2>4. x.at \in Underway => r \in Running'
    BY <1>1 DEF Running, Underway
  <2>5. ASSUME c # NoCart, \A s \in Running' : req'[s].at \notin Underway
        PROVE  c.items = live /\ c.by = NoRequest
    <3>1. x.at \notin Underway
      BY <1>1, <2>4, <2>5
    <3>2. CASE c = cache /\ (req[r].at \in Underway => x.at \in Underway)
      <4>1. \A s \in Running : req[s].at \notin Underway
        BY <2>3, <3>1, <3>2 DEF Running
      <4> QED
        BY <1>5, <2>5, <3>2, <4>1 DEF CartInv, SerialInv, Underway
    <3> QED
      BY <1>5, <2>5, <3>1, <3>2 DEF FitsAlone
  <2>6. \A s \in Requests :
          /\ req'[s].at = "load" => req'[s].items \in {NoCart, live}
          /\ req'[s].at \in {"rewarm", "store"} => req'[s].items = live
          /\ req'[s].at \in {"select", "commit"} =>
               /\ req'[s].items = merge_item(live, ItemOf[s])
               /\ c # NoCart => c.by = s /\ c.items = req'[s].items
          /\ req'[s].at \in {"commit", "claimed"} => req'[s].rows = ActiveRow
    BY <1>1, <1>5, <2>3 DEF FitsAlone
  <2> QED
    BY <1>2, <1>5, <2>2, <2>5, <2>6 DEF CartInv, SerialInv, Underway, merge_item, None
<1> QED
  BY <1>3, <1>4, <1>5 DEF CartInv, Serially

(* A step that leaves the lock alone.                                        *)
LEMMA LockIsLeft ==
  ASSUME CartInv, NEW r \in Requests, NEW x, req' = [req EXCEPT ![r] = x],
         UNCHANGED <<lock, lease>>, x.at # "idle"
  PROVE  LockInv'
<1>1. \A s \in Requests : req'[s] = IF s = r THEN x ELSE req[s]
  BY DEF CartInv, RequestTypes
<1> QED
  BY <1>1 DEF CartInv, LockInv

(* Goes ends a request or takes it to its next await.                        *)
LEMMA GoesTo ==
  ASSUME CartInv, NEW r \in Requests,
         NEW where \in {"get", "load", "rewarm", "store", "select", "commit", "claim", "claimed",
                        "delete", "release", "done"},
         Goes(r, where)
  PROVE  \E x \in CartRequest :
           /\ req' = [req EXCEPT ![r] = x] /\ x.at = where /\ x.rows \subseteq DOMAIN rows
           /\ x.rows = {} \/ x.rows = req[r].rows
           /\ where # "done" => x.items = req[r].items
<1>1. CASE where = "done"
  <2>1. Finished \in CartRequest /\ Finished.at = "done" /\ Finished.rows = {}
    BY DEF Finished, Idle, CartRequest, None, Items
  <2> QED
    BY <1>1, <2>1 DEF Goes
<1>2. CASE where # "done"
  <2> DEFINE x == [req[r] EXCEPT !.at = where]
  <2>1. req[r] \in CartRequest /\ req[r].rows \subseteq DOMAIN rows
    BY DEF CartInv, RequestTypes
  <2>2. x \in CartRequest /\ x.at = where /\ x.rows = req[r].rows /\ x.items = req[r].items
    BY <2>1 DEF CartRequest
  <2>3. req' = [req EXCEPT ![r] = x]
    BY <1>2 DEF Goes
  <2> HIDE DEF x
  <2> QED
    BY <2>1, <2>2, <2>3
<1> QED
  BY <1>1, <1>2

(* merge_item gives a cart.                                                  *)
LEMMA MergeIsACart ==
  ASSUME NEW items \in Items, NEW p
  PROVE  merge_item(items, p) \in Items
<1>1. \A q \in Products : merge_item(items, p)[q] = IF q = p THEN items[q] + 1 ELSE items[q]
  BY DEF merge_item, Items
<1>2. \A q \in Products : items[q] \in Nat
  BY DEF Items
<1>3. \A q \in Products : merge_item(items, p)[q] \in Nat
  BY <1>1, <1>2
<1>4. merge_item(items, p) = [q \in Products |-> merge_item(items, p)[q]]
  BY DEF merge_item, Items
<1> QED
  BY <1>3, <1>4 DEF Items

(* The rows are a sequence, so what is resolved is a cart; alone, it is what *)
(* was added.                                                                *)
LEMMA Resolved ==
  ASSUME CartInv, NEW seen \in Items \cup {NoCart}
  PROVE  /\ resolve_cart(seen, ActiveRow).items \in Items
         /\ Serially /\ seen \in {NoCart, live} => resolve_cart(seen, ActiveRow).items = live
<1>1. None \in Items
  BY DEF None, Items
<1>2. CASE seen # NoCart
  BY <1>2 DEF resolve_cart
<1>3. CASE seen = NoCart /\ \E i \in ActiveRow : ~rows[i].aged
  <2> DEFINE k == CHOOSE i \in ActiveRow : ~rows[i].aged
  <2>1. k \in ActiveRow /\ ~rows[k].aged
    BY <1>3
  <2>2. resolve_cart(seen, ActiveRow).items = rows[k].items
    BY <1>3 DEF resolve_cart
  <2> HIDE DEF k
  <2>3. rows[k] \in CartRow
    BY <2>1 DEF CartInv, RequestTypes, ActiveRow
  <2> QED
    BY <2>1, <2>2, <2>3 DEF CartInv, SerialInv, CartRow
<1>4. CASE seen = NoCart /\ ~\E i \in ActiveRow : ~rows[i].aged
  BY <1>1, <1>4 DEF resolve_cart, CartInv, SerialInv
<1> QED
  BY <1>2, <1>3, <1>4

(* One request at a time leaves one active row at most.                      *)
LEMMA OneRowAlone == CartInv /\ Serially => ~(Cardinality(ActiveRow) > 1)
<1> SUFFICES ASSUME CartInv, Serially PROVE ~(Cardinality(ActiveRow) > 1)
  OBVIOUS
<1>1. CASE ActiveRow = {}
  BY <1>1, FS_EmptySet
<1>2. CASE ActiveRow # {}
  <2>1. PICK i \in ActiveRow : TRUE
    BY <1>2
  <2>2. ActiveRow = {i}
    BY <2>1 DEF CartInv, SerialInv
  <2>3. Cardinality(ActiveRow) = 1
    BY <2>2, FS_Singleton
  <2> QED
    BY <2>3
<1> QED
  BY <1>1, <1>2

(* add_to_cart, get_cart and checkout_cart begin.                            *)
LEMMA BeginKeeps ==
  ASSUME CartInv, NEW r \in Requests, AddBegin(r) \/ ReadBegin(r) \/ CheckoutBegin(r)
  PROVE  CartInv'
<1>1. /\ req[r] \in CartRequest /\ req[r].rows \subseteq DOMAIN rows /\ cache \in CacheValue
      /\ req[r].at = "idle" /\ (Serially => Running = {})
      /\ UNCHANGED <<setting, cache, rows, keys, orders, live>>
  BY DEF CartInv, RequestTypes, CacheValue, AddBegin, ReadBegin, CheckoutBegin, MayStart, Serially
<1> DEFINE Begun(x) == x \in CartRequest /\ x.at \in {"get", "done"} /\ x.rows \subseteq DOMAIN rows
<1>2. ASSUME NEW x, Begun(x) PROVE Fits(r, x) /\ (Serially => FitsAlone(r, x, cache)) /\ x.at # "idle"
  BY <1>1, <1>2 DEF Fits, FitsAlone, Underway
<1>3. CASE AddBegin(r)
  <2> DEFINE x == [req[r] EXCEPT !.at = "get", !.mode = IF KeyOf[r] \in keys THEN "read" ELSE "add"]
  <2>1. Begun(x)
    BY <1>1 DEF CartRequest
  <2>2. req' = [req EXCEPT ![r] = x] /\ UNCHANGED <<lock, lease>>
    BY <1>3 DEF AddBegin, CartInv, RequestTypes
  <2> HIDE DEF x, Begun
  <2>3. LockInv'
    BY <1>2, <2>1, <2>2, LockIsLeft
  <2> QED
    BY <1>1, <1>2, <2>1, <2>2, <2>3, RequestMoves
<1>4. CASE ReadBegin(r)
  <2>1. PICK x \in CartRequest : req' = [req EXCEPT ![r] = x] /\ x.at = "get" /\ x.rows \subseteq DOMAIN rows
    BY <1>4, GoesTo DEF ReadBegin
  <2>2. Begun(x) /\ UNCHANGED <<lock, lease>>
    BY <1>4, <2>1 DEF ReadBegin
  <2> HIDE DEF Begun
  <2>3. LockInv'
    BY <1>2, <2>1, <2>2, LockIsLeft
  <2> QED
    BY <1>1, <1>2, <2>1, <2>2, <2>3, RequestMoves
<1>5. CASE CheckoutBegin(r)
  <2> DEFINE x == IF lock # NoRequest THEN Finished ELSE [req[r] EXCEPT !.at = "get", !.mode = "checkout"]
  <2>1. Begun(x)
    BY <1>1 DEF CartRequest, Finished, Idle, None, Items
  <2>2. req' = [req EXCEPT ![r] = x]
    BY <1>5 DEF CheckoutBegin
  <2>3. /\ lock' = IF lock = NoRequest THEN r ELSE lock
        /\ lease' = IF lock = NoRequest THEN lease \cup {r} ELSE lease
        /\ KindOf[r] = "checkout"
    BY <1>5 DEF CheckoutBegin
  <2> HIDE DEF x, Begun
  <2>4. \A s \in Requests : req'[s] = IF s = r THEN x ELSE req[s]
    BY <2>2 DEF CartInv, RequestTypes
  <2>5. lock = NoRequest => lease = {}
    BY CartConstants DEF CartInv, LockInv
  <2>6. LockInv'
    BY <1>2, <2>1, <2>3, <2>4, <2>5 DEF CartInv, LockInv
  <2> QED
    BY <1>1, <1>2, <2>1, <2>2, <2>6, RequestMoves
<1> QED
  BY <1>3, <1>4, <1>5

(* _resolve: GET, then the row.                                              *)
LEMMA ResolveKeeps ==
  ASSUME CartInv, NEW r \in Requests, RedisGet(r) \/ Load(r)
  PROVE  CartInv'
<1>1. /\ req[r] \in CartRequest /\ req[r].rows \subseteq DOMAIN rows /\ cache \in CacheValue
      /\ req[r].at \in {"get", "load"} /\ r \in Running /\ ActiveRow \subseteq DOMAIN rows
      /\ DOMAIN rows \subseteq Nat
      /\ UNCHANGED <<setting, cache, rows, keys, orders, live, lock, lease>>
  BY DEF CartInv, RequestTypes, CacheValue, RedisGet, Load, Running, ActiveRow
<1>2. CASE RedisGet(r)
  <2> DEFINE seen == IF cache = NoCart THEN NoCart ELSE cache.items
             x == [req[r] EXCEPT !.at = "load", !.items = seen]
  <2>1. req' = [req EXCEPT ![r] = x]
    BY <1>2 DEF RedisGet, CartInv, RequestTypes
  <2>2. seen \in Items \cup {NoCart}
    BY <1>1 DEF CacheValue
  <2>3. Serially => seen \in {NoCart, live}
    <3>1. req[r].at = "get"
      BY <1>2 DEF RedisGet
    <3>2. Serially => \A s \in Running : req[s].at \notin {"select", "commit", "delete"}
      BY <1>1, <3>1 DEF CartInv, SerialInv
    <3> QED
      BY <3>2 DEF CartInv, SerialInv
  <2> HIDE DEF seen
  <2>4. x \in CartRequest /\ x.at = "load" /\ x.items = seen /\ x.rows = req[r].rows
    BY <1>1, <2>2 DEF CartRequest
  <2> HIDE DEF x
  <2>5. Fits(r, x) /\ (Serially => FitsAlone(r, x, cache))
    BY <1>1, <2>3, <2>4 DEF Fits, FitsAlone, Underway
  <2>6. LockInv'
    BY <1>1, <2>1, <2>4, LockIsLeft
  <2> QED
    BY <1>1, <2>1, <2>5, <2>6, RequestMoves
<1>3. CASE Load(r) /\ Cardinality(ActiveRow) > 1
  <2>1. Goes(r, Ending(r)) /\ Ending(r) \in {"release", "done"}
    BY <1>3 DEF Load, Ending
  <2>2. PICK x \in CartRequest : req' = [req EXCEPT ![r] = x] /\ x.at = Ending(r) /\ x.rows \subseteq DOMAIN rows
    BY <2>1, GoesTo
  <2>3. Fits(r, x) /\ (Serially => FitsAlone(r, x, cache))
    BY <1>1, <2>1, <2>2 DEF Fits, FitsAlone, Underway
  <2>4. LockInv'
    BY <1>1, <2>1, <2>2, LockIsLeft
  <2> QED
    BY <1>1, <2>2, <2>3, <2>4, RequestMoves
<1>4. CASE Load(r) /\ ~(Cardinality(ActiveRow) > 1)
  <2> DEFINE view == resolve_cart(req[r].items, ActiveRow)
             next == CASE req[r].mode = "add" -> "store"
                       [] req[r].mode = "read" -> IF view.rehydrated THEN "rewarm" ELSE "done"
                       [] req[r].mode = "checkout" -> IF view.items = None THEN "release" ELSE "claim"
             x == IF next = "done" THEN Finished
                  ELSE [req[r] EXCEPT !.at = next, !.items = view.items, !.rows = ActiveRow]
  <2>1. req' = [req EXCEPT ![r] = x]
    BY <1>4 DEF Load
  <2>2. view.items \in Items /\ (Serially => view.items = live)
    <3>1. req[r].items \in Items \cup {NoCart}
      BY <1>1 DEF CartRequest
    <3>2. Serially => req[r].items \in {NoCart, live}
      BY <1>4 DEF Load, CartInv, SerialInv
    <3> QED
      BY <3>1, <3>2, Resolved
  <2>3. next \in {"store", "rewarm", "done", "release", "claim"}
    BY <1>1 DEF CartRequest
  <2> HIDE DEF view, next
  <2>4. /\ x \in CartRequest /\ x.at = next /\ x.rows \subseteq DOMAIN rows
        /\ next # "done" => x.items = view.items
    BY <1>1, <2>2, <2>3 DEF CartRequest, Finished, Idle, None, Items
  <2> HIDE DEF x
  <2>5. Fits(r, x) /\ (Serially => FitsAlone(r, x, cache))
    BY <1>1, <2>2, <2>3, <2>4 DEF Fits, FitsAlone, Underway
  <2>6. LockInv'
    BY <1>1, <2>1, <2>3, <2>4, LockIsLeft
  <2> QED
    BY <1>1, <2>1, <2>5, <2>6, RequestMoves
<1> QED
  BY <1>2, <1>3, <1>4

(* add_to_cart picks its row, checkout_cart claims it.                       *)
LEMMA SelectKeeps ==
  ASSUME CartInv, NEW r \in Requests, AddSelect(r) \/ Claim(r)
  PROVE  CartInv'
<1>1. /\ req[r] \in CartRequest /\ req[r].rows \subseteq DOMAIN rows /\ cache \in CacheValue
      /\ req[r].at \in {"select", "claim"} /\ r \in Running /\ ActiveRow \subseteq DOMAIN rows
      /\ DOMAIN rows \subseteq Nat /\ req[r].items \in Items
      /\ UNCHANGED <<setting, cache, rows, keys, orders, live, lock, lease>>
  BY DEF CartInv, RequestTypes, CacheValue, AddSelect, Claim, Running, ActiveRow
<1>2. CASE AddSelect(r) /\ Cardinality(ActiveRow) > 1
  <2>1. ~Serially
    BY <1>2, OneRowAlone
  <2>2. PICK x \in CartRequest : req' = [req EXCEPT ![r] = x] /\ x.at = "done" /\ x.rows \subseteq DOMAIN rows
    BY <1>2, GoesTo DEF AddSelect
  <2>3. Fits(r, x)
    BY <1>1, <2>2 DEF Fits
  <2>4. LockInv'
    BY <1>1, <2>2, LockIsLeft
  <2> QED
    BY <1>1, <2>1, <2>2, <2>3, <2>4, RequestMoves
<1>3. CASE AddSelect(r) /\ ~(Cardinality(ActiveRow) > 1)
  <2> DEFINE x == [req[r] EXCEPT !.at = "commit", !.rows = ActiveRow]
  <2>1. req' = [req EXCEPT ![r] = x]
    BY <1>3 DEF AddSelect, CartInv, RequestTypes
  <2>2. x \in CartRequest /\ x.at = "commit" /\ x.items = req[r].items /\ x.rows = ActiveRow
    BY <1>1 DEF CartRequest
  <2> HIDE DEF x
  <2>3. Fits(r, x)
    BY <1>1, <2>2 DEF Fits
  <2>4. ASSUME Serially PROVE FitsAlone(r, x, cache)
    <3>1. req[r].at = "select"
      BY <1>3 DEF AddSelect
    <3> QED
      BY <1>1, <2>2, <2>4, <3>1 DEF FitsAlone, Underway, CartInv, SerialInv
  <2>5. LockInv'
    BY <1>1, <2>1, <2>2, LockIsLeft
  <2> QED
    BY <1>1, <2>1, <2>3, <2>4, <2>5, RequestMoves
<1>4. CASE Claim(r) /\ (KeyOf[r] \in keys \/ ActiveRow = {})
  <2>1. PICK x \in CartRequest : req' = [req EXCEPT ![r] = x] /\ x.at = "release" /\ x.rows \subseteq DOMAIN rows
    BY <1>4, GoesTo DEF Claim
  <2>2. Fits(r, x) /\ (Serially => FitsAlone(r, x, cache))
    <3>1. req[r].at = "claim"
      BY <1>4 DEF Claim
    <3> QED
      BY <1>1, <2>1, <3>1 DEF Fits, FitsAlone, Underway
  <2>3. LockInv'
    BY <1>1, <2>1, LockIsLeft
  <2> QED
    BY <1>1, <2>1, <2>2, <2>3, RequestMoves
<1>5. CASE Claim(r) /\ ~(KeyOf[r] \in keys \/ ActiveRow = {})
  <2> DEFINE x == [req[r] EXCEPT !.at = "claimed", !.rows = ActiveRow]
  <2>1. req' = [req EXCEPT ![r] = x] /\ req[r].at = "claim" /\ Claimed \cap ActiveRow = {}
    BY <1>5 DEF Claim, CartInv, RequestTypes
  <2>2. x \in CartRequest /\ x.at = "claimed" /\ x.items = req[r].items /\ x.rows = ActiveRow
    BY <1>1 DEF CartRequest
  <2> HIDE DEF x
  <2>3. \A s \in Requests : req[s].at = "claimed" => req[s].rows \subseteq Claimed
    BY DEF Claimed
  <2>4. Fits(r, x) /\ (Serially => FitsAlone(r, x, cache))
    BY <1>1, <2>1, <2>2, <2>3 DEF Fits, FitsAlone, Underway
  <2>5. LockInv'
    BY <1>1, <2>1, <2>2, LockIsLeft
  <2> QED
    BY <1>1, <2>1, <2>4, <2>5, RequestMoves
<1> QED
  BY <1>2, <1>3, <1>4, <1>5

(* The finally block of checkout_cart; a request that fails or dies.         *)
LEMMA EndKeeps ==
  ASSUME CartInv, NEW r \in Requests, Release(r) \/ Fails(r) \/ RequestDies(r)
  PROVE  CartInv'
<1>1. /\ cache \in CacheValue /\ r \in Running
      /\ UNCHANGED <<setting, cache, rows, keys, orders, live>>
  BY DEF CartInv, RequestTypes, CacheValue, Release, Fails, RequestDies, Running
<1>2. CASE Release(r)
  <2>1. PICK x \in CartRequest : req' = [req EXCEPT ![r] = x] /\ x.at = "done" /\ x.rows \subseteq DOMAIN rows
    BY <1>2, GoesTo DEF Release
  <2>2. /\ req[r].at = "release" /\ lock' = (IF lock = r THEN NoRequest ELSE lock)
        /\ lease' = lease \ {r}
    BY <1>2 DEF Release
  <2>3. Fits(r, x) /\ (Serially => FitsAlone(r, x, cache))
    BY <1>1, <2>1, <2>2 DEF Fits, FitsAlone, Underway
  <2>4. \A s \in Requests : req'[s] = IF s = r THEN x ELSE req[s]
    BY <2>1 DEF CartInv, RequestTypes
  <2>5. LockInv'
    BY <2>1, <2>2, <2>4 DEF CartInv, LockInv
  <2> QED
    BY <1>1, <2>1, <2>3, <2>5, RequestMoves
<1>3. CASE Fails(r) \/ RequestDies(r)
  <2>1. PICK where \in {"release", "done"} : Goes(r, where)
    BY <1>3 DEF Fails, RequestDies, Ending
  <2>2. PICK x \in CartRequest : req' = [req EXCEPT ![r] = x] /\ x.at = where /\ x.rows \subseteq DOMAIN rows
    BY <2>1, GoesTo
  <2>3. ~Serially /\ UNCHANGED <<lock, lease>>
    BY <1>3 DEF Fails, RequestDies, Serially
  <2>4. Fits(r, x)
    BY <2>2 DEF Fits
  <2>5. LockInv'
    BY <2>2, <2>3, LockIsLeft
  <2> QED
    BY <1>1, <2>2, <2>3, <2>4, <2>5, RequestMoves
<1> QED
  BY <1>2, <1>3

(* _rewarm, the SET of add_to_cart and the DEL of checkout_cart.             *)
LEMMA CacheKeeps ==
  ASSUME CartInv, NEW r \in Requests, Rewarm(r) \/ AddStore(r) \/ CacheDelete(r)
  PROVE  CartInv'
<1>1. /\ req[r] \in CartRequest /\ req[r].rows \subseteq DOMAIN rows /\ cache \in CacheValue
      /\ r \in Running
      /\ UNCHANGED <<setting, rows, keys, orders, live, lock, lease>>
  BY DEF CartInv, RequestTypes, CacheValue, Rewarm, AddStore, CacheDelete, Running
<1>2. CASE Rewarm(r)
  <2> DEFINE c == IF \E i \in req[r].rows : rows[i].aged THEN cache
                  ELSE [items |-> req[r].items, by |-> NoRequest]
  <2>1. req[r].at = "rewarm" /\ req[r].items \in Items /\ (Serially => req[r].items = live)
    BY <1>2 DEF Rewarm, CartInv, RequestTypes, SerialInv
  <2>2. cache' = c /\ c \in CacheValue
    BY <1>1, <1>2, <2>1 DEF Rewarm, CacheValue
  <2>3. PICK x \in CartRequest : req' = [req EXCEPT ![r] = x] /\ x.at = "done" /\ x.rows \subseteq DOMAIN rows
    BY <1>2, GoesTo DEF Rewarm
  <2>4. Fits(r, x)
    BY <2>3 DEF Fits
  <2>5. Serially => FitsAlone(r, x, c)
    BY <1>1, <2>1, <2>3 DEF FitsAlone, Underway
  <2>6. LockInv'
    BY <1>1, <2>3, LockIsLeft
  <2> HIDE DEF c
  <2> QED
    BY <1>1, <2>2, <2>3, <2>4, <2>5, <2>6, RequestMoves
<1>3. CASE AddStore(r)
  <2> DEFINE items == merge_item(req[r].items, ItemOf[r])
             c == [items |-> items, by |-> r]
             x == [req[r] EXCEPT !.items = items, !.at = "select"]
  <2>1. req[r].at = "store" /\ req[r].items \in Items /\ (Serially => req[r].items = live)
    BY <1>3 DEF AddStore, CartInv, RequestTypes, SerialInv
  <2>2. items \in Items
    BY <2>1, MergeIsACart
  <2>3. Serially => items = merge_item(live, ItemOf[r])
    BY <2>1
  <2>4. cache' = c /\ req' = [req EXCEPT ![r] = x]
    BY <1>3 DEF AddStore, CartInv, RequestTypes
  <2> HIDE DEF items
  <2>5. c \in CacheValue /\ c.by = r /\ c.items = items
    BY <2>2 DEF CacheValue
  <2>6. x \in CartRequest /\ x.at = "select" /\ x.items = items /\ x.rows = req[r].rows
    BY <1>1, <2>2 DEF CartRequest
  <2> HIDE DEF c, x
  <2>7. Fits(r, x)
    BY <1>1, <2>2, <2>6 DEF Fits
  <2>8. Serially => FitsAlone(r, x, c)
    BY <1>1, <2>3, <2>5, <2>6 DEF FitsAlone, Underway
  <2>9. LockInv'
    BY <1>1, <2>4, <2>6, LockIsLeft
  <2> QED
    BY <1>1, <2>4, <2>5, <2>7, <2>8, <2>9, RequestMoves
<1>4. CASE CacheDelete(r)
  <2>1. cache' = NoCart /\ NoCart \in CacheValue
    BY <1>4 DEF CacheDelete, CacheValue
  <2>2. PICK x \in CartRequest : req' = [req EXCEPT ![r] = x] /\ x.at = "release" /\ x.rows \subseteq DOMAIN rows
    BY <1>4, GoesTo DEF CacheDelete
  <2>3. Fits(r, x) /\ (Serially => FitsAlone(r, x, NoCart))
    BY <1>1, <2>2 DEF Fits, FitsAlone
  <2>4. LockInv'
    BY <1>1, <2>2, LockIsLeft
  <2> QED
    BY <1>1, <2>1, <2>2, <2>3, <2>4, RequestMoves
<1> QED
  BY <1>2, <1>3, <1>4

(* A step on the rows that makes none active that was not, and takes none    *)
(* that is claimed out of active.                                            *)
RowsFit ==
  /\ rows' \in Seq(CartRow) /\ DOMAIN rows \subseteq DOMAIN rows'
  /\ \A i \in DOMAIN rows : rows[i].status # "active" => rows'[i].status # "active"
  /\ req' \in [Requests -> CartRequest]
  /\ \A r \in Requests :
       /\ req'[r].rows \subseteq DOMAIN rows
       /\ req'[r].at \in {"rewarm", "store", "select", "commit", "claim", "claimed"} => req'[r].items \in Items
       /\ req'[r].at = "claimed" =>
            /\ req[r].at = "claimed" /\ req'[r].rows = req[r].rows
            /\ \A i \in req[r].rows : rows'[i].status = "active"

(* What a change of the rows keeps of the handover.                          *)
LEMMA RowsMove ==
  ASSUME CartInv, RowsFit, setting' = setting, cache' \in CacheValue, live' \in Items,
         keys' \subseteq Range(KeyOf), LockInv'
  PROVE  /\ RequestTypes'
         /\ \A i \in DOMAIN rows \ ActiveRow : i \in DOMAIN rows' \ ActiveRow'
         /\ orders' = orders => HandoverInv'
<1>1. RequestTypes'
  BY DEF CartInv, RequestTypes, RowsFit, CacheValue
<1>2. \A i \in DOMAIN rows \ ActiveRow : i \in DOMAIN rows' \ ActiveRow'
  BY DEF RowsFit, ActiveRow
<1>3. \A r \in Requests : req'[r].at = "claimed" => req'[r].rows \subseteq ActiveRow'
  BY DEF CartInv, HandoverInv, RowsFit, ActiveRow
<1>4. \A r, s \in Requests : r # s /\ req'[r].at = "claimed" /\ req'[s].at = "claimed" =>
        req'[r].rows \cap req'[s].rows = {}
  BY DEF CartInv, HandoverInv, RowsFit
<1>5. ASSUME orders' = orders PROVE HandoverInv'
  BY <1>2, <1>3, <1>4, <1>5 DEF CartInv, HandoverInv
<1> QED
  BY <1>1, <1>2, <1>5

(* Nobody is being served any more: what has to hold of rows and cache.      *)
LEMMA AloneAtRest ==
  ASSUME CartInv, \A s \in Requests : req'[s].at \in {"idle", "done"},
         \A i, k \in ActiveRow' : i = k,
         \A i \in ActiveRow' : ~rows'[i].aged => rows'[i].items = live',
         (\A i \in ActiveRow' : rows'[i].aged) => live' = None,
         cache' # NoCart => cache'.items = live' /\ cache'.by = NoRequest
  PROVE  SerialInv'
<1>1. Running' = {}
  BY DEF Running
<1> QED
  BY <1>1 DEF SerialInv, None

(* The commit of add_to_cart.                                                *)
LEMMA AddCommitKeeps ==
  ASSUME CartInv, NEW r \in Requests, AddCommit(r)
  PROVE  CartInv'
<1> DEFINE n == Len(rows)
           items == req[r].items
<1>0. rows \in Seq(CartRow) /\ n \in Nat /\ DOMAIN rows = 1 .. n
  BY DEF CartInv, RequestTypes
<1>1. /\ req[r].at = "commit" /\ items \in Items /\ req[r].rows \subseteq DOMAIN rows
      /\ rows \in Seq(CartRow) /\ n \in Nat /\ DOMAIN rows = 1 .. n /\ cache \in CacheValue
      /\ UNCHANGED <<setting, lock, lease, orders>>
  <2>1. req[r].at = "commit" /\ UNCHANGED <<setting, lock, lease, orders>>
    BY DEF AddCommit
  <2>2. items \in Items /\ req[r].rows \subseteq DOMAIN rows /\ cache \in CacheValue
    BY <2>1 DEF CartInv, RequestTypes, CacheValue
  <2> QED
    BY <1>0, <2>1, <2>2
<1>2. PICK x \in CartRequest : req' = [req EXCEPT ![r] = x] /\ x.at = "done" /\ x.rows \subseteq DOMAIN rows
  BY GoesTo DEF AddCommit
<1>3. \A s \in Requests : req'[s] = IF s = r THEN x ELSE req[s]
  BY <1>2 DEF CartInv, RequestTypes
<1>4. LockInv'
  BY <1>1, <1>2, LockIsLeft
<1>5. keys' \subseteq Range(KeyOf)
  <2>1. KeyOf[r] \in Range(KeyOf)
    BY CartConstants DEF Range
  <2> QED
    BY <2>1 DEF AddCommit, CartInv, RequestTypes
<1>6. live' = merge_item(live, ItemOf[r]) /\ live' \in Items
  BY MergeIsACart DEF AddCommit, CartInv, RequestTypes
<1>7. /\ cache' \in CacheValue
      /\ cache' # NoCart /\ cache.by = r => cache' = [items |-> cache.items, by |-> NoRequest]
      /\ cache' # NoCart => cache # NoCart
  BY <1>1 DEF AddCommit, CacheValue
<1>8. /\ rows' \in Seq(CartRow) /\ DOMAIN rows \subseteq DOMAIN rows'
      /\ \A i \in DOMAIN rows : rows'[i].status = rows[i].status
      /\ req[r].rows = {} => ActiveRow' = ActiveRow \cup {n + 1} /\ rows'[n + 1].items = items /\ ~rows'[n + 1].aged
      /\ req[r].rows # {} => /\ ActiveRow' = ActiveRow
                             /\ \A i \in req[r].rows : rows'[i].items = items /\ ~rows'[i].aged
  <2>1. CASE req[r].rows = {}
    <3> DEFINE new == [items |-> items, status |-> "active", aged |-> FALSE, stale |-> FALSE]
    <3>1. rows' = Append(rows, new) /\ new \in CartRow
      BY <1>1, <2>1 DEF AddCommit, CartRow
    <3>2. new.status = "active" /\ new.items = items /\ ~new.aged
      OBVIOUS
    <3> HIDE DEF new, items
    <3>3. /\ rows' \in Seq(CartRow) /\ Len(rows') = n + 1 /\ DOMAIN rows' = 1 .. n + 1 /\ rows'[n + 1] = new
          /\ \A i \in 1 .. n : rows'[i] = rows[i]
      <4>1. rows \in Seq(CartRow) /\ n = Len(rows) /\ n \in Nat
        BY <1>1
      <4>2. Append(rows, new) \in Seq(CartRow) /\ Len(Append(rows, new)) = n + 1
        BY <3>1, <4>1, Appended
      <4> QED BY <3>1, <4>1, <4>2, Appended
    <3>4. \A i : i \in 1 .. n + 1 <=> i \in 1 .. n \/ i = n + 1
      BY <1>1
    <3>5. ActiveRow' = ActiveRow \cup {n + 1}
      BY <1>1, <3>2, <3>3, <3>4 DEF ActiveRow
    <3> HIDE DEF n
    <3> QED
      BY <1>1, <2>1, <3>2, <3>3, <3>4, <3>5
  <2>2. CASE req[r].rows # {}
    <3> DEFINE f(i) == IF i \notin req[r].rows THEN rows[i]
                       ELSE [rows[i] EXCEPT !.items = items, !.aged = FALSE, !.stale = FALSE]
    <3>1. rows' = [i \in 1 .. n |-> f(i)]
      BY <1>1, <2>2 DEF AddCommit
    <3>2. \A i \in 1 .. n : f(i) \in CartRow /\ f(i).status = rows[i].status
      <4> SUFFICES ASSUME NEW i \in 1 .. n PROVE f(i) \in CartRow /\ f(i).status = rows[i].status
        OBVIOUS
      <4>1. rows[i] \in CartRow /\ items \in Items
        BY <1>1
      <4> HIDE DEF items
      <4> QED
        BY <4>1 DEF CartRow
    <3>3. \A i \in 1 .. n : i \in req[r].rows => f(i).items = items /\ f(i).aged = FALSE
      <4> SUFFICES ASSUME NEW i \in 1 .. n, i \in req[r].rows PROVE f(i).items = items /\ f(i).aged = FALSE
        OBVIOUS
      <4>1. rows[i] \in CartRow
        BY <1>1
      <4> HIDE DEF items
      <4> QED
        BY <4>1 DEF CartRow
    <3> HIDE DEF f, items
    <3>4. rows' \in Seq(CartRow) /\ DOMAIN rows' = 1 .. n /\ \A i \in 1 .. n : rows'[i] = f(i)
      <4>1. rows' \in [1 .. n -> CartRow] /\ n \in Nat
        BY <1>1, <3>1, <3>2
      <4> QED BY <3>1, <4>1, Listed
    <3>5. ActiveRow' = ActiveRow
      BY <1>1, <3>2, <3>4 DEF ActiveRow
    <3> QED
      BY <1>1, <2>2, <3>2, <3>3, <3>4, <3>5
  <2> QED
    BY <2>1, <2>2
<1>9. RowsFit
  <2>1. req' \in [Requests -> CartRequest]
    BY <1>2 DEF CartInv, RequestTypes
  <2>2. \A s \in Requests : req'[s].at = "claimed" =>
          /\ req[s].at = "claimed" /\ req'[s].rows = req[s].rows
          /\ \A i \in req[s].rows : rows'[i].status = "active"
    BY <1>2, <1>3, <1>8 DEF CartInv, HandoverInv, ActiveRow
  <2> QED
    BY <1>2, <1>3, <1>8, <2>1, <2>2 DEF RowsFit, CartInv, RequestTypes
<1>10. ASSUME Serially PROVE SerialInv'
  <2>1. /\ items = live' /\ req[r].rows = ActiveRow
        /\ cache # NoCart => cache.by = r /\ cache.items = items
        /\ \A i, k \in ActiveRow : i = k
    BY <1>1, <1>6, <1>10 DEF CartInv, SerialInv
  <2>2. \A s \in Requests : req'[s].at \in {"idle", "done"}
    <3>1. r \in Running
      BY <1>1 DEF Running
    <3>2. \A s \in Requests \ {r} : s \notin Running
      BY <1>10, <3>1 DEF CartInv, SerialInv
    <3> QED
      BY <1>2, <1>3, <3>2 DEF Running
  <2>3. cache' # NoCart => cache'.items = live' /\ cache'.by = NoRequest
    BY <1>7, <2>1
  <2>4. CASE req[r].rows = {}
    <3>1. ActiveRow' = {n + 1} /\ rows'[n + 1].items = live' /\ ~rows'[n + 1].aged
      BY <1>8, <2>1, <2>4
    <3> HIDE DEF n
    <3> QED
      BY <2>2, <2>3, <3>1, AloneAtRest
  <2>5. CASE req[r].rows # {}
    <3>1. ActiveRow' = ActiveRow /\ ActiveRow # {} /\ \A i \in ActiveRow : rows'[i].items = live' /\ ~rows'[i].aged
      BY <1>8, <2>1, <2>5
    <3> QED
      BY <2>1, <2>2, <2>3, <3>1, AloneAtRest
  <2> QED
    BY <2>4, <2>5
<1>11. RequestTypes' /\ HandoverInv'
  BY <1>1, <1>4, <1>5, <1>6, <1>7, <1>9, RowsMove
<1> QED
  BY <1>1, <1>4, <1>10, <1>11 DEF CartInv, Serially

(* The commit of checkout_cart: the rows it claimed are handed over.         *)
LEMMA CheckoutCommitKeeps ==
  ASSUME CartInv, NEW r \in Requests, CheckoutCommit(r)
  PROVE  CartInv'
<1> DEFINE n == Len(rows)
           mine == req[r].rows
<1>0. rows \in Seq(CartRow) /\ n \in Nat /\ DOMAIN rows = 1 .. n
  BY DEF CartInv, RequestTypes
<1>1. /\ req[r].at = "claimed" /\ mine \subseteq ActiveRow /\ ActiveRow \subseteq DOMAIN rows
      /\ cache \in CacheValue /\ UNCHANGED <<setting, cache, lock, lease>>
  BY DEF CheckoutCommit, CartInv, HandoverInv, RequestTypes, CacheValue, ActiveRow
<1>2. PICK x \in CartRequest : req' = [req EXCEPT ![r] = x] /\ x.at = "delete" /\ x.rows \subseteq DOMAIN rows
  BY GoesTo DEF CheckoutCommit
<1>3. \A s \in Requests : req'[s] = IF s = r THEN x ELSE req[s]
  BY <1>2 DEF CartInv, RequestTypes
<1>4. LockInv'
  BY <1>1, <1>2, LockIsLeft
<1>5. keys' \subseteq Range(KeyOf)
  <2>1. KeyOf[r] \in Range(KeyOf)
    BY CartConstants DEF Range
  <2> QED
    BY <2>1 DEF CheckoutCommit, CartInv, RequestTypes
<1>6. live' = None /\ live' \in Items
  BY DEF CheckoutCommit, None, Items
<1>7. /\ rows' \in Seq(CartRow) /\ DOMAIN rows' = DOMAIN rows
      /\ \A i \in DOMAIN rows : rows'[i].status = IF i \in mine THEN "checkout_in_progress" ELSE rows[i].status
  <2> DEFINE f(i) == IF i \notin mine THEN rows[i]
                     ELSE [rows[i] EXCEPT !.status = "checkout_in_progress", !.stale = FALSE]
  <2>1. rows' = [i \in 1 .. n |-> f(i)]
    BY <1>0 DEF CheckoutCommit
  <2>2. \A i \in 1 .. n : f(i) \in CartRow /\ f(i).status = IF i \in mine THEN "checkout_in_progress" ELSE rows[i].status
    <3> SUFFICES ASSUME NEW i \in 1 .. n
                 PROVE  f(i) \in CartRow /\ f(i).status = IF i \in mine THEN "checkout_in_progress" ELSE rows[i].status
      OBVIOUS
    <3>1. rows[i] \in CartRow
      BY <1>0
    <3> HIDE DEF mine
    <3> QED
      BY <3>1 DEF CartRow
  <2> HIDE DEF f, mine
  <2>3. rows' \in Seq(CartRow) /\ DOMAIN rows' = 1 .. n /\ \A i \in 1 .. n : rows'[i] = f(i)
    <3>1. rows' \in [1 .. n -> CartRow] /\ n \in Nat
      BY <1>0, <2>1, <2>2
    <3> QED BY <2>1, <3>1, Listed
  <2> QED
    BY <1>0, <2>2, <2>3
<1>8. ActiveRow' = ActiveRow \ mine
  BY <1>7 DEF ActiveRow
<1>9. RowsFit
  <2>1. req' \in [Requests -> CartRequest]
    BY <1>2 DEF CartInv, RequestTypes
  <2>2. \A s \in Requests : req'[s].at = "claimed" =>
          /\ s # r /\ req[s].at = "claimed" /\ req'[s].rows = req[s].rows
          /\ req[s].rows \cap mine = {} /\ req[s].rows \subseteq ActiveRow
    BY <1>1, <1>2, <1>3 DEF CartInv, HandoverInv
  <2>3. \A s \in Requests : req'[s].at = "claimed" => \A i \in req[s].rows : rows'[i].status = "active"
    BY <1>7, <2>2 DEF ActiveRow
  <2> QED
    BY <1>2, <1>3, <1>7, <2>1, <2>2, <2>3 DEF RowsFit, CartInv, RequestTypes
<1>10. RequestTypes' /\ \A i \in DOMAIN rows \ ActiveRow : i \in DOMAIN rows' \ ActiveRow'
  BY <1>1, <1>4, <1>5, <1>6, <1>9, RowsMove
<1>11. HandoverInv'
  <2> DEFINE o == [items |-> req[r].items, rows |-> mine]
             m == Len(orders)
  <2>1. orders' = Append(orders, o) /\ o.rows = mine
    BY DEF CheckoutCommit
  <2>2. PICK S : orders \in Seq(S)
    BY DEF CartInv, HandoverInv
  <2> HIDE DEF o
  <2>3. /\ orders' \in Seq(S \cup {o}) /\ Len(orders') = m + 1 /\ orders'[m + 1] = o /\ m \in Nat
        /\ \A j \in 1 .. m : orders'[j] = orders[j]
    <3>1. orders \in Seq(S \cup {o}) /\ o \in S \cup {o}
      BY <2>2
    <3> QED
      BY <2>1, <3>1, Appended
  <2>4. \A j \in 1 .. m + 1 : j \in 1 .. m \/ j = m + 1
    BY <2>3
  <2>5. \A j \in 1 .. m : orders'[j].rows \subseteq DOMAIN rows \ ActiveRow
    BY <2>3 DEF CartInv, HandoverInv
  <2>6. mine \subseteq DOMAIN rows' \ ActiveRow'
    BY <1>1, <1>7, <1>8
  <2> HIDE DEF m, mine
  <2>7. \A j \in 1 .. m + 1 : orders'[j].rows \subseteq DOMAIN rows' \ ActiveRow'
    BY <1>10, <2>1, <2>3, <2>4, <2>5, <2>6
  <2>8. \A j, k \in 1 .. m : j # k => orders'[j].rows \cap orders'[k].rows = {}
    BY <2>3 DEF CartInv, HandoverInv, m
  <2>9. \A j \in 1 .. m : orders'[j].rows \cap mine = {}
    BY <1>1, <2>5
  <2>10. \A j, k \in 1 .. m + 1 : j # k => orders'[j].rows \cap orders'[k].rows = {}
    BY <2>1, <2>3, <2>4, <2>8, <2>9
  <2>11. \A s \in Requests : req'[s].at = "claimed" => req'[s].rows \subseteq ActiveRow'
    BY <1>9 DEF CartInv, HandoverInv, RowsFit, ActiveRow
  <2>12. \A s, t \in Requests : s # t /\ req'[s].at = "claimed" /\ req'[t].at = "claimed" =>
           req'[s].rows \cap req'[t].rows = {}
    BY <1>9 DEF CartInv, HandoverInv, RowsFit
  <2> QED
    BY <2>3, <2>7, <2>10, <2>11, <2>12 DEF HandoverInv
<1>12. ASSUME Serially PROVE SerialInv'
  <2>1. r \in Running /\ mine = ActiveRow
    BY <1>1, <1>12 DEF CartInv, SerialInv, Running
  <2>2. ActiveRow' = {}
    BY <1>8, <2>1
  <2>3. \A s \in Requests \ {r} : req'[s].at \in {"idle", "done"}
    BY <1>3, <1>12, <2>1 DEF CartInv, SerialInv, Running
  <2>4. Running' = {r} /\ req'[r].at = "delete"
    BY <1>2, <1>3, <2>3 DEF Running
  <2> QED
    BY <1>6, <2>2, <2>3, <2>4 DEF SerialInv, None
<1> QED
  BY <1>1, <1>4, <1>10, <1>11, <1>12 DEF CartInv, Serially

(* The lock reaches its TTL, or Redis loses the cart.                        *)
LEMMA LapseKeeps == CartInv /\ (LockLapses \/ Evict) => CartInv'
<1> SUFFICES ASSUME CartInv, LockLapses \/ Evict PROVE CartInv'
  OBVIOUS
<1>1. UNCHANGED <<setting, rows, keys, req, orders, live>>
  BY DEF LockLapses, Evict
<1>2. Running' = Running /\ ActiveRow' = ActiveRow
  BY <1>1 DEF Running, ActiveRow
<1>3. cache' = cache \/ cache' = NoCart
  BY DEF LockLapses, Evict
<1>4. LockInv'
  BY <1>1 DEF CartInv, LockInv, LockLapses, Evict
<1>5. RequestTypes' /\ HandoverInv'
  BY <1>1, <1>2, <1>3 DEF CartInv, RequestTypes, HandoverInv
<1>6. Serially => SerialInv'
  BY <1>1, <1>2, <1>3 DEF CartInv, SerialInv, merge_item, None
<1> QED
  BY <1>1, <1>4, <1>5, <1>6 DEF CartInv, Serially

(* Steps of time and of the sweeper: only rows change, and what is claimed   *)
(* stays active.                                                             *)
LEMMA RowsOnly ==
  ASSUME CartInv, UNCHANGED <<setting, cache, keys, lock, lease, req, orders>>, live' \in Items,
         rows' \in Seq(CartRow), DOMAIN rows' = DOMAIN rows,
         \A i \in DOMAIN rows : rows[i].status # "active" => rows'[i].status # "active",
         \A i \in Claimed : rows'[i].status = "active",
         Serially => SerialInv'
  PROVE  CartInv'
<1>1. LockInv'
  BY DEF CartInv, LockInv
<1>2. \A r \in Requests : req[r].at = "claimed" => req[r].rows \subseteq Claimed
  BY DEF Claimed
<1>3. RowsFit
  BY <1>2 DEF CartInv, RequestTypes, RowsFit
<1>4. cache' \in CacheValue /\ keys' \subseteq Range(KeyOf)
  BY DEF CartInv, RequestTypes, CacheValue
<1>5. RequestTypes' /\ HandoverInv'
  BY <1>1, <1>3, <1>4, RowsMove
<1> QED
  BY <1>1, <1>5 DEF CartInv, Serially

(* Claimed rows are active.                                                  *)
LEMMA ClaimedAreActive == CartInv => Claimed \subseteq ActiveRow
BY DEF CartInv, HandoverInv, Claimed

(* Between requests the cache is empty or repeats the row.                   *)
LEMMA CacheAtRest ==
  CartInv /\ Serially /\ Running = {} => (cache # NoCart => cache.items = live /\ cache.by = NoRequest)
BY DEF CartInv, SerialInv

(* CART_TTL passes.                                                          *)
LEMMA AgeKeeps ==
  ASSUME CartInv, NEW i \in DOMAIN rows, Age(i)
  PROVE  CartInv'
<1>1. /\ UNCHANGED <<setting, cache, keys, lock, lease, req, orders>> /\ live' = None
      /\ rows[i].status = "active" /\ rows' = [rows EXCEPT ![i].aged = TRUE]
      /\ cache # NoCart => cache.by # NoRequest
      /\ setting.overlap \/ Running = {}
  BY DEF Age
<1>2. live' \in Items /\ rows \in Seq(CartRow) /\ rows[i] \in CartRow
  BY <1>1 DEF None, Items, CartInv, RequestTypes
<1> DEFINE new == [rows[i] EXCEPT !.aged = TRUE]
<1>3. new \in CartRow /\ new.status = rows[i].status /\ new.aged
  BY <1>2 DEF CartRow
<1>4. rows' = [rows EXCEPT ![i] = new]
  BY <1>1
<1> HIDE DEF new
<1>5. /\ rows' \in Seq(CartRow) /\ DOMAIN rows' = DOMAIN rows
      /\ \A k \in DOMAIN rows : rows'[k] = IF k = i THEN new ELSE rows[k]
  BY <1>2, <1>3, <1>4
<1>6. \A k \in DOMAIN rows : rows'[k].status = rows[k].status
  BY <1>3, <1>5
<1>7. \A k \in Claimed : rows'[k].status = "active"
  BY <1>6, ClaimedAreActive DEF ActiveRow
<1>8. ASSUME Serially PROVE SerialInv'
  <2>1. Running = {} /\ cache = NoCart
    BY <1>1, <1>8, CacheAtRest DEF Serially
  <2>2. ActiveRow' = ActiveRow /\ i \in ActiveRow
    BY <1>1, <1>5, <1>6 DEF ActiveRow
  <2>3. \A k \in ActiveRow : rows'[k].aged
    BY <1>3, <1>5, <1>8, <2>2 DEF CartInv, SerialInv
  <2>4. \A s \in Requests : req'[s].at \in {"idle", "done"}
    BY <1>1, <2>1 DEF Running
  <2> QED
    BY <1>1, <1>8, <2>1, <2>2, <2>3, <2>4, AloneAtRest DEF CartInv, SerialInv
<1> QED
  BY <1>1, <1>2, <1>5, <1>6, <1>7, <1>8, RowsOnly

(* Ten minutes in checkout_in_progress.                                      *)
LEMMA TenMinutesKeeps ==
  ASSUME CartInv, NEW i \in DOMAIN rows, TenMinutes(i)
  PROVE  CartInv'
<1>1. /\ UNCHANGED <<setting, cache, keys, lock, lease, req, orders, live>>
      /\ rows[i].status = "checkout_in_progress" /\ rows' = [rows EXCEPT ![i].stale = TRUE]
  BY DEF TenMinutes
<1>2. live' \in Items /\ rows \in Seq(CartRow) /\ rows[i] \in CartRow
  BY <1>1 DEF CartInv, RequestTypes
<1> DEFINE new == [rows[i] EXCEPT !.stale = TRUE]
<1>3. new \in CartRow /\ new.status = rows[i].status
  BY <1>2 DEF CartRow
<1>4. rows' = [rows EXCEPT ![i] = new]
  BY <1>1
<1> HIDE DEF new
<1>5. /\ rows' \in Seq(CartRow) /\ DOMAIN rows' = DOMAIN rows
      /\ \A k \in DOMAIN rows : rows'[k] = IF k = i THEN new ELSE rows[k]
  BY <1>2, <1>3, <1>4
<1>6. \A k \in DOMAIN rows : rows'[k].status = rows[k].status
  BY <1>3, <1>5
<1>7. \A k \in Claimed : rows'[k].status = "active"
  BY <1>6, ClaimedAreActive DEF ActiveRow
<1>8. ASSUME Serially PROVE SerialInv'
  <2>1. ActiveRow' = ActiveRow /\ i \notin ActiveRow /\ Running' = Running
    BY <1>1, <1>5, <1>6 DEF ActiveRow, Running
  <2>2. \A k \in ActiveRow : rows'[k] = rows[k]
    BY <1>5, <2>1 DEF ActiveRow
  <2> QED
    BY <1>1, <1>8, <2>1, <2>2 DEF CartInv, SerialInv, merge_item, None
<1> QED
  BY <1>1, <1>2, <1>5, <1>6, <1>7, <1>8, RowsOnly

(* The sweeps: rows whose cart is over, and checkouts that are.              *)
LEMMA SweepKeeps == CartInv /\ cart_sweeper_loop => CartInv'
<1> SUFFICES ASSUME CartInv, cart_sweeper_loop PROVE CartInv'
  OBVIOUS
<1>1. PICK due \in SUBSET DOMAIN rows :
        Expire(due) /\ \A i \in due : rows[i].status = "active" => rows[i].aged
  BY DEF cart_sweeper_loop, SweepTtl, SweepStaleCheckout, ActiveRow
<1> DEFINE n == Len(rows)
           f(i) == IF i \in due THEN [rows[i] EXCEPT !.status = "expired"] ELSE rows[i]
<1>2. /\ UNCHANGED <<setting, cache, keys, lock, lease, req, orders, live>>
      /\ due \cap Claimed = {} /\ (setting.overlap \/ Running = {})
      /\ rows' = [i \in DOMAIN rows |-> f(i)]
  BY <1>1 DEF Expire
<1>3. live' \in Items /\ rows \in Seq(CartRow) /\ n \in Nat /\ DOMAIN rows = 1 .. n
  BY <1>2 DEF CartInv, RequestTypes
<1>4. \A i \in 1 .. n : f(i) \in CartRow /\ (i \in due => f(i).status = "expired") /\ (i \notin due => f(i) = rows[i])
  <2> SUFFICES ASSUME NEW i \in 1 .. n
               PROVE  f(i) \in CartRow /\ (i \in due => f(i).status = "expired") /\ (i \notin due => f(i) = rows[i])
    OBVIOUS
  <2>1. rows[i] \in CartRow
    BY <1>3
  <2> QED
    BY <2>1 DEF CartRow
<1> HIDE DEF f
<1>5. rows' \in Seq(CartRow) /\ DOMAIN rows' = DOMAIN rows /\ \A i \in DOMAIN rows : rows'[i] = f(i)
  <2>1. rows' \in [1 .. n -> CartRow] /\ n \in Nat
    BY <1>2, <1>3, <1>4
  <2> QED BY <1>2, <1>3, <2>1, Listed
<1>6. \A i \in DOMAIN rows : rows[i].status # "active" => rows'[i].status # "active"
  BY <1>3, <1>4, <1>5
<1>7. \A k \in Claimed : rows'[k].status = "active"
  BY <1>2, <1>3, <1>4, <1>5, ClaimedAreActive DEF ActiveRow
<1>8. ASSUME Serially PROVE SerialInv'
  <2>1. Running = {}
    BY <1>2, <1>8 DEF Serially
  <2>2. ActiveRow' = ActiveRow \ due
    BY <1>3, <1>4, <1>5 DEF ActiveRow
  <2>3. \A k \in ActiveRow' : rows'[k] = rows[k]
    BY <1>3, <1>4, <1>5, <2>2 DEF ActiveRow
  <2>4. \A k \in ActiveRow \ ActiveRow' : rows[k].aged
    BY <1>1, <2>2 DEF ActiveRow
  <2>5. \A s \in Requests : req'[s].at \in {"idle", "done"}
    BY <1>2, <2>1 DEF Running
  <2>6. (\A k \in ActiveRow' : rows'[k].aged) => live' = None
    BY <1>2, <1>8, <2>2, <2>3, <2>4 DEF CartInv, SerialInv
  <2> QED
    BY <1>2, <1>8, <2>1, <2>2, <2>3, <2>5, <2>6, AloneAtRest, CacheAtRest DEF CartInv, SerialInv
<1> QED
  BY <1>2, <1>3, <1>5, <1>6, <1>7, <1>8, RowsOnly

(* The invariant behind the next theorem, over adds, reads, checkouts, the   *)
(* expiry of the lock and the sweeps (cart_service, checkout_lock).          *)
THEOREM CartInvariant == CartSpec => []CartInv
<1>1. CartInv /\ [CartNext]_cartVars => CartInv'
  <2> SUFFICES ASSUME CartInv, [CartNext]_cartVars PROVE CartInv'
    OBVIOUS
  <2>1. CASE UNCHANGED cartVars
    <3>1. RequestTypes' /\ LockInv'
      BY <2>1 DEF cartVars, CartInv, RequestTypes, LockInv
    <3>2. ActiveRow' = ActiveRow /\ Running' = Running
      BY <2>1 DEF cartVars, ActiveRow, Running
    <3>3. HandoverInv' /\ (Serially => SerialInv')
      BY <2>1, <3>2 DEF cartVars, CartInv, HandoverInv, SerialInv, merge_item, None
    <3> QED
      BY <2>1, <3>1, <3>3 DEF cartVars, CartInv, Serially
  <2>2. ASSUME NEW r \in Requests, Step(r) \/ Fails(r) \/ RequestDies(r) PROVE CartInv'
    BY <2>2, BeginKeeps, ResolveKeeps, SelectKeeps, CacheKeeps, AddCommitKeeps, CheckoutCommitKeeps, EndKeeps
       DEF Step
  <2> QED
    BY <2>1, <2>2, LapseKeeps, AgeKeeps, TenMinutesKeeps, SweepKeeps DEF CartNext
<1> QED
  BY <1>1, InitCart, PTL DEF CartSpec

(* The cart is sound, for any requests and products: a checkout's lock is    *)
(* its own until it lapses, no cart is handed over twice even when it does,  *)
(* and alone the cart shown is what was added.                               *)
THEOREM CartStaysSound == CartSpec => []CartIsSound
<1>1. CartInv => CartIsSound
  <2> SUFFICES ASSUME CartInv PROVE CartIsSound
    OBVIOUS
  <2>1. CartTypeOK
    <3>1. \A i \in DOMAIN rows : rows[i] \in CartRow
      <4>1. rows \in Seq(CartRow)
        BY DEF CartInv, RequestTypes
      <4> QED BY ONLY <4>1
    <3>2. \A i \in DOMAIN rows : rows[i].status \in {"active", "checkout_in_progress", "expired"}
      BY <3>1 DEF CartRow
    <3>3. cache # NoCart => cache.by \in Requests \cup {NoRequest}
      BY DEF CartInv, RequestTypes
    <3> QED
      BY <3>2, <3>3 DEF CartInv, RequestTypes, LockInv, CartTypeOK
  <2>2. LeaseIsHonoured
    BY DEF CartInv, LockInv, LeaseIsHonoured
  <2>3. HandedOverOnce
    <3>1. DOMAIN orders = 1 .. Len(orders)
      BY DEF CartInv, HandoverInv
    <3> QED
      BY <3>1 DEF CartInv, HandoverInv, HandedOverOnce
  <2>4. CartIsWhatWasAdded
    <3> SUFFICES ASSUME Serially, Running = {}
                 PROVE  resolve_cart(IF cache = NoCart THEN NoCart ELSE cache.items, ActiveRow).items = live
      BY DEF CartIsWhatWasAdded, Serially
    <3>1. cache # NoCart => cache.items = live
      BY CacheAtRest
    <3>2. live \in Items
      BY DEF CartInv, RequestTypes
    <3> QED
      BY <3>1, <3>2, Resolved
  <2> QED
    BY <2>1, <2>2, <2>3, <2>4 DEF CartIsSound
<1> QED
  BY <1>1, CartInvariant, PTL

=============================================================================

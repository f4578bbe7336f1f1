------------------------- MODULE OfflineQueueProofs -------------------------
(***************************************************************************)
(* IInv is an inductive invariant of OfflineQueue, for any sets of clients *)
(* and keys and any bounds.  Its parts TypeOK, OneRowPerTarget,            *)
(* SnapshotIdsStable, DeadLettersNotReplayed and DroppedOnlyIfRaced are    *)
(* the invariants the runs check; IdsIdentify and ChangedIsRaced are what  *)
(* makes them inductive.                                                   *)
(*                                                                         *)
(* The queue implements Mailbox under the same terms: the lemmas say what  *)
(* each storage operation does to what is kept for a target, and the steps *)
(* then follow from IInv and SnapshotCovers.                               *)
(***************************************************************************)
EXTENDS OfflineQueue, WellFoundedInduction, TLAPS

(* ---- the storage operations ---- *)

\* A non-empty set of naturals has a least element.
LEMMA LeastNatural ==
  ASSUME NEW I \in SUBSET Nat, I # {}
  PROVE  \E n \in I : \A m \in I : n <= m
<1>1. PICK n \in I : \A m \in I : ~ (<<m, n>> \in OpToRel(<, Nat))
  BY NatLessThanWellFounded, WFMin
<1>2. \A m \in I : ~(m < n)
  BY <1>1 DEF OpToRel
<1>3. n \in Nat /\ \A m \in I : m \in Nat
  OBVIOUS
<1>4. QED
  BY <1>2, <1>3

\* The drain loop's choice of a row is a row of the snapshot: a non-empty set
\* of rows has one with the least id.
LEMMA OldestIsMember ==
  ASSUME NEW S, S \subseteq Row, S # {}
  PROVE  Oldest(S) \in S /\ \A s \in S : Oldest(S).id <= s.id
<1>1. {r.id : r \in S} \in SUBSET Nat /\ {r.id : r \in S} # {}
  BY DEF Row
<1>2. PICK n \in {r.id : r \in S} : \A m \in {r.id : r \in S} : n <= m
  BY <1>1, LeastNatural
<1>3. \E r \in S : \A s \in S : r.id <= s.id
  BY <1>2
<1>4. QED
  BY <1>3 DEF Oldest

\* What enqueue leaves in the table: rows of other targets as they were, and
\* for the target either the existing row re-armed with the new payload, or a
\* new row with the new id.
LEMMA EnqueueRows ==
  ASSUME NEW R, R \subseteq Row, NEW i \in Nat, NEW c \in Clients, NEW k \in Keys,
         NEW p \in 1..MaxPush, NEW r \in Enqueue(R, i, c, k, p)
  PROVE  /\ r \in Row
         /\ \/ r \in R /\ ~For(r, c, k)
            \/ /\ For(r, c, k) /\ r.payload = p /\ r.status = "pending"
               /\ \E s \in R : For(s, c, k) /\ r = Rearmed(s, p)
               /\ \E s \in R : For(s, c, k) /\ r.id = s.id
            \/ /\ ~Conflict(R, c, k)
               /\ r = [id |-> i, client |-> c, key |-> k, payload |-> p, status |-> "pending"]
<1>1. CASE Conflict(R, c, k)
  <2>1. PICK s \in R : r = IF For(s, c, k) THEN Rearmed(s, p) ELSE s
    BY <1>1 DEF Enqueue
  <2>2. s \in Row
    OBVIOUS
  <2>3. CASE For(s, c, k)
    <3>1. r = Rearmed(s, p)
      BY <2>1, <2>3
    <3>2. r \in Row /\ r.id = s.id /\ r.client = s.client /\ r.key = s.key
          /\ r.payload = p /\ r.status = "pending"
      BY <2>2, <3>1 DEF Row, Status, Rearmed
    <3>3. QED
      BY <2>3, <3>1, <3>2 DEF For
  <2>4. CASE ~For(s, c, k)
    BY <2>1, <2>2, <2>4
  <2>5. QED
    BY <2>3, <2>4
<1>2. CASE ~Conflict(R, c, k)
  <2>1. r \in R \/ r = [id |-> i, client |-> c, key |-> k, payload |-> p, status |-> "pending"]
    BY <1>2 DEF Enqueue
  <2>2. CASE r \in R
    BY <1>2, <2>2 DEF Conflict
  <2>3. CASE r = [id |-> i, client |-> c, key |-> k, payload |-> p, status |-> "pending"]
    BY <1>2, <2>3 DEF Row, Status
  <2>4. QED
    BY <2>1, <2>2, <2>3
<1>3. QED
  BY <1>1, <1>2

\* Every payload of the table survives an enqueue or is the superseded one.
LEMMA EnqueueKeeps ==
  ASSUME NEW R, R \subseteq Row, NEW i \in Nat, NEW c \in Clients, NEW k \in Keys,
         NEW p \in 1..MaxPush
  PROVE  /\ \A r \in R : ~For(r, c, k) => r \in Enqueue(R, i, c, k, p)
         /\ \E r \in Enqueue(R, i, c, k, p) : r.payload = p
<1>1. CASE Conflict(R, c, k)
  <2>1. Enqueue(R, i, c, k, p)
          = {IF For(r, c, k) THEN Rearmed(r, p) ELSE r : r \in R}
    BY <1>1 DEF Enqueue
  <2>2. PICK s \in R : For(s, c, k)
    BY <1>1 DEF Conflict
  <2>3. Rearmed(s, p) \in Enqueue(R, i, c, k, p)
    BY <2>1, <2>2
  <2>4. Rearmed(s, p).payload = p
    BY DEF Row, Rearmed
  <2>5. QED
    BY <2>1, <2>3, <2>4
<1>2. CASE ~Conflict(R, c, k)
  <2> DEFINE new == [id |-> i, client |-> c, key |-> k, payload |-> p, status |-> "pending"]
  <2>1. Enqueue(R, i, c, k, p) = R \cup {new}
    BY <1>2 DEF Enqueue
  <2>2. new \in Enqueue(R, i, c, k, p) /\ new.payload = p
    BY <2>1
  <2>3. QED
    BY <2>1, <2>2
<1>3. QED
  BY <1>1, <1>2

\* markFailed changes only statuses.
LEMMA MarkFailedRows ==
  ASSUME NEW R, R \subseteq Row, NEW i \in Nat, NEW r \in MarkFailed(R, i)
  PROVE  /\ r \in Row
         /\ \E s \in R : /\ r.id = s.id /\ r.client = s.client /\ r.key = s.key
                         /\ r.payload = s.payload
                         /\ s.id # i => r = s
                         /\ r = IF s.id = i THEN [s EXCEPT !.status = "failed"] ELSE s
<1>1. PICK s \in R : r = IF s.id = i THEN [s EXCEPT !.status = "failed"] ELSE s
  BY DEF MarkFailed
<1>2. s \in Row
  OBVIOUS
<1>3. CASE s.id = i
  <2>1. r = [s EXCEPT !.status = "failed"]
    BY <1>1, <1>3
  <2>2. r \in Row /\ r.id = s.id /\ r.client = s.client /\ r.key = s.key /\ r.payload = s.payload
    BY <1>2, <2>1 DEF Row, Status
  <2>3. QED
    BY <1>1, <1>3, <2>2
<1>4. CASE s.id # i
  BY <1>1, <1>2, <1>4
<1>5. QED
  BY <1>3, <1>4

(* ---- the inductive invariant ---- *)

\* The inductive invariant holds when the server starts (startOfflineQueueDrainer).
LEMMA InitIInv == Init => IInv
<1> SUFFICES ASSUME Init PROVE IInv
  OBVIOUS
<1>1. 1..seq = {}
  BY DEF Init
<1>2. TypeOK
  <2>1. hung \in BOOLEAN
    BY DEF Init
  <2>2. QED
    BY <2>1, MaxPushAssumption, MaxCrashAssumption DEF Init, TypeOK
<1>3. QED
  BY <1>1, <1>2 DEF Init, IInv, OneRowPerTarget, SnapshotIdsStable, DeadLettersNotReplayed,
     DroppedOnlyIfRaced, IdsIdentify, ChangedIsRaced

\* A push starting adds an in-flight push and nothing else of interest.
LEMMA PushIInv ==
  ASSUME IInv, NEW c \in Clients, NEW k \in Keys, Push(c, k)
  PROVE  IInv'
<1> DEFINE new == [client |-> c, key |-> k, payload |-> seq + 1]
<1>1. new \in Action /\ new.payload = seq + 1 /\ pushes' = pushes \cup {new}
  BY MaxPushAssumption DEF IInv, TypeOK, Push, Action
<1>2. TypeOK'
  BY <1>1, MaxPushAssumption DEF IInv, TypeOK, Push
<1>3. InFlight \subseteq InFlight' /\ seq + 1 \in InFlight'
  BY <1>1 DEF InFlight
<1>4. 1..seq' \subseteq 1..seq \cup {seq + 1}
  BY DEF IInv, TypeOK, Push
<1>5. DroppedOnlyIfRaced'
  BY <1>3, <1>4 DEF IInv, DroppedOnlyIfRaced, Push, Stored
<1>6. QED
  BY <1>2, <1>5 DEF IInv, Push, OneRowPerTarget, SnapshotIdsStable, DeadLettersNotReplayed,
     IdsIdentify, ChangedIsRaced

\* A push delivered or rejected is settled.
LEMMA PushSettledIInv ==
  ASSUME IInv, NEW p \in pushes, PushDelivered(p) \/ PushRejected(p)
  PROVE  IInv'
<1> USE DEF PushDelivered, PushRejected
<1>1. p \in Action /\ p.payload \in 1..MaxPush
  BY DEF IInv, TypeOK, Action
<1>2. owed' \in [Clients \X Keys -> 0..MaxPush]
  BY MaxPushAssumption DEF IInv, TypeOK, Discharge
<1>3. TypeOK'
  BY <1>1, <1>2 DEF IInv, TypeOK
<1>4. InFlight \subseteq InFlight' \cup {p.payload}
  BY DEF InFlight
<1>5. DroppedOnlyIfRaced'
  BY <1>4 DEF IInv, DroppedOnlyIfRaced, Stored
<1>6. QED
  BY <1>3, <1>5 DEF IInv, OneRowPerTarget, SnapshotIdsStable, DeadLettersNotReplayed,
     IdsIdentify, ChangedIsRaced

\* A push deferred: the table gains the push, the superseded payload is
\* settled, and a row changed under the drainer is recorded as raced.
LEMMA PushDeferredIInv ==
  ASSUME IInv, NEW p \in pushes, PushDeferred(p)
  PROVE  IInv'
<1> DEFINE c == p.client
           k == p.key
           n == p.payload
<1>1. /\ c \in Clients /\ k \in Keys /\ n \in 1..MaxPush
      /\ rows \subseteq Row /\ batch \subseteq Row /\ nextId \in Nat
  BY DEF IInv, TypeOK, Action
<1>2. /\ rows' = Enqueue(rows, nextId, c, k, n)
      /\ nextId' = IF Conflict(rows, c, k) THEN nextId ELSE nextId + 1
      /\ batch' = batch
  BY DEF PushDeferred, NextId
<1> HIDE DEF c, k, n
<1>3. ASSUME NEW r \in rows'
      PROVE  /\ r \in Row
             /\ \/ r \in rows /\ ~For(r, c, k)
                \/ /\ For(r, c, k) /\ r.payload = n /\ r.status = "pending"
                   /\ \E s \in rows : For(s, c, k) /\ r = Rearmed(s, n)
                   /\ \E s \in rows : For(s, c, k) /\ r.id = s.id
                \/ /\ ~Conflict(rows, c, k)
                   /\ r = [id |-> nextId, client |-> c, key |-> k, payload |-> n, status |-> "pending"]
  BY <1>1, <1>2, <1>3, EnqueueRows
<1>4. /\ OneRowPerTarget /\ SnapshotIdsStable /\ DeadLettersNotReplayed /\ ChangedIsRaced
      /\ IdsIdentify /\ DroppedOnlyIfRaced
  BY DEF IInv
<1>5. TypeOK'
  <2>1. rows' \subseteq Row
    BY <1>3
  <2>2. nextId' \in Nat
    BY <1>1, <1>2
  <2>3. settled' \subseteq 1..MaxPush
    BY <1>1 DEF IInv, TypeOK, PushDeferred, Row
  <2>4. raced' \subseteq 1..MaxPush
    BY <1>1 DEF IInv, TypeOK, PushDeferred, n
  <2>5. QED
    BY <2>1, <2>2, <2>3, <2>4 DEF IInv, TypeOK, PushDeferred
<1>6. OneRowPerTarget'
  <2> SUFFICES ASSUME NEW r \in rows', NEW s \in rows', For(r, s.client, s.key)
               PROVE  r = s
    BY DEF OneRowPerTarget
  <2>1. CASE For(s, c, k)
    <3>1. For(r, c, k)
      BY <2>1 DEF For
    <3>2. CASE Conflict(rows, c, k)
      <4>1. PICK r0 \in rows : For(r0, c, k) /\ r = Rearmed(r0, n)
        BY <1>3, <3>1, <3>2
      <4>2. PICK s0 \in rows : For(s0, c, k) /\ s = Rearmed(s0, n)
        BY <1>3, <2>1, <3>2
      <4>3. r0 = s0
        BY <1>4, <4>1, <4>2 DEF OneRowPerTarget, For
      <4>4. QED
        BY <4>1, <4>2, <4>3
    <3>3. CASE ~Conflict(rows, c, k)
      BY <1>3, <2>1, <3>1, <3>3 DEF Conflict
    <3>4. QED
      BY <3>2, <3>3
  <2>2. CASE ~For(s, c, k)
    <3>1. ~For(r, c, k)
      BY <2>2 DEF For
    <3>2. \A x \in rows' : ~For(x, c, k) => x \in rows
      <4>1. For([id |-> nextId, client |-> c, key |-> k, payload |-> n, status |-> "pending"], c, k)
        BY DEF For
      <4>2. QED
        BY <1>3, <4>1
    <3>3. QED
      BY <1>4, <2>2, <3>1, <3>2 DEF OneRowPerTarget
  <2>3. QED
    BY <2>1, <2>2
\* The id of a row after the step is that of an old row of the same target, or new.
<1>7. ASSUME NEW r \in rows'
      PROVE  \/ \E s \in rows : /\ s.id = r.id /\ s.client = r.client /\ s.key = r.key
                                /\ (s = r \/ (For(s, c, k) /\ r.payload = n /\ r.status = "pending"))
             \/ /\ r.id = nextId /\ nextId' = nextId + 1 /\ For(r, c, k)
  <2>1. CASE r \in rows /\ ~For(r, c, k)
    BY <2>1
  <2>2. CASE /\ For(r, c, k) /\ r.payload = n /\ r.status = "pending"
             /\ \E s \in rows : For(s, c, k) /\ r.id = s.id
    BY <2>2 DEF For
  <2>3. CASE /\ ~Conflict(rows, c, k)
             /\ r = [id |-> nextId, client |-> c, key |-> k, payload |-> n, status |-> "pending"]
    BY <1>2, <2>3 DEF For
  <2>4. QED
    BY <1>3, <1>7, <2>1, <2>2, <2>3
<1>8. \A r \in rows \cup batch : r.id < nextId /\ r.id \in Nat
  BY <1>1, <1>4 DEF IdsIdentify, Row
<1>9. SnapshotIdsStable'
  <2> SUFFICES ASSUME NEW b \in batch, NEW r \in rows', r.id = b.id
               PROVE  For(r, b.client, b.key)
    BY <1>2 DEF SnapshotIdsStable
  <2>1. r.id < nextId
    BY <1>8
  <2>2. PICK s \in rows : s.id = r.id /\ s.client = r.client /\ s.key = r.key
    BY <1>1, <1>7, <2>1
  <2>3. QED
    BY <1>4, <2>2 DEF SnapshotIdsStable, For
<1>10. DeadLettersNotReplayed'
  <2> SUFFICES ASSUME NEW b \in batch, NEW r \in rows', r.id = b.id
               PROVE  r.status = "pending"
    BY <1>2 DEF DeadLettersNotReplayed
  <2>1. r.id < nextId
    BY <1>8
  <2>2. PICK s \in rows : s.id = r.id /\ (s = r \/ r.status = "pending")
    BY <1>1, <1>7, <2>1
  <2>3. QED
    BY <1>4, <2>2 DEF DeadLettersNotReplayed
<1>11. IdsIdentify'
  <2>1. ASSUME NEW r \in rows', NEW s \in rows', r.id = s.id
        PROVE  r = s
    <3>1. For(r, s.client, s.key)
      <4>1. CASE r.id = nextId
        <5>1. \A x \in rows : x.id # nextId
          BY <1>1, <1>8
        <5>2. For(r, c, k)
          BY <1>7, <4>1, <5>1
        <5>3. For(s, c, k)
          BY <1>7, <2>1, <4>1, <5>1
        <5>4. QED
          BY <5>2, <5>3 DEF For
      <4>2. CASE r.id # nextId
        <5>1. PICK r0 \in rows : r0.id = r.id /\ r0.client = r.client /\ r0.key = r.key
          BY <1>7, <4>2
        <5>2. PICK s0 \in rows : s0.id = s.id /\ s0.client = s.client /\ s0.key = s.key
          BY <1>7, <2>1, <4>2
        <5>3. r0 = s0
          BY <1>4, <2>1, <5>1, <5>2 DEF IdsIdentify
        <5>4. QED
          BY <5>1, <5>2, <5>3 DEF For
      <4>3. QED
        BY <4>1, <4>2
    <3>2. QED
      BY <1>6, <3>1 DEF OneRowPerTarget
  <2>2. \A r \in rows' \cup batch : r.id < nextId'
    BY <1>1, <1>2, <1>7, <1>8
  <2>3. QED
    BY <1>2, <1>4, <2>1, <2>2 DEF IdsIdentify
<1>12. ChangedIsRaced'
  <2> SUFFICES ASSUME NEW b \in batch, NEW r \in rows', r.id = b.id
               PROVE  r.payload = b.payload \/ r.payload \in raced'
    BY <1>2 DEF ChangedIsRaced
  <2>1. r.id < nextId
    BY <1>8
  <2>2. PICK s \in rows : /\ s.id = r.id
                          /\ s = r \/ (For(s, c, k) /\ r.payload = n)
    BY <1>1, <1>7, <2>1
  <2>3. CASE s = r
    BY <1>4, <2>2, <2>3 DEF ChangedIsRaced, PushDeferred
  <2>4. CASE For(s, c, k) /\ r.payload = n
    <3>1. For(b, c, k)
      BY <1>4, <2>2, <2>4 DEF SnapshotIdsStable, For
    <3>2. InDrain(c, k)
      BY <3>1 DEF InDrain
    <3>3. QED
      BY <2>4, <3>2 DEF PushDeferred, c, k, n
  <2>5. QED
    BY <2>2, <2>3, <2>4
<1>13. DroppedOnlyIfRaced'
  <2>1. InFlight \subseteq InFlight' \cup {n}
    BY DEF InFlight, PushDeferred, n
  <2>2. /\ \A r \in rows : ~For(r, c, k) => r \in rows'
        /\ \E r \in rows' : r.payload = n
    BY <1>1, <1>2, EnqueueKeeps
  <2>3. n \in Stored'
    BY <2>2 DEF Stored
  <2>4. Stored \subseteq Stored' \cup settled'
    BY <2>2 DEF Stored, PushDeferred, c, k
  <2>5. settled \subseteq settled' /\ raced \subseteq raced' /\ seq' = seq
    BY DEF PushDeferred
  <2>6. QED
    BY <1>4, <2>1, <2>3, <2>4, <2>5 DEF DroppedOnlyIfRaced
<1>14. QED
  BY <1>5, <1>6, <1>9, <1>10, <1>11, <1>12, <1>13 DEF IInv

\* A tick and a failed probe touch only the list of clients to visit.
LEMMA TickIInv ==
  ASSUME IInv, Tick \/ ProbeDown
  PROVE  IInv'
<1>1. todo' \subseteq Clients
  BY DEF IInv, TypeOK, Tick, ProbeDown, ClientsWithPending, Row
<1>2. /\ UNCHANGED <<enrolled, reach, rows, nextId, pushes, batch, seq, owed>>
      /\ UNCHANGED <<settled, raced, crashes, hung>>
  BY DEF Tick, ProbeDown
<1>3. QED
  BY <1>1, <1>2 DEF IInv, TypeOK, OneRowPerTarget, SnapshotIdsStable, DeadLettersNotReplayed,
     DroppedOnlyIfRaced, IdsIdentify, ChangedIsRaced, InFlight, Stored

\* The history update when the executor starts keeps its type.
LEMMA StartedType ==
  ASSUME NEW S, S \subseteq Row, owed \in [Clients \X Keys -> 0..MaxPush]
  PROVE  Started(S) \in [Clients \X Keys -> 0..MaxPush]
<1>1. 0 \in 0..MaxPush
  BY MaxPushAssumption
<1>2. QED
  BY <1>1 DEF Started

\* A snapshot consists of pending rows of the table.
LEMMA ProbeUpIInv ==
  ASSUME IInv, ProbeUp
  PROVE  IInv'
<1>1. PICK c : batch' = PendingFor(rows, c) /\ owed' = Started(PendingFor(rows, c))
  BY DEF ProbeUp
<1>2. batch' \subseteq rows /\ \A b \in batch' : b.status = "pending"
  BY <1>1 DEF PendingFor
<1>3. /\ UNCHANGED <<enrolled, reach, rows, nextId, pushes, seq>>
      /\ UNCHANGED <<settled, raced, crashes, hung>>
      /\ todo' \subseteq todo
  BY DEF ProbeUp
<1>4. TypeOK'
  <2>1. rows \subseteq Row /\ owed \in [Clients \X Keys -> 0..MaxPush]
    BY DEF IInv, TypeOK
  <2>2. owed' \in [Clients \X Keys -> 0..MaxPush]
    BY <1>1, <1>2, <2>1, StartedType
  <2>3. QED
    BY <1>2, <1>3, <2>2 DEF IInv, TypeOK
<1>5. \A b \in batch', r \in rows : r.id = b.id => r = b
  BY <1>2 DEF IInv, IdsIdentify
<1>6. SnapshotIdsStable' /\ DeadLettersNotReplayed' /\ ChangedIsRaced'
  BY <1>2, <1>3, <1>5 DEF SnapshotIdsStable, DeadLettersNotReplayed, ChangedIsRaced, For
<1>7. IdsIdentify'
  BY <1>2, <1>3 DEF IInv, IdsIdentify
<1>8. QED
  BY <1>3, <1>4, <1>6, <1>7 DEF IInv, OneRowPerTarget, DroppedOnlyIfRaced, InFlight, Stored

\* Success: the row with the executing id is deleted.  Its payload is the one
\* executed, or raced.
LEMMA DrainSucceedsIInv ==
  ASSUME IInv, DrainSucceeds
  PROVE  IInv'
<1>1. batch \subseteq Row /\ batch # {} /\ rows \subseteq Row
  BY DEF IInv, TypeOK, DrainSucceeds
<1>2. Executing \in batch /\ Executing \in Row
  BY <1>1, OldestIsMember DEF Executing
<1>3. /\ rows' = {r \in rows : r.id # Executing.id}
      /\ settled' = settled \cup {Executing.payload}
      /\ batch' = batch \ {Executing}
      /\ todo' \subseteq todo
      /\ owed' = Started(batch \ {Executing})
      /\ UNCHANGED <<enrolled, reach, nextId, pushes>> /\ UNCHANGED <<seq, raced, crashes, hung>>
  BY DEF DrainSucceeds, Advance, MarkDrained
<1>4. TypeOK'
  <2>1. batch \ {Executing} \subseteq Row
    BY <1>1
  <2>2. owed' \in [Clients \X Keys -> 0..MaxPush]
    BY <1>3, <2>1, StartedType DEF IInv, TypeOK
  <2>3. QED
    BY <1>2, <1>3, <2>2 DEF IInv, TypeOK, Row
<1>5. rows' \subseteq rows /\ batch' \subseteq batch
  BY <1>3
<1>6. DroppedOnlyIfRaced'
  <2>1. \A r \in rows : r \notin rows' => r.payload = Executing.payload \/ r.payload \in raced
    BY <1>2, <1>3 DEF IInv, ChangedIsRaced
  <2>2. Stored \subseteq Stored' \cup settled' \cup raced'
    BY <1>3, <2>1 DEF Stored
  <2>3. QED
    BY <1>3, <2>2 DEF IInv, DroppedOnlyIfRaced, InFlight
<1>7. QED
  BY <1>3, <1>4, <1>5, <1>6 DEF IInv, OneRowPerTarget, SnapshotIdsStable,
     DeadLettersNotReplayed, IdsIdentify, ChangedIsRaced

\* Retriable failure: the tick gives up on the client and the table is unchanged.
LEMMA DrainDeferredIInv ==
  ASSUME IInv, DrainDeferred
  PROVE  IInv'
<1>1. /\ batch' = {} /\ todo' \subseteq todo /\ rows' = rows
      /\ UNCHANGED <<enrolled, reach, nextId, pushes>>
      /\ UNCHANGED <<seq, owed, settled, raced, crashes, hung>>
  BY DEF DrainDeferred, RecordAttempt
<1>2. QED
  BY <1>1 DEF IInv, TypeOK, OneRowPerTarget, SnapshotIdsStable, DeadLettersNotReplayed,
     DroppedOnlyIfRaced, IdsIdentify, ChangedIsRaced, InFlight, Stored

\* Non-retriable failure: only the row with the executing id becomes failed,
\* and no other row of the snapshot has that id.
LEMMA DrainDeadLettersIInv ==
  ASSUME IInv, DrainDeadLetters
  PROVE  IInv'
<1>1. batch \subseteq Row /\ batch # {} /\ rows \subseteq Row
  BY DEF IInv, TypeOK, DrainDeadLetters
<1>2. Executing \in batch /\ Executing \in Row /\ Executing.id \in Nat
  BY <1>1, OldestIsMember DEF Executing, Row
<1>3. /\ rows' = MarkFailed(rows, Executing.id)
      /\ batch' = batch \ {Executing}
      /\ todo' \subseteq todo
      /\ owed' = Started(batch \ {Executing})
      /\ UNCHANGED <<enrolled, reach, nextId, pushes>>
      /\ UNCHANGED <<seq, settled, raced, crashes, hung>>
  BY DEF DrainDeadLetters, Advance
<1>i. PICK i \in Nat : i = Executing.id
  BY <1>2
<1>4. ASSUME NEW r \in rows'
      PROVE  /\ r \in Row
             /\ \E s \in rows : /\ r.id = s.id /\ r.client = s.client /\ r.key = s.key
                                /\ r.payload = s.payload
                                /\ s.id # i => r = s
                                /\ r = IF s.id = i THEN [s EXCEPT !.status = "failed"] ELSE s
  <2>1. r \in MarkFailed(rows, i)
    BY <1>3, <1>4, <1>i
  <2>2. QED
    BY <1>1, <2>1, MarkFailedRows
<1>5. TypeOK'
  <2>1. rows' \subseteq Row
    BY <1>4
  <2>2. batch \ {Executing} \subseteq Row
    BY <1>1
  <2>3. owed' \in [Clients \X Keys -> 0..MaxPush]
    BY <1>3, <2>2, StartedType DEF IInv, TypeOK
  <2>4. QED
    BY <1>3, <2>1, <2>2, <2>3 DEF IInv, TypeOK
<1>6. ASSUME NEW r \in rows', NEW s \in rows', r.id = s.id \/ For(r, s.client, s.key)
      PROVE  r = s
  <2>1. PICK r0 \in rows : /\ r.id = r0.id /\ r.client = r0.client /\ r.key = r0.key
                           /\ r = IF r0.id = i THEN [r0 EXCEPT !.status = "failed"] ELSE r0
    BY <1>4
  <2>2. PICK s0 \in rows : /\ s.id = s0.id /\ s.client = s0.client /\ s.key = s0.key
                           /\ s = IF s0.id = i THEN [s0 EXCEPT !.status = "failed"] ELSE s0
    BY <1>4
  <2>3. r0 = s0
    BY <1>6, <2>1, <2>2 DEF IInv, IdsIdentify, OneRowPerTarget, For
  <2>4. QED
    BY <2>1, <2>2, <2>3
<1>7. OneRowPerTarget'
  BY <1>6 DEF OneRowPerTarget
<1>8. IdsIdentify'
  <2>1. \A r \in rows' \cup batch' : r.id < nextId'
    BY <1>3, <1>4 DEF IInv, IdsIdentify
  <2>2. QED
    BY <1>3, <1>6, <2>1 DEF IInv, IdsIdentify
<1>9. SnapshotIdsStable' /\ ChangedIsRaced'
  BY <1>3, <1>4 DEF IInv, SnapshotIdsStable, ChangedIsRaced, For
<1>10. DeadLettersNotReplayed'
  <2> SUFFICES ASSUME NEW b \in batch', NEW r \in rows', r.id = b.id
               PROVE  r.status = "pending"
    BY DEF DeadLettersNotReplayed
  <2>1. b \in batch /\ b.id # Executing.id
    BY <1>2, <1>3 DEF IInv, IdsIdentify
  <2>2. r \in rows
    BY <1>4, <1>i, <2>1
  <2>3. QED
    BY <2>1, <2>2 DEF IInv, DeadLettersNotReplayed
<1>11. DroppedOnlyIfRaced'
  <2>1. ASSUME NEW s \in rows
        PROVE  \E r \in rows' : r.payload = s.payload
    <3>1. CASE s.id = Executing.id
      <4>1. [s EXCEPT !.status = "failed"] \in rows'
        BY <1>3, <3>1 DEF MarkFailed
      <4>2. [s EXCEPT !.status = "failed"].payload = s.payload
        BY <1>1 DEF Row
      <4>3. QED
        BY <4>1, <4>2
    <3>2. CASE s.id # Executing.id
      BY <1>3, <3>2 DEF MarkFailed
    <3>3. QED
      BY <3>1, <3>2
  <2>2. Stored \subseteq Stored'
    BY <2>1 DEF Stored
  <2>3. QED
    BY <1>3, <2>2 DEF IInv, DroppedOnlyIfRaced, InFlight
<1>12. QED
  BY <1>5, <1>7, <1>8, <1>9, <1>10, <1>11 DEF IInv

\* Deleting a client removes rows only, and settles what they held.
LEMMA DeleteClientIInv ==
  ASSUME IInv, NEW c \in Clients, DeleteClient(c)
  PROVE  IInv'
<1>1. /\ rows' = {r \in rows : r.client # c}
      /\ enrolled' \subseteq enrolled
      /\ settled' = settled \cup {r.payload : r \in {s \in rows : s.client = c}}
      /\ UNCHANGED <<reach, nextId, pushes, todo, batch>>
      /\ UNCHANGED <<seq, owed, raced, crashes, hung>>
  BY DEF DeleteClient, CascadeClient
<1>2. settled' \subseteq 1..MaxPush
  BY <1>1 DEF IInv, TypeOK, Row
<1>3. TypeOK'
  BY <1>1, <1>2 DEF IInv, TypeOK
<1>4. Stored \subseteq Stored' \cup settled'
  BY <1>1 DEF Stored
<1>5. DroppedOnlyIfRaced'
  BY <1>1, <1>4 DEF IInv, DroppedOnlyIfRaced, InFlight
<1>6. QED
  BY <1>1, <1>3, <1>5 DEF IInv, OneRowPerTarget, SnapshotIdsStable, DeadLettersNotReplayed,
     IdsIdentify, ChangedIsRaced

\* A crash forgets promises and the tick; the table survives.
LEMMA CrashIInv ==
  ASSUME IInv, Crash
  PROVE  IInv'
<1>1. /\ pushes' = {} /\ todo' = {} /\ batch' = {} /\ hung' \in BOOLEAN
      /\ settled' = settled \cup {p.payload : p \in pushes}
      /\ crashes' = crashes + 1 /\ crashes < MaxCrash
      /\ owed' = Discharge(pushes)
      /\ UNCHANGED <<enrolled, reach, rows, nextId, seq, raced>>
  BY DEF Crash
<1>2. owed' \in [Clients \X Keys -> 0..MaxPush]
  BY <1>1, MaxPushAssumption DEF IInv, TypeOK, Discharge
<1>3. settled' \subseteq 1..MaxPush
  BY <1>1 DEF IInv, TypeOK, Action
<1>4. TypeOK'
  <2>1. crashes' \in 0..MaxCrash
    BY <1>1, MaxCrashAssumption DEF IInv, TypeOK
  <2>2. QED
    BY <1>1, <1>2, <1>3, <2>1 DEF IInv, TypeOK
<1>5. DroppedOnlyIfRaced'
  BY <1>1 DEF IInv, DroppedOnlyIfRaced, InFlight, Stored
<1>6. QED
  BY <1>1, <1>4, <1>5 DEF IInv, OneRowPerTarget, SnapshotIdsStable, DeadLettersNotReplayed,
     IdsIdentify, ChangedIsRaced

\* A client's network changing, an awaited call that hangs, a stuttering step.
LEMMA FlipIInv ==
  ASSUME IInv, (\E c \in Clients : Flip(c)) \/ DrainHangs \/ UNCHANGED vars
  PROVE  IInv'
<1>1. /\ reach' \subseteq Clients /\ hung' \in BOOLEAN
      /\ UNCHANGED <<enrolled, rows, nextId, pushes, todo, batch>>
      /\ UNCHANGED <<seq, owed, settled, raced, crashes>>
  BY DEF Flip, DrainHangs, IInv, TypeOK, vars, durable, volatile, history
<1>2. QED
  BY <1>1 DEF IInv, TypeOK, OneRowPerTarget, SnapshotIdsStable, DeadLettersNotReplayed,
     DroppedOnlyIfRaced, IdsIdentify, ChangedIsRaced, InFlight, Stored

\* Every operation on the queue preserves the inductive invariant.
LEMMA NextIInv == IInv /\ [Next]_vars => IInv'
<1> SUFFICES ASSUME IInv, [Next]_vars PROVE IInv'
  OBVIOUS
<1>1. CASE \E c \in Clients, k \in Keys : Push(c, k)
  BY <1>1, PushIInv
<1>2. CASE PushStep
  BY <1>2, PushSettledIInv, PushDeferredIInv DEF PushStep
<1>3. CASE Tick
  BY <1>3, TickIInv
<1>4. CASE DrainStep
  BY <1>4, TickIInv, ProbeUpIInv, DrainSucceedsIInv, DrainDeferredIInv, DrainDeadLettersIInv
     DEF DrainStep
<1>5. CASE \E c \in Clients : Flip(c) \/ DeleteClient(c)
  BY <1>5, FlipIInv, DeleteClientIInv
<1>6. CASE Crash
  BY <1>6, CrashIInv
<1>7. CASE DrainHangs \/ UNCHANGED vars
  BY <1>7, FlipIInv
<1>8. QED
  BY <1>1, <1>2, <1>3, <1>4, <1>5, <1>6, <1>7 DEF Next

(* ---- theorems ---- *)

\* The queue's state, in memory and in the table, is always well formed.
THEOREM TypeCorrect == Spec => []TypeOK
<1>1. IInv => TypeOK
  BY DEF IInv
<1>2. QED
  BY InitIInv, NextIInv, <1>1, PTL DEF Spec

\* At most one row per (client, coalesce key): the upsert on the UNIQUE index,
\* with dead letters, cascades and crashes in between, never duplicates a target.
THEOREM Coalescing == Spec => []OneRowPerTarget
<1>1. IInv => OneRowPerTarget
  BY DEF IInv
<1>2. QED
  BY InitIInv, NextIInv, <1>1, PTL DEF Spec

\* The drainer's deletes and dead-letters by id, made after an await, act on the
\* row of the target it executed; and it executes no dead-lettered row.
THEOREM DrainActsOnItsOwnRow == Spec => [](SnapshotIdsStable /\ DeadLettersNotReplayed)
<1>1. IInv => SnapshotIdsStable /\ DeadLettersNotReplayed
  BY DEF IInv
<1>2. QED
  BY InitIInv, NextIInv, <1>1, PTL DEF Spec

\* No push disappears except by being coalesced onto the row whose previous
\* payload the drainer is executing: the single window of loss in the queue.
THEOREM LossIsConfined == Spec => []DroppedOnlyIfRaced
<1>1. IInv => DroppedOnlyIfRaced
  BY DEF IInv
<1>2. QED
  BY InitIInv, NextIInv, <1>1, PTL DEF Spec

(* ---- the queue implements Mailbox: the mapping reads the table through Kept ---- *)

Targets == Clients \X Keys
None == [payload |-> 0, status |-> "empty"]

\* At most one row of R for each target.
OnePer(R) == \A r, s \in R : For(r, s.client, s.key) => r = s

(* ---- what a table keeps for a target ---- *)

\* The row of a target is what is kept for it.
LEMMA KeptRow ==
  ASSUME NEW R, OnePer(R), NEW t, NEW r \in R, For(r, t[1], t[2])
  PROVE  Kept(R, t) = [payload |-> r.payload, status |-> r.status]
<1> DEFINE s == CHOOSE x \in R : For(x, t[1], t[2])
<1>1. s \in R /\ For(s, t[1], t[2])
  OBVIOUS
<1>2. s = r
  BY <1>1 DEF OnePer, For
<1>3. Kept(R, t) = [payload |-> s.payload, status |-> s.status]
  BY DEF Kept, Conflict
<1>4. QED
  BY <1>2, <1>3

\* Without a row nothing is kept.
LEMMA KeptNone ==
  ASSUME NEW R, NEW t, ~Conflict(R, t[1], t[2])
  PROVE  Kept(R, t) = None
BY DEF Kept, None

\* What is kept for a target depends on the target's rows only.
LEMMA KeptSame ==
  ASSUME NEW R, NEW S, OnePer(R), OnePer(S), NEW t,
         \A r \in R : For(r, t[1], t[2]) => r \in S,
         \A r \in S : For(r, t[1], t[2]) => r \in R
  PROVE  Kept(R, t) = Kept(S, t)
<1>1. CASE Conflict(R, t[1], t[2])
  <2>1. PICK r \in R : For(r, t[1], t[2])
    BY <1>1 DEF Conflict
  <2>2. r \in S
    BY <2>1
  <2>3. QED
    BY <2>1, <2>2, KeptRow
<1>2. CASE ~Conflict(R, t[1], t[2])
  <2>1. ~Conflict(S, t[1], t[2])
    BY <1>2 DEF Conflict
  <2>2. QED
    BY <1>2, <2>1, KeptNone
<1>3. QED
  BY <1>1, <1>2

\* enqueue puts the payload in the box of its target and leaves the others.
LEMMA EnqueueKept ==
  ASSUME NEW R, R \subseteq Row, OnePer(R), NEW i \in Nat, NEW c \in Clients, NEW k \in Keys,
         NEW p \in 1..MaxPush, OnePer(Enqueue(R, i, c, k, p)), NEW t \in Targets
  PROVE  Kept(Enqueue(R, i, c, k, p), t)
           = IF t = <<c, k>> THEN [payload |-> p, status |-> "pending"] ELSE Kept(R, t)
<1> DEFINE S == Enqueue(R, i, c, k, p)
<1>0. t = <<t[1], t[2]>>
  BY DEF Targets
<1>1. CASE t = <<c, k>>
  <2>1. PICK r \in S : r.payload = p /\ For(r, c, k) /\ r.status = "pending"
    <3>1. CASE Conflict(R, c, k)
      <4>1. PICK s \in R : For(s, c, k)
        BY <3>1 DEF Conflict
      <4>2. Rearmed(s, p) \in S
        BY <3>1, <4>1 DEF Enqueue
      <4>3. Rearmed(s, p).payload = p /\ For(Rearmed(s, p), c, k) /\ Rearmed(s, p).status = "pending"
        BY <4>1 DEF Rearmed, Row, For
      <4>4. QED
        BY <4>2, <4>3
    <3>2. CASE ~Conflict(R, c, k)
      <4> DEFINE new == [id |-> i, client |-> c, key |-> k, payload |-> p, status |-> "pending"]
      <4>1. new \in S
        BY <3>2 DEF Enqueue
      <4>2. new.payload = p /\ For(new, c, k) /\ new.status = "pending"
        BY DEF For
      <4>3. QED
        BY <4>1, <4>2
    <3>3. QED
      BY <3>1, <3>2
  <2>2. For(r, t[1], t[2])
    BY <1>1, <2>1
  <2>3. Kept(S, t) = [payload |-> r.payload, status |-> r.status]
    BY <2>2, KeptRow
  <2>4. QED
    BY <1>1, <2>1, <2>3
<1>2. CASE t # <<c, k>>
  <2>1. \A r : For(r, t[1], t[2]) => ~For(r, c, k)
    BY <1>0, <1>2 DEF For
  <2>2. \A r \in R : For(r, t[1], t[2]) => r \in S
    BY <2>1, EnqueueKeeps
  <2>3. \A r \in S : For(r, t[1], t[2]) => r \in R
    <3> SUFFICES ASSUME NEW r \in S, For(r, t[1], t[2]) PROVE r \in R
      OBVIOUS
    <3>1. ~For(r, c, k)
      BY <2>1
    <3>2. r # [id |-> i, client |-> c, key |-> k, payload |-> p, status |-> "pending"]
      BY <3>1 DEF For
    <3>3. QED
      BY <3>1, <3>2, EnqueueRows
  <2>4. QED
    BY <1>2, <2>2, <2>3, KeptSame
<1>3. QED
  BY <1>1, <1>2

\* Row b of a snapshot and the rows R: an id is that of the target's row, and the
\* other way round.
OwnId(R, b) == \A r \in R : r.id = b.id <=> For(r, b.client, b.key)

\* markDrained empties the box of the row's target and leaves the others.
LEMMA DrainedKept ==
  ASSUME NEW R, OnePer(R), NEW b, OwnId(R, b), NEW t \in Targets
  PROVE  Kept(MarkDrained(R, b.id), t)
           = IF t = <<b.client, b.key>> THEN None ELSE Kept(R, t)
<1> DEFINE S == MarkDrained(R, b.id)
<1>0. t = <<t[1], t[2]>> /\ OnePer(S)
  BY DEF Targets, OnePer, MarkDrained
<1>1. CASE t = <<b.client, b.key>>
  <2>1. ~Conflict(S, t[1], t[2])
    BY <1>1 DEF Conflict, MarkDrained, OwnId
  <2>2. QED
    BY <1>1, <2>1, KeptNone
<1>2. CASE t # <<b.client, b.key>>
  <2>1. \A r : For(r, t[1], t[2]) => ~For(r, b.client, b.key)
    BY <1>0, <1>2 DEF For
  <2>2. \A r \in R : For(r, t[1], t[2]) => r \in S
    BY <2>1 DEF OwnId, MarkDrained
  <2>3. \A r \in S : r \in R
    BY DEF MarkDrained
  <2>4. QED
    BY <1>0, <1>2, <2>2, <2>3, KeptSame
<1>3. QED
  BY <1>1, <1>2

\* markFailed marks the box of the row's target, if it holds anything.
LEMMA FailedKept ==
  ASSUME NEW R, R \subseteq Row, OnePer(R), NEW b \in Row, OwnId(R, b),
         OnePer(MarkFailed(R, b.id)), NEW t \in Targets
  PROVE  Kept(MarkFailed(R, b.id), t)
           = IF t # <<b.client, b.key>> THEN Kept(R, t)
             ELSE IF Kept(R, t) = None THEN None ELSE [Kept(R, t) EXCEPT !.status = "failed"]
<1> DEFINE S == MarkFailed(R, b.id)
<1>0. t = <<t[1], t[2]>> /\ b.id \in Nat
  BY DEF Targets, Row
<1>1. CASE t = <<b.client, b.key>> /\ Conflict(R, t[1], t[2])
  <2>1. PICK r \in R : For(r, t[1], t[2])
    BY <1>1 DEF Conflict
  <2>2. r.id = b.id /\ r \in Row
    BY <1>1, <2>1 DEF OwnId
  <2> DEFINE f == [r EXCEPT !.status = "failed"]
  <2>3. f \in S
    BY <2>2 DEF MarkFailed
  <2>4. For(f, t[1], t[2]) /\ f.payload = r.payload /\ f.status = "failed"
    BY <2>1, <2>2 DEF For, Row
  <2>5. Kept(S, t) = [payload |-> r.payload, status |-> "failed"]
    <3> HIDE DEF f
    <3>1. QED
      BY <2>3, <2>4, KeptRow
  <2>6. Kept(R, t) = [payload |-> r.payload, status |-> r.status]
    BY <2>1, KeptRow
  <2>7. Kept(R, t) # None
    BY <2>2, <2>6 DEF None, Row, Status
  <2>8. QED
    BY <1>1, <2>5, <2>6, <2>7
<1>2. CASE t = <<b.client, b.key>> /\ ~Conflict(R, t[1], t[2])
  <2>1. ~Conflict(S, t[1], t[2])
    BY <1>0, <1>2, MarkFailedRows DEF Conflict, For
  <2>2. QED
    BY <1>2, <2>1, KeptNone
<1>3. CASE t # <<b.client, b.key>>
  <2>1. \A r : For(r, t[1], t[2]) => ~For(r, b.client, b.key)
    BY <1>0, <1>3 DEF For
  <2>2. \A r \in R : For(r, t[1], t[2]) => r \in S
    BY <2>1 DEF OwnId, MarkFailed
  <2>3. \A r \in S : For(r, t[1], t[2]) => r \in R
    <3> SUFFICES ASSUME NEW r \in S, For(r, t[1], t[2]) PROVE r \in R
      OBVIOUS
    <3>1. PICK s \in R : /\ r.id = s.id /\ r.client = s.client /\ r.key = s.key
                         /\ s.id # b.id => r = s
      BY <1>0, MarkFailedRows
    <3>2. s.id # b.id
      BY <2>1, <3>1 DEF OwnId, For
    <3>3. QED
      BY <3>1, <3>2
  <2>4. QED
    BY <1>3, <2>2, <2>3, KeptSame
<1>4. QED
  BY <1>1, <1>2, <1>3

\* Deleting a client empties its boxes.
LEMMA CascadeKept ==
  ASSUME NEW R, OnePer(R), NEW c, NEW t \in Targets
  PROVE  Kept(CascadeClient(R, c), t) = IF t[1] = c THEN None ELSE Kept(R, t)
<1> DEFINE S == CascadeClient(R, c)
<1>1. CASE t[1] = c
  <2>1. ~Conflict(S, t[1], t[2])
    BY <1>1 DEF Conflict, CascadeClient, For
  <2>2. QED
    BY <1>1, <2>1, KeptNone
<1>2. CASE t[1] # c
  <2>1. OnePer(S) /\ \A r \in S : r \in R
    BY DEF OnePer, CascadeClient
  <2>2. \A r \in R : For(r, t[1], t[2]) => r \in S
    BY <1>2 DEF CascadeClient, For
  <2>3. QED
    BY <1>2, <2>1, <2>2, KeptSame
<1>3. QED
  BY <1>1, <1>2

(* ---- the snapshot and the table ---- *)

\* The table and the snapshot agree on targets and ids when the server starts.
LEMMA InitCovers == Init => SnapshotCovers
BY DEF Init, SnapshotCovers

\* An enqueue keeps the id of every row, and adds rows of its own client only.
LEMMA EnqueueIds ==
  ASSUME NEW R, R \subseteq Row, NEW i \in Nat, NEW c \in Clients, NEW k \in Keys,
         NEW p \in 1..MaxPush
  PROVE  /\ \A r \in R : \E s \in Enqueue(R, i, c, k, p) : s.id = r.id
         /\ \A s \in Enqueue(R, i, c, k, p) : s \in R \/ s.client = c
<1>1. ASSUME NEW r \in R
      PROVE  \E s \in Enqueue(R, i, c, k, p) : s.id = r.id
  <2>1. CASE ~For(r, c, k)
    BY <2>1, EnqueueKeeps
  <2>2. CASE For(r, c, k)
    <3>1. Conflict(R, c, k)
      BY <2>2 DEF Conflict
    <3>2. Rearmed(r, p) \in Enqueue(R, i, c, k, p)
      BY <2>2, <3>1 DEF Enqueue
    <3>3. Rearmed(r, p).id = r.id
      BY DEF Rearmed, Row
    <3>4. QED
      BY <3>2, <3>3
  <2>3. QED
    BY <2>1, <2>2
<1>2. \A s \in Enqueue(R, i, c, k, p) : s \in R \/ s.client = c
  <2> SUFFICES ASSUME NEW s \in Enqueue(R, i, c, k, p) PROVE s \in R \/ s.client = c
    OBVIOUS
  <2>1. \/ s \in R
        \/ For(s, c, k)
        \/ s = [id |-> i, client |-> c, key |-> k, payload |-> p, status |-> "pending"]
    BY EnqueueRows
  <2>2. QED
    BY <2>1 DEF For
<1>3. QED
  BY <1>1, <1>2

\* The drain loop's current row is a row of the snapshot.
LEMMA ExecutingRow ==
  ASSUME IInv, batch # {}
  PROVE  Executing \in batch /\ Executing \in Row /\ Executing.id \in Nat
<1>1. batch \subseteq Row
  BY DEF IInv, TypeOK
<1>2. QED
  BY <1>1, OldestIsMember DEF Executing, Row

\* A push deferred keeps the agreement: the upsert keeps the id of a row it re-arms.
LEMMA PushDeferredCovers ==
  ASSUME IInv, SnapshotCovers, NEW p \in pushes, PushDeferred(p)
  PROVE  SnapshotCovers'
<1>1. /\ p.client \in Clients /\ p.key \in Keys /\ p.payload \in 1..MaxPush
      /\ rows \subseteq Row /\ nextId \in Nat
  BY DEF IInv, TypeOK, Action
<1>2. /\ rows' = Enqueue(rows, nextId, p.client, p.key, p.payload)
      /\ p.client \in enrolled /\ batch' = batch /\ enrolled' = enrolled
  BY DEF PushDeferred
<1>3. /\ \A r \in rows : \E s \in rows' : s.id = r.id
      /\ \A s \in rows' : s \in rows \/ s.client = p.client
  BY <1>1, <1>2, EnqueueIds
<1>4. QED
  BY <1>2, <1>3 DEF SnapshotCovers

\* A new snapshot is part of the table.
LEMMA ProbeUpCovers ==
  ASSUME IInv, SnapshotCovers, ProbeUp
  PROVE  SnapshotCovers'
<1>1. batch' \subseteq rows /\ rows' = rows /\ enrolled' = enrolled
  BY DEF ProbeUp, PendingFor
<1>2. QED
  BY <1>1 DEF SnapshotCovers, IInv, OneRowPerTarget

\* markDrained removes the id of the executing row, which leaves the snapshot too.
LEMMA DrainSucceedsCovers ==
  ASSUME IInv, SnapshotCovers, DrainSucceeds
  PROVE  SnapshotCovers'
<1>1. Executing \in batch
  BY ExecutingRow DEF DrainSucceeds
<1>2. /\ rows' = {r \in rows : r.id # Executing.id}
      /\ batch' = batch \ {Executing} /\ enrolled' = enrolled
  BY DEF DrainSucceeds, Advance, MarkDrained
<1>3. \A b \in batch' : b \in batch /\ b.id # Executing.id
  BY <1>1, <1>2 DEF IInv, IdsIdentify
<1>4. QED
  BY <1>2, <1>3 DEF SnapshotCovers

\* markFailed keeps ids and clients.
LEMMA DrainDeadLettersCovers ==
  ASSUME IInv, SnapshotCovers, DrainDeadLetters
  PROVE  SnapshotCovers'
<1>1. Executing.id \in Nat /\ rows \subseteq Row
  BY ExecutingRow DEF DrainDeadLetters, IInv, TypeOK
<1>2. /\ rows' = MarkFailed(rows, Executing.id)
      /\ batch' = batch \ {Executing} /\ enrolled' = enrolled
  BY DEF DrainDeadLetters, Advance
<1>3. ASSUME NEW r \in rows
      PROVE  \E s \in rows' : s.id = r.id
  <2>1. CASE r.id = Executing.id
    <3>1. [r EXCEPT !.status = "failed"] \in rows'
      BY <1>2, <2>1 DEF MarkFailed
    <3>2. [r EXCEPT !.status = "failed"].id = r.id
      BY <1>1 DEF Row
    <3>3. QED
      BY <3>1, <3>2
  <2>2. CASE r.id # Executing.id
    BY <1>2, <2>2 DEF MarkFailed
  <2>3. QED
    BY <2>1, <2>2
<1>4. \A s \in rows' : \E r \in rows : s.client = r.client
  BY <1>1, <1>2, MarkFailedRows
<1>5. QED
  BY <1>2, <1>3, <1>4 DEF SnapshotCovers

\* Every step keeps the snapshot and the table in agreement.
LEMMA NextCovers == IInv /\ SnapshotCovers /\ [Next]_vars => SnapshotCovers'
<1> SUFFICES ASSUME IInv, SnapshotCovers, [Next]_vars PROVE SnapshotCovers'
  OBVIOUS
<1>1. CASE UNCHANGED <<rows, batch, enrolled>>
  BY <1>1 DEF SnapshotCovers
<1>2. CASE PushStep
  BY <1>1, <1>2, PushDeferredCovers DEF PushStep, PushDelivered, PushRejected
<1>3. CASE DrainStep
  <2>1. CASE DrainDeferred
    BY <2>1 DEF DrainDeferred, RecordAttempt, SnapshotCovers
  <2>2. QED
    BY <1>1, <1>3, <2>1, ProbeUpCovers, DrainSucceedsCovers, DrainDeadLettersCovers
       DEF DrainStep, ProbeDown
<1>4. CASE \E c \in Clients : Flip(c) \/ DeleteClient(c)
  <2>1. PICK c \in Clients : Flip(c) \/ DeleteClient(c)
    BY <1>4
  <2>2. CASE DeleteClient(c)
    <3>1. /\ rows' = {r \in rows : r.client # c} /\ enrolled' = enrolled \ {c}
          /\ batch' = batch
      BY <2>2 DEF DeleteClient, CascadeClient
    <3>2. \A b \in batch, r \in rows : r.id = b.id => r.client = b.client
      BY DEF IInv, SnapshotIdsStable, For
    <3>3. QED
      BY <3>1, <3>2 DEF SnapshotCovers
  <2>3. CASE Flip(c)
    BY <1>1, <2>3 DEF Flip, durable, volatile
  <2>4. QED
    BY <2>1, <2>2, <2>3
<1>5. CASE Crash
  BY <1>5 DEF Crash, SnapshotCovers
<1>6. CASE (\E c \in Clients, k \in Keys : Push(c, k)) \/ Tick \/ DrainHangs \/ UNCHANGED vars
  BY <1>1, <1>6 DEF Push, Tick, DrainHangs, durable, vars
<1>7. QED
  BY <1>2, <1>3, <1>4, <1>5, <1>6 DEF Next

\* So the row with the executing id, if there is one, is the target's row.
LEMMA ExecutingOwnId ==
  ASSUME IInv, SnapshotCovers, batch # {}
  PROVE  OwnId(rows, Executing)
<1>1. Executing \in batch
  BY ExecutingRow
<1> SUFFICES ASSUME NEW r \in rows, For(r, Executing.client, Executing.key)
             PROVE  r.id = Executing.id
  BY <1>1 DEF OwnId, IInv, SnapshotIdsStable
<1>2. Executing.client \in enrolled
  BY DEF SnapshotCovers, For
<1>3. PICK s \in rows : s.id = Executing.id
  BY <1>1, <1>2 DEF SnapshotCovers
<1>4. For(s, Executing.client, Executing.key)
  BY <1>1, <1>3 DEF IInv, SnapshotIdsStable
<1>5. r = s
  BY <1>4 DEF IInv, OneRowPerTarget, For
<1>6. QED
  BY <1>3, <1>5

(* ---- the steps ---- *)

\* OneRowPerTarget, before and after a step.
LEMMA OneEach == IInv => OnePer(rows)
BY DEF IInv, OneRowPerTarget, OnePer

\* An empty table is empty mailboxes.
LEMMA InitMailbox == Init => Boxes!Init
<1> SUFFICES ASSUME Init PROVE Boxes!Init
  OBVIOUS
<1>1. rows = {} /\ batch = {} /\ pushes = {} /\ seq = 0
  BY DEF Init
<1>2. \A t \in Targets : Kept(rows, t) = None
  BY <1>1, KeptNone DEF Conflict
<1>3. QED
  BY <1>1, <1>2 DEF Boxes!Init, Boxes!Targets, Boxes!Empty, Targets, None

\* pushOrEnqueue up to its first await only starts an action.
LEMMA PushMailbox ==
  ASSUME NEW c \in Clients, NEW k \in Keys, Push(c, k)
  PROVE  Boxes!Next
<1>1. <<c, k>> \in Boxes!Targets /\ <<c, k>>[1] = c /\ <<c, k>>[2] = k
  BY DEF Boxes!Targets
<1>2. Boxes!Issue(<<c, k>>)
  BY <1>1 DEF Push, Boxes!Issue
<1>3. QED
  BY <1>1, <1>2 DEF Boxes!Next

\* An action that is delivered or rejected leaves the mailboxes alone.
LEMMA PushSettledMailbox ==
  ASSUME NEW p \in pushes, PushDelivered(p) \/ PushRejected(p)
  PROVE  Boxes!Next
<1>1. Boxes!Finish(p)
  BY DEF PushDelivered, PushRejected, Boxes!Finish
<1>2. QED
  BY <1>1 DEF Boxes!Next

\* enqueue, insert or upsert, is a put into the mailbox of the push's target.
LEMMA PushDeferredMailbox ==
  ASSUME IInv, IInv', NEW p \in pushes, PushDeferred(p)
  PROVE  Boxes!Next
<1> DEFINE u == <<p.client, p.key>>
           new == [payload |-> p.payload, status |-> "pending"]
<1>1. /\ p.client \in Clients /\ p.key \in Keys /\ p.payload \in 1..MaxPush
      /\ rows \subseteq Row /\ nextId \in Nat
  BY DEF IInv, TypeOK, Action
<1>2. /\ rows' = Enqueue(rows, nextId, p.client, p.key, p.payload)
      /\ pushes' = pushes \ {p} /\ batch' = batch /\ seq' = seq
  BY DEF PushDeferred
<1>3. OnePer(rows) /\ OnePer(rows')
  BY OneEach DEF IInv, OneRowPerTarget, OnePer
<1>4. \A t \in Targets : Kept(rows', t) = IF t = u THEN new ELSE Kept(rows, t)
  BY <1>1, <1>2, <1>3, EnqueueKept
<1>5. [t \in Targets |-> Kept(rows', t)]
        = [[t \in Targets |-> Kept(rows, t)] EXCEPT ![u] = new]
  BY <1>4
<1>6. Boxes!Put(p)
  BY <1>2, <1>5 DEF Boxes!Put, Boxes!target, Targets
<1>7. QED
  BY <1>6 DEF Boxes!Next

\* The snapshot of listPendingForClient is what the client's mailboxes hold.
LEMMA ProbeUpMailbox ==
  ASSUME IInv, ProbeUp
  PROVE  Boxes!Next
<1>1. PICK c \in reach : /\ batch = {} /\ batch' = PendingFor(rows, c)
                         /\ rows' = rows /\ pushes' = pushes /\ seq' = seq
  BY DEF ProbeUp
<1>2. c \in Clients /\ rows \subseteq Row
  BY DEF IInv, TypeOK
<1>3. ASSUME NEW t \in Targets
      PROVE  (\E b \in batch' : t = <<b.client, b.key>>)
               <=> t[1] = c /\ Kept(rows, t).status = "pending"
  <2>0. t = <<t[1], t[2]>>
    BY DEF Targets
  <2>1. CASE \E r \in rows : For(r, t[1], t[2])
    <3>1. PICK r \in rows : For(r, t[1], t[2])
      BY <2>1
    <3>2. Kept(rows, t).status = r.status
      BY <3>1, OneEach, KeptRow
    <3>3. \A b \in rows : t = <<b.client, b.key>> => b = r
      BY <3>1, OneEach DEF OnePer, For
    <3>4. t = <<r.client, r.key>>
      BY <2>0, <3>1 DEF For
    <3>5. QED
      BY <1>1, <3>1, <3>2, <3>3, <3>4 DEF PendingFor, For
  <2>2. CASE ~\E r \in rows : For(r, t[1], t[2])
    <3>1. Kept(rows, t).status = "empty"
      BY <2>2, KeptNone DEF Conflict, None
    <3>2. \A b \in rows : t # <<b.client, b.key>>
      BY <2>2 DEF For
    <3>3. QED
      BY <1>1, <3>1, <3>2 DEF PendingFor
  <2>3. QED
    BY <2>1, <2>2
<1>4. \A b \in batch' : <<b.client, b.key>> \in Targets
  BY <1>1, <1>2 DEF PendingFor, Row, Targets
<1>5. {<<b.client, b.key>> : b \in batch'}
        = {t \in Targets : t[1] = c /\ [x \in Targets |-> Kept(rows, x)][t].status = "pending"}
  BY <1>3, <1>4
<1>6. Boxes!Serve(c)
  BY <1>1, <1>5 DEF Boxes!Serve, Boxes!Targets, Targets
<1>7. QED
  BY <1>2, <1>6 DEF Boxes!Next

\* Moving past the executing row is moving past its target: a snapshot has one
\* row per target.
LEMMA AdvanceServing ==
  ASSUME IInv, SnapshotCovers, batch # {}, Advance
  PROVE  /\ <<Executing.client, Executing.key>> \in {<<b.client, b.key>> : b \in batch}
         /\ <<Executing.client, Executing.key>> \in Targets
         /\ {<<b.client, b.key>> : b \in batch'}
              = {<<b.client, b.key>> : b \in batch} \ {<<Executing.client, Executing.key>>}
<1>1. Executing \in batch /\ Executing \in Row /\ batch' = batch \ {Executing}
  BY ExecutingRow DEF Advance
<1>2. \A b \in batch : <<b.client, b.key>> = <<Executing.client, Executing.key>> => b = Executing
  BY <1>1 DEF SnapshotCovers, For
<1>3. QED
  BY <1>1, <1>2 DEF Row, Targets

\* markDrained by id empties the mailbox that was served.
LEMMA DrainSucceedsMailbox ==
  ASSUME IInv, SnapshotCovers, DrainSucceeds
  PROVE  Boxes!Next
<1>1. /\ rows' = MarkDrained(rows, Executing.id) /\ batch # {} /\ Advance
      /\ pushes' = pushes /\ seq' = seq
  BY DEF DrainSucceeds
<1>u. PICK u \in Targets : u = <<Executing.client, Executing.key>>
  BY <1>1, AdvanceServing
<1>2. \A t \in Targets : Kept(rows', t) = IF t = u THEN None ELSE Kept(rows, t)
  BY <1>u, <1>1, OneEach, ExecutingOwnId, DrainedKept
<1>3. [t \in Targets |-> Kept(rows', t)]
        = [[t \in Targets |-> Kept(rows, t)] EXCEPT ![u] = None]
  BY <1>2
<1>4. /\ u \in {<<b.client, b.key>> : b \in batch} /\ u \in Targets
      /\ {<<b.client, b.key>> : b \in batch'} = {<<b.client, b.key>> : b \in batch} \ {u}
  BY <1>u, <1>1, AdvanceServing
<1>5. Boxes!Take(u)
  BY <1>1, <1>3, <1>4 DEF Boxes!Take, Boxes!Empty, Targets, None
<1>6. u \in Boxes!Targets
  BY <1>4 DEF Boxes!Targets, Targets
<1>7. QED
  BY <1>5, <1>6 DEF Boxes!Next

\* markFailed by id marks the mailbox that was served, unless it is gone.
LEMMA DrainDeadLettersMailbox ==
  ASSUME IInv, IInv', SnapshotCovers, DrainDeadLetters
  PROVE  Boxes!Next
<1>1. /\ rows' = MarkFailed(rows, Executing.id) /\ batch # {} /\ Advance
      /\ pushes' = pushes /\ seq' = seq /\ rows \subseteq Row
  BY DEF DrainDeadLetters, IInv, TypeOK
<1>u. PICK u \in Targets : u = <<Executing.client, Executing.key>>
  BY <1>1, AdvanceServing
<1>2. OnePer(rows) /\ OnePer(rows') /\ Executing \in Row /\ OwnId(rows, Executing)
  BY <1>1, OneEach, ExecutingRow, ExecutingOwnId DEF IInv, OneRowPerTarget, OnePer
<1>3. \A t \in Targets :
        Kept(rows', t)
          = IF t # u THEN Kept(rows, t)
            ELSE IF Kept(rows, t) = None THEN None ELSE [Kept(rows, t) EXCEPT !.status = "failed"]
  BY <1>u, <1>1, <1>2, FailedKept
<1>4. /\ u \in {<<b.client, b.key>> : b \in batch} /\ u \in Targets
      /\ {<<b.client, b.key>> : b \in batch'} = {<<b.client, b.key>> : b \in batch} \ {u}
  BY <1>u, <1>1, AdvanceServing
<1>5. [t \in Targets |-> Kept(rows', t)]
        = [[t \in Targets |-> Kept(rows, t)] EXCEPT ![u] =
             IF @ = None THEN @ ELSE [@ EXCEPT !.status = "failed"]]
  BY <1>3, <1>4
<1>6. Boxes!Bounce(u)
  BY <1>1, <1>4, <1>5 DEF Boxes!Bounce, Boxes!Empty, Targets, None
<1>7. u \in Boxes!Targets
  BY <1>4 DEF Boxes!Targets, Targets
<1>8. QED
  BY <1>6, <1>7 DEF Boxes!Next

\* The cascade of a client's rows empties the client's mailboxes.
LEMMA DeleteClientMailbox ==
  ASSUME IInv, NEW c \in Clients, DeleteClient(c)
  PROVE  Boxes!Next
<1>1. /\ rows' = CascadeClient(rows, c)
      /\ pushes' = pushes /\ batch' = batch /\ seq' = seq
  BY DEF DeleteClient
<1>2. \A t \in Targets : Kept(rows', t) = IF t[1] = c THEN None ELSE Kept(rows, t)
  BY <1>1, OneEach, CascadeKept
<1>3. [t \in Targets |-> Kept(rows', t)]
        = [t \in Targets |-> IF t[1] = c THEN None ELSE [x \in Targets |-> Kept(rows, x)][t]]
  BY <1>2
<1>4. Boxes!Forget(c)
  BY <1>1, <1>3 DEF Boxes!Forget, Boxes!Targets, Boxes!Empty, Targets, None
<1>5. QED
  BY <1>4 DEF Boxes!Next

\* Every step of the queue is a step of the mailboxes, or leaves them as they are.
LEMMA NextMailbox ==
  IInv /\ IInv' /\ SnapshotCovers /\ [Next]_vars => [Boxes!Next]_Boxes!vars
<1> SUFFICES ASSUME IInv, IInv', SnapshotCovers, [Next]_vars
             PROVE  [Boxes!Next]_Boxes!vars
  OBVIOUS
<1>1. CASE UNCHANGED <<rows, batch, pushes, seq>>
  BY <1>1 DEF Boxes!vars
<1>2. CASE \E c \in Clients, k \in Keys : Push(c, k)
  BY <1>2, PushMailbox
<1>3. CASE PushStep
  BY <1>3, PushSettledMailbox, PushDeferredMailbox DEF PushStep
<1>4. CASE DrainStep
  <2>1. CASE DrainDeferred
    <3>1. /\ batch' = {} /\ rows' = rows /\ pushes' = pushes /\ seq' = seq
      BY <2>1 DEF DrainDeferred, RecordAttempt
    <3>2. Boxes!GiveUp
      BY <3>1 DEF Boxes!GiveUp
    <3>3. QED
      BY <3>2 DEF Boxes!Next
  <2>2. CASE ProbeDown
    BY <1>1, <2>2 DEF ProbeDown
  <2>3. QED
    BY <1>4, <2>1, <2>2, ProbeUpMailbox, DrainSucceedsMailbox, DrainDeadLettersMailbox
       DEF DrainStep
<1>5. CASE \E c \in Clients : Flip(c) \/ DeleteClient(c)
  <2>1. CASE \E c \in Clients : Flip(c)
    BY <1>1, <2>1 DEF Flip, durable, volatile, history
  <2>2. QED
    BY <1>5, <2>1, DeleteClientMailbox
<1>6. CASE Crash
  <2>1. /\ pushes' = {} /\ batch' = {} /\ rows' = rows /\ seq' = seq
    BY <1>6 DEF Crash
  <2>2. Boxes!Restart
    BY <2>1 DEF Boxes!Restart
  <2>3. QED
    BY <2>2 DEF Boxes!Next
<1>7. CASE Tick \/ DrainHangs \/ UNCHANGED vars
  BY <1>1, <1>7 DEF Tick, DrainHangs, durable, history, vars
<1>8. QED
  BY <1>2, <1>3, <1>4, <1>5, <1>6, <1>7 DEF Next

\* The transport queue, its table, ids, upserts and snapshot drained across awaits,
\* with client deletions and crashes, implements one mailbox per target.
THEOREM QueueIsMailbox == Spec => ImplementsMailbox
<1>1. Spec => []IInv
  BY InitIInv, NextIInv, PTL DEF Spec
<1>2. Spec => []SnapshotCovers
  BY <1>1, InitCovers, NextCovers, PTL DEF Spec
<1>3. QED
  BY <1>1, <1>2, InitMailbox, NextMailbox, PTL DEF Spec, ImplementsMailbox, Boxes!Spec
=============================================================================

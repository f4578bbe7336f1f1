---------------------------- MODULE OfflineQueue ----------------------------
(***************************************************************************)
(* The offline transport queue (server/src/transport/queue) and its two    *)
(* users of the executor:                                                  *)
(*   - pushOrEnqueue (facade.ts), started fire-and-forget by the           *)
(*     dispatcher (policy-push/dispatcher.ts), any number at a time;       *)
(*   - the periodic drainer (scheduler.ts, drainer.ts), one tick at a      *)
(*     time because croner runs with `protect`.                            *)
(* Every `await` is a point where the others may run: an executor call is  *)
(* a start (in the step that reaches it) and a later finish with one of    *)
(* the three outcomes of isRetriable (types.ts).  What the executor does   *)
(* to the client is the subject of module PolicyPush.  An exec has a timer *)
(* only once its channel is open (module SshPool), so an awaited call may  *)
(* also never come back.                                                   *)
(*                                                                         *)
(* A push is named by its sequence number, which is also its payload.      *)
(***************************************************************************)
EXTENDS QueueStore, FiniteSets

CONSTANTS Clients,   \* enrolled client ids (ordered: a tick visits them ascending)
          Keys,      \* coalesce keys: user:<id>, client, time-today:<uuid>
          MaxPush,   \* bound: pushes issued in one behaviour
          MaxCrash   \* bound: server crashes in one behaviour

ASSUME ClientsAssumption == Clients \subseteq Nat
ASSUME MaxPushAssumption == MaxPush \in Nat
ASSUME MaxCrashAssumption == MaxCrash \in Nat

VARIABLES
  enrolled,  \* the clients table
  reach,     \* clients whose SSH port answers now
  rows,      \* the transport_queue table
  nextId,    \* its AUTOINCREMENT counter
  pushes,    \* online pushes whose executor is running
  todo,      \* clients the current tick has still to finish; {} between ticks
  batch,     \* drainClient's remaining snapshot; the oldest is executing
  hung,      \* the probe or executor the tick awaits will never answer
  seq,       \* number of pushes issued so far
  owed,      \* history: for each target, its push if that push is neither
             \* delivered nor reported and no executor started on the target
             \* after it (so the client may lack what the push was for); or 0
  settled,   \* history: pushes delivered, reported as failed, superseded by a
             \* later enqueue, or gone with their client or with a crash
  raced,     \* history: pushes enqueued onto a row the drainer was executing
  crashes

durable  == <<enrolled, rows, nextId>>
volatile == <<pushes, todo, batch, hung>>
history  == <<seq, owed, settled, raced>>
vars == <<enrolled, reach, rows, nextId, pushes, todo, batch, hung, seq, owed,
          settled, raced, crashes>>

Min1(S) == CHOOSE x \in S : \A y \in S : x <= y

Executing == Oldest(batch)      \* the row whose executor is running
InDrain(c, k) == \E b \in batch : For(b, c, k)

-----------------------------------------------------------------------------
Init ==
  /\ enrolled = Clients
  /\ reach \in SUBSET Clients
  /\ rows = {}
  /\ nextId = 1
  /\ pushes = {}
  /\ todo = {}
  /\ batch = {}
  /\ hung = FALSE
  /\ seq = 0
  /\ owed = [t \in Clients \X Keys |-> 0]
  /\ settled = {}
  /\ raced = {}
  /\ crashes = 0

(* ---- pushOrEnqueue ---- *)

\* dispatch / pushOrEnqueue up to `await executor(action)`.
Push(c, k) ==
  /\ seq < MaxPush
  /\ c \in enrolled
  /\ seq' = seq + 1
  /\ owed' = [owed EXCEPT ![<<c, k>>] = seq + 1]
  /\ pushes' = pushes \cup {[client |-> c, key |-> k, payload |-> seq + 1]}
  /\ UNCHANGED <<enrolled, reach, rows, nextId, todo, batch, hung, settled,
                 raced, crashes>>

\* Nothing is owed any more for the pushes of ps.
Discharge(ps) ==
  [t \in Clients \X Keys |-> IF \E p \in ps : p.payload = owed[t] THEN 0 ELSE owed[t]]

\* The executor resolved: "pushed", and nothing is queued or removed.
PushDelivered(p) ==
  /\ pushes' = pushes \ {p}
  /\ settled' = settled \cup {p.payload}
  /\ owed' = Discharge({p})
  /\ UNCHANGED <<enrolled, reach, rows, nextId, todo, batch, hung, seq, raced,
                 crashes>>

\* The executor rejected retriably, the client being unreachable or its command
\* having run into its timeout: enqueue, coalescing onto the target's row.  The
\* push it replaces is superseded; the new one is at risk when the drainer holds
\* that row in its snapshot.
PushDeferred(p) ==
  /\ p.client \in enrolled
  /\ pushes' = pushes \ {p}
  /\ rows' = Enqueue(rows, nextId, p.client, p.key, p.payload)
  /\ nextId' = NextId(rows, nextId, p.client, p.key)
  /\ settled' = settled \cup {r.payload : r \in {s \in rows : For(s, p.client, p.key)}}
  /\ raced' = IF InDrain(p.client, p.key) THEN raced \cup {p.payload} ELSE raced
  /\ UNCHANGED <<enrolled, reach, todo, batch, hung, seq, owed, crashes>>

\* The executor rejected non-retriably, or enqueue hit the client foreign key:
\* the rejection reaches the dispatcher, which logs "policy push failed".
PushRejected(p) ==
  /\ pushes' = pushes \ {p}
  /\ settled' = settled \cup {p.payload}
  /\ owed' = Discharge({p})
  /\ UNCHANGED <<enrolled, reach, rows, nextId, todo, batch, hung, seq, raced,
                 crashes>>

(* ---- the drainer ---- *)

\* A cron tick: the clients with pending rows, read once.
Tick ==
  /\ todo = {}
  /\ ClientsWithPending(rows) # {}
  /\ todo' = ClientsWithPending(rows)
  /\ UNCHANGED <<enrolled, reach, rows, nextId, pushes, batch, hung, seq, owed,
                 settled, raced, crashes>>

\* The executor has just started on the oldest row of remaining snapshot S.
Started(S) ==
  IF S = {} THEN owed ELSE [owed EXCEPT ![<<Oldest(S).client, Oldest(S).key>>] = 0]

\* `await probe(clientId)` answered true: drainClient snapshots the pending
\* rows and starts the executor on the oldest.
ProbeUp ==
  /\ todo # {}
  /\ batch = {}
  /\ ~hung
  /\ LET c == Min1(todo) IN
       /\ c \in reach \cap enrolled
       /\ batch' = PendingFor(rows, c)
       /\ todo' = IF PendingFor(rows, c) = {} THEN todo \ {c} ELSE todo
       /\ owed' = Started(PendingFor(rows, c))
  /\ UNCHANGED <<enrolled, reach, rows, nextId, pushes, hung, seq, settled,
                 raced, crashes>>

\* The probe answered false (offline, or the client row is gone) or threw:
\* on to the next client.
ProbeDown ==
  /\ todo # {}
  /\ batch = {}
  /\ ~hung
  /\ Min1(todo) \notin reach \cap enrolled
  /\ todo' = todo \ {Min1(todo)}
  /\ UNCHANGED <<enrolled, reach, rows, nextId, pushes, batch, hung, seq, owed,
                 settled, raced, crashes>>

\* The loop moves past the executing row; the client is done after the last.
Advance ==
  /\ batch' = batch \ {Executing}
  /\ owed' = Started(batch \ {Executing})
  /\ todo' = IF batch = {Executing} THEN todo \ {Executing.client} ELSE todo

\* Success: markDrained.
DrainSucceeds ==
  /\ batch # {}
  /\ ~hung
  /\ rows' = MarkDrained(rows, Executing.id)
  /\ settled' = settled \cup {Executing.payload}
  /\ Advance
  /\ UNCHANGED <<enrolled, reach, nextId, pushes, hung, seq, raced, crashes>>

\* Mutant: a client that fails retriably ends the whole tick.
DrainDeferredEndsTick ==
  /\ batch # {}
  /\ ~hung
  /\ rows' = RecordAttempt(rows, Executing.id)
  /\ batch' = {}
  /\ todo' = {}
  /\ UNCHANGED <<enrolled, reach, nextId, pushes, hung, seq, owed, settled,
                 raced, crashes>>

\* Retriable failure (unreachable, or timed out on a client that answers the
\* probe): recordAttempt, and give up on this client for the tick.
DrainDeferred ==
  /\ batch # {}
  /\ ~hung
  /\ rows' = RecordAttempt(rows, Executing.id)
  /\ batch' = {}
  /\ todo' = todo \ {Executing.client}
  /\ UNCHANGED <<enrolled, reach, nextId, pushes, hung, seq, owed, settled,
                 raced, crashes>>

\* Non-retriable failure: dead-letter the row and continue with the next.
DrainDeadLetters ==
  /\ batch # {}
  /\ ~hung
  /\ rows' = MarkFailed(rows, Executing.id)
  /\ Advance
  /\ UNCHANGED <<enrolled, reach, nextId, pushes, hung, seq, settled, raced,
                 crashes>>

\* The awaited probe or executor never settles (the peer went silent before the
\* channel was open): croner's `protect` then skips every later tick.
DrainHangs ==
  /\ todo # {}
  /\ ~hung
  /\ hung' = TRUE
  /\ UNCHANGED <<durable, reach, pushes, todo, batch, history, crashes>>

(* ---- the environment ---- *)

\* A client goes off or comes back on the network.
Flip(c) ==
  /\ reach' = IF c \in reach THEN reach \ {c} ELSE reach \cup {c}
  /\ UNCHANGED <<durable, volatile, history, crashes>>

\* The admin deletes a client; its queue rows cascade away.
DeleteClient(c) ==
  /\ c \in enrolled
  /\ enrolled' = enrolled \ {c}
  /\ rows' = CascadeClient(rows, c)
  /\ settled' = settled \cup {r.payload : r \in {s \in rows : s.client = c}}
  /\ UNCHANGED <<reach, nextId, pushes, todo, batch, hung, seq, owed, raced,
                 crashes>>

\* The server process dies and restarts: promises and the tick are gone.
Crash ==
  /\ crashes < MaxCrash
  /\ crashes' = crashes + 1
  /\ pushes' = {}
  /\ todo' = {}
  /\ batch' = {}
  /\ hung' = FALSE
  /\ settled' = settled \cup {p.payload : p \in pushes}
  /\ owed' = Discharge(pushes)
  /\ UNCHANGED <<enrolled, reach, rows, nextId, seq, raced>>

PushStep == \E p \in pushes : PushDelivered(p) \/ PushDeferred(p) \/ PushRejected(p)
DrainStep == ProbeUp \/ ProbeDown \/ DrainSucceeds \/ DrainDeferred \/ DrainDeadLetters

Next ==
  \/ \E c \in Clients, k \in Keys : Push(c, k)
  \/ PushStep
  \/ Tick
  \/ DrainStep
  \/ DrainHangs
  \/ \E c \in Clients : Flip(c) \/ DeleteClient(c)
  \/ Crash

\* The cron schedule keeps ticking, and what the drainer awaits answers unless
\* it hangs.  Nothing is assumed of the pushes' own calls or of the network.
Fairness == WF_vars(Tick) /\ WF_vars(DrainStep)

Spec == Init /\ [][Next]_vars
FairSpec == Spec /\ Fairness

-----------------------------------------------------------------------------
Row == [id : Nat, client : Clients, key : Keys, payload : 1..MaxPush,
        status : Status]
Action == [client : Clients, key : Keys, payload : 1..MaxPush]

\* The state is well formed.
TypeOK ==
  /\ enrolled \subseteq Clients
  /\ reach \subseteq Clients
  /\ rows \subseteq Row
  /\ nextId \in Nat
  /\ pushes \subseteq Action
  /\ todo \subseteq Clients
  /\ batch \subseteq Row
  /\ hung \in BOOLEAN
  /\ seq \in 0..MaxPush
  /\ owed \in [Clients \X Keys -> 0..MaxPush]
  /\ settled \subseteq 1..MaxPush
  /\ raced \subseteq 1..MaxPush
  /\ crashes \in 0..MaxCrash

\* The queue holds at most one action per (client, coalesce key), whatever
\* mixture of coalescing, dead-lettering, client deletion and crashes led there
\* (drainer.ts: "at most one row per (client, coalesceKey)").
OneRowPerTarget ==
  \A r, s \in rows : For(r, s.client, s.key) => r = s

\* markDrained and markFailed act by id, on a snapshot taken before an await:
\* while a snapshot is being drained, the row with a snapshot's id is still the
\* row of that client and key.  A client deleted mid-drain frees no id for
\* another client's row, so no other target's action is deleted by mistake.
SnapshotIdsStable ==
  \A b \in batch, r \in rows : r.id = b.id => For(r, b.client, b.key)

\* A dead-lettered row is not replayed unchanged: whatever the drainer still
\* has to execute is pending, or gone with its client.
DeadLettersNotReplayed ==
  \A b \in batch, r \in rows : r.id = b.id => r.status = "pending"

InFlight == {p.payload : p \in pushes}
Stored == {r.payload : r \in rows}

\* "a missed push is queued, never silently dropped" (schema.ts): a push that
\* the client still needs is running, or the queue holds a row for its target.
MissedPushKept ==
  \A t \in Clients \X Keys :
    owed[t] # 0 /\ t[1] \in enrolled =>
      owed[t] \in InFlight \/ Conflict(rows, t[1], t[2])

\* Every push issued is running, stored or settled, except in one window: it was
\* coalesced onto a row whose older payload the drainer was executing just then.
DroppedOnlyIfRaced == 1..seq \subseteq InFlight \cup Stored \cup settled \cup raced

\* The inductive strengthening: ids identify rows and snapshots and are below
\* the counter, and a row whose payload changed under the drainer is raced.
IdsIdentify ==
  /\ \A r, s \in rows : r.id = s.id => r = s
  /\ \A b, d \in batch : b.id = d.id => b = d
  /\ \A r \in rows \cup batch : r.id < nextId
ChangedIsRaced ==
  \A b \in batch, r \in rows :
    r.id = b.id => r.payload = b.payload \/ r.payload \in raced
IInv ==
  /\ TypeOK
  /\ OneRowPerTarget
  /\ SnapshotIdsStable
  /\ DeadLettersNotReplayed
  /\ DroppedOnlyIfRaced
  /\ IdsIdentify
  /\ ChangedIsRaced

\* A command for client c failed retriably under the drainer.
DeferredOf(c) == DrainDeferred /\ Executing.client = c

\* A client that comes back and stays, and whose commands cease to time out, is
\* eventually drained unless a call of the drainer hangs: no pending row waits
\* for ever behind a poison row, another client, whatever that one's commands
\* do, or a crash.
EventuallyDrained ==
  \A c \in Clients :
    <>[](c \in reach) /\ <>[]~hung /\ <>[][~DeferredOf(c)]_vars
      => <>[](PendingFor(rows, c) = {})

\* "one poison action can't wedge the queue head" (drainer.ts:19), for a client
\* that answers its probe and calls that all come back: if only the commands of
\* one key fail retriably, what is queued for the other keys gets through.  The
\* code dead-letters only what fails for good: a command that times out each time
\* on a client that is up is retried without a cap, and all behind it waits.
PoisonCannotWedge ==
  \A c \in Clients, poison \in Keys :
    /\ <>[](c \in reach) /\ <>[]~hung
    /\ <>[][DeferredOf(c) => Executing.key = poison]_vars
    => <>[](\A r \in PendingFor(rows, c) : r.key = poison)

\* What the refinement below rests on besides: a snapshot has one row per target,
\* and its row is still in the table unless the client is gone, with all its rows.
SnapshotCovers ==
  /\ \A b, d \in batch : For(b, d.client, d.key) => b = d
  /\ \A b \in batch : b.client \in enrolled => \E r \in rows : r.id = b.id
  /\ \A r \in rows : r.client \in enrolled

\* What a table R keeps for a target.
Kept(R, t) ==
  IF Conflict(R, t[1], t[2])
  THEN LET r == CHOOSE s \in R : For(s, t[1], t[2])
       IN [payload |-> r.payload, status |-> r.status]
  ELSE [payload |-> 0, status |-> "empty"]

Boxes == INSTANCE Mailbox WITH
           running <- pushes,
           box <- [t \in Clients \X Keys |-> Kept(rows, t)],
           serving <- {<<b.client, b.key>> : b \in batch},
           count <- seq

\* The table with its ids, its upserts and its deletes by id, drained from a
\* snapshot while pushes, deletions and crashes go on, is one mailbox per
\* target: each step of the queue is one step of module Mailbox, or none.
ImplementsMailbox == Boxes!Spec
=============================================================================

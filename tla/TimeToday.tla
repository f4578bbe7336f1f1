------------------------------ MODULE TimeToday ------------------------------
(***************************************************************************)
(* "Add time today" (server/src/transport/time-today): a same-day nudge of *)
(* a user's remaining time on one client.                                  *)
(*   adjust.ts    an online `timekpra --settimeleft op N`; when it fails   *)
(*                retriably the nudge is queued under a key of its own     *)
(*   executor.ts  replays it as an absolute `--settimeleft = T`; for a +/- *)
(*                nudge T is first resolved from a live --userinfo read    *)
(*                and persisted in the row                                 *)
(* The remote commands are awaited, so nudges, the drainer, midnight and a *)
(* crash interleave between them.  The child's own use of the time is left *)
(* out: remaining changes only by nudges and at midnight.                  *)
(***************************************************************************)
EXTENDS QueueStore, FiniteSets

CONSTANTS Ops,        \* subset of {"+", "-", "="}
          Amounts,    \* magnitudes of a nudge, in minutes
          Start,      \* remaining time at the start of a day
          MaxNudges, MaxDay, MaxCrash   \* bounds


VARIABLES
  day,        \* local calendar date in the user's timezone
  remaining,  \* TIME_LEFT_DAY on the client
  reach,      \* the client answers SSH
  rows, nextId,
  online,     \* adjustTimeToday calls awaiting setTimeLeft
  drain,      \* the drainer's executor: phase, row id and payload snapshot
  nudges, crashes,
  issued,     \* history: <<row id, T>> of every set the executor issued
  due,        \* history: what today's nudges should add up to
  disturbed   \* history: what happened today that may spoil the sum (Spoilers)

vars == <<day, remaining, reach, rows, nextId, online, drain, nudges, crashes,
          issued, due, disturbed>>
history == <<issued, due, disturbed>>

Spoilers == {"set",        \* a `=` nudge was asked for
             "failed",     \* a nudge was reported as failed or dead-lettered
             "ambiguous",  \* an online command took effect, yet timed out
             "leftover",   \* work was left over from another day
             "crash",      \* the server died during an online call
             "stale",      \* an online nudge landed while a queued one held a
                           \* target resolved from an older reading
             "clipped"}    \* nudges overlapped and one of them met no time left: what
                           \* is cut off at zero depends on their order

Unresolved == -1     \* resolvedTargetSeconds: null
Idle == [phase |-> "idle"]

Max0(x) == IF x < 0 THEN 0 ELSE x
\* Mutant: a subtraction that is not clipped at zero.
AppliedUnclipped(op, n, t) == IF op = "=" THEN n ELSE IF op = "+" THEN t + n ELSE t - n
\* timekpra's arithmetic for --settimeleft op n.
Applied(op, n, t) == IF op = "=" THEN n ELSE IF op = "+" THEN t + n ELSE Max0(t - n)
Spoil(why, cond) == IF cond THEN disturbed \cup {why} ELSE disturbed
Clips(op, n, t) == op = "-" /\ n > t
Outstanding == rows # {} \/ online # {} \/ drain # Idle
-----------------------------------------------------------------------------
Init ==
  /\ day = 0 /\ remaining = Start /\ reach \in BOOLEAN
  /\ rows = {} /\ nextId = 1
  /\ online = {} /\ drain = Idle
  /\ nudges = 0 /\ crashes = 0
  /\ issued = {} /\ due = Start /\ disturbed = {}

(* ---- adjustTimeToday ---- *)

\* The admin asks; setTimeLeft is under way.
Ask(op, n) ==
  /\ nudges < MaxNudges
  /\ nudges' = nudges + 1
  /\ online' = online \cup {[n |-> nudges + 1, op |-> op, secs |-> n, asked |-> day,
                             landed |-> FALSE]}
  /\ due' = Applied(op, n, due)
  /\ disturbed' = Spoil("set", op = "=")
                   \cup Spoil("clipped", Outstanding /\ (due = 0 \/ Clips(op, n, due)))
  /\ UNCHANGED <<day, remaining, reach, rows, nextId, drain, crashes, issued>>

\* A target resolved from an older reading of the remaining time is waiting.
TargetPending == drain.phase = "set" \/ \E r \in rows : r.payload.target # Unresolved

\* The command takes effect on the client.
OnlineLands(o) ==
  /\ reach /\ ~o.landed
  /\ remaining' = Applied(o.op, o.secs, remaining)
  /\ online' = (online \ {o}) \cup {[o EXCEPT !.landed = TRUE]}
  /\ disturbed' = Spoil("stale", TargetPending) \cup Spoil("leftover", o.asked # day)
                   \cup Spoil("clipped", /\ Clips(o.op, o.secs, remaining)
                                         /\ rows # {} \/ online # {o} \/ drain # Idle)
  /\ UNCHANGED <<day, reach, rows, nextId, drain, nudges, crashes, issued, due>>

\* "applied".
OnlineApplied(o) ==
  /\ o.landed
  /\ online' = online \ {o}
  /\ UNCHANGED <<day, remaining, reach, rows, nextId, drain, nudges, crashes, history>>

\* Retriable failure (unreachable, or timed out), before or after the command
\* took effect: queued, dated with the day it is NOW; `=` carries its target,
\* +/- resolves it later.
OnlineQueued(o) ==
  /\ online' = online \ {o}
  /\ rows' = Enqueue(rows, nextId, 1, o.n,
                     [op |-> o.op, secs |-> o.secs, date |-> day, asked |-> o.asked,
                      target |-> IF o.op = "=" THEN o.secs ELSE Unresolved])
  /\ nextId' = NextId(rows, nextId, 1, o.n)
  /\ disturbed' = Spoil("ambiguous", o.landed) \cup Spoil("leftover", o.asked # day)
  /\ UNCHANGED <<day, remaining, reach, drain, nudges, crashes, issued, due>>

\* Non-retriable failure: reported as "failed".
OnlineFailed(o) ==
  /\ online' = online \ {o}
  /\ disturbed' = Spoil("failed", TRUE)
  /\ UNCHANGED <<day, remaining, reach, rows, nextId, drain, nudges, crashes,
                 issued, due>>

(* ---- the drainer and the executor ---- *)

\* Rollover expiry: the target date has passed.
Expired(p) == day > p.date

\* execute up to its first await: expired rows are a no-op.
DrainStart ==
  /\ drain = Idle /\ reach
  /\ PendingFor(rows, 1) # {}
  /\ LET r == Oldest(PendingFor(rows, 1)) IN
       /\ drain' = [id |-> r.id, p |-> r.payload,
                    phase |-> IF Expired(r.payload) THEN "expired"
                              ELSE IF r.payload.target = Unresolved THEN "info" ELSE "set"]
  /\ UNCHANGED <<day, remaining, reach, rows, nextId, online, nudges, crashes,
                 issued, due, disturbed>>

\* getUserInfo answered: resolve T and persist it before the set.
DrainResolves ==
  /\ drain.phase = "info" /\ reach
  /\ LET p == [drain.p EXCEPT !.target = Applied(drain.p.op, drain.p.secs, remaining)] IN
       /\ rows' = UpdatePayload(rows, drain.id, p)
       /\ drain' = [drain EXCEPT !.p = p, !.phase = "set"]
  /\ disturbed' = Spoil("clipped", /\ Clips(drain.p.op, drain.p.secs, remaining)
                                   /\ online # {} \/ Cardinality(rows) > 1)
  /\ UNCHANGED <<day, remaining, reach, nextId, online, nudges, crashes, issued, due>>

\* setTimeLeft("=", T) takes effect.
DrainSets ==
  /\ drain.phase = "set" /\ reach
  /\ remaining' = drain.p.target
  /\ drain' = [drain EXCEPT !.phase = "done"]
  /\ issued' = issued \cup {<<drain.id, drain.p.target>>}
  /\ UNCHANGED <<day, reach, rows, nextId, online, nudges, crashes, due,
                 disturbed>>

\* markDrained.
DrainFinishes ==
  /\ drain.phase \in {"done", "expired"}
  /\ drain' = Idle
  /\ rows' = MarkDrained(rows, drain.id)
  /\ UNCHANGED <<day, remaining, reach, nextId, online, nudges, crashes, history>>

\* A command fails retriably, possibly after it took effect: the row stays.
DrainDeferred ==
  /\ drain.phase \in {"info", "set", "done"}
  /\ rows' = RecordAttempt(rows, drain.id)
  /\ drain' = Idle
  /\ UNCHANGED <<day, remaining, reach, nextId, online, nudges, crashes, history>>

\* --userinfo is unusable or a command fails for good.
DrainDeadLetters ==
  /\ drain.phase \in {"info", "set"}
  /\ drain' = Idle
  /\ rows' = MarkFailed(rows, drain.id)
  /\ disturbed' = Spoil("failed", TRUE)
  /\ UNCHANGED <<day, remaining, reach, nextId, online, nudges, crashes, issued, due>>

(* ---- environment ---- *)

Flip ==
  /\ reach' = ~reach
  /\ UNCHANGED <<day, remaining, rows, nextId, online, drain, nudges, crashes, history>>

\* Midnight: the client's remaining time is reset.
Midnight ==
  /\ day < MaxDay
  /\ day' = day + 1
  /\ remaining' = Start
  /\ due' = Start
  /\ disturbed' = IF Outstanding THEN {"leftover"} ELSE {}
  /\ UNCHANGED <<reach, rows, nextId, online, drain, nudges, crashes, issued>>

Crash ==
  /\ crashes < MaxCrash
  /\ crashes' = crashes + 1
  /\ online' = {} /\ drain' = Idle
  /\ disturbed' = Spoil("crash", online # {})
  /\ UNCHANGED <<day, remaining, reach, rows, nextId, nudges, issued, due>>

Next ==
  \/ \E op \in Ops, n \in Amounts : Ask(op, n)
  \/ \E o \in online : OnlineLands(o) \/ OnlineApplied(o) \/ OnlineQueued(o) \/ OnlineFailed(o)
  \/ DrainStart \/ DrainResolves \/ DrainSets \/ DrainFinishes \/ DrainDeferred
  \/ DrainDeadLetters
  \/ Flip \/ Midnight \/ Crash

Spec == Init /\ [][Next]_vars
-----------------------------------------------------------------------------
\* The state is well formed; in particular time left is never negative.
TypeOK ==
  /\ day \in 0..MaxDay /\ remaining \in Nat /\ reach \in BOOLEAN
  /\ \A r \in rows : r.status \in Status /\ r.payload.target \in {Unresolved} \cup Nat
  /\ \A o \in online : o.op \in Ops /\ o.landed \in BOOLEAN
  /\ drain.phase \in {"idle", "info", "set", "done", "expired"}
  /\ drain.phase = "set" => drain.p.target \in Nat
  /\ disturbed \subseteq Spoilers

\* Replaying a row re-issues the same absolute target, through timeouts and
\* crashes between the set and markDrained: the executor never sets two
\* different values for one nudge.
ReplaySameTarget == \A s, t \in issued : s[1] = t[1] => s[2] = t[2]

\* When the day's nudges are all settled they add up, each counted once, through
\* offline spells, replays, and crashes of the drainer -- unless one of the
\* Spoilers happened.
NudgesAddUp == ~Outstanding /\ disturbed = {} => remaining = due
=============================================================================

------------------------------ MODULE Telemetry ------------------------------
(***************************************************************************)
(* The telemetry pull (server/src/enforcement/telemetry-consumer.ts, run   *)
(* by transport/activitywatch/telemetry.ts for each client of a pass): a   *)
(* client's ActivityWatch events since its cursor become usage samples of  *)
(* the one user linked to it.                                              *)
(*                                                                         *)
(* Time is a sequence of units; unit t is [t, t + 1).  ActivityWatch is    *)
(* the record of who used the client in which unit; it answers a query     *)
(* with whole events, i.e. with every maximal run of use that meets the    *)
(* queried window.  What activity the use is of plays no part here.        *)
(***************************************************************************)
EXTENDS Integers, FiniteSets

CONSTANTS Clients, Users,
          NoUser,      \* nobody uses the client
          Lookback,    \* initialLookback, in units
          MaxTime,     \* bound: units of time
          MaxCrash     \* bound: crashes in one behaviour


\* What every instance gives the constants.
ConstantsOK ==
  MaxTime \in Nat /\ Lookback \in Nat /\ MaxCrash \in Nat /\ IsFiniteSet(Users) /\ NoUser \notin Users

Units == 0..(MaxTime - 1)
None == -1                     \* no cursor yet

VARIABLES
  now,
  links,     \* users_on_clients
  log,       \* ActivityWatch: who used the client in each unit so far
  passEnd,   \* currentPassEnd
  todo,      \* clients the pass has still to consume; {} between passes
  pulls,     \* consumers awaiting ActivityWatch: client, user, window
  cursor,    \* the in-memory cursor
  saved,     \* clients.last_telemetry_pull_at
  credit,    \* usage_samples: how often each unit of a client is credited to a user
  first,     \* history: where the client's first successful pull began
  mixed,     \* history: <<client, unit>> not pulled yet when the client's links changed
  crashes

vars == <<now, links, log, passEnd, todo, pulls, cursor, saved, credit, first, mixed, crashes>>

Init ==
  /\ now = 0
  /\ links \in [Clients -> SUBSET Users]
  /\ log = [c \in Clients |-> [t \in Units |-> NoUser]]
  /\ passEnd = 0
  /\ todo = {}
  /\ pulls = {}
  /\ cursor = [c \in Clients |-> None]
  /\ saved = [c \in Clients |-> None]
  /\ credit = [c \in Clients |-> [t \in Units |-> [u \in Users |-> 0]]]
  /\ first = [c \in Clients |-> None]
  /\ mixed = {}
  /\ crashes = 0

(* ---- the pass ---- *)

\* runPass: pin the instant and load the clients.
PassStart ==
  /\ todo = {} /\ pulls = {}
  /\ passEnd' = now
  /\ todo' = Clients
  /\ UNCHANGED <<now, links, log, pulls, cursor, saved, credit, first, mixed, crashes>>

\* The client is unreachable, or its forward failed: a gap.
Skip(c) ==
  /\ c \in todo
  /\ todo' = todo \ {c}
  /\ UNCHANGED <<now, links, log, passEnd, pulls, cursor, saved, credit, first, mixed, crashes>>

Start(c) == IF cursor[c] # None THEN cursor[c]
            ELSE IF passEnd > Lookback THEN passEnd - Lookback ELSE 0

\* Mutant: a shared client is attributed to some one of its users.
ConsumeShared(c) ==
  /\ c \in todo
  /\ todo' = todo \ {c}
  /\ IF links[c] # {} /\ Start(c) < passEnd
     THEN \E u \in links[c] :
            pulls' = pulls \cup {[client |-> c, user |-> u, start |-> Start(c), end |-> passEnd]}
     ELSE UNCHANGED pulls
  /\ UNCHANGED <<now, links, log, passEnd, cursor, saved, credit, first, mixed, crashes>>

\* consume up to its first await: a client without exactly one user, or with
\* nothing new, is left alone.
Consume(c) ==
  /\ c \in todo
  /\ todo' = todo \ {c}
  /\ IF Cardinality(links[c]) = 1 /\ Start(c) < passEnd
     THEN \E u \in links[c] :
            pulls' = pulls \cup {[client |-> c, user |-> u, start |-> Start(c), end |-> passEnd]}
     ELSE UNCHANGED pulls
  /\ UNCHANGED <<now, links, log, passEnd, cursor, saved, credit, first, mixed, crashes>>

\* The units of the events ActivityWatch returns for p: runs of use meeting the
\* window, which extend beyond it on either side.
Run(c, i, j) == \A t \in i..j : t \in Units /\ log[c][t] # NoUser /\ log[c][t] = log[c][i]
Returned(p) ==
  {t \in Units : \E w \in p.start..(p.end - 1) :
     IF t <= w THEN Run(p.client, t, w) ELSE Run(p.client, w, t)}

\* Mutant: the samples are not clipped.
ClipNothing(p) == Returned(p)

\* clipToWindow.
ClipToWindow(p) == Returned(p) \cap (p.start..(p.end - 1))

\* insertUsageSamples: rows are appended, with nothing to make them unique.
Insert(p) ==
  credit' = [credit EXCEPT ![p.client] = [t \in Units |-> [u \in Users |->
               @[t][u] + (IF t \in ClipToWindow(p) /\ u = p.user THEN 1 ELSE 0)]]]

\* Mutant: the durable cursor is not advanced.
AdvanceInMemoryOnly(p) ==
  /\ UNCHANGED saved
  /\ cursor' = [cursor EXCEPT ![p.client] = p.end]

\* saveTelemetryCursor in the transaction of the insert, then the cursor in memory.
Advance(p) ==
  /\ saved' = [saved EXCEPT ![p.client] = p.end]
  /\ cursor' = [cursor EXCEPT ![p.client] = p.end]

\* Both queries answered: samples and cursor commit together.
PullDone(p) ==
  /\ pulls' = pulls \ {p}
  /\ Insert(p)
  /\ Advance(p)
  /\ first' = [first EXCEPT ![p.client] = IF @ = None THEN p.start ELSE @]
  /\ UNCHANGED <<now, links, log, passEnd, todo, mixed, crashes>>

\* Mutant: the cursor moves on although the pull failed.
PullFailsAdvances(p) ==
  /\ pulls' = pulls \ {p}
  /\ Advance(p)
  /\ UNCHANGED <<now, links, log, passEnd, todo, credit, first, mixed, crashes>>

\* A query, the normalisation or the transaction failed: nothing moves.
PullFails(p) ==
  /\ pulls' = pulls \ {p}
  /\ UNCHANGED <<now, links, log, passEnd, todo, cursor, saved, credit, first, mixed, crashes>>

(* ---- the environment ---- *)

\* A unit of time passes; on each client one of its users, or nobody, is active.
TimePasses ==
  /\ now < MaxTime
  /\ now' = now + 1
  /\ \E who \in [Clients -> Users \cup {NoUser}] :
       /\ \A c \in Clients : who[c] \in links[c] \cup {NoUser}
       /\ log' = [c \in Clients |-> [log[c] EXCEPT ![now] = who[c]]]
  /\ UNCHANGED <<links, passEnd, todo, pulls, cursor, saved, credit, first, mixed, crashes>>

\* A user is linked to, or unlinked from, a client.
Relink(c, u) ==
  /\ links' = [links EXCEPT ![c] = IF u \in @ THEN @ \ {u} ELSE @ \cup {u}]
  /\ mixed' = mixed \cup {<<c, t>> : t \in {t \in Units : cursor[c] <= t /\ t < now}}
  /\ UNCHANGED <<now, log, passEnd, todo, pulls, cursor, saved, credit, first, crashes>>

\* The server restarts: the pass is gone and the cursors are loaded again.
Crash ==
  /\ crashes < MaxCrash
  /\ crashes' = crashes + 1
  /\ todo' = {} /\ pulls' = {}
  /\ cursor' = saved                       \* loadTelemetryCursors
  /\ UNCHANGED <<now, links, log, passEnd, saved, credit, first, mixed>>

Next ==
  \/ PassStart
  \/ \E c \in Clients : Skip(c) \/ Consume(c) \/ \E u \in Users : Relink(c, u)
  \/ \E p \in pulls : PullDone(p) \/ PullFails(p)
  \/ TimePasses
  \/ Crash

Spec == Init /\ [][Next]_vars

-----------------------------------------------------------------------------
Instants == {None} \cup 0..MaxTime

\* The state is well formed; a pass's instant is never in the future.
TypeOK ==
  /\ now \in 0..MaxTime /\ passEnd \in 0..now
  /\ links \in [Clients -> SUBSET Users]
  /\ log \in [Clients -> [Units -> Users \cup {NoUser}]]
  /\ todo \subseteq Clients
  /\ pulls \subseteq [client : Clients, user : Users, start : 0..MaxTime, end : 0..MaxTime]
  /\ cursor \in [Clients -> Instants] /\ saved \in [Clients -> Instants]
  /\ credit \in [Clients -> [Units -> [Users -> Nat]]]
  /\ first \in [Clients -> Instants]
  /\ mixed \subseteq Clients \X Units
  /\ crashes \in 0..MaxCrash

\* How many samples credit unit t of client c.
Credits(c, t) == Cardinality({u \in Users : credit[c][t][u] > 0})
Twice(c, t) == \/ Credits(c, t) > 1
               \/ \E u \in Users : credit[c][t][u] > 1

\* "To keep overlapping passes from double-counting" (telemetry-consumer.ts): a unit
\* of use is credited at most once, whatever pulls failed, were skipped or were cut
\* off by a crash, and though ActivityWatch returns one event in several pulls.
NoDoubleCount == \A c \in Clients, t \in Units : ~Twice(c, t)

\* Since a client's first pull no use is lost: the windows tile up to the cursor.
NothingSkipped ==
  \A c \in Clients, t \in Units :
    first[c] # None /\ first[c] <= t /\ t < cursor[c] /\ log[c][t] # NoUser => Credits(c, t) >= 1

\* "attributing to any one would be wrong" (telemetry-consumer.ts): use is credited
\* to the user who used the client, also when several share it -- unless the
\* client's links changed between the use and the pull that credits it.
RightUserUnlessRelinked ==
  \A c \in Clients, t \in Units, u \in Users :
    credit[c][t][u] > 0 => log[c][t] = u \/ <<c, t>> \in mixed
=============================================================================

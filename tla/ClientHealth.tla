---------------------------- MODULE ClientHealth ----------------------------
(***************************************************************************)
(* The clients page: live SSH probes of every client under a concurrency   *)
(* limit and a deadline (server/src/api/clients/health-service.ts,         *)
(* transport/health/prober.ts, util/concurrency.ts), the installer's       *)
(* connection check (transport/health/verifier.ts, verify-routes.ts), the  *)
(* last_seen column they share with the event stream, and the version      *)
(* verdict (version-status.ts).                                            *)
(*                                                                         *)
(* A client is its place in the list.  A version is its release numbers    *)
(* and its pre-release identifiers, the numeric ones the smaller numbers;  *)
(* text that does not parse is Null.                                       *)
(***************************************************************************)
EXTENDS Integers, Sequences, FiniteSets

CONSTANTS Clients,          \* 1..n, by id
          Components,       \* CLIENT_COMPONENTS: a sequence of "systemd", "rest", "deferred"
          Concurrency,      \* how many clients a list probes at once
          Lists,            \* requests for the list
          MaxChecks,        \* attempts the verify limiter allows in a window
          Versions,         \* version texts: Null or [release, pre]
          Null,
          MaxNow            \* bound

\* Some component is probed over SSH, so that a probe that ends has reached the client.
ConstantsOK ==
  /\ IsFiniteSet(Clients) /\ Clients = 1 .. Cardinality(Clients)
  /\ Concurrency \in Nat \ {0}
  /\ Components \in Seq({"systemd", "rest", "deferred"})
  /\ \E i \in 1 .. Len(Components) : Components[i] # "deferred"
  /\ Null \notin BOOLEAN /\ Null \notin {"online", "offline", "unknown", "ssh"}
  /\ Null \notin -1 .. 1 /\ Versions \ {Null} \subseteq [release : Seq(Nat), pre : Seq(Nat)]

VARIABLES
  now,
  rows,       \* client -> [lastSeen, verifiedAt, reachable, reason]
  lists,      \* request -> [state, cursor, racing, results]: racing are the clients awaited
  due,        \* requests whose deadline has passed
  probes,     \* running probes: [list, client, at, step, bad]
  checks,     \* running verifications: [client, at]
  attempts,   \* client -> attempts in the limiter's window
  hist        \* history: client -> [answered, overlapped]

vars == <<now, rows, lists, due, probes, checks, attempts, hist>>

Init ==
  /\ now = 1
  /\ rows = [c \in Clients |-> [lastSeen |-> 0, verifiedAt |-> 0, reachable |-> Null, reason |-> Null]]
  /\ lists = [l \in Lists |-> [state |-> "idle", cursor |-> 0, racing |-> {}, results |-> <<>>]]
  /\ due = {} /\ probes = {} /\ checks = {}
  /\ attempts = [c \in Clients |-> 0]
  /\ hist = [c \in Clients |-> [answered |-> 0, overlapped |-> FALSE]]

-----------------------------------------------------------------------------
(* Versions. *)

cmp(a, b) == IF a < b THEN -1 ELSE IF a > b THEN 1 ELSE 0

\* compareRelease: a missing number is a zero.
compareRelease(a, b) ==
  LET at(s, i) == IF i <= Len(s) THEN s[i] ELSE 0
      differ == {i \in 1 .. (IF Len(a) > Len(b) THEN Len(a) ELSE Len(b)) : at(a, i) # at(b, i)}
      first == CHOOSE i \in differ : \A j \in differ : i <= j
  IN IF differ = {} THEN 0 ELSE cmp(at(a, first), at(b, first))

\* comparePreId: numeric identifiers are below alphabetic ones.
comparePreId(a, b) == cmp(a, b)

\* comparePrerelease: the first identifiers that differ, else the shorter is below.
comparePrerelease(a, b) ==
  LET differ == {i \in 1 .. (IF Len(a) < Len(b) THEN Len(a) ELSE Len(b)) : comparePreId(a[i], b[i]) # 0}
      first == CHOOSE i \in differ : \A j \in differ : i <= j
  IN IF differ = {} THEN cmp(Len(a), Len(b)) ELSE comparePreId(a[first], b[first])

\* compareVersions: a pre-release is below its release; Null when either does not parse.
compareVersions(a, b) ==
  IF a = Null \/ b = Null THEN Null
  ELSE LET r == compareRelease(a.release, b.release)
       IN IF r # 0 THEN r
          ELSE IF a.pre = <<>> \/ b.pre = <<>> THEN cmp(Len(b.pre), 0) - cmp(Len(a.pre), 0)
          ELSE comparePrerelease(a.pre, b.pre)

\* classifyVersionStatus
classifyVersionStatus(client, server, updateRequired) ==
  IF updateRequired THEN "update_required"
  ELSE IF compareVersions(client, server) = Null THEN "unknown"
  ELSE IF compareVersions(client, server) < 0 THEN "outdated" ELSE "up_to_date"

-----------------------------------------------------------------------------
(* One client's probe. *)

touched(c, at) == [rows EXCEPT ![c].lastSeen = at]
answers(c) == [hist EXCEPT ![c].answered = now]

\* The start time of a probe is what it will record: another sighting of the client that
\* is under way may record a later one first.
underWay(c) == (\E p \in probes : p.client = c) \/ (\E v \in checks : v.client = c)
noteOverlap(c) == [hist EXCEPT ![c].overlapped = @ \/ underWay(c)]

\* probe: one component answers.  A deferred one is reported unknown without a call.
probeAnswers(p) ==
  /\ p.step <= Len(Components)
  /\ probes' = (probes \ {p}) \cup {[p EXCEPT !.step = @ + 1]}
  /\ hist' = IF Components[p.step] = "deferred" THEN hist ELSE answers(p.client)
  /\ UNCHANGED <<now, rows, lists, due, checks, attempts>>

\* What the list does with an outcome: the first of the probe and the deadline.
settle(p, entry) ==
  /\ probes' = probes \ {p}
  /\ lists' = IF p.client \in lists[p.list].racing
                THEN [lists EXCEPT ![p.list].racing = @ \ {p.client},
                                   ![p.list].results = [@ EXCEPT ![p.client] = entry]]
                ELSE lists

\* The probe ends: online, and last_seen is refreshed if the list still waits for it.
probeEnds(p) ==
  /\ p.step = Len(Components) + 1
  /\ settle(p, "online")
  /\ rows' = IF p.client \in lists[p.list].racing THEN touched(p.client, p.at) ELSE rows
  /\ UNCHANGED <<now, due, checks, attempts, hist>>

\* A component's call fails with an SshError: offline, every component unknown.
probeFails(p) ==
  /\ p.step <= Len(Components) /\ Components[p.step] # "deferred"
  /\ settle(p, "offline")
  /\ UNCHANGED <<now, rows, due, checks, attempts, hist>>

\* A probe throws something else, which its list isolates to the client.
probeThrows(p) ==
  /\ settle(p, "unknown")
  /\ UNCHANGED <<now, rows, due, checks, attempts, hist>>

-----------------------------------------------------------------------------
(* listClientHealth *)

ListStarts(l) ==
  /\ lists[l].state = "idle"
  /\ lists' = [lists EXCEPT ![l] = [state |-> "running", cursor |-> 0, racing |-> {},
                                    results |-> [c \in Clients |-> Null]]]
  /\ UNCHANGED <<now, rows, due, probes, checks, attempts, hist>>

\* Mutant: one runner more.
runnerCountMore == Concurrency + 1
runnerCount == IF Concurrency < 1 THEN 1 ELSE Concurrency

\* mapWithConcurrency and probeClient: a free runner starts the next client's probe.
RunnerTakes(l) ==
  /\ lists[l].state = "running" /\ Cardinality(lists[l].racing) < runnerCount
  /\ lists[l].cursor < Cardinality(Clients)
  /\ LET c == lists[l].cursor + 1 IN
       /\ lists' = [lists EXCEPT ![l].cursor = c, ![l].racing = @ \cup {c}]
       /\ probes' = probes \cup {[list |-> l, client |-> c, at |-> now, step |-> 1]}
       /\ hist' = noteOverlap(c)
  /\ UNCHANGED <<now, rows, due, checks, attempts>>

\* Mutant: the deadline is armed once every client's probe has started.
DeadlineLate(l) ==
  /\ lists[l].state = "running" /\ l \notin due /\ lists[l].cursor = Cardinality(Clients)
  /\ due' = due \cup {l}
  /\ UNCHANGED <<now, rows, lists, probes, checks, attempts, hist>>

\* The deadline wins the race: the client is reported un-probed and its probe goes on.
Deadline(l) ==
  /\ lists[l].state = "running" /\ l \notin due
  /\ due' = due \cup {l}
  /\ UNCHANGED <<now, rows, lists, probes, checks, attempts, hist>>

TimedOut(l, c) ==
  /\ l \in due /\ c \in lists[l].racing
  /\ lists' = [lists EXCEPT ![l].racing = @ \ {c}, ![l].results[c] = "unknown"]
  /\ UNCHANGED <<now, rows, due, probes, checks, attempts, hist>>

ListAnswers(l) ==
  /\ lists[l].state = "running" /\ lists[l].racing = {} /\ lists[l].cursor = Cardinality(Clients)
  /\ lists' = [lists EXCEPT ![l].state = "answered"]
  /\ UNCHANGED <<now, rows, due, probes, checks, attempts, hist>>

-----------------------------------------------------------------------------
(* The connection check, the event stream's sightings. *)

\* POST /clients/:id/verify: every attempt counts, whatever comes of it.
VerifyStarts(c) ==
  /\ attempts[c] < MaxChecks
  /\ attempts' = [attempts EXCEPT ![c] = @ + 1]
  /\ checks' = checks \cup {[client |-> c, at |-> now]}
  /\ hist' = noteOverlap(c)
  /\ UNCHANGED <<now, rows, lists, due, probes>>

\* recordClientVerification: a success is a sighting too.
recordClientVerification(v, ok) ==
  rows' = [rows EXCEPT ![v.client] =
    [@ EXCEPT !.verifiedAt = v.at, !.reachable = ok, !.reason = IF ok THEN Null ELSE "ssh",
              !.lastSeen = IF ok THEN v.at ELSE rows[v.client].lastSeen]]

VerifyEnds(v, ok) ==
  /\ checks' = checks \ {v}
  /\ recordClientVerification(v, ok)
  /\ hist' = IF ok THEN answers(v.client) ELSE hist
  /\ UNCHANGED <<now, lists, due, probes, attempts>>

\* touchClientLastSeen: the agent's stream connects or disconnects.
StreamSeen(c) ==
  /\ rows' = touched(c, now)
  /\ hist' = [answers(c) EXCEPT ![c].overlapped = @ \/ underWay(c)]
  /\ UNCHANGED <<now, lists, due, probes, checks, attempts>>

Tick ==
  /\ now < MaxNow /\ now' = now + 1
  /\ UNCHANGED <<rows, lists, due, probes, checks, attempts, hist>>

Next ==
  \/ \E p \in probes : probeAnswers(p) \/ probeEnds(p) \/ probeFails(p) \/ probeThrows(p)
  \/ \E l \in Lists : \/ ListStarts(l) \/ RunnerTakes(l) \/ Deadline(l) \/ ListAnswers(l)
                      \/ \E c \in Clients : TimedOut(l, c)
  \/ \E v \in checks, ok \in BOOLEAN : VerifyEnds(v, ok)
  \/ \E c \in Clients : VerifyStarts(c) \/ StreamSeen(c)
  \/ Tick

\* The deadline is a timer, and the runners are promises that have resolved.
Fairness ==
  \A l \in Lists :
    /\ WF_vars(RunnerTakes(l)) /\ WF_vars(Deadline(l)) /\ WF_vars(ListAnswers(l))
    /\ \A c \in Clients : WF_vars(TimedOut(l, c))

Spec == Init /\ [][Next]_vars /\ Fairness

-----------------------------------------------------------------------------
(* Properties. *)

\* An answered list has an entry for every client, and no client it answered for is
\* still awaited.
ListComplete ==
  \A l \in Lists : lists[l].state = "answered" =>
    lists[l].racing = {} /\ \A c \in Clients : lists[l].results[c] # Null

\* While a list's deadline has not passed, it probes no more clients at once than its
\* limit.
BoundedBeforeDeadline ==
  \A l \in Lists : l \notin due => Cardinality({p \in probes : p.list = l}) <= Concurrency

\* last_seen is no later than the client's last answer, and the last successful check is
\* no later than last_seen unless sightings overlapped: each records the time it began.
LastSeenTrue ==
  \A c \in Clients :
    /\ rows[c].lastSeen <= hist[c].answered
    /\ rows[c].reachable = TRUE /\ ~hist[c].overlapped => rows[c].verifiedAt <= rows[c].lastSeen

\* A check's three columns tell one story: a reason exactly when the client was not
\* reached.
VerdictWhole ==
  \A c \in Clients : rows[c].reachable # Null =>
    (rows[c].reason = Null <=> rows[c].reachable)

\* compareVersions orders the versions that parse, so that of two versions at most one is
\* outdated beside the other.
VersionsOrdered ==
  \A a, b \in Versions \ {Null} :
    /\ classifyVersionStatus(a, b, FALSE) = "outdated" =>
         classifyVersionStatus(b, a, FALSE) = "up_to_date"
    /\ \A c \in Versions \ {Null} :
         compareVersions(a, b) <= 0 /\ compareVersions(b, c) <= 0 => compareVersions(a, c) <= 0

\* The four, with probes, checks and sightings overlapping and the deadline at any point.
HealthSound ==
  /\ ListComplete
  /\ BoundedBeforeDeadline
  /\ LastSeenTrue
  /\ VerdictWhole

\* The list answers, though no client does: one wedged host cannot stall the page.
Running(l) == lists[l].state = "running"
ListAnswered == \A l \in Lists : Running(l) ~> ~Running(l)

\* health-service.ts:186: at most so many clients are probed concurrently.
ProbesBounded ==
  \A l \in Lists : Cardinality({p \in probes : p.list = l}) <= Concurrency
=============================================================================

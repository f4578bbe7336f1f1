----------------------------- MODULE AgentCadence -----------------------------
(***************************************************************************)
(* The client agent's warnings (client/agent/src/agent/): the tick that    *)
(* asks the local ActivityWatch for today's use (usage.ts), compares it    *)
(* with the cached budgets (budget.ts) and announces the boundaries of the *)
(* cadence (cadence.ts); and the socket to the bridge (socket-client.ts),  *)
(* over which grants arrive.  The interval does not wait for a tick to     *)
(* end, so ticks overlap, with each other and with events.                 *)
(*                                                                         *)
(* Times are minutes.  ActivityWatch reports overall use only, so the      *)
(* budget of an activity always reads as full.                             *)
(***************************************************************************)
EXTENDS Integers, Sequences, FiniteSets, FiniteSetsExt

CONSTANTS Total,     \* the overall budget pushed at the start
          Coarse, Mid, Fine,   \* the cadence's intervals: 15, 10 and {5, 4, 3, 2, 1}
          Uses, Grants,        \* steps by which use grows, sizes of a grant
          MaxTicks, MaxDay, MaxGrants, MaxUse  \* bounds

VARIABLES day, used, yesterday,   \* ActivityWatch: use of today and of the day before
          awUp,
          total,     \* cached total of the overall budget
          tracker,   \* [thresholds, lastAnnounced, finalAnnounced]
          ticks,     \* ticks under way: [id, day, use], use is -1 until answered, -2 when the query failed
          asked,     \* ticks so far
          sock,      \* "down", "timer", "up"
          wire,      \* frames written by the bridge and not read, as halves
          buffer,    \* the agent's partial frame
          sent,      \* grants the bridge dispatched to a connected agent
          granted,   \* history: grants applied, in order: [frame, from, to], the total before and after
          told,      \* history: [threshold, day] announced by the current tracker
          repeated,  \* history: some boundary was announced twice by one tracker
          early,     \* history: some boundary was announced before it was reached
          seen       \* history: the least remaining time the current tracker was shown

aw == <<day, used, yesterday, awUp>>
link == <<sock, wire, buffer, sent>>
hist == <<granted, told, repeated, early, seen>>
vars == <<aw, total, tracker, ticks, asked, link, hist>>

(* ---- cadence.ts ---- *)

warningThresholdsSeconds(t) ==
  {m \in 1..t : m < t /\ (m % Coarse = 0 \/ m = Mid \/ m \in Fine)}
\* Number.POSITIVE_INFINITY: above every boundary and reading of a total of t.
Infinity(t) == t + 1
CadenceTracker(t) == [thresholds |-> warningThresholdsSeconds(t), lastAnnounced |-> Infinity(t), finalAnnounced |-> FALSE]
\* Mutant: every boundary reached is announced again.
observeAgain(r) ==
  IF r = 0 THEN IF tracker.finalAnnounced THEN -1 ELSE 0
  ELSE LET reached == {t \in tracker.thresholds : r <= t} IN
       IF reached = {} THEN -1 ELSE Min(reached)
\* The boundary to announce for a reading: 0 is time's up, -1 is none.
observe(r) ==
  IF r = 0 THEN IF tracker.finalAnnounced THEN -1 ELSE 0
  ELSE LET reached == {t \in tracker.thresholds : t < tracker.lastAnnounced /\ r <= t} IN
       IF reached = {} THEN -1 ELSE Min(reached)

(* ---- usage.ts, budget.ts ---- *)

remainingSeconds(t, u) == IF t > u THEN t - u ELSE 0
\* An outage, a bad status and a bad body read as no use at all.
usedSeconds(t) == IF t.use = -2 THEN 0 ELSE t.use

(* ---- agent.ts: tick ---- *)

tick ==
  /\ asked < MaxTicks /\ asked' = asked + 1
  /\ ticks' = ticks \cup {[id |-> asked, day |-> day, use |-> -1]}
  /\ UNCHANGED <<aw, total, tracker, link, hist>>
\* ActivityWatch sums the day the query named.
Answer(t) ==
  /\ t.use = -1
  /\ ticks' = (ticks \ {t}) \cup
       {[t EXCEPT !.use = IF ~awUp THEN -2 ELSE IF t.day = day THEN used ELSE yesterday]}
  /\ UNCHANGED <<aw, total, tracker, asked, link, hist>>
\* The rest of the tick: the reading, and what is announced.
Announce(t) ==
  /\ t.use # -1
  /\ LET r == remainingSeconds(total, usedSeconds(t))
         b == observe(r) IN
     /\ tracker' = CASE b = -1 -> tracker
                     [] b = 0 -> [tracker EXCEPT !.lastAnnounced = 0, !.finalAnnounced = TRUE]
                     [] OTHER -> [tracker EXCEPT !.lastAnnounced = b]
     /\ told' = IF b = -1 THEN told ELSE told \cup {b}
     /\ repeated' = (repeated \/ b \in told)
     /\ early' = (early \/ (b # -1 /\ t.day = day /\ remainingSeconds(total, used) > b))
     /\ seen' = IF r < seen THEN r ELSE seen
  /\ ticks' = ticks \ {t}
  /\ UNCHANGED <<aw, total, asked, link, granted>>

(* ---- socket-client.ts and the events ---- *)

connect == /\ sock = "timer" /\ sock' = "up" /\ buffer' = <<>> /\ wire' = <<>>
           /\ UNCHANGED <<aw, total, tracker, ticks, asked, sent, hist>>
\* The bridge's dispatch: a line to every connected agent, none otherwise.
dispatch(g) ==
  /\ sock = "up" /\ Len(sent) < MaxGrants
  /\ sent' = Append(sent, g)
  /\ wire' = wire \o << <<Len(sent) + 1, "head">>, <<Len(sent) + 1, "tail">> >>
  /\ UNCHANGED <<aw, total, tracker, ticks, asked, sock, buffer, hist>>
applyGrant(g) ==
  /\ total' = total + g
  /\ tracker' = CadenceTracker(total + g)
  /\ told' = {} /\ seen' = Infinity(total + g)
\* A chunk: a frame is handled when its delimiter is in.
onData ==
  /\ sock = "up" /\ wire # <<>>
  /\ wire' = Tail(wire)
  /\ IF Head(wire)[2] = "head" THEN buffer' = <<Head(wire)>> /\ UNCHANGED <<total, tracker, hist>>
     ELSE /\ buffer' = <<>>
          /\ applyGrant(sent[Head(wire)[1]])
          /\ granted' = Append(granted, [frame |-> Head(wire)[1], from |-> total, to |-> total'])
          /\ UNCHANGED <<repeated, early>>
  /\ UNCHANGED <<aw, ticks, asked, sock, sent>>
\* "close": what was not read is lost; the reconnect is on its timer.
scheduleReconnect ==
  /\ sock = "up" /\ sock' = "timer" /\ wire' = <<>>
  /\ UNCHANGED <<aw, total, tracker, ticks, asked, buffer, sent, hist>>

(* ---- the world ---- *)

Use == /\ \E u \in Uses : used + u <= MaxUse /\ used' = used + u
       /\ UNCHANGED <<day, yesterday, awUp, total, tracker, ticks, asked, link, hist>>
Midnight == /\ day < MaxDay /\ day' = day + 1 /\ yesterday' = used /\ used' = 0
            /\ UNCHANGED <<awUp, total, tracker, ticks, asked, link, hist>>
AwFlips == /\ awUp' = ~awUp /\ UNCHANGED <<day, used, yesterday, total, tracker, ticks, asked, link, hist>>

Init ==
  /\ day = 1 /\ used = 0 /\ yesterday = 0 /\ awUp = TRUE
  /\ total = Total /\ tracker = CadenceTracker(Total)
  /\ ticks = {} /\ asked = 0
  /\ sock = "timer" /\ wire = <<>> /\ buffer = <<>> /\ sent = <<>>
  /\ granted = <<>> /\ told = {} /\ repeated = FALSE /\ early = FALSE /\ seen = Infinity(Total)

Next ==
  \/ tick \/ (\E t \in ticks : Answer(t) \/ Announce(t))
  \/ connect \/ onData \/ scheduleReconnect \/ (\E g \in Grants : dispatch(g))
  \/ Use \/ Midnight \/ AwFlips
Spec == Init /\ [][Next]_vars

-----------------------------------------------------------------------------
\* With ticks overlapping, answers late, outages and grants between the query
\* and its reading: no boundary is announced twice by one tracker, and none
\* before the budget has come down to it (a tick that straddles midnight aside).
WarnedOnce == ~repeated
NeverEarly == ~early
\* No boundary is passed in silence: what the tracker was shown it has announced.
NothingMissed == \A t \in tracker.thresholds \cup {0} : seen <= t => \E b \in told : b <= t
\* A grant is applied once, in the order sent, and only if its frame came whole.
GrantsInOrder ==
  /\ \A i, j \in DOMAIN granted : i < j => granted[i].frame < granted[j].frame
  /\ \A i \in DOMAIN granted :
       /\ granted[i].to = granted[i].from + sent[granted[i].frame]
       /\ granted[i].from = IF i = 1 THEN Total ELSE granted[i - 1].to
  /\ total = IF granted = <<>> THEN Total ELSE granted[Len(granted)].to
CadenceSound == WarnedOnce /\ NeverEarly /\ NothingMissed /\ GrantsInOrder

\* usage.ts: "the agent keeps warning on the last cached figures" when
\* ActivityWatch does not answer, so within a day the time left never rises
\* from one reading to the next unless a grant came.
LastFiguresKept ==
  [][\A t \in ticks : t \notin ticks' /\ t.use = -2 => remainingSeconds(total, usedSeconds(t)) <= seen]_vars
=============================================================================

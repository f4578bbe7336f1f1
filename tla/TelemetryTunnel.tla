--------------------------- MODULE TelemetryTunnel ---------------------------
(***************************************************************************)
(* One client's turn in a telemetry pass: the loopback port-forward        *)
(* (server/src/transport/ssh/port-forward.ts), the aw-server queries made  *)
(* through it (transport/activitywatch/client.ts) and the normaliser that  *)
(* turns the answers into usage samples (transport/activitywatch/          *)
(* normalise.ts, policy/activity-matcher.ts).                              *)
(*                                                                         *)
(* Time is counted in ticks, Second ticks to the second: samples are kept  *)
(* in whole seconds and events are not.  An app name is a value; which     *)
(* apps a matcher's pattern matches is given with the activity.            *)
(***************************************************************************)
EXTENDS Integers, Sequences, FiniteSets
LOCAL INSTANCE SequencesExt

CONSTANTS Second,       \* ticks in a second
          Activities,   \* [id, kind, exact, compiles, apps]
          WindowLogs,   \* sets of window events aw-server may hold: [app, start, dur, ok]
          AfkLogs,      \* sets of afk events: [status, start, dur, ok]
          From, To,     \* the queried window: the cursor and the pass's instant
          Tolerance,    \* futureToleranceSeconds
          MaxSockets    \* bound: sockets of one forward

VARIABLES
  windowLog, afkLog,    \* what aw-server holds
  phase,                \* "idle", "open", "closed": the forward
  step,                 \* the query to make next: the queries are 1..4
  waiting,              \* the socket the current query waits on; 0 for none
  used,                 \* sockets opened so far
  openSockets, openChannels,
  forwarding,           \* sockets whose forwardOut has not called back
  late,                 \* history: channels opened after the forward was closed
  samples, outcome

logs == <<windowLog, afkLog>>
vars == <<windowLog, afkLog, phase, step, waiting, used, openSockets, openChannels,
          forwarding, late, samples, outcome>>

-----------------------------------------------------------------------------
(* Which activity an app is. *)

\* buildMatchers: app and app_group activities, those whose pattern compiles.
buildMatchers == {a \in Activities : a.kind \in {"app", "app_group"} /\ a.compiles}

\* resolveActivityId: an exact matcher wins, else the lowest id; 0 for none.
resolveActivityId(app) ==
  LET hits == {a \in buildMatchers : app \in a.apps}
      best == IF \E a \in hits : a.exact THEN {a \in hits : a.exact} ELSE hits
  IN IF best = {} THEN 0 ELSE (CHOOSE a \in best : \A b \in best : a.id <= b.id).id

-----------------------------------------------------------------------------
(* Intervals <<start, end>>, in ticks. *)

\* Mutant: a merged interval ends where its last part does.
mergeShrinks(last, iv) == <<last[1], iv[2]>>
mergeInto(last, iv) == <<last[1], IF iv[2] > last[2] THEN iv[2] ELSE last[2]>>

\* mergeIntervals: overlapping and touching intervals become one.
mergeIntervals(ivs) ==
  FoldLeft(LAMBDA acc, iv :
             IF acc # <<>> /\ iv[1] <= Last(acc)[2]
             THEN [acc EXCEPT ![Len(acc)] = mergeInto(@, iv)] ELSE Append(acc, iv),
           <<>>, SetToSortSeq(ivs, LAMBDA x, y : x[1] < y[1]))

Overlap(x, y) == <<IF x[1] > y[1] THEN x[1] ELSE y[1], IF x[2] < y[2] THEN x[2] ELSE y[2]>>

\* intersectWithAllowed.
intersectWithAllowed(iv, allowed) ==
  {o \in {Overlap(iv, w) : w \in allowed} : o[1] < o[2]}

\* notAfkIntervals.
notAfkIntervals(events) ==
  Range(mergeIntervals({<<e.start, e.start + e.dur>> :
                          e \in {x \in events : x.status = "not-afk" /\ x.dur > 0}}))

FutureCutoff == To + Tolerance * Second

\* The spans of the window events that are of activity a, cut off at the future.
SpansOf(a, events) ==
  LET of == {e \in events : e.dur > 0 /\ e.start <= FutureCutoff /\ resolveActivityId(e.app) = a}
      span(e) == <<e.start, IF e.start + e.dur < FutureCutoff THEN e.start + e.dur ELSE FutureCutoff>>
  IN {iv \in {span(e) : e \in of} : iv[1] < iv[2]}

\* normaliseWindowEvents: <<activity, first second, end second>>.  Without afk
\* events all use counts.
normaliseWindowEvents(window, afk) ==
  UNION {LET raw == SpansOf(a, window)
             clipped == IF afk = {} THEN raw
                        ELSE UNION {intersectWithAllowed(iv, notAfkIntervals(afk)) : iv \in raw}
         IN {s \in {<<a, iv[1] \div Second, iv[2] \div Second>> : iv \in Range(mergeIntervals(clipped))} :
               s[2] < s[3]}
         : a \in {x.id : x \in Activities}}

\* clipToWindow, in ticks again: the window need not begin or end on a second.
clipToWindow(ss) ==
  {s \in {<<s[1]>> \o Overlap(<<s[2] * Second, s[3] * Second>>, <<From, To>>) : s \in ss} :
     s[2] < s[3]}

\* insertUsageSamples: the columns hold whole seconds, rounded down on write.
insertUsageSamples(ss) == {<<s[1], s[2] \div Second, s[3] \div Second>> : s \in ss}

-----------------------------------------------------------------------------
(* The forward and the queries made through it. *)

Init ==
  /\ windowLog \in WindowLogs /\ afkLog \in AfkLogs
  /\ phase = "idle" /\ step = 1 /\ waiting = 0 /\ used = 0
  /\ openSockets = {} /\ openChannels = {} /\ forwarding = {} /\ late = {}
  /\ samples = {} /\ outcome = "none"

\* Mutant: the sockets are destroyed and the channels are not.
closeSocketsOnly ==
  /\ phase' = "closed"
  /\ openSockets' = {}
  /\ UNCHANGED openChannels

\* The finally block: sockets and channels are destroyed, the listener closed.
closeServer ==
  /\ phase' = "closed"
  /\ openSockets' = {} /\ openChannels' = {}

\* fn rejects: the client counts as failed.
Reject ==
  /\ closeServer
  /\ waiting' = 0 /\ outcome' = "failed"
  /\ UNCHANGED <<step, used, forwarding, late, samples, logs>>

\* listenLoopback: the listener is up, or its port is taken.
listenLoopback ==
  /\ phase = "idle"
  /\ \/ phase' = "open" /\ UNCHANGED <<step, waiting, used, openSockets, openChannels, forwarding,
                                       late, samples, outcome, logs>>
     \/ Reject

\* getJson on a connection of its own: the listener starts a forwardOut for it.
getJson ==
  /\ phase = "open" /\ waiting = 0 /\ step <= 4 /\ used < MaxSockets
  /\ used' = used + 1
  /\ waiting' = used'
  /\ openSockets' = openSockets \cup {used'}
  /\ forwarding' = forwarding \cup {used'}
  /\ UNCHANGED <<phase, step, openChannels, late, samples, outcome, logs>>

\* getJson on a connection that was kept alive.
getJsonReused(s) ==
  /\ phase = "open" /\ waiting = 0 /\ step <= 4
  /\ s \in openSockets \cap openChannels
  /\ waiting' = s
  /\ UNCHANGED <<phase, step, used, openSockets, openChannels, forwarding, late, samples,
                 outcome, logs>>

\* The forwardOut callback, also when the socket or the forward is gone by then.
forwardOut(s) ==
  /\ s \in forwarding
  /\ forwarding' = forwarding \ {s}
  /\ \/ /\ openChannels' = openChannels \cup {s}
        /\ late' = IF phase = "closed" THEN late \cup {s} ELSE late
        /\ UNCHANGED openSockets
     \/ /\ openSockets' = openSockets \ {s}         \* err: socket.destroy()
        /\ UNCHANGED <<openChannels, late>>
  /\ UNCHANGED <<phase, step, waiting, used, samples, outcome, logs>>

\* A query is answered: buckets, window events, buckets, afk events in turn;
\* malformed entries are skipped.  After the last one the samples are written.
Answered ==
  /\ waiting \in openSockets \cap openChannels
  /\ waiting' = 0 /\ step' = step + 1
  /\ IF step < 4
     THEN UNCHANGED <<phase, openSockets, openChannels, samples, outcome>>
     ELSE /\ samples' = insertUsageSamples(clipToWindow(normaliseWindowEvents(
                           {e \in windowLog : e.ok}, {e \in afkLog : e.ok})))
          /\ outcome' = "succeeded"
          /\ closeServer
  /\ UNCHANGED <<used, forwarding, late, logs>>

\* The query is refused, answered with something else, times out, or its
\* connection is closed under it: the consumer rejects.
QueryFails ==
  /\ waiting # 0
  /\ Reject

\* The client closes a forwarded channel no query waits on.
ChannelClosed(s) ==
  /\ s \in openChannels /\ s # waiting
  /\ openChannels' = openChannels \ {s}
  /\ openSockets' = openSockets \ {s}
  /\ UNCHANGED <<phase, step, waiting, used, forwarding, late, samples, outcome, logs>>

Next ==
  \/ listenLoopback \/ getJson \/ Answered \/ QueryFails
  \/ \E s \in 1..MaxSockets : getJsonReused(s) \/ forwardOut(s) \/ ChannelClosed(s)

Spec == Init /\ [][Next]_vars

-----------------------------------------------------------------------------
\* A closed forward has no socket, and no channel but one whose forwardOut called
\* back after the close, which only a failed query can have left pending.
ForwardClosed ==
  phase = "closed" => /\ openSockets = {}
                      /\ openChannels \subseteq late
                      /\ late # {} => outcome = "failed"

\* The app was in use at tick t, by its definition: some event of it covers t, and
\* the user was not away.
InUse(a, t) ==
  /\ t < FutureCutoff
  /\ \E e \in windowLog : /\ e.ok /\ resolveActivityId(e.app) = a
                          /\ e.start <= t /\ t < e.start + e.dur
  /\ \/ \A e \in afkLog : ~e.ok
     \/ \E e \in afkLog : /\ e.ok /\ e.status = "not-afk"
                          /\ e.start <= t /\ t < e.start + e.dur

\* Samples are whole seconds of use: no second of an activity is in two of them,
\* every second wholly in use is in one, and a second without any use is in none.
SamplesExact ==
  outcome = "succeeded" =>
    \A a \in {x.id : x \in Activities}, s \in (From \div Second)..(To \div Second - 1) :
      LET holding == {x \in samples : x[1] = a /\ x[2] <= s /\ s < x[3]}
          ticks == (s * Second)..((s + 1) * Second - 1)
      IN /\ Cardinality(holding) <= 1
         /\ (\A t \in ticks : InUse(a, t)) => holding # {}
         /\ (\A t \in ticks : ~InUse(a, t)) => holding = {}

\* The tunnel closes and what it brought home is exact.
TunnelSound == ForwardClosed /\ SamplesExact

\* "The listener and any in-flight sockets/channels are always closed when `fn`
\* settles, so a forward can't leak past its window" (port-forward.ts:13-14).
ClosedWhenSettled == phase = "closed" => openSockets = {} /\ openChannels = {}
=============================================================================

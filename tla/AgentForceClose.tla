--------------------------- MODULE AgentForceClose ---------------------------
(***************************************************************************)
(* The client agent's ForceCloseController                                 *)
(* (client/agent/src/agent/force-close.ts) with the two callers that run   *)
(* it un-serialised (agent.ts): the cadence tick, which `begin`s a grace   *)
(* countdown, and the event handler, started once per frame and never      *)
(* awaited, which calls forceCloseNow, or cancel when a grant arrives.     *)
(*                                                                         *)
(* A run is one call of #start that passed its check; it owns one          *)
(* Countdown object.  Timers look the countdown up by ACTIVITY when they   *)
(* fire, so a timer may act on another run's countdown.                    *)
(***************************************************************************)
EXTENDS Integers, FiniteSets

CONSTANTS Activities,
          Grace,        \* graceSeconds, in ticks of the countdown
          MaxRuns,      \* bound: force-closes begun in one behaviour
          MaxAwait      \* bound: #forceClose calls of a run at their await


Runs == 1..MaxRuns

VARIABLES
  active,      \* #active: the run whose countdown the map holds, or 0
  run,         \* the runs
  stopped,     \* stop() was called
  awaiting,    \* history: runs that were at an await when a grant arrived
  overlapped,  \* history: runs begun while another of the activity went on
  granted,     \* history: runs begun before a grant for their activity
  late         \* history: runs that signalled their process after that grant

hist == <<awaiting, overlapped, granted, late>>
vars == <<active, run, stopped, hist>>

NoRun == [act |-> 0, at |-> "none", remaining |-> 0, grace |-> 0, timer |-> FALSE,
          resolving |-> 0, esc |-> FALSE, stray |-> 0]

Init ==
  /\ active = [a \in Activities |-> 0]
  /\ run = [i \in Runs |-> NoRun]
  /\ stopped = FALSE
  /\ awaiting = {} /\ overlapped = {} /\ granted = {} /\ late = {}

\* Something of run i can still act.
Unfinished(i) == \/ run[i].at = "toast"
                 \/ run[i].timer \/ run[i].esc
                 \/ run[i].resolving > 0 \/ run[i].stray > 0

Of(a) == {i \in Runs : run[i].at # "none" /\ run[i].act = a}

(* ---- begin, forceCloseNow: #start ---- *)

\* Mutant: one second too many.
GracesOffByOne == {0, Grace + 1}

\* forceCloseNow passes 0, begin the configured grace.
Graces == {0, Grace}

\* #start up to `await this.#notify(...)`: the repeat check is made here.
Start(i, a, g) ==
  /\ ~stopped
  /\ run[i].at = "none"
  /\ \A j \in Runs : j < i => run[j].at # "none"
  /\ active[a] = 0
  /\ run' = [run EXCEPT ![i] = [NoRun EXCEPT !.act = a, !.at = "toast", !.grace = g]]
  /\ LET others == {j \in Of(a) : Unfinished(j)} IN
       overlapped' = IF others = {} THEN overlapped ELSE overlapped \cup others \cup {i}
  /\ UNCHANGED <<active, stopped, awaiting, granted, late>>

\* The toast and the sound are done: the countdown enters the map, and either
\* #forceClose runs up to `await resolvePids` or the 1 Hz interval starts.
Begin(r) ==
  IF r.grace > 0 THEN [r EXCEPT !.at = "begun", !.remaining = r.grace, !.timer = TRUE]
  ELSE [r EXCEPT !.at = "begun", !.resolving = 1]
Toasted(i) ==
  /\ run[i].at = "toast"
  /\ active' = [active EXCEPT ![run[i].act] = i]
  /\ run' = [run EXCEPT ![i] = Begin(@)]
  /\ UNCHANGED <<stopped, hist>>

(* ---- #tick ---- *)

\* A second of a countdown: at zero its interval stops and #forceClose is called.
\* Values below zero behave like zero.
CountDown(r) ==
  IF r.remaining > 1 THEN [r EXCEPT !.remaining = @ - 1]
  ELSE [r EXCEPT !.remaining = 0, !.timer = FALSE, !.resolving = @ + 1]

\* The interval of run i fires; it counts down the activity's current countdown
\* j (nothing, if there is none).
Tick(i) ==
  /\ run[i].timer
  /\ LET j == active[run[i].act] IN
       /\ j # 0
       /\ run[j].resolving < MaxAwait
       /\ run' = [run EXCEPT ![j] = CountDown(@)]
  /\ UNCHANGED <<active, stopped, hist>>

(* ---- #forceClose, after its await ---- *)

\* Mutant: the activity is left in the map when there was nothing to close.
ResolvedNoneWedges(i) ==
  /\ run[i].resolving > 0
  /\ run' = [run EXCEPT ![i].resolving = @ - 1]
  /\ UNCHANGED <<active, stopped, hist>>

\* resolvePids found no process.
ResolvedNone(i) ==
  /\ run[i].resolving > 0
  /\ run' = [run EXCEPT ![i].resolving = @ - 1]
  /\ active' = [active EXCEPT ![run[i].act] = 0]
  /\ UNCHANGED <<stopped, hist>>

\* A signal sent by run i.
Signals(i) == late' = IF i \in granted THEN late \cup {i} ELSE late

\* SIGTERM, and the SIGKILL timeout is armed; an earlier one is forgotten but
\* still fires.
Resolved(i) ==
  /\ run[i].resolving > 0
  /\ run[i].stray < MaxAwait
  /\ run' = [run EXCEPT ![i].resolving = @ - 1, ![i].esc = TRUE,
                        ![i].stray = IF run[i].esc THEN @ + 1 ELSE @]
  /\ Signals(i)
  /\ UNCHANGED <<active, stopped, awaiting, overlapped, granted>>

\* The SIGKILL timeout fires, and clears whatever the map holds for the activity.
Escalate(i) ==
  /\ \/ run[i].esc /\ run' = [run EXCEPT ![i].esc = FALSE]
     \/ run[i].stray > 0 /\ run' = [run EXCEPT ![i].stray = @ - 1]
  /\ active' = [active EXCEPT ![run[i].act] = 0]
  /\ Signals(i)
  /\ UNCHANGED <<stopped, awaiting, overlapped, granted>>

(* ---- cancel, stop ---- *)

\* Mutant: only the countdown interval is cleared.
ClearIntervalOnly(r) == [r EXCEPT !.timer = FALSE]

\* #clearTimers.
ClearTimers(r) == [r EXCEPT !.timer = FALSE, !.esc = FALSE]

\* #onGrant for activity a: cancel.  No event is handled once the socket is stopped.
Cancel(a) ==
  /\ ~stopped
  /\ \E i \in Of(a) : Unfinished(i)
  /\ IF active[a] = 0 THEN UNCHANGED <<active, run>>
     ELSE /\ run' = [run EXCEPT ![active[a]] = ClearTimers(@)]
          /\ active' = [active EXCEPT ![a] = 0]
  /\ granted' = granted \cup Of(a)
  /\ awaiting' = awaiting \cup {i \in Of(a) : run[i].at = "toast" \/ run[i].resolving > 0}
  /\ UNCHANGED <<stopped, overlapped, late>>

\* stop: every countdown in the map is cleared.
Stop ==
  /\ ~stopped
  /\ stopped' = TRUE
  /\ run' = [i \in Runs |-> IF \E a \in Activities : active[a] = i
                            THEN ClearTimers(run[i]) ELSE run[i]]
  /\ active' = [a \in Activities |-> 0]
  /\ UNCHANGED hist

Await(i) == Toasted(i) \/ ResolvedNone(i) \/ Resolved(i)

Next ==
  \/ \E i \in Runs :
       \/ \E a \in Activities, g \in Graces : Start(i, a, g)
       \/ Toasted(i) \/ ResolvedNone(i) \/ Resolved(i)
       \/ Tick(i) \/ Escalate(i)
  \/ \E a \in Activities : Cancel(a)
  \/ Stop

\* Timers fire, and toasts, sounds and pid lookups return.
Fairness ==
  \A i \in Runs : WF_vars(Await(i)) /\ WF_vars(Tick(i)) /\ WF_vars(Escalate(i))

Spec == Init /\ [][Next]_vars
FairSpec == Spec /\ Fairness

-----------------------------------------------------------------------------
\* The state is well formed.
TypeOK ==
  /\ active \in [Activities -> 0..MaxRuns]
  /\ run \in [Runs -> [act : Activities \cup {0}, at : {"none", "toast", "begun"},
                       remaining : 0..Grace, grace : 0..Grace, timer : BOOLEAN,
                       resolving : 0..MaxAwait, esc : BOOLEAN, stray : 0..MaxAwait]]
  /\ stopped \in BOOLEAN
  /\ \A h \in {awaiting, overlapped, granted, late} : h \subseteq Runs

\* A grant spares the process: no SIGTERM or SIGKILL follows it, unless it landed
\* while #start awaited its toast or #forceClose its pids, or the activity had two
\* runs at once.  In particular a grant in the escalation window always does.
GrantSparesUnlessAwaiting == late \subseteq awaiting \cup overlapped

\* An activity never stays in the map: a later force-close of it is not ignored
\* for good, whatever was cancelled, overlapped or found no process.
InMap(a) == active[a] # 0
NeverWedged == \A a \in Activities : InMap(a) ~> ~InMap(a)
=============================================================================

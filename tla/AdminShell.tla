----------------------------- MODULE AdminShell -----------------------------
(***************************************************************************)
(* The admin page around the views: the session probe, login and logout,   *)
(* the first-run gate that polls the Ansible set-up every two seconds, and *)
(* the shared list resources that the views load and logout resets.        *)
(***************************************************************************)
EXTENDS Integers, FiniteSets

CONSTANTS
  Null,
  MaxPolls,    \* bound on set-up polls
  MaxLogins,   \* bound on logins
  MaxLoads,    \* bound on list loads
  MaxOuts      \* bound on clicks on "Sign out"

Setups == {"idle", "bootstrapping", "ready", "unavailable"}
ConstantsOK ==
  /\ Null \notin Setups \cup {"in", "out", "probe", "login", "check"}
  /\ Null \notin BOOLEAN /\ Null \notin Nat

VARIABLES
  setup,     \* the server's Ansible state
  session,   \* Null while probing, then "out" or "in"
  flow,      \* the probe, login or set-up check under way
  status,    \* setupStatus
  gate,      \* setupGatePassed
  timer,     \* setupPollTimer runs
  polls,     \* set-up requests under way: the login they belong to, the answer
  screen,    \* the set-up screen: Null, or whether its watchdog was armed at mount
  waited,    \* timedOut: the watchdog has fired
  login,     \* logins so far
  outs,      \* sign-outs under way: [n, login]
  data,      \* a list resource: Null, or the login whose load filled it
  inflight,  \* the load that later calls join, or Null
  loads,     \* loads under way: [n, login]
  late,      \* an answer of an earlier login was applied (history)
  count      \* [polls, loads, outs]: how many were started

vars == <<setup, session, flow, status, gate, timer, polls, screen, waited,
          login, outs, data, inflight, loads, late, count>>
page == <<session, flow, status, gate, timer, polls, screen, waited, login, outs>>
lists == <<data, inflight, loads, late>>

Working == {"idle", "bootstrapping"}

Init ==
  /\ setup = "idle" /\ session = Null /\ flow = "probe"
  /\ status = Null /\ gate = FALSE /\ timer = FALSE /\ polls = {}
  /\ screen = Null /\ waited = FALSE /\ login = 0 /\ outs = {}
  /\ data = Null /\ inflight = Null /\ loads = {} /\ late = FALSE
  /\ count = [polls |-> 0, loads |-> 0, outs |-> 0]

\* The bootstrap goes on behind the page; a restart begins it again.
SetupMoves(s) ==
  /\ s \in (CASE setup = "idle" -> {"bootstrapping"}
              [] setup = "bootstrapping" -> {"ready", "unavailable"}
              [] OTHER -> {"idle"})
  /\ setup' = s
  /\ UNCHANGED <<page, lists, count>>

\* What the page shows, and with it whether the set-up screen is mounted; its
\* watchdog is armed at mount unless the set-up has failed already.
Shown(se, st, ga) ==
  CASE se = Null -> "loading"
    [] se = "out" -> "login"
    [] se = "in" /\ ~ga /\ st # Null -> "setup"
    [] OTHER -> "shell"

Page(se, st, ga) ==
  /\ session' = se /\ status' = st /\ gate' = ga
  /\ IF Shown(se, st, ga) # "setup" THEN screen' = Null /\ waited' = FALSE
     ELSE IF screen # Null THEN UNCHANGED <<screen, waited>>
     ELSE screen' = (st # "unavailable") /\ waited' = FALSE

\* probeSession and handleLogin up to their first answer: signed in leads to
\* the set-up check, anything else to the login form.
ProbeAnswered(ok) ==
  /\ flow = "probe"
  /\ IF ok THEN flow' = "check" /\ UNCHANGED <<session, status, gate, screen, waited>>
     ELSE flow' = Null /\ Page("out", status, gate)
  /\ login' = IF ok THEN login + 1 ELSE login
  /\ UNCHANGED <<setup, timer, polls, outs, lists, count>>

handleLogin ==
  /\ session = "out" /\ flow = Null /\ login < MaxLogins
  /\ flow' = "login"
  /\ UNCHANGED <<setup, session, status, gate, timer, polls, screen, waited, login, outs, lists, count>>

LoginAnswered(ok) ==
  /\ flow = "login"
  /\ flow' = IF ok THEN "check" ELSE Null
  /\ login' = IF ok THEN login + 1 ELSE login
  /\ UNCHANGED <<setup, session, status, gate, timer, polls, screen, waited, outs, lists, count>>

\* A plausible bug: the session is surfaced before the set-up state is known.
checkSetupStatusLate(ok) ==
  /\ flow = "check" /\ flow' = Null
  /\ timer' = FALSE
  /\ Page("in", status, gate)
  /\ UNCHANGED <<setup, polls, login, outs, lists, count>>

\* checkSetupStatus is answered, and only then is the session surfaced: ready
\* or unreachable passes the gate, work in progress starts the polling.
checkSetupStatus(ok) ==
  /\ flow = "check" /\ flow' = Null
  /\ timer' = (timer \/ (ok /\ setup \in Working))
  /\ Page("in", IF ok THEN setup ELSE status, gate \/ ~ok \/ setup = "ready")
  /\ UNCHANGED <<setup, polls, login, outs, lists, count>>

\* The interval fires whether or not the last poll was answered.
Poll ==
  /\ timer /\ count.polls < MaxPolls
  /\ polls' = polls \cup {[n |-> count.polls, login |-> login, val |-> Null]}
  /\ count' = [count EXCEPT !.polls = @ + 1]
  /\ UNCHANGED <<setup, session, flow, status, gate, timer, screen, waited, login, outs, lists>>

PollServed(p) ==
  /\ p.val = Null
  /\ polls' = (polls \ {p}) \cup {[p EXCEPT !.val = setup]}
  /\ UNCHANGED <<setup, session, flow, status, gate, timer, screen, waited, login, outs, lists, count>>

\* A poll is answered: its state is shown, a final one stops the polling.
PollAnswered(p) ==
  /\ p.val # Null /\ polls' = polls \ {p}
  /\ timer' = (timer /\ p.val \in Working)
  /\ Page(session, p.val, gate \/ p.val = "ready")
  /\ late' = (late \/ p.login # login)
  /\ UNCHANGED <<setup, flow, login, outs, data, inflight, loads, count>>

PollFails(p) ==
  /\ polls' = polls \ {p}
  /\ UNCHANGED <<setup, session, flow, status, gate, timer, screen, waited, login, outs, lists, count>>

Watchdog ==
  /\ screen # Null /\ screen = TRUE /\ ~waited
  /\ waited' = TRUE
  /\ UNCHANGED <<setup, session, flow, status, gate, timer, polls, screen, login, outs, lists, count>>

\* The button is there when the set-up failed or the watchdog fired.
MayContinue == screen # Null /\ (status = "unavailable" \/ waited)
oncontinue ==
  /\ MayContinue
  /\ timer' = FALSE
  /\ Page(session, status, TRUE)
  /\ UNCHANGED <<setup, flow, polls, login, outs, lists, count>>

\* handleLogout: the polling stops first; whatever the server answers, the page
\* then forgets the session, the gate and the lists.  Nothing disables the button
\* while the server is asked.
handleLogout ==
  /\ Shown(session, status, gate) = "shell" /\ count.outs < MaxOuts
  /\ timer' = FALSE
  /\ outs' = outs \cup {[n |-> count.outs, login |-> login]}
  /\ count' = [count EXCEPT !.outs = @ + 1]
  /\ UNCHANGED <<setup, session, flow, status, gate, polls, screen, waited, login, lists>>

resetResources == data' = Null /\ inflight' = Null /\ UNCHANGED loads

\* The answer to a second click may come after the next login.
LogoutAnswered(o) ==
  /\ outs' = outs \ {o}
  /\ Page("out", Null, FALSE)
  /\ resetResources
  /\ late' = (late \/ o.login # login)
  /\ UNCHANGED <<setup, flow, timer, polls, login, count>>

\* A plausible bug: a load does not join the one under way.
loadAlways ==
  /\ inflight' = count.loads
  /\ loads' = loads \cup {[n |-> count.loads, login |-> login]}
  /\ count' = [count EXCEPT !.loads = @ + 1]

\* load: joins the request under way, or starts one.
load ==
  IF inflight # Null THEN UNCHANGED <<inflight, loads, count>>
  ELSE /\ inflight' = count.loads
       /\ loads' = loads \cup {[n |-> count.loads, login |-> login]}
       /\ count' = [count EXCEPT !.loads = @ + 1]

\* A view mounts and loads its lists.
Mount ==
  /\ Shown(session, status, gate) = "shell" /\ count.loads < MaxLoads
  /\ load
  /\ UNCHANGED <<setup, page, data, late>>

\* The load settles: its items are kept, and the next load starts afresh, even
\* when the load that settles is not the one under way.
Loaded(l, ok) ==
  /\ loads' = loads \ {l} /\ inflight' = Null
  /\ data' = IF ok THEN l.login ELSE data
  /\ late' = (late \/ l.login # login \/ session = "out")
  /\ UNCHANGED <<setup, page, count>>

Next ==
  \/ \E s \in Setups : SetupMoves(s)
  \/ \E ok \in BOOLEAN : ProbeAnswered(ok) \/ LoginAnswered(ok) \/ checkSetupStatus(ok)
  \/ handleLogin
  \/ Poll \/ \E p \in polls : PollServed(p) \/ PollAnswered(p) \/ PollFails(p)
  \/ Watchdog \/ oncontinue
  \/ handleLogout \/ \E o \in outs : LogoutAnswered(o)
  \/ Mount \/ \E l \in loads, ok \in BOOLEAN : Loaded(l, ok)

Spec == Init /\ [][Next]_vars

-----------------------------------------------------------------------------

\* The views are shown only once the gate is known to be open: set-up ready,
\* unreachable, or waved through by the admin.
KnownBeforeShown == session = "in" => gate \/ status # Null

\* An admin on the set-up screen can always leave it, now or when the watchdog
\* fires or the polling sees the end, unless a poll or a second sign-out outlived
\* its login and was answered on top of a newer one.
NotStranded == screen # Null => MayContinue \/ screen = TRUE \/ timer \/ late

\* Views that mount together share one request, and the list on the page is
\* that of this login, unless a load outlived the login that made it.
OneLoadAtATime == \A l, k \in loads : l.login = k.login => l = k \/ late
ListsOfThisLogin == data # Null => data = login \/ late

ShellSound == KnownBeforeShown /\ NotStranded /\ OneLoadAtATime /\ ListsOfThisLogin

\* "guarding against a permanently-stalled install that would otherwise pin the
\* admin on this screen indefinitely": the set-up screen always has, or will
\* get, its way out.
NeverPinned == screen # Null => MayContinue \/ screen = TRUE \/ timer

\* "Drop all state (logout)": signed out, no list is left.
DroppedAtLogout == session = "out" => data = Null

=============================================================================

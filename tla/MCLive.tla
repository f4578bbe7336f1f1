------------------------------ MODULE MCLive -------------------------------
(***************************************************************************)
(* Small instances of the components that must keep going: the agent's     *)
(* force-close and its warnings, the event stream, the AdGuard supervisor  *)
(* and the list of client health.  They share no state: one behaviour is   *)
(* about one of them, named by focus, and the variables of the others      *)
(* stay Null.                                                              *)
(***************************************************************************)
EXTENDS Integers, Sequences, FiniteSets, TLC

CONSTANTS
  Activities, Grace, MaxRuns, MaxAwait,              \* AgentForceClose
  Total, Coarse, Mid, Fine, Uses, Grants, MaxTicks, MaxDay, MaxGrants, MaxUse,  \* AgentCadence
  Clients, MaxSock, MaxSeq, First,                   \* EventStream
  Versions, Null, MaxRestarts, MaxSpawns, MaxBoots,  \* AdGuardSupervisor
  Machines, MaxNow                                   \* ClientHealth

\* Absent values and bounds as every instance gives them.
ASSUME LiveAssumption ==
  /\ MaxSeq \in Nat /\ MaxRestarts \in Nat /\ Null \notin Nat
  /\ Grace \in Nat /\ MaxRuns \in Nat /\ MaxAwait \in Nat \ {0}
  /\ Total \in Nat /\ Coarse \in Nat \ {0} /\ Uses \subseteq Nat /\ Grants \subseteq Nat

VARIABLES
  focus,                                                            \* the component this behaviour is about
  active, run, stopped, awaiting, overlapped, granted, late,        \* AgentForceClose
  day, used, yesterday, awUp, total, tracker, ticks, asked, link, frames, buffer, sent,
  added, told, repeated, early, seen,                               \* AgentCadence
  sock, wire, flag, reconnect, attached, seq, got,                  \* EventStream
  boot, up, want, disk, acq, sup, child, procs, spawned, stopping, stopCall, count,
  stable, timers, health, probe, streak, broken,                    \* AdGuardSupervisor
  now, rows, lists, due, probes, checks, attempts, hist             \* ClientHealth

Agent == INSTANCE AgentForceClose
Cadence == INSTANCE AgentCadence WITH sock <- link, wire <- frames, granted <- added
Stream == INSTANCE EventStream
AdGuard == INSTANCE AdGuardSupervisor
Health == INSTANCE ClientHealth WITH
  Clients <- Machines, Components <- <<"systemd">>, Concurrency <- 1, Lists <- {1},
  MaxChecks <- 0, Versions <- {Null}

agentVars == <<active, run, stopped, awaiting, overlapped, granted, late>>
cadenceVars == <<day, used, yesterday, awUp, total, tracker, ticks, asked, link, frames,
                 buffer, sent, added, told, repeated, early, seen>>
streamVars == <<sock, wire, flag, reconnect, attached, seq, got>>
adguardVars == <<boot, up, want, disk, acq, sup, child, procs, spawned, stopping, stopCall, count,
                 stable, timers, health, probe, streak, broken>>
healthVars == <<now, rows, lists, due, probes, checks, attempts, hist>>
vars == <<focus, agentVars, cadenceVars, streamVars, adguardVars, healthVars>>

AgentIdle ==
  /\ active = Null /\ run = Null /\ stopped = Null /\ awaiting = Null
  /\ overlapped = Null /\ granted = Null /\ late = Null
CadenceIdle ==
  /\ day = Null /\ used = Null /\ yesterday = Null /\ awUp = Null /\ total = Null
  /\ tracker = Null /\ ticks = Null /\ asked = Null /\ link = Null /\ frames = Null
  /\ buffer = Null /\ sent = Null /\ added = Null /\ told = Null /\ repeated = Null
  /\ early = Null /\ seen = Null
StreamIdle ==
  /\ sock = Null /\ wire = Null /\ flag = Null /\ reconnect = Null
  /\ attached = Null /\ seq = Null /\ got = Null
AdGuardIdle ==
  /\ boot = Null /\ up = Null /\ want = Null /\ disk = Null /\ acq = Null /\ sup = Null
  /\ child = Null /\ procs = Null /\ spawned = Null /\ stopping = Null /\ stopCall = Null
  /\ count = Null /\ stable = Null /\ timers = Null /\ health = Null /\ probe = Null
  /\ streak = Null /\ broken = Null
HealthIdle ==
  /\ now = Null /\ rows = Null /\ lists = Null /\ due = Null
  /\ probes = Null /\ checks = Null /\ attempts = Null /\ hist = Null

Init ==
  \/ focus = "agent" /\ Agent!Init /\ CadenceIdle /\ StreamIdle /\ AdGuardIdle /\ HealthIdle
  \/ focus = "cadence" /\ Cadence!Init /\ AgentIdle /\ StreamIdle /\ AdGuardIdle /\ HealthIdle
  \/ focus = "stream" /\ Stream!Init /\ AgentIdle /\ CadenceIdle /\ AdGuardIdle /\ HealthIdle
  \/ focus = "adguard" /\ AdGuard!Init /\ AgentIdle /\ CadenceIdle /\ StreamIdle /\ HealthIdle
  \/ focus = "health" /\ Health!Init /\ AgentIdle /\ CadenceIdle /\ StreamIdle /\ AdGuardIdle

\* A step of a component, in a behaviour that is about it: the others stay idle.
InAgent(A) ==
  focus = "agent" /\ A /\ UNCHANGED <<focus, cadenceVars, streamVars, adguardVars, healthVars>>
InCadence(A) ==
  focus = "cadence" /\ A /\ UNCHANGED <<focus, agentVars, streamVars, adguardVars, healthVars>>
InStream(A) ==
  focus = "stream" /\ A /\ UNCHANGED <<focus, agentVars, cadenceVars, adguardVars, healthVars>>
InAdGuard(A) ==
  focus = "adguard" /\ A /\ UNCHANGED <<focus, agentVars, cadenceVars, streamVars, healthVars>>
InHealth(A) ==
  focus = "health" /\ A /\ UNCHANGED <<focus, agentVars, cadenceVars, streamVars, adguardVars>>

AgentNext == InAgent(Agent!Next)
CadenceNext == InCadence(Cadence!Next)
StreamNext == InStream(Stream!Next)
AdGuardNext == InAdGuard(AdGuard!Next)
HealthNext == InHealth(Health!Next)

Next ==
  \/ AgentNext
  \/ CadenceNext
  \/ StreamNext
  \/ AdGuardNext
  \/ HealthNext

\* The fairness each component states for itself, on its own behaviours.
Fairness ==
  /\ \A i \in Agent!Runs :
       /\ WF_agentVars(InAgent(Agent!Await(i)))
       /\ WF_agentVars(InAgent(Agent!Tick(i)))
       /\ WF_agentVars(InAgent(Agent!Escalate(i)))
  /\ \A s \in Stream!Sockets :
       /\ WF_streamVars(InStream(Stream!HelloTimeout(s)))
       /\ WF_streamVars(InStream(Stream!HeartbeatTick(s)))
       /\ WF_streamVars(InStream(Stream!ServerClosed(s)))
       /\ WF_streamVars(InStream(Stream!BridgeClosed(s)))
       /\ WF_streamVars(InStream(Stream!FrameArrives(s)))
  /\ WF_adguardVars(InAdGuard(AdGuard!probeManaged))
  /\ WF_adguardVars(InAdGuard(AdGuard!Answers))
  /\ WF_adguardVars(InAdGuard(AdGuard!probeRecorded))
  /\ WF_healthVars(InHealth(Health!RunnerTakes(1)))
  /\ WF_healthVars(InHealth(Health!Deadline(1)))
  /\ WF_healthVars(InHealth(Health!ListAnswers(1)))
  /\ \A c \in Machines : WF_healthVars(InHealth(Health!TimedOut(1, c)))

Spec == Init /\ [][Next]_vars /\ Fairness

-----------------------------------------------------------------------------
\* A refused agent is never registered, and an agent sees each event once and in
\* order, across reconnects.
StreamSound ==
  focus = "stream" => Stream!TypeOK /\ Stream!RefusedNeverRegistered /\ Stream!FramesInOrder

\* One AdGuard Home at a time, none after a stop, no more restarts than the cap,
\* and of the version asked for.
SupervisorSound == focus = "adguard" => AdGuard!SupervisorSound /\ AdGuard!RunsWhatWasAsked

\* Warnings come once, none is skipped or early, and a grant spares the
\* application unless its force-close was already past the last check.
AgentSound ==
  /\ focus = "cadence" => Cadence!CadenceSound
  /\ focus = "agent" => Agent!TypeOK /\ Agent!GrantSparesUnlessAwaiting

\* A compatible connect clears a stale update-required flag.
ConnectClearsFlag == [][focus = "stream" => Stream!ConnectStep]_vars

\* A force-close never stays in the agent's map for good.
NeverWedged == focus = "agent" /\ Agent!InMap(1) ~> ~(focus = "agent" /\ Agent!InMap(1))

\* A half-open socket does not linger at the server.
HalfOpenReaped ==
  \A s \in Stream!Sockets :
    focus = "stream" /\ Stream!Lingers(s) ~> ~(focus = "stream" /\ Stream!Lingers(s))

\* An AdGuard Home that was given up on is reported as an error.
FailureReported ==
  focus = "adguard" /\ AdGuard!Unreported ~> ~(focus = "adguard" /\ AdGuard!Unreported)

\* The health list is answered, though no client answers.
ListAnswered ==
  focus = "health" /\ Health!Running(1) ~> ~(focus = "health" /\ Health!Running(1))
=============================================================================

------------------------- MODULE AdGuardSupervisor -------------------------
(***************************************************************************)
(* The managed AdGuard Home process (transport/adguard/supervisor.ts), the *)
(* acquisition of its binary (acquire.ts), its restart backoff (backoff.ts)*)
(* and the health the service reports (service.ts, health-poller.ts).      *)
(*                                                                         *)
(* main.ts bootstraps the supervisor once per boot and app.close() stops   *)
(* it.  The data volume (binary, version sentinel) survives a crash of the *)
(* container; every process does not.  Writing the binary is a synchronous *)
(* call: nothing of the server interleaves with it but its own death.      *)
(***************************************************************************)
EXTENDS Naturals, FiniteSets

CONSTANTS Versions,     \* upstream releases
          Null,
          MaxRestarts,  \* the restart cap
          MaxSpawns,    \* bound: child processes
          MaxBoots      \* bound: boots of the server

VARIABLES boot,      \* boots so far
          up,        \* the server runs
          want,      \* the pinned version, Null when unpinned
          disk,      \* [bin, whole, sentinel]
          acq,       \* "none", "fetching", "torn", "written": the acquisition under way
          sup,       \* lifecycle state
          child, procs, spawned, \* current child, live processes, ids given out
          stopping, stopCall,
          count, stable, timers, \* backoff count, the child ran for stableMs, restarts pending
          health, probe,         \* reported health; the probe under way
          streak, broken         \* history: spawns since a stable one; a write was interrupted

supVars == <<sup, child, procs, spawned, stopping, stopCall, count, stable, timers, streak>>
healthVars == <<health, probe>>
bootVars == <<boot, up, want, broken>>
vars == <<boot, up, want, disk, acq, sup, child, procs, spawned, stopping, stopCall, count, stable,
          timers, health, probe, streak, broken>>

Fresh ==
  /\ acq = "none" /\ sup = "idle" /\ child = Null /\ procs = {} /\ spawned = 0
  /\ stopping = FALSE /\ stopCall = "none" /\ count = 0 /\ stable = FALSE /\ timers = 0
  /\ health = "unknown" /\ probe = "none" /\ streak = 0
Init ==
  /\ Fresh /\ boot = 0 /\ up = FALSE /\ want = Null /\ broken = FALSE
  /\ disk = [bin |-> Null, whole |-> FALSE, sentinel |-> Null]

\* The server executes JavaScript: it is up and not inside a synchronous write.
Running == up /\ acq \notin {"torn", "written"}

(* ---- lifecycle.ts ---- *)

STATE_TRANSITIONS ==
  [idle |-> {"fetching", "stopped"}, fetching |-> {"starting", "failed", "stopped"},
   starting |-> {"running", "failed"}, running |-> {"starting", "failed", "stopped"},
   stopped |-> {"fetching"}, failed |-> {"fetching", "stopped"}]

(* ---- supervisor.ts ---- *)

\* Mutant: a stop that landed during the download is ignored.
spawnChildAlways ==
  /\ spawned' = spawned + 1 /\ child' = spawned + 1 /\ procs' = procs \cup {spawned + 1}
  /\ stable' = FALSE /\ streak' = streak + 1 /\ sup' = "running"

\* "starting" and "running" are settled in one turn.
spawnChild ==
  IF stopping THEN UNCHANGED <<spawned, child, procs, stable, streak, sup>>
  ELSE /\ spawned' = spawned + 1 /\ child' = spawned + 1 /\ procs' = procs \cup {spawned + 1}
       /\ stable' = FALSE /\ streak' = streak + 1 /\ sup' = "running"

\* main.ts: once the server listens, with the configuration of this boot.
Bootstrap ==
  /\ ~up /\ boot < MaxBoots
  /\ up' = TRUE /\ boot' = boot + 1 /\ want' \in Versions \cup {Null}
  /\ sup' = "fetching" /\ acq' = "fetching"
  /\ UNCHANGED <<disk, child, procs, spawned, stopping, stopCall, count, stable, timers, streak,
                 broken, healthVars>>

\* The present binary is kept: unpinned, or the sentinel names the pin.
acquireReuse ==
  /\ up /\ acq = "fetching" /\ spawned < MaxSpawns
  /\ disk.bin # Null /\ (want = Null \/ disk.sentinel = want)
  /\ acq' = "none" /\ spawnChild
  /\ UNCHANGED <<disk, stopping, stopCall, count, timers, bootVars, healthVars>>

writeBinary(v) == disk' = [disk EXCEPT !.bin = v, !.whole = FALSE]

\* Downloaded and checked: the write opens the file, truncating it.
acquireDownloads ==
  /\ up /\ acq = "fetching"
  /\ disk.bin = Null \/ (want # Null /\ disk.sentinel # want)
  /\ \E v \in (IF want = Null THEN Versions ELSE {want}) : writeBinary(v)
  /\ acq' = "torn"
  /\ UNCHANGED <<supVars, bootVars, healthVars>>
acquireWritten ==
  /\ up /\ acq = "torn"
  /\ acq' = "written" /\ disk' = [disk EXCEPT !.whole = TRUE]
  /\ UNCHANGED <<supVars, bootVars, healthVars>>
writeSentinel ==
  /\ up /\ acq = "written" /\ spawned < MaxSpawns
  /\ acq' = "none" /\ disk' = [disk EXCEPT !.sentinel = disk.bin]
  /\ spawnChild
  /\ UNCHANGED <<stopping, stopCall, count, timers, bootVars, healthVars>>

\* No network, no asset for the platform, no or a wrong checksum: bootstrap
\* records "failed", even over the "stopped" of a stop that came first.
acquireFails ==
  /\ up /\ acq = "fetching"
  /\ disk.bin = Null \/ (want # Null /\ disk.sentinel # want)
  /\ acq' = "none" /\ sup' = "failed"
  /\ UNCHANGED <<disk, child, procs, spawned, stopping, stopCall, count, stable, timers, streak,
                 bootVars, healthVars>>

\* stop() is waiting for the exit this releases.
releaseExitWaiters == stopCall' = (IF stopCall \in {"waiting", "killing"} THEN "done" ELSE stopCall)

onSpawnError ==
  /\ Running /\ child # Null /\ ~stable
  /\ child' = Null /\ procs' = procs \ {child} /\ sup' = "failed"
  /\ releaseExitWaiters
  /\ UNCHANGED <<disk, acq, spawned, stopping, count, stable, timers, streak, bootVars, healthVars>>

\* Mutant: every exit starts a new series.
nextDelayMsForgets == 1

\* backoff.ts: the count to go on with; the cap is reached when it is > MaxRestarts.
nextDelayMs == (IF stable THEN 0 ELSE count) + 1

onExit ==
  /\ Running /\ child # Null
  /\ child' = Null /\ procs' = procs \ {child}
  /\ releaseExitWaiters
  /\ IF stopping THEN sup' = "stopped" /\ UNCHANGED <<count, timers, streak>>
     ELSE /\ streak' = (IF stable THEN 0 ELSE streak)
          /\ IF nextDelayMs > MaxRestarts
             THEN sup' = "failed" /\ count' = (IF stable THEN 0 ELSE count) /\ UNCHANGED timers
             ELSE count' = nextDelayMs /\ timers' = timers + 1 /\ UNCHANGED sup
  /\ UNCHANGED <<disk, acq, spawned, stopping, stable, bootVars, healthVars>>

scheduleRestart ==
  /\ Running /\ timers > 0 /\ spawned < MaxSpawns
  /\ timers' = timers - 1 /\ spawnChild
  /\ UNCHANGED <<disk, acq, stopping, stopCall, count, bootVars, healthVars>>

\* onClose: SIGTERM, or nothing to stop.
stop ==
  /\ Running /\ stopCall = "none"
  /\ stopping' = TRUE
  /\ IF child = Null THEN stopCall' = "done" /\ sup' = "stopped"
     ELSE stopCall' = "waiting" /\ UNCHANGED sup
  /\ UNCHANGED <<disk, acq, child, procs, spawned, count, stable, timers, streak, bootVars, healthVars>>
stopTimeout ==
  /\ Running /\ stopCall = "waiting"
  /\ stopCall' = "killing"
  /\ UNCHANGED <<disk, acq, sup, child, procs, spawned, stopping, count, stable, timers, streak,
                 bootVars, healthVars>>

StaysUp ==
  /\ up /\ child # Null /\ ~stable /\ stable' = TRUE
  /\ UNCHANGED <<disk, acq, sup, child, procs, spawned, stopping, stopCall, count, timers, streak,
                 bootVars, healthVars>>
\* The container dies, or the server exits once stop() has returned.
Crash ==
  /\ up /\ up' = FALSE
  /\ broken' = (broken \/ acq \in {"torn", "written"})
  /\ acq' = "none" /\ sup' = "idle" /\ child' = Null /\ procs' = {} /\ spawned' = 0
  /\ stopping' = FALSE /\ stopCall' = "none" /\ count' = 0 /\ stable' = FALSE /\ timers' = 0
  /\ health' = "unknown" /\ probe' = "none" /\ streak' = 0
  /\ UNCHANGED <<boot, want, disk>>

(* ---- service.ts: the health poll, which never overlaps itself ---- *)

\* Mutant: a failed supervisor keeps its last health.
managedNonRunningHealthKept(s) ==
  CASE s \in {"idle", "fetching", "starting"} -> "unknown" [] s = "stopped" -> "unreachable" [] s = "failed" -> health
managedNonRunningHealth(s) ==
  CASE s \in {"idle", "fetching", "starting"} -> "unknown" [] s = "stopped" -> "unreachable" [] s = "failed" -> "error"

\* The state is read here and the answer recorded after the await.  app.close()
\* stops the poll before it stops the supervisor.
probeManaged ==
  /\ Running /\ probe = "none" /\ stopCall = "none"
  /\ IF sup = "running" THEN probe' = "asked" /\ UNCHANGED health
     ELSE health' = managedNonRunningHealth(sup) /\ UNCHANGED probe
  /\ UNCHANGED <<disk, acq, supVars, bootVars>>
Answers ==
  /\ up /\ probe = "asked"
  /\ \/ child # Null /\ probe' \in {"ok", "unhealthy", "error"}
     \/ probe' = "unreachable"
  /\ UNCHANGED <<disk, acq, supVars, bootVars, health>>
probeRecorded ==
  /\ Running /\ probe \notin {"none", "asked"}
  /\ health' = probe /\ probe' = "none"
  /\ UNCHANGED <<disk, acq, supVars, bootVars>>

Next ==
  \/ Bootstrap \/ acquireReuse \/ acquireDownloads \/ acquireWritten \/ writeSentinel \/ acquireFails
  \/ onSpawnError \/ onExit \/ scheduleRestart \/ stop \/ stopTimeout \/ StaysUp \/ Crash
  \/ probeManaged \/ Answers \/ probeRecorded

\* Timers fire, the HTTP client times out and the poll is a cron job.
Fairness == WF_vars(probeManaged) /\ WF_vars(Answers) /\ WF_vars(probeRecorded)
Spec == Init /\ [][Next]_vars /\ Fairness

-----------------------------------------------------------------------------
\* However exits, restarts, spawn errors, a late download and a shutdown fall:
\* one AdGuard Home at a time, none left behind by a stop() that returned, and
\* no more than the cap's restarts without a stable run in between.
OneChild == procs = {child} \ {Null}
NoneAfterStop == stopCall = "done" => procs = {}
CapHolds == streak <= MaxRestarts + 1

\* The process runs the version asked for, from a file written whole, unless
\* the server once died between opening the binary and writing the sentinel.
RunsWhatWasAsked ==
  child # Null /\ ~broken => disk.whole /\ want \in {Null, disk.bin}

SupervisorSound == OneChild /\ NoneAfterStop /\ CapHolds /\ RunsWhatWasAsked

\* A supervisor that has given up is reported as such, even if an older probe
\* still brings good news.
Unreported == sup = "failed" /\ health # "error" /\ ~stopping
FailureReported == Unreported ~> ~Unreported

\* Lifecycle changes are the declared ones ("Derived from the supervisor's
\* actual paths"), "starting" being settled within the turn.
DeclaredTransitions ==
  [][up /\ up' /\ sup' # sup =>
       \/ sup' \in STATE_TRANSITIONS[sup]
       \/ sup' = "running" /\ "starting" \in STATE_TRANSITIONS[sup]]_vars
=============================================================================

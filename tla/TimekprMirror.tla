---------------------------- MODULE TimekprMirror ----------------------------
(***************************************************************************)
(* The managed timekpr-next mirror (transport/timekpr-mirror/): a daily    *)
(* refresh that asks Launchpad for the published package, downloads it     *)
(* when the data directory does not hold it, and backs off when it fails.  *)
(* main.ts starts the job and calls tick() once itself, outside the job's  *)
(* overlap protection, so two ticks may be under way at once.              *)
(***************************************************************************)
EXTENDS Integers, Sequences, SequencesExt

CONSTANTS Versions, Null,
          Pins,        \* values of PCT_TIMEKPR_MIRROR_VERSION: versions or Null
          Base, MaxDelay,        \* DEFAULT_REFRESH_BACKOFF, in units of time
          MaxNow, MaxBoots, MaxChanges  \* bounds

VARIABLES up, boots, now,
          pin,         \* this boot's pinned version
          listing,     \* Launchpad's published binaries, newest first
          files,       \* the data directory: version -> "none", "torn" or "whole"
          sentinel,    \* content of the version sentinel, Null if absent or cut short
          tick,        \* of "boot" and "cron": "idle", "resolving" or the version being downloaded
          failures, nextEligibleAt,
          changes,     \* bound: changes made by Launchpad and the operator
          torn         \* history: versions cut short while the sentinel named them

vars == <<up, boots, now, pin, listing, files, sentinel, tick, failures, nextEligibleAt, changes, torn>>
disk == <<files, sentinel>>
backoff == <<failures, nextEligibleAt>>
env == <<up, boots, now, pin, listing, changes, torn>>

Delay(f) == LET d == Base * 2^(f - 1) IN IF d < MaxDelay THEN d ELSE MaxDelay

\* startTimekprMirrorRefresh and the tick main.ts kicks off.
Boot ==
  /\ ~up /\ boots < MaxBoots
  /\ up' = TRUE /\ boots' = boots + 1 /\ pin' \in Pins
  /\ tick' = [tick EXCEPT !["boot"] = "resolving"]
  /\ failures' = 0 /\ nextEligibleAt' = 0
  /\ UNCHANGED <<now, listing, disk, changes, torn>>
\* The cron job's tick; the protected job never overlaps itself.
Tick ==
  /\ up /\ tick["cron"] = "idle" /\ now >= nextEligibleAt
  /\ tick' = [tick EXCEPT !["cron"] = "resolving"]
  /\ UNCHANGED <<env, disk, backoff>>

Done(t) == tick' = [tick EXCEPT ![t] = "idle"] /\ failures' = 0 /\ nextEligibleAt' = 0
Failed(t) ==
  /\ tick' = [tick EXCEPT ![t] = "idle"]
  /\ failures' = failures + 1
  /\ nextEligibleAt' = now + Delay(failures + 1)

parseLatestPublication == Head(listing)
\* The publication to mirror, Null when there is none of that version.
selectPinnedPublication == IF pin \in ToSet(listing) THEN pin ELSE Null
Wanted == IF pin # Null THEN selectPinnedPublication ELSE IF listing = <<>> THEN Null ELSE parseLatestPublication

AlreadyCurrent(v) == files[v] # "none" /\ sentinel = v

\* Launchpad answered: the file is there, or its download begins.
resolvePublication(t) ==
  /\ up /\ tick[t] = "resolving" /\ Wanted # Null
  /\ IF AlreadyCurrent(Wanted) THEN Done(t)
     ELSE tick' = [tick EXCEPT ![t] = Wanted] /\ UNCHANGED backoff
  /\ UNCHANGED <<env, disk>>
\* The retries are used up, nothing fits, no URL or no package comes back.
withRetryFails(t) ==
  /\ up /\ tick[t] # "idle"
  /\ Failed(t)
  /\ UNCHANGED <<env, disk>>
\* One turn: the file, then the sentinel.
refreshTimekprMirror(t) ==
  /\ up /\ tick[t] \notin {"idle", "resolving"}
  /\ files' = [files EXCEPT ![tick[t]] = "whole"] /\ sentinel' = tick[t]
  /\ Done(t)
  /\ UNCHANGED env

\* Mutant: the sentinel is written before the file.
CutShortSentinelFirst(t) ==
  LET v == tick[t] IN
  /\ v \notin {"idle", "resolving"}
  /\ files' = [files EXCEPT ![v] = "torn"] /\ sentinel' = v /\ UNCHANGED torn
\* The process dies, perhaps in the middle of the two writes.
CutShort(t) ==
  LET v == tick[t] IN
  /\ v \notin {"idle", "resolving"}
  /\ \/ files' = [files EXCEPT ![v] = "torn"] /\ UNCHANGED sentinel
        /\ torn' = IF sentinel = v THEN torn \cup {v} ELSE torn
     \/ files' = [files EXCEPT ![v] = "whole"] /\ sentinel' \in {sentinel, Null} /\ UNCHANGED torn
Crash ==
  /\ up /\ up' = FALSE
  /\ tick' = [t \in {"boot", "cron"} |-> "idle"]
  /\ (UNCHANGED <<disk, torn>> \/ \E t \in {"boot", "cron"} : CutShort(t))
  /\ UNCHANGED <<boots, now, pin, listing, backoff, changes>>

\* Launchpad publishes or withdraws a version.
Launchpad ==
  /\ changes < MaxChanges /\ changes' = changes + 1
  /\ \/ \E i \in DOMAIN listing : listing' = RemoveAt(listing, i)
     \/ \E v \in Versions \ ToSet(listing) : listing' = <<v>> \o listing
  /\ UNCHANGED <<up, boots, now, pin, disk, tick, backoff, torn>>
\* The operator clears a file out of the volume.
Removed ==
  /\ changes < MaxChanges /\ changes' = changes + 1
  /\ \E v \in Versions : files[v] # "none" /\ files' = [files EXCEPT ![v] = "none"]
  /\ UNCHANGED <<up, boots, now, pin, listing, sentinel, tick, backoff, torn>>
TimePasses == now < MaxNow /\ now' = now + 1
  /\ UNCHANGED <<up, boots, pin, listing, disk, tick, backoff, changes, torn>>

Init ==
  /\ up = FALSE /\ boots = 0 /\ now = 0 /\ pin = Null
  /\ listing \in [1..1 -> Versions]
  /\ files = [v \in Versions |-> "none"] /\ sentinel = Null
  /\ tick = [t \in {"boot", "cron"} |-> "idle"]
  /\ failures = 0 /\ nextEligibleAt = 0 /\ changes = 0 /\ torn = {}

Next ==
  \/ Boot \/ Tick \/ Crash \/ Launchpad \/ Removed \/ TimePasses
  \/ \E t \in {"boot", "cron"} : resolvePublication(t) \/ withRetryFails(t) \/ refreshTimekprMirror(t)
Spec == Init /\ [][Next]_vars

-----------------------------------------------------------------------------
\* What the next refresh will take for current is a whole package: the version
\* the sentinel names was written to the end, or is gone and will be fetched
\* again.  Excepted is a version cut short while its own older sentinel stood
\* (its file had been removed), which is never repaired.
SentinelTrue == sentinel # Null /\ sentinel \notin torn => files[sentinel] # "torn"
\* A refresh waits at most MaxDelay, and waits only after a failure since the
\* last success, with two ticks overlapping.
BackoffBounded == nextEligibleAt <= now + MaxDelay /\ (failures = 0 <=> nextEligibleAt = 0)
MirrorSound == SentinelTrue /\ BackoffBounded
=============================================================================

---------------------------- MODULE MCServices -----------------------------
(***************************************************************************)
(* Small instances of the server's services, which share no state: one     *)
(* behaviour is about one of them, named by focus, and the variables that  *)
(* are not its own stay Null.  A name that several components declare (the *)
(* clock, a table of rows) stands for that of the one in focus.            *)
(***************************************************************************)
EXTENDS Integers, Sequences, FiniteSets, TLC

CONSTANTS
  Null,
  MaxNow, Base, MaxDelay,                                        \* of several components
  Secrets, AdminPassword, Names, MaxAttempts, WindowMs, PinTtl, SessionTtl,
  MaxFlights, MaxUsers, MaxCookies, MaxRequests, MaxTokens,      \* Access
  Versions, Pins, MaxBoots, MaxChanges,                          \* TimekprMirror
  Releases, Retain, MaxArchives, MaxKeys, MaxFiles, MaxStoreEdits,  \* DataVolume
  Forever, Day, DefaultDays, DayChoices, Activities, Group, BatchSize, Tables,
  Horizon, MaxRows, MaxRuns, MaxEdits                            \* Retention

\* A limiter admits an attempt, and Null is no instant.
AccessOK ==
  /\ MaxAttempts \in Nat \ {0} /\ MaxFlights \in Nat /\ MaxUsers \in Nat /\ MaxTokens \in Nat
  /\ WindowMs \in Nat /\ Null \notin Nat
\* A refresh that failed waits, for 1 at least, after as many failures as there can be
\* in a row.
MirrorOK ==
  /\ MaxNow \in Nat /\ MaxDelay \in Nat \ {0}
  /\ \A f \in 0..(MaxNow + 1) : Base * 2^f \in Nat \ {0}

\* Windows and retentions are of whole days, and the purge knows every table.
RetentionOK ==
  /\ Day \in Nat \ {0} /\ DefaultDays \in Nat /\ DayChoices \subseteq Nat \ {0} /\ Null \notin Int
  /\ Tables \subseteq {"usage_samples", "grants", "audit_log", "exceptions", "group_exceptions",
                      "schedules", "group_schedules"}

VARIABLES
  focus,  \* the component this behaviour is about
  now, rows, nextId, reach, crashes, rules, todo, edits, runs, boots, files, hist,  \* of several components
  user, link, policy, execs, limits, ops, unlinked, overlap, gaveUp,  \* PolicyPush
  day, remaining, online, drain, nudges, issued, due, disturbed,  \* TimeToday
  links, log, passEnd, pulls, cursor, saved, credit, first, mixed,  \* Telemetry
  windowLog, afkLog, phase, step, waiting, used, openSockets, openChannels,
  forwarding, late, samples, outcome,  \* TelemetryTunnel
  agClients, agRules, pc, plan, got, household, raced, alone, expect,  \* DnsBlocklist
  overrides, purged,  \* Retention
  up, pin, listing, sentinel, tick, failures, nextEligibleAt, changes, torn,  \* TimekprMirror
  installed, pushes, pushed, pass, at, backoff, audit,  \* Provision
  users, pins, windows, logins, puts, cookies, tokens, requests,  \* Access
  db, wal, secrets, conf, snapshots, venv, laidOut, image, server, creds, venvState,
  script, archives, nextKey, clock  \* DataVolume

pushOwn == <<user, link, policy, execs, limits, ops, unlinked, overlap, gaveUp>>
todayOwn == <<day, remaining, online, drain, nudges, issued, due, disturbed>>
telemetryOwn == <<links, log, passEnd, pulls, cursor, saved, credit, first, mixed>>
tunnelOwn == <<windowLog, afkLog, phase, step, waiting, used, openSockets, openChannels,
  forwarding, late, samples, outcome>>
dnsOwn == <<agClients, agRules, pc, plan, got, household, raced, alone, expect>>
purgeOwn == <<overrides, purged>>
mirrorOwn == <<up, pin, listing, sentinel, tick, failures, nextEligibleAt, changes, torn>>
provisionOwn == <<installed, pushes, pushed, pass, at, backoff, audit>>
accessOwn == <<users, pins, windows, logins, puts, cookies, tokens, requests>>
volumeOwn == <<db, wal, secrets, conf, snapshots, venv, laidOut, image, server, creds,
  venvState, script, archives, nextKey, clock>>
vars == <<focus, now, rows, nextId, reach, crashes, rules, todo, edits, runs, boots,
         files, hist, pushOwn, todayOwn, telemetryOwn, tunnelOwn, dnsOwn, purgeOwn,
         mirrorOwn, provisionOwn, accessOwn, volumeOwn>>

\* Two policies that differ in a daily and a weekly limit, one of them without
\* a weekly budget.
P(daily, weekly) == [limits |-> daily, week |-> weekly, month |-> "none", hours |-> "any"]

\* Window and idle events that overlap, abut, straddle both ends of the pull's
\* window, or do not parse; activities by rule, by name and with a broken rule.
A(i, k, x, c, p) == [id |-> i, kind |-> k, exact |-> x, compiles |-> c, apps |-> p]
TunnelActivities == {A(1, "app", FALSE, TRUE, {"x", "y"}), A(2, "app", TRUE, TRUE, {"y"}),
                     A(3, "web", TRUE, TRUE, {"z"}), A(4, "app", FALSE, FALSE, {"x"})}
W(p, s, d, o) == [app |-> p, start |-> s, dur |-> d, ok |-> o]
WEvents == {W("x", 0, 8, TRUE), W("x", 1, 2, TRUE), W("x", 3, 2, TRUE), W("y", 2, 5, TRUE),
            W("z", 0, 4, TRUE), W("x", 5, 9, TRUE), W("x", 6, 4, FALSE)}
F(st, s, d, o) == [status |-> st, start |-> s, dur |-> d, ok |-> o]
AEvents == {F("not-afk", 1, 4, TRUE), F("not-afk", 5, 3, TRUE), F("afk", 0, 3, TRUE),
            F("not-afk", 8, 4, FALSE)}
UpTo(n, S) == {T \in SUBSET S : Cardinality(T) <= n}

\* Two devices under one label and one that reported no address; an always-on
\* deny, one bound to days, and one for a group of domains.
D(a, days, t) == [action |-> a, days |-> days, minutes |-> Null, dates |-> Null, target |-> t]
DnsRules == (1 :> {{}, {D("deny", Null, "g"), D("allow", Null, "a")}}
             @@ 2 :> {{D("deny", Null, "a")}, {D("deny", {1}, "g"), D("deny", Null, Null)}})

\* Denies for part of a day, for the weekend, for good and on a date.
R(a, d, s, e, t) ==
  [action |-> a, days |-> d, start |-> s, end |-> e, dated |-> FALSE, target |-> t]
ProvisionRules ==
  (1 :> {{}, {R("deny", {6, 7}, 9, Null, "g"), R("deny", {6, 7}, 9, Null, "a")}}
   @@ 2 :> {{R("deny", Null, Null, Null, "g")},
            {R("deny", Null, Null, 7, "a"), R("allow", Null, Null, Null, "g"),
             [R("deny", {1}, Null, Null, "g") EXCEPT !.dated = TRUE]}})

\* A release brings a migration and another ansible-core.
Images == {[schema |-> n, core |-> n] : n \in Releases}

Push == INSTANCE PolicyPush WITH
  Clients <- {1}, Accounts <- {"kid"}, NoAccount <- Null,
  Policies <- {P("1h", "5h"), P("2h", "none")}, MaxPush <- 3, MaxCrash <- 1
Today == INSTANCE TimeToday WITH
  Ops <- {"+", "-", "="}, Amounts <- {2}, Start <- 1, MaxNudges <- 2, MaxDay <- 1, MaxCrash <- 1
Telemetry == INSTANCE Telemetry WITH
  Clients <- {1}, Users <- {1, 2}, NoUser <- 0, Lookback <- 2, MaxTime <- 3, MaxCrash <- 1
Tunnel == INSTANCE TelemetryTunnel WITH
  Second <- 2, Activities <- TunnelActivities, WindowLogs <- UpTo(3, WEvents),
  AfkLogs <- UpTo(2, AEvents), From <- 1, To <- 9, Tolerance <- 1, MaxSockets <- 3
Dns == INSTANCE DnsBlocklist WITH
  Devices <- {1, 2, 3}, LabelOf <- <<"pc", "pc", "tab">>, IpsOf <- <<{"i1"}, {"i2"}, {}>>,
  LinksOf <- <<{1}, {1, 2}, {2}>>, RuleSets <- DnsRules,
  DomainsOf <- [a |-> {"d1"}, g |-> {"d1", "d2"}], ForeignLines <- {<<"own", "line">>},
  ForeignClient <- "tv", Applies <- {1, 2}
Purge == INSTANCE Retention WITH MaxNow <- Horizon
Mirror == INSTANCE TimekprMirror
Provision == INSTANCE Provision WITH
  Clients <- {1, 2}, Users <- {1, 2}, LinksOf <- <<<<1, 2>>, <<2>>>>, RuleSets <- ProvisionRules,
  AppsOf <- [a |-> {"x1"}, g |-> {"x1", "x2"}], DomainsOf <- [a |-> {"d1"}, g |-> {"d1", "d2"}],
  ProxyPort <- 80, Playbooks <- <<"b1", "b2">>, SampleHours <- {0, 6, 7, 8, 9, 23},
  LinuxClients <- {1}, MaxPushes <- 1, MaxRuns <- 4
Access == INSTANCE Access
Volume == INSTANCE DataVolume WITH MaxEdits <- MaxStoreEdits

ASSUME ServicesAssumption == AccessOK /\ MirrorOK /\ RetentionOK /\ Volume!ConstantsOK

PushIdle == user = Null /\ link = Null /\ policy = Null /\ execs = Null /\ limits = Null /\
  ops = Null /\ unlinked = Null /\ overlap = Null /\ gaveUp = Null
TodayIdle == day = Null /\ remaining = Null /\ online = Null /\ drain = Null /\ nudges =
  Null /\ issued = Null /\ due = Null /\ disturbed = Null
TelemetryIdle == links = Null /\ log = Null /\ passEnd = Null /\ pulls = Null /\ cursor =
  Null /\ saved = Null /\ credit = Null /\ first = Null /\ mixed = Null
TunnelIdle == windowLog = Null /\ afkLog = Null /\ phase = Null /\ step = Null /\ waiting =
  Null /\ used = Null /\ openSockets = Null /\ openChannels = Null /\ forwarding = Null /\
  late = Null /\ samples = Null /\ outcome = Null
DnsIdle == agClients = Null /\ agRules = Null /\ pc = Null /\ plan = Null /\ got = Null /\
  household = Null /\ raced = Null /\ alone = Null /\ expect = Null
PurgeIdle == overrides = Null /\ purged = Null
MirrorIdle == up = Null /\ pin = Null /\ listing = Null /\ sentinel = Null /\ tick =
  Null /\ failures = Null /\ nextEligibleAt = Null /\ changes = Null /\ torn = Null
ProvisionIdle == installed = Null /\ pushes = Null /\ pushed = Null /\ pass = Null /\ at =
  Null /\ backoff = Null /\ audit = Null
AccessIdle == users = Null /\ pins = Null /\ windows = Null /\ logins = Null /\ puts = Null
  /\ cookies = Null /\ tokens = Null /\ requests = Null
VolumeIdle == db = Null /\ wal = Null /\ secrets = Null /\ conf = Null /\ snapshots = Null
  /\ venv = Null /\ laidOut = Null /\ image = Null /\ server = Null /\ creds = Null /\
  venvState = Null /\ script = Null /\ archives = Null /\ nextKey = Null /\ clock = Null

Init ==
  /\ focus \in {"push", "today", "telemetry", "tunnel", "dns", "purge", "mirror", "provision", "access",
               "volume"}
  /\ IF focus = "push" THEN Push!Init ELSE PushIdle
  /\ IF focus = "today" THEN Today!Init ELSE TodayIdle
  /\ IF focus = "telemetry" THEN Telemetry!Init ELSE TelemetryIdle
  /\ IF focus = "tunnel" THEN Tunnel!Init ELSE TunnelIdle
  /\ IF focus = "dns" THEN Dns!Init ELSE DnsIdle
  /\ IF focus = "purge" THEN Purge!Init ELSE PurgeIdle
  /\ IF focus = "mirror" THEN Mirror!Init ELSE MirrorIdle
  /\ IF focus = "provision" THEN Provision!Init ELSE ProvisionIdle
  /\ IF focus = "access" THEN Access!Init ELSE AccessIdle
  /\ IF focus = "volume" THEN Volume!Init ELSE VolumeIdle
  /\ IF focus \in {"telemetry", "purge", "mirror", "provision", "access"} THEN TRUE ELSE now = Null
  /\ IF focus \in {"push", "today", "purge"} THEN TRUE ELSE rows = Null
  /\ IF focus \in {"push", "today", "purge", "access"} THEN TRUE ELSE nextId = Null
  /\ IF focus \in {"push", "today"} THEN TRUE ELSE reach = Null
  /\ IF focus \in {"push", "today", "telemetry"} THEN TRUE ELSE crashes = Null
  /\ IF focus \in {"dns", "provision"} THEN TRUE ELSE rules = Null
  /\ IF focus \in {"telemetry", "dns"} THEN TRUE ELSE todo = Null
  /\ IF focus \in {"dns", "purge", "volume"} THEN TRUE ELSE edits = Null
  /\ IF focus \in {"purge", "provision"} THEN TRUE ELSE runs = Null
  /\ IF focus \in {"mirror", "volume"} THEN TRUE ELSE boots = Null /\ files = Null
  /\ IF focus \in {"access", "volume"} THEN TRUE ELSE hist = Null

\* A step of the component in focus; what is not its own stays as it is.
PushNext ==
  /\ focus = "push" /\ Push!Next
  /\ UNCHANGED <<focus, now, rules, todo, edits, runs, boots, files, hist,
                  todayOwn, telemetryOwn, tunnelOwn, dnsOwn, purgeOwn, mirrorOwn,
                  provisionOwn, accessOwn, volumeOwn>>
TodayNext ==
  /\ focus = "today" /\ Today!Next
  /\ UNCHANGED <<focus, now, rules, todo, edits, runs, boots, files, hist,
                  pushOwn, telemetryOwn, tunnelOwn, dnsOwn, purgeOwn, mirrorOwn,
                  provisionOwn, accessOwn, volumeOwn>>
TelemetryNext ==
  /\ focus = "telemetry" /\ Telemetry!Next
  /\ UNCHANGED <<focus, rows, nextId, reach, rules, edits, runs, boots, files,
                  hist, pushOwn, todayOwn, tunnelOwn, dnsOwn, purgeOwn, mirrorOwn,
                  provisionOwn, accessOwn, volumeOwn>>
TunnelNext ==
  /\ focus = "tunnel" /\ Tunnel!Next
  /\ UNCHANGED <<focus, now, rows, nextId, reach, crashes, rules, todo, edits,
                  runs, boots, files, hist, pushOwn, todayOwn, telemetryOwn,
                  dnsOwn, purgeOwn, mirrorOwn, provisionOwn, accessOwn,
                  volumeOwn>>
DnsNext ==
  /\ focus = "dns" /\ Dns!Next
  /\ UNCHANGED <<focus, now, rows, nextId, reach, crashes, runs, boots, files,
                  hist, pushOwn, todayOwn, telemetryOwn, tunnelOwn, purgeOwn,
                  mirrorOwn, provisionOwn, accessOwn, volumeOwn>>
PurgeNext ==
  /\ focus = "purge" /\ Purge!Next
  /\ UNCHANGED <<focus, reach, crashes, rules, todo, boots, files, hist, pushOwn,
                  todayOwn, telemetryOwn, tunnelOwn, dnsOwn, mirrorOwn,
                  provisionOwn, accessOwn, volumeOwn>>
MirrorNext ==
  /\ focus = "mirror" /\ Mirror!Next
  /\ UNCHANGED <<focus, rows, nextId, reach, crashes, rules, todo, edits, runs,
                  hist, pushOwn, todayOwn, telemetryOwn, tunnelOwn, dnsOwn,
                  purgeOwn, provisionOwn, accessOwn, volumeOwn>>
ProvisionNext ==
  /\ focus = "provision" /\ Provision!Next
  /\ UNCHANGED <<focus, rows, nextId, reach, crashes, todo, edits, boots, files,
                  hist, pushOwn, todayOwn, telemetryOwn, tunnelOwn, dnsOwn,
                  purgeOwn, mirrorOwn, accessOwn, volumeOwn>>
AccessNext ==
  /\ focus = "access" /\ Access!Next
  /\ UNCHANGED <<focus, rows, reach, crashes, rules, todo, edits, runs, boots,
                  files, pushOwn, todayOwn, telemetryOwn, tunnelOwn, dnsOwn,
                  purgeOwn, mirrorOwn, provisionOwn, volumeOwn>>
VolumeNext ==
  /\ focus = "volume" /\ Volume!Next
  /\ UNCHANGED <<focus, now, rows, nextId, reach, crashes, rules, todo, runs,
                  pushOwn, todayOwn, telemetryOwn, tunnelOwn, dnsOwn, purgeOwn,
                  mirrorOwn, provisionOwn, accessOwn>>

Next ==
  \/ PushNext
  \/ TodayNext
  \/ TelemetryNext
  \/ TunnelNext
  \/ DnsNext
  \/ PurgeNext
  \/ MirrorNext
  \/ ProvisionNext
  \/ AccessNext
  \/ VolumeNext

Spec == Init /\ [][Next]_vars

-----------------------------------------------------------------------------
\* What a client was asked for is what it ends with: pushes that do not overlap
\* leave it with the latest policy and free an account that is unlinked, and
\* every adjustment of today's time counts once, replayed or not.
PushConverges ==
  /\ focus = "push" => Push!TypeOK /\ Push!ConvergedIfSerial /\ Push!UnlinkedAccountFreed
  /\ focus = "today" => Today!TypeOK /\ Today!ReplaySameTarget /\ Today!NudgesAddUp

\* "the user's whole effective policy for that client is recomputed and re-pushed,
\* so the latest wins" (queue/policy-push.ts), pushes that overlap included.
LatestWins == focus = "push" => Push!LatestWins

\* Usage is counted once, skipped nowhere and credited to the right user, from
\* the events read through the tunnel, which is closed when the pull is over.
UsageCounted ==
  /\ focus = "telemetry" => /\ Telemetry!TypeOK
                            /\ Telemetry!NoDoubleCount
                            /\ Telemetry!NothingSkipped
                            /\ Telemetry!RightUserUnlessRelinked
  /\ focus = "tunnel" => Tunnel!TunnelSound

\* What is blocked on a device or a client is what the policy denies there, and
\* what the household wrote itself is left alone.
BlocksSound ==
  /\ focus = "dns" => Dns!BlocklistSound
  /\ focus = "provision" => Provision!ProvisionSound

\* The purge deletes what has expired and nothing an open window still counts.
RetentionSound == focus = "purge" => Purge!RetentionSound

\* The package mirror never serves a version it has not wholly stored.
MirrorSound == focus = "mirror" => Mirror!MirrorSound

\* A boot, a backup and a restore, cut anywhere, leave a volume whose database,
\* keys and virtual environment fit each other.
VolumeSound == focus = "volume" => Volume!VolumeSound

\* Guessing is limited, a changed secret ends the sessions it opened, and no
\* session or token outlives or outgrows its user.
AccessSound == focus = "access" => Access!AccessSound
=============================================================================

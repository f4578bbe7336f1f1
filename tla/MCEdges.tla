------------------------------ MODULE MCEdges ------------------------------
(***************************************************************************)
(* Instances of what runs around the server, which share no state: the     *)
(* admin console and the child's page in the browser, the installer on the *)
(* clients, the health probes.  One behaviour is about one of them, named  *)
(* by focus; the variables of the others stay Null.                        *)
(***************************************************************************)
EXTENDS AdminViews, Integers, Sequences, FiniteSets, TLC

CONSTANTS
  Null, Users, MaxActs,                                 \* of several components
  Tokens, UserOf, Versions, MaxRuns, MaxClients, MaxAdmin,  \* ClientInstall
  MaxPolls, MaxLogins, MaxLoads, MaxOuts,               \* AdminShell
  Children, MaxVer,                                     \* ChildApp
  Saved, Minute, Typed,                                 \* PreviewPane
  MaxClicks, MaxEdits,                                  \* CommandPanes
  Argvs, Calls, Limit, MaxCommands, MaxReads,           \* AuditTrail
  Clients, Components, Concurrency, Lists, MaxChecks, Releases, MaxNow  \* ClientHealth

VARIABLES
  focus,  \* the component this behaviour is about
  \* of several components
  view, srv, mount, sel, flags, inflight, acts, running, asked, timer, pushed, policy,
  rows, crossed, session, mode, lost,
  \* ListView
  shown, editing, pick, sent, applied, stale,
  \* AuditTrail
  issued, log, dropped, settled, input, entries, cursor, busy, asof, mixed,
  \* PreviewPane
  sandbox, loading, seq, preview, spin, push, broken,
  \* NotificationsPane
  form, ops,
  \* AdminShell
  setup, flow, status, gate, polls, screen, waited, login, outs, data, loads, late, count,
  \* ChildApp
  deployed, net, caches, active, installing, page, cookie, asks, mounts, moved, left,
  \* CommandPanes
  time, dns, calls, added, healthy, up,
  \* ClientInstall
  account, sudoers, sources, packages, aw, conf, authorized, env, pc, token, version,
  reply, runs, users, consumed, clients, keyReady, admin, cut,
  \* ClientHealth
  now, lists, due, probes, checks, attempts, hist

listOwn == <<shown, editing, pick, sent, applied, stale>>
auditOwn == <<issued, log, dropped, settled, input, entries, cursor, busy, asof, mixed>>
previewOwn == <<sandbox, loading, seq, preview, spin, push, broken>>
notifyOwn == <<form, ops>>
shellOwn == <<setup, flow, status, gate, polls, screen, waited, login, outs, data, loads, late,
  count>>
childOwn == <<deployed, net, caches, active, installing, page, cookie, asks, mounts,
  moved, left>>
commandOwn == <<time, dns, calls, added, healthy, up>>
installOwn == <<account, sudoers, sources, packages, aw, conf, authorized, env, pc, token,
  version, reply, runs, users, consumed, clients, keyReady, admin, cut>>
healthOwn == <<now, lists, due, probes, checks, attempts, hist>>
vars == <<focus, view, srv, mount, sel, flags, inflight, acts, running, asked, timer,
         pushed, policy, rows, crossed, session, mode, lost, listOwn, auditOwn,
         previewOwn, notifyOwn, shellOwn, childOwn, commandOwn, installOwn, healthOwn>>

\* A plain command, and one whose arguments carry a secret in each place.
MCArgvs == {<<"plain">>, <<"flag=secret", "flag", "secret">>}

\* Two children of the household, a token for each, and what their budgets hold.
MCUserOf == [t1 |-> "ann", t2 |-> "bob"]
MCSaved == [ann |-> 4, bob |-> 3]
MCComponents == <<"systemd", "deferred">>

\* A release, pre-releases of it, and longer ones.
Ver(r, p) == [release |-> r, pre |-> p]
MCVersions == {Null, Ver(<<1>>, <<>>), Ver(<<1, 0>>, <<1>>), Ver(<<1>>, <<5>>),
               Ver(<<1, 2>>, <<1, 5>>), Ver(<<1, 2>>, <<>>), Ver(<<1, 2, 0>>, <<1>>)}

List == INSTANCE ListView WITH
  Views <- AllViews, Owners <- {1, 2}, Values <- {2}, MaxActs <- 3, MaxRows <- 3
Audit == INSTANCE AuditTrail WITH MaxActs <- MaxReads
Notify == INSTANCE NotificationsPane WITH
  Users <- {1, 2}, Basics <- {1, 2}, Valid <- {0, 1}, Keys <- {"a"},
  Raws <- {<<>>, <<1, 2, 1>>, <<9>>}, MinuteMax <- 5, KeysMax <- 2
Preview == INSTANCE PreviewPane
Shell == INSTANCE AdminShell
Child == INSTANCE ChildApp
Command == INSTANCE CommandPanes WITH MaxActs <- MaxClicks
Install == INSTANCE ClientInstall
Health == INSTANCE ClientHealth WITH Versions <- Releases

\* What the modules ask of their parameters.
ASSUME EdgesAssumption ==
  /\ Install!ConstantsOK /\ Shell!ConstantsOK /\ Child!ConstantsOK
  /\ Preview!ConstantsOK /\ Command!ConstantsOK /\ Health!ConstantsOK /\ Audit!ConstantsOK

ListIdle == shown = Null /\ editing = Null /\ pick = Null /\ sent = Null /\ applied = Null
  /\ stale = Null
AuditIdle == issued = Null /\ log = Null /\ dropped = Null /\ settled = Null /\ input =
  Null /\ entries = Null /\ cursor = Null /\ busy = Null /\ asof = Null /\ mixed = Null
PreviewIdle == sandbox = Null /\ loading = Null /\ seq = Null /\ preview = Null /\ spin =
  Null /\ push = Null /\ broken = Null
NotifyIdle == form = Null /\ ops = Null
ShellIdle == setup = Null /\ flow = Null /\ status = Null /\ gate = Null /\ polls = Null
  /\ screen = Null /\ waited = Null /\ login = Null /\ outs = Null /\ data = Null /\ loads =
  Null /\ late = Null /\ count = Null
ChildIdle == deployed = Null /\ net = Null /\ caches = Null /\ active = Null /\ installing
  = Null /\ page = Null /\ cookie = Null /\ asks = Null /\ mounts = Null /\ moved = Null
  /\ left = Null
CommandIdle == time = Null /\ dns = Null /\ calls = Null /\ added = Null /\ healthy = Null
  /\ up = Null
InstallIdle == account = Null /\ sudoers = Null /\ sources = Null /\ packages = Null /\ aw
  = Null /\ conf = Null /\ authorized = Null /\ env = Null /\ pc = Null /\ token = Null /\
  version = Null /\ reply = Null /\ runs = Null /\ users = Null /\ consumed = Null /\
  clients = Null /\ keyReady = Null /\ admin = Null /\ cut = Null
HealthIdle == now = Null /\ lists = Null /\ due = Null /\ probes = Null /\ checks = Null
  /\ attempts = Null /\ hist = Null

Init ==
  /\ focus \in {"list", "audit", "preview", "notify", "shell", "child", "command",
               "install", "health"}
  /\ IF focus = "list" THEN List!Init ELSE ListIdle
  /\ IF focus = "audit" THEN Audit!Init ELSE AuditIdle
  /\ IF focus = "preview" THEN Preview!Init ELSE PreviewIdle
  /\ IF focus = "notify" THEN Notify!Init ELSE NotifyIdle
  /\ IF focus = "shell" THEN Shell!Init ELSE ShellIdle
  /\ IF focus = "child" THEN Child!Init ELSE ChildIdle
  /\ IF focus = "command" THEN Command!Init ELSE CommandIdle
  /\ IF focus = "install" THEN Install!Init ELSE InstallIdle
  /\ IF focus = "health" THEN Health!Init ELSE HealthIdle
  /\ IF focus \in {"list", "child"} THEN TRUE ELSE view = Null
  /\ IF focus \in {"list", "notify"} THEN TRUE ELSE srv = Null /\ flags = Null
  /\ IF focus \in {"list", "command"} THEN TRUE ELSE mount = Null
  /\ IF focus \in {"list", "preview", "notify"} THEN TRUE ELSE sel = Null
  /\ IF focus \in {"list", "shell"} THEN TRUE ELSE inflight = Null
  /\ IF focus \in {"list", "audit", "preview", "notify", "child", "command"} THEN TRUE
     ELSE acts = Null
  /\ IF focus \in {"audit", "command", "install"} THEN TRUE ELSE running = Null
  /\ IF focus \in {"audit", "preview", "command"} THEN TRUE ELSE asked = Null
  /\ IF focus \in {"preview", "shell"} THEN TRUE ELSE timer = Null
  /\ IF focus \in {"preview", "command"} THEN TRUE ELSE pushed = Null
  /\ IF focus \in {"notify", "command"} THEN TRUE ELSE policy = Null /\ crossed = Null
  /\ IF focus \in {"notify", "health"} THEN TRUE ELSE rows = Null
  /\ IF focus \in {"shell", "child"} THEN TRUE ELSE session = Null
  /\ IF focus \in {"command", "install"} THEN TRUE ELSE mode = Null /\ lost = Null

\* A step of the component in focus; what is not its own stays as it is.
ListNext ==
  /\ focus = "list" /\ List!Next
  /\ UNCHANGED <<focus, running, asked, timer, pushed, policy, rows, crossed, session,
                  mode, lost, auditOwn, previewOwn, notifyOwn, shellOwn, childOwn,
                  commandOwn, installOwn, healthOwn>>
AuditNext ==
  /\ focus = "audit" /\ Audit!Next
  /\ UNCHANGED <<focus, view, srv, mount, sel, flags, inflight, timer, pushed, policy,
                  rows, crossed, session, mode, lost, listOwn, previewOwn, notifyOwn,
                  shellOwn, childOwn, commandOwn, installOwn, healthOwn>>
PreviewNext ==
  /\ focus = "preview" /\ Preview!Next
  /\ UNCHANGED <<focus, view, srv, mount, flags, inflight, running, policy, rows, crossed,
                  session, mode, lost, listOwn, auditOwn, notifyOwn, shellOwn, childOwn,
                  commandOwn, installOwn, healthOwn>>
NotifyNext ==
  /\ focus = "notify" /\ Notify!Next
  /\ UNCHANGED <<focus, view, mount, inflight, running, asked, timer, pushed, session,
                  mode, lost, listOwn, auditOwn, previewOwn, shellOwn, childOwn,
                  commandOwn, installOwn, healthOwn>>
ShellNext ==
  /\ focus = "shell" /\ Shell!Next
  /\ UNCHANGED <<focus, view, srv, mount, sel, flags, acts, running, asked, pushed,
                  policy, rows, crossed, mode, lost, listOwn, auditOwn, previewOwn,
                  notifyOwn, childOwn, commandOwn, installOwn, healthOwn>>
ChildNext ==
  /\ focus = "child" /\ Child!Next
  /\ UNCHANGED <<focus, srv, mount, sel, flags, inflight, running, asked, timer, pushed,
                  policy, rows, crossed, mode, lost, listOwn, auditOwn, previewOwn,
                  notifyOwn, shellOwn, commandOwn, installOwn, healthOwn>>
CommandNext ==
  /\ focus = "command" /\ Command!Next
  /\ UNCHANGED <<focus, view, srv, sel, flags, inflight, timer, rows, session,
                  listOwn, auditOwn, previewOwn, notifyOwn, shellOwn, childOwn,
                  installOwn, healthOwn>>
InstallNext ==
  /\ focus = "install" /\ Install!Next
  /\ UNCHANGED <<focus, view, srv, mount, sel, flags, inflight, acts, asked, timer,
                  pushed, policy, rows, crossed, session, listOwn, auditOwn, previewOwn,
                  notifyOwn, shellOwn, childOwn, commandOwn, healthOwn>>
HealthNext ==
  /\ focus = "health" /\ Health!Next
  /\ UNCHANGED <<focus, view, srv, mount, sel, flags, inflight, acts, running, asked,
                  timer, pushed, policy, crossed, session, mode, lost, listOwn, auditOwn,
                  previewOwn, notifyOwn, shellOwn, childOwn, commandOwn, installOwn>>

Next ==
  \/ ListNext
  \/ AuditNext
  \/ PreviewNext
  \/ NotifyNext
  \/ ShellNext
  \/ ChildNext
  \/ CommandNext
  \/ InstallNext
  \/ HealthNext

Spec == Init /\ [][Next]_vars

-----------------------------------------------------------------------------
\* A view at rest shows the server's rows of the owner selected, and no button
\* sends the same change twice, but for the crossings its module names; so do
\* the notification settings; and the pages of the audit view tile the log.
ViewsSound ==
  /\ focus = "list" => List!ViewsSound
  /\ focus = "audit" => Audit!PagesTile
  /\ focus = "notify" => Notify!NotificationsSound

\* One row per command, with what its caller met, and secrets masked.
AuditSound == focus = "audit" => Audit!AuditSound

\* The preview on the page is that of the sandbox, and a success shown by a
\* button that acts on the devices was one.
PanesSound ==
  /\ focus = "preview" => Preview!PreviewSound
  /\ focus = "command" => Command!CommandsSound

\* The set-up gate is known before a view is shown, an admin is not stranded
\* behind it, and the shared lists are loaded once and for this login; the
\* child's page loads whole, offline too, and shows that child's status only.
ShellSound ==
  /\ focus = "shell" => Shell!ShellSound
  /\ focus = "child" => Child!ChildSound

\* A token enrols one client, a stamp tells the truth, and an installer that
\* says it is complete has applied and enrolled, wherever an earlier run was cut.
InstallSound == focus = "install" => Install!InstallSound

\* The health list is complete and its verdicts whole, with probes and checks
\* overlapping; version comparison, a fact about constants, is looked at once.
HealthSound ==
  focus = "health" => Health!HealthSound /\ (Health!Init => Health!VersionsOrdered)
=============================================================================

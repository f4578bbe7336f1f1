---------------------------- MODULE CommandPanes ----------------------------
(***************************************************************************)
(* The two sections of the admin console whose buttons act on the devices  *)
(* rather than on the policy: "Add time today" on the dashboard            *)
(* (AddTimeToday.svelte) and "Apply to AdGuard" (DnsFilteringView.svelte), *)
(* with the routes the latter calls (api/dns/routes.ts) and the health of  *)
(* AdGuard they go by (adguard/service.ts).  The shell mounts one section  *)
(* at a time and a mount starts from nothing; what an earlier mount asked  *)
(* for is still carried out, and its answer goes nowhere.  So is what was  *)
(* asked over a connection that is then lost, while the page, told of a    *)
(* failure, may ask again: two applies may be at work at once, and the     *)
(* route takes no lock (the changes to AdGuard's clients, which an apply   *)
(* makes first, are the subject of module DnsBlocklist).                   *)
(***************************************************************************)
EXTENDS Integers, FiniteSets

CONSTANTS
  Users,
  Null,
  MaxActs,    \* bound on navigations and clicks
  MaxEdits    \* bound on policy changes made elsewhere

ConstantsOK == Null \notin Users

VARIABLES
  mount,      \* [n, section] of the section shown
  time,       \* AddTimeToday: [sel, adjusting, error, result]
  dns,        \* DnsFilteringView: [status, preview, loading, error, applying, last]
  calls,      \* requests whose answer a page awaits
  asked,      \* server: adjustments to carry out, [id, user]
  running,    \* server: applies not ended, [id, phase, plan, got, alone]: what
              \* it means to write, what it read, and whether no other overlapped
  added,      \* server: adjustments carried out, by user
  policy,     \* server: version of the domain rules
  mode,       \* server: the AdGuard mode, external or managed
  healthy,    \* server: a client is wired and the last probe of AdGuard was good
  up,         \* AdGuard runs and answers
  pushed,     \* AdGuard: version of the rules it has
  acts,
  crossed,    \* history: another user was selected during an adjustment
  lost        \* history: adjustments carried out whose answer was lost, by user

adguard == <<mode, healthy, up>>
srv == <<asked, running, added, policy, adguard, pushed>>
vars == <<mount, time, dns, calls, srv, acts, crossed, lost>>

TimeAtMount == [sel |-> Null, adjusting |-> FALSE, error |-> FALSE, result |-> Null]
DnsAtMount == [status |-> Null, preview |-> Null, loading |-> TRUE, error |-> FALSE,
               applying |-> FALSE, last |-> Null]

\* Promise.all of the status and the preview, for a load or after an apply.
Read(n, why) == [op |-> "read", n |-> n, why |-> why, status |-> Null, preview |-> Null]

\* The probe awaited before the server listens: a managed process does not run
\* yet; an external one may refuse the credentials, or they cannot be read.
runPreflight == healthy \in {FALSE, mode = "external" /\ up}

Init ==
  /\ mount = [n |-> 0, section |-> "dashboard"] /\ time = TimeAtMount /\ dns = DnsAtMount
  /\ calls = {} /\ asked = {} /\ running = {} /\ added = [u \in Users |-> 0] /\ policy = 0 /\ pushed = 0
  /\ mode \in {"external", "managed"} /\ up \in BOOLEAN /\ runPreflight
  /\ acts = 0 /\ crossed = FALSE /\ lost = [u \in Users |-> 0]

Act == acts < MaxActs /\ acts' = acts + 1
Mine(c) == c.n = mount.n

(* ---- the shell ---- *)

\* onnavigate: another section is mounted; the DNS view loads at once.
Navigate ==
  /\ Act
  /\ mount' = [n |-> mount.n + 1,
               section |-> IF mount.section = "dns" THEN "dashboard" ELSE "dns"]
  /\ time' = TimeAtMount /\ dns' = DnsAtMount /\ crossed' = FALSE
  /\ calls' = calls \cup (IF mount'.section = "dns" THEN {Read(mount'.n, "load")} ELSE {})
  /\ UNCHANGED <<srv, lost>>

(* ---- AddTimeToday.svelte ---- *)

\* The select stays open to a change while an adjustment is under way.
onSelectUser(u) ==
  /\ Act /\ mount.section = "dashboard" /\ u # time.sel
  /\ time' = [time EXCEPT !.sel = u, !.result = Null, !.error = FALSE]
  /\ crossed' = (crossed \/ time.adjusting)
  /\ UNCHANGED <<mount, dns, calls, srv, lost>>

addTimeToday ==
  /\ Act /\ mount.section = "dashboard" /\ time.sel # Null /\ ~time.adjusting
  /\ time' = [time EXCEPT !.adjusting = TRUE, !.result = Null, !.error = FALSE]
  /\ calls' = calls \cup {[op |-> "adjust", n |-> mount.n, id |-> acts', user |-> time.sel, val |-> Null]}
  /\ asked' = asked \cup {[id |-> acts', user |-> time.sel]}
  /\ crossed' = FALSE
  /\ UNCHANGED <<mount, dns, running, added, policy, adguard, pushed, lost>>

\* addCustomMinutes on a field that is not a non-zero number: the last result stays.
InvalidMinutes ==
  /\ Act /\ mount.section = "dashboard" /\ time.sel # Null /\ ~time.adjusting
  /\ time' = [time EXCEPT !.error = TRUE]
  /\ UNCHANGED <<mount, dns, calls, srv, crossed, lost>>

\* The answer v to request id, for the page that still awaits it.
Awaits(c, id) == c.op # "read" /\ c.id = id
Answer(id, v) == calls' = {IF Awaits(c, id) THEN [c EXCEPT !.val = v] ELSE c : c \in calls}

\* The server adjusts, or refuses.
AdjustServed(j, ok) ==
  /\ asked' = asked \ {j}
  /\ added' = IF ok THEN [added EXCEPT ![j.user] = @ + 1] ELSE added
  /\ Answer(j.id, [ok |-> ok])
  /\ lost' = IF ok /\ ~\E c \in calls : Awaits(c, j.id) THEN [lost EXCEPT ![j.user] = @ + 1] ELSE lost
  /\ UNCHANGED <<mount, time, dns, running, policy, adguard, pushed, acts, crossed>>

\* The answer, or a failure on the way, ends addTimeToday; so does a failure to ask.
\* The server may carry out what the page has given up.
AdjustAnswered(c, ok) ==
  /\ c.op = "adjust" /\ (ok => c.val # Null)
  /\ calls' = calls \ {c}
  /\ time' = IF ~Mine(c) THEN time
             ELSE IF ok /\ c.val.ok THEN [time EXCEPT !.adjusting = FALSE, !.result = c.user]
             ELSE [time EXCEPT !.adjusting = FALSE, !.error = TRUE]
  /\ lost' = IF c.val # Null /\ c.val.ok /\ (~ok \/ ~Mine(c))
             THEN [lost EXCEPT ![c.user] = @ + 1] ELSE lost
  /\ UNCHANGED <<mount, dns, srv, acts, crossed>>

(* ---- api/dns/routes.ts ---- *)

StatusServed(c) ==
  /\ c.op = "read" /\ c.status = Null
  /\ calls' = (calls \ {c}) \cup {[c EXCEPT !.status = [health |-> healthy]]}
  /\ UNCHANGED <<mount, time, dns, srv, acts, crossed, lost>>

PreviewServed(c) ==
  /\ c.op = "read" /\ c.preview = Null
  /\ calls' = (calls \ {c}) \cup {[c EXCEPT !.preview = [rules |-> policy, applyable |-> healthy]]}
  /\ UNCHANGED <<mount, time, dns, srv, acts, crossed, lost>>

\* 409 unless healthy.
ApplyRefused(j) ==
  /\ j.phase = "sent" /\ ~healthy
  /\ running' = running \ {j}
  /\ Answer(j.id, [ok |-> FALSE, rules |-> 0, alone |-> FALSE])
  /\ UNCHANGED <<mount, time, dns, asked, added, policy, adguard, pushed, acts, crossed, lost>>

\* applyDnsBlocklist up to its first await: the plan is made from the policy.
NoneStarted == \A d \in running : d.phase = "sent"
Planned(j) == [id |-> j.id, phase |-> "planned", plan |-> policy, got |-> 0, alone |-> NoneStarted]
Overlapped(d) == [d EXCEPT !.alone = FALSE]
ApplyPlanned(j) ==
  /\ j.phase = "sent" /\ healthy
  /\ running' = {Overlapped(d) : d \in running \ {j}} \cup {Planned(j)}
  /\ UNCHANGED <<mount, time, dns, calls, asked, added, policy, adguard, pushed, acts, crossed, lost>>

\* The clients are reconciled and getUserRules has answered.
ApplyReads(j) ==
  /\ j.phase = "planned" /\ up
  /\ running' = (running \ {j}) \cup {[j EXCEPT !.phase = "read", !.got = pushed]}
  /\ UNCHANGED <<mount, time, dns, calls, asked, added, policy, adguard, pushed, acts, crossed, lost>>

Success(j) == [ok |-> TRUE, rules |-> j.plan, alone |-> j.alone]

\* Mutant: a list as long as the one AdGuard has is taken for the same.
ApplyWritesByLength(j) ==
  /\ j.phase = "read"
  /\ UNCHANGED pushed
  /\ running' = running \ {j}
  /\ Answer(j.id, Success(j))
  /\ UNCHANGED <<mount, time, dns, asked, added, policy, adguard, acts, crossed, lost>>

\* setUserRules, unless what was read is what is wanted; 200.
ApplyWrites(j) ==
  /\ j.phase = "read" /\ (up \/ j.got = j.plan)
  /\ pushed' = IF j.got = j.plan THEN pushed ELSE j.plan
  /\ running' = running \ {j}
  /\ Answer(j.id, Success(j))
  /\ UNCHANGED <<mount, time, dns, asked, added, policy, adguard, acts, crossed, lost>>

\* 502: AdGuard is gone or refuses under way, or its last answer is lost.
ApplyFails(j) ==
  /\ j.phase \in {"planned", "read"}
  /\ pushed' \in {pushed} \cup (IF j.phase = "read" /\ j.got # j.plan THEN {j.plan} ELSE {})
  /\ running' = running \ {j}
  /\ Answer(j.id, [ok |-> FALSE, rules |-> 0, alone |-> FALSE])
  /\ UNCHANGED <<mount, time, dns, asked, added, policy, adguard, acts, crossed, lost>>

PolicyEdited ==
  /\ policy < MaxEdits /\ policy' = policy + 1
  /\ UNCHANGED <<mount, time, dns, calls, asked, running, added, adguard, pushed, acts, crossed, lost>>

AdGuardMoves ==
  /\ up' = ~up
  /\ UNCHANGED <<mount, time, dns, calls, asked, running, added, policy, mode, healthy, pushed, acts, crossed, lost>>

\* Only a managed instance is probed again: an external one keeps the health of
\* the start, whatever becomes of it.
HealthPolled ==
  /\ mode = "managed" /\ healthy' = up
  /\ UNCHANGED <<mount, time, dns, calls, asked, running, added, policy, mode, up, pushed, acts, crossed, lost>>

(* ---- DnsFilteringView.svelte ---- *)

\* The button that is enabled on the preview's word.
CanApply ==
  /\ mount.section = "dns" /\ ~dns.loading /\ dns.preview # Null
  /\ dns.preview.applyable /\ ~dns.applying

handleApply ==
  /\ Act /\ CanApply
  /\ dns' = [dns EXCEPT !.applying = TRUE, !.error = FALSE, !.last = Null]
  /\ calls' = calls \cup {[op |-> "apply", n |-> mount.n, id |-> acts', val |-> Null]}
  /\ running' = running \cup {[id |-> acts', phase |-> "sent", plan |-> 0, got |-> 0, alone |-> FALSE]}
  /\ UNCHANGED <<mount, time, asked, added, policy, adguard, pushed, crossed, lost>>

\* The push was answered: both are read again; a failure, or the connection being
\* lost, ends the apply for the page.
ApplyAnswered(c, ok) ==
  /\ c.op = "apply" /\ (ok => c.val # Null)
  /\ LET done == ok /\ c.val.ok
     IN  /\ calls' = (calls \ {c}) \cup (IF done THEN {Read(c.n, "apply")} ELSE {})
         /\ dns' = IF ~Mine(c) THEN dns
                   ELSE IF done THEN [dns EXCEPT !.last = c.val]
                   ELSE [dns EXCEPT !.error = TRUE, !.applying = FALSE]
  /\ UNCHANGED <<mount, time, srv, acts, crossed, lost>>

\* Both answers are shown, or neither when one of the two fails.
ReadAnswered(c, ok) ==
  /\ c.op = "read" /\ (ok => c.status # Null /\ c.preview # Null)
  /\ calls' = calls \ {c}
  /\ LET shown == IF ok THEN [dns EXCEPT !.status = c.status, !.preview = c.preview]
                  ELSE [dns EXCEPT !.error = TRUE]
     IN  dns' = IF ~Mine(c) THEN dns
                ELSE IF c.why = "load" THEN [shown EXCEPT !.loading = FALSE]
                ELSE [shown EXCEPT !.applying = FALSE]
  /\ UNCHANGED <<mount, time, srv, acts, crossed, lost>>

Next ==
  \/ Navigate \/ addTimeToday \/ InvalidMinutes \/ handleApply \/ PolicyEdited \/ AdGuardMoves \/ HealthPolled
  \/ \E u \in Users : onSelectUser(u)
  \/ \E c \in calls, ok \in BOOLEAN :
       AdjustAnswered(c, ok) \/ ApplyAnswered(c, ok) \/ ReadAnswered(c, ok)
  \/ \E j \in asked, ok \in BOOLEAN : AdjustServed(j, ok)
  \/ \E j \in running :
       ApplyRefused(j) \/ ApplyPlanned(j) \/ ApplyReads(j) \/ ApplyWrites(j) \/ ApplyFails(j)
  \/ \E c \in calls : StatusServed(c) \/ PreviewServed(c)

Spec == Init /\ [][Next]_vars

-----------------------------------------------------------------------------

\* A button is disabled exactly while the page awaits the answer to what it sent:
\* no click is lost to a spinner that stays, and none doubles an adjustment that
\* may still be answered.
SpinnerTrue ==
  /\ time.adjusting <=> \E c \in calls : Mine(c) /\ c.op = "adjust"
  /\ dns.applying <=> \E c \in calls : Mine(c) /\ (c.op = "apply" \/ (c.op = "read" /\ c.why = "apply"))
  /\ \A b, c \in calls : Mine(b) /\ Mine(c) /\ b.op = c.op => b = c

\* A result on the page is that of the user selected, unless the selection was
\* changed while the adjustment was under way: then it stands under the wrong name.
ResultOfSelected == time.result # Null => time.result = time.sel \/ crossed

\* A success on the page is a change made; one made without a success on a page
\* is one whose answer was lost, and a second click there repeats it.
ResultWasAdded == \A u \in Users :
  added[u] >= lost[u] + (IF time.result = u THEN 1 ELSE 0)

\* "Pushed" stands beside a table at least as new as what was pushed, unless the
\* page says that reading it again failed; and AdGuard has that or newer, unless
\* the apply overlapped another: then the older may have been written last.
PushedTable ==
  dns.last # Null => /\ dns.last.alone => pushed >= dns.last.rules
                     /\ dns.applying \/ dns.error \/ dns.preview.rules >= dns.last.rules

CommandsSound == SpinnerTrue /\ ResultOfSelected /\ ResultWasAdded /\ PushedTable

=============================================================================

------------------------------ MODULE Provision ------------------------------
(***************************************************************************)
(* What the dashboard installs on a client through Ansible: the AppArmor   *)
(* and e2guardian plans computed from the policy (transport/ansible/), the *)
(* playbook runs that carry them, and the hourly re-apply of the standing  *)
(* playbooks with its per-client back-off (transport/reapply/).            *)
(*                                                                         *)
(* A rule is [action, days, start, end, dated, target]; times are hours,   *)
(* days ISO weekdays 1..7, Null where the column is null.                  *)
(***************************************************************************)
EXTENDS Integers, Sequences, FiniteSets
LOCAL INSTANCE SequencesExt

CONSTANTS Clients, Users, Null,
          LinksOf,     \* client -> its linked users, in the order of their ids
          RuleSets,    \* user -> the rule sets an edit may leave
          AppsOf, DomainsOf,   \* target -> mappable executables, domains
          ProxyPort,
          Playbooks,   \* the standing playbooks, in order
          SampleHours, \* hours at which the filter is compared with the rules
          LinuxClients,        \* clients of a platform the runner serves
          Base, MaxDelay, MaxNow, MaxPushes, MaxRuns     \* back-off, bounds

VARIABLES rules,     \* user -> schedule rules, own and inherited
          installed, \* client -> [apparmor, e2guardian]: what its last completed playbook left
          pushes,    \* playbook runs of the two pushes: [id, kind, client, plan]
          pushed,    \* pushes started
          now, pass, \* the re-apply tick: clients still to visit, Null between ticks
          at,        \* the client being re-applied: [client, book, failed], or Null
          backoff,   \* client -> [failures, nextEligibleAt], Null when none
          audit,     \* audit rows by outcome
          runs       \* playbook runs that ended

vars == <<rules, installed, pushes, pushed, now, pass, at, backoff, audit, runs>>
reapplyVars == <<now, pass, at, backoff>>

Outcomes == {"ok", "unreachable", "failed"}

(* ---- transport/ansible/apparmor.ts ---- *)

isAlwaysOn(r) == r.days = Null /\ r.start = Null /\ r.end = Null /\ ~r.dated
listUserAlwaysOnDenies(u) == {r \in rules[u] : r.action = "deny" /\ isAlwaysOn(r)}
executablesForDeny(r) == IF r.target = Null THEN {} ELSE AppsOf[r.target]
\* One profile per executable, for the users it is denied to.
buildAppArmorPlan(c) ==
  LET denies(u) == UNION {executablesForDeny(r) : r \in listUserAlwaysOnDenies(u)}
      linked == ToSet(LinksOf[c]) IN
  [x \in UNION {denies(u) : u \in linked} |-> {u \in linked : x \in denies(u)}]

(* ---- transport/ansible/e2guardian.ts ---- *)

isRecurringWindow(r) == ~r.dated /\ (r.days # Null \/ r.start # Null \/ r.end # Null)
\* Mutant: ISO weekdays are taken for e2guardian's (Sunday is 0 there).
maskToE2guardianDaysIso(days) == IF days = Null THEN 0..6 ELSE {d - 1 : d \in days}
maskToE2guardianDays(days) == IF days = Null THEN 0..6 ELSE {d % 7 : d \in days}
e2guardianTimeTag(r) ==
  <<IF r.start = Null THEN 0 ELSE r.start, IF r.end = Null THEN 24 ELSE r.end, maskToE2guardianDays(r.days)>>
domainsForDenyRule(r) == IF r.target = Null THEN {} ELSE DomainsOf[r.target]
resolveAlwaysOnDomainDenies(u) == UNION {domainsForDenyRule(r) : r \in listUserAlwaysOnDenies(u)}
resolveWindowedDenies(u) ==
  LET rs == {r \in rules[u] : r.action = "deny" /\ isRecurringWindow(r) /\ domainsForDenyRule(r) # {}} IN
  [tag \in {e2guardianTimeTag(r) : r \in rs} |->
     UNION {domainsForDenyRule(r) : r \in {q \in rs : e2guardianTimeTag(q) = tag}}]
\* Filter groups and listen ports follow the position among the filtered users.
buildE2guardianPlan(c) ==
  LET filtered == SelectSeq(LinksOf[c], LAMBDA u :
                    resolveAlwaysOnDomainDenies(u) # {} \/ DOMAIN resolveWindowedDenies(u) # {}) IN
  [i \in 1..Len(filtered) |->
     [user |-> filtered[i], filterGroup |-> 1 + i, listenPort |-> ProxyPort + i,
      bannedSites |-> resolveAlwaysOnDomainDenies(filtered[i]), windows |-> resolveWindowedDenies(filtered[i])]]

(* ---- transport/ansible/index.ts: one playbook run ---- *)

\* classifyFailure: exit codes with bit 4 are hosts not reached; a missing
\* binary, another code and a signal are failures of the run.
classifyFailure(code) == IF code = 4 THEN "unreachable" ELSE "failed"
Ends(o) ==
  /\ o \in {"ok"} \cup {classifyFailure(code) : code \in {2, 4, Null}}
  /\ runs < MaxRuns /\ runs' = runs + 1
  /\ audit' = [audit EXCEPT ![o] = @ + 1]

(* ---- the two pushes ---- *)

pushAppArmorProfiles(c) ==
  /\ pushed < MaxPushes /\ pushed' = pushed + 1
  /\ pushes' = pushes \cup {[id |-> pushed, kind |-> "apparmor", client |-> c, plan |-> buildAppArmorPlan(c)]}
  /\ UNCHANGED <<rules, installed, reapplyVars, audit, runs>>
pushE2guardianFiltering(c) ==
  /\ pushed < MaxPushes /\ pushed' = pushed + 1
  /\ pushes' = pushes \cup {[id |-> pushed, kind |-> "e2guardian", client |-> c, plan |-> buildE2guardianPlan(c)]}
  /\ UNCHANGED <<rules, installed, reapplyVars, audit, runs>>
\* The run ends; the outcome is recorded before the caller learns of it.
PushEnds(p) ==
  /\ pushes' = pushes \ {p}
  /\ \E o \in Outcomes :
       /\ Ends(o)
       /\ installed' = IF o = "ok" THEN [installed EXCEPT ![p.client][p.kind] = p.plan] ELSE installed
  /\ UNCHANGED <<rules, pushed, reapplyVars>>
EditRules(u) ==
  /\ \E s \in RuleSets[u] \ {rules[u]} : rules' = [rules EXCEPT ![u] = s]
  /\ UNCHANGED <<installed, pushes, pushed, reapplyVars, audit, runs>>

(* ---- transport/reapply/scheduler.ts ---- *)

tick ==
  /\ pass = Null /\ Playbooks # <<>>
  /\ pass' = SetToSeq(Clients)
  /\ UNCHANGED <<rules, installed, pushes, pushed, now, at, backoff, audit, runs>>
\* Mutant: a client still in back-off is visited.
EligibleAlways(c) == c \in LinuxClients
Eligible(c) == c \in LinuxClients /\ (backoff[c] # Null => now >= backoff[c].nextEligibleAt)
\* The next client: skipped (platform, back-off, the probe says no or throws),
\* or its first playbook starts.  After the last one the tick is over.
visit ==
  /\ pass # Null /\ at = Null
  /\ IF pass = <<>> THEN pass' = Null /\ UNCHANGED at
     ELSE /\ pass' = Tail(pass)
          /\ \/ UNCHANGED at
             \/ Eligible(Head(pass)) /\ at' = [client |-> Head(pass), book |-> 1, failed |-> FALSE]
  /\ UNCHANGED <<rules, installed, pushes, pushed, now, backoff, audit, runs>>
recordFailure(c) ==
  LET f == IF backoff[c] = Null THEN 1 ELSE backoff[c].failures + 1
      d == Base * 2^(f - 1) IN
  backoff' = [backoff EXCEPT ![c] = [failures |-> f, nextEligibleAt |-> now + (IF d < MaxDelay THEN d ELSE MaxDelay)]]
\* One playbook of the client ends.
reapplyClient ==
  /\ at # Null
  /\ \E o \in Outcomes :
       LET failed == at.failed \/ o = "failed" IN
       /\ Ends(o)
       /\ IF o = "unreachable" THEN at' = Null /\ UNCHANGED backoff
          ELSE IF at.book < Len(Playbooks) THEN at' = [at EXCEPT !.book = @ + 1, !.failed = failed] /\ UNCHANGED backoff
          ELSE /\ at' = Null
               /\ IF failed THEN recordFailure(at.client) ELSE backoff' = [backoff EXCEPT ![at.client] = Null]
  /\ UNCHANGED <<rules, installed, pushes, pushed, now, pass>>
TimePasses == now < MaxNow /\ now' = now + 1
  /\ UNCHANGED <<rules, installed, pushes, pushed, pass, at, backoff, audit, runs>>

Init ==
  /\ rules \in [Users -> UNION {RuleSets[u] : u \in Users}] /\ \A u \in Users : rules[u] \in RuleSets[u]
  /\ installed = [c \in Clients |-> [apparmor |-> Null, e2guardian |-> Null]]
  /\ pushes = {} /\ pushed = 0 /\ now = 0 /\ pass = Null /\ at = Null
  /\ backoff = [c \in Clients |-> Null]
  /\ audit = [o \in Outcomes |-> 0] /\ runs = 0

Next ==
  \/ \E c \in Clients : pushAppArmorProfiles(c) \/ pushE2guardianFiltering(c)
  \/ \E p \in pushes : PushEnds(p)
  \/ \E u \in Users : EditRules(u)
  \/ tick \/ visit \/ reapplyClient \/ TimePasses
Spec == Init /\ [][Next]_vars

-----------------------------------------------------------------------------
\* When e2guardian (whose days count from Sunday = 0) filters a site for a user.
Blocks(plan, u, site, day, hour) ==
  \E i \in DOMAIN plan : plan[i].user = u /\
    \/ site \in plan[i].bannedSites
    \/ \E tag \in DOMAIN plan[i].windows :
         site \in plan[i].windows[tag] /\ (day % 7) \in tag[3] /\ hour >= tag[1] /\ hour < tag[2]
\* The filter plan blocks a site for a user in exactly the hours some undated
\* deny rule of that user covers, on the right weekday, whatever tags coincide.
FilterIsPolicy ==
  \A c \in Clients : LET plan == buildE2guardianPlan(c) IN
    \A u \in ToSet(LinksOf[c]), site \in UNION {DomainsOf[t] : t \in DOMAIN DomainsOf}, day \in 1..7, hour \in SampleHours :
      Blocks(plan, u, site, day, hour) <=>
        \E r \in rules[u] :
          /\ r.action = "deny" /\ ~r.dated /\ site \in domainsForDenyRule(r)
          /\ (r.days # Null => day \in r.days)
          /\ (r.start # Null => hour >= r.start) /\ (r.end # Null => hour < r.end)
\* No two users share a filter group or a listener, and none is the proxy's own.
PortsDistinct ==
  \A c \in Clients : LET plan == buildE2guardianPlan(c) IN
    \A i, j \in DOMAIN plan :
      /\ plan[i].listenPort # ProxyPort /\ plan[i].filterGroup >= 2
      /\ (plan[i].listenPort = plan[j].listenPort \/ plan[i].filterGroup = plan[j].filterGroup => i = j)
\* A client is being re-applied only if its back-off had run out, and no
\* back-off reaches further than MaxDelay.
BackoffHonoured ==
  /\ at # Null => at.client \in LinuxClients /\ (backoff[at.client] # Null => now >= backoff[at.client].nextEligibleAt)
  /\ \A c \in Clients : backoff[c] # Null => backoff[c].nextEligibleAt <= now + MaxDelay
ProvisionSound == FilterIsPolicy /\ PortsDistinct /\ BackoffHonoured
=============================================================================

---------------------------- MODULE DnsBlocklist ----------------------------
(***************************************************************************)
(* The per-device DNS blocklist (transport/adguard/blocklist.ts), from the *)
(* always-on domain denies of the policy (policy/domain-denies.ts) to      *)
(* AdGuard Home's clients and its one global list of user rules, pushed by *)
(* POST /api/dns/blocklist/apply (api/dns/routes.ts).  Every REST call is  *)
(* a step of its own: two requests, the household's own edits in AdGuard's *)
(* UI and policy edits interleave with it, and any call may fail, with or  *)
(* without having taken effect.                                            *)
(***************************************************************************)
EXTENDS Naturals, Sequences, FiniteSets, TLC
LOCAL INSTANCE SequencesExt

CONSTANTS Devices,       \* dashboard clients
          LabelOf,       \* device -> label (friendly name or hostname)
          IpsOf,         \* device -> reported IPs
          LinksOf,       \* device -> users
          RuleSets,      \* user -> the schedule rules an edit may leave
          DomainsOf,     \* activity or group target -> its domain matchers
          ForeignLines,  \* hand-written user rules
          ForeignClient, \* a client made by hand
          Applies,       \* concurrent apply requests
          Null,
          MaxEdits       \* bound: policy and household edits

VARIABLES rules,      \* user -> its rules (own and inherited)
          agClients,  \* AdGuard's clients: name -> [ids, global]: global is use_global_settings
          agRules,    \* AdGuard's user rules
          pc, plan, todo, got,  \* of each apply
          edits,
          household,  \* history: the household's lines, as last written
          raced,      \* history: a household edit fell between a read and its write
          alone,      \* history, of each apply: nothing else wrote since its plan
          expect      \* history: the last apply ran alone and nothing changed since

agVars == <<agClients, agRules>>
vars == <<rules, agClients, agRules, pc, plan, todo, got, edits, household, raced, alone, expect>>

Begin == <<"marker", "begin">>
End == <<"marker", "end">>

(* ---- policy/domain-denies.ts ---- *)

isAlwaysOnRule(r) == r.days = Null /\ r.minutes = Null /\ r.dates = Null
domainsForDenyRule(r) == IF r.target = Null THEN {} ELSE DomainsOf[r.target]
resolveAlwaysOnDomainDenies(rs) ==
  UNION {domainsForDenyRule(r) : r \in {x \in rs : x.action = "deny" /\ isAlwaysOnRule(x)}}

(* ---- blocklist.ts: the plan ---- *)

domainsOn(d) == UNION {resolveAlwaysOnDomainDenies(rules[u]) : u \in LinksOf[d]}
\* Devices sharing a label share one AdGuard client; a label none of whose
\* devices reported an address is skipped.
buildDnsBlocklistPlan ==
  LET devs == {d \in Devices : domainsOn(d) # {}}
      named(n) == {d \in devs : LabelOf[d] = n}
      ids(n) == UNION {IpsOf[d] : d \in named(n)}
  IN  [n \in {m \in {LabelOf[d] : d \in devs} : ids(m) # {}} |->
         [ids |-> ids(n), domains |-> UNION {domainsOn(d) : d \in named(n)}]]

\* Sorted, so that equal plans give equal text.
managedRules(p) == SetToSeq(UNION {{<<dom, n>> : dom \in p[n].domains} : n \in DOMAIN p})
managedBlock(p) == IF managedRules(p) = <<>> THEN <<>> ELSE <<Begin>> \o managedRules(p) \o <<End>>

\* Mutant: only the markers are removed.
stripMarkersOnly(s) == SelectSeq(s, LAMBDA l : l \notin {Begin, End})
\* A line is kept if the nearest marker before it, if any, is an end.
stripManagedRules(s) ==
  LET open(i) == \E b \in 1..i : s[b] = Begin /\ \A e \in b..i : s[e] # End
  IN  FoldLeft(LAMBDA acc, i : IF s[i] \in {Begin, End} \/ open(i) THEN acc ELSE Append(acc, s[i]),
               <<>>, [i \in 1..Len(s) |-> i])

\* Mutant: the block alone, for want of merging.
composeUserRulesAlone(s, p) == managedBlock(p)
composeUserRules(s, p) == stripManagedRules(s) \o managedBlock(p)

\* reconcileManagedClients: upserts of what differs, then deletes of what went.
\* The prefix keeps foreign clients out of what is listed and written.
listManagedClients == {n \in DOMAIN agClients : n # ForeignClient}
\* A managed client inherits the instance's filtering: only then do its rules apply.
Managed(ids) == [ids |-> ids, global |-> TRUE]
\* Mutant: drifted addresses are left.
reconcileAddsOnly(p) ==
  SetToSeq({[op |-> "add", name |-> n, ids |-> p[n].ids] : n \in DOMAIN p \ listManagedClients})
  \o SetToSeq({[op |-> "delete", name |-> n, ids |-> {}] : n \in listManagedClients \ DOMAIN p})
\* Mutant: only the addresses are compared.
reconcileIgnoresGlobal(p) ==
  LET adds == {[op |-> "add", name |-> n, ids |-> p[n].ids] : n \in DOMAIN p \ listManagedClients}
      ups == {[op |-> "update", name |-> n, ids |-> p[n].ids] :
                n \in {m \in DOMAIN p \cap listManagedClients : agClients[m].ids # p[m].ids}}
      dels == {[op |-> "delete", name |-> n, ids |-> {}] : n \in listManagedClients \ DOMAIN p}
  IN  SetToSeq(adds) \o SetToSeq(ups) \o SetToSeq(dels)
reconcileManagedClients(p) ==
  LET adds == {[op |-> "add", name |-> n, ids |-> p[n].ids] : n \in DOMAIN p \ listManagedClients}
      ups == {[op |-> "update", name |-> n, ids |-> p[n].ids] :
                n \in {m \in DOMAIN p \cap listManagedClients : agClients[m] # Managed(p[m].ids)}}
      dels == {[op |-> "delete", name |-> n, ids |-> {}] : n \in listManagedClients \ DOMAIN p}
  IN  SetToSeq(adds) \o SetToSeq(ups) \o SetToSeq(dels)

(* ---- applyDnsBlocklist, one step per REST call ---- *)

Init ==
  /\ rules = [u \in DOMAIN RuleSets |-> CHOOSE x \in RuleSets[u] : TRUE]
  /\ agClients = (ForeignClient :> [ids |-> {}, global |-> TRUE]) /\ agRules = <<>>
  /\ pc = [a \in Applies |-> "idle"] /\ plan = [a \in Applies |-> Null]
  /\ todo = [a \in Applies |-> <<>>] /\ got = [a \in Applies |-> <<>>]
  /\ edits = 0 /\ household = <<>> /\ raced = FALSE
  /\ alone = [a \in Applies |-> FALSE] /\ expect = FALSE

\* A write of a: the other applies are no longer alone.
Wrote(a) == alone' = [b \in Applies |-> alone[b] /\ b = a] /\ expect' = FALSE

\* The route refuses (409) unless the instance was last seen healthy.
Apply(a) ==
  /\ pc[a] = "idle"
  /\ plan' = [plan EXCEPT ![a] = buildDnsBlocklistPlan]
  /\ pc' = [pc EXCEPT ![a] = "list"]
  /\ alone' = [alone EXCEPT ![a] = TRUE]
  /\ UNCHANGED <<rules, agVars, todo, got, edits, household, raced, expect>>
ListClients(a) ==
  /\ pc[a] = "list"
  /\ todo' = [todo EXCEPT ![a] = reconcileManagedClients(plan[a])]
  /\ pc' = [pc EXCEPT ![a] = "clients"]
  /\ UNCHANGED <<rules, agVars, plan, got, edits, household, raced, alone, expect>>

\* AdGuard refuses to add a client it has, or to change one it has not.
Accepts(o) == (o.op = "add") <=> (o.name \notin DOMAIN agClients)
Written(o) ==
  IF o.op = "delete" THEN [n \in DOMAIN agClients \ {o.name} |-> agClients[n]]
  ELSE [n \in DOMAIN agClients \cup {o.name} |-> IF n = o.name THEN Managed(o.ids) ELSE agClients[n]]
WriteClient(a) ==
  /\ pc[a] = "clients" /\ todo[a] # <<>> /\ Accepts(Head(todo[a]))
  /\ agClients' = Written(Head(todo[a]))
  /\ todo' = [todo EXCEPT ![a] = Tail(@)]
  /\ Wrote(a)
  /\ UNCHANGED <<rules, agRules, pc, plan, got, edits, household, raced>>
GetRules(a) ==
  /\ pc[a] = "clients" /\ todo[a] = <<>>
  /\ got' = [got EXCEPT ![a] = agRules]
  /\ pc' = [pc EXCEPT ![a] = "rules"]
  /\ UNCHANGED <<rules, agVars, plan, todo, edits, household, raced, alone, expect>>
Ended(a) ==
  /\ pc' = [pc EXCEPT ![a] = "idle"] /\ plan' = [plan EXCEPT ![a] = Null]
  /\ todo' = [todo EXCEPT ![a] = <<>>] /\ got' = [got EXCEPT ![a] = <<>>]
\* Written only when it changed.
SetRules(a) ==
  LET next == composeUserRules(got[a], plan[a])
  IN  /\ pc[a] = "rules"
      /\ agRules' = (IF next = got[a] THEN agRules ELSE next)
      /\ Ended(a)
      /\ alone' = [b \in Applies |-> alone[b] /\ (b = a \/ agRules' = agRules)]
      /\ expect' = alone[a]
      /\ UNCHANGED <<rules, agClients, edits, household, raced>>

\* Refused, unreachable or timed out: 502, whatever was written stays, and a
\* write that timed out may have taken effect.
CallFails(a) ==
  /\ pc[a] # "idle" /\ Ended(a)
  /\ agClients' \in {agClients} \cup (IF pc[a] = "clients" /\ todo[a] # <<>> /\ Accepts(Head(todo[a]))
                                      THEN {Written(Head(todo[a]))} ELSE {})
  /\ agRules' \in {agRules} \cup (IF pc[a] = "rules" THEN {composeUserRules(got[a], plan[a])} ELSE {})
  /\ Wrote(a)
  /\ UNCHANGED <<rules, edits, household, raced>>

PolicyEdit(u) ==
  /\ edits < MaxEdits /\ edits' = edits + 1
  /\ \E rs \in RuleSets[u] : rs # rules[u] /\ rules' = [rules EXCEPT ![u] = rs]
  /\ alone' = [a \in Applies |-> FALSE] /\ expect' = FALSE
  /\ UNCHANGED <<agVars, pc, plan, todo, got, household, raced>>
\* The household adds or removes a line of its own, above or below the block.
HouseholdEdit(l) ==
  LET next == IF l \in ToSet(agRules) THEN SelectSeq(agRules, LAMBDA x : x # l)
              ELSE Append(agRules, l)
  IN  /\ edits < MaxEdits /\ edits' = edits + 1
      /\ agRules' = next /\ household' = stripManagedRules(next)
      /\ raced' = (raced \/ \E a \in Applies : pc[a] = "rules")
      /\ UNCHANGED <<rules, agClients, pc, plan, todo, got, alone, expect>>

\* The household takes a managed client off the global settings, in AdGuard's UI.
HouseholdUnsets(n) ==
  /\ edits < MaxEdits /\ edits' = edits + 1
  /\ agClients[n].global /\ agClients' = [agClients EXCEPT ![n].global = FALSE]
  /\ alone' = [a \in Applies |-> FALSE] /\ expect' = FALSE
  /\ UNCHANGED <<rules, agRules, pc, plan, todo, got, household, raced>>
Next ==
  \/ \E a \in Applies : \/ Apply(a) \/ ListClients(a) \/ WriteClient(a) \/ GetRules(a) \/ SetRules(a)
                        \/ CallFails(a)
  \/ \E u \in DOMAIN RuleSets : PolicyEdit(u)
  \/ \E l \in ForeignLines : HouseholdEdit(l)
  \/ \E n \in listManagedClients : HouseholdUnsets(n)
Spec == Init /\ [][Next]_vars

-----------------------------------------------------------------------------
InSync ==
  LET p == buildDnsBlocklistPlan
  IN  /\ ToSet(agRules) \ ToSet(stripManagedRules(agRules)) = ToSet(managedBlock(p))
      /\ [n \in listManagedClients |-> agClients[n]] = [n \in DOMAIN p |-> Managed(p[n].ids)]

\* The household's own lines and clients survive every apply, failed or not,
\* unless an edit of theirs fell between an apply's read and its write.
ForeignKept ==
  /\ ~raced => stripManagedRules(agRules) = household
  /\ ForeignClient \in DOMAIN agClients /\ agClients[ForeignClient].ids = {}
\* An apply that returned 200 and met no other leaves AdGuard with exactly the
\* plan of the policy, whatever half-finished applies left before it.
AppliedInSync == expect => InSync
BlocklistSound == ForeignKept /\ AppliedInSync
=============================================================================

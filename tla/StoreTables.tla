---------------------------- MODULE StoreTables ----------------------------
(***************************************************************************)
(* The policy database (policy/schema.ts) and the repository's writes      *)
(* (policy/repository.ts), as operators from a database to the next one.   *)
(* SQLite runs each in the handler's own turn, so a write is atomic.       *)
(*                                                                         *)
(* A database is a record of tables, each a set of rows, and of the next   *)
(* id of each AUTOINCREMENT table.  The six rule tables (budgets,          *)
(* schedules, exceptions, and the same three for user groups) are one set  *)
(* "rules" whose rows name their table and owner.  A rule's target is      *)
(* <<"overall", 0>>, <<"activity", id>> or <<"group", id>>: the last two   *)
(* are plain integers to SQLite, with no foreign key.                      *)
(***************************************************************************)
EXTENDS Naturals, FiniteSets, Sequences
LOCAL INSTANCE FiniteSetsExt

Overall == <<"overall", 0>>
Ids(rows) == {r.id : r \in rows}

\* Row sets of the tables, with their UNIQUE and CHECK constraints.
usersTable(us) == \A a, b \in us : a.id = b.id => a = b
clientsTable(cs) == \A a, b \in cs : (a.id = b.id \/ a.hostname = b.hostname) => a = b
usersOnClientsTable(ls) ==
  \A a, b \in ls : (a.user = b.user /\ a.client = b.client) \/ (a.client = b.client /\ a.ref = b.ref) => a = b
userGroupsTable(gs) == \A a, b \in gs : (a.id = b.id \/ a.name = b.name) => a = b
activitiesTable(as) == \A a, b \in as : a.id = b.id => a = b
activityGroupsTable(gs) == \A a, b \in gs : (a.id = b.id \/ a.name = b.name) => a = b

\* (kind = 'overall') = (target is null).
targetCoherence(t) == t[1] = "overall" <=> t[2] = 0
budgetsCheck(r) == r.val >= 0 /\ targetCoherence(r.target)
schedulesCheck(r) == r.val > 0 /\ targetCoherence(r.target)
exceptionsCheck(r) == r.val > 0 /\ targetCoherence(r.target)

RuleTables == {"budgets", "schedules", "exceptions",
               "groupBudgets", "groupSchedules", "groupExceptions"}
ruleCheck(r) ==
  /\ r.tab \in {"budgets", "groupBudgets"} => budgetsCheck(r)
  /\ r.tab \in {"schedules", "groupSchedules"} => schedulesCheck(r)
  /\ r.tab \in {"exceptions", "groupExceptions"} => exceptionsCheck(r)

(* ---- AUTOINCREMENT ---- *)

\* Mutant: a plain rowid, the largest in the table plus one.
allocIdPlain(db, tab) ==
  CASE tab = "activities" -> Max({0} \cup {a.id : a \in db.activities}) + 1
    [] tab = "activityGroups" -> Max({0} \cup {a.id : a \in db.activityGroups}) + 1
    [] OTHER -> db.next[tab]

allocId(db, tab) == db.next[tab]
bump(db, tab) == [db EXCEPT !.next[tab] = @ + 1]

(* ---- users, clients, links ---- *)

createUser(db, tz) ==
  bump([db EXCEPT !.users = @ \cup {[id |-> allocId(db, "users"), tz |-> tz]}], "users")
updateUser(db, u, tz) ==
  [db EXCEPT !.users = {r \in @ : r.id # u} \cup {[id |-> u, tz |-> tz]}]

\* Mutant: memberships are not cascaded.
deleteUserKeepsMembership(db, u) ==
  [db EXCEPT !.users = {r \in @ : r.id # u},
             !.links = {l \in @ : l.user # u},
             !.notifications = {n \in @ : n.user # u},
             !.rules = {r \in @ : r.owner # <<"user", u>>}]

\* ON DELETE CASCADE: links, memberships, notification policy and own rules.
deleteUser(db, u) ==
  [db EXCEPT !.users = {r \in @ : r.id # u},
             !.links = {l \in @ : l.user # u},
             !.members = {m \in @ : m[1] # u},
             !.notifications = {n \in @ : n.user # u},
             !.rules = {r \in @ : r.owner # <<"user", u>>}]

createClient(db, name) ==
  bump([db EXCEPT !.clients = @ \cup {[id |-> allocId(db, "clients"), hostname |-> name]}], "clients")
updateClient(db, c, name) ==
  [db EXCEPT !.clients = {r \in @ : r.id # c} \cup {[id |-> c, hostname |-> name]}]
deleteClient(db, c) ==
  [db EXCEPT !.clients = {r \in @ : r.id # c}, !.links = {l \in @ : l.client # c}]

linksOf(db, u, c) == {l \in db.links : l.user = u /\ l.client = c}
upsertLink(db, u, c, ref) ==
  [db EXCEPT !.links = (@ \ linksOf(db, u, c)) \cup {[user |-> u, client |-> c, ref |-> ref]}]
deleteLink(db, u, c) == [db EXCEPT !.links = @ \ linksOf(db, u, c)]
listUserClientIds(db, u) == {l.client : l \in {k \in db.links : k.user = u}}

(* ---- user groups ---- *)

createUserGroup(db, name) ==
  bump([db EXCEPT !.userGroups = @ \cup {[id |-> allocId(db, "userGroups"), name |-> name]}], "userGroups")
updateUserGroup(db, g, name) ==
  [db EXCEPT !.userGroups = {r \in @ : r.id # g} \cup {[id |-> g, name |-> name]}]
deleteUserGroup(db, g) ==
  [db EXCEPT !.userGroups = {r \in @ : r.id # g},
             !.members = {m \in @ : m[2] # g},
             !.rules = {r \in @ : r.owner # <<"group", g>>}]
addUserToGroup(db, g, u) == [db EXCEPT !.members = @ \cup {<<u, g>>}]
removeUserFromGroup(db, g, u) == [db EXCEPT !.members = @ \ {<<u, g>>}]
listGroupMembers(db, g) == {m[1] : m \in {k \in db.members : k[2] = g}}
listUserGroupsForUser(db, u) == {m[2] : m \in {k \in db.members : k[1] = u}}

(* ---- activities and activity groups ---- *)

\* born tells incarnations of an id apart; the database does not store it.
createActivity(db, born) ==
  bump([db EXCEPT !.activities = @ \cup {[id |-> allocId(db, "activities"), born |-> born, matcher |-> 0]}],
       "activities")
updateActivity(db, a, matcher) ==
  [db EXCEPT !.activities = {IF r.id = a THEN [r EXCEPT !.matcher = matcher] ELSE r : r \in @}]
\* Cascades to the memberships only: rules that name the activity stay.
deleteActivity(db, a) ==
  [db EXCEPT !.activities = {r \in @ : r.id # a},
             !.activityMembers = {m \in @ : m[1] # a}]
createActivityGroup(db, name, born) ==
  bump([db EXCEPT !.activityGroups =
          @ \cup {[id |-> allocId(db, "activityGroups"), name |-> name, born |-> born]}], "activityGroups")
updateActivityGroup(db, g, name) ==
  [db EXCEPT !.activityGroups = {IF r.id = g THEN [r EXCEPT !.name = name] ELSE r : r \in @}]
deleteActivityGroup(db, g) ==
  [db EXCEPT !.activityGroups = {r \in @ : r.id # g},
             !.activityMembers = {m \in @ : m[2] # g}]
addActivityToGroup(db, g, a) == [db EXCEPT !.activityMembers = @ \cup {<<a, g>>}]
removeActivityFromGroup(db, g, a) == [db EXCEPT !.activityMembers = @ \ {<<a, g>>}]

(* ---- the rule tables ---- *)

\* The incarnation a target names now, 0 for "overall" and for a dangling one.
bornOf(db, t) ==
  LET rows == IF t[1] = "activity" THEN db.activities
              ELSE IF t[1] = "group" THEN db.activityGroups ELSE {}
  IN  IF \E r \in rows : r.id = t[2] THEN (CHOOSE r \in rows : r.id = t[2]).born ELSE 0

ruleRow(tab, owner, id, target, val, ord, born) ==
  [tab |-> tab, owner |-> owner, id |-> id, target |-> target, val |-> val, ord |-> ord, born |-> born]
insertRule(db, tab, owner, target, val, ord) ==
  bump([db EXCEPT !.rules =
          @ \cup {ruleRow(tab, owner, allocId(db, tab), target, val, ord, bornOf(db, target))}], tab)
updateRule(db, r, target, val, ord) ==
  [db EXCEPT !.rules = (@ \ {r}) \cup
     {ruleRow(r.tab, r.owner, r.id, target, val, ord,
              IF target = r.target THEN r.born ELSE bornOf(db, target))}]
removeRule(db, r) == [db EXCEPT !.rules = @ \ {r}]

createBudget(db, u, target, val) == insertRule(db, "budgets", <<"user", u>>, target, val, 0)
updateBudget(db, r, target, val) == updateRule(db, r, target, val, 0)
deleteBudget(db, r) == removeRule(db, r)
createSchedule(db, u, target, val, ord) == insertRule(db, "schedules", <<"user", u>>, target, val, ord)
updateSchedule(db, r, target, val, ord) == updateRule(db, r, target, val, ord)
deleteSchedule(db, r) == removeRule(db, r)
createException(db, u, target, val) == insertRule(db, "exceptions", <<"user", u>>, target, val, 0)
updateException(db, r, target, val) == updateRule(db, r, target, val, 0)
deleteException(db, r) == removeRule(db, r)
createGroupBudget(db, g, target, val) == insertRule(db, "groupBudgets", <<"group", g>>, target, val, 0)
updateGroupBudget(db, r, target, val) == updateRule(db, r, target, val, 0)
deleteGroupBudget(db, r) == removeRule(db, r)
createGroupSchedule(db, g, target, val, ord) == insertRule(db, "groupSchedules", <<"group", g>>, target, val, ord)
updateGroupSchedule(db, r, target, val, ord) == updateRule(db, r, target, val, ord)
deleteGroupSchedule(db, r) == removeRule(db, r)
createGroupException(db, g, target, val) == insertRule(db, "groupExceptions", <<"group", g>>, target, val, 0)
updateGroupException(db, r, target, val) == updateRule(db, r, target, val, 0)
deleteGroupException(db, r) == removeRule(db, r)

\* Rows of one owner in one table, in evaluation order: by ordinal, then by id.
rowsOf(db, tab, owner) == {r \in db.rules : r.tab = tab /\ r.owner = owner}
before(a, b) == a.ord < b.ord \/ (a.ord = b.ord /\ a.id < b.id)
inOrder(rows) ==
  CHOOSE s \in [1..Cardinality(rows) -> rows] : \A i, j \in DOMAIN s : i < j => before(s[i], s[j])
listUserSchedules(db, u) == inOrder(rowsOf(db, "schedules", <<"user", u>>))
listGroupSchedules(db, g) == inOrder(rowsOf(db, "groupSchedules", <<"group", g>>))

\* A complete permutation of the owner's rows renumbers them from zero.
renumber(db, tab, owner, s) ==
  [db EXCEPT !.rules = {IF r.tab = tab /\ r.owner = owner
                        THEN [r EXCEPT !.ord = (CHOOSE i \in DOMAIN s : s[i] = r.id) - 1] ELSE r : r \in @}]
reorderUserSchedules(db, u, ids) == renumber(db, "schedules", <<"user", u>>, ids)
reorderGroupSchedules(db, g, ids) == renumber(db, "groupSchedules", <<"group", g>>, ids)

(* ---- notification policies ---- *)

upsertNotificationPolicy(db, u, val) ==
  [db EXCEPT !.notifications = {n \in @ : n.user # u} \cup {[user |-> u, val |-> val]}]
deleteNotificationPolicy(db, u) == [db EXCEPT !.notifications = {n \in @ : n.user # u}]
=============================================================================

---------------------------- MODULE PolicyStore ----------------------------
(***************************************************************************)
(* The admin API over the policy database (api/policy/routes): one action  *)
(* per mutating route.  A route checks its ends and targets (404, 400),    *)
(* writes (409 on a unique index), then hands the policy-push dispatcher   *)
(* the commands it derives, if any.  A refused request changes nothing and *)
(* is not a step.                                                          *)
(***************************************************************************)
EXTENDS StoreTables
LOCAL INSTANCE SequencesExt
LOCAL INSTANCE FiniteSetsExt

CONSTANTS Start,    \* the database a behaviour starts from
          Names,    \* hostnames and group names
          Refs,     \* OS accounts
          Vals,     \* contents of a rule, of a zone, of a notification policy
          Ords,     \* ordinals a body may name
          MaxOps    \* bound: requests

VARIABLES db,       \* the database
          route,    \* the request served last
          cmds,     \* the push commands it dispatched
          ops

vars == <<db, route, cmds, ops>>

Init == db = Start /\ route = "none" /\ cmds = {} /\ ops = 0

(* ---- push commands (transport/stub.ts) ---- *)

Cmd(c, u, reason, ref) == [client |-> c, user |-> u, reason |-> reason, ref |-> ref]
NoRef == "none"
userPushCommands(reason, u, cs) == {Cmd(c, u, reason, NoRef) : c \in cs}
clientPushCommands(reason, c) == {Cmd(c, 0, reason, NoRef)}
linkPushCommands(reason, u, c, ref) == {Cmd(c, u, reason, ref)}
toUser(d, reason, u) == userPushCommands(reason, u, listUserClientIds(d, u))

\* Mutant: only the members' first client is told.
groupMemberPushCommandsOne(d, reason, g) ==
  UNION {{CHOOSE k \in toUser(d, reason, u) : \A j \in toUser(d, reason, u) : k.client <= j.client}
           : u \in {x \in listGroupMembers(d, g) : listUserClientIds(d, x) # {}}}

groupMemberPushCommands(d, reason, g) == UNION {toUser(d, reason, u) : u \in listGroupMembers(d, g)}

\* One request: the new database and the commands that follow the write.
Serve(r, d, cs) ==
  /\ ops' = ops + 1
  /\ route' = r /\ db' = d /\ cmds' = cs

UserIds == Ids(db.users)
ClientIds == Ids(db.clients)
GroupIds == Ids(db.userGroups)
ActivityIds == Ids(db.activities)
ActivityGroupIds == Ids(db.activityGroups)

assertTarget(t) ==
  \/ t = Overall
  \/ t[1] = "activity" /\ t[2] \in ActivityIds
  \/ t[1] = "group" /\ t[2] \in ActivityGroupIds

(* ---- users, clients, links ---- *)

PostUser(tz) ==
  LET d == createUser(db, tz) u == allocId(db, "users")
  IN  Serve("POST user", d, toUser(d, "user.created", u))
PatchUser(u, tz) ==
  /\ u \in UserIds
  /\ LET d == updateUser(db, u, tz) IN Serve("PATCH user", d, toUser(d, "user.updated", u))
\* The clients are looked up before the cascade removes the links.
DeleteUser(u) ==
  /\ u \in UserIds
  /\ Serve("DELETE user", deleteUser(db, u), toUser(db, "user.deleted", u))
PostClient(name) ==
  LET d == createClient(db, name)
  IN  clientsTable(d.clients)
      /\ Serve("POST client", d, clientPushCommands("client.created", allocId(db, "clients")))
PatchClient(c, name) ==
  /\ c \in ClientIds
  /\ clientsTable(updateClient(db, c, name).clients)
  /\ Serve("PATCH client", updateClient(db, c, name), clientPushCommands("client.updated", c))
DeleteClient(c) ==
  /\ c \in ClientIds
  /\ Serve("DELETE client", deleteClient(db, c), clientPushCommands("client.deleted", c))
PutLink(u, c, ref) ==
  /\ u \in UserIds /\ c \in ClientIds
  /\ usersOnClientsTable(upsertLink(db, u, c, ref).links)
  /\ Serve("PUT link", upsertLink(db, u, c, ref), linkPushCommands("link.upserted", u, c, ref))
DeleteLink(u, c) ==
  \E l \in linksOf(db, u, c) :
    Serve("DELETE link", deleteLink(db, u, c), linkPushCommands("link.deleted", u, c, l.ref))

(* ---- user groups: none of these pushes ---- *)

PostUserGroup(name) ==
  userGroupsTable(createUserGroup(db, name).userGroups)
  /\ Serve("POST user-group", createUserGroup(db, name), {})
PatchUserGroup(g, name) ==
  /\ g \in GroupIds
  /\ userGroupsTable(updateUserGroup(db, g, name).userGroups)
  /\ Serve("PATCH user-group", updateUserGroup(db, g, name), {})
DeleteUserGroup(g) == g \in GroupIds /\ Serve("DELETE user-group", deleteUserGroup(db, g), {})
PutMember(g, u) ==
  g \in GroupIds /\ u \in UserIds /\ Serve("PUT member", addUserToGroup(db, g, u), {})
DeleteMember(g, u) ==
  <<u, g>> \in db.members /\ Serve("DELETE member", removeUserFromGroup(db, g, u), {})

(* ---- activities and activity groups: none of these pushes ---- *)

PostActivity == Serve("POST activity", createActivity(db, ops + 1), {})
PatchActivity(a, m) == a \in ActivityIds /\ Serve("PATCH activity", updateActivity(db, a, m), {})
DeleteActivity(a) == a \in ActivityIds /\ Serve("DELETE activity", deleteActivity(db, a), {})
PostActivityGroup(name) ==
  activityGroupsTable(createActivityGroup(db, name, ops + 1).activityGroups)
  /\ Serve("POST activity-group", createActivityGroup(db, name, ops + 1), {})
PatchActivityGroup(g, name) ==
  /\ g \in ActivityGroupIds
  /\ activityGroupsTable(updateActivityGroup(db, g, name).activityGroups)
  /\ Serve("PATCH activity-group", updateActivityGroup(db, g, name), {})
DeleteActivityGroup(g) ==
  g \in ActivityGroupIds /\ Serve("DELETE activity-group", deleteActivityGroup(db, g), {})
PutActivityMember(g, a) ==
  /\ g \in ActivityGroupIds /\ a \in ActivityIds
  /\ Serve("PUT activity-member", addActivityToGroup(db, g, a), {})
DeleteActivityMember(g, a) ==
  <<a, g>> \in db.activityMembers
  /\ Serve("DELETE activity-member", removeActivityFromGroup(db, g, a), {})

(* ---- a user's own rules ---- *)

PostBudget(u, t, v) ==
  /\ u \in UserIds /\ assertTarget(t)
  /\ LET d == createBudget(db, u, t, v)
     IN  (\A r \in d.rules : ruleCheck(r)) /\ Serve("POST budget", d, toUser(d, "budget.created", u))
PatchBudget(r, t, v) ==
  /\ r.tab = "budgets" /\ assertTarget(t)
  /\ LET d == updateBudget(db, r, t, v)
     IN  (\A q \in d.rules : ruleCheck(q)) /\ Serve("PATCH budget", d, toUser(d, "budget.updated", r.owner[2]))
DeleteBudget(r) ==
  r.tab = "budgets" /\ Serve("DELETE budget", deleteBudget(db, r), toUser(db, "budget.deleted", r.owner[2]))
PostSchedule(u, t, v, o) ==
  /\ u \in UserIds /\ assertTarget(t)
  /\ LET d == createSchedule(db, u, t, v, o)
     IN  (\A r \in d.rules : ruleCheck(r)) /\ Serve("POST schedule", d, toUser(d, "schedule.created", u))
PatchSchedule(r, t, v, o) ==
  /\ r.tab = "schedules" /\ assertTarget(t)
  /\ LET d == updateSchedule(db, r, t, v, o)
     IN  (\A q \in d.rules : ruleCheck(q)) /\ Serve("PATCH schedule", d, toUser(d, "schedule.updated", r.owner[2]))
DeleteSchedule(r) ==
  r.tab = "schedules"
  /\ Serve("DELETE schedule", deleteSchedule(db, r), toUser(db, "schedule.deleted", r.owner[2]))
PostException(u, t, v) ==
  /\ u \in UserIds /\ assertTarget(t)
  /\ LET d == createException(db, u, t, v)
     IN  (\A r \in d.rules : ruleCheck(r)) /\ Serve("POST exception", d, toUser(d, "exception.created", u))
PatchException(r, t, v) ==
  /\ r.tab = "exceptions" /\ assertTarget(t)
  /\ LET d == updateException(db, r, t, v)
     IN  (\A q \in d.rules : ruleCheck(q)) /\ Serve("PATCH exception", d, toUser(d, "exception.updated", r.owner[2]))
DeleteException(r) ==
  r.tab = "exceptions"
  /\ Serve("DELETE exception", deleteException(db, r), toUser(db, "exception.deleted", r.owner[2]))

(* ---- a user group's rules: pushed to every member's clients ---- *)

PostGroupBudget(g, t, v) ==
  /\ g \in GroupIds /\ assertTarget(t)
  /\ LET d == createGroupBudget(db, g, t, v)
     IN  (\A r \in d.rules : ruleCheck(r))
         /\ Serve("POST group-budget", d, groupMemberPushCommands(d, "budget.created", g))
PatchGroupBudget(r, t, v) ==
  /\ r.tab = "groupBudgets" /\ assertTarget(t)
  /\ LET d == updateGroupBudget(db, r, t, v)
     IN  (\A q \in d.rules : ruleCheck(q))
         /\ Serve("PATCH group-budget", d, groupMemberPushCommands(d, "budget.updated", r.owner[2]))
DeleteGroupBudget(r) ==
  /\ r.tab = "groupBudgets"
  /\ Serve("DELETE group-budget", deleteGroupBudget(db, r),
           groupMemberPushCommands(db, "budget.deleted", r.owner[2]))
PostGroupSchedule(g, t, v, o) ==
  /\ g \in GroupIds /\ assertTarget(t)
  /\ LET d == createGroupSchedule(db, g, t, v, o)
     IN  (\A r \in d.rules : ruleCheck(r))
         /\ Serve("POST group-schedule", d, groupMemberPushCommands(d, "schedule.created", g))
PatchGroupSchedule(r, t, v, o) ==
  /\ r.tab = "groupSchedules" /\ assertTarget(t)
  /\ LET d == updateGroupSchedule(db, r, t, v, o)
     IN  (\A q \in d.rules : ruleCheck(q))
         /\ Serve("PATCH group-schedule", d, groupMemberPushCommands(d, "schedule.updated", r.owner[2]))
DeleteGroupSchedule(r) ==
  /\ r.tab = "groupSchedules"
  /\ Serve("DELETE group-schedule", deleteGroupSchedule(db, r),
           groupMemberPushCommands(db, "schedule.deleted", r.owner[2]))
PostGroupException(g, t, v) ==
  /\ g \in GroupIds /\ assertTarget(t)
  /\ LET d == createGroupException(db, g, t, v)
     IN  (\A r \in d.rules : ruleCheck(r))
         /\ Serve("POST group-exception", d, groupMemberPushCommands(d, "exception.created", g))
PatchGroupException(r, t, v) ==
  /\ r.tab = "groupExceptions" /\ assertTarget(t)
  /\ LET d == updateGroupException(db, r, t, v)
     IN  (\A q \in d.rules : ruleCheck(q))
         /\ Serve("PATCH group-exception", d, groupMemberPushCommands(d, "exception.updated", r.owner[2]))
DeleteGroupException(r) ==
  /\ r.tab = "groupExceptions"
  /\ Serve("DELETE group-exception", deleteGroupException(db, r),
           groupMemberPushCommands(db, "exception.deleted", r.owner[2]))

(* ---- evaluation order: neither pushes ---- *)

\* 409 unless ids is a permutation of the owner's rules.
IsOrderOf(ids, rows) == Len(ids) = Cardinality(rows) /\ ToSet(ids) = {r.id : r \in rows}
PutOrder(u, ids) ==
  /\ u \in UserIds
  /\ IsOrderOf(ids, rowsOf(db, "schedules", <<"user", u>>))
  /\ Serve("PUT order", reorderUserSchedules(db, u, ids), {})
PutGroupOrder(g, ids) ==
  /\ g \in GroupIds
  /\ IsOrderOf(ids, rowsOf(db, "groupSchedules", <<"group", g>>))
  /\ Serve("PUT group-order", reorderGroupSchedules(db, g, ids), {})

(* ---- notification policy ---- *)

PutNotificationPolicy(u, v) ==
  /\ u \in UserIds
  /\ Serve("PUT notification", upsertNotificationPolicy(db, u, v), toUser(db, "notification.upserted", u))
DeleteNotificationPolicy(u) ==
  /\ \E n \in db.notifications : n.user = u
  /\ Serve("DELETE notification", deleteNotificationPolicy(db, u), toUser(db, "notification.deleted", u))

(* ---- request bodies (api/policy/dtos.ts) ---- *)

Targets == {Overall} \cup ({"activity"} \X ActivityIds) \cup ({"group"} \X ActivityGroupIds)
createBudgetSchema == Targets \X Vals
createScheduleSchema == Targets \X Vals \X (Ords \cup {0})   \* ordinal left out: 0
createExceptionSchema == Targets \X Vals
\* What a PATCH, merged with the row, asks for: any part of it may be left out, and
\* a target that is not there is refused, the row's own too.
updateBudgetSchema(r) == Targets \X (Vals \cup {r.val})
updateScheduleSchema(r) == Targets \X (Vals \cup {r.val}) \X (Ords \cup {r.ord})
updateExceptionSchema(r) == Targets \X (Vals \cup {r.val})
\* Complete orders; any other list of ids answers 409.
reorderSchedulesSchema(rows) ==
  {[i \in DOMAIN s |-> s[i].id] : s \in {t \in [1..Cardinality(rows) -> rows] : ToSet(t) = rows}}

UserStep(u) ==
  \/ DeleteUser(u) \/ DeleteNotificationPolicy(u)
  \/ \E v \in Vals : PatchUser(u, v) \/ PutNotificationPolicy(u, v)
  \/ \E c \in ClientIds : DeleteLink(u, c) \/ \E ref \in Refs : PutLink(u, c, ref)
  \/ \E x \in createBudgetSchema : PostBudget(u, x[1], x[2])
  \/ \E x \in createScheduleSchema : PostSchedule(u, x[1], x[2], x[3])
  \/ \E x \in createExceptionSchema : PostException(u, x[1], x[2])
  \/ \E ids \in reorderSchedulesSchema(rowsOf(db, "schedules", <<"user", u>>)) : PutOrder(u, ids)
UserGroupStep(g) ==
  \/ DeleteUserGroup(g)
  \/ \E n \in Names : PatchUserGroup(g, n)
  \/ \E u \in UserIds : PutMember(g, u) \/ DeleteMember(g, u)
  \/ \E x \in createBudgetSchema : PostGroupBudget(g, x[1], x[2])
  \/ \E x \in createScheduleSchema : PostGroupSchedule(g, x[1], x[2], x[3])
  \/ \E x \in createExceptionSchema : PostGroupException(g, x[1], x[2])
  \/ \E ids \in reorderSchedulesSchema(rowsOf(db, "groupSchedules", <<"group", g>>)) : PutGroupOrder(g, ids)
RuleStep(r) ==
  \/ \E x \in updateBudgetSchema(r) : PatchBudget(r, x[1], x[2]) \/ PatchGroupBudget(r, x[1], x[2])
  \/ \E x \in updateScheduleSchema(r) :
       PatchSchedule(r, x[1], x[2], x[3]) \/ PatchGroupSchedule(r, x[1], x[2], x[3])
  \/ \E x \in updateExceptionSchema(r) : PatchException(r, x[1], x[2]) \/ PatchGroupException(r, x[1], x[2])
  \/ DeleteBudget(r) \/ DeleteSchedule(r) \/ DeleteException(r)
  \/ DeleteGroupBudget(r) \/ DeleteGroupSchedule(r) \/ DeleteGroupException(r)
ActivityStep ==
  \/ PostActivity
  \/ \E a \in ActivityIds : DeleteActivity(a) \/ \E v \in Vals : PatchActivity(a, v)
  \/ \E n \in Names : PostActivityGroup(n) \/ \E g \in ActivityGroupIds : PatchActivityGroup(g, n)
  \/ \E g \in ActivityGroupIds :
       DeleteActivityGroup(g) \/ \E a \in ActivityIds : PutActivityMember(g, a) \/ DeleteActivityMember(g, a)
ClientStep ==
  \E n \in Names : PostClient(n) \/ \E c \in ClientIds : PatchClient(c, n) \/ DeleteClient(c)

Next ==
  /\ ops < MaxOps
  /\ \/ \E v \in Vals : PostUser(v)
     \/ \E n \in Names : PostUserGroup(n)
     \/ \E u \in UserIds : UserStep(u)
     \/ \E g \in GroupIds : UserGroupStep(g)
     \/ \E r \in db.rules : RuleStep(r)
     \/ ActivityStep
     \/ ClientStep

Spec == Init /\ [][Next]_vars

-----------------------------------------------------------------------------
Consistent(d) ==
  /\ usersTable(d.users) /\ clientsTable(d.clients) /\ usersOnClientsTable(d.links)
  /\ userGroupsTable(d.userGroups)
  /\ activitiesTable(d.activities) /\ activityGroupsTable(d.activityGroups)
  /\ \A l \in d.links : l.user \in Ids(d.users) /\ l.client \in Ids(d.clients)
  /\ \A m \in d.members : m[1] \in Ids(d.users) /\ m[2] \in Ids(d.userGroups)
  /\ \A m \in d.activityMembers : m[1] \in Ids(d.activities) /\ m[2] \in Ids(d.activityGroups)
  /\ \A r \in d.rules :
       ruleCheck(r) /\ r.owner[2] \in Ids(IF r.owner[1] = "user" THEN d.users ELSE d.userGroups)
  /\ \A n \in d.notifications : n.user \in Ids(d.users)
TargetsMean(d) == \A r \in d.rules : r.target # Overall => bornOf(d, r.target) \in {0, r.born}

\* Every reference with a foreign key resolves, every key, unique index and check
\* holds, whatever cascades ran.
StoreConsistent == Consistent(db)

\* A rule's activity or activity group is a bare integer.  Deleting the target
\* leaves the rule dangling, and the integer never comes to denote another
\* activity or group created later.
TargetsKeepMeaning == TargetsMean(db)

\* The two together: after any sequence of requests no row points at nothing,
\* and none at something other than what its author chose.
StoreSound == StoreConsistent /\ TargetsKeepMeaning

(* ---- what makes the two inductive ---- *)

Keyed == {"users", "clients", "userGroups", "activities", "activityGroups"}
Owners == {"user", "group"} \X Nat
Marks == {"overall", "activity", "group"} \X Nat

\* The columns the writes read; ordinals are left open.
RuleColumns(r) ==
  /\ r = ruleRow(r.tab, r.owner, r.id, r.target, r.val, r.ord, r.born)
  /\ r.tab \in RuleTables /\ r.owner \in Owners /\ r.target \in Marks
Columns(d) ==
  /\ DOMAIN d = {"users", "clients", "links", "userGroups", "members", "activities",
                 "activityGroups", "activityMembers", "notifications", "rules", "next"}
  /\ d.next \in [Keyed \cup RuleTables -> Nat]
  /\ d.activities \subseteq [id : Nat, born : Nat, matcher : Nat]
  /\ d.activityGroups \subseteq [id : Nat, name : STRING, born : Nat]
  /\ \A r \in d.rules : RuleColumns(r)

\* AUTOINCREMENT is ahead of every id in use and of every id a rule still names,
\* dangling or not.
IdsBelowNext(d) == \A tab \in Keyed : \A i \in Ids(d[tab]) : i \in Nat /\ i < d.next[tab]
TargetsBelowNext(d) ==
  \A r \in d.rules : /\ r.target[1] = "activity" => r.target[2] < d.next["activities"]
                     /\ r.target[1] = "group" => r.target[2] < d.next["activityGroups"]

WellFormed(d) == Columns(d) /\ IdsBelowNext(d) /\ TargetsBelowNext(d) /\ Consistent(d) /\ TargetsMean(d)
IInv == WellFormed(db) /\ ops \in Nat

ASSUME StartAssumption == WellFormed(Start)
ASSUME BodiesAssumption == Vals \subseteq Nat \ {0} /\ Ords \subseteq Nat /\ Names \subseteq STRING

(* What the executor would enforce on each account: the linked user's zone,
   overall schedules (own, then each group's in ascending id) and overall
   budgets (own, else those of the lowest group that has any).  policyInputs is
   what it reads of the database, enforced what it makes of it. *)
policyInputs(d, u) ==
  LET gs == listUserGroupsForUser(d, u)
  IN  [user |-> {r \in d.users : r.id = u},
       schedules |-> listUserSchedules(d, u),
       budgets |-> rowsOf(d, "budgets", <<"user", u>>),
       groupSchedules |-> [g \in gs |-> listGroupSchedules(d, g)],
       groupBudgets |-> [g \in gs |-> rowsOf(d, "groupBudgets", <<"group", g>>)]]

overall(rows) == {r \in rows : r.target = Overall}
windows(rules) ==
  LET s == SelectSeq(rules, LAMBDA r : r.target = Overall) IN [i \in DOMAIN s |-> s[i].val]
enforced(in) ==
  LET gs == DOMAIN in.groupBudgets
      with == {g \in gs : overall(in.groupBudgets[g]) # {}}
      mine == overall(in.budgets)
      budgets == IF mine # {} \/ with = {} THEN mine ELSE overall(in.groupBudgets[Min(with)])
      order == SetToSortSeq(gs, LAMBDA a, b : a < b)
  IN  [tz |-> {r.tz : r \in in.user},
       own |-> windows(in.schedules),
       groups |-> FlattenSeq([i \in DOMAIN order |-> windows(in.groupSchedules[order[i]])]),
       budgets |-> {<<r.id, r.val>> : r \in budgets}]
PolicyOf(d, u) == enforced(policyInputs(d, u))

\* The desired state of an account: its user's policy, or "free".
Desired(d, c, ref) ==
  IF \E l \in d.links : l.client = c /\ l.ref = ref
  THEN {PolicyOf(d, l.user) : l \in {k \in d.links : k.client = c /\ k.ref = ref}} ELSE {}

\* The account the executor acts on for a command, in the database it finds.
Touched(d, k) ==
  IF linksOf(d, k.user, k.client) # {} THEN {l.ref : l \in linksOf(d, k.user, k.client)}
  ELSE IF k.reason = "link.deleted" THEN {k.ref} ELSE {}

Followed(c, ref) ==
  \E k \in cmds' : k.client = c /\ ref \in Touched(db', k)
Unfollowed ==
  {x \in (ClientIds \cap Ids(db'.clients)) \X Refs :
     Desired(db, x[1], x[2]) # Desired(db', x[1], x[2]) /\ ~Followed(x[1], x[2])}

\* "Every mutating policy write computes the same per-client PolicyPushCommand"
\* (docs/architecture.md): whenever a request changes the policy of a user who
\* stays linked to an account, one of its commands makes the executor act on it.
EveryChangeIsPushed ==
  [][\A l \in db.links \cap db'.links : <<l.client, l.ref>> \notin Unfollowed]_vars

\* Whatever a request changes about what an account should be held to is pushed
\* to it, by every route but the ones that push nothing, or nothing that
\* reaches the account: group membership, deleting a group, reordering, deleting
\* a user, and pointing a link at another account (which frees the old one only
\* in the database).
ChangesPushedButFor ==
  [][route' \notin {"PUT member", "DELETE member", "DELETE user-group", "PUT order",
                    "PUT group-order", "DELETE user"} =>
       \A x \in Unfollowed : route' = "PUT link" /\ Desired(db', x[1], x[2]) = {}]_vars
=============================================================================

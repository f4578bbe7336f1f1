------------------------- MODULE PolicyStoreProofs -------------------------
(***************************************************************************)
(* The policy database stays sound under every request, for any starting   *)
(* database that is well formed and any request bodies: one lemma for each *)
(* kind of write, then one case for each route.                            *)
(***************************************************************************)
EXTENDS PolicyStore, TLAPS

USE DEF Keyed

\* A target names the incarnation of the one row with its id.
LEMMA BornOfRow ==
  ASSUME NEW rows, \A a, b \in rows : a.id = b.id => a = b, NEW x \in rows
  PROVE  (CHOOSE r \in rows : r.id = x.id).born = x.born
OBVIOUS

\* What the checks of the six rule tables come to.
LEMMA RuleCheckMeans ==
  ASSUME NEW r, r.tab \in RuleTables
  PROVE  /\ ruleCheck(r) => targetCoherence(r.target)
         /\ targetCoherence(r.target) /\ r.val \in Nat \ {0} => ruleCheck(r)
BY DEF RuleTables, ruleCheck, budgetsCheck, schedulesCheck, exceptionsCheck

(* ---- deletions: a row goes, and with it every row that points at it ---- *)

\* deleteUser and its cascades: links, memberships, notification policy, rules.
LEMMA DeleteUserSound ==
  ASSUME NEW d, WellFormed(d), NEW u
  PROVE  WellFormed(deleteUser(d, u))
<1> DEFINE e == deleteUser(d, u)
<1>1. /\ DOMAIN e = DOMAIN d
      /\ e.users = {r \in d.users : r.id # u}
      /\ e.links = {l \in d.links : l.user # u}
      /\ e.members = {m \in d.members : m[1] # u}
      /\ e.notifications = {n \in d.notifications : n.user # u}
      /\ e.rules = {r \in d.rules : r.owner # <<"user", u>>}
      /\ e.clients = d.clients /\ e.userGroups = d.userGroups /\ e.activities = d.activities
      /\ e.activityGroups = d.activityGroups /\ e.activityMembers = d.activityMembers /\ e.next = d.next
  BY DEF WellFormed, Columns, deleteUser
<1> HIDE DEF e
<1>2. Columns(e)
  BY <1>1 DEF WellFormed, Columns
<1>3. IdsBelowNext(e)
  BY <1>1 DEF WellFormed, IdsBelowNext, Ids
<1>4. TargetsBelowNext(e)
  BY <1>1 DEF WellFormed, TargetsBelowNext
<1>5. Consistent(e)
  <2>1. \A r \in e.rules :
          ruleCheck(r) /\ r.owner[2] \in Ids(IF r.owner[1] = "user" THEN e.users ELSE e.userGroups)
    BY <1>1 DEF WellFormed, Columns, RuleColumns, Owners, Consistent, Ids
  <2> QED
    BY <1>1, <2>1 DEF WellFormed, Consistent, Ids, usersTable, usersOnClientsTable
<1>6. TargetsMean(e)
  BY <1>1 DEF WellFormed, TargetsMean, bornOf
<1> QED
  BY <1>2, <1>3, <1>4, <1>5, <1>6 DEF WellFormed, e

\* deleteClient: the links to the client go with it.
LEMMA DeleteClientSound ==
  ASSUME NEW d, WellFormed(d), NEW c
  PROVE  WellFormed(deleteClient(d, c))
<1> DEFINE e == deleteClient(d, c)
<1>1. /\ DOMAIN e = DOMAIN d
      /\ e.clients = {r \in d.clients : r.id # c}
      /\ e.links = {l \in d.links : l.client # c}
      /\ e.users = d.users /\ e.userGroups = d.userGroups /\ e.members = d.members
      /\ e.activities = d.activities /\ e.activityGroups = d.activityGroups /\ e.activityMembers = d.activityMembers
      /\ e.notifications = d.notifications /\ e.rules = d.rules /\ e.next = d.next
  BY DEF WellFormed, Columns, deleteClient
<1> HIDE DEF e
<1>2. Columns(e)
  BY <1>1 DEF WellFormed, Columns
<1>3. IdsBelowNext(e)
  BY <1>1 DEF WellFormed, IdsBelowNext, Ids
<1>4. TargetsBelowNext(e)
  BY <1>1 DEF WellFormed, TargetsBelowNext
<1>5. Consistent(e)
  BY <1>1 DEF WellFormed, Consistent, clientsTable, usersOnClientsTable, Ids
<1>6. TargetsMean(e)
  BY <1>1 DEF WellFormed, TargetsMean, bornOf
<1> QED
  BY <1>2, <1>3, <1>4, <1>5, <1>6 DEF WellFormed, e

\* deleteUserGroup: its memberships and its rules go with it.
LEMMA DeleteUserGroupSound ==
  ASSUME NEW d, WellFormed(d), NEW g
  PROVE  WellFormed(deleteUserGroup(d, g))
<1> DEFINE e == deleteUserGroup(d, g)
<1>1. /\ DOMAIN e = DOMAIN d
      /\ e.userGroups = {r \in d.userGroups : r.id # g}
      /\ e.members = {m \in d.members : m[2] # g}
      /\ e.rules = {r \in d.rules : r.owner # <<"group", g>>}
      /\ e.users = d.users /\ e.clients = d.clients /\ e.links = d.links
      /\ e.activities = d.activities /\ e.activityGroups = d.activityGroups /\ e.activityMembers = d.activityMembers
      /\ e.notifications = d.notifications /\ e.next = d.next
  BY DEF WellFormed, Columns, deleteUserGroup
<1> HIDE DEF e
<1>2. Columns(e)
  BY <1>1 DEF WellFormed, Columns
<1>3. IdsBelowNext(e)
  BY <1>1 DEF WellFormed, IdsBelowNext, Ids
<1>4. TargetsBelowNext(e)
  BY <1>1 DEF WellFormed, TargetsBelowNext
<1>5. Consistent(e)
  <2>1. \A r \in e.rules :
          ruleCheck(r) /\ r.owner[2] \in Ids(IF r.owner[1] = "user" THEN e.users ELSE e.userGroups)
    BY <1>1 DEF WellFormed, Columns, RuleColumns, Owners, Consistent, Ids
  <2> QED
    BY <1>1, <2>1 DEF WellFormed, Consistent, Ids, userGroupsTable
<1>6. TargetsMean(e)
  BY <1>1 DEF WellFormed, TargetsMean, bornOf
<1> QED
  BY <1>2, <1>3, <1>4, <1>5, <1>6 DEF WellFormed, e

\* deleteActivity: rules that name the activity stay, and dangle.
LEMMA DeleteActivitySound ==
  ASSUME NEW d, WellFormed(d), NEW a
  PROVE  WellFormed(deleteActivity(d, a))
<1> DEFINE e == deleteActivity(d, a)
<1>1. /\ DOMAIN e = DOMAIN d
      /\ e.activities = {r \in d.activities : r.id # a}
      /\ e.activityMembers = {m \in d.activityMembers : m[1] # a}
      /\ e.users = d.users /\ e.clients = d.clients /\ e.links = d.links
      /\ e.userGroups = d.userGroups /\ e.members = d.members /\ e.activityGroups = d.activityGroups
      /\ e.notifications = d.notifications /\ e.rules = d.rules /\ e.next = d.next
  BY DEF WellFormed, Columns, deleteActivity
<1> HIDE DEF e
<1>2. Columns(e)
  BY <1>1 DEF WellFormed, Columns
<1>3. IdsBelowNext(e)
  BY <1>1 DEF WellFormed, IdsBelowNext, Ids
<1>4. TargetsBelowNext(e)
  BY <1>1 DEF WellFormed, TargetsBelowNext
<1>5. Consistent(e)
  BY <1>1 DEF WellFormed, Consistent, activitiesTable, Ids
<1>6. TargetsMean(e)
  <2>1. ASSUME NEW r \in e.rules, r.target # Overall
        PROVE  bornOf(e, r.target) \in {0, r.born}
    <3>1. bornOf(d, r.target) \in {0, r.born}
      BY <1>1, <2>1 DEF WellFormed, TargetsMean
    <3>2. ASSUME NEW x \in e.activities, r.target[1] = "activity", x.id = r.target[2]
          PROVE  bornOf(e, r.target) = bornOf(d, r.target)
      <4>1. x \in d.activities /\ activitiesTable(d.activities) /\ activitiesTable(e.activities)
        BY <1>1, <3>2 DEF WellFormed, Consistent, activitiesTable
      <4>2. bornOf(d, r.target) = x.born
        BY <3>2, <4>1, BornOfRow DEF bornOf, activitiesTable
      <4>3. bornOf(e, r.target) = x.born
        BY <3>2, <4>1, BornOfRow DEF bornOf, activitiesTable
      <4> QED
        BY <4>2, <4>3
    <3>3. (\A x \in e.activities : x.id # r.target[2]) /\ r.target[1] = "activity" => bornOf(e, r.target) = 0
      BY DEF bornOf
    <3>4. r.target[1] # "activity" => bornOf(e, r.target) = bornOf(d, r.target)
      BY <1>1 DEF bornOf
    <3> QED
      BY <3>1, <3>2, <3>3, <3>4
  <2> QED
    BY <2>1 DEF TargetsMean
<1> QED
  BY <1>2, <1>3, <1>4, <1>5, <1>6 DEF WellFormed, e

\* deleteActivityGroup: the same for a group of activities.
LEMMA DeleteActivityGroupSound ==
  ASSUME NEW d, WellFormed(d), NEW g
  PROVE  WellFormed(deleteActivityGroup(d, g))
<1> DEFINE e == deleteActivityGroup(d, g)
<1>1. /\ DOMAIN e = DOMAIN d
      /\ e.activityGroups = {r \in d.activityGroups : r.id # g}
      /\ e.activityMembers = {m \in d.activityMembers : m[2] # g}
      /\ e.users = d.users /\ e.clients = d.clients /\ e.links = d.links
      /\ e.userGroups = d.userGroups /\ e.members = d.members /\ e.activities = d.activities
      /\ e.notifications = d.notifications /\ e.rules = d.rules /\ e.next = d.next
  BY DEF WellFormed, Columns, deleteActivityGroup
<1> HIDE DEF e
<1>2. Columns(e)
  BY <1>1 DEF WellFormed, Columns
<1>3. IdsBelowNext(e)
  BY <1>1 DEF WellFormed, IdsBelowNext, Ids
<1>4. TargetsBelowNext(e)
  BY <1>1 DEF WellFormed, TargetsBelowNext
<1>5. Consistent(e)
  BY <1>1 DEF WellFormed, Consistent, activityGroupsTable, Ids
<1>6. TargetsMean(e)
  <2>1. ASSUME NEW r \in e.rules, r.target # Overall
        PROVE  bornOf(e, r.target) \in {0, r.born}
    <3>1. bornOf(d, r.target) \in {0, r.born}
      BY <1>1, <2>1 DEF WellFormed, TargetsMean
    <3>2. ASSUME NEW x \in e.activityGroups, r.target[1] = "group", x.id = r.target[2]
          PROVE  bornOf(e, r.target) = bornOf(d, r.target)
      <4>1. x \in d.activityGroups /\ activityGroupsTable(d.activityGroups) /\ activityGroupsTable(e.activityGroups)
        BY <1>1, <3>2 DEF WellFormed, Consistent, activityGroupsTable
      <4>2. bornOf(d, r.target) = x.born
        BY <3>2, <4>1, BornOfRow DEF bornOf, activityGroupsTable
      <4>3. bornOf(e, r.target) = x.born
        BY <3>2, <4>1, BornOfRow DEF bornOf, activityGroupsTable
      <4> QED
        BY <4>2, <4>3
    <3>3. (\A x \in e.activityGroups : x.id # r.target[2]) /\ r.target[1] = "group" => bornOf(e, r.target) = 0
      BY DEF bornOf
    <3>4. r.target[1] # "group" => bornOf(e, r.target) = bornOf(d, r.target)
      BY <1>1 DEF bornOf
    <3> QED
      BY <3>1, <3>2, <3>3, <3>4
  <2> QED
    BY <2>1 DEF TargetsMean
<1> QED
  BY <1>2, <1>3, <1>4, <1>5, <1>6 DEF WellFormed, e

\* The six deletions of a rule.
LEMMA RemoveRuleSound ==
  ASSUME NEW d, WellFormed(d), NEW r
  PROVE  WellFormed(removeRule(d, r))
<1> DEFINE e == removeRule(d, r)
<1>1. /\ DOMAIN e = DOMAIN d
      /\ e.rules = d.rules \ {r}
      /\ e.users = d.users /\ e.clients = d.clients /\ e.links = d.links
      /\ e.userGroups = d.userGroups /\ e.members = d.members /\ e.activities = d.activities
      /\ e.activityGroups = d.activityGroups /\ e.activityMembers = d.activityMembers /\ e.notifications = d.notifications
      /\ e.next = d.next
  BY DEF WellFormed, Columns, removeRule
<1> HIDE DEF e
<1>2. Columns(e)
  BY <1>1 DEF WellFormed, Columns
<1>3. IdsBelowNext(e)
  BY <1>1 DEF WellFormed, IdsBelowNext, Ids
<1>4. TargetsBelowNext(e)
  BY <1>1 DEF WellFormed, TargetsBelowNext
<1>5. Consistent(e)
  BY <1>1 DEF WellFormed, Consistent, Ids
<1>6. TargetsMean(e)
  BY <1>1 DEF WellFormed, TargetsMean, bornOf
<1> QED
  BY <1>2, <1>3, <1>4, <1>5, <1>6 DEF WellFormed, e

(* ---- links, memberships and notification policies ---- *)

\* deleteLink.
LEMMA DeleteLinkSound ==
  ASSUME NEW d, WellFormed(d), NEW u, NEW c
  PROVE  WellFormed(deleteLink(d, u, c))
<1> DEFINE e == deleteLink(d, u, c)
<1>1. /\ DOMAIN e = DOMAIN d
      /\ e.links = d.links \ linksOf(d, u, c)
      /\ e.users = d.users /\ e.clients = d.clients /\ e.userGroups = d.userGroups
      /\ e.members = d.members /\ e.activities = d.activities /\ e.activityGroups = d.activityGroups
      /\ e.activityMembers = d.activityMembers /\ e.notifications = d.notifications /\ e.rules = d.rules
      /\ e.next = d.next
  BY DEF WellFormed, Columns, deleteLink
<1> HIDE DEF e
<1>2. Columns(e)
  BY <1>1 DEF WellFormed, Columns
<1>3. IdsBelowNext(e)
  BY <1>1 DEF WellFormed, IdsBelowNext, Ids
<1>4. TargetsBelowNext(e)
  BY <1>1 DEF WellFormed, TargetsBelowNext
<1>5. Consistent(e)
  BY <1>1 DEF WellFormed, Consistent, usersOnClientsTable, Ids
<1>6. TargetsMean(e)
  BY <1>1 DEF WellFormed, TargetsMean, bornOf
<1> QED
  BY <1>2, <1>3, <1>4, <1>5, <1>6 DEF WellFormed, e

\* upsertLink between rows that exist, unless a unique index refuses it.
LEMMA UpsertLinkSound ==
  ASSUME NEW d, WellFormed(d), NEW u \in Ids(d.users), NEW c \in Ids(d.clients), NEW ref, 
         usersOnClientsTable(upsertLink(d, u, c, ref).links)
  PROVE  WellFormed(upsertLink(d, u, c, ref))
<1> DEFINE e == upsertLink(d, u, c, ref)
<1>1. /\ DOMAIN e = DOMAIN d
      /\ e.links = (d.links \ linksOf(d, u, c)) \cup {[user |-> u, client |-> c, ref |-> ref]}
      /\ e.users = d.users /\ e.clients = d.clients /\ e.userGroups = d.userGroups
      /\ e.members = d.members /\ e.activities = d.activities /\ e.activityGroups = d.activityGroups
      /\ e.activityMembers = d.activityMembers /\ e.notifications = d.notifications /\ e.rules = d.rules
      /\ e.next = d.next
  BY DEF WellFormed, Columns, upsertLink
<1> HIDE DEF e
<1>2. Columns(e)
  BY <1>1 DEF WellFormed, Columns
<1>3. IdsBelowNext(e)
  BY <1>1 DEF WellFormed, IdsBelowNext, Ids
<1>4. TargetsBelowNext(e)
  BY <1>1 DEF WellFormed, TargetsBelowNext
<1>5. Consistent(e)
  <2>1. usersOnClientsTable(e.links)
    BY DEF e
  <2>2. \A l \in e.links : l.user \in Ids(e.users) /\ l.client \in Ids(e.clients)
    BY <1>1 DEF WellFormed, Consistent
  <2> QED
    BY <1>1, <2>1, <2>2 DEF WellFormed, Consistent
<1>6. TargetsMean(e)
  BY <1>1 DEF WellFormed, TargetsMean, bornOf
<1> QED
  BY <1>2, <1>3, <1>4, <1>5, <1>6 DEF WellFormed, e

\* addUserToGroup.
LEMMA AddMemberSound ==
  ASSUME NEW d, WellFormed(d), NEW g \in Ids(d.userGroups), NEW u \in Ids(d.users)
  PROVE  WellFormed(addUserToGroup(d, g, u))
<1> DEFINE e == addUserToGroup(d, g, u)
<1>1. /\ DOMAIN e = DOMAIN d
      /\ e.members = d.members \cup {<<u, g>>}
      /\ e.users = d.users /\ e.clients = d.clients /\ e.links = d.links
      /\ e.userGroups = d.userGroups /\ e.activities = d.activities /\ e.activityGroups = d.activityGroups
      /\ e.activityMembers = d.activityMembers /\ e.notifications = d.notifications /\ e.rules = d.rules
      /\ e.next = d.next
  BY DEF WellFormed, Columns, addUserToGroup
<1> HIDE DEF e
<1>2. Columns(e)
  BY <1>1 DEF WellFormed, Columns
<1>3. IdsBelowNext(e)
  BY <1>1 DEF WellFormed, IdsBelowNext, Ids
<1>4. TargetsBelowNext(e)
  BY <1>1 DEF WellFormed, TargetsBelowNext
<1>5. Consistent(e)
  BY <1>1 DEF WellFormed, Consistent, Ids
<1>6. TargetsMean(e)
  BY <1>1 DEF WellFormed, TargetsMean, bornOf
<1> QED
  BY <1>2, <1>3, <1>4, <1>5, <1>6 DEF WellFormed, e

\* removeUserFromGroup.
LEMMA RemoveMemberSound ==
  ASSUME NEW d, WellFormed(d), NEW g, NEW u
  PROVE  WellFormed(removeUserFromGroup(d, g, u))
<1> DEFINE e == removeUserFromGroup(d, g, u)
<1>1. /\ DOMAIN e = DOMAIN d
      /\ e.members = d.members \ {<<u, g>>}
      /\ e.users = d.users /\ e.clients = d.clients /\ e.links = d.links
      /\ e.userGroups = d.userGroups /\ e.activities = d.activities /\ e.activityGroups = d.activityGroups
      /\ e.activityMembers = d.activityMembers /\ e.notifications = d.notifications /\ e.rules = d.rules
      /\ e.next = d.next
  BY DEF WellFormed, Columns, removeUserFromGroup
<1> HIDE DEF e
<1>2. Columns(e)
  BY <1>1 DEF WellFormed, Columns
<1>3. IdsBelowNext(e)
  BY <1>1 DEF WellFormed, IdsBelowNext, Ids
<1>4. TargetsBelowNext(e)
  BY <1>1 DEF WellFormed, TargetsBelowNext
<1>5. Consistent(e)
  BY <1>1 DEF WellFormed, Consistent, Ids
<1>6. TargetsMean(e)
  BY <1>1 DEF WellFormed, TargetsMean, bornOf
<1> QED
  BY <1>2, <1>3, <1>4, <1>5, <1>6 DEF WellFormed, e

\* addActivityToGroup.
LEMMA AddActivityMemberSound ==
  ASSUME NEW d, WellFormed(d), NEW g \in Ids(d.activityGroups), NEW a \in Ids(d.activities)
  PROVE  WellFormed(addActivityToGroup(d, g, a))
<1> DEFINE e == addActivityToGroup(d, g, a)
<1>1. /\ DOMAIN e = DOMAIN d
      /\ e.activityMembers = d.activityMembers \cup {<<a, g>>}
      /\ e.users = d.users /\ e.clients = d.clients /\ e.links = d.links
      /\ e.userGroups = d.userGroups /\ e.members = d.members /\ e.activities = d.activities
      /\ e.activityGroups = d.activityGroups /\ e.notifications = d.notifications /\ e.rules = d.rules
      /\ e.next = d.next
  BY DEF WellFormed, Columns, addActivityToGroup
<1> HIDE DEF e
<1>2. Columns(e)
  BY <1>1 DEF WellFormed, Columns
<1>3. IdsBelowNext(e)
  BY <1>1 DEF WellFormed, IdsBelowNext, Ids
<1>4. TargetsBelowNext(e)
  BY <1>1 DEF WellFormed, TargetsBelowNext
<1>5. Consistent(e)
  BY <1>1 DEF WellFormed, Consistent, Ids
<1>6. TargetsMean(e)
  BY <1>1 DEF WellFormed, TargetsMean, bornOf
<1> QED
  BY <1>2, <1>3, <1>4, <1>5, <1>6 DEF WellFormed, e

\* removeActivityFromGroup.
LEMMA RemoveActivityMemberSound ==
  ASSUME NEW d, WellFormed(d), NEW g, NEW a
  PROVE  WellFormed(removeActivityFromGroup(d, g, a))
<1> DEFINE e == removeActivityFromGroup(d, g, a)
<1>1. /\ DOMAIN e = DOMAIN d
      /\ e.activityMembers = d.activityMembers \ {<<a, g>>}
      /\ e.users = d.users /\ e.clients = d.clients /\ e.links = d.links
      /\ e.userGroups = d.userGroups /\ e.members = d.members /\ e.activities = d.activities
      /\ e.activityGroups = d.activityGroups /\ e.notifications = d.notifications /\ e.rules = d.rules
      /\ e.next = d.next
  BY DEF WellFormed, Columns, removeActivityFromGroup
<1> HIDE DEF e
<1>2. Columns(e)
  BY <1>1 DEF WellFormed, Columns
<1>3. IdsBelowNext(e)
  BY <1>1 DEF WellFormed, IdsBelowNext, Ids
<1>4. TargetsBelowNext(e)
  BY <1>1 DEF WellFormed, TargetsBelowNext
<1>5. Consistent(e)
  BY <1>1 DEF WellFormed, Consistent, Ids
<1>6. TargetsMean(e)
  BY <1>1 DEF WellFormed, TargetsMean, bornOf
<1> QED
  BY <1>2, <1>3, <1>4, <1>5, <1>6 DEF WellFormed, e

\* upsertNotificationPolicy for a user that exists.
LEMMA UpsertNotificationSound ==
  ASSUME NEW d, WellFormed(d), NEW u \in Ids(d.users), NEW v
  PROVE  WellFormed(upsertNotificationPolicy(d, u, v))
<1> DEFINE e == upsertNotificationPolicy(d, u, v)
<1>1. /\ DOMAIN e = DOMAIN d
      /\ e.notifications = {n \in d.notifications : n.user # u} \cup {[user |-> u, val |-> v]}
      /\ e.users = d.users /\ e.clients = d.clients /\ e.links = d.links
      /\ e.userGroups = d.userGroups /\ e.members = d.members /\ e.activities = d.activities
      /\ e.activityGroups = d.activityGroups /\ e.activityMembers = d.activityMembers /\ e.rules = d.rules
      /\ e.next = d.next
  BY DEF WellFormed, Columns, upsertNotificationPolicy
<1> HIDE DEF e
<1>2. Columns(e)
  BY <1>1 DEF WellFormed, Columns
<1>3. IdsBelowNext(e)
  BY <1>1 DEF WellFormed, IdsBelowNext, Ids
<1>4. TargetsBelowNext(e)
  BY <1>1 DEF WellFormed, TargetsBelowNext
<1>5. Consistent(e)
  BY <1>1 DEF WellFormed, Consistent, Ids
<1>6. TargetsMean(e)
  BY <1>1 DEF WellFormed, TargetsMean, bornOf
<1> QED
  BY <1>2, <1>3, <1>4, <1>5, <1>6 DEF WellFormed, e

\* deleteNotificationPolicy.
LEMMA DeleteNotificationSound ==
  ASSUME NEW d, WellFormed(d), NEW u
  PROVE  WellFormed(deleteNotificationPolicy(d, u))
<1> DEFINE e == deleteNotificationPolicy(d, u)
<1>1. /\ DOMAIN e = DOMAIN d
      /\ e.notifications = {n \in d.notifications : n.user # u}
      /\ e.users = d.users /\ e.clients = d.clients /\ e.links = d.links
      /\ e.userGroups = d.userGroups /\ e.members = d.members /\ e.activities = d.activities
      /\ e.activityGroups = d.activityGroups /\ e.activityMembers = d.activityMembers /\ e.rules = d.rules
      /\ e.next = d.next
  BY DEF WellFormed, Columns, deleteNotificationPolicy
<1> HIDE DEF e
<1>2. Columns(e)
  BY <1>1 DEF WellFormed, Columns
<1>3. IdsBelowNext(e)
  BY <1>1 DEF WellFormed, IdsBelowNext, Ids
<1>4. TargetsBelowNext(e)
  BY <1>1 DEF WellFormed, TargetsBelowNext
<1>5. Consistent(e)
  BY <1>1 DEF WellFormed, Consistent, Ids
<1>6. TargetsMean(e)
  BY <1>1 DEF WellFormed, TargetsMean, bornOf
<1> QED
  BY <1>2, <1>3, <1>4, <1>5, <1>6 DEF WellFormed, e

(* ---- creations: AUTOINCREMENT gives the row an id nothing has named yet ---- *)

\* createUser.
LEMMA CreateUserSound ==
  ASSUME NEW d, WellFormed(d), NEW tz
  PROVE  WellFormed(createUser(d, tz))
<1> DEFINE e == createUser(d, tz)
<1>1. /\ DOMAIN e = DOMAIN d
      /\ e.users = d.users \cup {[id |-> d.next["users"], tz |-> tz]}
      /\ e.next = [d.next EXCEPT !["users"] = d.next["users"] + 1]
      /\ e.clients = d.clients /\ e.links = d.links /\ e.userGroups = d.userGroups
      /\ e.members = d.members /\ e.activities = d.activities /\ e.activityGroups = d.activityGroups
      /\ e.activityMembers = d.activityMembers /\ e.notifications = d.notifications /\ e.rules = d.rules
  BY DEF WellFormed, Columns, createUser, bump, allocId
<1> HIDE DEF e
<1>2. Columns(e)
  BY <1>1 DEF WellFormed, Columns
<1>3. IdsBelowNext(e)
  BY <1>1 DEF WellFormed, Columns, IdsBelowNext, Ids
<1>4. TargetsBelowNext(e)
  BY <1>1 DEF WellFormed, Columns, RuleColumns, Marks, TargetsBelowNext
<1>5. Consistent(e)
  <2>1. \A i \in Ids(d.users) : i \in Ids(e.users)
    BY <1>1 DEF Ids
  <2>2. usersTable(e.users)
    BY <1>1 DEF WellFormed, Columns, Consistent, usersTable, IdsBelowNext, Ids
  <2>3. \A r \in e.rules :
          ruleCheck(r) /\ r.owner[2] \in Ids(IF r.owner[1] = "user" THEN e.users ELSE e.userGroups)
    BY <1>1, <2>1 DEF WellFormed, Consistent
  <2> QED
    BY <1>1, <2>1, <2>2, <2>3 DEF WellFormed, Consistent
<1>6. TargetsMean(e)
  BY <1>1 DEF WellFormed, TargetsMean, bornOf
<1> QED
  BY <1>2, <1>3, <1>4, <1>5, <1>6 DEF WellFormed, e

\* createClient, unless the hostname is taken.
LEMMA CreateClientSound ==
  ASSUME NEW d, WellFormed(d), NEW n, 
         clientsTable(createClient(d, n).clients)
  PROVE  WellFormed(createClient(d, n))
<1> DEFINE e == createClient(d, n)
<1>1. /\ DOMAIN e = DOMAIN d
      /\ e.clients = d.clients \cup {[id |-> d.next["clients"], hostname |-> n]}
      /\ e.next = [d.next EXCEPT !["clients"] = d.next["clients"] + 1]
      /\ e.users = d.users /\ e.links = d.links /\ e.userGroups = d.userGroups
      /\ e.members = d.members /\ e.activities = d.activities /\ e.activityGroups = d.activityGroups
      /\ e.activityMembers = d.activityMembers /\ e.notifications = d.notifications /\ e.rules = d.rules
  BY DEF WellFormed, Columns, createClient, bump, allocId
<1> HIDE DEF e
<1>2. Columns(e)
  BY <1>1 DEF WellFormed, Columns
<1>3. IdsBelowNext(e)
  BY <1>1 DEF WellFormed, Columns, IdsBelowNext, Ids
<1>4. TargetsBelowNext(e)
  BY <1>1 DEF WellFormed, Columns, RuleColumns, Marks, TargetsBelowNext
<1>5. Consistent(e)
  <2>1. \A i \in Ids(d.clients) : i \in Ids(e.clients)
    BY <1>1 DEF Ids
  <2>2. clientsTable(e.clients)
    BY DEF e
  <2>3. \A r \in e.rules :
          ruleCheck(r) /\ r.owner[2] \in Ids(IF r.owner[1] = "user" THEN e.users ELSE e.userGroups)
    BY <1>1, <2>1 DEF WellFormed, Consistent
  <2> QED
    BY <1>1, <2>1, <2>2, <2>3 DEF WellFormed, Consistent
<1>6. TargetsMean(e)
  BY <1>1 DEF WellFormed, TargetsMean, bornOf
<1> QED
  BY <1>2, <1>3, <1>4, <1>5, <1>6 DEF WellFormed, e

\* createUserGroup, unless the name is taken.
LEMMA CreateUserGroupSound ==
  ASSUME NEW d, WellFormed(d), NEW n, 
         userGroupsTable(createUserGroup(d, n).userGroups)
  PROVE  WellFormed(createUserGroup(d, n))
<1> DEFINE e == createUserGroup(d, n)
<1>1. /\ DOMAIN e = DOMAIN d
      /\ e.userGroups = d.userGroups \cup {[id |-> d.next["userGroups"], name |-> n]}
      /\ e.next = [d.next EXCEPT !["userGroups"] = d.next["userGroups"] + 1]
      /\ e.users = d.users /\ e.clients = d.clients /\ e.links = d.links
      /\ e.members = d.members /\ e.activities = d.activities /\ e.activityGroups = d.activityGroups
      /\ e.activityMembers = d.activityMembers /\ e.notifications = d.notifications /\ e.rules = d.rules
  BY DEF WellFormed, Columns, createUserGroup, bump, allocId
<1> HIDE DEF e
<1>2. Columns(e)
  BY <1>1 DEF WellFormed, Columns
<1>3. IdsBelowNext(e)
  BY <1>1 DEF WellFormed, Columns, IdsBelowNext, Ids
<1>4. TargetsBelowNext(e)
  BY <1>1 DEF WellFormed, Columns, RuleColumns, Marks, TargetsBelowNext
<1>5. Consistent(e)
  <2>1. \A i \in Ids(d.userGroups) : i \in Ids(e.userGroups)
    BY <1>1 DEF Ids
  <2>2. userGroupsTable(e.userGroups)
    BY DEF e
  <2>3. \A r \in e.rules :
          ruleCheck(r) /\ r.owner[2] \in Ids(IF r.owner[1] = "user" THEN e.users ELSE e.userGroups)
    BY <1>1, <2>1 DEF WellFormed, Consistent
  <2> QED
    BY <1>1, <2>1, <2>2, <2>3 DEF WellFormed, Consistent
<1>6. TargetsMean(e)
  BY <1>1 DEF WellFormed, TargetsMean, bornOf
<1> QED
  BY <1>2, <1>3, <1>4, <1>5, <1>6 DEF WellFormed, e

\* createActivity: no rule names the new id, dangling ones included.
LEMMA CreateActivitySound ==
  ASSUME NEW d, WellFormed(d), NEW born \in Nat
  PROVE  WellFormed(createActivity(d, born))
<1> DEFINE e == createActivity(d, born)
<1>1. /\ DOMAIN e = DOMAIN d
      /\ e.activities = d.activities \cup {[id |-> d.next["activities"], born |-> born, matcher |-> 0]}
      /\ e.next = [d.next EXCEPT !["activities"] = d.next["activities"] + 1]
      /\ e.users = d.users /\ e.clients = d.clients /\ e.links = d.links
      /\ e.userGroups = d.userGroups /\ e.members = d.members /\ e.activityGroups = d.activityGroups
      /\ e.activityMembers = d.activityMembers /\ e.notifications = d.notifications /\ e.rules = d.rules
  BY DEF WellFormed, Columns, createActivity, bump, allocId
<1> HIDE DEF e
<1>2. Columns(e)
  BY <1>1 DEF WellFormed, Columns
<1>3. IdsBelowNext(e)
  BY <1>1 DEF WellFormed, Columns, IdsBelowNext, Ids
<1>4. TargetsBelowNext(e)
  BY <1>1 DEF WellFormed, Columns, RuleColumns, Marks, TargetsBelowNext
<1>5. Consistent(e)
  <2>1. \A i \in Ids(d.activities) : i \in Ids(e.activities)
    BY <1>1 DEF Ids
  <2>2. activitiesTable(e.activities)
    BY <1>1 DEF WellFormed, Columns, Consistent, activitiesTable, IdsBelowNext, Ids
  <2>3. \A r \in e.rules :
          ruleCheck(r) /\ r.owner[2] \in Ids(IF r.owner[1] = "user" THEN e.users ELSE e.userGroups)
    BY <1>1, <2>1 DEF WellFormed, Consistent
  <2> QED
    BY <1>1, <2>1, <2>2, <2>3 DEF WellFormed, Consistent
<1>6. TargetsMean(e)
  <2>1. ASSUME NEW r \in e.rules, r.target # Overall
        PROVE  bornOf(e, r.target) \in {0, r.born}
    <3>1. bornOf(d, r.target) \in {0, r.born}
      BY <1>1, <2>1 DEF WellFormed, TargetsMean
    <3>2. r.target[1] = "activity" => r.target[2] # d.next["activities"]
      BY <1>1 DEF WellFormed, Columns, RuleColumns, Marks, TargetsBelowNext
    <3>3. ASSUME NEW y \in e.activities, r.target[1] = "activity", y.id = r.target[2]
          PROVE  bornOf(e, r.target) = bornOf(d, r.target)
      <4>1. y \in d.activities /\ activitiesTable(d.activities) /\ activitiesTable(e.activities)
        BY <1>1, <1>5, <3>2, <3>3 DEF WellFormed, Consistent
      <4>2. bornOf(d, r.target) = y.born
        BY <3>3, <4>1, BornOfRow DEF bornOf, activitiesTable
      <4>3. bornOf(e, r.target) = y.born
        BY <3>3, <4>1, BornOfRow DEF bornOf, activitiesTable
      <4> QED
        BY <4>2, <4>3
    <3>4. (\A y \in e.activities : y.id # r.target[2]) /\ r.target[1] = "activity" => bornOf(e, r.target) = 0
      BY DEF bornOf
    <3>5. r.target[1] # "activity" => bornOf(e, r.target) = bornOf(d, r.target)
      BY <1>1 DEF bornOf
    <3> QED
      BY <3>1, <3>3, <3>4, <3>5
  <2> QED
    BY <2>1 DEF TargetsMean
<1> QED
  BY <1>2, <1>3, <1>4, <1>5, <1>6 DEF WellFormed, e

\* createActivityGroup, unless the name is taken.
LEMMA CreateActivityGroupSound ==
  ASSUME NEW d, WellFormed(d), NEW n \in STRING, NEW born \in Nat, 
         activityGroupsTable(createActivityGroup(d, n, born).activityGroups)
  PROVE  WellFormed(createActivityGroup(d, n, born))
<1> DEFINE e == createActivityGroup(d, n, born)
<1>1. /\ DOMAIN e = DOMAIN d
      /\ e.activityGroups = d.activityGroups \cup {[id |-> d.next["activityGroups"], name |-> n, born |-> born]}
      /\ e.next = [d.next EXCEPT !["activityGroups"] = d.next["activityGroups"] + 1]
      /\ e.users = d.users /\ e.clients = d.clients /\ e.links = d.links
      /\ e.userGroups = d.userGroups /\ e.members = d.members /\ e.activities = d.activities
      /\ e.activityMembers = d.activityMembers /\ e.notifications = d.notifications /\ e.rules = d.rules
  BY DEF WellFormed, Columns, createActivityGroup, bump, allocId
<1> HIDE DEF e
<1>2. Columns(e)
  BY <1>1 DEF WellFormed, Columns
<1>3. IdsBelowNext(e)
  BY <1>1 DEF WellFormed, Columns, IdsBelowNext, Ids
<1>4. TargetsBelowNext(e)
  BY <1>1 DEF WellFormed, Columns, RuleColumns, Marks, TargetsBelowNext
<1>5. Consistent(e)
  <2>1. \A i \in Ids(d.activityGroups) : i \in Ids(e.activityGroups)
    BY <1>1 DEF Ids
  <2>2. activityGroupsTable(e.activityGroups)
    BY DEF e
  <2>3. \A r \in e.rules :
          ruleCheck(r) /\ r.owner[2] \in Ids(IF r.owner[1] = "user" THEN e.users ELSE e.userGroups)
    BY <1>1, <2>1 DEF WellFormed, Consistent
  <2> QED
    BY <1>1, <2>1, <2>2, <2>3 DEF WellFormed, Consistent
<1>6. TargetsMean(e)
  <2>1. ASSUME NEW r \in e.rules, r.target # Overall
        PROVE  bornOf(e, r.target) \in {0, r.born}
    <3>1. bornOf(d, r.target) \in {0, r.born}
      BY <1>1, <2>1 DEF WellFormed, TargetsMean
    <3>2. r.target[1] = "group" => r.target[2] # d.next["activityGroups"]
      BY <1>1 DEF WellFormed, Columns, RuleColumns, Marks, TargetsBelowNext
    <3>3. ASSUME NEW y \in e.activityGroups, r.target[1] = "group", y.id = r.target[2]
          PROVE  bornOf(e, r.target) = bornOf(d, r.target)
      <4>1. y \in d.activityGroups /\ activityGroupsTable(d.activityGroups) /\ activityGroupsTable(e.activityGroups)
        BY <1>1, <1>5, <3>2, <3>3 DEF WellFormed, Consistent
      <4>2. bornOf(d, r.target) = y.born
        BY <3>3, <4>1, BornOfRow DEF bornOf, activityGroupsTable
      <4>3. bornOf(e, r.target) = y.born
        BY <3>3, <4>1, BornOfRow DEF bornOf, activityGroupsTable
      <4> QED
        BY <4>2, <4>3
    <3>4. (\A y \in e.activityGroups : y.id # r.target[2]) /\ r.target[1] = "group" => bornOf(e, r.target) = 0
      BY DEF bornOf
    <3>5. r.target[1] # "group" => bornOf(e, r.target) = bornOf(d, r.target)
      BY <1>1 DEF bornOf
    <3> QED
      BY <3>1, <3>3, <3>4, <3>5
  <2> QED
    BY <2>1 DEF TargetsMean
<1> QED
  BY <1>2, <1>3, <1>4, <1>5, <1>6 DEF WellFormed, e

(* ---- updates: a row keeps its id ---- *)

\* updateUser.
LEMMA UpdateUserSound ==
  ASSUME NEW d, WellFormed(d), NEW u \in Ids(d.users), NEW tz
  PROVE  WellFormed(updateUser(d, u, tz))
<1> DEFINE e == updateUser(d, u, tz)
<1>1. /\ DOMAIN e = DOMAIN d
      /\ e.users = {r \in d.users : r.id # u} \cup {[id |-> u, tz |-> tz]}
      /\ e.clients = d.clients /\ e.links = d.links /\ e.userGroups = d.userGroups
      /\ e.members = d.members /\ e.activities = d.activities /\ e.activityGroups = d.activityGroups
      /\ e.activityMembers = d.activityMembers /\ e.notifications = d.notifications /\ e.rules = d.rules
      /\ e.next = d.next
  BY DEF WellFormed, Columns, updateUser
<1> HIDE DEF e
<1>2. Columns(e)
  BY <1>1 DEF WellFormed, Columns
<1>3. IdsBelowNext(e)
  BY <1>1 DEF WellFormed, IdsBelowNext, Ids
<1>4. TargetsBelowNext(e)
  BY <1>1 DEF WellFormed, TargetsBelowNext
<1>5. Consistent(e)
  <2>1. \A i \in Ids(d.users) : i \in Ids(e.users)
    <3>1. [id |-> u, tz |-> tz] \in e.users /\ [id |-> u, tz |-> tz].id = u
      BY <1>1
    <3>2. \A r \in d.users : r.id # u => r \in e.users
      BY <1>1
    <3> QED
      BY <3>1, <3>2 DEF Ids
  <2>2. usersTable(e.users)
    BY <1>1 DEF WellFormed, Consistent, usersTable
  <2>3. \A r \in e.rules :
          ruleCheck(r) /\ r.owner[2] \in Ids(IF r.owner[1] = "user" THEN e.users ELSE e.userGroups)
    BY <1>1, <2>1 DEF WellFormed, Consistent
  <2> QED
    BY <1>1, <2>1, <2>2, <2>3 DEF WellFormed, Consistent
<1>6. TargetsMean(e)
  BY <1>1 DEF WellFormed, TargetsMean, bornOf
<1> QED
  BY <1>2, <1>3, <1>4, <1>5, <1>6 DEF WellFormed, e

\* updateClient, unless the hostname is taken.
LEMMA UpdateClientSound ==
  ASSUME NEW d, WellFormed(d), NEW c \in Ids(d.clients), NEW n, 
         clientsTable(updateClient(d, c, n).clients)
  PROVE  WellFormed(updateClient(d, c, n))
<1> DEFINE e == updateClient(d, c, n)
<1>1. /\ DOMAIN e = DOMAIN d
      /\ e.clients = {r \in d.clients : r.id # c} \cup {[id |-> c, hostname |-> n]}
      /\ e.users = d.users /\ e.links = d.links /\ e.userGroups = d.userGroups
      /\ e.members = d.members /\ e.activities = d.activities /\ e.activityGroups = d.activityGroups
      /\ e.activityMembers = d.activityMembers /\ e.notifications = d.notifications /\ e.rules = d.rules
      /\ e.next = d.next
  BY DEF WellFormed, Columns, updateClient
<1> HIDE DEF e
<1>2. Columns(e)
  BY <1>1 DEF WellFormed, Columns
<1>3. IdsBelowNext(e)
  BY <1>1 DEF WellFormed, IdsBelowNext, Ids
<1>4. TargetsBelowNext(e)
  BY <1>1 DEF WellFormed, TargetsBelowNext
<1>5. Consistent(e)
  <2>1. \A i \in Ids(d.clients) : i \in Ids(e.clients)
    <3>1. [id |-> c, hostname |-> n] \in e.clients /\ [id |-> c, hostname |-> n].id = c
      BY <1>1
    <3>2. \A r \in d.clients : r.id # c => r \in e.clients
      BY <1>1
    <3> QED
      BY <3>1, <3>2 DEF Ids
  <2>2. clientsTable(e.clients)
    BY DEF e
  <2>3. \A r \in e.rules :
          ruleCheck(r) /\ r.owner[2] \in Ids(IF r.owner[1] = "user" THEN e.users ELSE e.userGroups)
    BY <1>1, <2>1 DEF WellFormed, Consistent
  <2> QED
    BY <1>1, <2>1, <2>2, <2>3 DEF WellFormed, Consistent
<1>6. TargetsMean(e)
  BY <1>1 DEF WellFormed, TargetsMean, bornOf
<1> QED
  BY <1>2, <1>3, <1>4, <1>5, <1>6 DEF WellFormed, e

\* updateUserGroup, unless the name is taken.
LEMMA UpdateUserGroupSound ==
  ASSUME NEW d, WellFormed(d), NEW g \in Ids(d.userGroups), NEW n, 
         userGroupsTable(updateUserGroup(d, g, n).userGroups)
  PROVE  WellFormed(updateUserGroup(d, g, n))
<1> DEFINE e == updateUserGroup(d, g, n)
<1>1. /\ DOMAIN e = DOMAIN d
      /\ e.userGroups = {r \in d.userGroups : r.id # g} \cup {[id |-> g, name |-> n]}
      /\ e.users = d.users /\ e.clients = d.clients /\ e.links = d.links
      /\ e.members = d.members /\ e.activities = d.activities /\ e.activityGroups = d.activityGroups
      /\ e.activityMembers = d.activityMembers /\ e.notifications = d.notifications /\ e.rules = d.rules
      /\ e.next = d.next
  BY DEF WellFormed, Columns, updateUserGroup
<1> HIDE DEF e
<1>2. Columns(e)
  BY <1>1 DEF WellFormed, Columns
<1>3. IdsBelowNext(e)
  BY <1>1 DEF WellFormed, IdsBelowNext, Ids
<1>4. TargetsBelowNext(e)
  BY <1>1 DEF WellFormed, TargetsBelowNext
<1>5. Consistent(e)
  <2>1. \A i \in Ids(d.userGroups) : i \in Ids(e.userGroups)
    <3>1. [id |-> g, name |-> n] \in e.userGroups /\ [id |-> g, name |-> n].id = g
      BY <1>1
    <3>2. \A r \in d.userGroups : r.id # g => r \in e.userGroups
      BY <1>1
    <3> QED
      BY <3>1, <3>2 DEF Ids
  <2>2. userGroupsTable(e.userGroups)
    BY DEF e
  <2>3. \A r \in e.rules :
          ruleCheck(r) /\ r.owner[2] \in Ids(IF r.owner[1] = "user" THEN e.users ELSE e.userGroups)
    BY <1>1, <2>1 DEF WellFormed, Consistent
  <2> QED
    BY <1>1, <2>1, <2>2, <2>3 DEF WellFormed, Consistent
<1>6. TargetsMean(e)
  BY <1>1 DEF WellFormed, TargetsMean, bornOf
<1> QED
  BY <1>2, <1>3, <1>4, <1>5, <1>6 DEF WellFormed, e

\* updateActivity: the row keeps its id, so rules still mean it.
LEMMA UpdateActivitySound ==
  ASSUME NEW d, WellFormed(d), NEW a, NEW m \in Nat
  PROVE  WellFormed(updateActivity(d, a, m))
<1> DEFINE e == updateActivity(d, a, m)
<1>1. /\ DOMAIN e = DOMAIN d
      /\ e.activities = {IF r.id = a THEN [r EXCEPT !.matcher = m] ELSE r : r \in d.activities}
      /\ e.users = d.users /\ e.clients = d.clients /\ e.links = d.links
      /\ e.userGroups = d.userGroups /\ e.members = d.members /\ e.activityGroups = d.activityGroups
      /\ e.activityMembers = d.activityMembers /\ e.notifications = d.notifications /\ e.rules = d.rules
      /\ e.next = d.next
  BY DEF WellFormed, Columns, updateActivity
<1> HIDE DEF e
<1>a. \A y \in e.activities : \E r \in d.activities : y.id = r.id /\ y.born = r.born
  BY <1>1 DEF WellFormed, Columns
<1>b. ASSUME NEW r \in d.activities
      PROVE  \E y \in e.activities : y.id = r.id /\ y.born = r.born
  <2>1. (IF r.id = a THEN [r EXCEPT !.matcher = m] ELSE r) \in e.activities
    BY <1>1
  <2> QED
    BY <2>1 DEF WellFormed, Columns
<1>c. \A i : i \in Ids(d.activities) <=> i \in Ids(e.activities)
  BY <1>a, <1>b DEF Ids
<1>2. Columns(e)
  BY <1>1 DEF WellFormed, Columns
<1>3. IdsBelowNext(e)
  BY <1>1, <1>c DEF WellFormed, IdsBelowNext
<1>4. TargetsBelowNext(e)
  BY <1>1 DEF WellFormed, TargetsBelowNext
<1>5. Consistent(e)
  <2>4. activitiesTable(e.activities)
    BY <1>1 DEF WellFormed, Columns, Consistent, activitiesTable
  <2> QED
    BY <1>1, <1>c, <2>4 DEF WellFormed, Consistent
<1>6. TargetsMean(e)
  <2>3. ASSUME NEW r \in e.rules
        PROVE  bornOf(e, r.target) = bornOf(d, r.target)
    <3>1. ASSUME NEW y \in e.activities, r.target[1] = "activity", y.id = r.target[2]
          PROVE  bornOf(e, r.target) = bornOf(d, r.target)
      <4>1. PICK x \in d.activities : y.id = x.id /\ y.born = x.born
        BY <1>a
      <4>2. activitiesTable(d.activities) /\ activitiesTable(e.activities)
        BY <1>5 DEF WellFormed, Consistent
      <4>3. bornOf(d, r.target) = x.born
        BY <3>1, <4>1, <4>2, BornOfRow DEF bornOf, activitiesTable
      <4>4. bornOf(e, r.target) = y.born
        BY <3>1, <4>2, BornOfRow DEF bornOf, activitiesTable
      <4> QED
        BY <4>1, <4>3, <4>4
    <3>2. (\A y \in e.activities : y.id # r.target[2]) /\ r.target[1] = "activity" => bornOf(e, r.target) = bornOf(d, r.target)
      BY <1>b DEF bornOf
    <3>3. r.target[1] # "activity" => bornOf(e, r.target) = bornOf(d, r.target)
      BY <1>1 DEF bornOf
    <3> QED
      BY <3>1, <3>2, <3>3
  <2> QED
    BY <1>1, <2>3 DEF WellFormed, TargetsMean
<1> QED
  BY <1>2, <1>3, <1>4, <1>5, <1>6 DEF WellFormed, e

\* updateActivityGroup, unless the name is taken.
LEMMA UpdateActivityGroupSound ==
  ASSUME NEW d, WellFormed(d), NEW g, NEW n \in STRING, 
         activityGroupsTable(updateActivityGroup(d, g, n).activityGroups)
  PROVE  WellFormed(updateActivityGroup(d, g, n))
<1> DEFINE e == updateActivityGroup(d, g, n)
<1>1. /\ DOMAIN e = DOMAIN d
      /\ e.activityGroups = {IF r.id = g THEN [r EXCEPT !.name = n] ELSE r : r \in d.activityGroups}
      /\ e.users = d.users /\ e.clients = d.clients /\ e.links = d.links
      /\ e.userGroups = d.userGroups /\ e.members = d.members /\ e.activities = d.activities
      /\ e.activityMembers = d.activityMembers /\ e.notifications = d.notifications /\ e.rules = d.rules
      /\ e.next = d.next
  BY DEF WellFormed, Columns, updateActivityGroup
<1> HIDE DEF e
<1>a. \A y \in e.activityGroups : \E r \in d.activityGroups : y.id = r.id /\ y.born = r.born
  BY <1>1 DEF WellFormed, Columns
<1>b. ASSUME NEW r \in d.activityGroups
      PROVE  \E y \in e.activityGroups : y.id = r.id /\ y.born = r.born
  <2>1. (IF r.id = g THEN [r EXCEPT !.name = n] ELSE r) \in e.activityGroups
    BY <1>1
  <2> QED
    BY <2>1 DEF WellFormed, Columns
<1>c. \A i : i \in Ids(d.activityGroups) <=> i \in Ids(e.activityGroups)
  BY <1>a, <1>b DEF Ids
<1>2. Columns(e)
  BY <1>1 DEF WellFormed, Columns
<1>3. IdsBelowNext(e)
  BY <1>1, <1>c DEF WellFormed, IdsBelowNext
<1>4. TargetsBelowNext(e)
  BY <1>1 DEF WellFormed, TargetsBelowNext
<1>5. Consistent(e)
  <2>4. activityGroupsTable(e.activityGroups)
    BY DEF e
  <2> QED
    BY <1>1, <1>c, <2>4 DEF WellFormed, Consistent
<1>6. TargetsMean(e)
  <2>3. ASSUME NEW r \in e.rules
        PROVE  bornOf(e, r.target) = bornOf(d, r.target)
    <3>1. ASSUME NEW y \in e.activityGroups, r.target[1] = "group", y.id = r.target[2]
          PROVE  bornOf(e, r.target) = bornOf(d, r.target)
      <4>1. PICK x \in d.activityGroups : y.id = x.id /\ y.born = x.born
        BY <1>a
      <4>2. activityGroupsTable(d.activityGroups) /\ activityGroupsTable(e.activityGroups)
        BY <1>5 DEF WellFormed, Consistent
      <4>3. bornOf(d, r.target) = x.born
        BY <3>1, <4>1, <4>2, BornOfRow DEF bornOf, activityGroupsTable
      <4>4. bornOf(e, r.target) = y.born
        BY <3>1, <4>2, BornOfRow DEF bornOf, activityGroupsTable
      <4> QED
        BY <4>1, <4>3, <4>4
    <3>2. (\A y \in e.activityGroups : y.id # r.target[2]) /\ r.target[1] = "group" => bornOf(e, r.target) = bornOf(d, r.target)
      BY <1>b DEF bornOf
    <3>3. r.target[1] # "group" => bornOf(e, r.target) = bornOf(d, r.target)
      BY <1>1 DEF bornOf
    <3> QED
      BY <3>1, <3>2, <3>3
  <2> QED
    BY <1>1, <2>3 DEF WellFormed, TargetsMean
<1> QED
  BY <1>2, <1>3, <1>4, <1>5, <1>6 DEF WellFormed, e

(* ---- the rule tables ---- *)

\* The six creations of a rule: its owner exists, its target is overall or exists,
\* and the table's checks hold.
LEMMA InsertRuleSound ==
  ASSUME NEW d, WellFormed(d), NEW tab \in RuleTables, NEW owner \in Owners, NEW t \in Marks, NEW v, NEW o, 
         owner[2] \in Ids(IF owner[1] = "user" THEN d.users ELSE d.userGroups), 
         t[1] = "activity" => t[2] \in Ids(d.activities), 
         t[1] = "group" => t[2] \in Ids(d.activityGroups), 
         \A r \in insertRule(d, tab, owner, t, v, o).rules : ruleCheck(r)
  PROVE  WellFormed(insertRule(d, tab, owner, t, v, o))
<1> DEFINE e == insertRule(d, tab, owner, t, v, o)
<1>1. /\ DOMAIN e = DOMAIN d
      /\ e.rules = d.rules \cup {ruleRow(tab, owner, d.next[tab], t, v, o, bornOf(d, t))}
      /\ e.next = [d.next EXCEPT ![tab] = d.next[tab] + 1]
      /\ e.users = d.users /\ e.clients = d.clients /\ e.links = d.links
      /\ e.userGroups = d.userGroups /\ e.members = d.members /\ e.activities = d.activities
      /\ e.activityGroups = d.activityGroups /\ e.activityMembers = d.activityMembers /\ e.notifications = d.notifications
  BY DEF WellFormed, Columns, insertRule, bump, allocId
<1> HIDE DEF e
<1>2. Columns(e)
  <2>1. RuleColumns(ruleRow(tab, owner, d.next[tab], t, v, o, bornOf(d, t)))
    BY DEF RuleColumns, ruleRow
  <2> QED
    BY <1>1, <2>1 DEF WellFormed, Columns, RuleTables
<1>3. IdsBelowNext(e)
  BY <1>1 DEF WellFormed, Columns, IdsBelowNext, RuleTables
<1>4. TargetsBelowNext(e)
  <2>1. e.next["activities"] = d.next["activities"] /\ e.next["activityGroups"] = d.next["activityGroups"]
    BY <1>1 DEF WellFormed, Columns, RuleTables
  <2>2. /\ t[1] = "activity" => t[2] < d.next["activities"]
        /\ t[1] = "group" => t[2] < d.next["activityGroups"]
    BY DEF WellFormed, IdsBelowNext
  <2> QED
    BY <1>1, <2>1, <2>2 DEF WellFormed, TargetsBelowNext, ruleRow
<1>5. Consistent(e)
  <2>1. \A r \in e.rules : ruleCheck(r)
    BY DEF e
  <2>2. \A r \in e.rules : r.owner[2] \in Ids(IF r.owner[1] = "user" THEN e.users ELSE e.userGroups)
    BY <1>1 DEF WellFormed, Consistent, ruleRow
  <2> QED
    BY <1>1, <2>1, <2>2 DEF WellFormed, Consistent
<1>6. TargetsMean(e)
  <2>1. \A r \in e.rules : bornOf(e, r.target) = bornOf(d, r.target)
    BY <1>1 DEF bornOf
  <2> QED
    BY <1>1, <2>1 DEF WellFormed, TargetsMean, ruleRow
<1> QED
  BY <1>2, <1>3, <1>4, <1>5, <1>6 DEF WellFormed, e

\* The six updates of a rule: the merged target is overall or exists, the table's
\* checks hold, and a target kept keeps the incarnation it was chosen for.
LEMMA UpdateRuleSound ==
  ASSUME NEW d, WellFormed(d), NEW r \in d.rules, NEW t \in Marks, NEW v, NEW o,
         t[1] = "activity" => t[2] \in Ids(d.activities),
         t[1] = "group" => t[2] \in Ids(d.activityGroups),
         \A q \in updateRule(d, r, t, v, o).rules : ruleCheck(q)
  PROVE  WellFormed(updateRule(d, r, t, v, o))
<1> DEFINE e == updateRule(d, r, t, v, o)
           b == IF t = r.target THEN r.born ELSE bornOf(d, t)
           y == ruleRow(r.tab, r.owner, r.id, t, v, o, b)
<1>a. RuleColumns(r)
  BY DEF WellFormed, Columns
<1>1. /\ DOMAIN e = DOMAIN d /\ e.rules = (d.rules \ {r}) \cup {y}
      /\ e.users = d.users /\ e.clients = d.clients /\ e.links = d.links
      /\ e.userGroups = d.userGroups /\ e.members = d.members /\ e.activities = d.activities
      /\ e.activityGroups = d.activityGroups /\ e.activityMembers = d.activityMembers
      /\ e.notifications = d.notifications /\ e.next = d.next
  BY DEF WellFormed, Columns, updateRule, y
<1>c. /\ RuleColumns(y) /\ y.tab = r.tab /\ y.owner = r.owner /\ y.target = t /\ y.val = v
      /\ y.born = IF t = r.target THEN r.born ELSE bornOf(d, t)
  <2>1. y.tab = r.tab /\ y.owner = r.owner /\ y.target = t /\ y.val = v /\ y.born = b
    BY DEF ruleRow
  <2>2. RuleColumns(y)
    BY <1>a, <2>1 DEF RuleColumns, ruleRow
  <2> QED
    BY <2>1, <2>2
<1>d. \A q \in e.rules : ruleCheck(q)
  BY DEF e
<1> HIDE DEF e, y, b
<1>2. Columns(e)
  BY <1>1, <1>c DEF WellFormed, Columns
<1>3. IdsBelowNext(e)
  BY <1>1 DEF WellFormed, IdsBelowNext, Ids
<1>4. TargetsBelowNext(e)
  <2>1. /\ t[1] = "activity" => t[2] < d.next["activities"]
        /\ t[1] = "group" => t[2] < d.next["activityGroups"]
    BY DEF WellFormed, IdsBelowNext, Keyed
  <2> QED
    BY <1>1, <1>c, <2>1 DEF WellFormed, TargetsBelowNext
<1>5. Consistent(e)
  <2>1. \A x \in e.rules : x.owner[2] \in Ids(IF x.owner[1] = "user" THEN e.users ELSE e.userGroups)
    BY <1>1, <1>c DEF WellFormed, Consistent
  <2> QED
    BY <1>1, <1>d, <2>1 DEF WellFormed, Consistent
<1>6. TargetsMean(e)
  <2>1. \A x \in e.rules : bornOf(e, x.target) = bornOf(d, x.target)
    BY <1>1 DEF bornOf
  <2>2. y.target # Overall => bornOf(e, y.target) \in {0, y.born}
    BY <1>1, <1>c, <2>1 DEF WellFormed, TargetsMean
  <2> QED
    BY <1>1, <2>1, <2>2 DEF WellFormed, TargetsMean
<1> QED
  BY <1>2, <1>3, <1>4, <1>5, <1>6 DEF WellFormed, e

\* reorderUserSchedules and reorderGroupSchedules touch ordinals only.
LEMMA RenumberSound ==
  ASSUME NEW d, WellFormed(d), NEW tab, NEW owner, NEW s
  PROVE  WellFormed(renumber(d, tab, owner, s))
<1> DEFINE e == renumber(d, tab, owner, s)
<1>1. /\ DOMAIN e = DOMAIN d
      /\ e.rules = {IF r.tab = tab /\ r.owner = owner
                     THEN [r EXCEPT !.ord = (CHOOSE i \in DOMAIN s : s[i] = r.id) - 1] ELSE r : r \in d.rules}
      /\ e.users = d.users /\ e.clients = d.clients /\ e.links = d.links
      /\ e.userGroups = d.userGroups /\ e.members = d.members /\ e.activities = d.activities
      /\ e.activityGroups = d.activityGroups /\ e.activityMembers = d.activityMembers /\ e.notifications = d.notifications
      /\ e.next = d.next
  BY DEF WellFormed, Columns, renumber
<1> HIDE DEF e
<1>a. ASSUME NEW y \in e.rules
      PROVE  /\ RuleColumns(y)
             /\ \E r \in d.rules : /\ y.tab = r.tab /\ y.owner = r.owner /\ y.target = r.target
                                   /\ y.val = r.val /\ y.born = r.born
  <2>1. PICK r \in d.rules : y = IF r.tab = tab /\ r.owner = owner
                                 THEN [r EXCEPT !.ord = (CHOOSE i \in DOMAIN s : s[i] = r.id) - 1] ELSE r
    BY <1>1
  <2>2. RuleColumns(r)
    BY DEF WellFormed, Columns
  <2> QED
    BY <2>1, <2>2 DEF RuleColumns, ruleRow
<1>2. Columns(e)
  BY <1>1, <1>a DEF WellFormed, Columns
<1>3. IdsBelowNext(e)
  BY <1>1 DEF WellFormed, IdsBelowNext, Ids
<1>4. TargetsBelowNext(e)
  BY <1>1, <1>a DEF WellFormed, TargetsBelowNext
<1>5. Consistent(e)
  <2>1. \A y \in e.rules : ruleCheck(y)
    BY <1>a DEF WellFormed, Consistent, ruleCheck, budgetsCheck, schedulesCheck, exceptionsCheck
  <2>2. \A y \in e.rules : y.owner[2] \in Ids(IF y.owner[1] = "user" THEN e.users ELSE e.userGroups)
    BY <1>1, <1>a DEF WellFormed, Consistent
  <2> QED
    BY <1>1, <2>1, <2>2 DEF WellFormed, Consistent
<1>6. TargetsMean(e)
  <2>1. \A x \in e.rules : bornOf(e, x.target) = bornOf(d, x.target)
    BY <1>1 DEF bornOf
  <2> QED
    BY <1>a, <2>1 DEF WellFormed, TargetsMean
<1> QED
  BY <1>2, <1>3, <1>4, <1>5, <1>6 DEF WellFormed, e

(* ---- the routes ---- *)

\* A request whose write is sound is a sound step.
LEMMA Served ==
  ASSUME IInv, NEW r, NEW d, NEW cs, WellFormed(d), Serve(r, d, cs)
  PROVE  IInv'
BY DEF IInv, Serve

\* A target that assertTarget lets through is overall or names a row.
LEMMA TargetNamesRow ==
  ASSUME IInv, NEW t \in Targets
  PROVE  /\ t \in Marks
         /\ t[1] = "activity" => t[2] \in Ids(db.activities)
         /\ t[1] = "group" => t[2] \in Ids(db.activityGroups)
<1>1. \A i \in ActivityIds \cup ActivityGroupIds : i \in Nat
  BY DEF IInv, WellFormed, IdsBelowNext, ActivityIds, ActivityGroupIds
<1> QED
  BY <1>1 DEF Targets, Marks, Overall, ActivityIds, ActivityGroupIds

\* Creating a rule for a user or a user group that exists.
LEMMA InsertedSound ==
  ASSUME IInv, NEW tab \in RuleTables, NEW kind \in {"user", "group"}, NEW i, NEW t \in Targets, NEW v, NEW o,
         i \in (IF kind = "user" THEN UserIds ELSE GroupIds),
         \A r \in insertRule(db, tab, <<kind, i>>, t, v, o).rules : ruleCheck(r)
  PROVE  WellFormed(insertRule(db, tab, <<kind, i>>, t, v, o))
<1>1. i \in Nat
  BY DEF IInv, WellFormed, IdsBelowNext, UserIds, GroupIds
<1>2. /\ <<kind, i>> \in Owners
      /\ <<kind, i>>[2] \in Ids(IF <<kind, i>>[1] = "user" THEN db.users ELSE db.userGroups)
  BY <1>1 DEF Owners, UserIds, GroupIds
<1> QED
  BY <1>2, TargetNamesRow, InsertRuleSound DEF IInv

\* Changing a rule, its target too.
LEMMA UpdatedSound ==
  ASSUME IInv, NEW r \in db.rules, NEW t \in Targets, NEW v, NEW o,
         \A q \in updateRule(db, r, t, v, o).rules : ruleCheck(q)
  PROVE  WellFormed(updateRule(db, r, t, v, o))
BY TargetNamesRow, UpdateRuleSound DEF IInv

\* The routes under one user.
LEMMA UserRoutesSound ==
  ASSUME IInv, NEW u \in UserIds, UserStep(u)
  PROVE  IInv'
<1>0. WellFormed(db)
  BY DEF IInv
<1>1. CASE DeleteUser(u)
  BY <1>0, <1>1, DeleteUserSound, Served DEF DeleteUser
<1>2. CASE DeleteNotificationPolicy(u)
  BY <1>0, <1>2, DeleteNotificationSound, Served DEF DeleteNotificationPolicy
<1>3. ASSUME NEW v \in Vals, PatchUser(u, v) PROVE IInv'
  <2>1. WellFormed(updateUser(db, u, v))
    BY <1>0, <1>3, UpdateUserSound DEF PatchUser, UserIds
  <2> QED
    BY <1>3, <2>1, Served DEF PatchUser
<1>4. ASSUME NEW v \in Vals, PutNotificationPolicy(u, v) PROVE IInv'
  <2>1. WellFormed(upsertNotificationPolicy(db, u, v))
    BY <1>0, <1>4, UpsertNotificationSound DEF PutNotificationPolicy, UserIds
  <2> QED
    BY <1>4, <2>1, Served DEF PutNotificationPolicy
<1>5. ASSUME NEW c \in ClientIds, DeleteLink(u, c) PROVE IInv'
  <2>1. WellFormed(deleteLink(db, u, c))
    BY <1>0, <1>5, DeleteLinkSound DEF DeleteLink
  <2> QED
    BY <1>5, <2>1, Served DEF DeleteLink
<1>6. ASSUME NEW c \in ClientIds, NEW ref \in Refs, PutLink(u, c, ref) PROVE IInv'
  <2>1. WellFormed(upsertLink(db, u, c, ref))
    BY <1>0, <1>6, UpsertLinkSound DEF PutLink, UserIds, ClientIds
  <2> QED
    BY <1>6, <2>1, Served DEF PutLink
<1>7. ASSUME NEW x \in createBudgetSchema, PostBudget(u, x[1], x[2]) PROVE IInv'
  <2>1. WellFormed(createBudget(db, u, x[1], x[2]))
    BY <1>0, <1>7, InsertedSound DEF PostBudget, createBudget, createBudgetSchema, RuleTables, UserIds
  <2> QED
    BY <1>7, <2>1, Served DEF PostBudget
<1>8. ASSUME NEW x \in createScheduleSchema, PostSchedule(u, x[1], x[2], x[3]) PROVE IInv'
  <2>1. WellFormed(createSchedule(db, u, x[1], x[2], x[3]))
    BY <1>0, <1>8, InsertedSound DEF PostSchedule, createSchedule, createScheduleSchema, RuleTables, UserIds
  <2> QED
    BY <1>8, <2>1, Served DEF PostSchedule
<1>9. ASSUME NEW x \in createExceptionSchema, PostException(u, x[1], x[2]) PROVE IInv'
  <2>1. WellFormed(createException(db, u, x[1], x[2]))
    BY <1>0, <1>9, InsertedSound DEF PostException, createException, createExceptionSchema, RuleTables, UserIds
  <2> QED
    BY <1>9, <2>1, Served DEF PostException
<1>10. ASSUME NEW ids, PutOrder(u, ids) PROVE IInv'
  <2>1. WellFormed(reorderUserSchedules(db, u, ids))
    BY <1>0, <1>10, RenumberSound DEF reorderUserSchedules
  <2> QED
    BY <1>10, <2>1, Served DEF PutOrder
<1> QED
  BY <1>1, <1>2, <1>3, <1>4, <1>5, <1>6, <1>7, <1>8, <1>9, <1>10 DEF UserStep

\* The routes under one user group.
LEMMA UserGroupRoutesSound ==
  ASSUME IInv, NEW g \in GroupIds, UserGroupStep(g)
  PROVE  IInv'
<1>0. WellFormed(db)
  BY DEF IInv
<1>1. CASE DeleteUserGroup(g)
  BY <1>0, <1>1, DeleteUserGroupSound, Served DEF DeleteUserGroup
<1>2. ASSUME NEW n \in Names, PatchUserGroup(g, n) PROVE IInv'
  <2>1. WellFormed(updateUserGroup(db, g, n))
    BY <1>0, <1>2, UpdateUserGroupSound DEF PatchUserGroup, GroupIds
  <2> QED
    BY <1>2, <2>1, Served DEF PatchUserGroup
<1>3. ASSUME NEW u \in UserIds, PutMember(g, u) PROVE IInv'
  <2>1. WellFormed(addUserToGroup(db, g, u))
    BY <1>0, <1>3, AddMemberSound DEF PutMember, UserIds, GroupIds
  <2> QED
    BY <1>3, <2>1, Served DEF PutMember
<1>4. ASSUME NEW u \in UserIds, DeleteMember(g, u) PROVE IInv'
  <2>1. WellFormed(removeUserFromGroup(db, g, u))
    BY <1>0, <1>4, RemoveMemberSound DEF DeleteMember
  <2> QED
    BY <1>4, <2>1, Served DEF DeleteMember
<1>5. ASSUME NEW x \in createBudgetSchema, PostGroupBudget(g, x[1], x[2]) PROVE IInv'
  <2>1. WellFormed(createGroupBudget(db, g, x[1], x[2]))
    BY <1>0, <1>5, InsertedSound DEF PostGroupBudget, createGroupBudget, createBudgetSchema, RuleTables, GroupIds
  <2> QED
    BY <1>5, <2>1, Served DEF PostGroupBudget
<1>6. ASSUME NEW x \in createScheduleSchema, PostGroupSchedule(g, x[1], x[2], x[3]) PROVE IInv'
  <2>1. WellFormed(createGroupSchedule(db, g, x[1], x[2], x[3]))
    BY <1>0, <1>6, InsertedSound DEF PostGroupSchedule, createGroupSchedule, createScheduleSchema, RuleTables, GroupIds
  <2> QED
    BY <1>6, <2>1, Served DEF PostGroupSchedule
<1>7. ASSUME NEW x \in createExceptionSchema, PostGroupException(g, x[1], x[2]) PROVE IInv'
  <2>1. WellFormed(createGroupException(db, g, x[1], x[2]))
    BY <1>0, <1>7, InsertedSound DEF PostGroupException, createGroupException, createExceptionSchema, RuleTables, GroupIds
  <2> QED
    BY <1>7, <2>1, Served DEF PostGroupException
<1>8. ASSUME NEW ids, PutGroupOrder(g, ids) PROVE IInv'
  <2>1. WellFormed(reorderGroupSchedules(db, g, ids))
    BY <1>0, <1>8, RenumberSound DEF reorderGroupSchedules
  <2> QED
    BY <1>8, <2>1, Served DEF PutGroupOrder
<1> QED
  BY <1>1, <1>2, <1>3, <1>4, <1>5, <1>6, <1>7, <1>8 DEF UserGroupStep

\* The routes of one rule: every kind is patched and deleted alike.
LEMMA RuleRoutesSound ==
  ASSUME IInv, NEW r \in db.rules, RuleStep(r)
  PROVE  IInv'
<1>0. WellFormed(db)
  BY DEF IInv
<1>1. ASSUME NEW x \in updateBudgetSchema(r), PatchBudget(r, x[1], x[2]) PROVE IInv'
  <2>1. WellFormed(updateBudget(db, r, x[1], x[2]))
    BY <1>1, UpdatedSound DEF PatchBudget, updateBudget, updateBudgetSchema
  <2> QED
    BY <1>1, <2>1, Served DEF PatchBudget
<1>2. ASSUME NEW x \in updateBudgetSchema(r), PatchGroupBudget(r, x[1], x[2]) PROVE IInv'
  <2>1. WellFormed(updateGroupBudget(db, r, x[1], x[2]))
    BY <1>2, UpdatedSound DEF PatchGroupBudget, updateGroupBudget, updateBudgetSchema
  <2> QED
    BY <1>2, <2>1, Served DEF PatchGroupBudget
<1>3. ASSUME NEW x \in updateScheduleSchema(r), PatchSchedule(r, x[1], x[2], x[3]) PROVE IInv'
  <2>1. WellFormed(updateSchedule(db, r, x[1], x[2], x[3]))
    BY <1>3, UpdatedSound DEF PatchSchedule, updateSchedule, updateScheduleSchema
  <2> QED
    BY <1>3, <2>1, Served DEF PatchSchedule
<1>4. ASSUME NEW x \in updateScheduleSchema(r), PatchGroupSchedule(r, x[1], x[2], x[3]) PROVE IInv'
  <2>1. WellFormed(updateGroupSchedule(db, r, x[1], x[2], x[3]))
    BY <1>4, UpdatedSound DEF PatchGroupSchedule, updateGroupSchedule, updateScheduleSchema
  <2> QED
    BY <1>4, <2>1, Served DEF PatchGroupSchedule
<1>5. ASSUME NEW x \in updateExceptionSchema(r), PatchException(r, x[1], x[2]) PROVE IInv'
  <2>1. WellFormed(updateException(db, r, x[1], x[2]))
    BY <1>5, UpdatedSound DEF PatchException, updateException, updateExceptionSchema
  <2> QED
    BY <1>5, <2>1, Served DEF PatchException
<1>6. ASSUME NEW x \in updateExceptionSchema(r), PatchGroupException(r, x[1], x[2]) PROVE IInv'
  <2>1. WellFormed(updateGroupException(db, r, x[1], x[2]))
    BY <1>6, UpdatedSound DEF PatchGroupException, updateGroupException, updateExceptionSchema
  <2> QED
    BY <1>6, <2>1, Served DEF PatchGroupException
<1>7. CASE DeleteBudget(r)
  BY <1>0, <1>7, RemoveRuleSound, Served DEF DeleteBudget, deleteBudget
<1>8. CASE DeleteGroupBudget(r)
  BY <1>0, <1>8, RemoveRuleSound, Served DEF DeleteGroupBudget, deleteGroupBudget
<1>9. CASE DeleteSchedule(r)
  BY <1>0, <1>9, RemoveRuleSound, Served DEF DeleteSchedule, deleteSchedule
<1>10. CASE DeleteGroupSchedule(r)
  BY <1>0, <1>10, RemoveRuleSound, Served DEF DeleteGroupSchedule, deleteGroupSchedule
<1>11. CASE DeleteException(r)
  BY <1>0, <1>11, RemoveRuleSound, Served DEF DeleteException, deleteException
<1>12. CASE DeleteGroupException(r)
  BY <1>0, <1>12, RemoveRuleSound, Served DEF DeleteGroupException, deleteGroupException
<1> QED
  BY <1>1, <1>2, <1>3, <1>4, <1>5, <1>6, <1>7, <1>8, <1>9, <1>10, <1>11, <1>12 DEF RuleStep

\* The routes of activities and of their groups.
LEMMA ActivityRoutesSound ==
  ASSUME IInv, ActivityStep
  PROVE  IInv'
<1>0. WellFormed(db)
  BY DEF IInv
<1>a. ops + 1 \in Nat
  BY DEF IInv
<1>1. CASE PostActivity
  <2>1. WellFormed(createActivity(db, ops + 1))
    BY <1>0, <1>a, CreateActivitySound
  <2> QED
    BY <1>1, <2>1, Served DEF PostActivity
<1>2. ASSUME NEW a \in ActivityIds, DeleteActivity(a) PROVE IInv'
  <2>1. WellFormed(deleteActivity(db, a))
    BY <1>0, <1>2, DeleteActivitySound DEF DeleteActivity
  <2> QED
    BY <1>2, <2>1, Served DEF DeleteActivity
<1>3. ASSUME NEW a \in ActivityIds, NEW v \in Vals, PatchActivity(a, v) PROVE IInv'
  <2>1. WellFormed(updateActivity(db, a, v))
    BY <1>0, <1>3, UpdateActivitySound, BodiesAssumption DEF PatchActivity
  <2> QED
    BY <1>3, <2>1, Served DEF PatchActivity
<1>4. ASSUME NEW n \in Names, PostActivityGroup(n) PROVE IInv'
  <2>1. WellFormed(createActivityGroup(db, n, ops + 1))
    BY <1>0, <1>a, <1>4, CreateActivityGroupSound, BodiesAssumption DEF PostActivityGroup
  <2> QED
    BY <1>4, <2>1, Served DEF PostActivityGroup
<1>5. ASSUME NEW n \in Names, NEW g \in ActivityGroupIds, PatchActivityGroup(g, n) PROVE IInv'
  <2>1. WellFormed(updateActivityGroup(db, g, n))
    BY <1>0, <1>5, UpdateActivityGroupSound, BodiesAssumption DEF PatchActivityGroup
  <2> QED
    BY <1>5, <2>1, Served DEF PatchActivityGroup
<1>6. ASSUME NEW g \in ActivityGroupIds, DeleteActivityGroup(g) PROVE IInv'
  <2>1. WellFormed(deleteActivityGroup(db, g))
    BY <1>0, <1>6, DeleteActivityGroupSound DEF DeleteActivityGroup
  <2> QED
    BY <1>6, <2>1, Served DEF DeleteActivityGroup
<1>7. ASSUME NEW g \in ActivityGroupIds, NEW a \in ActivityIds, PutActivityMember(g, a) PROVE IInv'
  <2>1. WellFormed(addActivityToGroup(db, g, a))
    BY <1>0, <1>7, AddActivityMemberSound DEF ActivityIds, ActivityGroupIds
  <2> QED
    BY <1>7, <2>1, Served DEF PutActivityMember
<1>8. ASSUME NEW g \in ActivityGroupIds, NEW a \in ActivityIds, DeleteActivityMember(g, a) PROVE IInv'
  <2>1. WellFormed(removeActivityFromGroup(db, g, a))
    BY <1>0, <1>8, RemoveActivityMemberSound DEF DeleteActivityMember
  <2> QED
    BY <1>8, <2>1, Served DEF DeleteActivityMember
<1> QED
  BY <1>1, <1>2, <1>3, <1>4, <1>5, <1>6, <1>7, <1>8 DEF ActivityStep

\* The routes of clients.
LEMMA ClientRoutesSound ==
  ASSUME IInv, ClientStep
  PROVE  IInv'
<1>0. WellFormed(db)
  BY DEF IInv
<1>1. ASSUME NEW n \in Names, PostClient(n) PROVE IInv'
  <2>1. WellFormed(createClient(db, n))
    BY <1>0, <1>1, CreateClientSound DEF PostClient
  <2> QED
    BY <1>1, <2>1, Served DEF PostClient
<1>2. ASSUME NEW n \in Names, NEW c \in ClientIds, PatchClient(c, n) PROVE IInv'
  <2>1. WellFormed(updateClient(db, c, n))
    BY <1>0, <1>2, UpdateClientSound DEF PatchClient, ClientIds
  <2> QED
    BY <1>2, <2>1, Served DEF PatchClient
<1>3. ASSUME NEW c \in ClientIds, DeleteClient(c) PROVE IInv'
  <2>1. WellFormed(deleteClient(db, c))
    BY <1>0, <1>3, DeleteClientSound DEF DeleteClient
  <2> QED
    BY <1>3, <2>1, Served DEF DeleteClient
<1> QED
  BY <1>1, <1>2, <1>3 DEF ClientStep

\* Every request keeps the database well formed.
LEMMA RequestsSound ==
  ASSUME IInv, [Next]_vars
  PROVE  IInv'
<1>0. WellFormed(db)
  BY DEF IInv
<1>1. CASE UNCHANGED vars
  BY <1>1 DEF vars, IInv
<1>2. ASSUME NEW v \in Vals, PostUser(v) PROVE IInv'
  <2>1. WellFormed(createUser(db, v))
    BY <1>0, CreateUserSound
  <2> QED
    BY <1>2, <2>1, Served DEF PostUser
<1>3. ASSUME NEW n \in Names, PostUserGroup(n) PROVE IInv'
  <2>1. WellFormed(createUserGroup(db, n))
    BY <1>0, <1>3, CreateUserGroupSound DEF PostUserGroup
  <2> QED
    BY <1>3, <2>1, Served DEF PostUserGroup
<1> QED
  BY <1>1, <1>2, <1>3, UserRoutesSound, UserGroupRoutesSound, RuleRoutesSound, ActivityRoutesSound,
     ClientRoutesSound DEF Next

\* After any sequence of admin requests, from any well-formed database, every
\* reference, key, unique index and check of the policy database holds, and no
\* rule's target has come to denote an activity or group its author did not choose.
THEOREM PolicyStoreSound == Spec => []StoreSound
<1>1. Init => IInv
  BY StartAssumption DEF Init, IInv
<1>2. IInv /\ [Next]_vars => IInv'
  BY RequestsSound
<1>3. IInv => StoreSound
  BY DEF IInv, WellFormed, StoreSound, StoreConsistent, TargetsKeepMeaning
<1> QED
  BY <1>1, <1>2, <1>3, PTL DEF Spec

(* ---- what a request changes is pushed ---- *)

\* What the executor reads about a user in d and in e is the same.
Unmoved(d, e, u) == policyInputs(d, u) = policyInputs(e, u)

\* The rows the executor reads are the user's own, and those of the user's groups.
LEMMA InputsRead ==
  ASSUME NEW d, NEW e, NEW u,
         {r \in d.users : r.id = u} = {r \in e.users : r.id = u},
         d.members = e.members,
         rowsOf(d, "schedules", <<"user", u>>) = rowsOf(e, "schedules", <<"user", u>>),
         rowsOf(d, "budgets", <<"user", u>>) = rowsOf(e, "budgets", <<"user", u>>),
         \A g \in listUserGroupsForUser(d, u) :
           /\ rowsOf(d, "groupSchedules", <<"group", g>>) = rowsOf(e, "groupSchedules", <<"group", g>>)
           /\ rowsOf(d, "groupBudgets", <<"group", g>>) = rowsOf(e, "groupBudgets", <<"group", g>>)
  PROVE  Unmoved(d, e, u)
<1> DEFINE gs == listUserGroupsForUser(d, u)
<1>1. listUserGroupsForUser(e, u) = gs
  BY DEF listUserGroupsForUser
<1>2. listUserSchedules(d, u) = listUserSchedules(e, u)
  BY DEF listUserSchedules
<1>3. \A g \in gs : listGroupSchedules(d, g) = listGroupSchedules(e, g)
  BY DEF listGroupSchedules
<1>4. [g \in gs |-> listGroupSchedules(d, g)] = [g \in gs |-> listGroupSchedules(e, g)]
  <2> HIDE DEF gs
  <2> QED
    BY <1>3
<1>5. [g \in gs |-> rowsOf(d, "groupBudgets", <<"group", g>>)]
        = [g \in gs |-> rowsOf(e, "groupBudgets", <<"group", g>>)]
  <2>1. \A g \in gs : rowsOf(d, "groupBudgets", <<"group", g>>) = rowsOf(e, "groupBudgets", <<"group", g>>)
    OBVIOUS
  <2> HIDE DEF gs
  <2> QED
    BY <2>1
<1>6. rowsOf(d, "budgets", <<"user", u>>) = rowsOf(e, "budgets", <<"user", u>>)
  OBVIOUS
<1> QED
  BY <1>1, <1>2, <1>4, <1>5, <1>6 DEF Unmoved, policyInputs

\* A write that touches neither users, memberships nor rules changes nobody's policy.
LEMMA NobodyMoves ==
  ASSUME NEW d, NEW e, d.users = e.users, d.members = e.members, d.rules = e.rules, NEW u
  PROVE  Unmoved(d, e, u)
<1>1. \A tab, owner : rowsOf(d, tab, owner) = rowsOf(e, tab, owner)
  BY DEF rowsOf
<1> QED
  BY <1>1, InputsRead

\* A write to the rows of one owner in one table changes the policy of the user who
\* owns them, or of the members of the group that does.
LEMMA OwnerMoves ==
  ASSUME NEW d, NEW e, d.users = e.users, d.members = e.members, NEW tab, NEW owner,
         {r \in d.rules : ~(r.tab = tab /\ r.owner = owner)} = {r \in e.rules : ~(r.tab = tab /\ r.owner = owner)},
         NEW u,
         tab \in {"schedules", "budgets"} => owner # <<"user", u>>,
         tab \in {"groupSchedules", "groupBudgets"} =>
           \A g \in listUserGroupsForUser(d, u) : owner # <<"group", g>>
  PROVE  Unmoved(d, e, u)
<1>1. \A t, o : ~(t = tab /\ o = owner) => rowsOf(d, t, o) = rowsOf(e, t, o)
  <2> SUFFICES ASSUME NEW t, NEW o, ~(t = tab /\ o = owner) PROVE rowsOf(d, t, o) = rowsOf(e, t, o)
    OBVIOUS
  <2>1. \A r : r \in d.rules /\ r.tab = t /\ r.owner = o <=> r \in e.rules /\ r.tab = t /\ r.owner = o
    OBVIOUS
  <2> QED
    BY <2>1 DEF rowsOf
<1> QED
  BY <1>1, InputsRead

\* If the links stay and each linked user is unmoved or told on that client, every
\* account whose desired state changed is followed up.
LEMMA ToldOrUnmoved ==
  ASSUME db'.links = db.links,
         \A l \in db.links : \/ Unmoved(db, db', l.user)
                             \/ \E k \in cmds' : k.client = l.client /\ k.user = l.user
  PROVE  Unfollowed = {}
<1> SUFFICES ASSUME NEW x \in Unfollowed PROVE FALSE
  OBVIOUS
<1> DEFINE ls == {l \in db.links : l.client = x[1] /\ l.ref = x[2]}
<1>1. Desired(db, x[1], x[2]) = {PolicyOf(db, l.user) : l \in ls}
  BY DEF Desired
<1>2. Desired(db', x[1], x[2]) = {PolicyOf(db', l.user) : l \in ls}
  BY DEF Desired
<1>3. Desired(db, x[1], x[2]) # Desired(db', x[1], x[2]) /\ ~Followed(x[1], x[2])
  BY DEF Unfollowed
<1>4. PICK l \in ls : PolicyOf(db, l.user) # PolicyOf(db', l.user)
  BY <1>1, <1>2, <1>3
<1>5. PICK k \in cmds' : k.client = l.client /\ k.user = l.user
  BY <1>4 DEF PolicyOf, Unmoved
<1>6. l \in linksOf(db', k.user, k.client)
  BY <1>5 DEF linksOf
<1>7. x[2] \in Touched(db', k)
  BY <1>4, <1>6 DEF Touched
<1> QED
  BY <1>3, <1>5, <1>7 DEF Followed

\* Commands for every client of one user reach every account of that user.
LEMMA UserTold ==
  ASSUME NEW d, NEW reason, NEW u, d.links = db.links, db'.links = db.links,
         cmds' = toUser(d, reason, u),
         \A l \in db.links : l.user # u => Unmoved(db, db', l.user)
  PROVE  Unfollowed = {}
<1>1. ASSUME NEW l \in db.links, l.user = u
      PROVE  \E k \in cmds' : k.client = l.client /\ k.user = l.user
  <2>1. l.client \in listUserClientIds(d, u)
    BY <1>1 DEF listUserClientIds
  <2>2. Cmd(l.client, u, reason, NoRef) \in cmds'
    BY <2>1 DEF toUser, userPushCommands
  <2>3. Cmd(l.client, u, reason, NoRef).client = l.client /\ Cmd(l.client, u, reason, NoRef).user = u
    BY DEF Cmd
  <2> QED
    BY <1>1, <2>2, <2>3
<1> QED
  BY <1>1, ToldOrUnmoved

\* groupMemberPushCommands reaches every account of every member.
LEMMA MembersTold ==
  ASSUME NEW d, NEW reason, NEW g, d.links = db.links, d.members = db.members, db'.links = db.links,
         cmds' = groupMemberPushCommands(d, reason, g),
         \A l \in db.links : l.user \notin listGroupMembers(db, g) => Unmoved(db, db', l.user)
  PROVE  Unfollowed = {}
<1>1. ASSUME NEW l \in db.links, l.user \in listGroupMembers(db, g)
      PROVE  \E k \in cmds' : k.client = l.client /\ k.user = l.user
  <2>1. l.client \in listUserClientIds(d, l.user)
    BY DEF listUserClientIds
  <2>2. Cmd(l.client, l.user, reason, NoRef) \in toUser(d, reason, l.user)
    BY <2>1 DEF toUser, userPushCommands
  <2>3. l.user \in listGroupMembers(d, g)
    BY <1>1 DEF listGroupMembers
  <2>4. Cmd(l.client, l.user, reason, NoRef) \in cmds'
    BY <2>2, <2>3 DEF groupMemberPushCommands
  <2>5. Cmd(l.client, l.user, reason, NoRef).client = l.client /\ Cmd(l.client, l.user, reason, NoRef).user = l.user
    BY DEF Cmd
  <2> QED
    BY <2>4, <2>5
<1> QED
  BY <1>1, ToldOrUnmoved

\* A request that changes neither users, memberships, rules nor links has nothing to push.
LEMMA NothingToTell ==
  ASSUME db'.links = db.links, db'.users = db.users, db'.members = db.members, db'.rules = db.rules
  PROVE  Unfollowed = {}
BY NobodyMoves, ToldOrUnmoved

\* d and e differ at most in the rows of one owner in one rule table.
OnlyRulesOf(d, e, tab, owner) ==
  /\ e.users = d.users /\ e.members = d.members /\ e.links = d.links
  /\ {r \in d.rules : ~(r.tab = tab /\ r.owner = owner)} = {r \in e.rules : ~(r.tab = tab /\ r.owner = owner)}

LEMMA InsertOnly ==
  ASSUME NEW d, WellFormed(d), NEW tab \in RuleTables, NEW owner, NEW t, NEW v, NEW o
  PROVE  OnlyRulesOf(d, insertRule(d, tab, owner, t, v, o), tab, owner)
<1> DEFINE e == insertRule(d, tab, owner, t, v, o)
           y == ruleRow(tab, owner, d.next[tab], t, v, o, bornOf(d, t))
<1>1. e.users = d.users /\ e.members = d.members /\ e.links = d.links /\ e.rules = d.rules \cup {y}
  BY DEF WellFormed, Columns, insertRule, bump, allocId
<1>2. y.tab = tab /\ y.owner = owner
  BY DEF ruleRow
<1> HIDE DEF e, y
<1> QED
  BY <1>1, <1>2 DEF OnlyRulesOf, e

LEMMA UpdateOnly ==
  ASSUME NEW d, WellFormed(d), NEW r \in d.rules, NEW t, NEW v, NEW o
  PROVE  OnlyRulesOf(d, updateRule(d, r, t, v, o), r.tab, r.owner)
<1> DEFINE e == updateRule(d, r, t, v, o)
           y == ruleRow(r.tab, r.owner, r.id, t, v, o, IF t = r.target THEN r.born ELSE bornOf(d, t))
<1>1. e.users = d.users /\ e.members = d.members /\ e.links = d.links /\ e.rules = (d.rules \ {r}) \cup {y}
  BY DEF WellFormed, Columns, updateRule
<1>2. y.tab = r.tab /\ y.owner = r.owner
  BY DEF ruleRow
<1> HIDE DEF e, y
<1> QED
  BY <1>1, <1>2 DEF OnlyRulesOf, e

LEMMA RemoveOnly ==
  ASSUME NEW d, WellFormed(d), NEW r \in d.rules
  PROVE  OnlyRulesOf(d, removeRule(d, r), r.tab, r.owner)
<1> DEFINE e == removeRule(d, r)
<1>1. e.users = d.users /\ e.members = d.members /\ e.links = d.links /\ e.rules = d.rules \ {r}
  BY DEF WellFormed, Columns, removeRule
<1> HIDE DEF e
<1> QED
  BY <1>1 DEF OnlyRulesOf, e

\* A write to a user's own rules that tells the owner.
LEMMA OwnRulesPushed ==
  ASSUME NEW tab \in {"budgets", "schedules", "exceptions"}, NEW owner, OnlyRulesOf(db, db', tab, owner),
         NEW d, d.links = db.links, NEW reason, cmds' = toUser(d, reason, owner[2])
  PROVE  Unfollowed = {}
<1>1. ASSUME NEW l \in db.links, l.user # owner[2]
      PROVE  Unmoved(db, db', l.user)
  BY SMTT(30), <1>1, OwnerMoves DEF OnlyRulesOf
<1> QED
  BY <1>1, UserTold DEF OnlyRulesOf

\* A write to a user group's rules that tells the members.
LEMMA GroupRulesPushed ==
  ASSUME NEW tab \in {"groupBudgets", "groupSchedules", "groupExceptions"}, NEW owner,
         OnlyRulesOf(db, db', tab, owner),
         NEW d, d.links = db.links, d.members = db.members, NEW reason,
         cmds' = groupMemberPushCommands(d, reason, owner[2])
  PROVE  Unfollowed = {}
<1>1. ASSUME NEW l \in db.links, l.user \notin listGroupMembers(db, owner[2])
      PROVE  Unmoved(db, db', l.user)
  <2>1. \A g \in listUserGroupsForUser(db, l.user) : owner # <<"group", g>>
    BY <1>1 DEF listUserGroupsForUser, listGroupMembers
  <2> QED
    BY <2>1, OwnerMoves DEF OnlyRulesOf
<1> QED
  BY <1>1, MembersTold DEF OnlyRulesOf

\* The step that ChangesPushedButFor allows.
Pushed ==
  route' \notin {"PUT member", "DELETE member", "DELETE user-group", "PUT order",
                 "PUT group-order", "DELETE user"} =>
    \A x \in Unfollowed : route' = "PUT link" /\ Desired(db', x[1], x[2]) = {}

\* PUT link: only the account the link pointed at before is left, and nobody's now.
LEMMA PutLinkPushed ==
  ASSUME IInv, NEW u, NEW c, NEW ref, PutLink(u, c, ref)
  PROVE  Pushed
<1> DEFINE y == [user |-> u, client |-> c, ref |-> ref]
<1>1. /\ db'.users = db.users /\ db'.members = db.members /\ db'.rules = db.rules
      /\ db'.links = (db.links \ linksOf(db, u, c)) \cup {y}
      /\ route' = "PUT link" /\ cmds' = {Cmd(c, u, "link.upserted", ref)}
  BY DEF PutLink, Serve, upsertLink, linkPushCommands, IInv, WellFormed, Columns
<1>2. usersOnClientsTable(db.links)
  BY DEF IInv, WellFormed, Consistent
<1>3. y.user = u /\ y.client = c /\ y.ref = ref
  OBVIOUS
<1> HIDE DEF y
<1>4. \A v : PolicyOf(db', v) = PolicyOf(db, v)
  BY <1>1, NobodyMoves DEF PolicyOf, Unmoved
<1> SUFFICES ASSUME NEW x \in Unfollowed PROVE Desired(db', x[1], x[2]) = {}
  BY <1>1 DEF Pushed
<1>5. Desired(db, x[1], x[2]) # Desired(db', x[1], x[2]) /\ ~Followed(x[1], x[2])
  BY DEF Unfollowed
<1>6. ~(x[1] = c /\ x[2] = ref)
  <2> SUFFICES ASSUME x[1] = c, x[2] = ref PROVE FALSE
    OBVIOUS
  <2>1. Cmd(c, u, "link.upserted", ref).client = c /\ Cmd(c, u, "link.upserted", ref).user = u
    BY DEF Cmd
  <2>2. y \in linksOf(db', u, c)
    BY <1>1, <1>3 DEF linksOf
  <2>3. ref \in Touched(db', Cmd(c, u, "link.upserted", ref))
    BY <1>3, <2>1, <2>2 DEF Touched
  <2> QED
    BY <1>1, <1>5, <2>1, <2>3 DEF Followed
<1> DEFINE now == {k \in db'.links : k.client = x[1] /\ k.ref = x[2]}
           was == {k \in db.links : k.client = x[1] /\ k.ref = x[2]}
<1>7. now \subseteq was
  BY <1>1, <1>3, <1>6
<1>8. Desired(db, x[1], x[2]) = {PolicyOf(db, l.user) : l \in was}
      /\ Desired(db', x[1], x[2]) = {PolicyOf(db', l.user) : l \in now}
  BY DEF Desired
<1>9. CASE now = {}
  BY <1>8, <1>9
<1>10. CASE now # {}
  <2>1. \A a, b \in was : a = b
    BY <1>2 DEF usersOnClientsTable
  <2>2. now = was
    BY <1>7, <1>10, <2>1
  <2> HIDE DEF now, was
  <2> QED
    BY <1>4, <1>5, <1>8, <2>2
<1> QED
  BY <1>9, <1>10

\* DELETE link carries the account's name, as the row is gone when it is pushed.
LEMMA DeleteLinkPushed ==
  ASSUME IInv, NEW u, NEW c, DeleteLink(u, c)
  PROVE  Pushed
<1>1. PICK y \in linksOf(db, u, c) :
        Serve("DELETE link", deleteLink(db, u, c), linkPushCommands("link.deleted", u, c, y.ref))
  BY DEF DeleteLink
<1>2. /\ db'.users = db.users /\ db'.members = db.members /\ db'.rules = db.rules
      /\ db'.links = db.links \ linksOf(db, u, c)
      /\ cmds' = {Cmd(c, u, "link.deleted", y.ref)}
  BY <1>1 DEF Serve, deleteLink, linkPushCommands, IInv, WellFormed, Columns
<1>3. \A l \in db.links : l \notin db'.links => l = y
  BY <1>1, <1>2 DEF IInv, WellFormed, Consistent, usersOnClientsTable, linksOf
<1>4. \A v : PolicyOf(db', v) = PolicyOf(db, v)
  BY <1>2, NobodyMoves DEF PolicyOf, Unmoved
<1>5. linksOf(db', u, c) = {} /\ y.client = c
  BY <1>1, <1>2 DEF linksOf
<1>6. Followed(c, y.ref)
  <2> DEFINE k == Cmd(c, u, "link.deleted", y.ref)
  <2>1. k.client = c /\ k.user = u /\ k.reason = "link.deleted" /\ k.ref = y.ref
    BY DEF Cmd
  <2>2. k \in cmds'
    BY <1>2
  <2> HIDE DEF k
  <2>3. y.ref \in Touched(db', k)
    BY <1>5, <2>1 DEF Touched
  <2> QED
    BY <2>1, <2>2, <2>3 DEF Followed
<1> SUFFICES ASSUME NEW x \in Unfollowed PROVE FALSE
  BY DEF Pushed
<1>7. Desired(db, x[1], x[2]) # Desired(db', x[1], x[2]) /\ ~Followed(x[1], x[2])
  BY DEF Unfollowed
<1> DEFINE now == {k \in db'.links : k.client = x[1] /\ k.ref = x[2]}
           was == {k \in db.links : k.client = x[1] /\ k.ref = x[2]}
<1>8. now = was
  BY <1>2, <1>3, <1>5, <1>6, <1>7
<1>9. Desired(db, x[1], x[2]) = {PolicyOf(db, l.user) : l \in was}
      /\ Desired(db', x[1], x[2]) = {PolicyOf(db', l.user) : l \in now}
  BY DEF Desired
<1> HIDE DEF now, was
<1> QED
  BY <1>4, <1>7, <1>8, <1>9

\* DELETE client: its accounts are out of reach, and no other account is affected.
LEMMA DeleteClientPushed ==
  ASSUME IInv, NEW c, DeleteClient(c)
  PROVE  Pushed
<1>1. /\ db'.users = db.users /\ db'.members = db.members /\ db'.rules = db.rules
      /\ db'.links = {l \in db.links : l.client # c}
      /\ db'.clients = {r \in db.clients : r.id # c}
  BY DEF DeleteClient, Serve, deleteClient, IInv, WellFormed, Columns
<1>2. \A v : PolicyOf(db', v) = PolicyOf(db, v)
  BY <1>1, NobodyMoves DEF PolicyOf, Unmoved
<1> SUFFICES ASSUME NEW x \in Unfollowed PROVE FALSE
  BY DEF Pushed
<1>3. x[1] # c
  BY <1>1 DEF Unfollowed, Ids
<1> DEFINE now == {k \in db'.links : k.client = x[1] /\ k.ref = x[2]}
           was == {k \in db.links : k.client = x[1] /\ k.ref = x[2]}
<1>4. now = was
  BY <1>1, <1>3
<1>5. Desired(db, x[1], x[2]) = {PolicyOf(db, l.user) : l \in was}
      /\ Desired(db', x[1], x[2]) = {PolicyOf(db', l.user) : l \in now}
  BY DEF Desired
<1>6. Desired(db, x[1], x[2]) # Desired(db', x[1], x[2])
  BY DEF Unfollowed
<1> HIDE DEF now, was
<1> QED
  BY <1>2, <1>4, <1>5, <1>6

\* The routes that write none of what the executor reads.
LEMMA UnreadRoutesPushed ==
  ASSUME IInv, NEW d, NEW r, NEW cs, Serve(r, d, cs),
         d.links = db.links, d.users = db.users, d.members = db.members, d.rules = db.rules
  PROVE  Pushed
BY NothingToTell DEF Serve, Pushed

\* POST user and PATCH user: nobody else's row changes.
LEMMA PostUserPushed ==
  ASSUME IInv, NEW tz, PostUser(tz)
  PROVE  Pushed
<1> DEFINE u == db.next["users"]
           d == createUser(db, tz)
           y == [id |-> u, tz |-> tz]
<1>1. /\ d.users = db.users \cup {y} /\ d.members = db.members /\ d.rules = db.rules /\ d.links = db.links
      /\ y.id = u
  BY DEF createUser, bump, allocId, IInv, WellFormed, Columns
<1>2. db' = d /\ cmds' = toUser(d, "user.created", u)
  BY DEF PostUser, Serve, allocId
<1> HIDE DEF d, y
<1>3. ASSUME NEW l \in db.links, l.user # u
      PROVE  Unmoved(db, db', l.user)
  <2>1. {r \in db.users : r.id = l.user} = {r \in db'.users : r.id = l.user}
    BY <1>1, <1>2, <1>3
  <2>2. \A tab, owner : rowsOf(db, tab, owner) = rowsOf(db', tab, owner)
    BY <1>1, <1>2 DEF rowsOf
  <2> QED
    BY <1>1, <1>2, <2>1, <2>2, InputsRead
<1>4. Unfollowed = {}
  BY <1>1, <1>2, <1>3, UserTold
<1> QED
  BY <1>4 DEF Pushed

LEMMA PatchUserPushed ==
  ASSUME IInv, NEW u, NEW tz, PatchUser(u, tz)
  PROVE  Pushed
<1> DEFINE d == updateUser(db, u, tz)
           y == [id |-> u, tz |-> tz]
<1>1. /\ d.users = {r \in db.users : r.id # u} \cup {y}
      /\ d.members = db.members /\ d.rules = db.rules /\ d.links = db.links /\ y.id = u
  BY DEF updateUser, IInv, WellFormed, Columns
<1>2. db' = d /\ cmds' = toUser(d, "user.updated", u)
  BY DEF PatchUser, Serve
<1> HIDE DEF d, y
<1>3. ASSUME NEW l \in db.links, l.user # u
      PROVE  Unmoved(db, db', l.user)
  <2>1. {r \in db.users : r.id = l.user} = {r \in db'.users : r.id = l.user}
    BY <1>1, <1>2, <1>3
  <2>2. \A tab, owner : rowsOf(db, tab, owner) = rowsOf(db', tab, owner)
    BY <1>1, <1>2 DEF rowsOf
  <2> QED
    BY <1>1, <1>2, <2>1, <2>2, InputsRead
<1>4. Unfollowed = {}
  BY <1>1, <1>2, <1>3, UserTold
<1> QED
  BY <1>4 DEF Pushed

\* Creating, patching and deleting a user's own rule.
LEMMA OwnRuleServed ==
  ASSUME NEW tab \in {"budgets", "schedules", "exceptions"}, NEW owner, NEW e,
         OnlyRulesOf(db, e, tab, owner), NEW d \in {db, e}, NEW route0, NEW reason,
         Serve(route0, e, toUser(d, reason, owner[2]))
  PROVE  Pushed
<1>1. db' = e /\ cmds' = toUser(d, reason, owner[2])
  BY DEF Serve
<1>2. d.links = db.links
  BY DEF OnlyRulesOf
<1>3. Unfollowed = {}
  BY <1>1, <1>2, OwnRulesPushed
<1> QED
  BY <1>3 DEF Pushed

\* Creating, patching and deleting a user group's rule.
LEMMA GroupRuleServed ==
  ASSUME NEW tab \in {"groupBudgets", "groupSchedules", "groupExceptions"}, NEW owner, NEW e,
         OnlyRulesOf(db, e, tab, owner), NEW d \in {db, e}, NEW route0, NEW reason,
         Serve(route0, e, groupMemberPushCommands(d, reason, owner[2]))
  PROVE  Pushed
<1>1. db' = e /\ cmds' = groupMemberPushCommands(d, reason, owner[2])
  BY DEF Serve
<1>2. d.links = db.links /\ d.members = db.members
  BY DEF OnlyRulesOf
<1>3. Unfollowed = {}
  BY <1>1, <1>2, GroupRulesPushed
<1> QED
  BY <1>3 DEF Pushed

\* The routes under one user.
LEMMA UserRoutesPushed ==
  ASSUME IInv, NEW u \in UserIds, UserStep(u)
  PROVE  Pushed
<1>0. WellFormed(db)
  BY DEF IInv
<1>1. CASE DeleteUser(u)
  BY <1>1 DEF DeleteUser, Serve, Pushed
<1>2. CASE DeleteNotificationPolicy(u)
  <2>1. LET d == deleteNotificationPolicy(db, u) IN d.links = db.links /\ d.users = db.users /\ d.members = db.members /\ d.rules = db.rules
    BY <1>0 DEF deleteNotificationPolicy, WellFormed, Columns
  <2> QED
    BY <1>2, <2>1, UnreadRoutesPushed, Zenon DEF DeleteNotificationPolicy
<1>3. ASSUME NEW v \in Vals, PatchUser(u, v) PROVE Pushed
  BY <1>3, PatchUserPushed
<1>4. ASSUME NEW v \in Vals, PutNotificationPolicy(u, v) PROVE Pushed
  <2>1. LET d == upsertNotificationPolicy(db, u, v) IN d.links = db.links /\ d.users = db.users /\ d.members = db.members /\ d.rules = db.rules
    BY <1>0 DEF upsertNotificationPolicy, WellFormed, Columns
  <2> QED
    BY <1>4, <2>1, UnreadRoutesPushed, Zenon DEF PutNotificationPolicy
<1>5. ASSUME NEW c \in ClientIds, DeleteLink(u, c) PROVE Pushed
  BY <1>5, DeleteLinkPushed
<1>6. ASSUME NEW c \in ClientIds, NEW ref \in Refs, PutLink(u, c, ref) PROVE Pushed
  BY <1>6, PutLinkPushed
<1>7. \A i : <<"user", i>>[2] = i
  OBVIOUS
<1>8. ASSUME NEW x \in createBudgetSchema, PostBudget(u, x[1], x[2]) PROVE Pushed
  <2>1. OnlyRulesOf(db, createBudget(db, u, x[1], x[2]), "budgets", <<"user", u>>)
    BY <1>0, InsertOnly DEF createBudget, RuleTables
  <2> QED
    BY <1>7, <1>8, <2>1, OwnRuleServed DEF PostBudget
<1>9. ASSUME NEW x \in createScheduleSchema, PostSchedule(u, x[1], x[2], x[3]) PROVE Pushed
  <2>1. OnlyRulesOf(db, createSchedule(db, u, x[1], x[2], x[3]), "schedules", <<"user", u>>)
    BY <1>0, InsertOnly DEF createSchedule, RuleTables
  <2> QED
    BY <1>7, <1>9, <2>1, OwnRuleServed DEF PostSchedule
<1>10. ASSUME NEW x \in createExceptionSchema, PostException(u, x[1], x[2]) PROVE Pushed
  <2>1. OnlyRulesOf(db, createException(db, u, x[1], x[2]), "exceptions", <<"user", u>>)
    BY <1>0, InsertOnly DEF createException, RuleTables
  <2> QED
    BY <1>7, <1>10, <2>1, OwnRuleServed DEF PostException
<1>11. ASSUME NEW ids, PutOrder(u, ids) PROVE Pushed
  BY <1>11 DEF PutOrder, Serve, Pushed
<1> QED
  BY <1>1, <1>2, <1>3, <1>4, <1>5, <1>6, <1>8, <1>9, <1>10, <1>11 DEF UserStep

\* The routes under one user group.
LEMMA UserGroupRoutesPushed ==
  ASSUME IInv, NEW g \in GroupIds, UserGroupStep(g)
  PROVE  Pushed
<1>0. WellFormed(db)
  BY DEF IInv
<1>1. CASE DeleteUserGroup(g)
  BY <1>1 DEF DeleteUserGroup, Serve, Pushed
<1>2. ASSUME NEW n \in Names, PatchUserGroup(g, n) PROVE Pushed
  BY <1>0, <1>2, UnreadRoutesPushed DEF PatchUserGroup, updateUserGroup, WellFormed, Columns
<1>3. ASSUME NEW u \in UserIds, PutMember(g, u) \/ DeleteMember(g, u) PROVE Pushed
  BY <1>3 DEF PutMember, DeleteMember, Serve, Pushed
<1>4. \A i : <<"group", i>>[2] = i
  OBVIOUS
<1>5. ASSUME NEW x \in createBudgetSchema, PostGroupBudget(g, x[1], x[2]) PROVE Pushed
  <2>1. OnlyRulesOf(db, createGroupBudget(db, g, x[1], x[2]), "groupBudgets", <<"group", g>>)
    BY <1>0, InsertOnly DEF createGroupBudget, RuleTables
  <2> QED
    BY <1>4, <1>5, <2>1, GroupRuleServed DEF PostGroupBudget
<1>6. ASSUME NEW x \in createScheduleSchema, PostGroupSchedule(g, x[1], x[2], x[3]) PROVE Pushed
  <2>1. OnlyRulesOf(db, createGroupSchedule(db, g, x[1], x[2], x[3]), "groupSchedules", <<"group", g>>)
    BY <1>0, InsertOnly DEF createGroupSchedule, RuleTables
  <2> QED
    BY <1>4, <1>6, <2>1, GroupRuleServed DEF PostGroupSchedule
<1>7. ASSUME NEW x \in createExceptionSchema, PostGroupException(g, x[1], x[2]) PROVE Pushed
  <2>1. OnlyRulesOf(db, createGroupException(db, g, x[1], x[2]), "groupExceptions", <<"group", g>>)
    BY <1>0, InsertOnly DEF createGroupException, RuleTables
  <2> QED
    BY <1>4, <1>7, <2>1, GroupRuleServed DEF PostGroupException
<1>8. ASSUME NEW ids, PutGroupOrder(g, ids) PROVE Pushed
  BY <1>8 DEF PutGroupOrder, Serve, Pushed
<1> QED
  BY <1>1, <1>2, <1>3, <1>5, <1>6, <1>7, <1>8 DEF UserGroupStep

\* The routes of one rule.
LEMMA RuleRoutesPushed ==
  ASSUME IInv, NEW r \in db.rules, RuleStep(r)
  PROVE  Pushed
<1>0. WellFormed(db)
  BY DEF IInv
<1>1. ASSUME NEW x \in updateBudgetSchema(r), PatchBudget(r, x[1], x[2]) PROVE Pushed
  <2>1. OnlyRulesOf(db, updateBudget(db, r, x[1], x[2]), r.tab, r.owner)
    BY <1>0, UpdateOnly DEF updateBudget
  <2> QED
    BY <1>1, <2>1, OwnRuleServed DEF PatchBudget
<1>2. ASSUME NEW x \in updateScheduleSchema(r), PatchSchedule(r, x[1], x[2], x[3]) PROVE Pushed
  <2>1. OnlyRulesOf(db, updateSchedule(db, r, x[1], x[2], x[3]), r.tab, r.owner)
    BY <1>0, UpdateOnly DEF updateSchedule
  <2> QED
    BY <1>2, <2>1, OwnRuleServed DEF PatchSchedule
<1>3. ASSUME NEW x \in updateExceptionSchema(r), PatchException(r, x[1], x[2]) PROVE Pushed
  <2>1. OnlyRulesOf(db, updateException(db, r, x[1], x[2]), r.tab, r.owner)
    BY <1>0, UpdateOnly DEF updateException
  <2> QED
    BY <1>3, <2>1, OwnRuleServed DEF PatchException
<1>4. ASSUME NEW x \in updateBudgetSchema(r), PatchGroupBudget(r, x[1], x[2]) PROVE Pushed
  <2>1. OnlyRulesOf(db, updateGroupBudget(db, r, x[1], x[2]), r.tab, r.owner)
    BY <1>0, UpdateOnly DEF updateGroupBudget
  <2> QED
    BY <1>4, <2>1, GroupRuleServed DEF PatchGroupBudget
<1>5. ASSUME NEW x \in updateScheduleSchema(r), PatchGroupSchedule(r, x[1], x[2], x[3]) PROVE Pushed
  <2>1. OnlyRulesOf(db, updateGroupSchedule(db, r, x[1], x[2], x[3]), r.tab, r.owner)
    BY <1>0, UpdateOnly DEF updateGroupSchedule
  <2> QED
    BY <1>5, <2>1, GroupRuleServed DEF PatchGroupSchedule
<1>6. ASSUME NEW x \in updateExceptionSchema(r), PatchGroupException(r, x[1], x[2]) PROVE Pushed
  <2>1. OnlyRulesOf(db, updateGroupException(db, r, x[1], x[2]), r.tab, r.owner)
    BY <1>0, UpdateOnly DEF updateGroupException
  <2> QED
    BY <1>6, <2>1, GroupRuleServed DEF PatchGroupException
<1>7. CASE DeleteBudget(r)
  <2>1. OnlyRulesOf(db, deleteBudget(db, r), r.tab, r.owner)
    BY <1>0, RemoveOnly DEF deleteBudget
  <2> QED
    BY <1>7, <2>1, OwnRuleServed DEF DeleteBudget
<1>8. CASE DeleteSchedule(r)
  <2>1. OnlyRulesOf(db, deleteSchedule(db, r), r.tab, r.owner)
    BY <1>0, RemoveOnly DEF deleteSchedule
  <2> QED
    BY <1>8, <2>1, OwnRuleServed DEF DeleteSchedule
<1>9. CASE DeleteException(r)
  <2>1. OnlyRulesOf(db, deleteException(db, r), r.tab, r.owner)
    BY <1>0, RemoveOnly DEF deleteException
  <2> QED
    BY <1>9, <2>1, OwnRuleServed DEF DeleteException
<1>10. CASE DeleteGroupBudget(r)
  <2>1. OnlyRulesOf(db, deleteGroupBudget(db, r), r.tab, r.owner)
    BY <1>0, RemoveOnly DEF deleteGroupBudget
  <2> QED
    BY <1>10, <2>1, GroupRuleServed DEF DeleteGroupBudget
<1>11. CASE DeleteGroupSchedule(r)
  <2>1. OnlyRulesOf(db, deleteGroupSchedule(db, r), r.tab, r.owner)
    BY <1>0, RemoveOnly DEF deleteGroupSchedule
  <2> QED
    BY <1>11, <2>1, GroupRuleServed DEF DeleteGroupSchedule
<1>12. CASE DeleteGroupException(r)
  <2>1. OnlyRulesOf(db, deleteGroupException(db, r), r.tab, r.owner)
    BY <1>0, RemoveOnly DEF deleteGroupException
  <2> QED
    BY <1>12, <2>1, GroupRuleServed DEF DeleteGroupException
<1> QED
  BY <1>1, <1>2, <1>3, <1>4, <1>5, <1>6, <1>7, <1>8, <1>9, <1>10, <1>11, <1>12 DEF RuleStep

\* The routes of activities, of their groups, and of clients.
LEMMA ActivityRoutesPushed ==
  ASSUME IInv, ActivityStep
  PROVE  Pushed
<1>0. WellFormed(db)
  BY DEF IInv
<1>1. CASE PostActivity
  BY <1>0, <1>1, UnreadRoutesPushed DEF PostActivity, createActivity, bump, allocId, WellFormed, Columns
<1>2. ASSUME NEW a \in ActivityIds, DeleteActivity(a) PROVE Pushed
  BY <1>0, <1>2, UnreadRoutesPushed DEF DeleteActivity, deleteActivity, WellFormed, Columns
<1>3. ASSUME NEW a \in ActivityIds, NEW v \in Vals, PatchActivity(a, v) PROVE Pushed
  BY <1>0, <1>3, UnreadRoutesPushed DEF PatchActivity, updateActivity, WellFormed, Columns
<1>4. ASSUME NEW n \in Names, PostActivityGroup(n) PROVE Pushed
  BY <1>0, <1>4, UnreadRoutesPushed
     DEF PostActivityGroup, createActivityGroup, bump, allocId, WellFormed, Columns
<1>5. ASSUME NEW n \in Names, NEW g \in ActivityGroupIds, PatchActivityGroup(g, n) PROVE Pushed
  BY <1>0, <1>5, UnreadRoutesPushed DEF PatchActivityGroup, updateActivityGroup, WellFormed, Columns
<1>6. ASSUME NEW g \in ActivityGroupIds, DeleteActivityGroup(g) PROVE Pushed
  BY <1>0, <1>6, UnreadRoutesPushed DEF DeleteActivityGroup, deleteActivityGroup, WellFormed, Columns
<1>7. ASSUME NEW g \in ActivityGroupIds, NEW a \in ActivityIds, PutActivityMember(g, a) PROVE Pushed
  BY <1>0, <1>7, UnreadRoutesPushed DEF PutActivityMember, addActivityToGroup, WellFormed, Columns
<1>8. ASSUME NEW g \in ActivityGroupIds, NEW a \in ActivityIds, DeleteActivityMember(g, a) PROVE Pushed
  BY <1>0, <1>8, UnreadRoutesPushed DEF DeleteActivityMember, removeActivityFromGroup, WellFormed, Columns
<1> QED
  BY <1>1, <1>2, <1>3, <1>4, <1>5, <1>6, <1>7, <1>8 DEF ActivityStep

LEMMA ClientRoutesPushed ==
  ASSUME IInv, ClientStep
  PROVE  Pushed
<1>0. WellFormed(db)
  BY DEF IInv
<1>1. ASSUME NEW n \in Names, PostClient(n) PROVE Pushed
  <2>1. LET d == createClient(db, n) IN d.links = db.links /\ d.users = db.users /\ d.members = db.members /\ d.rules = db.rules
    BY <1>0 DEF createClient, bump, allocId, WellFormed, Columns
  <2> QED
    BY <1>1, <2>1, UnreadRoutesPushed, Zenon DEF PostClient
<1>2. ASSUME NEW n \in Names, NEW c \in ClientIds, PatchClient(c, n) PROVE Pushed
  BY <1>0, <1>2, UnreadRoutesPushed DEF PatchClient, updateClient, WellFormed, Columns
<1>3. ASSUME NEW c \in ClientIds, DeleteClient(c) PROVE Pushed
  BY <1>3, DeleteClientPushed
<1> QED
  BY <1>1, <1>2, <1>3 DEF ClientStep

\* Whatever a request changes about what an account should be held to is pushed to
\* it (routes.ts, stub.ts), by every route but the six that ChangesPushedButFor
\* names and a link pointed at another account: for any database, any number of
\* users, groups and clients, and any bodies.
THEOREM ChangesArePushed == Spec => ChangesPushedButFor
<1>1. Init => IInv
  BY StartAssumption DEF Init, IInv
<1>2. IInv /\ [Next]_vars => IInv'
  BY RequestsSound
<1>3. ASSUME IInv, [Next]_vars PROVE [Pushed]_vars
  <2>1. ASSUME NEW v \in Vals, PostUser(v) PROVE Pushed
    BY <1>3, <2>1, PostUserPushed
  <2>2. ASSUME NEW n \in Names, PostUserGroup(n) PROVE Pushed
    BY <1>3, <2>2, UnreadRoutesPushed
       DEF PostUserGroup, createUserGroup, bump, allocId, IInv, WellFormed, Columns
  <2>3. CASE Next
    BY <1>3, <2>1, <2>2, <2>3, UserRoutesPushed, UserGroupRoutesPushed, RuleRoutesPushed,
       ActivityRoutesPushed, ClientRoutesPushed DEF Next
  <2> QED
    BY <1>3, <2>3
<1>4. IInv /\ [Next]_vars => [Pushed]_vars
  BY <1>3
<1> QED
  BY <1>1, <1>2, <1>4, PTL DEF Spec, ChangesPushedButFor, Pushed
=============================================================================

--------------------------- MODULE MCPolicyStore ---------------------------
(***************************************************************************)
(* Small instance of PolicyStore: two users of one group, one of them on   *)
(* two clients, own and group rules, some of which name an activity.       *)
(***************************************************************************)
EXTENDS PolicyStore

U(n) == <<"user", n>>
G(n) == <<"group", n>>
MCStart ==
  [users |-> {[id |-> 1, tz |-> 1], [id |-> 2, tz |-> 1]},
   clients |-> {[id |-> 1, hostname |-> "n1"], [id |-> 2, hostname |-> "n2"]},
   links |-> {[user |-> 1, client |-> 1, ref |-> "kid"], [user |-> 1, client |-> 2, ref |-> "kid"],
              [user |-> 2, client |-> 1, ref |-> "sis"]},
   userGroups |-> {[id |-> 1, name |-> "n1"]},
   members |-> {<<1, 1>>},
   activities |-> {[id |-> 1, born |-> 0, matcher |-> 0]},
   activityGroups |-> {[id |-> 1, name |-> "n1", born |-> 0]},
   activityMembers |-> {<<1, 1>>},
   notifications |-> {[user |-> 2, val |-> 1]},
   rules |-> {ruleRow("schedules", U(1), 1, Overall, 1, 0, 0), ruleRow("schedules", U(1), 2, Overall, 2, 0, 0),
              ruleRow("groupSchedules", G(1), 1, Overall, 1, 0, 0),
              ruleRow("groupSchedules", G(1), 2, Overall, 2, 0, 0),
              ruleRow("budgets", U(2), 1, <<"activity", 1>>, 1, 0, 0),
              ruleRow("groupBudgets", G(1), 1, Overall, 1, 0, 0),
              ruleRow("exceptions", U(1), 1, <<"group", 1>>, 1, 0, 0)},
   next |-> [t \in RuleTables \cup {"users", "clients", "userGroups", "activities", "activityGroups"} |-> 3]]
=============================================================================

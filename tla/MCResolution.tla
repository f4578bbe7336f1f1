---------------------------- MODULE MCResolution ----------------------------
(***************************************************************************)
(* Small instances of Resolution: six ticks a day in two hours of three, a *)
(* week of two days, a month of four.  Every start varies one thing: the   *)
(* rules, the budgets or the zone; only the last two are then edited.      *)
(***************************************************************************)
EXTENDS Resolution

Rule(id, tgt, act, days, win) ==
  [id |-> id, ordinal |-> id, target |-> tgt, action |-> act, days |-> days, win |-> win,
   from |-> Null, to |-> Null]
Dated(r, from, to) == [r EXCEPT !.from = from, !.to = to]
B(scope, window, target, seconds, days) ==
  [scope |-> scope, window |-> window, target |-> target, seconds |-> seconds, days |-> days]
Exc(id, act, from, made, expires) ==
  [id |-> id, target |-> "overall", action |-> act, from |-> from, createdAt |-> made,
   expiresAt |-> expires]
Utc == [before |-> 0, after |-> 0, at |-> 0]

Start(o, g, x, b, gb, gr, z, e) ==
  [own |-> o, group |-> g, excs |-> x, budgets |-> b, groupBudgets |-> gb, grants |-> gr,
   tz |-> z, edits |-> e]

\* Two own rules, a group rule and two exceptions in every combination that
\* overlaps, touches or nests.
Wins == {Null, <<1, 2>>, <<2, 5>>}
First == {Rule(5, "overall", a, d, w) : a \in {"allow", "deny", "extend"}, d \in {Null, {1}}, w \in Wins}
Second == {Rule(2, "overall", a, Null, w) : a \in {"allow", "deny"}, w \in {<<2, 5>>, <<0, 3>>}}
          \cup {Rule(2, "game", "deny", Null, Null), Dated(Rule(2, "game", "deny", {1}, <<1, 2>>), 12, 18)}
GroupRule == {<< >>, <<Rule(3, "overall", "deny", {2}, <<4, 6>>)>>,
              <<Dated(Rule(3, "game", "deny", {1}, <<1, 2>>), 0, 12)>>}
Excs == {<< >>, <<Exc(1, "allow", Null, 2, 9), Exc(2, "deny", 4, 1, 5)>>}
Behind == {<<g, x>> \in GroupRule \X Excs : x # << >> \/ (g # << >> /\ g[1].target = "overall")}
GridStarts == {Start(<<[f EXCEPT !.ordinal = 0], [s EXCEPT !.ordinal = 1]>>, p[1], p[2],
                     << >>, << >>, << >>, Utc, MaxEdits) : f \in First, s \in Second, p \in Behind}

\* Budgets with and without a weekday of their own, and hours that share a clock
\* hour, close a day or close the week.
Plain == <<B("overall", "daily", Null, 3, Null)>>
ByDay == Plain \o <<B("overall", "daily", Null, 1, {2}), B("activity", "daily", "game", 1, Null)>>
Weekly == <<B("overall", "weekly", Null, 9, Null), B("overall", "daily", Null, 2, {1})>>
Deny(d, w) == <<Rule(1, "overall", "deny", d, w)>>
MCSaves == {<<Deny({1}, Null), Plain>>, <<Deny(Null, Null), Weekly>>, <<Deny({2}, <<1, 2>>), ByDay>>,
            <<Deny(Null, <<3, 6>>), << >>>>, << << >>, Weekly>>}
Gifts == {<< >>, <<[scope |-> "overall", target |-> Null, seconds |-> 2, at |-> 1, expires |-> 7, revoked |-> FALSE],
                   [scope |-> "activity", target |-> "game", seconds |-> 1, at |-> 2, expires |-> 3, revoked |-> FALSE]>>}
\* One edit from each; two where a group's budgets and grants lie behind.
BudgetStarts == {Start(s[1], << >>, << >>, s[2], gb, gr, Utc,
                       IF gb = ByDay /\ gr # << >> THEN 0 ELSE MaxEdits - 1) :
                   s \in MCSaves, gb \in {<< >>, ByDay, Weekly}, gr \in Gifts}

\* Offsets either side of UTC that change by one tick, forward or back, at any
\* hour of the second day, midnight included; and a plain zone far away.
Shifts == {[before |-> b, after |-> b + d, at |-> a] : b \in {-2, 1}, d \in {1, -1}, a \in 5..11}
Far == [before |-> 3, after |-> 3, at |-> 0]
MCZones == {Far, [before |-> -2, after |-> -2, at |-> 0]}
ZoneStarts == {Start(<< >>, << >>, << >>, << >>, << >>, << >>, z,
                     IF z.at = 8 /\ z.before < z.after THEN 0 ELSE MaxEdits - 1) : z \in Shifts}

MCStarts == GridStarts \cup BudgetStarts \cup ZoneStarts
=============================================================================

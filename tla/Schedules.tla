----------------------------- MODULE Schedules -----------------------------
(***************************************************************************)
(* Local time (policy/budget-window.ts): which local day, week and month   *)
(* an instant falls in, and where their edges are as UTC instants.  Then   *)
(* which rule wins: schedule precedence (policy/schedule-precedence.ts),   *)
(* one day's allowed windows (policy/resolve.ts), the user's own rules     *)
(* merged with those of the user's groups (policy/group-resolution.ts),    *)
(* the recurring week and the next change of access.                       *)
(*                                                                         *)
(* A rule is a record [id, ordinal, target, action, days, win, from, to]:  *)
(* target is "overall" or the activity or group it names; days a set of    *)
(* weekdays or Null; win a pair <<start, end>> of ticks or Null; from and  *)
(* to instants or Null.  Rule lists are sequences.                         *)
(*                                                                         *)
(* An instant is an integer number of ticks in UTC; a calendar date is the *)
(* integer number of its day.  A day has DayLen ticks, a week WeekLen days *)
(* and a month MonthLen days, so the calendar's carry is all that is kept  *)
(* of the Gregorian one.  A zone is an offset from UTC that changes once:  *)
(*   [before |-> o1, after |-> o2, at |-> the instant of the change]       *)
(***************************************************************************)
EXTENDS Integers, Sequences, FiniteSets
LOCAL INSTANCE SequencesExt
LOCAL INSTANCE FiniteSetsExt

CONSTANTS DayLen, WeekLen, MonthLen,
          Null   \* SQL null, and an absent value

ASSUME CalendarAssumption ==
  /\ DayLen \in Nat \ {0} /\ WeekLen \in Nat \ {0} /\ MonthLen \in Nat \ {0}

(* ---- local time ---- *)

\* The wall clock of tz reads t + tzOffset(t, tz) at the instant t.
tzOffset(t, tz) == IF t < tz.at THEN tz.before ELSE tz.after

\* Wall-clock fields at an instant: the date and the tick of that day.
zonedParts(t, tz) ==
  LET wall == t + tzOffset(t, tz) IN [day |-> wall \div DayLen, tick |-> wall % DayLen]

\* Mutant: one pass only.
wallTimeToUtcOnePass(wall, tz) == wall - tzOffset(wall, tz)

\* The two passes: guess with the offset at the wall time read as UTC, and take
\* the offset in force at the guess when it differs.
wallTimeToUtc(wall, tz) ==
  LET first == tzOffset(wall, tz)
      second == tzOffset(wall - first, tz)
  IN  wall - second

localMidnight(day, tz) == wallTimeToUtc(day * DayLen, tz)

localCalendarDate(t, tz) == zonedParts(t, tz).day
localTimeOfDay(t, tz) == zonedParts(t, tz).tick

\* 1 is Monday; day 0 is one.
isoWeekday(day) == (day % WeekLen) + 1

\* [start, end) of a calendar day.
localDayBounds(day, tz) ==
  [start |-> localMidnight(day, tz), end |-> localMidnight(day + 1, tz)]

\* [start, end) of the budget window of a kind around an instant.
windowContaining(kind, t, tz) ==
  LET day == zonedParts(t, tz).day
      monday == day - (isoWeekday(day) - 1)
      first == day - (day % MonthLen)
      edges == CASE kind = "daily" -> <<day, day + 1>>
                 [] kind = "weekly" -> <<monday, monday + WeekLen>>
                 [] kind = "monthly" -> <<first, first + MonthLen>>
  IN  [start |-> localMidnight(edges[1], tz), end |-> localMidnight(edges[2], tz)]

\* Mutant: the first window after a zone change is not clamped to the seam.
effectiveWindowUnclamped(kind, now, tz, change) ==
  IF change = Null \/ now < change.at THEN windowContaining(kind, now, tz)
  ELSE LET pinned == windowContaining(kind, change.at, change.previousTz)
       IN  IF now < pinned.end THEN pinned ELSE windowContaining(kind, now, tz)

\* The window active now when the user's zone changed at change.at: the window
\* open then keeps its old edges, and the first one after it starts at its end.
effectiveWindow(kind, now, tz, change) ==
  IF change = Null \/ now < change.at THEN windowContaining(kind, now, tz)
  ELSE LET pinned == windowContaining(kind, change.at, change.previousTz)
           natural == windowContaining(kind, now, tz)
       IN  IF now < pinned.end THEN pinned
           ELSE IF natural.start < pinned.end
                THEN [start |-> pinned.end, end |-> natural.end]
                ELSE natural

(* ---- precedence ---- *)

byOrdinal(rules) ==
  SortSeq(rules, LAMBDA a, b :
    \/ a.ordinal < b.ordinal
    \/ a.ordinal = b.ordinal /\ a.id < b.id)

isRuleActiveAt(r, t, tz) ==
  /\ r.from # Null => t >= r.from
  /\ r.to # Null => t < r.to
  /\ r.days # Null => isoWeekday(localCalendarDate(t, tz)) \in r.days
  /\ r.win # Null => localTimeOfDay(t, tz) \in r.win[1]..(r.win[2] - 1)

\* The first rule in precedence order that is in active, as a sequence of at
\* most one.
resolveEffectiveRule(rules, active) ==
  LET on == SelectSeq(byOrdinal(rules), LAMBDA r : r \in active)
  IN  IF on = << >> THEN << >> ELSE <<Head(on)>>

reorder(rules, ids) ==
  [i \in DOMAIN ids |->
     [CHOOSE r \in ToSet(rules) : r.id = ids[i] EXCEPT !.ordinal = i - 1]]

targetSupersetOf(earlier, later) ==
  earlier.target = "overall" \/ earlier.target = later.target

\* Mutant: the effective dates are left out of the comparison.
sameWindowDateless(a, b) == a.days = b.days /\ a.win = b.win

sameWindow(a, b) ==
  a.days = b.days /\ a.win = b.win /\ a.from = b.from /\ a.to = b.to

\* Ids of the rules some earlier rule makes unreachable.
findShadowedRules(rules) ==
  LET o == byOrdinal(rules)
  IN  {o[i].id : i \in {k \in DOMAIN o :
         \E j \in 1..(k - 1) : sameWindow(o[j], o[k]) /\ targetSupersetOf(o[j], o[k])}}

\* Ids of the rules that decide some target now.
effectiveRuleIds(rules, active) ==
  LET win(r) == resolveEffectiveRule(
                  SelectSeq(rules, LAMBDA c : targetSupersetOf(c, r)), active)
  IN  {w[1].id : w \in {win(r) : r \in ToSet(rules)} \ {<< >>}}

(* ---- inheritance from groups ---- *)

\* Mutant: the group's rules go in front.
mergeScheduleRulesGroupsFirst(own, groups) ==
  LET all == FlattenSeq(groups) \o byOrdinal(own)
  IN  [i \in DOMAIN all |-> [all[i] EXCEPT !.ordinal = i - 1]]

\* The user's own rules, then each group's in ascending group id; the ordinals
\* are renumbered, so an own rule precedes every inherited one.  groups holds
\* one list per group of the user, each in its own order (listGroupSchedules).
mergeScheduleRulesWithGroups(own, groups) ==
  LET all == byOrdinal(own) \o FlattenSeq(groups)
  IN  [i \in DOMAIN all |-> [all[i] EXCEPT !.ordinal = i - 1]]

newestFirst(excs) ==
  SortSeq(excs, LAMBDA a, b :
    a.createdAt > b.createdAt \/ (a.createdAt = b.createdAt /\ a.id > b.id))

gatherUserExceptions(own, groups) ==
  newestFirst(own) \o FlattenSeq([g \in DOMAIN groups |-> newestFirst(groups[g])])

(* ---- one day's allowed windows ---- *)

appliesOnDay(r, day, b) ==
  /\ r.from # Null => r.from < b.end
  /\ r.to # Null => r.to > b.start
  /\ r.days # Null => isoWeekday(day) \in r.days

ruleWindow(r) == IF r.win = Null THEN <<0, DayLen>> ELSE r.win

\* Mutant: windows that touch are kept apart.
mergeTouch(last, w) == w[1] < last[2]

\* Sorted by start; a window that starts inside or right after the last one
\* extends it.
mergeJoins(last, w) == w[1] <= last[2]
mergeWindows(ws) ==
  LET proper == {w \in ws : w[1] < w[2]}
      sorted == SetToSortSeq(proper, LAMBDA a, b :
                  a[1] < b[1] \/ (a[1] = b[1] /\ a[2] < b[2]))
      Join(acc, w) ==
        IF acc # << >> /\ mergeJoins(acc[Len(acc)], w)
        THEN [acc EXCEPT ![Len(acc)] = <<@[1], Max({@[2], w[2]})>>]
        ELSE Append(acc, w)
  IN  FoldLeft(Join, << >>, sorted)

\* rs: the overall rules that apply today in precedence order, each
\* [action, start, end].  Between two neighbouring edges one rule decides; an
\* "extend" opens its window whatever the others say.
resolveAllowedWindows(rs) ==
  LET edges == {0, DayLen} \cup UNION {{rs[i].start, rs[i].end} : i \in DOMAIN rs}
      segments == {s \in edges \X edges :
                     s[1] < s[2] /\ ~\E e \in edges : s[1] < e /\ e < s[2]}
      covering(s) == SelectSeq(rs, LAMBDA r : r.start <= s[1] /\ r.end >= s[2])
      open == {s \in segments : covering(s) = << >> \/ Head(covering(s)).action # "deny"}
      extends == {<<r.start, r.end>> : r \in {x \in ToSet(rs) : x.action = "extend"}}
  IN  mergeWindows(open \cup extends)

\* An exception's part of a day, as ticks elapsed since the day began; empty
\* (start >= end) when it does not touch the day.
exceptionWindowOnDay(x, b) ==
  LET from == IF x.from = Null THEN x.createdAt ELSE x.from
  IN  <<Max({from, b.start}) - b.start, Min({x.expiresAt, b.end}) - b.start>>

\* The overall rules of a day: exceptions first, then the recurring rules.
dayRules(rules, excs, day, tz) ==
  LET b == localDayBounds(day, tz)
      active == SelectSeq(byOrdinal(rules), LAMBDA r :
                  r.target = "overall" /\ appliesOnDay(r, day, b))
      once == SelectSeq(excs, LAMBDA x :
                x.target = "overall" /\ exceptionWindowOnDay(x, b)[1] < exceptionWindowOnDay(x, b)[2])
  IN  [i \in DOMAIN once |->
         [action |-> once[i].action, start |-> exceptionWindowOnDay(once[i], b)[1],
          end |-> exceptionWindowOnDay(once[i], b)[2]]]
      \o [i \in DOMAIN active |->
            [action |-> active[i].action, start |-> ruleWindow(active[i])[1],
             end |-> ruleWindow(active[i])[2]]]

\* effectivePolicy's allowedWindows.
allowedWindows(rules, excs, day, tz) == resolveAllowedWindows(dayRules(rules, excs, day, tz))

\* Monday to Sunday of the reference's week, from the recurring rules only.
resolveWeeklyAllowedWindows(rules, tz, reference) ==
  LET today == localCalendarDate(reference, tz)
      monday == today - (isoWeekday(today) - 1)
  IN  [d \in 1..WeekLen |-> allowedWindows(rules, << >>, monday + d - 1, tz)]

(* ---- the next change of access ---- *)

isAccessAllowedAt(tick, ws) == \E i \in DOMAIN ws : ws[i][1] <= tick /\ tick < ws[i][2]

boundariesIn(ws, lo, hi) ==
  {e \in UNION {{ws[i][1], ws[i][2]} : i \in DOMAIN ws} : lo <= e /\ e < hi}

\* Mutant: tomorrow is searched from its first boundary, not from midnight.
tomorrowCandidatesLate(tomorrow) == boundariesIn(tomorrow, 1, DayLen)

tomorrowCandidates(tomorrow) == {0} \cup boundariesIn(tomorrow, 1, DayLen)

\* <<days from today, tick>> of the next change, or << >> when there is none
\* before the end of tomorrow.
nextOverallTransition(today, tick, tomorrow) ==
  LET state == isAccessAllowedAt(tick, today)
      later == {m \in boundariesIn(today, tick + 1, DayLen) : isAccessAllowedAt(m, today) # state}
      next == {m \in tomorrowCandidates(tomorrow) : isAccessAllowedAt(m, tomorrow) # state}
  IN  IF later # {} THEN <<0, Min(later)>>
      ELSE IF next # {} THEN <<1, Min(next)>> ELSE << >>
=============================================================================

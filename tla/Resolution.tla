----------------------------- MODULE Resolution -----------------------------
(***************************************************************************)
(* Quotas (policy/resolve.ts, policy/group-resolution.ts), the limits a    *)
(* push sends (transport/policy-push/resolve.ts), the preview's difference *)
(* (transport/policy-push/diff.ts) and the timekpra calls that carry them  *)
(* (linux-runner.ts, timekpr/allowed-hours.ts).  A budget is [scope,       *)
(* window, target, seconds, days]; a grant is [scope, target, seconds, at, *)
(* expires, revoked].                                                      *)
(*                                                                         *)
(* Then one user's policy resolved against a running clock: what the       *)
(* effective-policy, status, order and preview endpoints answer, what a    *)
(* push leaves on the client's timekpr account, and which budget window is *)
(* open while the clock crosses daylight-saving and time-zone changes.     *)
(* The clock, the admin's edits, pushes and zone changes are the steps.    *)
(***************************************************************************)
EXTENDS Schedules
LOCAL INSTANCE SequencesExt
LOCAL INSTANCE FiniteSetsExt

CONSTANTS HourLen,   \* ticks of an hour
          FullDay    \* seconds of a day: a day without a limit of its own

ASSUME HourAssumption == HourLen \in 1..DayLen /\ DayLen % HourLen = 0

SumSeconds(s) == FoldLeft(LAMBDA acc, b : acc + b.seconds, 0, s)

(* ---- budgets ---- *)

budgetSlotKey(b) == <<b.scope, b.window, b.target>>

\* Mutant: a group adds to a slot the user already covers.
mergeBudgetsSummed(own, groups) == own \o FlattenSeq(groups)

\* The user's own rows cover their slots; each group, in ascending id, fills the
\* slots nobody before it covers.
mergeBudgetsWithGroups(own, groups) ==
  LET Fill(acc, rows) ==
        acc \o SelectSeq(rows, LAMBDA r :
                 \A i \in DOMAIN acc : budgetSlotKey(acc[i]) # budgetSlotKey(r))
  IN  FoldLeft(Fill, own, groups)

\* In each slot the rows that name the weekday replace the every-day rows.
selectBudgetsForWeekday(bs, weekday) ==
  LET named(b) == b.days # Null /\ weekday \in b.days
      special(b) == \E i \in DOMAIN bs : budgetSlotKey(bs[i]) = budgetSlotKey(b) /\ named(bs[i])
  IN  SelectSeq(bs, LAMBDA b : named(b) \/ (b.days = Null /\ ~special(b)))

overallRows(bs, window) == SelectSeq(bs, LAMBDA b : b.scope = "overall" /\ b.window = window)

overallDailySecondsForWeekday(bs, weekday) ==
  LET d == overallRows(selectBudgetsForWeekday(bs, weekday), "daily")
  IN  IF d = << >> THEN Null ELSE SumSeconds(d)

grantOverlapsDay(g, b) == ~g.revoked /\ g.at < b.end /\ g.expires > b.start

\* Mutant: a grant opens a quota of its own.
quotaGrantsOpen(bs, gs, b, q) ==
  SumSeconds(SelectSeq(bs, LAMBDA r : r.window = "daily" /\ <<r.scope, r.target>> = q))
  + SumSeconds(SelectSeq(gs, LAMBDA g : <<g.scope, g.target>> = q /\ grantOverlapsDay(g, b)))

\* The day's seconds for q, <<"overall", Null>> or an activity or group: Null
\* without a daily budget, else budgets plus the grants that touch the day
\* (resolveOverallSeconds and buildActivityQuotas).
quotaOnDay(bs, gs, b, q) ==
  LET rows == SelectSeq(bs, LAMBDA r : r.window = "daily" /\ <<r.scope, r.target>> = q)
      on == SelectSeq(gs, LAMBDA g : <<g.scope, g.target>> = q /\ grantOverlapsDay(g, b))
  IN  IF rows = << >> THEN Null ELSE SumSeconds(rows) + SumSeconds(on)

effectiveQuota(bs, gs, day, tz, q) ==
  quotaOnDay(selectBudgetsForWeekday(bs, isoWeekday(day)), gs, localDayBounds(day, tz), q)

(* ---- the resolved push ---- *)

rollingOverallSeconds(bs, window) ==
  LET r == overallRows(bs, window) IN IF r = << >> THEN Null ELSE SumSeconds(r)

resolvePolicyPush(rules, bs, tz, now) ==
  LET daily == [d \in 1..WeekLen |-> overallDailySecondsForWeekday(bs, d)]
  IN  [day |-> IF \A d \in 1..WeekLen : daily[d] = Null THEN Null
               ELSE [d \in 1..WeekLen |-> IF daily[d] = Null THEN FullDay ELSE daily[d]],
       week |-> rollingOverallSeconds(bs, "weekly"),
       month |-> rollingOverallSeconds(bs, "monthly"),
       hours |-> resolveWeeklyAllowedWindows(rules, tz, now)]

hasAnyAllowedWindow(hours) == \E d \in DOMAIN hours : hours[d] # << >>

\* Mutant: only the first weekday is compared.
diffDailyFirstDay(before, after) ==
  LET at(x) == IF x = Null THEN Null ELSE x[1] IN {<<"day", 0>> : d \in {k \in {1} : at(before) # at(after)}}

\* The rows the preview lists: <<field, weekday or 0>>.  A uniform daily limit
\* is one row, and a week that denies everything lists no hours.
diffDailyOverall(before, after) ==
  LET at(x, d) == IF x = Null THEN Null ELSE x[d]
      uniform(x) == x = Null \/ \A d \in DOMAIN x : x[d] = x[1]
      differs == {d \in 1..WeekLen : at(before, d) # at(after, d)}
  IN  IF uniform(before) /\ uniform(after)
      THEN {<<"day", 0>> : d \in differs}
      ELSE {<<"day", d>> : d \in differs}

diffAllowedHours(before, after) ==
  {<<"hours", d>> : d \in {k \in 1..WeekLen :
     hasAnyAllowedWindow(after) /\ before[k] # after[k]}}

diffResolvedPush(before, after) ==
  diffDailyOverall(before.day, after.day)
  \cup {<<f, 0>> : f \in {g \in {"week", "month"} : before[g] # after[g]}}
  \cup diffAllowedHours(before.hours, after.hours)

(* ---- the timekpra calls ---- *)

\* Windows in ascending order with a gap between neighbours, inside the day.
assertWindows(ws) ==
  \A i \in DOMAIN ws :
    /\ 0 <= ws[i][1] /\ ws[i][1] < ws[i][2] /\ ws[i][2] <= DayLen
    /\ i > 1 => ws[i][1] > ws[i - 1][2]

hoursOf(w) == (w[1] \div HourLen)..((w[2] - 1) \div HourLen)

\* An hour holds one interval at most, or the call is refused.
representable(ws) ==
  /\ assertWindows(ws)
  /\ \A i, j \in DOMAIN ws : i # j => hoursOf(ws[i]) \cap hoursOf(ws[j]) = {}

\* H[from-to], a whole hour being from 0 to HourLen.
hourEntries(w) ==
  {[hour |-> h, from |-> Max({w[1], h * HourLen}) - h * HourLen,
    to |-> Min({w[2], (h + 1) * HourLen}) - h * HourLen] : h \in hoursOf(w)}
allowedWindowsToAllowedHours(ws) == UNION {hourEntries(ws[i]) : i \in DOMAIN ws}

\* An entry is a whole hour, or ends before the hour does: "H[30-60]" is refused.
formatAllowedHour(e) == e.to < HourLen \/ e.from = 0
formatAllowedHours(es) == \A e \in es : formatAllowedHour(e)

\* What a timekpr account holds: a limit per weekday, a weekly and a monthly
\* one, the allowed weekdays and each weekday's allowed hours.

\* setWeeklyAllowedHours: the allowed days, then the hours of each of them (one
\* ALL command when every day has the same hours).
setWeeklyAllowedHours(acct, hours) ==
  LET open == {d \in DOMAIN hours : hours[d] # << >>}
  IN  [acct EXCEPT !.days = open,
                   !.hours = [d \in DOMAIN @ |-> IF d \in open
                                THEN allowedWindowsToAllowedHours(hours[d]) ELSE @[d]]]

\* setTimeLimits, setTimeLimitWeek, setTimeLimitMonth: a null limit calls none.
setTimeLimit(acct, window, v) == IF v = Null THEN acct ELSE [acct EXCEPT ![window] = v]

\* What the hours of a push are refused for, before any of them is sent: an hour
\* with two disjoint intervals, or an entry the argument grammar has no form for.
buildWeeklyThrows(hours) ==
  \E d \in DOMAIN hours :
    ~representable(hours[d]) \/ ~formatAllowedHours(allowedWindowsToAllowedHours(hours[d]))
pushRefused(p) == hasAnyAllowedWindow(p.hours) /\ buildWeeklyThrows(p.hours)

\* Every setter of a push in turn, the hours last; a fully denied week sets none.
applyResolvedPush(acct, p) ==
  LET limited == setTimeLimit(setTimeLimit(setTimeLimit(acct, "day", p.day), "week", p.week),
                              "month", p.month)
  IN  IF hasAnyAllowedWindow(p.hours) /\ ~pushRefused(p)
      THEN setWeeklyAllowedHours(limited, p.hours) ELSE limited

\* The ticks timekpr lets the account use on a weekday.
ticksAllowed(acct, d) ==
  {t \in 0..(DayLen - 1) : d \in acct.days /\ \E e \in acct.hours[d] :
     /\ e.hour = t \div HourLen
     /\ e.from <= t % HourLen /\ t % HourLen < e.to}
-----------------------------------------------------------------------------
CONSTANTS Starts,    \* policies and zones a behaviour starts from
          Saves,     \* <<own rules, own budgets>> the admin may save
          Zones,     \* time zones the admin may set
          Horizon,   \* bound: the last instant
          MaxEdits   \* bound: edits of the policy or of the zone

VARIABLES now,
          own, group, excs,       \* schedules, group_schedules, exceptions
          budgets, groupBudgets,  \* budgets, group_budgets
          grants,
          tz, change,             \* the zone, and the change of it last recorded
          acct,                   \* the timekpr account on the client
          pushed,                 \* the resolved push the account got last, or Null
          preview,                \* what the preview of the last edit listed
          edits

policyVars == <<own, group, excs, budgets, groupBudgets, grants>>
vars == <<now, policyVars, tz, change, acct, pushed, preview, edits>>

Fresh == [day |-> Null, week |-> Null, month |-> Null, days |-> 1..WeekLen,
          hours |-> [d \in 1..WeekLen |-> hourEntries(<<0, DayLen>>)]]

Init ==
  /\ now = 0
  /\ \E s \in Starts :
       /\ own = s.own /\ group = s.group /\ excs = s.excs
       /\ budgets = s.budgets /\ groupBudgets = s.groupBudgets /\ grants = s.grants
       /\ tz = s.tz
       /\ edits = s.edits
  /\ change = Null
  /\ acct = Fresh /\ pushed = Null /\ preview = {}

gatherUserScheduleRules(o) == mergeScheduleRulesWithGroups(o, <<group>>)
gatherUserBudgets(b) == mergeBudgetsWithGroups(b, <<groupBudgets>>)

\* What the executor resolves and sends for own rules o and own budgets b.
ResolvedFor(o, b) == resolvePolicyPush(gatherUserScheduleRules(o), gatherUserBudgets(b), tz, now)

Tick ==
  /\ now < Horizon
  /\ now' = now + 1
  /\ UNCHANGED <<policyVars, tz, change, acct, pushed, preview, edits>>

\* The editor previews the proposed own rules against the saved ones, with the
\* group layer the same on both sides, and saves them.
Edit(o, b) ==
  /\ edits < MaxEdits
  /\ <<o, b>> # <<own, budgets>>
  /\ edits' = edits + 1
  /\ own' = o /\ budgets' = b
  /\ preview' = diffResolvedPush(ResolvedFor(own, budgets), ResolvedFor(o, b))
  /\ UNCHANGED <<now, group, excs, groupBudgets, grants, tz, change, acct, pushed>>

\* A push reaches the client.
Push ==
  LET p == ResolvedFor(own, budgets) IN
  /\ acct' = applyResolvedPush(acct, p)
  /\ pushed' = p
  /\ UNCHANGED <<now, policyVars, tz, change, preview, edits>>

\* PATCH user.tz.
ChangeZone(z) ==
  /\ edits < MaxEdits
  /\ z # tz
  /\ edits' = edits + 1
  /\ tz' = z
  /\ change' = [at |-> now, previousTz |-> tz]
  /\ UNCHANGED <<now, policyVars, acct, pushed, preview>>

Next ==
  \/ Tick
  \/ \E s \in Saves : Edit(s[1], s[2])
  \/ Push
  \/ \E z \in Zones : ChangeZone(z)

Spec == Init /\ [][Next]_vars

-----------------------------------------------------------------------------
Rules == gatherUserScheduleRules(own)
Exceptions == gatherUserExceptions(excs, << >>)
Today == localCalendarDate(now, tz)
AllowedOn(day) == allowedWindows(Rules, Exceptions, day, tz)

\* No change of the zone's offset inside the local day (a day of DayLen ticks).
PlainDay(day) ==
  LET b == localDayBounds(day, tz) IN b.end - b.start = DayLen /\ ~(b.start < tz.at /\ tz.at < b.end)

\* At this very instant: the exceptions running now, newest first, then the
\* user's own rules, then the group's, decide by the first that is on.
FirstMatchAllows ==
  LET tick == localTimeOfDay(now, tz)
      on == SelectSeq(newestFirst(excs), LAMBDA x :
              x.target = "overall" /\ (IF x.from = Null THEN x.createdAt ELSE x.from) <= now
              /\ now < x.expiresAt)
            \o SelectSeq(byOrdinal(own) \o group, LAMBDA r :
                 r.target = "overall" /\ isRuleActiveAt(r, now, tz))
  IN  \/ on = << >>
      \/ Head(on).action # "deny"
      \/ \E i \in DOMAIN on : on[i].action = "extend"

\* The day's grid, computed from rule edges, agrees at every instant with the
\* first rule that is on: exceptions before own rules before the group's, and
\* "extend" opening its window regardless (resolveAllowedWindows).
GridIsFirstMatch ==
  PlainDay(Today) =>
    (isAccessAllowedAt(localTimeOfDay(now, tz), AllowedOn(Today)) <=> FirstMatchAllows)

\* The next change of access the status endpoint announces happens exactly then:
\* nothing changes before it, and with none announced nothing changes until the
\* end of tomorrow.
TransitionExact ==
  LET ticks == localTimeOfDay(now, tz)
      next == nextOverallTransition(AllowedOn(Today), ticks, AllowedOn(Today + 1))
      open(k) == IF k < DayLen THEN isAccessAllowedAt(k, AllowedOn(Today))
                 ELSE isAccessAllowedAt(k - DayLen, AllowedOn(Today + 1))
      at == IF next = << >> THEN 2 * DayLen ELSE next[1] * DayLen + next[2]
  IN  /\ \A k \in ticks..(at - 1) : open(k) = open(ticks)
      /\ next # << >> => at > ticks /\ open(at) # open(ticks)

\* "a shadowed rule can never also be reported as effective" (schedule-order.ts),
\* at any instant.
ShadowedNeverEffective ==
  effectiveRuleIds(Rules, {r \in ToSet(Rules) : isRuleActiveAt(r, now, tz)})
    \cap findShadowedRules(Rules) = {}

\* The three together: what the household is told of the schedule is what holds.
ScheduleSound == GridIsFirstMatch /\ TransitionExact /\ ShadowedNeverEffective

\* What timekpr lets the account use on each weekday is exactly the pushed grid,
\* whatever the account held before: hours left over from days now closed and
\* the ALL shorthand included.  The windows are always ones the setter accepts
\* (ascending, neighbours apart).  An hour the argument grammar has no form for
\* refuses the push; that, or a week closed throughout, leaves the hours alone.
PushedGridInForce ==
  pushed # Null => \A d \in 1..WeekLen :
    /\ assertWindows(pushed.hours[d])
    /\ hasAnyAllowedWindow(pushed.hours) /\ ~pushRefused(pushed) =>
      ticksAllowed(acct, d) = {t \in 0..(DayLen - 1) : isAccessAllowedAt(t, pushed.hours[d])}

\* "A partly-covered one becomes `H[mm-mm]` for the sub-hour interval", and only
\* an hour with two intervals is refused (allowed-hours.ts): a grid with one
\* interval per clock hour is in force once it is pushed.
OneIntervalPerHourPushed ==
  pushed # Null /\ hasAnyAllowedWindow(pushed.hours)
  /\ (\A d \in 1..WeekLen : representable(pushed.hours[d])) =>
    \A d \in 1..WeekLen :
      ticksAllowed(acct, d) = {t \in 0..(DayLen - 1) : isAccessAllowedAt(t, pushed.hours[d])}

\* The daily limit a push sets for a weekday: the sum of the rows that name the
\* day, else of the every-day rows, of the user's own budgets, and of the group's
\* only where the user has none in the slot at all.
PushedLimitsAreOwnElseGroup ==
  pushed # Null /\ pushed = ResolvedFor(own, budgets) =>
    \A d \in 1..WeekLen :
      LET daily(bs) == {i \in DOMAIN bs : bs[i].scope = "overall" /\ bs[i].window = "daily"}
          src == IF daily(budgets) # {} THEN budgets ELSE groupBudgets
          named == {i \in daily(src) : src[i].days # Null /\ d \in src[i].days}
          used == IF named # {} THEN named ELSE {i \in daily(src) : src[i].days = Null}
      IN  daily(src) # {} /\ (\E e \in 1..WeekLen : overallDailySecondsForWeekday(src, e) # Null) =>
            acct.day[d] = IF used = {} THEN FullDay
                          ELSE SumSeconds(SetToSeq({[seconds |-> src[i].seconds, i |-> i] : i \in used}))

\* The two together: a push leaves the account with exactly what was resolved.
PushExact == PushedGridInForce /\ PushedLimitsAreOwnElseGroup

\* A grant adds to a quota and never opens one: with no daily budget for a target
\* the day stays without a limit, whatever is granted, and a lapsed or future
\* grant changes nothing.
GrantsOnlyAdd ==
  \A q \in {<<"overall", Null>>, <<"activity", "game">>} :
    LET bs == gatherUserBudgets(budgets)
        with == effectiveQuota(bs, grants, Today, tz, q)
        without == effectiveQuota(bs, << >>, Today, tz, q)
        b == localDayBounds(Today, tz)
        limited == \E i \in DOMAIN bs :
          /\ bs[i].window = "daily" /\ <<bs[i].scope, bs[i].target>> = q
          /\ bs[i].days = Null \/ isoWeekday(Today) \in bs[i].days
    IN  /\ with # Null <=> limited
        /\ limited => with >= without
        /\ with # without => \E i \in DOMAIN grants : grants[i].at < b.end /\ grants[i].expires > b.start

\* What each weekday's limit, the weekly and monthly limits and each weekday's
\* usable ticks were before and after a push, as preview rows.
Changed(before, after) ==
  {<<"day", d>> : d \in {k \in 1..WeekLen : before.day # after.day
      /\ (before.day = Null \/ before.day[k] # after.day[k])}}
  \cup {<<f, 0>> : f \in {g \in {"week", "month"} : before[g] # after[g]}}
  \cup {<<"hours", d>> : d \in {k \in 1..WeekLen : ticksAllowed(before, k) # ticksAllowed(after, k)}}

\* A push of an edit changes on the client only what the edit's preview listed,
\* when the account was in step before: no limit and no hours it holds were left
\* over from a push that could not clear or set them.
InStep(a, p) ==
  /\ \A f \in {"day", "week", "month"} : a[f] = p[f]
  /\ hasAnyAllowedWindow(p.hours) /\ ~pushRefused(p)
PreviewListsChanges ==
  [][pushed' # pushed /\ pushed # Null /\ edits > 0 /\ change = Null
     /\ InStep(acct, pushed) /\ acct = applyResolvedPush(acct, pushed)
     /\ preview = diffResolvedPush(pushed, pushed') =>
       \A c \in Changed(acct, acct') : c \in preview \/ <<c[1], 0>> \in preview]_vars

\* "this shows exactly what the push would change" (preview-routes.ts): and it
\* lists nothing the push does not change.
PreviewExact ==
  [][pushed' # pushed /\ pushed # Null /\ ~pushRefused(pushed')
     /\ InStep(acct, pushed) /\ acct = applyResolvedPush(acct, pushed)
     /\ preview = diffResolvedPush(pushed, pushed') =>
       \A c \in preview : \E x \in Changed(acct, acct') : x[1] = c[1] /\ c[2] \in {0, x[2]}]_vars

Kinds == {"daily", "weekly", "monthly"}
Open(kind) == effectiveWindow(kind, now, tz, change)

\* Local midnight of a day whose first hour the zone skips, in a zone behind UTC:
\* the second pass takes the offset after the change.
SkippedMidnight(z) ==
  z.before < z.after /\ z.before < 0 /\ \E day \in -1..(Horizon + 1) :
     day * DayLen \in (z.at + z.before)..(z.at + z.after - 1)
\* Local midnight that comes twice in a zone ahead of UTC: the later one is taken.
RepeatedMidnight(z) ==
  z.before > z.after /\ z.before > 0 /\ \E day \in -1..(Horizon + 1) :
     day * DayLen \in (z.at + z.after)..(z.at + z.before - 1)
MidnightsRegular(z) == ~SkippedMidnight(z) /\ ~RepeatedMidnight(z)

\* "The budget window of kind `window` that contains `instant`": the window in
\* force now contains now, across offset changes and the pinning of a zone
\* change, in every zone whose local midnights are regular.
WindowContainsNow ==
  MidnightsRegular(tz) /\ (change # Null => MidnightsRegular(change.previousTz)) =>
    \A k \in Kinds : Open(k).start <= now /\ now < Open(k).end

\* The two together: the quota in force is that of the window that contains now.
QuotaSound == GrantsOnlyAdd /\ WindowContainsNow

\* "adjacent windows tile the timeline with no gap or overlap": as the clock
\* advances the open window stays what it is or gives way, at its end, to one
\* that starts there, and a change of the user's zone never moves the open one,
\* over the seam it leaves included.
WindowsTile ==
  [][MidnightsRegular(tz) /\ (change = Null \/ change' = change) => \A k \in Kinds :
       \/ Open(k)' = Open(k)
       \/ now' # now /\ Open(k)'.start = Open(k).end]_vars
=============================================================================

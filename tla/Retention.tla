------------------------------ MODULE Retention ------------------------------
(***************************************************************************)
(* Data retention: the overrides an administrator sets per category        *)
(* (api/retention/routes.ts), the rule (policy/retention.ts), the purge    *)
(* (policy/purge.ts, retention/service.ts, retention/scheduler.ts), and    *)
(* the usage roll-ups that read what the purge leaves (policy/usage.ts).   *)
(*                                                                         *)
(* Time is counted in half seconds, so that an instant can fall between    *)
(* two of the whole seconds the timestamp columns hold; Day is a day.      *)
(***************************************************************************)
EXTENDS Integers, FiniteSets, FiniteSetsExt, Sequences

CONSTANTS Null, Forever,
          Day,          \* half seconds in a day (scaled down)
          DefaultDays,  \* settings.retention.defaultDays
          DayChoices,   \* day counts an administrator may set
          Activities, Group,   \* activities, and those in the one activity group
          BatchSize,    \* settings.retention.purgeBatchSize
          Tables,       \* the tables in play
          MaxNow, MaxRows, MaxRuns, MaxEdits   \* bounds

VARIABLES now,
          rows,        \* [id, table, from, to]: `to` is the column the age is keyed on
          nextId,
          overrides,   \* retention_overrides: category -> days, Forever or Null (no row)
          edits,       \* changes of the overrides so far
          runs,        \* retention_purge_runs
          purged       \* history: [row, at, days]: what was deleted, when and under which rule

vars == <<now, rows, nextId, overrides, edits, runs, purged>>

\* The stored value of an instant: whole seconds.
Stored(t) == t \div 2
CategoryOf(table) ==
  CASE table = "usage_samples" -> "usage_samples" [] table = "grants" -> "grant_ledger"
    [] table = "audit_log" -> "audit_log" [] OTHER -> "date_overrides"
Categories == {CategoryOf(t) : t \in Tables}

(* ---- policy/retention.ts ---- *)

overrideToResolved(o) == IF o = Forever THEN Forever ELSE o
resolveRetention(c) == IF overrides[c] = Null THEN DefaultDays ELSE overrideToResolved(overrides[c])
\* The rule for one record, of an instant `t`.
isExpired(t, retention, at) == retention # Forever /\ at - t > retention * Day
retentionCutoff(retention, at) == IF retention = Forever THEN Null ELSE at - retention * Day
cutoffFor(c, at) == retentionCutoff(resolveRetention(c), at)

(* ---- policy/purge.ts ---- *)

\* What the DELETE of one table selects: `lt` of whole seconds, and no row
\* whose column is null.
Selected(table) ==
  LET cutoff == cutoffFor(CategoryOf(table), now) IN
  {r \in rows : r.table = table /\ r.to # Null /\ cutoff # Null /\ r.to < Stored(cutoff)}
\* Mutant: keyed on the start of the sample.
purgeUsageSamplesByStart ==
  LET cutoff == cutoffFor("usage_samples", now) IN
  {r \in rows : r.table = "usage_samples" /\ cutoff # Null /\ r.from < Stored(cutoff)}
purgeUsageSamples == Selected("usage_samples")
purgeGrants == Selected("grants")
purgeAuditLog == Selected("audit_log")
purgeDateOverrides ==
  Selected("exceptions") \cup Selected("group_exceptions") \cup Selected("schedules") \cup Selected("group_schedules")
purgeExpiredRecords == <<purgeUsageSamples, purgeGrants, purgeAuditLog, purgeDateOverrides>>

\* The counts of the dry run.
countExpired(table) == Cardinality(Selected(table))
countDateOverrides ==
  countExpired("exceptions") + countExpired("group_exceptions") + countExpired("schedules") + countExpired("group_schedules")
countExpiredRecords ==
  <<countExpired("usage_samples"), countExpired("grants"), countExpired("audit_log"), countDateOverrides>>
previewRetentionPurge ==
  countExpiredRecords[1] + countExpiredRecords[2] + countExpiredRecords[3] + countExpiredRecords[4]

Delete(gone) ==
  /\ rows' = rows \ gone
  /\ purged' = purged \cup {[row |-> r, at |-> now, days |-> resolveRetention(CategoryOf(r.table))] : r \in gone}

\* A scheduled tick or POST /retention/purge: one turn of the event loop, the
\* batches of every category and then the run's row.
runRetentionPurge(trigger) ==
  LET gone == UNION {purgeExpiredRecords[k] : k \in 1..4} IN
  /\ Len(runs) < MaxRuns
  /\ Delete(gone)
  /\ runs' = Append(runs, [trigger |-> trigger, deleted |-> Cardinality(gone)])
  /\ UNCHANGED <<now, nextId, overrides, edits>>

\* The tables in the order they are purged; the last four are one category.
purgeOrder ==
  <<"usage_samples", "grants", "audit_log", "exceptions", "group_exceptions", "schedules", "group_schedules">>
\* Each batch is a transaction of its own, and a table's last may be short: a
\* crash keeps the tables done, and whole batches or all of the one under way,
\* and leaves no row for the run.
purgeInBatches(k) ==
  /\ \E part \in SUBSET Selected(purgeOrder[k]) :
       /\ part # {} /\ (Cardinality(part) % BatchSize = 0 \/ part = Selected(purgeOrder[k]))
       /\ Delete(part \cup UNION {Selected(purgeOrder[j]) : j \in 1..(k - 1)})
  /\ UNCHANGED <<now, nextId, overrides, edits, runs>>

(* ---- api/retention/routes.ts ---- *)

PutOverride(c) ==
  /\ edits < MaxEdits /\ edits' = edits + 1
  /\ \E d \in DayChoices \cup {Forever} : d # overrides[c] /\ overrides' = [overrides EXCEPT ![c] = d]
  /\ UNCHANGED <<now, rows, nextId, runs, purged>>
DeleteOverride(c) ==
  /\ edits < MaxEdits /\ edits' = edits + 1
  /\ overrides[c] # Null
  /\ overrides' = [overrides EXCEPT ![c] = Null]
  /\ UNCHANGED <<now, rows, nextId, runs, purged>>

(* ---- policy/usage.ts ---- *)

Samples == {r \in rows : r.table = "usage_samples"}
Later(a, b) == IF a > b THEN a ELSE b
Sooner(a, b) == IF a < b THEN a ELSE b
overlapSeconds(r, from, to) == Later(0, Sooner(r.to, to) - Later(r.from, from))
SecondsOf(S, from, to) == FoldSet(LAMBDA r, n : n + overlapSeconds(r, from, to), 0, S)
samplesOverlapping(S, from, to) == {r \in S : r.from < to /\ r.to > from}
activitySecondsInWindow(S, a, from, to) == SecondsOf(samplesOverlapping({r \in S : r.activity = a}, from, to), from, to)
usageByActivityInWindow(S, from, to) == [a \in Activities |-> activitySecondsInWindow(S, a, from, to)]
groupSecondsInWindow(S, from, to) == SecondsOf(samplesOverlapping({r \in S : r.activity \in Group}, from, to), from, to)

(* ---- the rest of the program writes rows, and time passes ---- *)

insertUsageSamples ==
  /\ "usage_samples" \in Tables /\ nextId <= MaxRows
  /\ \E s \in 0..(Stored(now) - 1), a \in Activities :
       rows' = rows \cup {[id |-> nextId, table |-> "usage_samples", from |-> s, to |-> Stored(now), activity |-> a]}
  /\ nextId' = nextId + 1
  /\ UNCHANGED <<now, overrides, edits, runs, purged>>
Insert(table) ==
  /\ table # "usage_samples" /\ nextId <= MaxRows
  /\ \E to \in {Stored(now), Stored(now + Day)} \cup (IF table \in {"schedules", "group_schedules"} THEN {Null} ELSE {}) :
       rows' = rows \cup {[id |-> nextId, table |-> table, from |-> Stored(now), to |-> to, activity |-> Null]}
  /\ nextId' = nextId + 1
  /\ UNCHANGED <<now, overrides, edits, runs, purged>>
Tick == now < MaxNow /\ now' = now + 1 /\ UNCHANGED <<rows, nextId, overrides, edits, runs, purged>>

Init ==
  /\ now = 0 /\ rows = {} /\ nextId = 1
  /\ overrides = [c \in Categories |-> Null]
  /\ edits = 0 /\ runs = <<>> /\ purged = {}

Next ==
  \/ \E t \in {"scheduled", "manual"} : runRetentionPurge(t)
  \/ \E k \in 1..Len(purgeOrder) : purgeInBatches(k)
  \/ \E c \in Categories : PutOverride(c) \/ DeleteOverride(c)
  \/ insertUsageSamples \/ (\E t \in Tables : Insert(t)) \/ Tick
Spec == Init /\ [][Next]_vars

-----------------------------------------------------------------------------
\* Whatever order edits, runs and interrupted runs come in, a row is deleted
\* only when the per-record rule of policy/retention.ts calls it expired, and a
\* row the rule calls expired outlives a run by less than a stored second.
OnlyExpired == \A p \in purged : isExpired(2 * p.row.to, p.days, p.at)
NothingOpenEnded == \A p \in purged : p.row.to # Null
NothingLeft ==
  LET gone == UNION {purgeExpiredRecords[k] : k \in 1..4} IN
  \A r \in rows \ gone : r.to # Null => ~isExpired(2 * r.to + 1, resolveRetention(CategoryOf(r.table)), now)
\* The dry run counts what a run would delete now.
PreviewAgrees == previewRetentionPurge = Cardinality(UNION {purgeExpiredRecords[k] : k \in 1..4})
\* What a budget's window counts is untouched by every deletion, provided the
\* samples are kept at least as long as the window: roll-ups over the rows
\* left agree with roll-ups over all rows ever written.
UsageKept ==
  LET all == Samples \cup {p.row : p \in {q \in purged : q.row.table = "usage_samples"}} IN
  \A w \in DayChoices :
    LET from == Stored((now \div (w * Day)) * (w * Day))
        to == Stored((now \div (w * Day) + 1) * (w * Day)) IN
    (\A p \in purged : p.days = Forever \/ p.days >= w) =>
      /\ usageByActivityInWindow(Samples, from, to) = usageByActivityInWindow(all, from, to)
      /\ groupSecondsInWindow(Samples, from, to) = groupSecondsInWindow(all, from, to)
RetentionSound == OnlyExpired /\ NothingOpenEnded /\ NothingLeft /\ PreviewAgrees /\ UsageKept
=============================================================================

----------------------------- MODULE AuditTrail -----------------------------
(***************************************************************************)
(* The transport audit: every command the dashboard issues to a client is  *)
(* wrapped by AuditingTransport, recorded by the sink once it has settled, *)
(* paged out by GET /api/audit and listed by the audit view of the admin   *)
(* console, whose filters are live inputs and whose pages are appended.    *)
(***************************************************************************)
EXTENDS Integers, Sequences, FiniteSets, SequencesExt

CONSTANTS
  Clients,      \* clients a command can be aimed at
  Argvs,        \* command vectors: sequences of "flag", "flag=secret", "secret", "plain"
  Calls,        \* the methods used: "exec", "execChecked", "execAndParse"
  Limit,        \* page size of GET /api/audit
  Null,
  MaxCommands,  \* bound on the commands issued
  MaxActs       \* bound on the admin's clicks

Methods == {"exec", "execChecked", "execAndParse"}
Answers == {"code 0", "code 1", "command", "unreachable", "timeout", "parse_error"}
ConstantsOK ==
  /\ Calls \subseteq Methods /\ MaxCommands \in Nat
  /\ Argvs \subseteq Seq({"flag", "flag=secret", "secret", "plain"})
  /\ Null \notin [result : Answers, threw : BOOLEAN]

VARIABLES
  running,   \* commands issued and not settled
  issued,    \* number of commands so far
  log,       \* audit_log, oldest first: [id, client, command, outcome, of]
  dropped,   \* commands whose row the store failed to take (logged, not thrown)
  settled,   \* command -> what its caller saw
  input,     \* the filter inputs of the view
  entries,   \* the rows listed, newest first
  cursor,    \* nextCursor
  busy,      \* loading, loadingMore
  asked,     \* requests under way
  asof,      \* the filter and newest row of the list (history)
  mixed,     \* pages of two lists have met (history)
  acts

vars == <<running, issued, log, dropped, settled, input, entries, cursor, busy, asked, asof, mixed, acts>>
viewVars == <<input, entries, cursor, busy, asked, asof, mixed, acts>>
trailVars == <<running, issued, log, dropped, settled>>

Outcomes == {"ok", "failed", "unreachable", "timeout", "parse_error"}
Filters == Clients \cup {Null}

-----------------------------------------------------------------------------
\* What is written.

\* redactArgv: the value of a sensitive flag is masked, whether it is its own
\* argument or follows an equals sign; the argument after a masked one stands.
MasksAt(argv) ==
  LET f[i \in 0..Len(argv)] ==   \* f[i]: argument i was consumed as a value
        IF i = 0 THEN FALSE ELSE i > 1 /\ ~f[i - 1] /\ argv[i - 1] = "flag"
  IN  {i \in 1..Len(argv) : f[i]}
redactArgv(argv) ==
  [i \in DOMAIN argv |->
     IF i \in MasksAt(argv) THEN "[redacted]"
     ELSE IF argv[i] = "flag=secret" THEN "flag=[redacted]" ELSE argv[i]]

\* exec resolves on any exit status and is classed by its code; execChecked and
\* execAndParse throw what fromError classes; an error of another class, and a
\* non-zero exit, are both a failure.
fromError(err) == CASE err \in {"unreachable", "timeout", "parse_error"} -> err [] OTHER -> "failed"
Results(how) ==
  CASE how = "exec" -> {"code 0", "code 1", "unreachable", "timeout"}
    [] how = "execChecked" -> {"code 0", "command", "unreachable", "timeout"}
    [] how = "execAndParse" -> {"code 0", "command", "unreachable", "timeout", "parse_error"}
outcomeOf(how, result) ==
  IF result = "code 0" THEN "ok" ELSE IF how = "exec" /\ result = "code 1" THEN "failed" ELSE fromError(result)
Throws(how, result) == result # "code 0" /\ ~(how = "exec" /\ result = "code 1")

Issue(client, argv, how) ==
  /\ issued < MaxCommands
  /\ issued' = issued + 1
  /\ running' = running \cup {[n |-> issued + 1, client |-> client, argv |-> argv, how |-> how]}
  /\ UNCHANGED <<log, dropped, settled, viewVars>>

\* A plausible bug: the sink throws what the store refused into #run, whose catch
\* records the command again, as failed.
RecordedAgain(c, outcome) ==
  \E refused \in BOOLEAN :
    /\ log' = Append(log, [id |-> Len(log) + 1, client |-> c.client, command |-> redactArgv(c.argv),
                           outcome |-> IF refused THEN "failed" ELSE outcome, of |-> c.n])
    /\ dropped' = IF refused THEN dropped \cup {c.n} ELSE dropped

\* #emit and the sink: one row, or none when the insert fails, which the sink
\* swallows.
Recorded(c, outcome) ==
  \/ /\ log' = Append(log, [id |-> Len(log) + 1, client |-> c.client,
                            command |-> redactArgv(c.argv), outcome |-> outcome, of |-> c.n])
     /\ UNCHANGED dropped
  \/ dropped' = dropped \cup {c.n} /\ UNCHANGED log

\* #run: the command settles, is recorded, and its caller gets the value or the
\* error it would have got without the audit.
Settle(c, result) ==
  /\ running' = running \ {c}
  /\ Recorded(c, outcomeOf(c.how, result))
  /\ settled' = [settled EXCEPT ![c.n] = [result |-> result, threw |-> Throws(c.how, result)]]
  /\ UNCHANGED <<issued, viewVars>>

-----------------------------------------------------------------------------
\* What is read.

\* A plausible bug: the cursor's own row is listed again.
listAuditEntriesFrom(filter, before) ==
  LET fits(e) == (filter = Null \/ e.client = filter) /\ (before = Null \/ e.id <= before)
      all == Reverse(SelectSeq(log, fits))
  IN  SubSeq(all, 1, IF Len(all) < Limit THEN Len(all) ELSE Limit)

\* listAuditEntries: newest first, the filter, strictly older than the cursor.
listAuditEntries(filter, before) ==
  LET fits(e) == (filter = Null \/ e.client = filter) /\ (before = Null \/ e.id < before)
      all == Reverse(SelectSeq(log, fits))
  IN  SubSeq(all, 1, IF Len(all) < Limit THEN Len(all) ELSE Limit)

\* GET /audit: a full page may have more behind it.
nextCursor(page) == IF Len(page) = Limit THEN page[Len(page)].id ELSE Null

Click == acts < MaxActs /\ acts' = acts + 1

\* The filter inputs are bound, so they change without being applied.
EditFilter(f) ==
  /\ Click /\ input # f
  /\ input' = f
  /\ UNCHANGED <<entries, cursor, busy, asked, asof, mixed, trailVars>>

\* applyFilters, load: the button is disabled while a load is under way.
Load ==
  /\ Click /\ "loading" \notin busy
  /\ busy' = busy \cup {"loading"}
  /\ asked' = asked \cup {[kind |-> "load", filter |-> input, before |-> Null]}
  /\ mixed' = (mixed \/ asked # {})
  /\ UNCHANGED <<input, entries, cursor, asof, trailVars>>

\* loadMore: the filter is read from the inputs, the cursor from the last page.
LoadMore ==
  /\ Click /\ busy = {} /\ Len(entries) > 0 /\ cursor # Null
  /\ busy' = busy \cup {"loadingMore"}
  /\ asked' = asked \cup {[kind |-> "more", filter |-> input, before |-> cursor]}
  /\ mixed' = (mixed \/ input # asof.filter)
  /\ UNCHANGED <<input, entries, cursor, asof, trailVars>>

Answer(r) ==
  LET page == listAuditEntries(r.filter, r.before)
      flag == IF r.kind = "load" THEN "loading" ELSE "loadingMore"
  IN  /\ asked' = asked \ {r} /\ busy' = busy \ {flag}
      /\ entries' = IF r.kind = "load" THEN page ELSE entries \o page
      /\ cursor' = nextCursor(page)
      /\ asof' = IF r.kind = "load" THEN [filter |-> r.filter, newest |-> Len(log)] ELSE asof
      /\ mixed' = (mixed /\ ~(r.kind = "load" /\ asked = {r}))
      /\ UNCHANGED <<input, acts, trailVars>>

\* The request fails: an error is shown, the list stays.
AnswerFails(r) ==
  /\ asked' = asked \ {r}
  /\ busy' = busy \ {IF r.kind = "load" THEN "loading" ELSE "loadingMore"}
  /\ UNCHANGED <<input, entries, cursor, asof, mixed, acts, trailVars>>

Init ==
  /\ running = {} /\ issued = 0 /\ log = <<>> /\ dropped = {}
  /\ settled = [n \in 1..MaxCommands |-> Null]
  /\ input = Null /\ entries = <<>> /\ cursor = Null
  /\ busy = {"loading"} /\ asked = {[kind |-> "load", filter |-> Null, before |-> Null]}
  /\ asof = [filter |-> Null, newest |-> 0] /\ mixed = FALSE /\ acts = 0

Next ==
  \/ \E c \in Clients, argv \in Argvs, how \in Calls : Issue(c, argv, how)
  \/ \E c \in running : \E result \in Results(c.how) : Settle(c, result)
  \/ \E f \in Filters : EditFilter(f)
  \/ Load \/ LoadMore
  \/ \E r \in asked : Answer(r) \/ AnswerFails(r)

Spec == Init /\ [][Next]_vars

-----------------------------------------------------------------------------

\* Every command that settled left exactly one row, with the outcome its
\* caller met, unless the store refused the row; none that is still running
\* did.  (The sink never throws: otherwise a command that succeeded would be
\* recorded again as failed.)
OneRowPerCommand ==
  \A n \in 1..issued :
    LET rows == {i \in DOMAIN log : log[i].of = n} IN
    /\ (\E c \in running : c.n = n) <=> settled[n] = Null
    /\ settled[n] = Null => rows = {}
    /\ settled[n] # Null =>
         /\ Cardinality(rows) = IF n \in dropped THEN 0 ELSE 1
         /\ \A i \in rows : (log[i].outcome = "ok") <=> (settled[n].result = "code 0")

\* No value given to a sensitive flag reaches the log in either spelling.
SecretsMasked ==
  \A i \in DOMAIN log : \A k \in DOMAIN log[i].command :
    /\ log[i].command[k] # "flag=secret"
    /\ log[i].command[k] = "secret" =>
         k = 1 \/ log[i].command[k - 1] # "flag"

\* The pages of the view tile: what is listed is every row that matches the
\* filter between the newest row of its first page and its oldest row, each
\* once and newest first, even while rows are being added; and when there is
\* no older page the list is complete.  This needs the inputs to be those the
\* list was loaded with when the next page is asked for, and no load crossing
\* a page.
PagesTile ==
  LET inList(e) == (asof.filter = Null \/ e.client = asof.filter) /\ e.id <= asof.newest
      older(e) == cursor = Null \/ e.id >= cursor
  IN  ~mixed /\ "loading" \notin busy => entries = Reverse(SelectSeq(log, LAMBDA e : inList(e) /\ older(e)))

\* What the log says of the commands; what the view says of the log is PagesTile.
AuditSound == OneRowPerCommand /\ SecretsMasked

=============================================================================

---------------------------- MODULE PreviewPane ----------------------------
(***************************************************************************)
(* The save-and-push preview of the admin console: a what-if sandbox over  *)
(* the selected user's saved policy, a debounced preview request per edit, *)
(* an explicit reachability probe, and a push of the saved policy.  A      *)
(* sequence number drops the answers of superseded previews.               *)
(***************************************************************************)
EXTENDS Integers, FiniteSets

CONSTANTS
  Users,
  Saved,        \* user -> seconds its saved overall budget allows
  Minute,       \* seconds in a minute
  Typed,        \* what the minutes box can hold: numbers, or Null for blank
  Null,
  MaxActs       \* bound on the admin's clicks

ConstantsOK == Null \notin Users /\ Saved \in [Users -> Nat] /\ Minute \in Nat \ {0} /\ Null \notin Nat

VARIABLES
  sel,       \* selectedUserId
  sandbox,   \* [of, minutes, out]: whose rules, the minutes box, what is excluded
  loading,   \* loadingPolicy, with the user asked for
  timer,     \* debounceTimer is armed
  seq,       \* previewSeq
  preview,   \* the result shown: [user, of, seconds, rules]
  spin,      \* previewing, probing
  asked,     \* previews under way
  push,      \* pushing: the user pushed for, or Null
  pushed,    \* pushResult: whose
  broken,    \* the last load of a policy failed (history)
  acts

vars == <<sel, sandbox, loading, timer, seq, preview, spin, asked, push, pushed, broken, acts>>

Click == acts < MaxActs /\ acts' = acts + 1

\* Math.round(secondsAllowed / 60): the minutes box of a loaded budget.
seeded(seconds) == (2 * seconds + Minute) \div (2 * Minute)

\* minutesToSeconds and proposedBudgets: a blank box falls back to what is saved.
proposedBudgets(s) ==
  IF "budget" \in s.out THEN Null
  ELSE IF s.minutes = Null THEN Saved[s.of] ELSE s.minutes * Minute
proposedSchedules(s) == "schedule" \notin s.out
Proposal == [user |-> sel, of |-> sandbox.of, seconds |-> proposedBudgets(sandbox),
             rules |-> proposedSchedules(sandbox)]

\* The editor is on the page: a user is selected and its policy is not loading.
Editor == sel # Null /\ loading = Null /\ sandbox # Null

Init ==
  /\ sel = Null /\ sandbox = Null /\ loading = Null /\ timer = FALSE /\ seq = 0
  /\ preview = Null /\ spin = {} /\ asked = {} /\ push = Null /\ pushed = Null
  /\ broken = FALSE /\ acts = 0

\* onSelectUser: the select is disabled while a policy loads; the results shown
\* are dropped, the timer and the requests under way are not.
onSelectUser(u) ==
  /\ Click /\ loading = Null /\ u # sel
  /\ sel' = u /\ loading' = u
  /\ preview' = Null /\ pushed' = Null
  /\ UNCHANGED <<sandbox, timer, seq, spin, asked, push, broken>>

PolicyLoaded ==
  /\ loading # Null
  /\ sandbox' = [of |-> loading, minutes |-> seeded(Saved[loading]), out |-> {}]
  /\ loading' = Null /\ timer' = TRUE /\ broken' = FALSE
  /\ UNCHANGED <<sel, seq, preview, spin, asked, push, pushed, acts>>

PolicyLoadFails ==
  /\ loading # Null
  /\ loading' = Null /\ broken' = TRUE
  /\ UNCHANGED <<sel, sandbox, timer, seq, preview, spin, asked, push, pushed, acts>>

\* onMinutesChange, toggleBudget, toggleSchedule: the sandbox changes and the
\* debounce starts over.
onMinutesChange(v) ==
  /\ Click /\ Editor /\ "budget" \notin sandbox.out /\ sandbox.minutes # v
  /\ sandbox' = [sandbox EXCEPT !.minutes = v] /\ timer' = TRUE
  /\ UNCHANGED <<sel, loading, seq, preview, spin, asked, push, pushed, broken>>

toggle(what) ==
  /\ Click /\ Editor
  /\ sandbox' = [sandbox EXCEPT !.out = IF what \in @ THEN @ \ {what} ELSE @ \cup {what}]
  /\ timer' = TRUE
  /\ UNCHANGED <<sel, loading, seq, preview, spin, asked, push, pushed, broken>>

\* runPreview: the proposal is read when it is sent.
runPreview(probe) ==
  /\ seq' = seq + 1
  /\ spin' = spin \cup {"previewing"} \cup (IF probe THEN {"probing"} ELSE {})
  /\ asked' = asked \cup {[n |-> seq + 1, body |-> Proposal]}

\* The debounce fires; before the first policy has loaded the proposal is empty.
DebounceFires ==
  /\ timer /\ sel # Null /\ sandbox # Null
  /\ timer' = FALSE
  /\ runPreview(FALSE)
  /\ UNCHANGED <<sel, sandbox, loading, preview, push, pushed, broken, acts>>

\* The probe button is part of a shown preview.
checkLiveStatus ==
  /\ Click /\ Editor /\ preview # Null /\ "probing" \notin spin
  /\ runPreview(TRUE)
  /\ UNCHANGED <<sel, sandbox, loading, timer, preview, push, pushed, broken>>

\* A plausible bug: an answer is shown without the sequence check.
ShownAlways(r, shown) ==
  /\ preview' = shown
  /\ spin' = {}

\* What an answer does: shown when it is the newest request's; the probe
\* spinner is cleared in any case.
Shown(r, shown) ==
  /\ preview' = IF r.n = seq THEN shown ELSE preview
  /\ spin' = IF r.n = seq THEN {} ELSE spin \ {"probing"}

PreviewAnswered(r, ok) ==
  /\ asked' = asked \ {r}
  /\ Shown(r, IF ok THEN r.body ELSE Null)
  /\ UNCHANGED <<sel, sandbox, loading, timer, seq, push, pushed, broken, acts>>

\* runPush: the button is part of a shown preview.
runPush ==
  /\ Click /\ Editor /\ preview # Null /\ push = Null
  /\ push' = sel /\ pushed' = Null
  /\ UNCHANGED <<sel, sandbox, loading, timer, seq, preview, spin, asked, broken>>

PushAnswered(ok) ==
  /\ push # Null
  /\ pushed' = IF ok THEN push ELSE pushed
  /\ push' = Null
  /\ UNCHANGED <<sel, sandbox, loading, timer, seq, preview, spin, asked, broken, acts>>

Next ==
  \/ \E u \in Users : onSelectUser(u)
  \/ PolicyLoaded \/ PolicyLoadFails
  \/ \E v \in Typed : onMinutesChange(v)
  \/ \E what \in {"budget", "schedule"} : toggle(what)
  \/ DebounceFires \/ checkLiveStatus
  \/ \E r \in asked, ok \in BOOLEAN : PreviewAnswered(r, ok)
  \/ runPush \/ \E ok \in BOOLEAN : PushAnswered(ok)

Spec == Init /\ [][Next]_vars

-----------------------------------------------------------------------------

AtRest == loading = Null /\ ~timer /\ asked = {}

\* At rest the diff on the page is that of the selected user and of the sandbox
\* as it stands, whatever answers came late, twice or out of order, and no
\* spinner is left behind.  The one exception is a policy that failed to load:
\* the sandbox and the preview are then still the previous user's.
PreviewIsOfTheSandbox ==
  AtRest =>
    /\ spin = {}
    /\ (preview # Null /\ ~broken) => (preview = Proposal /\ preview.of = sel)

\* Selecting a user proposes no change by itself: a budget saved in whole
\* minutes survives the trip through the minutes box.
SelectingProposesNothing ==
  /\ Editor /\ ~broken /\ Saved[sel] % Minute = 0 /\ sandbox.out = {}
  /\ sandbox.minutes \in {Null, seeded(Saved[sel])}
  => proposedBudgets(sandbox) = Saved[sel]

PreviewSound == PreviewIsOfTheSandbox /\ SelectingProposesNothing

=============================================================================

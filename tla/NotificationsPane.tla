-------------------------- MODULE NotificationsPane --------------------------
(***************************************************************************)
(* The notification settings of the admin console: one policy per user,    *)
(* its basic part saved by a form, its per-budget warning cadence by an    *)
(* editor of rows, both as partial updates of the same stored row.         *)
(***************************************************************************)
EXTENDS Integers, Sequences, FiniteSets, SequencesExt

CONSTANTS
  Users,
  Basics,       \* what the form can hold; those in Valid pass the grace bound
  Valid,
  Keys,         \* the cadence keys the picker offers besides "overall"
  Raws,         \* warn-at lists as typed: sequences of numbers
  MinuteMax,    \* WARNING_MINUTE_MAX
  KeysMax,      \* CADENCE_OVERRIDE_KEYS_MAX
  Null,
  MaxActs       \* bound on the admin's clicks and edits

VARIABLES
  srv,      \* user -> the stored policy [basic, cadence]
  sel,      \* selectedUserId
  policy,   \* the policy shown, with whose it is
  form,     \* formEnabled, formSoundProfile, formGraceSeconds
  rows,     \* cadenceRows
  flags,    \* loadingPolicy, saving, resetting, savingCadence, clearingCadence
  ops,      \* requests under way
  crossed,  \* a request was made while another was under way, or lost its answer (history)
  acts

vars == <<srv, sel, policy, form, rows, flags, ops, crossed, acts>>

Default == [basic |-> 0, cadence |-> Null]

\* parseMinutes: each entry in bounds, then deduplicated and descending.
parseMinutes(raw) ==
  IF \E m \in ToSet(raw) : m < 1 \/ m > MinuteMax THEN Null
  ELSE SetToSortSeq(ToSet(raw), >)

\* rowsFromOverrides: one row per stored key.
rowsFromOverrides(cadence) ==
  IF cadence = Null THEN <<>>
  ELSE LET ks == SetToSeq(DOMAIN cadence)
       IN [i \in DOMAIN ks |-> [key |-> ks[i], raw |-> cadence[ks[i]]]]

\* buildCadence: no row is the built-in cadence; a key used twice, a list out of
\* bounds or too many rows is an error, here the empty function.
Invalid == [k \in {} |-> <<>>]
buildCadence(rs) ==
  CASE rs = <<>> -> Null
    [] rs # <<>> /\ (\/ Len(rs) > KeysMax
                     \/ Cardinality({rs[i].key : i \in DOMAIN rs}) # Len(rs)
                     \/ \E i \in DOMAIN rs : parseMinutes(rs[i].raw) = Null) -> Invalid
    [] OTHER -> [k \in {rs[i].key : i \in DOMAIN rs} |->
                   parseMinutes(rs[CHOOSE i \in DOMAIN rs : rs[i].key = k].raw)]

dirty == form # policy.of.basic
cadenceDirty == buildCadence(rows) # Invalid /\ buildCadence(rows) # policy.of.cadence

\* The form is on the page: a user, no load under way, a policy loaded.
Editor == sel # Null /\ "loading" \notin flags /\ policy # Null

Click == acts < MaxActs /\ acts' = acts + 1

Init ==
  /\ srv = [u \in Users |-> Default]
  /\ sel = Null /\ policy = Null /\ form = 0 /\ rows = <<>>
  /\ flags = {} /\ ops = {} /\ crossed = FALSE /\ acts = 0

Busy(all, r) == {[o EXCEPT !.alone = FALSE] : o \in all}
                  \cup {[r EXCEPT !.alone = all = {}]}

Send(op, u, body, all) ==
  LET r == [op |-> op, user |-> u, body |-> body, n |-> acts, phase |-> "sent",
            val |-> Null, alone |-> TRUE]
  IN ops' = Busy(all, r) /\ crossed' = (crossed \/ all # {})

\* onSelectUser: the select is never disabled.
onSelectUser(u) ==
  /\ Click /\ sel # u
  /\ sel' = u /\ flags' = flags \cup {"loading"}
  /\ Send("load", u, Null, ops)
  /\ UNCHANGED <<srv, policy, form, rows>>

EditForm(v) ==
  /\ Click /\ Editor /\ form # v
  /\ form' = v
  /\ UNCHANGED <<srv, sel, policy, rows, flags, ops, crossed>>

addCadenceRow ==
  /\ Click /\ Editor /\ Len(rows) < KeysMax
  /\ rows' = Append(rows, [key |-> "overall", raw |-> <<>>])
  /\ UNCHANGED <<srv, sel, policy, form, flags, ops, crossed>>

removeCadenceRow(i) ==
  /\ Click /\ Editor
  /\ rows' = RemoveAt(rows, i)
  /\ UNCHANGED <<srv, sel, policy, form, flags, ops, crossed>>

EditRow(i, k, raw) ==
  /\ Click /\ Editor
  /\ rows' = [rows EXCEPT ![i] = [key |-> k, raw |-> raw]]
  /\ UNCHANGED <<srv, sel, policy, form, flags, ops, crossed>>

handleSave ==
  /\ Click /\ Editor /\ form \in Valid /\ dirty /\ flags \cap {"saving", "resetting"} = {}
  /\ flags' = flags \cup {"saving"}
  /\ Send("save", sel, form, ops)
  /\ UNCHANGED <<srv, sel, policy, form, rows>>

handleReset ==
  /\ Click /\ Editor /\ flags \cap {"saving", "resetting"} = {}
  /\ flags' = flags \cup {"resetting"}
  /\ Send("reset", sel, Null, ops)
  /\ UNCHANGED <<srv, sel, policy, form, rows>>

handleSaveCadence ==
  /\ Click /\ Editor /\ cadenceDirty /\ flags \cap {"savingCadence", "clearing"} = {}
  /\ flags' = flags \cup {"savingCadence"}
  /\ Send("savingCadence", sel, buildCadence(rows), ops)
  /\ UNCHANGED <<srv, sel, policy, form, rows>>

handleClearCadence ==
  /\ Click /\ Editor /\ policy.of.cadence # Null
  /\ flags \cap {"savingCadence", "clearing"} = {}
  /\ flags' = flags \cup {"clearing"}
  /\ Send("clearing", sel, Null, ops)
  /\ UNCHANGED <<srv, sel, policy, form, rows>>

\* The stored policy after a request: an update touches the part it carries.
stored(r) ==
  CASE r.op = "save" -> [srv[r.user] EXCEPT !.basic = r.body]
    [] r.op \in {"savingCadence", "clearing"} -> [srv[r.user] EXCEPT !.cadence = r.body]
    [] r.op = "reset" -> Default
    [] OTHER -> srv[r.user]

\* The server takes a request, refuses it, or takes it and the answer is lost.
Serve(r, how) ==
  /\ r.phase = "sent"
  /\ srv' = IF how = "refused" THEN srv ELSE [srv EXCEPT ![r.user] = stored(r)]
  /\ ops' = (ops \ {r}) \cup
       {[r EXCEPT !.phase = "back", !.val = IF how = "ok" THEN stored(r) ELSE Null]}
  /\ crossed' = (crossed \/ (how = "lost" /\ r.op # "load"))
  /\ UNCHANGED <<sel, policy, form, rows, flags, acts>>

\* loadPolicy is back: the form and the rows are filled; a failure shows no form.
PolicyLoaded(r) ==
  /\ r.op = "load" /\ r.phase = "back"
  /\ flags' = flags \ {"loading"} /\ ops' = ops \ {r}
  /\ crossed' = (crossed /\ ~(r.alone /\ r.val # Null))
  /\ IF r.val = Null THEN policy' = Null /\ UNCHANGED <<form, rows>>
     ELSE /\ policy' = [user |-> r.user, of |-> r.val]
          /\ form' = r.val.basic /\ rows' = rowsFromOverrides(r.val.cadence)
  /\ UNCHANGED <<srv, sel, acts>>

\* An update is back: the whole policy is replaced by the answer, the rows by
\* the answer of their own updates only.
Updated(r) ==
  /\ r.op \in {"save", "savingCadence", "clearing"} /\ r.phase = "back"
  /\ flags' = flags \ {IF r.op = "save" THEN "saving" ELSE r.op} /\ ops' = ops \ {r}
  /\ policy' = IF r.val = Null THEN policy ELSE [user |-> r.user, of |-> r.val]
  /\ rows' = CASE r.val # Null /\ r.op = "savingCadence" -> rowsFromOverrides(r.val.cadence)
               [] r.val # Null /\ r.op = "clearing" -> <<>>
               [] OTHER -> rows
  /\ UNCHANGED <<srv, sel, form, crossed, acts>>

\* handleReset's finally: whatever the answer, the policy of the user selected
\* by now is loaded.
Reset(r) ==
  /\ r.op = "reset" /\ r.phase = "back"
  /\ flags' = (flags \ {"resetting"}) \cup {"loading"}
  /\ Send("load", sel, Null, ops \ {r})
  /\ UNCHANGED <<srv, sel, policy, form, rows, acts>>

Next ==
  \/ \E u \in Users : onSelectUser(u)
  \/ \E v \in Basics : EditForm(v)
  \/ addCadenceRow
  \/ \E i \in DOMAIN rows : removeCadenceRow(i)
  \/ \E i \in DOMAIN rows, k \in Keys \cup {"overall"}, raw \in Raws : EditRow(i, k, raw)
  \/ handleSave \/ handleReset \/ handleSaveCadence \/ handleClearCadence
  \/ \E r \in ops, how \in {"ok", "refused", "lost"} : Serve(r, how)
  \/ \E r \in ops : PolicyLoaded(r) \/ Updated(r) \/ Reset(r)

Spec == Init /\ [][Next]_vars

-----------------------------------------------------------------------------

\* At rest, unless requests crossed or an answer was lost since the last load
\* that had the page to itself, the policy shown is the one stored for the user
\* selected: a save of one part never shows, or loses, an old other part.
PaneShowsStored ==
  ops = {} =>
    /\ flags = {}
    /\ (policy # Null /\ ~crossed) => (policy.user = sel /\ policy.of = srv[sel])

\* Filling the rows from a stored cadence and building the cadence again gives
\* the stored one: opening a user's settings never makes them look edited.
CadenceRoundTrip ==
  \A u \in Users : buildCadence(rowsFromOverrides(srv[u].cadence)) = srv[u].cadence

NotificationsSound == PaneShowsStored /\ CadenceRoundTrip

=============================================================================

------------------------------ MODULE ListView ------------------------------
(***************************************************************************)
(* A view of the admin console that lists rows of the server and edits     *)
(* them: the array it shows, the flags that disable its controls, the row  *)
(* open for editing and the requests it has awaiting an answer.  What the  *)
(* views differ in (which control is disabled by which flag, what a        *)
(* handler does with its answer) is a record of Views, one per .svelte     *)
(* file, translated in AdminViews.                                         *)
(*                                                                         *)
(* A handler runs up to its await when the admin clicks, and the rest of   *)
(* it when the answer comes.  Answers come in any order and may be lost.   *)
(***************************************************************************)
EXTENDS Integers, Sequences, FiniteSets, SequencesExt

CONSTANTS
  Views,      \* the views: a function from names to descriptors
  Owners,     \* the users or groups a scoped view can be pointed at
  Values,     \* what a row can be set to
  Null,
  MaxActs,    \* bound on the admin's submissions and selections
  MaxRows     \* bound on the rows ever created

VARIABLES
  view,       \* the view that is open
  srv,        \* the server's rows of every owner, in order
  mount,      \* the load of the catalogues a scoped view starts with
  sel,        \* selectedUserId, selectedGroupId or openGroupId
  shown,      \* the view's array of rows
  flags,      \* loading, creating, saving, ... : Null, or whom it is set for
  editing,    \* editingId
  pick,       \* the row the add form points at, where a handler reads it late
  inflight,   \* requests awaiting an answer
  sent,       \* number of the last request
  applied,    \* number of the last request whose answer replaced the array
  acts,       \* what the admin did so far
  stale       \* why the array may differ from the server's rows (history)

vars == <<view, srv, mount, sel, shown, flags, editing, pick, inflight, sent, applied, acts, stale>>

V == Views[view]
FlagNames == {"loading", "creating", "saving", "reordering", "clearing"}
Ids(rows) == {rows[i].id : i \in DOMAIN rows}
RowIds == 1..MaxRows
Used == UNION {Ids(srv[o]) : o \in Owners} \cup {r.id : r \in inflight}

\* The rows on the page: the list is not rendered while it loads.
Listed == IF flags["loading"] # Null THEN {} ELSE Ids(shown)

Mutations == {r \in inflight : r.op # "load"}
Kind(r) == IF r.op = "load" THEN "load" ELSE V.ops[r.op].kind
Done(r) == IF r.op = "load" THEN "replace" ELSE V.ops[r.op].done
NoBody == [val |-> Null, order |-> <<>>]
Request(op, owner, id, body) ==
  [n |-> sent + 1, op |-> op, owner |-> owner, id |-> id, val |-> body.val,
   order |-> body.order, holds |-> "none",
   alone |-> inflight = {}, stage |-> "sent", rows |-> <<>>]

\* Why a request sent now, with others under way, may leave the array behind:
\* an answer that patches the array or reorders it does not survive a list
\* read before it and answered after it.
Crossing(op, id, others) ==
  (IF LET crosses(r) == r.op # "load" /\ (V.patches \/ Kind(r) = "reorder")
      IN  IF op = "load" THEN \E r \in others : crosses(r)
          ELSE V.patches /\ \E r \in others : r.op = "load"
     THEN {"load crossed a change"} ELSE {})
  \cup (IF op # "load" /\ \E r \in {q \in others : q.op # "load"} :
               /\ r.id = id /\ id # Null
               /\ LET kinds == {V.ops[r.op].kind, V.ops[op].kind}
                  IN  "upsert" \in kinds \/ "remove" \notin kinds
          THEN {"row changed twice at once"} ELSE {})

-----------------------------------------------------------------------------

Init ==
  /\ view \in DOMAIN Views
  /\ srv \in [Owners -> IF Views[view].fixed THEN {<<[id |-> 1, val |-> 1], [id |-> 2, val |-> 1]>>}
                        ELSE {<<>>, <<[id |-> 1, val |-> 1]>>}]
  /\ Views[view].fixed \/ \A o, p \in Owners : o # p => srv[o] = <<>> \/ srv[p] = <<>>
  /\ mount = IF Views[view].scoped THEN "loading" ELSE "ready"
  /\ sel = IF Views[view].scoped THEN Null ELSE CHOOSE o \in Owners : TRUE
  /\ shown = <<>>
  /\ flags = [f \in FlagNames |-> IF f = "loading" /\ ~Views[view].scoped THEN 0 ELSE Null]
  /\ editing = Null /\ pick = Null /\ applied = 0 /\ acts = 0 /\ stale = {}
  /\ sent = IF Views[view].scoped THEN 0 ELSE 1
  /\ inflight = IF Views[view].scoped THEN {}
                ELSE {[n |-> 1, op |-> "load", owner |-> sel, id |-> Null, val |-> Null, order |-> <<>>,
                       holds |-> "none", alone |-> TRUE, stage |-> "sent", rows |-> <<>>]}

\* The catalogues are there, or the view says it could not load them and
\* offers nothing to select.
MountSettles(outcome) ==
  /\ mount = "loading"
  /\ mount' = outcome
  /\ UNCHANGED <<view, srv, sel, shown, flags, editing, pick, inflight, sent, applied, acts, stale>>

Act == acts < MaxActs /\ acts' = acts + 1

\* The rows of the owner are asked for.
SendLoad(owner) ==
  /\ inflight' = inflight \cup {Request("load", owner, Null, NoBody)}
  /\ sent' = sent + 1
  /\ flags' = [flags EXCEPT !["loading"] = 0]

\* onSelectUser, onSelectGroup, toggleMembers: the edit is closed, the rows
\* of the new owner are loaded; nothing is cancelled.
Select(o) ==
  /\ Act /\ V.scoped /\ mount = "ready" /\ sel # o
  /\ sel' = o /\ editing' = Null /\ pick' = Null
  /\ SendLoad(o)
  /\ stale' = stale \cup Crossing("load", Null, inflight)
                \cup (IF inflight # {} THEN {"selection moved under a request"} ELSE {})
  /\ UNCHANGED <<view, srv, mount, shown, applied>>

\* toggleMembers on the open group: the panel closes.
Close ==
  /\ Act /\ V.closable /\ sel # Null
  /\ sel' = Null
  /\ stale' = stale \cup (IF inflight # {} THEN {"selection moved under a request"} ELSE {})
  /\ UNCHANGED <<view, srv, mount, shown, flags, editing, pick, inflight, sent, applied>>

\* The refresh button, where there is one.
Refresh ==
  /\ Act /\ V.refreshes /\ flags["loading"] = Null
  /\ SendLoad(sel)
  /\ stale' = stale \cup Crossing("load", Null, inflight)
  /\ UNCHANGED <<view, srv, mount, sel, shown, editing, pick, applied>>

StartEdit(id) ==
  /\ V.editable /\ id \in Listed /\ editing # id
  /\ editing' = id
  /\ UNCHANGED <<view, srv, mount, sel, shown, flags, pick, inflight, sent, applied, acts, stale>>

CancelEdit ==
  /\ editing \in Listed /\ flags["saving"] = Null
  /\ editing' = Null
  /\ UNCHANGED <<view, srv, mount, sel, shown, flags, pick, inflight, sent, applied, acts, stale>>

\* The add form of a members panel is pointed at another candidate.
Choose(id) ==
  /\ V.picks /\ sel # Null /\ flags["loading"] = Null
  /\ id \notin Ids(shown) /\ pick # id
  /\ pick' = id
  /\ stale' = stale \cup (IF \E r \in Mutations : V.ops[r.op].kind = "upsert"
                            THEN {"candidate changed under a request"} ELSE {})
  /\ UNCHANGED <<view, srv, mount, sel, shown, flags, editing, inflight, sent, applied, acts>>

-----------------------------------------------------------------------------

\* The control of an operation is on the page and enabled for row id.
Enabled(name, id) ==
  LET op == V.ops[name]
      free(f) == IF V.ops[name].perRow THEN flags[f] # id ELSE flags[f] = Null
  IN  /\ sel # Null
      /\ \A f \in op.off : free(f)
      /\ CASE op.control = "form" -> op.kind = "upsert" \/ id = Null
           [] op.control = "loaded form" -> id = Null /\ applied > 0
           [] op.control = "edit" -> id \in Listed /\ id = editing
           [] op.control = "row" -> id \in Listed /\ id # editing
           [] op.control = "list" -> id = Null /\ Listed # {}

\* moved: the ids with the row at i taken to j.
moved(i, j) ==
  LET ids == [k \in DOMAIN shown |-> shown[k].id] IN InsertAt(RemoveAt(ids, i), j, ids[i])

\* What the admin submits with the operation: a value, or the order wanted.
Bodies(name) ==
  IF V.ops[name].kind = "reorder"
    THEN {[val |-> Null, order |-> o] :
            o \in {moved(i, j) : i, j \in DOMAIN shown} \ {[k \in DOMAIN shown |-> shown[k].id]}}
    ELSE {[val |-> v, order |-> <<>>] : v \in Values}

\* A handler up to its await: the flag is raised and the request sent.
Submit(name, id, body) ==
  /\ Act /\ Enabled(name, id)
  /\ V.ops[name].kind = "upsert" /\ V.picks => id = pick /\ id # Null
  /\ inflight' = inflight \cup {Request(name, sel, id, body)}
  /\ sent' = sent + 1
  /\ flags' = IF V.ops[name].flag = "none" THEN flags
              ELSE [flags EXCEPT ![V.ops[name].flag] = IF V.ops[name].perRow THEN id ELSE 0]
  /\ stale' = stale \cup Crossing(name, id, inflight)
  /\ UNCHANGED <<view, srv, mount, sel, shown, editing, pick, applied>>

-----------------------------------------------------------------------------

Replace(rows, id, val) ==
  [i \in DOMAIN rows |-> IF rows[i].id = id THEN [rows[i] EXCEPT !.val = val] ELSE rows[i]]
Without(rows, id) == SelectSeq(rows, LAMBDA r : r.id # id)
Upsert(rows, id, val) ==
  IF id \in Ids(rows) THEN Replace(rows, id, val) ELSE Append(rows, [id |-> id, val |-> val])

\* The API serves a request: what it does to the owner's rows, and the id it
\* answers with.  A row that is gone, or an order that is not one of the
\* rows there are, is refused; so may be anything else.
Serve(r) ==
  LET rows == srv[r.owner]
      kind == Kind(r)
      done(s, id, list) == /\ srv' = [srv EXCEPT ![r.owner] = s]
                           /\ inflight' = (inflight \ {r}) \cup
                                {[r EXCEPT !.stage = "served", !.id = id, !.rows = list]}
  IN  /\ r.stage = "sent"
      /\ \/ kind \in {"load", "side"} /\ done(rows, r.id, rows)
         \/ /\ kind = "create"
            /\ \E id \in RowIds \ Used :
                 /\ \A k \in RowIds \ Used : id <= k
                 /\ done(Append(rows, [id |-> id, val |-> r.val]), id, <<>>)
         \/ kind = "upsert" /\ done(Upsert(rows, r.id, r.val), r.id, <<>>)
         \/ kind = "update" /\ r.id \in Ids(rows) /\ done(Replace(rows, r.id, r.val), r.id, <<>>)
         \/ kind = "remove" /\ r.id \in Ids(rows) /\ done(Without(rows, r.id), r.id, <<>>)
         \/ /\ kind = "reorder" /\ Range(r.order) = Ids(rows)
            /\ LET new == [k \in DOMAIN r.order |-> CHOOSE x \in Range(rows) : x.id = r.order[k]]
               IN  done(new, r.id, new)
         \/ /\ srv' = srv
            /\ inflight' = (inflight \ {r}) \cup {[r EXCEPT !.stage = "refused"]}
      /\ UNCHANGED <<view, mount, sel, shown, flags, editing, pick, sent, applied, acts, stale>>

Lowered(r) ==
  [f \in FlagNames |->
     IF f = r.holds \/ (r.op = "load" /\ f = "loading") \/ (r.op # "load" /\ f = V.ops[r.op].flag)
       THEN Null ELSE flags[f]]

\* The rows of a request replace the array.
ShowRows(r) ==
  /\ shown' = r.rows
  /\ applied' = IF r.n > applied THEN r.n ELSE applied
  /\ stale' = IF r.op = "load" /\ inflight = {r} /\ r.alone /\ sent = r.n THEN {}
              ELSE IF r.n < applied THEN stale \cup {"an older list came last"} ELSE stale
  /\ inflight' = inflight \ {r} /\ flags' = Lowered(r)
  /\ UNCHANGED <<sent, editing, pick>>

\* The handler goes on with a reload of whatever is selected by now, its own
\* flag still up: await loadOrder().
GoOnWithLoad(r) ==
  /\ inflight' = (inflight \ {r}) \cup
       (IF sel = Null THEN {}
        ELSE {[Request("load", sel, Null, NoBody) EXCEPT !.holds = V.ops[r.op].flag,
                                                       !.alone = inflight = {r}]})
  /\ sent' = IF sel = Null THEN sent ELSE sent + 1
  /\ flags' = IF sel = Null THEN Lowered(r) ELSE [flags EXCEPT !["loading"] = 0]
  /\ UNCHANGED <<shown, applied, pick>>

\* A plausible bug: a saved row is put back when it is no longer there.
PatchedPutsBack(r) ==
  CASE V.ops[r.op].kind = "create" -> Append(shown, [id |-> r.id, val |-> r.val])
    [] V.ops[r.op].kind = "remove" -> Without(shown, r.id)
    [] OTHER -> Upsert(shown, r.id, r.val)

\* What the handler does to the array it finds after the await.
Patched(r) ==
  CASE V.ops[r.op].kind = "create" -> Append(shown, [id |-> r.id, val |-> r.val])
    [] V.ops[r.op].kind = "update" -> Replace(shown, r.id, r.val)
    [] V.ops[r.op].kind = "remove" -> Without(shown, r.id)
    [] V.ops[r.op].kind = "upsert" ->
         IF ~V.picks THEN Upsert(shown, r.id, r.val)
         ELSE IF pick = Null THEN shown ELSE Append(shown, [id |-> pick, val |-> r.val])
    [] OTHER -> shown

\* A handler resumed by a good answer.
Reply(r) ==
  /\ r.stage = "served"
  /\ IF Done(r) = "replace" THEN ShowRows(r)
     ELSE LET op == V.ops[r.op] IN
          /\ editing' = IF op.closes THEN Null ELSE editing
          /\ \/ /\ op.done = "reload" /\ GoOnWithLoad(r)
                /\ stale' = stale \cup Crossing("load", Null, inflight \ {r})
             \/ /\ op.done = "patch"
                /\ shown' = Patched(r)
                /\ pick' = IF V.picks /\ op.kind = "upsert" THEN Null ELSE pick
                /\ flags' = [f \in FlagNames |->
                               IF V.shared /\ f = "loading" THEN Null ELSE Lowered(r)[f]]
                /\ inflight' = inflight \ {r}
                /\ UNCHANGED <<sent, applied, stale>>
  /\ UNCHANGED <<view, srv, mount, sel, acts>>

\* A handler resumed by an error: refused by the API, or no answer at all
\* (which may hide a change that was made).
Fails(r) ==
  /\ stale' = stale
       \cup (IF r.op = "load" THEN {"load failed"} ELSE {})
       \cup (IF r.op # "load" /\ r.stage = "served" THEN {"answer lost"} ELSE {})
  /\ \/ Kind(r) = "reorder" /\ GoOnWithLoad(r)
     \/ /\ Kind(r) # "reorder"
        /\ shown' = IF r.op = "load" /\ V.empties THEN <<>> ELSE shown
        /\ inflight' = inflight \ {r} /\ flags' = Lowered(r)
        /\ UNCHANGED <<sent, applied, pick>>
  /\ UNCHANGED <<view, srv, mount, sel, editing, acts>>

Next ==
  \/ \E outcome \in {"ready", "failed"} : MountSettles(outcome)
  \/ \E o \in Owners : Select(o)
  \/ Close \/ Refresh \/ CancelEdit
  \/ \E id \in RowIds : StartEdit(id) \/ Choose(id)
  \/ \E name \in DOMAIN V.ops, id \in RowIds \cup {Null} :
       \E body \in Bodies(name) : Submit(name, id, body)
  \/ \E r \in inflight : Serve(r) \/ Reply(r) \/ Fails(r)

Spec == Init /\ [][Next]_vars

-----------------------------------------------------------------------------

Settled == inflight = {} /\ sel # Null /\ mount = "ready"

\* A view at rest shows the rows the server has for the selected owner: the
\* handlers that patch the array after their await read the array as it is
\* then, so changes answered in any order do not undo one another, and the
\* ones that reload always ask once more after the last change.  What can
\* leave the array behind is listed in stale: a load crossing a change (a row
\* may then show twice, or be missing), an older list answered after a newer
\* one, the selection moved under a request, two changes of one row at once,
\* an answer lost, a load that failed; and a lone load mends all of them.
ViewConverges ==
  Settled /\ stale = {} =>
    IF V.patches
      THEN Range(shown) = Range(srv[sel]) /\ Len(shown) = Len(srv[sel])
      ELSE shown = srv[sel]

\* A button whose handler has a flag of its own cannot be pressed again
\* before that handler is done, whatever the other handlers do to the flags
\* in their finally blocks.
NoDoubleSubmit ==
  \A r, q \in Mutations :
    r.op = q.op /\ r # q /\ V.ops[r.op].flag # "none" => V.ops[r.op].perRow

\* Unless the list was disturbed, the rows of another owner are never on the
\* page: what is listed under the selected user or group is theirs.  (Members
\* and links are keyed by what they point at, so two owners may share a key.)
RowsOfTheSelected ==
  V.scoped /\ sel # Null /\ stale = {} /\ (\A name \in DOMAIN V.ops : V.ops[name].kind # "upsert") =>
    \A id \in Listed, o \in Owners : id \in Ids(srv[o]) => o = sel

ViewsSound == ViewConverges /\ NoDoubleSubmit /\ RowsOfTheSelected

=============================================================================

-------------------------- MODULE PolicyPushProofs --------------------------
(***************************************************************************)
(* When a client's executors do not overlap and none is reported as        *)
(* failed, the client ends with the stored policy, and an account whose    *)
(* link was deleted ends unrestricted: for any clients, accounts and       *)
(* policies, and any number of edits, offline spells and crashes.          *)
(*                                                                         *)
(* The argument: such a client has at most one executor, that executor     *)
(* read the store as it still is, and what it has not yet called is still  *)
(* in its list; when it fails or is cut off, a pending row stands for it.  *)
(*                                                                         *)
(* The second half is about the queue's other cargo, the nudges of module  *)
(* TimeToday: a queued nudge is set to one absolute target however often   *)
(* it is replayed, and the time left is never negative, for any operations *)
(* and amounts, and any number of nudges, days, offline spells, crashes.   *)
(***************************************************************************)
EXTENDS PolicyPush, SequenceTheorems, WellFoundedInduction, TLAPS

\* What a setter can be told.
Values == {"max"} \cup {p[f] : p \in Policies, f \in Fields}

\* What every instance gives the constants: a policy has a value for each setter.
ConstantsOK == NoAccount \notin Accounts /\ Policies \subseteq [Fields -> Values]

Exec == [client : Clients, payload : Payload, n : Nat, id : Nat, acct : Accounts \cup {NoAccount},
         want : [Fields -> Values], left : Seq(Fields)]
QueueRow == [id : Nat \ {0}, client : Clients, key : {Key}, payload : Payload, status : Status]

Typed ==
  /\ link \in [Clients -> Accounts \cup {NoAccount}] /\ policy \in [Fields -> Values]
  /\ limits \in [Clients -> [Accounts -> [Fields -> Values]]]
  /\ rows \subseteq QueueRow /\ nextId \in Nat \ {0} /\ ops \in Nat
  /\ execs \subseteq Exec /\ \A e \in execs : e.left # << >> => e.acct \in Accounts
  /\ unlinked \subseteq Clients \X Accounts

\* One row for a client, and ids are not handed out twice.
OneRow ==
  /\ \A r, s \in rows : r.id = s.id \/ r.client = s.client => r = s
  /\ \A r \in rows : r.id < nextId
  /\ \A e \in execs : e.id < nextId

\* One executor on a client, unless they have overlapped; one drainer.
OneExec ==
  /\ \A e, d \in execs : e.client = d.client /\ e.client \notin overlap => e = d
  /\ \A e, d \in execs : e.id # 0 /\ d.id # 0 => e = d

\* The row a drainer's executor stands for is its client's, and it is still pending
\* as it was read unless executors have overlapped.
RowHeld ==
  \A e \in execs : e.id # 0 =>
    /\ \A r \in rows : r.id = e.id => r.client = e.client
    /\ e.client \notin overlap =>
         \E r \in PendingFor(rows, e.client) : r.id = e.id /\ r.payload = e.payload

Clean(c) == c \notin overlap \cup gaveUp
Members(s) == {s[i] : i \in 1..Len(s)}

\* An executor on a linked client is bringing the stored policy in force; without
\* one the policy is in force or a row is pending.
CurrentOn(c) ==
  Clean(c) =>
    /\ \A e \in execs : e.client = c =>
         /\ e.acct = link[c] /\ e.want = policy
         /\ \A f \in Fields : policy[f] # None /\ f \notin Members(e.left) => limits[c][link[c]][f] = policy[f]
    /\ ~Busy(c) => PendingFor(rows, c) # {} \/ Enforced(c)
Current == \A c \in Linked : CurrentOn(c)

Unlink(a) == [reason |-> "link.deleted", acct |-> a]

\* Executor e is freeing account a of client c.
Frees(e, c, a) ==
  /\ e.client = c /\ e.acct = a /\ e.payload = Unlink(a)
  /\ \A f \in Fields : f \notin Members(e.left) => limits[c][a][f] = "max"

\* The same for the account of a deleted link: it is free, an executor is freeing
\* it, or a row that names it is pending.
FreeingOn(c, a) ==
  Clean(c) =>
    /\ \A e \in execs : e.client = c => e.want = Unrestricted
    /\ \/ limits[c][a] = Unrestricted
       \/ \E e \in execs : Frees(e, c, a)
       \/ ~Busy(c) /\ \E r \in PendingFor(rows, c) : r.payload = Unlink(a)
Freeing == \A t \in unlinked : link[t[1]] = NoAccount /\ FreeingOn(t[1], t[2])

IInv == Typed /\ OneRow /\ OneExec /\ RowHeld /\ Current /\ Freeing

(* ---- the setter calls of a run ---- *)

LEMMA MembersOfConcat ==
  ASSUME NEW s \in Seq(Fields), NEW t \in Seq(Fields)
  PROVE  s \o t \in Seq(Fields) /\ Members(s) \subseteq Members(s \o t) /\ Members(t) \subseteq Members(s \o t)
<1>1. s \o t \in Seq(Fields) /\ Len(s) \in Nat /\ Len(t) \in Nat /\ Len(s \o t) = Len(s) + Len(t)
  BY ConcatProperties
<1>2. \A i \in 1..Len(s) : i \in 1..Len(s \o t) /\ (s \o t)[i] = s[i]
  BY <1>1, ConcatProperties
<1>3. \A i \in 1..Len(t) : i + Len(s) \in 1..Len(s \o t) /\ (s \o t)[i + Len(s)] = t[i]
  BY <1>1, ConcatProperties
<1> QED
  BY <1>1, <1>2, <1>3 DEF Members

\* applyResolvedPush calls the setter of every field that has a value.
LEMMA CallsCover ==
  ASSUME NEW want \in [Fields -> Values]
  PROVE  /\ Calls(want) \in Seq(Fields)
         /\ \A f \in Fields : want[f] # None => f \in Members(Calls(want))
<1> DEFINE C(f) == IF want[f] # None THEN <<f>> ELSE << >>
<1>1. ASSUME NEW f \in Fields PROVE C(f) \in Seq(Fields) /\ (want[f] # None => f \in Members(C(f)))
  BY DEF Members
<1>2. "limits" \in Fields /\ "week" \in Fields /\ "month" \in Fields /\ "hours" \in Fields
  BY DEF Fields
<1> DEFINE C2 == C("limits") \o C("week")
           C3 == C2 \o C("month")
<1>3. Calls(want) = C3 \o C("hours")
  BY DEF Calls
<1>4. C("limits") \in Seq(Fields) /\ C("week") \in Seq(Fields) /\ C("month") \in Seq(Fields) /\ C("hours") \in Seq(Fields)
  BY <1>1, <1>2
<1>5. C2 \in Seq(Fields) /\ Members(C("limits")) \subseteq Members(C2) /\ Members(C("week")) \subseteq Members(C2)
  <2> HIDE DEF C
  <2> QED
    BY <1>4, MembersOfConcat
<1>6. C3 \in Seq(Fields) /\ Members(C2) \subseteq Members(C3) /\ Members(C("month")) \subseteq Members(C3)
  <2> HIDE DEF C, C2
  <2> QED
    BY <1>4, <1>5, MembersOfConcat
<1>7. Calls(want) \in Seq(Fields) /\ Members(C3) \subseteq Members(Calls(want)) /\ Members(C("hours")) \subseteq Members(Calls(want))
  <2> HIDE DEF C, C3
  <2> QED
    BY <1>3, <1>4, <1>6, MembersOfConcat
<1>8. \A f \in Fields : Members(C(f)) \subseteq Members(Calls(want))
  <2> HIDE DEF C, C2, C3
  <2> QED
    BY <1>5, <1>6, <1>7 DEF Fields
<1> HIDE DEF C
<1> QED
  BY <1>1, <1>7, <1>8

LEMMA UnrestrictedTyped == Unrestricted \in [Fields -> Values] /\ \A f \in Fields : Unrestricted[f] = "max" /\ Unrestricted[f] # None
<1>1. Unrestricted \in [Fields -> Values]
  BY DEF Unrestricted, Values
<1>2. \A f \in Fields : Unrestricted[f] = "max"
  BY DEF Unrestricted
<1> QED
  BY <1>1, <1>2 DEF None

\* What an executor that starts holds.
LEMMA RunStarts ==
  ASSUME NEW lk \in [Clients -> Accounts \cup {NoAccount}], NEW pol \in [Fields -> Values], NEW c \in Clients,
         NEW p \in Payload, NEW n \in Nat, NEW id \in Nat, NEW e, e = Run(lk, pol, c, p, n, id)
  PROVE  /\ e \in Exec /\ (e.left # << >> => e.acct \in Accounts)
         /\ e.client = c /\ e.payload = p /\ e.id = id
         /\ e.acct = AccountFor(lk, c, p) /\ e.want = ValuesFor(lk, pol, c)
         /\ e.acct # NoAccount => \A f \in Fields : e.want[f] # None => f \in Members(e.left)
<1>1. AccountFor(lk, c, p) \in Accounts \cup {NoAccount}
  BY DEF AccountFor, Payload
<1>2. ValuesFor(lk, pol, c) \in [Fields -> Values]
  BY UnrestrictedTyped DEF ValuesFor
<1>3. e.left = IF AccountFor(lk, c, p) = NoAccount THEN << >> ELSE Calls(ValuesFor(lk, pol, c))
  BY DEF Run
<1>4. e.left \in Seq(Fields)
  BY <1>2, <1>3, CallsCover
<1>5. /\ e.client = c /\ e.payload = p /\ e.id = id /\ e.n = n
      /\ e.acct = AccountFor(lk, c, p) /\ e.want = ValuesFor(lk, pol, c)
      /\ e = [client |-> e.client, payload |-> e.payload, n |-> e.n, id |-> e.id, acct |-> e.acct,
              want |-> e.want, left |-> e.left]
  BY DEF Run
<1>6. e \in Exec
  BY <1>1, <1>2, <1>4, <1>5 DEF Exec
<1> QED
  BY <1>1, <1>2, <1>3, <1>5, <1>6, CallsCover

(* ---- a client no step is about ---- *)

LEMMA CurrentElsewhere ==
  ASSUME NEW d \in Clients, CurrentOn(d), \A e : e \in execs' /\ e.client = d <=> e \in execs /\ e.client = d,
         PendingFor(rows', d) = PendingFor(rows, d), limits'[d] = limits[d], link'[d] = link[d],
         policy' = policy, Clean(d)' => Clean(d)
  PROVE  CurrentOn(d)'
<1>1. Busy(d)' <=> Busy(d)
  BY DEF Busy
<1> QED
  BY <1>1 DEF CurrentOn, Enforced

LEMMA FreeingElsewhere ==
  ASSUME NEW d \in Clients, NEW a \in Accounts, FreeingOn(d, a),
         \A e : e \in execs' /\ e.client = d <=> e \in execs /\ e.client = d,
         PendingFor(rows', d) = PendingFor(rows, d), limits'[d] = limits[d], Clean(d)' => Clean(d)
  PROVE  FreeingOn(d, a)'
<1>1. Busy(d)' <=> Busy(d)
  BY DEF Busy
<1>2. \A e : Frees(e, d, a)' <=> Frees(e, d, a)
  BY DEF Frees
<1>3. (\E e \in execs : Frees(e, d, a)) => \E e \in execs' : Frees(e, d, a)'
  BY <1>2 DEF Frees
<1> QED
  BY <1>1, <1>3 DEF FreeingOn

(* ---- a dispatch ---- *)

\* What a dispatch adds: on a client it is about, either executors now overlap or
\* the new one is alone; elsewhere nothing changes.
Started(lk, pol, cs, p) ==
  /\ ops' \in Nat /\ execs' \subseteq Exec /\ \A e \in execs' : e.left # << >> => e.acct \in Accounts
  /\ OneRow' /\ OneExec' /\ RowHeld'
  /\ overlap \subseteq overlap'
  /\ \A d \in Clients \ cs : \A e : e \in execs' /\ e.client = d <=> e \in execs /\ e.client = d
  /\ \A d \in cs :
       /\ Busy(d)'
       /\ d \notin overlap' => \A e \in execs' : e.client = d => e = Run(lk, pol, d, p, ops + 1, 0)

LEMMA Dispatched ==
  ASSUME IInv, NEW lk \in [Clients -> Accounts \cup {NoAccount}], NEW pol \in [Fields -> Values],
         NEW cs \in SUBSET Clients, NEW reason, NEW acct, [reason |-> reason, acct |-> acct] \in Payload,
         Dispatch(lk, pol, cs, reason, acct), ops' = ops + 1, UNCHANGED <<rows, nextId>>
  PROVE  Started(lk, pol, cs, [reason |-> reason, acct |-> acct])
<1> DEFINE new(c) == Run(lk, pol, c, [reason |-> reason, acct |-> acct], ops + 1, 0)
<1>1. ops + 1 \in Nat
  BY DEF IInv, Typed
<1>2. ASSUME NEW c \in cs
      PROVE  /\ new(c) \in Exec /\ (new(c).left # << >> => new(c).acct \in Accounts)
             /\ new(c).client = c /\ new(c).id = 0
  BY <1>1, RunStarts
<1> HIDE DEF new
<1>3. execs' = execs \cup {new(c) : c \in cs} /\ overlap' = overlap \cup {c \in cs : Busy(c)}
  BY DEF Dispatch, new
<1>4. ops' \in Nat /\ execs' \subseteq Exec /\ \A e \in execs' : e.left # << >> => e.acct \in Accounts
  BY <1>1, <1>2, <1>3 DEF IInv, Typed
<1>5. \A d \in Clients \ cs : \A e : e \in execs' /\ e.client = d <=> e \in execs /\ e.client = d
  BY <1>2, <1>3
<1>6. \A d \in cs : Busy(d)'
  BY <1>2, <1>3 DEF Busy
<1>7. \A d \in cs : d \notin overlap' => \A e \in execs' : e.client = d => e = new(d)
  BY <1>2, <1>3 DEF Busy
<1>8. \A e \in execs' : e \in execs \/ (e.id = 0 /\ e.client \in cs)
  BY <1>2, <1>3
<1>9. OneRow'
  <2>1. 0 < nextId
    BY DEF IInv, Typed
  <2> QED
    BY <1>8, <2>1 DEF IInv, OneRow
<1>10. OneExec'
  <2>1. \A e, d \in execs' : e.client = d.client /\ e.client \notin overlap' => e = d
    BY <1>3, <1>7, <1>8 DEF IInv, OneExec
  <2> QED
    BY <2>1, <1>8 DEF IInv, OneExec
<1>11. RowHeld'
  BY <1>3, <1>8 DEF IInv, RowHeld
<1> QED
  BY <1>3, <1>4, <1>5, <1>6, <1>7, <1>9, <1>10, <1>11 DEF new, Started

\* The executor a dispatch starts on a linked client brings the policy in force.
LEMMA CurrentWhereDispatched ==
  ASSUME NEW d \in Clients, link'[d] # NoAccount, link' \in [Clients -> Accounts \cup {NoAccount}],
         policy' \in [Fields -> Values], NEW p \in Payload, NEW n \in Nat, NEW id \in Nat, Busy(d)',
         d \notin overlap' => \A e \in execs' : e.client = d => e = Run(link', policy', d, p, n, id)
  PROVE  CurrentOn(d)'
<1>1. ASSUME NEW e, e = Run(link', policy', d, p, n, id)
      PROVE  e.acct = link'[d] /\ e.want = policy' /\ \A f \in Fields : policy'[f] # None => f \in Members(e.left)
  BY <1>1, RunStarts DEF AccountFor, ValuesFor
<1> QED
  BY <1>1 DEF CurrentOn, Clean

\* A client the dispatch is not about.
LEMMA DispatchElsewhere ==
  ASSUME NEW lk, NEW pol, NEW cs, NEW p, Started(lk, pol, cs, p), UNCHANGED <<rows, limits, gaveUp>>,
         NEW d \in Clients, d \notin cs
  PROVE  /\ CurrentOn(d) /\ link'[d] = link[d] /\ policy' = policy => CurrentOn(d)'
         /\ \A a \in Accounts : FreeingOn(d, a) => FreeingOn(d, a)'
<1>1. /\ \A e : e \in execs' /\ e.client = d <=> e \in execs /\ e.client = d
      /\ PendingFor(rows', d) = PendingFor(rows, d) /\ limits'[d] = limits[d]
  BY DEF Started
<1>2. Clean(d)' => Clean(d)
  BY DEF Started, Clean
<1> QED
  BY <1>1, <1>2, CurrentElsewhere, FreeingElsewhere

\* A payload as the routes build it.
LEMMA Payloads ==
  /\ [reason |-> "policy.edited", acct |-> NoAccount] \in Payload
  /\ [reason |-> "user.updated", acct |-> NoAccount] \in Payload
  /\ [reason |-> "user.deleted", acct |-> NoAccount] \in Payload
  /\ \A a \in Accounts : [reason |-> "link.upserted", acct |-> a] \in Payload /\ Unlink(a) \in Payload
  BY DEF Payload, Unlink

(* ---- one lemma per step ---- *)

LEMMA InitIInv == ASSUME ConstantsOK, Init PROVE IInv
<1>1. limits \in [Clients -> [Accounts -> [Fields -> Values]]]
  BY UnrestrictedTyped DEF Init
<1>2. Typed
  BY <1>1 DEF Init, Typed, ConstantsOK
<1>3. Linked = {}
  BY DEF Init, Linked
<1> QED
  BY <1>2, <1>3 DEF Init, IInv, OneRow, OneExec, RowHeld, Current, Freeing

\* An edit starts an executor on every linked client.
LEMMA EditPolicyIInv == ASSUME ConstantsOK, IInv, NEW p \in Policies, EditPolicy(p) PROVE IInv'
<1>1. p \in [Fields -> Values] /\ policy' = p /\ link \in [Clients -> Accounts \cup {NoAccount}] /\ ops \in Nat
  BY DEF ConstantsOK, IInv, Typed, EditPolicy
<1>2. /\ Dispatch(link, p, Linked, "policy.edited", NoAccount) /\ ops' = ops + 1
      /\ UNCHANGED <<user, link, unlinked, rows, nextId, reach, limits, crashes, gaveUp>>
  BY DEF EditPolicy, AdminOp
<1>3. Linked \in SUBSET Clients /\ Linked' = Linked
  BY <1>2 DEF Linked
<1>4. Started(link, p, Linked, [reason |-> "policy.edited", acct |-> NoAccount])
  BY <1>1, <1>2, <1>3, Payloads, Dispatched
<1>5. Typed'
  BY <1>1, <1>2, <1>4 DEF IInv, Typed, Started
<1>6. Current'
  <2>1. ASSUME NEW d \in Linked PROVE CurrentOn(d)'
    <3>1. d \in Clients /\ link'[d] # NoAccount
      BY <1>2 DEF Linked
    <3> QED
      BY <1>1, <1>2, <1>4, <3>1, Payloads, CurrentWhereDispatched DEF Started
  <2> QED
    BY <1>3, <2>1 DEF Current
<1>7. Freeing'
  <2>1. ASSUME NEW t \in unlinked PROVE link[t[1]] = NoAccount /\ FreeingOn(t[1], t[2])'
    <3>1. t[1] \in Clients /\ t[2] \in Accounts /\ link[t[1]] = NoAccount /\ FreeingOn(t[1], t[2])
      BY DEF IInv, Typed, Freeing
    <3> QED
      BY <1>2, <1>4, <3>1, DispatchElsewhere DEF Linked
  <2> QED
    BY <1>2, <2>1 DEF Freeing
<1> QED
  BY <1>4, <1>5, <1>6, <1>7 DEF IInv, Started

\* The same for one client, without an edit.
LEMMA PushNowIInv == ASSUME ConstantsOK, IInv, NEW c \in Clients, PushNow(c) PROVE IInv'
<1>1. link \in [Clients -> Accounts \cup {NoAccount}] /\ policy \in [Fields -> Values] /\ ops \in Nat
  BY DEF IInv, Typed
<1>2. /\ Dispatch(link, policy, {c}, "user.updated", NoAccount) /\ ops' = ops + 1 /\ c \in Linked
      /\ UNCHANGED <<user, link, policy, unlinked, rows, nextId, reach, limits, crashes, gaveUp>>
  BY DEF PushNow, AdminOp, store
<1>3. {c} \in SUBSET Clients /\ Linked' = Linked /\ Linked \subseteq Clients
  BY <1>2 DEF Linked
<1>4. Started(link, policy, {c}, [reason |-> "user.updated", acct |-> NoAccount])
  BY <1>1, <1>2, <1>3, Payloads, Dispatched
<1>5. Typed'
  BY <1>2, <1>4 DEF IInv, Typed, Started
<1>6. Current'
  <2>1. CurrentOn(c)'
    <3>1. link'[c] # NoAccount /\ c \in {c}
      BY <1>2 DEF Linked
    <3> QED
      BY <1>1, <1>2, <1>4, <3>1, Payloads, CurrentWhereDispatched DEF Started
  <2>2. ASSUME NEW d \in Linked, d # c PROVE CurrentOn(d)'
    BY <1>2, <1>3, <1>4, <2>2, DispatchElsewhere DEF IInv, Current
  <2> QED
    BY <1>3, <2>1, <2>2 DEF Current
<1>7. Freeing'
  <2>1. ASSUME NEW t \in unlinked PROVE link[t[1]] = NoAccount /\ FreeingOn(t[1], t[2])'
    <3>1. t[1] \in Clients /\ t[2] \in Accounts /\ link[t[1]] = NoAccount /\ FreeingOn(t[1], t[2])
      BY DEF IInv, Typed, Freeing
    <3> QED
      BY <1>2, <1>4, <3>1, DispatchElsewhere DEF Linked
  <2> QED
    BY <1>2, <2>1 DEF Freeing
<1> QED
  BY <1>4, <1>5, <1>6, <1>7 DEF IInv, Started

\* A new or changed link: the push is for the account now linked, and what was
\* owed to the client's unlinked accounts is no longer claimed.
LEMMA UpsertLinkIInv ==
  ASSUME ConstantsOK, IInv, NEW c \in Clients, NEW a \in Accounts, UpsertLink(c, a) PROVE IInv'
<1>1. link \in [Clients -> Accounts \cup {NoAccount}] /\ policy \in [Fields -> Values] /\ ops \in Nat
  BY DEF IInv, Typed
<1>2. /\ Dispatch(link', policy, {c}, "link.upserted", a) /\ ops' = ops + 1
      /\ link' = [link EXCEPT ![c] = a] /\ unlinked' = {t \in unlinked : t[1] # c}
      /\ UNCHANGED <<user, policy, rows, nextId, reach, limits, crashes, gaveUp>>
  BY DEF UpsertLink, AdminOp
<1>3. /\ link' \in [Clients -> Accounts \cup {NoAccount}] /\ link'[c] = a /\ a # NoAccount
      /\ \A d \in Clients : d # c => link'[d] = link[d]
  BY <1>1, <1>2 DEF ConstantsOK
<1>4. Started(link', policy, {c}, [reason |-> "link.upserted", acct |-> a])
  <2>1. {c} \in SUBSET Clients
    OBVIOUS
  <2> QED
    BY <1>1, <1>2, <1>3, <2>1, Payloads, Dispatched
<1>5. Typed'
  BY <1>2, <1>3, <1>4 DEF IInv, Typed, Started
<1>6. Current'
  <2>1. CurrentOn(c)'
    <3>1. /\ Busy(c)' /\ policy' \in [Fields -> Values] /\ ops + 1 \in Nat
          /\ c \notin overlap' => \A e \in execs' : e.client = c =>
               e = Run(link', policy', c, [reason |-> "link.upserted", acct |-> a], ops + 1, 0)
      BY <1>1, <1>2, <1>4 DEF Started
    <3> QED
      BY <1>3, <3>1, Payloads, CurrentWhereDispatched
  <2>2. ASSUME NEW d \in Clients, d # c, link'[d] # NoAccount PROVE CurrentOn(d)'
    <3>1. CurrentOn(d) /\ link'[d] = link[d]
      BY <1>3, <2>2 DEF IInv, Current, Linked
    <3> QED
      BY <1>2, <1>4, <2>2, <3>1, DispatchElsewhere
  <2> QED
    BY <2>1, <2>2 DEF Current, Linked
<1>7. Freeing'
  <2>1. ASSUME NEW t \in unlinked, t[1] # c PROVE link'[t[1]] = NoAccount /\ FreeingOn(t[1], t[2])'
    <3>1. t[1] \in Clients /\ t[2] \in Accounts /\ link[t[1]] = NoAccount /\ FreeingOn(t[1], t[2])
      BY DEF IInv, Typed, Freeing
    <3> QED
      BY <1>2, <1>3, <1>4, <2>1, <3>1, DispatchElsewhere
  <2> QED
    BY <1>2, <2>1 DEF Freeing
<1> QED
  BY <1>4, <1>5, <1>6, <1>7 DEF IInv, Started

\* An unlink starts an executor that frees the account the link named.
LEMMA DeleteLinkIInv == ASSUME ConstantsOK, IInv, NEW c \in Clients, DeleteLink(c) PROVE IInv'
<1>1. link \in [Clients -> Accounts \cup {NoAccount}] /\ policy \in [Fields -> Values] /\ ops \in Nat
  BY DEF IInv, Typed
<1>a. PICK a \in Accounts : a = link[c]
  BY <1>1 DEF DeleteLink, Linked
<1>2. /\ Dispatch(link', policy, {c}, "link.deleted", a) /\ ops' = ops + 1
      /\ link' = [link EXCEPT ![c] = NoAccount] /\ unlinked' = unlinked \cup {<<c, a>>}
      /\ UNCHANGED <<user, policy, rows, nextId, reach, limits, crashes, gaveUp>>
  BY <1>a DEF DeleteLink, AdminOp
<1>3. /\ link' \in [Clients -> Accounts \cup {NoAccount}] /\ link'[c] = NoAccount
      /\ \A d \in Clients : d # c => link'[d] = link[d]
  BY <1>1, <1>2
<1>4. Started(link', policy, {c}, Unlink(a))
  <2>1. {c} \in SUBSET Clients
    OBVIOUS
  <2> QED
    BY <1>1, <1>2, <1>3, <2>1, Payloads, Dispatched DEF Unlink
<1>5. Typed'
  BY <1>2, <1>3, <1>4 DEF IInv, Typed, Started
<1>6. Current'
  <2>1. ASSUME NEW d \in Clients, link'[d] # NoAccount PROVE CurrentOn(d)'
    <3>1. d # c /\ CurrentOn(d) /\ link'[d] = link[d]
      BY <1>3, <2>1 DEF IInv, Current, Linked
    <3> QED
      BY <1>2, <1>4, <3>1, DispatchElsewhere
  <2> QED
    BY <2>1 DEF Current, Linked
<1>7. Freeing'
  <2>1. ASSUME NEW t \in unlinked PROVE link'[t[1]] = NoAccount /\ FreeingOn(t[1], t[2])'
    <3>1. t[1] \in Clients /\ t[2] \in Accounts /\ link[t[1]] = NoAccount /\ FreeingOn(t[1], t[2])
      BY DEF IInv, Typed, Freeing
    <3>2. t[1] # c
      BY <3>1 DEF DeleteLink, Linked
    <3> QED
      BY <1>2, <1>3, <1>4, <3>1, <3>2, DispatchElsewhere
  <2>2. FreeingOn(c, a)'
    <3>1. ASSUME NEW e, e = Run(link', policy, c, Unlink(a), ops + 1, 0)
          PROVE  e.want = Unrestricted /\ Frees(e, c, a)'
      <4>1. Unlink(a) \in Payload /\ ops + 1 \in Nat
        <5>1. ops + 1 \in Nat
          BY <1>1
        <5> QED
          BY <1>a, <5>1, Payloads, Zenon
      <4>2. AccountFor(link', c, Unlink(a)) = a /\ a # NoAccount
        BY <1>a, <1>3 DEF AccountFor, Unlink, ConstantsOK
      <4>3. /\ e.client = c /\ e.payload = Unlink(a) /\ e.acct = a /\ e.want = Unrestricted
            /\ \A f \in Fields : e.want[f] # None => f \in Members(e.left)
        BY <1>1, <1>3, <3>1, <4>1, <4>2, RunStarts DEF ValuesFor
      <4> QED
        BY <4>3, UnrestrictedTyped DEF Frees
    <3>2. Busy(c)' /\ (c \notin overlap' => \A e \in execs' : e.client = c => e = Run(link', policy, c, Unlink(a), ops + 1, 0))
      BY <1>4 DEF Started
    <3> QED
      BY <3>1, <3>2 DEF FreeingOn, Clean, Busy
  <2> QED
    BY <1>2, <1>3, <2>1, <2>2 DEF Freeing
<1> QED
  BY <1>4, <1>5, <1>6, <1>7 DEF IInv, Started

\* No link is left.
LEMMA DeleteUserIInv == ASSUME ConstantsOK, IInv, DeleteUser PROVE IInv'
<1>1. link \in [Clients -> Accounts \cup {NoAccount}] /\ policy \in [Fields -> Values] /\ ops \in Nat
  BY DEF IInv, Typed
<1>2. /\ Dispatch(link', policy, Linked, "user.deleted", NoAccount) /\ ops' = ops + 1
      /\ link' = [c \in Clients |-> NoAccount]
      /\ UNCHANGED <<policy, unlinked, rows, nextId, reach, limits, crashes, gaveUp>>
  BY DEF DeleteUser, AdminOp
<1>3. link' \in [Clients -> Accounts \cup {NoAccount}] /\ Linked' = {} /\ Linked \in SUBSET Clients
  BY <1>2 DEF Linked
<1>4. Started(link', policy, Linked, [reason |-> "user.deleted", acct |-> NoAccount])
  BY <1>1, <1>2, <1>3, Payloads, Dispatched
<1>5. Typed'
  BY <1>2, <1>3, <1>4 DEF IInv, Typed, Started
<1>6. Freeing'
  <2>1. ASSUME NEW t \in unlinked PROVE link'[t[1]] = NoAccount /\ FreeingOn(t[1], t[2])'
    <3>1. t[1] \in Clients /\ t[2] \in Accounts /\ link[t[1]] = NoAccount /\ FreeingOn(t[1], t[2])
      BY DEF IInv, Typed, Freeing
    <3> QED
      BY <1>2, <1>4, <3>1, DispatchElsewhere DEF Linked
  <2> QED
    BY <1>2, <2>1 DEF Freeing
<1> QED
  BY <1>3, <1>4, <1>5, <1>6 DEF IInv, Current, Started

\* A setter call: what the executor has left to call shrinks by what is now in force.
LEMMA SetterIInv == ASSUME ConstantsOK, IInv, NEW e \in execs, Setter(e) PROVE IInv'
<1> DEFINE c == e.client
           h == Head(e.left)
<1>1. PICK d : d = [e EXCEPT !.left = Tail(e.left)]
  OBVIOUS
<1>2. /\ execs' = (execs \ {e}) \cup {d} /\ e.left # << >>
      /\ limits' = [limits EXCEPT ![c][e.acct][h] = e.want[h]]
      /\ UNCHANGED <<user, link, policy, unlinked, rows, nextId, reach, ops, crashes, overlap, gaveUp>>
  BY <1>1 DEF Setter, store
<1>3. e \in Exec /\ e.acct \in Accounts /\ c \in Clients /\ e.left \in Seq(Fields) /\ e.want \in [Fields -> Values]
  BY <1>2 DEF IInv, Typed, Exec
<1>4. h \in Fields /\ Tail(e.left) \in Seq(Fields) /\ Members(e.left) = {h} \cup Members(Tail(e.left))
  <2>1. /\ h \in Fields /\ Tail(e.left) \in Seq(Fields) /\ Len(e.left) \in Nat \ {0} /\ h = e.left[1]
        /\ Len(Tail(e.left)) = Len(e.left) - 1 /\ \A i \in 1..Len(Tail(e.left)) : Tail(e.left)[i] = e.left[i + 1]
    <3>1. e.left \in Seq(Fields) /\ e.left # << >>
      BY <1>2, <1>3
    <3>2. Len(e.left) \in Nat \ {0}
      BY <3>1, EmptySeq
    <3>3. h = e.left[1]
      BY <3>1, <3>2
    <3> QED
      BY <3>1, <3>2, <3>3, HeadTailProperties
  <2>2. \A i \in 1..Len(e.left) : i = 1 \/ (i - 1 \in 1..Len(Tail(e.left)) /\ Tail(e.left)[i - 1] = e.left[i])
    BY <2>1
  <2>3. \A i \in 1..Len(Tail(e.left)) : i + 1 \in 1..Len(e.left)
    BY <2>1
  <2>4. 1 \in 1..Len(e.left)
    BY <2>1
  <2>5. ASSUME NEW x \in Members(e.left) PROVE x \in {h} \cup Members(Tail(e.left))
    <3>1. PICK i \in 1..Len(e.left) : x = e.left[i]
      BY DEF Members
    <3>2. CASE i = 1
      BY <2>1, <3>1, <3>2
    <3>3. CASE i # 1
      BY <2>2, <3>1, <3>3 DEF Members
    <3> QED
      BY <3>2, <3>3
  <2>6. ASSUME NEW x \in Members(Tail(e.left)) PROVE x \in Members(e.left)
    <3>1. PICK i \in 1..Len(Tail(e.left)) : x = Tail(e.left)[i]
      BY DEF Members
    <3> QED
      BY <2>1, <2>3, <3>1 DEF Members
  <2>7. h \in Members(e.left)
    BY <2>1, <2>4 DEF Members
  <2> HIDE DEF h
  <2> QED
    BY <2>1, <2>5, <2>6, <2>7
<1>5. /\ d \in Exec /\ d.client = c /\ d.acct = e.acct /\ d.want = e.want /\ d.payload = e.payload /\ d.id = e.id
      /\ d.left = Tail(e.left)
  BY <1>1, <1>3, <1>4 DEF Exec
<1>6. limits' \in [Clients -> [Accounts -> [Fields -> Values]]]
  BY <1>2, <1>3, <1>4 DEF IInv, Typed
<1>7. /\ \A k \in Clients : k # c => limits'[k] = limits[k]
      /\ \A a \in Accounts : a # e.acct => limits'[c][a] = limits[c][a]
      /\ \A f \in Fields : limits'[c][e.acct][f] = IF f = h THEN e.want[f] ELSE limits[c][e.acct][f]
  BY <1>2, <1>3, <1>4 DEF IInv, Typed
<1> HIDE DEF h
<1>8. Typed'
  BY <1>2, <1>3, <1>5, <1>6 DEF IInv, Typed
<1>9. OneRow' /\ OneExec' /\ RowHeld'
  BY <1>2, <1>5 DEF IInv, OneRow, OneExec, RowHeld
<1>10. c \notin overlap => \A x \in execs' : x.client = c => x = d
  BY <1>2, <1>5 DEF IInv, OneExec
<1>11. /\ Busy(c) /\ Busy(c)' /\ \A k \in Clients : Clean(k)' <=> Clean(k)
       /\ \A k \in Clients : k # c => \A x : x \in execs' /\ x.client = k <=> x \in execs /\ x.client = k
  BY <1>2, <1>5 DEF Busy, Clean
<1>12. ASSUME NEW k \in Clients, CurrentOn(k), link[k] # NoAccount PROVE CurrentOn(k)'
  <2>1. CASE k # c
    BY <1>2, <1>7, <1>11, <1>12, <2>1, CurrentElsewhere
  <2>2. CASE k = c
    <3>1. ASSUME Clean(c)
          PROVE  /\ d.acct = link[c] /\ d.want = policy
                 /\ \A f \in Fields : policy[f] # None /\ f \notin Members(d.left) => limits'[c][link[c]][f] = policy[f]
      <4>1. /\ e.acct = link[c] /\ e.want = policy
            /\ \A f \in Fields : policy[f] # None /\ f \notin Members(e.left) => limits[c][link[c]][f] = policy[f]
        BY <1>12, <2>2, <3>1 DEF CurrentOn
      <4> QED
        BY <1>4, <1>5, <1>7, <4>1
    <3> QED
      BY <1>2, <1>10, <1>11, <2>2, <3>1 DEF CurrentOn, Clean
  <2> QED
    BY <2>1, <2>2
<1>13. ASSUME NEW k \in Clients, NEW a \in Accounts, FreeingOn(k, a) PROVE FreeingOn(k, a)'
  <2>1. CASE k # c
    BY <1>2, <1>7, <1>11, <1>13, <2>1, FreeingElsewhere
  <2>2. CASE k = c
    <3>1. ASSUME Clean(c)
          PROVE  d.want = Unrestricted /\ (limits'[c][a] = Unrestricted \/ Frees(d, c, a)')
      <4>1. e.want = Unrestricted
        BY <1>13, <2>2, <3>1 DEF FreeingOn
      <4>2. limits[c][a] = Unrestricted \/ Frees(e, c, a)
        BY <1>11, <1>13, <2>2, <3>1 DEF FreeingOn, Clean, IInv, OneExec, Frees
      <4>3. CASE limits[c][a] = Unrestricted
        <5>1. limits'[c][a] \in [Fields -> Values] /\ \A f \in Fields : limits'[c][a][f] = Unrestricted[f]
          BY SMTT(30), <1>3, <1>6, <1>7, <4>1, <4>3
        <5>2. limits'[c][a] = Unrestricted
          BY <5>1, UnrestrictedTyped
        <5> QED
          BY <1>5, <4>1, <5>2
      <4>4. CASE Frees(e, c, a)
        BY <1>4, <1>5, <1>7, <4>1, <4>4, UnrestrictedTyped DEF Frees
      <4> QED
        BY <4>2, <4>3, <4>4
    <3>2. d \in execs'
      BY <1>2
    <3> QED
      BY <1>10, <1>11, <1>2, <2>2, <3>1, <3>2 DEF FreeingOn, Clean
  <2> QED
    BY <2>1, <2>2
<1>14. Current' /\ Freeing'
  BY <1>2, <1>12, <1>13 DEF IInv, Typed, Current, Freeing, Linked
<1> QED
  BY <1>8, <1>9, <1>14 DEF IInv

\* When an executor ends, its client has no other unless they have overlapped, and
\* what it leaves behind on that client decides the rest.
LEMMA ExecutorEnds ==
  ASSUME IInv, NEW e \in execs, execs' = execs \ {e},
         UNCHANGED <<link, policy, unlinked, limits, overlap>>, gaveUp \subseteq gaveUp',
         \A k \in Clients : k # e.client => PendingFor(rows', k) = PendingFor(rows, k),
         Clean(e.client)' /\ link[e.client] # NoAccount =>
           PendingFor(rows', e.client) # {} \/ Enforced(e.client),
         Clean(e.client)' => \A a \in Accounts : limits[e.client][a] # Unrestricted /\ Frees(e, e.client, a) =>
           \E r \in PendingFor(rows', e.client) : r.payload = Unlink(a)
  PROVE  Current' /\ Freeing' /\ OneExec'
<1> DEFINE c == e.client
<1>1. c \in Clients /\ Busy(c)
  BY DEF IInv, Typed, Exec, Busy
<1>2. c \notin overlap' => ~Busy(c)'
  BY DEF IInv, OneExec, Busy
<1>3. \A k \in Clients : Clean(k)' => Clean(k)
  BY DEF Clean
<1>4. \A k \in Clients : k # c => \A x : x \in execs' /\ x.client = k <=> x \in execs /\ x.client = k
  OBVIOUS
<1>5. ASSUME NEW k \in Clients, CurrentOn(k), link[k] # NoAccount PROVE CurrentOn(k)'
  <2>1. CASE k # c
    BY <1>3, <1>4, <1>5, <2>1, CurrentElsewhere
  <2>2. CASE k = c
    BY <1>2, <1>5, <2>2 DEF CurrentOn, Clean, Busy, Enforced
  <2> QED
    BY <2>1, <2>2
<1>6. ASSUME NEW k \in Clients, NEW a \in Accounts, FreeingOn(k, a) PROVE FreeingOn(k, a)'
  <2>1. CASE k # c
    BY <1>3, <1>4, <1>6, <2>1, FreeingElsewhere
  <2>2. CASE k = c
    <3>1. SUFFICES ASSUME Clean(c)'
                   PROVE  limits[c][a] = Unrestricted \/ \E r \in PendingFor(rows', c) : r.payload = Unlink(a)
      BY <1>2, <2>2 DEF FreeingOn, Clean, Busy
    <3>2. limits[c][a] = Unrestricted \/ Frees(e, c, a)
      BY <1>1, <1>3, <1>6, <2>2, <3>1 DEF FreeingOn, Clean, IInv, OneExec, Frees
    <3> QED
      BY <3>1, <3>2
  <2> QED
    BY <2>1, <2>2
<1>7. Current' /\ Freeing'
  BY <1>5, <1>6 DEF IInv, Typed, Current, Freeing, Linked
<1> QED
  BY <1>7 DEF IInv, OneExec

\* The last call answered: everything the executor wanted is in force.
LEMMA FinishIInv == ASSUME ConstantsOK, IInv, NEW e \in execs, Finish(e) PROVE IInv'
<1>1. /\ execs' = execs \ {e} /\ e.left = << >> /\ rows' = IF e.id = 0 THEN rows ELSE MarkDrained(rows, e.id)
      /\ UNCHANGED <<user, link, policy, unlinked, nextId, reach, limits, ops, crashes, overlap, gaveUp>>
  BY DEF Finish, store
<1>2. e \in Exec /\ e.client \in Clients /\ Members(e.left) = {}
  BY <1>1 DEF IInv, Typed, Exec, Members
<1>3. rows' \subseteq rows /\ \A r \in rows : r \in rows' \/ (e.id # 0 /\ r.id = e.id)
  BY <1>1 DEF MarkDrained
<1>4. \A k \in Clients : k # e.client => PendingFor(rows', k) = PendingFor(rows, k)
  BY <1>3 DEF IInv, RowHeld, PendingFor
<1>5. Clean(e.client)' /\ link[e.client] # NoAccount => Enforced(e.client)
  BY <1>1, <1>2 DEF IInv, Current, Linked, CurrentOn, Clean, Enforced
<1>6. ASSUME NEW a \in Accounts, Frees(e, e.client, a) PROVE limits[e.client][a] = Unrestricted
  <2>1. limits[e.client][a] \in [Fields -> Values] /\ \A f \in Fields : limits[e.client][a][f] = "max"
    BY <1>2, <1>6 DEF Frees, IInv, Typed
  <2> QED
    BY <2>1, UnrestrictedTyped
<1>7. Current' /\ Freeing' /\ OneExec'
  BY <1>1, <1>4, <1>5, <1>6, ExecutorEnds
<1>8. Typed'
  BY <1>1, <1>3 DEF IInv, Typed
<1>9. OneRow'
  BY <1>1, <1>3 DEF IInv, OneRow
<1>10. RowHeld'
  <2>1. ASSUME NEW d \in execs', d.id # 0 PROVE d \in execs /\ rows' = rows
    BY <1>1, <2>1 DEF IInv, OneExec
  <2> QED
    BY <1>1, <2>1 DEF IInv, RowHeld
<1> QED
  BY <1>7, <1>8, <1>9, <1>10 DEF IInv

\* What a queued push leaves in the table.
LEMMA Queued ==
  ASSUME IInv, NEW c \in Clients, NEW p \in Payload, NEW R, R = Enqueue(rows, nextId, c, Key, p)
  PROVE  /\ R \subseteq QueueRow
         /\ \A r : r.client # c => (r \in R <=> r \in rows)
         /\ \A r \in R : r.client = c =>
              /\ r.payload = p /\ r.status = "pending"
              /\ \/ \E s \in rows : s.client = c /\ s.id = r.id
                 \/ ~Conflict(rows, c, Key) /\ r.id = nextId
         /\ \E r \in R : r.client = c
         /\ \A r, s \in R : r.client = c /\ s.client = c => r = s
<1>1. rows \subseteq QueueRow /\ \A r \in rows : For(r, c, Key) <=> r.client = c
  BY DEF IInv, Typed, QueueRow, For
<1>2. CASE Conflict(rows, c, Key)
  <2>1. PICK s \in rows : s.client = c
    BY <1>1, <1>2 DEF Conflict
  <2>2. PICK t : t = Rearmed(s, p)
    OBVIOUS
  <2>3. t \in QueueRow /\ t.client = c /\ t.id = s.id /\ t.payload = p /\ t.status = "pending"
    BY <1>1, <2>1, <2>2 DEF Rearmed, QueueRow, Status
  <2>4. \A r \in rows : r.client = c <=> r = s
    BY <2>1 DEF IInv, OneRow
  <2>5. R = {IF For(r, c, Key) THEN Rearmed(r, p) ELSE r : r \in rows}
    BY <1>2 DEF Enqueue
  <2>6. R = (rows \ {s}) \cup {t}
    BY <1>1, <2>1, <2>2, <2>4, <2>5
  <2> QED
    BY <1>1, <2>1, <2>3, <2>4, <2>6
<1>3. CASE ~Conflict(rows, c, Key)
  <2>1. PICK t : t = [id |-> nextId, client |-> c, key |-> Key, payload |-> p, status |-> "pending"]
    OBVIOUS
  <2>2. t \in QueueRow /\ t.client = c /\ t.id = nextId /\ t.payload = p /\ t.status = "pending"
    BY <2>1 DEF IInv, Typed, QueueRow, Status
  <2>3. R = rows \cup {t} /\ \A r \in rows : r.client # c
    BY <1>1, <1>3, <2>1 DEF Enqueue, Conflict
  <2> QED
    BY <1>1, <1>3, <2>2, <2>3
<1> QED
  BY <1>2, <1>3

\* A retriable failure leaves a pending row with the executor's payload.
LEMMA FailRetriablyIInv == ASSUME ConstantsOK, IInv, NEW e \in execs, FailRetriably(e) PROVE IInv'
<1> DEFINE c == e.client
<1>1. /\ execs' = execs \ {e}
      /\ rows' = IF e.id = 0 THEN Enqueue(rows, nextId, c, Key, e.payload) ELSE rows
      /\ nextId' = IF e.id = 0 THEN NextId(rows, nextId, c, Key) ELSE nextId
      /\ UNCHANGED <<user, link, policy, unlinked, reach, limits, ops, crashes, overlap, gaveUp>>
  BY DEF FailRetriably, store, RecordAttempt
<1>2. c \in Clients /\ e.payload \in Payload
  BY DEF IInv, Typed, Exec
<1>3. CASE e.id # 0
  <2>1. rows' = rows /\ nextId' = nextId
    BY <1>1, <1>3
  <2>2. Clean(c)' => \E r \in PendingFor(rows', c) : r.payload = e.payload
    BY <1>1, <1>3, <2>1 DEF IInv, RowHeld, Clean
  <2>3. Current' /\ Freeing' /\ OneExec'
    BY <1>1, <2>1, <2>2, ExecutorEnds DEF Frees
  <2>4. Typed' /\ OneRow' /\ RowHeld'
    BY <1>1, <2>1 DEF IInv, Typed, OneRow, RowHeld
  <2> QED
    BY <2>3, <2>4 DEF IInv
<1>4. CASE e.id = 0
  <2>1. /\ rows' \subseteq QueueRow
        /\ \A r : r.client # c => (r \in rows' <=> r \in rows)
        /\ \A r \in rows' : r.client = c =>
             /\ r.payload = e.payload /\ r.status = "pending"
             /\ \/ \E s \in rows : s.client = c /\ s.id = r.id
                \/ ~Conflict(rows, c, Key) /\ r.id = nextId
        /\ \E r \in rows' : r.client = c
        /\ \A r, s \in rows' : r.client = c /\ s.client = c => r = s
    BY <1>1, <1>2, <1>4, Queued
  <2>2. \E r \in PendingFor(rows', c) : r.payload = e.payload
    BY <2>1 DEF PendingFor
  <2>3. \A k \in Clients : k # c => PendingFor(rows', k) = PendingFor(rows, k)
    BY <2>1 DEF PendingFor
  <2>4. Current' /\ Freeing' /\ OneExec'
    BY <1>1, <2>2, <2>3, ExecutorEnds DEF Frees
  <2>5. nextId \in Nat \ {0} /\ nextId' \in Nat \ {0} /\ nextId <= nextId' /\ (~Conflict(rows, c, Key) => nextId' = nextId + 1)
    BY <1>1, <1>4 DEF IInv, Typed, NextId
  <2>6. Typed'
    BY <1>1, <2>1, <2>5 DEF IInv, Typed
  <2>7. \A r \in rows : r.id \in Nat /\ r.id < nextId
    BY DEF IInv, Typed, OneRow, QueueRow
  <2>8. \A x \in execs : x.id \in Nat /\ x.id < nextId
    BY DEF IInv, Typed, OneRow, Exec
  <2>9. \A r \in rows' : \/ r.client # c /\ r \in rows
                         \/ r.client = c /\ \E s \in rows : s.client = c /\ s.id = r.id
                         \/ r.client = c /\ ~Conflict(rows, c, Key) /\ r.id = nextId
    BY <2>1
  <2>10. OneRow'
    <3>1. ASSUME NEW r \in rows', NEW s \in rows', r.id = s.id, r.client # c PROVE r = s
      <4>1. r \in rows /\ r.id < nextId
        BY <2>7, <2>9, <3>1
      <4>2. CASE s.client # c
        BY <2>9, <3>1, <4>1, <4>2 DEF IInv, OneRow
      <4>3. CASE s.client = c
        BY <2>5, <2>9, <3>1, <4>1, <4>3 DEF IInv, OneRow
      <4> QED
        BY <4>2, <4>3
    <3>2. \A r, s \in rows' : r.id = s.id \/ r.client = s.client => r = s
      BY <2>1, <2>9, <3>1 DEF IInv, OneRow
    <3>3. \A r \in rows' : r.id < nextId'
      BY <2>5, <2>7, <2>9
    <3>4. \A x \in execs' : x.id < nextId'
      BY <1>1, <2>5, <2>8
    <3> QED
      BY <3>2, <3>3, <3>4 DEF OneRow
  <2>11. RowHeld'
    <3>1. ASSUME NEW d \in execs', d.id # 0, NEW r \in rows', r.id = d.id PROVE r.client = d.client
      BY <1>1, <2>5, <2>8, <2>9, <3>1 DEF IInv, RowHeld
    <3>2. ASSUME NEW d \in execs', d.id # 0, d.client \notin overlap'
          PROVE  \E r \in PendingFor(rows', d.client) : r.id = d.id /\ r.payload = d.payload
      <4>1. d \in execs /\ d.client # c /\ d.client \in Clients
        BY <1>1, <3>2 DEF IInv, OneExec, Typed, Exec
      <4> QED
        BY <1>1, <2>3, <3>2, <4>1 DEF IInv, RowHeld
    <3> QED
      BY <3>1, <3>2 DEF RowHeld
  <2> QED
    BY <2>4, <2>6, <2>10, <2>11 DEF IInv
<1> QED
  BY <1>3, <1>4

\* A failure for good takes the client out of the claim, and no other client's row.
LEMMA FailForGoodIInv == ASSUME ConstantsOK, IInv, NEW e \in execs, FailForGood(e) PROVE IInv'
<1>1. /\ execs' = execs \ {e} /\ gaveUp' = gaveUp \cup {e.client}
      /\ rows' = IF e.id = 0 THEN rows ELSE MarkFailed(rows, e.id)
      /\ UNCHANGED <<user, link, policy, unlinked, nextId, reach, limits, ops, crashes, overlap>>
  BY DEF FailForGood, store
<1>2. e.client \in Clients /\ rows \subseteq QueueRow
  BY DEF IInv, Typed, Exec
<1>3. ASSUME NEW r \in rows, NEW s, s = [r EXCEPT !.status = "failed"]
      PROVE  s \in QueueRow /\ s.id = r.id /\ s.client = r.client
  BY <1>2, <1>3 DEF QueueRow, Status
<1>4. ASSUME NEW s \in rows'
      PROVE  s \in QueueRow /\ (s \in rows \/ (e.id # 0 /\ s.id = e.id)) /\ \E r \in rows : r.id = s.id /\ r.client = s.client
  <2>1. CASE e.id = 0
    BY <1>1, <1>2, <2>1
  <2>2. CASE e.id # 0
    <3>1. PICK r \in rows : s = IF r.id = e.id THEN [r EXCEPT !.status = "failed"] ELSE r
      BY <1>1, <2>2 DEF MarkFailed
    <3> QED
      BY <1>2, <1>3, <2>2, <3>1
  <2> QED
    BY <2>1, <2>2
<1>5. \A r \in rows : r \in rows' \/ (e.id # 0 /\ r.id = e.id)
  BY <1>1 DEF MarkFailed
<1>6. \A r, s \in rows' : r.id = s.id => r = s
  <2>1. CASE e.id = 0
    BY <1>1, <2>1 DEF IInv, OneRow
  <2>2. CASE e.id # 0
    BY <1>1, <1>3, <2>2 DEF MarkFailed, IInv, OneRow
  <2> QED
    BY <2>1, <2>2
<1>7. \A k \in Clients : k # e.client => PendingFor(rows', k) = PendingFor(rows, k)
  BY <1>4, <1>5 DEF IInv, RowHeld, PendingFor
<1>8. ~Clean(e.client)'
  BY <1>1 DEF Clean
<1>9. Current' /\ Freeing' /\ OneExec'
  BY <1>1, <1>7, <1>8, ExecutorEnds
<1>10. Typed'
  BY <1>1, <1>4 DEF IInv, Typed
<1>11. OneRow'
  BY <1>1, <1>4, <1>6 DEF IInv, OneRow
<1>12. RowHeld'
  <2>1. ASSUME NEW d \in execs', d.id # 0 PROVE d \in execs /\ rows' = rows
    BY <1>1, <2>1 DEF IInv, OneExec
  <2> QED
    BY <1>1, <2>1 DEF IInv, RowHeld
<1> QED
  BY <1>9, <1>10, <1>11, <1>12 DEF IInv

\* The drainer's executor reads the store as it is now, and frees the account its
\* row names if the client is not linked.
LEMMA DrainStartIInv == ASSUME ConstantsOK, IInv, NEW c \in Clients, DrainStart(c) PROVE IInv'
<1>1. PICK r \in PendingFor(rows, c) : execs' = execs \cup {Run(link, policy, c, r.payload, 0, r.id)}
  BY DEF DrainStart
<1>2. PICK d : d = Run(link, policy, c, r.payload, 0, r.id)
  OBVIOUS
<1>3. /\ ~Draining /\ execs' = execs \cup {d} /\ overlap' = IF Busy(c) THEN overlap \cup {c} ELSE overlap
      /\ UNCHANGED <<user, link, policy, unlinked, rows, nextId, reach, limits, ops, crashes, gaveUp>>
  BY <1>1, <1>2 DEF DrainStart, store
<1>4. /\ r \in rows /\ r.client = c /\ r.id \in Nat \ {0} /\ r.payload \in Payload /\ r.id < nextId
      /\ link \in [Clients -> Accounts \cup {NoAccount}] /\ policy \in [Fields -> Values]
  BY <1>1 DEF IInv, Typed, OneRow, PendingFor, QueueRow
<1>5. /\ d \in Exec /\ (d.left # << >> => d.acct \in Accounts) /\ d.client = c /\ d.payload = r.payload /\ d.id = r.id
      /\ d.acct = AccountFor(link, c, r.payload) /\ d.want = ValuesFor(link, policy, c)
      /\ d.acct # NoAccount => \A f \in Fields : d.want[f] # None => f \in Members(d.left)
  BY <1>2, <1>4, RunStarts
<1>6. c \notin overlap' => ~Busy(c) /\ \A x \in execs' : x.client = c => x = d
  BY <1>3, <1>5 DEF Busy
<1>7. \A x \in execs : x.id = 0
  BY <1>3 DEF Draining
<1>8. Typed'
  BY <1>3, <1>5 DEF IInv, Typed
<1>9. OneRow'
  BY <1>3, <1>4, <1>5 DEF IInv, OneRow
<1>10. OneExec'
  BY <1>3, <1>5, <1>6, <1>7 DEF IInv, OneExec
<1>11. RowHeld'
  <2>1. \A s \in rows : s.id = d.id => s.client = c
    BY <1>4, <1>5 DEF IInv, OneRow
  <2> QED
    BY <1>1, <1>3, <1>4, <1>5, <1>7, <2>1 DEF RowHeld
<1>12. /\ Busy(c)' /\ \A k \in Clients : Clean(k)' => Clean(k)
       /\ \A k \in Clients : k # c => \A x : x \in execs' /\ x.client = k <=> x \in execs /\ x.client = k
  BY <1>3, <1>5 DEF Busy, Clean
<1>13. Current'
  <2>1. ASSUME NEW k \in Clients, k # c, link[k] # NoAccount PROVE CurrentOn(k)'
    <3>1. CurrentOn(k)
      BY <2>1 DEF IInv, Current, Linked
    <3> QED
      BY <1>3, <1>12, <2>1, <3>1, CurrentElsewhere
  <2>2. ASSUME link[c] # NoAccount PROVE CurrentOn(c)'
    <3>1. d.acct = link[c] /\ d.want = policy /\ \A f \in Fields : policy[f] # None => f \in Members(d.left)
      BY <1>5, <2>2 DEF AccountFor, ValuesFor
    <3> QED
      BY <1>3, <1>6, <1>12, <3>1 DEF CurrentOn, Clean
  <2> QED
    BY <1>3, <2>1, <2>2 DEF Current, Linked
<1>14. Freeing'
  <2>1. ASSUME NEW k \in Clients, NEW a \in Accounts, link[k] = NoAccount, FreeingOn(k, a) PROVE FreeingOn(k, a)'
    <3>1. CASE k # c
      BY <1>3, <1>12, <2>1, <3>1, FreeingElsewhere
    <3>2. CASE k = c
      <4>1. SUFFICES ASSUME Clean(c)' PROVE d.want = Unrestricted /\ (limits[c][a] = Unrestricted \/ Frees(d, c, a)')
        BY <1>3, <1>6, <3>2 DEF FreeingOn, Clean
      <4>2. d.want = Unrestricted /\ Clean(c) /\ ~Busy(c)
        BY <1>5, <1>6, <1>12, <2>1, <3>2, <4>1 DEF ValuesFor, Clean
      <4>3. limits[c][a] = Unrestricted \/ \E s \in PendingFor(rows, c) : s.payload = Unlink(a)
        BY <2>1, <3>2, <4>2 DEF FreeingOn, Frees, Busy
      <4>4. ASSUME NEW s \in PendingFor(rows, c), s.payload = Unlink(a) PROVE Frees(d, c, a)'
        <5>1. r.payload = Unlink(a)
          BY <1>4, <4>4 DEF IInv, OneRow, PendingFor
        <5>2. d.acct = a /\ a # NoAccount
          BY <1>5, <2>1, <3>2, <5>1 DEF AccountFor, Unlink, ConstantsOK
        <5> QED
          BY <1>5, <4>2, <5>1, <5>2, UnrestrictedTyped DEF Frees
      <4> QED
        BY <4>2, <4>3, <4>4
    <3> QED
      BY <3>1, <3>2
  <2> QED
    BY <1>3, <2>1 DEF IInv, Typed, Freeing
<1> QED
  BY <1>8, <1>9, <1>10, <1>11, <1>13, <1>14 DEF IInv

\* A crash loses the online pushes, whose clients are then out of the claim; the
\* row of the push being drained is still pending.
LEMMA CrashIInv == ASSUME ConstantsOK, IInv, Crash PROVE IInv'
<1>1. /\ execs' = {} /\ gaveUp' = gaveUp \cup {e.client : e \in {x \in execs : x.id = 0}}
      /\ UNCHANGED <<user, link, policy, unlinked, rows, nextId, reach, limits, ops, overlap>>
  BY DEF Crash, store
<1>2. ASSUME NEW k \in Clients, Clean(k)', NEW e \in execs, e.client = k
      PROVE  Clean(k) /\ \E r \in PendingFor(rows, k) : r.payload = e.payload
  BY <1>1, <1>2 DEF Clean, IInv, RowHeld
<1>3. \A k \in Clients : ~Busy(k)' /\ (Clean(k)' => Clean(k))
  BY <1>1 DEF Busy, Clean
<1>4. ASSUME NEW k \in Clients, CurrentOn(k) PROVE CurrentOn(k)'
  <2>1. Clean(k)' => PendingFor(rows, k) # {} \/ Enforced(k)
    BY <1>2, <1>3, <1>4 DEF CurrentOn, Busy
  <2> QED
    BY <1>1, <2>1 DEF CurrentOn, Enforced
<1>5. ASSUME NEW k \in Clients, NEW a \in Accounts, FreeingOn(k, a) PROVE FreeingOn(k, a)'
  <2>1. Clean(k)' => limits[k][a] = Unrestricted \/ \E r \in PendingFor(rows, k) : r.payload = Unlink(a)
    BY <1>2, <1>3, <1>5 DEF FreeingOn, Frees
  <2> QED
    BY <1>1, <1>3, <2>1 DEF FreeingOn
<1>6. Current' /\ Freeing'
  BY <1>1, <1>4, <1>5 DEF IInv, Typed, Current, Freeing, Linked
<1>7. Typed' /\ OneRow' /\ OneExec' /\ RowHeld'
  BY <1>1 DEF IInv, Typed, OneRow, OneExec, RowHeld
<1> QED
  BY <1>6, <1>7 DEF IInv

\* Everything the invariant reads is as it was.
LEMMA SameIInv ==
  ASSUME IInv, UNCHANGED <<link, policy, unlinked, rows, nextId, execs, limits, ops, overlap, gaveUp>> PROVE IInv'
<1>1. Typed' /\ OneRow' /\ OneExec' /\ RowHeld'
  BY DEF IInv, Typed, OneRow, OneExec, RowHeld
<1>2. Current'
  BY DEF IInv, Current, Linked, CurrentOn, Clean, Busy, Enforced
<1>3. Freeing'
  BY DEF IInv, Freeing, FreeingOn, Frees, Clean, Busy
<1> QED
  BY <1>1, <1>2, <1>3 DEF IInv

LEMMA NextIInv == ASSUME ConstantsOK, IInv, [Next]_vars PROVE IInv'
<1>1. ASSUME NEW c \in Clients, Flip(c) PROVE IInv'
  BY <1>1, SameIInv DEF Flip, store
<1>2. CASE UNCHANGED vars
  BY <1>2, SameIInv DEF vars
<1> QED
  BY <1>1, <1>2, EditPolicyIInv, PushNowIInv, UpsertLinkIInv, DeleteLinkIInv, DeleteUserIInv, SetterIInv, FinishIInv,
     FailRetriablyIInv, FailForGoodIInv, DrainStartIInv, CrashIInv DEF Next, ExecStep

(* ---- what the runs check, for every instance ---- *)

LEMMA IInvConverged == ASSUME IInv PROVE ConvergedIfSerial
  BY DEF IInv, Current, CurrentOn, Clean, ConvergedIfSerial, Quiet

LEMMA IInvFreed == ASSUME IInv PROVE UnlinkedAccountFreed
<1>1. ASSUME NEW t \in unlinked, Quiet(t[1]), t[1] \notin overlap \cup gaveUp PROVE limits[t[1]][t[2]] = Unrestricted
  <2>1. FreeingOn(t[1], t[2]) /\ Clean(t[1]) /\ ~Busy(t[1]) /\ PendingFor(rows, t[1]) = {}
    BY <1>1 DEF IInv, Freeing, Clean, Quiet
  <2> QED
    BY <2>1 DEF FreeingOn, Frees, Busy
<1> QED
  BY <1>1 DEF UnlinkedAccountFreed

\* Once nothing is under way for a linked client whose executors did not overlap
\* and did not fail for good, its account has the policy now in the store: for any
\* clients, accounts and policies and any number of edits, offline spells and crashes.
THEOREM PushConverges == ASSUME ConstantsOK PROVE Spec => []ConvergedIfSerial
<1>1. Init => IInv
  BY InitIInv
<1>2. IInv /\ [Next]_vars => IInv'
  BY NextIInv
<1> QED
  BY <1>1, <1>2, IInvConverged, PTL DEF Spec

\* Under the same proviso an account whose link was explicitly deleted, and whose
\* client was not linked again, ends unrestricted, however late the push got through.
THEOREM UnlinkFrees == ASSUME ConstantsOK PROVE Spec => []UnlinkedAccountFreed
<1>1. Init => IInv
  BY InitIInv
<1>2. IInv /\ [Next]_vars => IInv'
  BY NextIInv
<1> QED
  BY <1>1, <1>2, IInvFreed, PTL DEF Spec

-----------------------------------------------------------------------------
(* ---- time today: what TimeToday declares, over the same rows ---- *)

CONSTANTS Ops, Amounts, Start, MaxNudges, MaxDay
VARIABLES day, remaining, answers, nudgeRows, nudgeNextId, online, drain, nudges, deaths,
          issued, due, disturbed

Today == INSTANCE TimeToday WITH
  reach <- answers, rows <- nudgeRows, nextId <- nudgeNextId, crashes <- deaths

\* The argument: every nudge has a queue row of its own, since its coalesce key is
\* its own; a target is written into the row before it is sent and from then on
\* nothing rewrites it; and a row id is never handed out again, so what was issued
\* under it is about that row only.

\* What every instance gives the constants: amounts of time are not negative.
NudgeConstantsOK == Amounts \subseteq Nat /\ Start \in Nat /\ MaxDay \in Nat

NudgePayload == [op : Ops, secs : Nat, date : Nat, asked : Nat, target : {Today!Unresolved} \cup Nat]
NudgeQueueRow == [id : Nat, client : {1}, key : Nat, payload : NudgePayload, status : Today!Status]
Call == [n : Nat, op : Ops, secs : Nat, asked : Nat, landed : BOOLEAN]
NudgeBusy == [id : Nat, p : NudgePayload, phase : {"info", "set", "done", "expired"}]

NudgeTyped ==
  /\ day \in 0..MaxDay /\ remaining \in Nat /\ answers \in BOOLEAN
  /\ nudgeRows \subseteq NudgeQueueRow /\ nudgeNextId \in Nat /\ nudges \in Nat
  /\ online \subseteq Call /\ drain \in {Today!Idle} \cup NudgeBusy
  /\ issued \subseteq Nat \X Nat /\ disturbed \subseteq Today!Spoilers

\* One row for an id, and ids are not handed out twice.
NudgeOneRow ==
  /\ \A r, s \in nudgeRows : r.id = s.id => r = s
  /\ \A r \in nudgeRows : r.id < nudgeNextId
  /\ \A t \in issued : t[1] < nudgeNextId

\* A nudge that is still with timekpra has no row, nor shares its key with another.
OwnKey ==
  /\ \A o, p \in online : o.n = p.n => o = p
  /\ \A o \in online : o.n <= nudges /\ \A r \in nudgeRows : r.key # o.n
  /\ \A r \in nudgeRows : r.key <= nudges

\* The executor works on a row as it stands in the table, and sends a target only
\* once it is resolved.
Held ==
  drain # Today!Idle =>
    /\ \E r \in nudgeRows : r.id = drain.id /\ r.payload = drain.p
    /\ drain.phase = "info" => drain.p.target = Today!Unresolved
    /\ drain.phase \in {"set", "done"} => drain.p.target \in Nat

\* What was issued for a row is what the row still says.
Persisted == \A t \in issued, r \in nudgeRows : r.id = t[1] => r.payload.target = t[2]

NudgeIInv == NudgeTyped /\ NudgeOneRow /\ OwnKey /\ Held /\ Persisted /\ Today!ReplaySameTarget

(* ---- the operators ---- *)

\* A non-empty set of naturals has a least element.
LEMMA LeastNatural ==
  ASSUME NEW I \in SUBSET Nat, I # {}
  PROVE  \E n \in I : \A m \in I : n <= m
<1>1. PICK n \in I : \A m \in I : ~ (<<m, n>> \in OpToRel(<, Nat))
  BY NatLessThanWellFounded, WFMin
<1>2. \A m \in I : ~(m < n)
  BY <1>1 DEF OpToRel
<1> QED
  BY <1>2

\* The row the drain loop takes is one of the pending rows.
LEMMA OldestPending ==
  ASSUME NEW S, S \subseteq NudgeQueueRow, S # {}
  PROVE  Today!Oldest(S) \in S
<1>1. {r.id : r \in S} \in SUBSET Nat /\ {r.id : r \in S} # {}
  BY DEF NudgeQueueRow
<1>2. PICK n \in {r.id : r \in S} : \A m \in {r.id : r \in S} : n <= m
  BY <1>1, LeastNatural
<1>3. \E r \in S : \A s \in S : r.id <= s.id
  BY <1>2
<1> QED
  BY <1>3 DEF Today!Oldest

\* timekpra's arithmetic never goes below zero.
LEMMA AppliedNat ==
  ASSUME NEW op, NEW n \in Nat, NEW t \in Nat
  PROVE  Today!Applied(op, n, t) \in Nat
BY DEF Today!Applied, Today!Max0

\* A step that touches neither the queue nor what was issued keeps what is said of them.
LEMMA QueueUntouched ==
  ASSUME NudgeIInv, UNCHANGED <<nudgeRows, nudgeNextId, issued>>
  PROVE  NudgeOneRow' /\ Persisted' /\ Today!ReplaySameTarget'
BY DEF NudgeIInv, NudgeOneRow, Persisted, Today!ReplaySameTarget

(* ---- adjustTimeToday ---- *)

LEMMA NudgeInitIInv == ASSUME NudgeConstantsOK, Today!Init PROVE NudgeIInv
BY DEF NudgeConstantsOK, Today!Init, NudgeIInv, NudgeTyped, NudgeOneRow, OwnKey, Held, Persisted, Today!ReplaySameTarget

LEMMA AskIInv ==
  ASSUME NudgeConstantsOK, NudgeIInv, NEW op \in Ops, NEW n \in Amounts, Today!Ask(op, n)
  PROVE  NudgeIInv'
<1> DEFINE new == [n |-> nudges + 1, op |-> op, secs |-> n, asked |-> day, landed |-> FALSE]
<1>1. new \in Call /\ new.n = nudges + 1
  BY DEF NudgeConstantsOK, NudgeIInv, NudgeTyped, Call
<1>2. online' = online \cup {new} /\ nudges' = nudges + 1
      /\ UNCHANGED <<day, remaining, answers, nudgeRows, nudgeNextId, drain, issued>>
  BY DEF Today!Ask
<1>3. disturbed' \subseteq Today!Spoilers
  BY DEF Today!Ask, NudgeIInv, NudgeTyped, Today!Spoil, Today!Spoilers
<1> HIDE DEF new
<1>4. NudgeTyped'
  BY <1>1, <1>2, <1>3 DEF NudgeIInv, NudgeTyped
<1>5. \A o \in online : o.n \in Nat /\ o.n <= nudges
  BY DEF NudgeIInv, NudgeTyped, OwnKey, Call
<1>6. \A r \in nudgeRows : r.key \in Nat /\ r.key <= nudges
  BY DEF NudgeIInv, NudgeTyped, OwnKey, NudgeQueueRow
<1>7. nudges \in Nat
  BY DEF NudgeIInv, NudgeTyped
<1>8. OwnKey'
  BY <1>1, <1>2, <1>5, <1>6, <1>7 DEF NudgeIInv, OwnKey
<1>9. Held'
  BY <1>2 DEF NudgeIInv, Held
<1> QED
  BY <1>2, <1>4, <1>8, <1>9, QueueUntouched DEF NudgeIInv

LEMMA OnlineLandsIInv == ASSUME NudgeIInv, NEW o \in online, Today!OnlineLands(o) PROVE NudgeIInv'
<1> DEFINE new == [o EXCEPT !.landed = TRUE]
<1>1. o \in Call /\ new \in Call /\ new.n = o.n
  BY DEF NudgeIInv, NudgeTyped, Call
<1>2. online' = (online \ {o}) \cup {new} /\ remaining' = Today!Applied(o.op, o.secs, remaining)
      /\ UNCHANGED <<day, answers, nudgeRows, nudgeNextId, drain, nudges, issued>>
  BY DEF Today!OnlineLands
<1>3. disturbed' \subseteq Today!Spoilers
  BY DEF Today!OnlineLands, NudgeIInv, NudgeTyped, Today!Spoil, Today!Spoilers
<1>4. remaining' \in Nat
  BY <1>1, <1>2, AppliedNat DEF NudgeIInv, NudgeTyped, Call
<1> HIDE DEF new
<1>5. NudgeTyped'
  BY <1>1, <1>2, <1>3, <1>4 DEF NudgeIInv, NudgeTyped
<1>6. OwnKey'
  BY <1>1, <1>2 DEF NudgeIInv, OwnKey
<1>7. Held'
  BY <1>2 DEF NudgeIInv, Held
<1> QED
  BY <1>2, <1>5, <1>6, <1>7, QueueUntouched DEF NudgeIInv

\* A call ends without leaving anything in the queue.
LEMMA OnlineEndsIInv ==
  ASSUME NudgeIInv, NEW o \in online, Today!OnlineApplied(o) \/ Today!OnlineFailed(o)
  PROVE  NudgeIInv'
<1>1. online' = online \ {o} /\ UNCHANGED <<day, remaining, answers, nudgeRows, nudgeNextId, drain, nudges, issued>>
  BY DEF Today!OnlineApplied, Today!OnlineFailed, Today!history
<1>2. disturbed' \subseteq Today!Spoilers
  BY DEF Today!OnlineApplied, Today!OnlineFailed, Today!history, NudgeIInv, NudgeTyped, Today!Spoil, Today!Spoilers
<1>3. NudgeTyped'
  BY <1>1, <1>2 DEF NudgeIInv, NudgeTyped
<1>4. OwnKey'
  BY <1>1 DEF NudgeIInv, OwnKey
<1>5. Held'
  BY <1>1 DEF NudgeIInv, Held
<1> QED
  BY <1>1, <1>3, <1>4, <1>5, QueueUntouched DEF NudgeIInv

\* The nudge's key is its own, so the upsert inserts.
LEMMA OnlineQueuedIInv == ASSUME NudgeIInv, NEW o \in online, Today!OnlineQueued(o) PROVE NudgeIInv'
<1> DEFINE pay == [op |-> o.op, secs |-> o.secs, date |-> day, asked |-> o.asked,
                   target |-> IF o.op = "=" THEN o.secs ELSE Today!Unresolved]
           new == [id |-> nudgeNextId, client |-> 1, key |-> o.n, payload |-> pay, status |-> "pending"]
<1>1. o \in Call /\ day \in Nat /\ nudgeNextId \in Nat /\ nudges \in Nat /\ o.n \in Nat
  BY DEF NudgeIInv, NudgeTyped, Call
<1>2. pay \in NudgePayload
  BY <1>1 DEF Call, NudgePayload
<1>3. new \in NudgeQueueRow /\ new.id = nudgeNextId /\ new.key = o.n
  <2> HIDE DEF pay
  <2> QED
    BY <1>1, <1>2 DEF NudgeQueueRow, Today!Status
<1>4. ~Today!Conflict(nudgeRows, 1, o.n)
  BY DEF NudgeIInv, OwnKey, Today!Conflict, Today!For
<1>5. online' = online \ {o} /\ nudgeRows' = nudgeRows \cup {new} /\ nudgeNextId' = nudgeNextId + 1
      /\ UNCHANGED <<day, remaining, answers, drain, nudges, issued>>
  BY <1>4 DEF Today!OnlineQueued, Today!Enqueue, Today!NextId
<1>6. disturbed' \subseteq Today!Spoilers
  BY DEF Today!OnlineQueued, NudgeIInv, NudgeTyped, Today!Spoil, Today!Spoilers
<1> HIDE DEF new, pay
<1>7. NudgeTyped'
  BY <1>1, <1>3, <1>5, <1>6 DEF NudgeIInv, NudgeTyped
<1>8. \A r \in nudgeRows : r.id \in Nat /\ r.id < nudgeNextId
  BY DEF NudgeIInv, NudgeTyped, NudgeOneRow, NudgeQueueRow
<1>9. \A t \in issued : t[1] \in Nat /\ t[1] < nudgeNextId
  BY DEF NudgeIInv, NudgeTyped, NudgeOneRow
<1>10. NudgeOneRow'
  BY <1>1, <1>3, <1>5, <1>8, <1>9 DEF NudgeIInv, NudgeOneRow
<1>11. OwnKey'
  BY <1>1, <1>3, <1>5 DEF NudgeIInv, OwnKey
<1>12. Held'
  BY <1>5 DEF NudgeIInv, Held
<1>13. Persisted'
  BY <1>1, <1>3, <1>5, <1>9 DEF NudgeIInv, Persisted
<1>14. Today!ReplaySameTarget'
  BY <1>5 DEF NudgeIInv, Today!ReplaySameTarget
<1> QED
  BY <1>7, <1>10, <1>11, <1>12, <1>13, <1>14 DEF NudgeIInv

(* ---- the drainer ---- *)

LEMMA NudgeDrainStartIInv == ASSUME NudgeIInv, Today!DrainStart PROVE NudgeIInv'
<1> DEFINE r == Today!Oldest(Today!PendingFor(nudgeRows, 1))
<1>1. Today!PendingFor(nudgeRows, 1) \subseteq nudgeRows /\ Today!PendingFor(nudgeRows, 1) # {} /\ nudgeRows \subseteq NudgeQueueRow
  BY DEF Today!DrainStart, Today!PendingFor, NudgeIInv, NudgeTyped
<1>2. r \in nudgeRows /\ r \in NudgeQueueRow
  BY <1>1, OldestPending
<1>3. drain' = [id |-> r.id, p |-> r.payload,
               phase |-> IF Today!Expired(r.payload) THEN "expired"
                         ELSE IF r.payload.target = Today!Unresolved THEN "info" ELSE "set"]
      /\ UNCHANGED <<day, remaining, answers, nudgeRows, nudgeNextId, online, nudges, issued, disturbed>>
  BY DEF Today!DrainStart
<1> HIDE DEF r
<1>4. r.id \in Nat /\ r.payload \in NudgePayload
  BY <1>2 DEF NudgeQueueRow
<1>5. /\ drain' \in NudgeBusy /\ drain'.id = r.id /\ drain'.p = r.payload
      /\ drain'.phase = "info" => r.payload.target = Today!Unresolved
      /\ drain'.phase \in {"set", "done"} => r.payload.target # Today!Unresolved
  BY <1>3, <1>4 DEF NudgeBusy
<1>6. r.payload.target \in {Today!Unresolved} \cup Nat
  BY <1>4 DEF NudgePayload
<1>7. NudgeTyped'
  BY <1>3, <1>5 DEF NudgeIInv, NudgeTyped
<1>8. OwnKey'
  BY <1>3 DEF NudgeIInv, OwnKey
<1>9. Held'
  BY <1>2, <1>3, <1>5, <1>6 DEF Held
<1> QED
  BY <1>3, <1>7, <1>8, <1>9, QueueUntouched DEF NudgeIInv

\* An executor that is under way, and the row it works on.
LEMMA HeldRow ==
  ASSUME NudgeIInv, drain.phase \in {"info", "set", "done", "expired"}
  PROVE  drain # Today!Idle /\ drain \in NudgeBusy /\ \E r \in nudgeRows : r.id = drain.id /\ r.payload = drain.p
BY DEF NudgeIInv, NudgeTyped, Held, Today!Idle

\* A row whose target is still open has never been issued: resolving it changes
\* nothing that was sent.
LEMMA DrainResolvesIInv == ASSUME NudgeIInv, Today!DrainResolves PROVE NudgeIInv'
<1> DEFINE T == Today!Applied(drain.p.op, drain.p.secs, remaining)
           p == [drain.p EXCEPT !.target = T]
           new(r) == IF r.id = drain.id THEN [r EXCEPT !.payload = p] ELSE r
<1>1. drain # Today!Idle /\ drain \in NudgeBusy /\ drain.phase = "info"
  BY HeldRow DEF Today!DrainResolves
<1>2. PICK h \in nudgeRows : h.id = drain.id /\ h.payload = drain.p
  BY <1>1, HeldRow
<1>3. drain.p \in NudgePayload /\ drain.id \in Nat /\ drain.p.target = Today!Unresolved
  BY <1>1 DEF NudgeBusy, NudgeIInv, Held
<1>4. T \in Nat
  BY <1>3, AppliedNat DEF NudgePayload, NudgeIInv, NudgeTyped
<1> HIDE DEF T
<1>5. p \in NudgePayload /\ p.target = T
  BY <1>3, <1>4 DEF NudgePayload
<1>6. /\ nudgeRows' = {new(r) : r \in nudgeRows}
      /\ drain' = [drain EXCEPT !.p = p, !.phase = "set"]
      /\ UNCHANGED <<day, remaining, answers, nudgeNextId, online, nudges, issued>>
  BY DEF Today!DrainResolves, Today!UpdatePayload, T
<1> HIDE DEF p
<1>7. drain' \in NudgeBusy /\ drain'.id = drain.id /\ drain'.p = p /\ drain'.phase = "set" /\ drain' # Today!Idle
  BY <1>1, <1>5, <1>6 DEF NudgeBusy, Today!Idle
<1>8. ASSUME NEW r \in nudgeRows
      PROVE  /\ new(r) \in NudgeQueueRow /\ new(r).id = r.id /\ new(r).key = r.key
             /\ r.id # drain.id => new(r) = r
             /\ r.id = drain.id => new(r).payload = p
  BY <1>5 DEF NudgeIInv, NudgeTyped, NudgeQueueRow
<1>9. disturbed' \subseteq Today!Spoilers
  BY DEF Today!DrainResolves, NudgeIInv, NudgeTyped, Today!Spoil, Today!Spoilers
<1>10. \A t \in issued : t[2] \in Nat
  BY DEF NudgeIInv, NudgeTyped
<1>11. \A t \in issued : t[1] # drain.id
  BY <1>2, <1>3, <1>10 DEF NudgeIInv, Persisted, Today!Unresolved
<1> HIDE DEF new
<1>12. NudgeTyped'
  BY <1>6, <1>7, <1>8, <1>9 DEF NudgeIInv, NudgeTyped
<1>13. NudgeOneRow'
  BY <1>6, <1>8 DEF NudgeIInv, NudgeOneRow
<1>14. OwnKey'
  BY <1>6, <1>8 DEF NudgeIInv, OwnKey
<1>15. Held'
  BY <1>2, <1>4, <1>5, <1>6, <1>7, <1>8 DEF Held
<1>16. Persisted'
  BY <1>6, <1>8, <1>11 DEF NudgeIInv, Persisted
<1>17. Today!ReplaySameTarget'
  BY <1>6 DEF NudgeIInv, Today!ReplaySameTarget
<1> QED
  BY <1>12, <1>13, <1>14, <1>15, <1>16, <1>17 DEF NudgeIInv

\* What is sent is what the row says, hence what was sent for it before.
LEMMA DrainSetsIInv == ASSUME NudgeIInv, Today!DrainSets PROVE NudgeIInv'
<1> DEFINE sent == <<drain.id, drain.p.target>>
<1>1. drain # Today!Idle /\ drain \in NudgeBusy /\ drain.phase = "set"
  BY HeldRow DEF Today!DrainSets
<1>2. PICK h \in nudgeRows : h.id = drain.id /\ h.payload = drain.p
  BY <1>1, HeldRow
<1>3. drain.id \in Nat /\ drain.p.target \in Nat
  BY <1>1 DEF NudgeBusy, NudgeIInv, Held
<1>4. /\ remaining' = drain.p.target /\ drain' = [drain EXCEPT !.phase = "done"]
      /\ issued' = issued \cup {sent}
      /\ UNCHANGED <<day, answers, nudgeRows, nudgeNextId, online, nudges, disturbed>>
  BY DEF Today!DrainSets
<1>5. drain' \in NudgeBusy /\ drain'.id = drain.id /\ drain'.p = drain.p /\ drain'.phase = "done"
  BY <1>1, <1>4 DEF NudgeBusy
<1>6. sent \in Nat \X Nat /\ sent[1] = drain.id /\ sent[2] = drain.p.target
  BY <1>3
<1> HIDE DEF sent
<1>7. \A r \in nudgeRows : r.id = drain.id => r = h
  BY <1>2 DEF NudgeIInv, NudgeOneRow
<1>8. \A t \in issued : t[1] = drain.id => t[2] = drain.p.target
  BY <1>2 DEF NudgeIInv, Persisted
<1>9. NudgeTyped'
  BY <1>3, <1>4, <1>5, <1>6 DEF NudgeIInv, NudgeTyped
<1>10. NudgeOneRow'
  BY <1>2, <1>4, <1>6 DEF NudgeIInv, NudgeOneRow
<1>11. OwnKey'
  BY <1>4 DEF NudgeIInv, OwnKey
<1>12. Held'
  BY <1>2, <1>3, <1>4, <1>5 DEF Held
<1>13. Persisted'
  BY <1>2, <1>4, <1>6, <1>7 DEF NudgeIInv, Persisted
<1>14. Today!ReplaySameTarget'
  BY <1>4, <1>6, <1>8 DEF NudgeIInv, Today!ReplaySameTarget
<1> QED
  BY <1>9, <1>10, <1>11, <1>12, <1>13, <1>14 DEF NudgeIInv

\* The row goes; its id is not handed out again.
LEMMA DrainFinishesIInv == ASSUME NudgeIInv, Today!DrainFinishes PROVE NudgeIInv'
<1>1. nudgeRows' \subseteq nudgeRows /\ drain' = Today!Idle
      /\ UNCHANGED <<day, remaining, answers, nudgeNextId, online, nudges, issued, disturbed>>
  BY DEF Today!DrainFinishes, Today!MarkDrained, Today!history
<1>2. NudgeTyped'
  BY <1>1 DEF NudgeIInv, NudgeTyped
<1>3. NudgeOneRow'
  BY <1>1 DEF NudgeIInv, NudgeOneRow
<1>4. OwnKey'
  BY <1>1 DEF NudgeIInv, OwnKey
<1>5. Held' /\ Persisted' /\ Today!ReplaySameTarget'
  BY <1>1 DEF NudgeIInv, Held, Persisted, Today!ReplaySameTarget
<1> QED
  BY <1>2, <1>3, <1>4, <1>5 DEF NudgeIInv

LEMMA DrainDeferredIInv == ASSUME NudgeIInv, Today!DrainDeferred PROVE NudgeIInv'
<1>1. drain' = Today!Idle
      /\ UNCHANGED <<day, remaining, answers, nudgeRows, nudgeNextId, online, nudges, issued, disturbed>>
  BY DEF Today!DrainDeferred, Today!RecordAttempt, Today!history
<1>2. NudgeTyped'
  BY <1>1 DEF NudgeIInv, NudgeTyped
<1>3. OwnKey' /\ Held'
  BY <1>1 DEF NudgeIInv, OwnKey, Held
<1> QED
  BY <1>1, <1>2, <1>3, QueueUntouched DEF NudgeIInv

\* A dead-lettered row keeps its id, key and payload.
LEMMA DrainDeadLettersIInv == ASSUME NudgeIInv, Today!DrainDeadLetters PROVE NudgeIInv'
<1> DEFINE new(r) == IF r.id = drain.id THEN [r EXCEPT !.status = "failed"] ELSE r
<1>1. /\ nudgeRows' = {new(r) : r \in nudgeRows} /\ drain' = Today!Idle
      /\ UNCHANGED <<day, remaining, answers, nudgeNextId, online, nudges, issued>>
  BY DEF Today!DrainDeadLetters, Today!MarkFailed
<1>2. ASSUME NEW r \in nudgeRows
      PROVE  new(r) \in NudgeQueueRow /\ new(r).id = r.id /\ new(r).key = r.key /\ new(r).payload = r.payload
  BY DEF NudgeIInv, NudgeTyped, NudgeQueueRow, Today!Status
<1>3. disturbed' \subseteq Today!Spoilers
  BY DEF Today!DrainDeadLetters, NudgeIInv, NudgeTyped, Today!Spoil, Today!Spoilers
<1> HIDE DEF new
<1>4. NudgeTyped'
  BY <1>1, <1>2, <1>3 DEF NudgeIInv, NudgeTyped
<1>5. NudgeOneRow'
  BY <1>1, <1>2 DEF NudgeIInv, NudgeOneRow
<1>6. OwnKey'
  BY <1>1, <1>2 DEF NudgeIInv, OwnKey
<1>7. Held'
  BY <1>1 DEF Held
<1>8. Persisted'
  BY <1>1, <1>2 DEF NudgeIInv, Persisted
<1>9. Today!ReplaySameTarget'
  BY <1>1 DEF NudgeIInv, Today!ReplaySameTarget
<1> QED
  BY <1>4, <1>5, <1>6, <1>7, <1>8, <1>9 DEF NudgeIInv

(* ---- environment ---- *)

LEMMA MidnightIInv == ASSUME NudgeConstantsOK, NudgeIInv, Today!Midnight PROVE NudgeIInv'
<1>1. day' \in 0..MaxDay /\ remaining' \in Nat /\ disturbed' \subseteq Today!Spoilers
  BY DEF Today!Midnight, NudgeConstantsOK, NudgeIInv, NudgeTyped, Today!Spoilers
<1>2. UNCHANGED <<answers, nudgeRows, nudgeNextId, online, drain, nudges, issued>>
  BY DEF Today!Midnight
<1>3. NudgeTyped'
  BY <1>1, <1>2 DEF NudgeIInv, NudgeTyped
<1>4. OwnKey' /\ Held'
  BY <1>2 DEF NudgeIInv, OwnKey, Held
<1> QED
  BY <1>2, <1>3, <1>4, QueueUntouched DEF NudgeIInv

LEMMA NudgeCrashIInv == ASSUME NudgeIInv, Today!Crash PROVE NudgeIInv'
<1>1. /\ online' = {} /\ drain' = Today!Idle /\ disturbed' \subseteq Today!Spoilers
      /\ UNCHANGED <<day, remaining, answers, nudgeRows, nudgeNextId, nudges, issued>>
  BY DEF Today!Crash, NudgeIInv, NudgeTyped, Today!Spoil, Today!Spoilers
<1>2. NudgeTyped'
  BY <1>1 DEF NudgeIInv, NudgeTyped
<1>3. OwnKey' /\ Held'
  BY <1>1 DEF NudgeIInv, OwnKey, Held
<1> QED
  BY <1>1, <1>2, <1>3, QueueUntouched DEF NudgeIInv

LEMMA FlipIInv == ASSUME NudgeIInv, Today!Flip \/ UNCHANGED Today!vars PROVE NudgeIInv'
<1>1. answers' \in BOOLEAN
      /\ UNCHANGED <<day, remaining, nudgeRows, nudgeNextId, online, drain, nudges, issued, disturbed>>
  BY DEF Today!Flip, Today!vars, Today!history, NudgeIInv, NudgeTyped
<1>2. NudgeTyped'
  BY <1>1 DEF NudgeIInv, NudgeTyped
<1>3. OwnKey' /\ Held'
  BY <1>1 DEF NudgeIInv, OwnKey, Held
<1> QED
  BY <1>1, <1>2, <1>3, QueueUntouched DEF NudgeIInv

LEMMA NudgeNextIInv == ASSUME NudgeConstantsOK, NudgeIInv, [Today!Next]_(Today!vars) PROVE NudgeIInv'
<1>1. CASE \E op \in Ops, n \in Amounts : Today!Ask(op, n)
  BY <1>1, AskIInv
<1>2. CASE \E o \in online : Today!OnlineLands(o) \/ Today!OnlineApplied(o) \/ Today!OnlineQueued(o) \/ Today!OnlineFailed(o)
  BY <1>2, OnlineLandsIInv, OnlineEndsIInv, OnlineQueuedIInv
<1>3. CASE Today!DrainStart \/ Today!DrainResolves \/ Today!DrainSets
  BY <1>3, NudgeDrainStartIInv, DrainResolvesIInv, DrainSetsIInv
<1>4. CASE Today!DrainFinishes \/ Today!DrainDeferred \/ Today!DrainDeadLetters
  BY <1>4, DrainFinishesIInv, DrainDeferredIInv, DrainDeadLettersIInv
<1>5. CASE Today!Flip \/ Today!Midnight \/ Today!Crash \/ UNCHANGED Today!vars
  BY <1>5, FlipIInv, MidnightIInv, NudgeCrashIInv
<1> QED
  BY <1>1, <1>2, <1>3, <1>4, <1>5 DEF Today!Next

LEMMA IInvTypeOK == ASSUME NudgeIInv PROVE Today!TypeOK
<1>1. \A r \in nudgeRows : r.status \in Today!Status /\ r.payload.target \in {Today!Unresolved} \cup Nat
  BY DEF NudgeIInv, NudgeTyped, NudgeQueueRow, NudgePayload
<1>2. \A o \in online : o.op \in Ops /\ o.landed \in BOOLEAN
  BY DEF NudgeIInv, NudgeTyped, Call
<1>3. drain.phase \in {"idle", "info", "set", "done", "expired"}
  BY DEF NudgeIInv, NudgeTyped, NudgeBusy, Today!Idle
<1>4. drain.phase = "set" => drain.p.target \in Nat
  BY HeldRow DEF NudgeIInv, Held
<1> QED
  BY <1>1, <1>2, <1>3, <1>4 DEF NudgeIInv, NudgeTyped, Today!TypeOK

\* The state is well formed throughout: no nudge, replay or midnight makes the time
\* left negative (client.ts setTimeLeft, the target executor.ts computes and persists).
THEOREM TimeTodayTypes == ASSUME NudgeConstantsOK PROVE Today!Spec => []Today!TypeOK
<1>1. Today!Init => NudgeIInv
  BY NudgeInitIInv
<1>2. NudgeIInv /\ [Today!Next]_(Today!vars) => NudgeIInv'
  BY NudgeNextIInv
<1>3. NudgeIInv => Today!TypeOK
  BY IInvTypeOK
<1> QED
  BY <1>1, <1>2, <1>3, PTL DEF Today!Spec

\* Replaying a queued nudge sets the same absolute target every time, through
\* retriable failures, crashes between the set and markDrained, and any other
\* nudges in between: the executor persists the target before it sends it.
THEOREM ReplayIdempotent == ASSUME NudgeConstantsOK PROVE Today!Spec => []Today!ReplaySameTarget
<1>1. Today!Init => NudgeIInv
  BY NudgeInitIInv
<1>2. NudgeIInv /\ [Today!Next]_(Today!vars) => NudgeIInv'
  BY NudgeNextIInv
<1>3. NudgeIInv => Today!ReplaySameTarget
  BY DEF NudgeIInv
<1> QED
  BY <1>1, <1>2, <1>3, PTL DEF Today!Spec
=============================================================================

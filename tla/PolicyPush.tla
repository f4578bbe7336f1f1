----------------------------- MODULE PolicyPush -----------------------------
(***************************************************************************)
(* What the offline queue carries: pushes of one supervised user's policy  *)
(* to the client machines the user is linked to.                           *)
(*                                                                         *)
(*   admin routes   -> the policy store, then one push per linked client   *)
(*   executor.ts    -> reads the store when it STARTS, then                *)
(*   linux-runner.ts-> runs the timekpra setters one awaited SSH call at a *)
(*                     time, so runs on one client interleave              *)
(*   facade/drainer -> queue a run that failed retriably, replay it later  *)
(*                                                                         *)
(* All pushes of the user to a client share the coalesce key user:<id>, so *)
(* a client has at most one row and a drain pass runs one executor per     *)
(* client.  Module OfflineQueue has the queue with many keys.              *)
(***************************************************************************)
EXTENDS QueueStore, Sequences, FiniteSets

CONSTANTS Clients,    \* enrolled clients
          Accounts,   \* OS account names a link may use on a client
          Policies,   \* effective policies the admin may save
          NoAccount,  \* "no link"
          MaxPush,    \* bound: admin operations in one behaviour
          MaxCrash    \* bound: server crashes


\* One setter for each part of a resolved push.
Fields == {"limits", "week", "month", "hours"}

\* A policy gives each setter a value; "none" is a null limit, and a fully
\* denied week for "hours": the setter is then not called at all.
None == "none"
Unrestricted == [f \in Fields |-> "max"]

VARIABLES
  user,     \* the user row exists
  link,     \* users_on_clients: the linked account, or NoAccount
  policy,   \* the user's effective policy (budgets, schedules, timezone)
  rows, nextId,
  reach,    \* clients reachable now
  execs,    \* executors running: online pushes (id = 0) and the drainer's
  limits,   \* per client and account: what timekpra was last told
  ops,      \* admin operations so far
  crashes,
  unlinked, \* history: <<client, account>> unlinked, the client not linked since
  overlap,  \* history: clients on which two executors ran at the same time
  gaveUp    \* history: clients with a push reported as failed or lost in a crash

store == <<user, link, policy, unlinked>>
vars == <<user, link, policy, rows, nextId, reach, execs, limits, ops, crashes,
          unlinked, overlap, gaveUp>>

Key == "user"
-----------------------------------------------------------------------------
Init ==
  /\ user = TRUE
  /\ link = [c \in Clients |-> NoAccount]
  /\ policy \in Policies
  /\ rows = {} /\ nextId = 1
  /\ reach \in SUBSET Clients
  /\ execs = {}
  /\ limits = [c \in Clients |-> [a \in Accounts |-> Unrestricted]]
  /\ ops = 0 /\ crashes = 0
  /\ unlinked = {} /\ overlap = {} /\ gaveUp = {}

(* ---- the executor ---- *)

\* Mutant: a push without a link is a no-op whatever its reason.
AccountForLinkOnly(lk, c, p) == lk[c]

\* The synchronous prefix of execute: which account and which values.  A
\* missing link is a no-op unless the reason is an explicit unlink.
AccountFor(lk, c, p) ==
  IF lk[c] # NoAccount THEN lk[c]
  ELSE IF p.reason = "link.deleted" THEN p.acct ELSE NoAccount
ValuesFor(lk, pol, c) == IF lk[c] # NoAccount THEN pol ELSE Unrestricted

\* Mutant: a null monthly limit returns early, before the allowed hours.
CallsUntilNull(want) ==
  LET CallUnlessNull(f) == IF want[f] # None THEN <<f>> ELSE << >>
  IN  CallUnlessNull("limits") \o CallUnlessNull("week")
      \o (IF want["month"] # None THEN <<"month">> \o CallUnlessNull("hours") ELSE << >>)

\* applyResolvedPush: the calls it will make, in order.
Calls(want) ==
  LET CallUnlessNull(f) == IF want[f] # None THEN <<f>> ELSE << >>
  IN  CallUnlessNull("limits") \o CallUnlessNull("week") \o CallUnlessNull("month") \o CallUnlessNull("hours")

\* An executor started for payload p on client c in store (lk, pol); n tells
\* runs apart and id is the queue row it drains, 0 for an online push.
Run(lk, pol, c, p, n, id) ==
  [client |-> c, payload |-> p, n |-> n, id |-> id,
   acct |-> AccountFor(lk, c, p), want |-> ValuesFor(lk, pol, c),
   left |-> IF AccountFor(lk, c, p) = NoAccount THEN << >>
            ELSE Calls(ValuesFor(lk, pol, c))]

Busy(c) == \E e \in execs : e.client = c
Draining == \E e \in execs : e.id # 0

\* dispatcher.push in store (lk, pol): one executor per client of cs.
Dispatch(lk, pol, cs, reason, acct) ==
  LET new == {Run(lk, pol, c, [reason |-> reason, acct |-> acct], ops + 1, 0) : c \in cs}
  IN  /\ execs' = execs \cup new
      /\ overlap' = overlap \cup {c \in cs : Busy(c)}

(* ---- admin routes: commit to the store, then push ---- *)

Linked == {c \in Clients : link[c] # NoAccount}

\* Every route first finds the user (404 otherwise).
AdminOp == user /\ ops < MaxPush /\ ops' = ops + 1

\* Budget, schedule, group and user edits: the effective policy changes and is
\* pushed to every linked client.
EditPolicy(p) ==
  /\ AdminOp
  /\ p # policy
  /\ policy' = p
  /\ Dispatch(link, p, Linked, "policy.edited", NoAccount)
  /\ UNCHANGED <<user, link, unlinked, rows, nextId, reach, limits, crashes, gaveUp>>

\* push-now, one linked client at a time (the fan-out awaits each client before
\* the next): the same push without an edit.
PushNow(c) ==
  /\ AdminOp
  /\ c \in Linked
  /\ Dispatch(link, policy, {c}, "user.updated", NoAccount)
  /\ UNCHANGED <<store, rows, nextId, reach, limits, crashes, gaveUp>>

\* PUT /users/:userId/clients/:clientId.
UpsertLink(c, a) ==
  /\ AdminOp
  /\ link' = [link EXCEPT ![c] = a]
  /\ Dispatch(link', policy, {c}, "link.upserted", a)
  /\ unlinked' = {t \in unlinked : t[1] # c}
  /\ UNCHANGED <<user, policy, rows, nextId, reach, limits, crashes, gaveUp>>

\* DELETE /users/:userId/clients/:clientId: the account name goes with the push.
DeleteLink(c) ==
  /\ AdminOp
  /\ c \in Linked
  /\ link' = [link EXCEPT ![c] = NoAccount]
  /\ Dispatch(link', policy, {c}, "link.deleted", link[c])
  /\ unlinked' = unlinked \cup {<<c, link[c]>>}
  /\ UNCHANGED <<user, policy, rows, nextId, reach, limits, crashes, gaveUp>>

\* DELETE /users/:id: the links cascade; the pushes carry no account name.
DeleteUser ==
  /\ AdminOp
  /\ user' = FALSE
  /\ link' = [c \in Clients |-> NoAccount]
  /\ Dispatch(link', policy, Linked, "user.deleted", NoAccount)
  /\ UNCHANGED <<policy, unlinked, rows, nextId, reach, limits, crashes, gaveUp>>

(* ---- executors at work ---- *)

\* One timekpra call reaches the client.
Setter(e) ==
  /\ e.left # << >>
  /\ e.client \in reach
  /\ limits' = [limits EXCEPT ![e.client][e.acct][Head(e.left)] = e.want[Head(e.left)]]
  /\ execs' = (execs \ {e}) \cup {[e EXCEPT !.left = Tail(e.left)]}
  /\ UNCHANGED <<store, rows, nextId, reach, ops, crashes, overlap, gaveUp>>

\* The last call answered: "pushed", or the drainer deletes the row.
Finish(e) ==
  /\ e.left = << >>
  /\ execs' = execs \ {e}
  /\ rows' = IF e.id = 0 THEN rows ELSE MarkDrained(rows, e.id)
  /\ UNCHANGED <<store, nextId, reach, limits, ops, crashes, overlap, gaveUp>>

\* A call failed retriably: the connection dropped, or it timed out (on a client
\* that is up as well), possibly after it took effect.  Online: enqueue.  Drainer: recordAttempt.
FailRetriably(e) ==
  /\ e.acct # NoAccount
  /\ execs' = execs \ {e}
  /\ rows' = IF e.id = 0 THEN Enqueue(rows, nextId, e.client, Key, e.payload)
             ELSE RecordAttempt(rows, e.id)
  /\ nextId' = IF e.id = 0 THEN NextId(rows, nextId, e.client, Key) ELSE nextId
  /\ UNCHANGED <<store, reach, limits, ops, crashes, overlap, gaveUp>>

\* A call failed for good: logged by the dispatcher, or dead-lettered.
FailForGood(e) ==
  /\ e.acct # NoAccount
  /\ execs' = execs \ {e}
  /\ rows' = IF e.id = 0 THEN rows ELSE MarkFailed(rows, e.id)
  /\ gaveUp' = gaveUp \cup {e.client}
  /\ UNCHANGED <<store, nextId, reach, limits, ops, crashes, overlap>>

\* A drain pass reaches client c: the executor starts on its pending row and
\* reads the store as it is now.
DrainStart(c) ==
  /\ ~Draining
  /\ c \in reach
  /\ \E r \in PendingFor(rows, c) :
       execs' = execs \cup {Run(link, policy, c, r.payload, 0, r.id)}
  /\ overlap' = IF Busy(c) THEN overlap \cup {c} ELSE overlap
  /\ UNCHANGED <<store, rows, nextId, reach, limits, ops, crashes, gaveUp>>

(* ---- environment ---- *)

Flip(c) ==
  /\ reach' = IF c \in reach THEN reach \ {c} ELSE reach \cup {c}
  /\ UNCHANGED <<store, rows, nextId, execs, limits, ops, crashes, overlap, gaveUp>>

\* The server restarts: running executors vanish.  A push that was not yet
\* queued leaves no trace.
Crash ==
  /\ crashes < MaxCrash
  /\ crashes' = crashes + 1
  /\ execs' = {}
  /\ gaveUp' = gaveUp \cup {e.client : e \in {x \in execs : x.id = 0}}
  /\ UNCHANGED <<store, rows, nextId, reach, limits, ops, overlap>>

ExecStep(e) == Setter(e) \/ Finish(e) \/ FailRetriably(e) \/ FailForGood(e)

Next ==
  \/ \E p \in Policies : EditPolicy(p)
  \/ DeleteUser
  \/ \E c \in Clients, a \in Accounts : UpsertLink(c, a)
  \/ \E c \in Clients : PushNow(c) \/ DeleteLink(c) \/ DrainStart(c) \/ Flip(c)
  \/ \E e \in execs : ExecStep(e)
  \/ Crash

Spec == Init /\ [][Next]_vars

-----------------------------------------------------------------------------
Payload == [reason : {"policy.edited", "user.updated", "user.deleted",
                      "link.upserted", "link.deleted"},
            acct : Accounts \cup {NoAccount}]

\* The state is well formed.
TypeOK ==
  /\ link \in [Clients -> Accounts \cup {NoAccount}]
  /\ policy \in Policies
  /\ \A r \in rows : r.client \in Clients /\ r.payload \in Payload /\ r.status \in Status
  /\ reach \subseteq Clients
  /\ \A e \in execs : e.client \in Clients /\ e.payload \in Payload
                      /\ (e.left # << >> => e.acct \in Accounts)
  /\ \A c \in Clients, a \in Accounts, f \in Fields :
       limits[c][a][f] \in {"max"} \cup {p[f] : p \in Policies}
  /\ user \in BOOLEAN
  /\ unlinked \subseteq Clients \X Accounts
  /\ overlap \subseteq Clients /\ gaveUp \subseteq Clients

\* Nothing is under way for client c.
Quiet(c) == ~Busy(c) /\ PendingFor(rows, c) = {}

\* Every limit the policy sets is in force on c's linked account.
Enforced(c) ==
  \A f \in Fields : policy[f] # None => limits[c][link[c]][f] = policy[f]

\* Once nothing is under way for a linked client, its account has the policy
\* now in the store, through any offline spell, coalescing, replay and drain
\* crash -- provided the client's executors never overlapped and none was
\* reported as failed.  (The executor re-reads the store, so a coalesced row
\* stands for the newest policy.)
ConvergedIfSerial ==
  \A c \in Linked : Quiet(c) /\ c \notin overlap \cup gaveUp => Enforced(c)

\* The same without the proviso on overlapping executors: "the user's whole
\* effective policy for that client is recomputed and re-pushed, so the latest
\* wins" (queue/policy-push.ts).
LatestWins ==
  \A c \in Linked : Quiet(c) /\ c \notin gaveUp => Enforced(c)

\* "the dashboard still owes the client one push ... so a now-unlinked account
\* isn't left enforced" (executor.ts): once nothing is under way for a client, an
\* account whose link was explicitly deleted is unrestricted, whether the push got
\* through at once or was queued -- provided the client was not linked again (the
\* relink's push replaces the queued one, and the account name with it), its
\* executors never overlapped and none was reported as failed.
UnlinkedAccountFreed ==
  \A t \in unlinked :
    Quiet(t[1]) /\ t[1] \notin overlap \cup gaveUp => limits[t[1]][t[2]] = Unrestricted
=============================================================================

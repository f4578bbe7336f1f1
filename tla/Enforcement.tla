----------------------------- MODULE Enforcement -----------------------------
(***************************************************************************)
(* Per-activity enforcement (server/src/enforcement): a pass pins its      *)
(* instant, awaits the telemetry pull and then sweeps every supervised     *)
(* user (pipeline.ts, sweep.ts); a quota found exhausted outside its       *)
(* cool-down is decided on (decision.ts) and, after the policy's grace     *)
(* period, closed on every client of the user (force-close.ts).            *)
(*                                                                         *)
(* Time is relative: for every target the model keeps how long ago it was  *)
(* decided, as far as the cool-down can tell.  A grace timer fires any     *)
(* time after it is set.  Memory is lost in a crash.                       *)
(***************************************************************************)
EXTENDS Integers, FiniteSets

CONSTANTS Users, Targets, Clients,
          Closable,   \* targets that resolve to some closable app activity
          Consumed, Allowed,  \* seconds a quota may show as used and as granted
          Cooldown,   \* cooldownSeconds, in units of the model's clock
          MaxCrash    \* bound: crashes in one behaviour

ASSUME ClosableAssumption == Closable \subseteq Targets
ASSUME QuotasAssumption == Consumed \subseteq Nat /\ Allowed \subseteq Nat
ASSUME CooldownAssumption == Cooldown \in Nat \ {0}
ASSUME MaxCrashAssumption == MaxCrash \in Nat

NoQuota == << >>                  \* the target is not among the user's quotas
Quotas == (Consumed \X Allowed) \cup {NoQuota}   \* (consumed, allowed) pairs
Keys == Users \X Targets          \* pendingKey: user, scope and target
Never == Cooldown + 1             \* no entry in lastFiredAt
Ages == 0..Never

VARIABLES
  links,     \* users_on_clients
  quota,     \* what evaluateUserEnforcement reads for each target
  inPass,    \* a pass awaits its pull
  pinned,    \* the age of every lastFiredAt entry at the pinned instant
  dpin,      \* history: `decided` at the pinned instant
  lag,       \* time since the pinned instant, up to Cooldown
  since,     \* lastFiredByUser: the age of each entry, up to Cooldown, or Never
  timers,    \* grace timers set and not yet fired
  pending,   \* #pending
  jobs,      \* dispatches under way, with the clients still to visit (the
             \* activities of a target are closed together; equal dispatches are one)
  hit,       \* what the last step did to a fan-out: <<key, client, "tried">> if it
             \* attempted a close, and <<key, client, "left">> for each client that
             \* close, hanging, keeps the fan-out from
  decided,   \* history: age of the last decision not excused by a reset
  early,     \* history: targets decided again within the cool-down
  crashes

memory == <<inPass, pinned, dpin, lag, since, timers, pending, jobs, decided>>
vars == <<links, quota, memory, hit, early, crashes>>

Blank == [k \in Keys |-> Never]

Init ==
  /\ links \in [Users -> SUBSET Clients]
  /\ quota \in [Keys -> Quotas]
  /\ inPass = FALSE
  /\ pinned = Blank
  /\ dpin = Blank
  /\ lag = 0
  /\ since = Blank
  /\ timers = [k \in Keys |-> 0]
  /\ pending = {}
  /\ jobs = {}
  /\ hit = {}
  /\ decided = Blank
  /\ early = {}
  /\ crashes = 0

(* ---- decideEnforcement ---- *)

\* There is usage to stop, and it has reached the allowance.
IsExhausted(q) == q # NoQuota /\ q[1] > 0 /\ q[1] >= q[2]

\* k is past the cool-down of its last decision at the pinned instant.
Cooled(k) == pinned[k] >= Cooldown

\* loadSupervisedUsers: users with a client link.
Supervised == {u \in Users : links[u] # {}}

\* The targets of the users in us that are decided on now.
Decisions(us) == {k \in us \X Targets : IsExhausted(quota[k]) /\ Cooled(k)}

(* ---- the pass ---- *)

\* runPass: pin the instant and start the pull.
PassStart ==
  /\ ~inPass
  /\ inPass' = TRUE
  /\ lag' = 0
  /\ pinned' = since
  /\ dpin' = decided
  /\ hit' = {}
  /\ UNCHANGED <<links, quota, since, timers, pending, jobs, decided, early, crashes>>

\* The pass keeps what it knew of k: the evaluation failed, or the quota is still
\* exhausted, or not among the user's quotas at all.
Kept(k, ok, failed) ==
  \/ k[1] \in failed
  \/ k[1] \in ok /\ (IsExhausted(quota[k]) \/ quota[k] = NoQuota)

\* Mutant: a user whose evaluation failed is treated like one pruned.
CarriedDropped(k, ok, failed) ==
  IF k \in Decisions(ok) THEN lag ELSE IF Kept(k, ok, {}) THEN since[k] ELSE Never

\* The entry of k after the pass: stamped with the pinned instant if decided on,
\* kept, or forgotten (back under quota, or its user no longer supervised).
Carried(k, ok, failed) ==
  IF k \in Decisions(ok) THEN lag ELSE IF Kept(k, ok, failed) THEN since[k] ELSE Never

\* Mutant: the target's pending entry is not looked at.
EnforceAgain(ks) ==
  /\ timers' = [k \in Keys |-> IF k \in ks THEN timers[k] + 1 ELSE timers[k]]
  /\ pending' = pending \cup ks

\* ForceCloseTrigger.enforce: a grace timer for each decision not pending already.
Enforce(ks) ==
  /\ timers' = [k \in Keys |-> IF k \in ks \ pending THEN timers[k] + 1 ELSE timers[k]]
  /\ pending' = pending \cup ks

\* sweep.tick, after the pull: failed are the users whose evaluation threw.
Sweep(failed) ==
  /\ inPass
  /\ LET ok == Supervised \ failed
         now == Decisions(ok) IN
       /\ since' = [k \in Keys |-> Carried(k, ok, failed)]
       /\ Enforce(now)
       /\ decided' = [k \in Keys |->
            IF k \in now THEN lag ELSE IF Kept(k, ok, failed) THEN decided[k] ELSE Never]
       /\ early' = early \cup {k \in now : dpin[k] < Cooldown}
  /\ inPass' = FALSE /\ pinned' = Blank /\ dpin' = Blank /\ lag' = 0
  /\ hit' = {}
  /\ UNCHANGED <<links, quota, jobs, crashes>>

\* loadSupervisedUsers threw: the pass changes nothing.
SweepLoaderFails ==
  /\ inPass
  /\ inPass' = FALSE /\ pinned' = Blank /\ dpin' = Blank /\ lag' = 0
  /\ hit' = {}
  /\ UNCHANGED <<links, quota, since, timers, pending, jobs, decided, early, crashes>>

(* ---- ForceCloseTrigger ---- *)

\* #dispatch reads the activities and the user's clients as they are now, and
\* stops if there are none.
Dispatch(k) ==
  IF k[2] \in Closable /\ links[k[1]] # {}
  THEN jobs \cup {[key |-> k, rest |-> links[k[1]]]} ELSE jobs

\* Mutant: the pending entry is never cleared.
GraceElapsesPending(k) ==
  /\ timers[k] > 0
  /\ timers' = [timers EXCEPT ![k] = @ - 1]
  /\ jobs' = Dispatch(k)
  /\ hit' = {}
  /\ UNCHANGED <<links, quota, inPass, pinned, dpin, lag, since, pending, decided, early, crashes>>

\* The grace timer fires: the target is no longer pending, and is dispatched.
GraceElapses(k) ==
  /\ timers[k] > 0
  /\ timers' = [timers EXCEPT ![k] = @ - 1]
  /\ pending' = pending \ {k}
  /\ jobs' = Dispatch(k)
  /\ hit' = {}
  /\ UNCHANGED <<links, quota, inPass, pinned, dpin, lag, since, decided, early, crashes>>

\* Mutant: a client that cannot be closed ends the fan-out.
CloseOnClientAborts(j, c, how) ==
  /\ j \in jobs /\ c \in j.rest
  /\ jobs' = (jobs \ {j}) \cup
             (IF j.rest = {c} \/ how = "failed" THEN {} ELSE {[j EXCEPT !.rest = @ \ {c}]})
  /\ hit' = {<<j.key, c, "tried">>}
  /\ UNCHANGED <<links, quota, inPass, pinned, dpin, lag, since, timers, pending, decided, early, crashes>>

\* #closeOnClient: the event counted as delivered, or the SSH pkill, whose failure
\* is recorded and swallowed; then the next client.
CloseOnClient(j, c, how) ==
  /\ j \in jobs /\ c \in j.rest
  /\ jobs' = (jobs \ {j}) \cup
             (IF j.rest = {c} THEN {} ELSE {[j EXCEPT !.rest = @ \ {c}]})
  /\ hit' = {<<j.key, c, "tried">>}
  /\ UNCHANGED <<links, quota, inPass, pinned, dpin, lag, since, timers, pending, decided, early, crashes>>

\* The SSH call to c never settles (module SshPool: its peer went silent before
\* the channel was open): the loop awaits it for good.
CloseHangs(j, c) ==
  /\ j \in jobs /\ c \in j.rest
  /\ jobs' = jobs \ {j}
  /\ hit' = {<<j.key, c, "tried">>} \cup {<<j.key, d, "left">> : d \in j.rest \ {c}}
  /\ UNCHANGED <<links, quota, inPass, pinned, dpin, lag, since, timers, pending, decided, early, crashes>>

(* ---- the environment ---- *)

\* Usage is credited, the window rolls over, a grant or an edit changes the quota.
QuotaChanges(k, q) ==
  /\ quota' = [quota EXCEPT ![k] = q]
  /\ hit' = {}
  /\ UNCHANGED <<links, memory, early, crashes>>

\* A user is linked to, or unlinked from, a client.
Relink(u, c) ==
  /\ links' = [links EXCEPT ![u] = IF c \in @ THEN @ \ {c} ELSE @ \cup {c}]
  /\ hit' = {}
  /\ UNCHANGED <<quota, memory, early, crashes>>

Older(a, most) == IF a < most THEN a + 1 ELSE a

\* A unit of time passes.
TimePasses ==
  /\ since' = [k \in Keys |-> IF since[k] = Never THEN Never ELSE Older(since[k], Cooldown)]
  /\ decided' = [k \in Keys |-> IF decided[k] = Never THEN Never ELSE Older(decided[k], Cooldown)]
  /\ lag' = IF inPass THEN Older(lag, Cooldown) ELSE 0
  /\ hit' = {}
  /\ UNCHANGED <<links, quota, inPass, pinned, dpin, timers, pending, jobs, early, crashes>>

\* The server restarts: cool-downs, grace timers and dispatches are gone.
Crash ==
  /\ crashes < MaxCrash
  /\ crashes' = crashes + 1
  /\ inPass' = FALSE /\ pinned' = Blank /\ dpin' = Blank /\ lag' = 0 /\ since' = Blank
  /\ timers' = [k \in Keys |-> 0] /\ pending' = {} /\ jobs' = {}
  /\ decided' = Blank
  /\ hit' = {}
  /\ UNCHANGED <<links, quota, early>>

CloseStep(j) ==
  \E c \in Clients :
    CloseHangs(j, c) \/ \E how \in {"event", "pkill", "failed"} : CloseOnClient(j, c, how)

Next ==
  \/ PassStart
  \/ \E failed \in SUBSET Supervised : Sweep(failed)
  \/ SweepLoaderFails
  \/ \E k \in Keys : GraceElapses(k) \/ \E q \in Quotas : QuotaChanges(k, q)
  \/ \E j \in jobs : CloseStep(j)
  \/ \E u \in Users, c \in Clients : Relink(u, c)
  \/ TimePasses
  \/ Crash

Job == [key : Keys, rest : SUBSET Clients \ {{}}]

\* The cron keeps starting passes, a pull ends (its requests time out, client.ts),
\* timers fire, a fan-out goes on unless a call of it hangs, and reads of the
\* database do not fail for ever.
Fairness ==
  /\ WF_vars(PassStart) /\ WF_vars(TimePasses)
  /\ SF_vars(Sweep({}))
  /\ \A k \in Keys : WF_vars(GraceElapses(k))
  /\ \A j \in Job : WF_vars(CloseStep(j))

Spec == Init /\ [][Next]_vars
FairSpec == Spec /\ Fairness

-----------------------------------------------------------------------------
\* The state is well formed.
TypeOK ==
  /\ links \in [Users -> SUBSET Clients]
  /\ quota \in [Keys -> Quotas]
  /\ inPass \in BOOLEAN
  /\ lag \in 0..Cooldown
  /\ \A f \in {pinned, dpin, since, decided} : f \in [Keys -> Ages]
  /\ timers \in [Keys -> Nat]
  /\ pending \subseteq Keys
  /\ jobs \subseteq Job
  /\ hit \subseteq Keys \X Clients \X {"tried", "left"}
  /\ early \subseteq Keys
  /\ crashes \in 0..MaxCrash

\* A target has a grace timer exactly while it is pending, and then only one: a
\* decision repeated during the grace period (the cool-down over, or forgotten when
\* the quota dipped or the user was unlinked) does not close the app twice.
OneTimerPerTarget == \A k \in Keys : timers[k] = (IF k \in pending THEN 1 ELSE 0)

\* Two decisions on a target are a cool-down apart, unless in between a pass saw it
\* under quota or its user unsupervised, or the server restarted.  A failed
\* evaluation or a failed load does not reset the hysteresis (sweep.ts), nor does
\* the time the pull takes.
CooldownHolds == early = {}

\* A close of a target that stays exhausted, of a user who stays linked, is tried
\* again and again, though earlier closes failed or hang, passes failed or the
\* server restarted.
EnforcedAgain ==
  \A k \in Users \X Closable :
    <>[](IsExhausted(quota[k]) /\ k[1] \in Supervised)
      => []<>(\E c \in Clients : <<k, c, "tried">> \in hit)

\* "must not abort the rest of the fan-out" (force-close.ts): every client of a
\* dispatch is visited, whatever failed on the ones before it, short of a crash or
\* of a call that never settles: the clients are awaited one by one.
FanOutComplete ==
  \A k \in Keys, c \in Clients, n \in 0..MaxCrash :
    ((\E j \in jobs : j.key = k /\ c \in j.rest) /\ crashes = n)
      ~> (<<k, c, "tried">> \in hit \/ <<k, c, "left">> \in hit \/ crashes # n)
=============================================================================

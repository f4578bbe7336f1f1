-------------------------- MODULE EnforcementProofs --------------------------
(***************************************************************************)
(* A pass pulls what the clients used and then sweeps the users.           *)
(*                                                                         *)
(* The sweep, for every set of users, targets and clients, every quota and *)
(* cool-down: a target has one grace timer while it is pending and none    *)
(* otherwise, and two decisions on it are a cool-down apart.               *)
(*                                                                         *)
(* The cool-down is proved through what the code's map of stamps and the   *)
(* model's history of decisions have in common: `since` is `decided`, both *)
(* now and at the instant the pass is pinned.                              *)
(*                                                                         *)
(* The pull, for every lookback and any number of failures and crashes: no *)
(* use is counted twice, none is lost and none goes to the wrong user.     *)
(***************************************************************************)
EXTENDS Enforcement, FiniteSetTheorems, TLAPS

TimersOK == timers \in [Keys -> Nat] /\ pending \subseteq Keys

\* The code's entries follow the decisions.
StampsOK == /\ since \in [Keys -> Ages] /\ decided \in [Keys -> Ages]
            /\ pinned \in [Keys -> Ages] /\ dpin \in [Keys -> Ages]
            /\ lag \in 0..Cooldown
Follows == \A k \in Keys : since[k] = decided[k] /\ pinned[k] = dpin[k]

IInv == TimersOK /\ OneTimerPerTarget /\ StampsOK /\ Follows /\ CooldownHolds

\* Nothing is pending and nothing was decided when the server starts.
LEMMA InitIInv == Init => IInv
  BY CooldownAssumption DEF Init, IInv, TimersOK, OneTimerPerTarget, StampsOK, Follows, CooldownHolds,
     Blank, Never, Ages

\* A sweep stamps what it decides on and sets a timer for what is not pending.
LEMMA SweepSafe ==
  ASSUME IInv, NEW failed, failed \subseteq Supervised, Sweep(failed) PROVE IInv'
<1> DEFINE ok == Supervised \ failed
           fresh == Decisions(ok)
<1> USE CooldownAssumption
<1>1. fresh \subseteq Keys
  BY DEF Decisions, Supervised, Keys
<1>2. Enforce(fresh) /\ since' = [k \in Keys |-> Carried(k, ok, failed)]
      /\ decided' = [k \in Keys |->
            IF k \in fresh THEN lag ELSE IF Kept(k, ok, failed) THEN decided[k] ELSE Never]
      /\ early' = early \cup {k \in fresh : dpin[k] < Cooldown}
      /\ pinned' = Blank /\ dpin' = Blank /\ lag' = 0
  BY DEF Sweep
<1> HIDE DEF ok, fresh
<1>3. TimersOK' /\ OneTimerPerTarget'
  BY <1>1, <1>2 DEF IInv, Enforce, TimersOK, OneTimerPerTarget
<1>4. StampsOK' /\ Follows'
  BY <1>1, <1>2 DEF IInv, StampsOK, Follows, Carried, Blank, Never, Ages, fresh
<1>5. CooldownHolds'
  <2>1. \A k \in fresh : dpin[k] >= Cooldown
    BY <1>1 DEF fresh, Decisions, Cooled, IInv, Follows
  <2>2. \A k \in fresh : dpin[k] \in Int
    BY <1>1 DEF IInv, StampsOK, Ages, Never
  <2> QED
    BY <1>2, <2>1, <2>2 DEF IInv, CooldownHolds
<1> QED
  BY <1>3, <1>4, <1>5 DEF IInv

\* Every step keeps the invariant.
LEMMA NextIInv == IInv /\ [Next]_vars => IInv'
<1> SUFFICES ASSUME IInv, [Next]_vars PROVE IInv'
  OBVIOUS
<1> USE CooldownAssumption
<1>1. CASE PassStart
  BY <1>1 DEF PassStart, IInv, TimersOK, OneTimerPerTarget, StampsOK, Follows, CooldownHolds
<1>2. ASSUME NEW failed \in SUBSET Supervised, Sweep(failed) PROVE IInv'
  BY <1>2, SweepSafe
<1>3. CASE SweepLoaderFails
  BY <1>3 DEF SweepLoaderFails, IInv, TimersOK, OneTimerPerTarget, StampsOK, Follows,
     CooldownHolds, Blank, Never, Ages
<1>4. ASSUME NEW k \in Keys, GraceElapses(k) PROVE IInv'
  <2>1. TimersOK' /\ OneTimerPerTarget'
    BY <1>4 DEF GraceElapses, IInv, TimersOK, OneTimerPerTarget
  <2> QED
    BY <1>4, <2>1 DEF GraceElapses, IInv, StampsOK, Follows, CooldownHolds
<1>5. ASSUME NEW k \in Keys, NEW q \in Quotas, QuotaChanges(k, q) PROVE IInv'
  BY <1>5 DEF QuotaChanges, memory, IInv, TimersOK, OneTimerPerTarget, StampsOK, Follows, CooldownHolds
<1>6. ASSUME NEW j \in jobs, CloseStep(j) PROVE IInv'
  BY <1>6 DEF CloseStep, CloseOnClient, CloseHangs, IInv, TimersOK, OneTimerPerTarget, StampsOK, Follows, CooldownHolds
<1>7. ASSUME NEW u \in Users, NEW c \in Clients, Relink(u, c) PROVE IInv'
  BY <1>7 DEF Relink, memory, IInv, TimersOK, OneTimerPerTarget, StampsOK, Follows, CooldownHolds
<1>8. CASE TimePasses
  <2>1. StampsOK' /\ Follows'
    BY <1>8 DEF TimePasses, Older, IInv, StampsOK, Follows, Never, Ages
  <2> QED
    BY <1>8, <2>1 DEF TimePasses, IInv, TimersOK, OneTimerPerTarget, CooldownHolds
<1>9. CASE Crash
  BY <1>9 DEF Crash, IInv, TimersOK, OneTimerPerTarget, StampsOK, Follows, CooldownHolds, Blank, Never, Ages
<1>10. CASE UNCHANGED vars
  BY <1>10 DEF vars, memory, IInv, TimersOK, OneTimerPerTarget, StampsOK, Follows, CooldownHolds
<1> QED
  BY <1>1, <1>2, <1>3, <1>4, <1>5, <1>6, <1>7, <1>8, <1>9, <1>10 DEF Next

\* A pending target has one grace timer, and no other target has any
\* (ForceCloseTrigger.enforce).
THEOREM OneTimer == Spec => []OneTimerPerTarget
<1>1. IInv => OneTimerPerTarget
  BY DEF IInv
<1> QED
  BY InitIInv, NextIInv, <1>1, PTL DEF Spec

\* Two decisions on a target are a cool-down apart, short of a reset
\* (decideEnforcement, tick).
THEOREM Hysteresis == Spec => []CooldownHolds
<1>1. IInv => CooldownHolds
  BY DEF IInv
<1> QED
  BY InitIInv, NextIInv, <1>1, PTL DEF Spec

-----------------------------------------------------------------------------
(* ---- the pull: what Telemetry declares, for the same users and clients ---- *)

CONSTANTS NoUser, Lookback, MaxTime
VARIABLES now, usersOf, log, passEnd, todo, pulls, cursor, saved, credit, first, mixed, deaths

Pull == INSTANCE Telemetry WITH links <- usersOf, crashes <- deaths

\* The argument: the cursor a restart reads back is the one in memory, a pull begins at
\* it and ends with the pass, and nothing at or after it has been credited.

\* The instance has its own names for what the library defines.
LEMMA PullFiniteSets ==
  \A S : Pull!Cardinality(S) = Cardinality(S) /\ (Pull!IsFiniteSet(S) <=> IsFiniteSet(S))
BY DEF Pull!Cardinality, Cardinality, Pull!IsFiniteSet, IsFiniteSet

(* ---- what makes the three inductive ---- *)

\* What is in memory is what a restart reads back, and nothing is pulled ahead of
\* the pass.
CursorsKept ==
  /\ cursor = saved
  /\ \A c \in Clients : cursor[c] <= passEnd /\ (cursor[c] = Pull!None <=> first[c] = Pull!None)

\* A client has one pull at a time; it ends with the pass, and begins where the
\* client's last one ended.
PullsInTurn ==
  \A p \in pulls :
    /\ p.client \notin todo
    /\ p.end = passEnd /\ p.start < p.end /\ cursor[p.client] <= p.start
    /\ cursor[p.client] # Pull!None => p.start = cursor[p.client]
    /\ \A q \in pulls : q.client = p.client => q = p

\* A unit is credited once, to one user, and not before the cursor has passed it.
CreditedOnce ==
  \A c \in Clients, t \in Pull!Units, u \in Users :
    /\ credit[c][t][u] \in {0, 1}
    /\ cursor[c] <= t => credit[c][t][u] = 0
    /\ \A v \in Users : credit[c][t][u] > 0 /\ credit[c][t][v] > 0 => u = v

\* Every unit in use between the first pull and the cursor is credited.
Covered ==
  \A c \in Clients, t \in Pull!Units :
    first[c] # Pull!None /\ first[c] <= t /\ t < cursor[c] /\ log[c][t] # NoUser =>
      \E u \in Users : credit[c][t][u] > 0

\* Use not pulled yet is use by one of the client's present users, and use a pull
\* has asked for is use by the pull's user, unless the links have changed since.
UseByLinked ==
  /\ \A c \in Clients, t \in Pull!Units : cursor[c] <= t /\ t < now =>
       log[c][t] \in usersOf[c] \cup {NoUser} \/ <<c, t>> \in mixed
  /\ \A p \in pulls : \A t \in p.start..(p.end - 1) :
       log[p.client][t] \in {p.user, NoUser} \/ <<p.client, t>> \in mixed

PullIInv ==
  /\ Pull!TypeOK /\ CursorsKept /\ PullsInTurn /\ CreditedOnce /\ Covered /\ UseByLinked
  /\ Pull!RightUserUnlessRelinked

(* ---- one lemma per step ---- *)

\* Nothing has been pulled at the start.
LEMMA PullInitIInv == ASSUME Pull!ConstantsOK, Pull!Init PROVE PullIInv
<1>1. Pull!TypeOK
  BY DEF Pull!ConstantsOK, Pull!Init, Pull!TypeOK, Pull!Units, Pull!Instants, Pull!None
<1> QED
  BY <1>1 DEF Pull!ConstantsOK, Pull!Init, PullIInv, CursorsKept, PullsInTurn, CreditedOnce, Covered, UseByLinked,
              Pull!RightUserUnlessRelinked, Pull!Units, Pull!None, Pull!TypeOK

\* A new pass begins when the last one has ended.
LEMMA PassStartIInv == ASSUME Pull!ConstantsOK, PullIInv, Pull!PassStart PROVE PullIInv'
<1>1. Pull!TypeOK'
  BY DEF PullIInv, Pull!PassStart, Pull!TypeOK, Pull!ConstantsOK
<1>2. CursorsKept'
  BY DEF PullIInv, Pull!PassStart, CursorsKept, Pull!TypeOK, Pull!ConstantsOK, Pull!Instants, Pull!None
<1>3. PullsInTurn'
  BY DEF Pull!PassStart, PullsInTurn
<1> QED
  BY <1>1, <1>2, <1>3 DEF PullIInv, Pull!PassStart, CreditedOnce, Covered, UseByLinked, Pull!RightUserUnlessRelinked

\* A client that is skipped leaves everything as it was.
LEMMA SkipIInv == ASSUME PullIInv, NEW c \in Clients, Pull!Skip(c) PROVE PullIInv'
<1>1. Pull!TypeOK' /\ CursorsKept' /\ PullsInTurn'
  BY DEF PullIInv, Pull!Skip, Pull!TypeOK, CursorsKept, PullsInTurn
<1> QED
  BY <1>1 DEF PullIInv, Pull!Skip, CreditedOnce, Covered, UseByLinked, Pull!RightUserUnlessRelinked

\* A pull fails: the next one begins where this one did.
LEMMA PullFailsIInv == ASSUME PullIInv, NEW p \in pulls, Pull!PullFails(p) PROVE PullIInv'
<1>1. Pull!TypeOK' /\ CursorsKept' /\ PullsInTurn'
  BY DEF PullIInv, Pull!PullFails, Pull!TypeOK, CursorsKept, PullsInTurn
<1> QED
  BY <1>1 DEF PullIInv, Pull!PullFails, CreditedOnce, Covered, UseByLinked, Pull!RightUserUnlessRelinked

\* A restart forgets the pass and reads the cursors back.
LEMMA PullCrashIInv == ASSUME Pull!ConstantsOK, PullIInv, Pull!Crash PROVE PullIInv'
<1>1. cursor' = cursor
  BY DEF PullIInv, CursorsKept, Pull!Crash
<1>2. Pull!TypeOK' /\ CursorsKept' /\ PullsInTurn'
  BY <1>1 DEF Pull!ConstantsOK, PullIInv, Pull!Crash, Pull!TypeOK, CursorsKept, PullsInTurn
<1> QED
  BY <1>1, <1>2 DEF PullIInv, Pull!Crash, CreditedOnce, Covered, UseByLinked, Pull!RightUserUnlessRelinked

\* Changing the links marks the use that is still to be pulled.
LEMMA PullRelinkIInv == ASSUME PullIInv, NEW c \in Clients, NEW u \in Users, Pull!Relink(c, u) PROVE PullIInv'
<1>1. Pull!TypeOK' /\ CursorsKept' /\ PullsInTurn'
  BY DEF PullIInv, Pull!Relink, Pull!TypeOK, CursorsKept, PullsInTurn
<1>2. UseByLinked'
  <2>1. mixed \subseteq mixed'
    BY DEF Pull!Relink
  <2>2. \A t \in Pull!Units : cursor[c] <= t /\ t < now => <<c, t>> \in mixed'
    BY DEF Pull!Relink
  <2>3. \A d \in Clients : d # c => usersOf'[d] = usersOf[d]
    BY DEF PullIInv, Pull!TypeOK, Pull!Relink
  <2> QED
    BY <2>1, <2>2, <2>3 DEF PullIInv, UseByLinked, Pull!Relink
<1>3. Pull!RightUserUnlessRelinked'
  BY DEF PullIInv, Pull!Relink, Pull!RightUserUnlessRelinked
<1> QED
  BY <1>1, <1>2, <1>3 DEF PullIInv, Pull!Relink, CreditedOnce, Covered

\* Time passes: the log grows where no cursor and no pull has been.
LEMMA PullTimePassesIInv == ASSUME Pull!ConstantsOK, PullIInv, Pull!TimePasses PROVE PullIInv'
<1>1. PICK who \in [Clients -> Users \cup {NoUser}] :
        /\ \A c \in Clients : who[c] \in usersOf[c] \cup {NoUser}
        /\ log' = [c \in Clients |-> [log[c] EXCEPT ![now] = who[c]]]
  BY DEF Pull!TimePasses
<1>2. /\ now \in Pull!Units /\ now' = now + 1
      /\ UNCHANGED <<usersOf, passEnd, todo, pulls, cursor, saved, credit, first, mixed, deaths>>
  BY DEF Pull!ConstantsOK, PullIInv, Pull!TypeOK, Pull!TimePasses, Pull!Units
<1>3. \A c \in Clients, t \in Pull!Units : t < now => log'[c][t] = log[c][t]
  BY <1>1, <1>2 DEF Pull!ConstantsOK, PullIInv, Pull!TypeOK, Pull!Units
<1>4. \A c \in Clients : log'[c][now] = who[c]
  BY <1>1, <1>2 DEF PullIInv, Pull!TypeOK
<1>5. Pull!TypeOK'
  <2>1. log' \in [Clients -> [Pull!Units -> Users \cup {NoUser}]]
    BY <1>1, <1>2 DEF PullIInv, Pull!TypeOK
  <2> QED
    BY <1>2, <2>1 DEF Pull!ConstantsOK, PullIInv, Pull!TypeOK, Pull!Units
<1>6. CursorsKept' /\ PullsInTurn' /\ CreditedOnce'
  BY <1>2 DEF PullIInv, CursorsKept, PullsInTurn, CreditedOnce
<1>7. \A c \in Clients : cursor[c] <= now /\ cursor[c] \in Int
  BY DEF Pull!ConstantsOK, PullIInv, Pull!TypeOK, CursorsKept, Pull!Instants, Pull!None
<1>8. Covered'
  <2>1. \A c \in Clients, t \in Pull!Units : t < cursor[c] => t < now
    BY <1>7 DEF Pull!ConstantsOK, PullIInv, Pull!TypeOK, Pull!Units
  <2> QED
    BY <1>2, <1>3, <2>1 DEF PullIInv, Covered
<1>9. Pull!RightUserUnlessRelinked'
  <2>1. \A c \in Clients, t \in Pull!Units, u \in Users : credit[c][t][u] > 0 => t < now
    BY <1>7 DEF Pull!ConstantsOK, PullIInv, Pull!TypeOK, CreditedOnce, Pull!Units
  <2> QED
    BY <1>2, <1>3, <2>1 DEF PullIInv, Pull!RightUserUnlessRelinked
<1>10. UseByLinked'
  <2>1. ASSUME NEW c \in Clients, NEW t \in Pull!Units, cursor[c] <= t, t < now + 1
        PROVE  log'[c][t] \in usersOf[c] \cup {NoUser} \/ <<c, t>> \in mixed
    <3>1. CASE t = now
      BY <1>1, <1>4, <3>1
    <3>2. CASE t < now
      BY <1>3, <2>1, <3>2 DEF PullIInv, UseByLinked
    <3> QED
      BY <2>1, <3>1, <3>2 DEF Pull!ConstantsOK, PullIInv, Pull!TypeOK, Pull!Units
  <2>2. ASSUME NEW p \in pulls, NEW t \in p.start..(p.end - 1)
        PROVE  log'[p.client][t] \in {p.user, NoUser} \/ <<p.client, t>> \in mixed
    <3>1. t \in Pull!Units /\ t < now /\ p.client \in Clients
      BY DEF Pull!ConstantsOK, PullIInv, Pull!TypeOK, PullsInTurn, Pull!Units
    <3> QED
      BY <1>3, <3>1 DEF PullIInv, UseByLinked
  <2> QED
    BY <1>2, <2>1, <2>2 DEF UseByLinked
<1> QED
  BY <1>5, <1>6, <1>8, <1>9, <1>10 DEF PullIInv

\* A pull begins at the cursor; its user is the client's only one.
LEMMA ConsumeIInv == ASSUME Pull!ConstantsOK, PullIInv, NEW c \in Clients, Pull!Consume(c) PROVE PullIInv'
<1>0. /\ Pull!Start(c) \in Int /\ 0 <= Pull!Start(c) /\ cursor[c] <= Pull!Start(c) /\ cursor[c] \in Int
      /\ cursor[c] # Pull!None => Pull!Start(c) = cursor[c]
  BY DEF Pull!ConstantsOK, PullIInv, Pull!TypeOK, Pull!Start, Pull!Instants, Pull!None
<1>1. CASE UNCHANGED pulls
  <2>1. Pull!TypeOK' /\ CursorsKept' /\ PullsInTurn'
    BY <1>1 DEF PullIInv, Pull!Consume, Pull!TypeOK, CursorsKept, PullsInTurn
  <2> QED
    BY <1>1, <2>1 DEF PullIInv, Pull!Consume, CreditedOnce, Covered, UseByLinked, Pull!RightUserUnlessRelinked
<1>2. CASE /\ Cardinality(usersOf[c]) = 1 /\ Pull!Start(c) < passEnd
           /\ \E u \in usersOf[c] :
                pulls' = pulls \cup {[client |-> c, user |-> u, start |-> Pull!Start(c), end |-> passEnd]}
  <2>1. PICK u \in usersOf[c] :
          pulls' = pulls \cup {[client |-> c, user |-> u, start |-> Pull!Start(c), end |-> passEnd]}
    BY <1>2
  <2> DEFINE p == [client |-> c, user |-> u, start |-> Pull!Start(c), end |-> passEnd]
  <2>2. /\ p.client = c /\ p.user = u /\ p.start = Pull!Start(c) /\ p.end = passEnd
        /\ p \in [client : Clients, user : Users, start : 0..MaxTime, end : 0..MaxTime]
    BY <1>0, <1>2 DEF Pull!ConstantsOK, PullIInv, Pull!TypeOK
  <2>3. pulls' = pulls \cup {p}
    BY <2>1
  <2> HIDE DEF p
  <2>4. \A v \in usersOf[c] : v = u
    <3>1. IsFiniteSet(usersOf[c])
      BY FS_Subset, PullFiniteSets DEF Pull!ConstantsOK, PullIInv, Pull!TypeOK
    <3> QED
      BY <1>2, <3>1, FS_Singleton
  <2>5. Pull!TypeOK' /\ CursorsKept'
    BY <2>2, <2>3 DEF PullIInv, Pull!Consume, Pull!TypeOK, CursorsKept
  <2>6. PullsInTurn'
    BY <1>0, <1>2, <2>2, <2>3 DEF PullIInv, Pull!Consume, PullsInTurn
  <2>7. UseByLinked'
    <3>1. ASSUME NEW t \in p.start..(p.end - 1)
          PROVE  log[c][t] \in {u, NoUser} \/ <<c, t>> \in mixed
      <4>1. t \in Pull!Units /\ cursor[c] <= t /\ t < now
        BY <1>0, <2>2 DEF Pull!ConstantsOK, PullIInv, Pull!TypeOK, Pull!Units
      <4> QED
        BY <2>4, <4>1 DEF PullIInv, UseByLinked
    <3> QED
      BY <2>2, <2>3, <3>1 DEF PullIInv, Pull!Consume, UseByLinked
  <2> QED
    BY <2>5, <2>6, <2>7 DEF PullIInv, Pull!Consume, CreditedOnce, Covered, Pull!RightUserUnlessRelinked
<1> QED
  BY <1>1, <1>2, PullFiniteSets DEF Pull!Consume

\* What a pull's samples are clipped to: the units of its window in use.
LEMMA ClippedUnits ==
  ASSUME Pull!ConstantsOK, PullIInv, NEW p \in pulls, NEW t \in Pull!Units
  PROVE  t \in Pull!ClipToWindow(p) <=> p.start <= t /\ t < p.end /\ log[p.client][t] # NoUser
<1>1. p.start \in Int /\ p.end \in Int /\ t \in Int
  BY DEF Pull!ConstantsOK, PullIInv, Pull!TypeOK, Pull!Units
<1>2. ASSUME t \in Pull!ClipToWindow(p)
      PROVE  p.start <= t /\ t < p.end /\ log[p.client][t] # NoUser
  <2>1. t \in p.start..(p.end - 1)
    BY <1>2 DEF Pull!ClipToWindow
  <2>2. PICK w \in p.start..(p.end - 1) : IF t <= w THEN Pull!Run(p.client, t, w) ELSE Pull!Run(p.client, w, t)
    BY <1>2 DEF Pull!ClipToWindow, Pull!Returned
  <2>3. t \in t..w \/ t \in w..t
    BY <1>1, <2>2
  <2>4. log[p.client][t] # NoUser
    BY <1>1, <2>2, <2>3 DEF Pull!Run
  <2> QED
    BY <1>1, <2>1, <2>4
<1>3. ASSUME p.start <= t, t < p.end, log[p.client][t] # NoUser
      PROVE  t \in Pull!ClipToWindow(p)
  <2>1. t \in p.start..(p.end - 1) /\ t <= t
    BY <1>1, <1>3
  <2>2. \A x \in t..t : x = t
    BY <1>1
  <2>3. Pull!Run(p.client, t, t)
    BY <1>3, <2>2 DEF Pull!Run
  <2> QED
    BY <2>1, <2>3 DEF Pull!ClipToWindow, Pull!Returned
<1> QED
  BY <1>2, <1>3

\* A pull commits: the units of its window that were in use are credited to its
\* user, and the cursor passes the window.
LEMMA PullDoneIInv == ASSUME Pull!ConstantsOK, PullIInv, NEW p \in pulls, Pull!PullDone(p) PROVE PullIInv'
<1> DEFINE c == p.client
<1>0. /\ c \in Clients /\ p.user \in Users /\ p.start \in 0..MaxTime /\ p.end \in 0..MaxTime
      /\ p.end = passEnd /\ p.start < p.end /\ cursor[c] <= p.start /\ cursor[c] \in Int
      /\ cursor[c] # Pull!None => p.start = cursor[c]
  BY DEF Pull!ConstantsOK, PullIInv, Pull!TypeOK, PullsInTurn, Pull!Instants, Pull!None
<1>1. /\ pulls' = pulls \ {p}
      /\ cursor' = [cursor EXCEPT ![c] = p.end] /\ saved' = [saved EXCEPT ![c] = p.end]
      /\ first' = [first EXCEPT ![c] = IF first[c] = Pull!None THEN p.start ELSE first[c]]
      /\ UNCHANGED <<now, usersOf, log, passEnd, todo, mixed, deaths>>
  BY DEF Pull!PullDone, Pull!Advance
<1>2. credit' = [credit EXCEPT ![c] = [t \in Pull!Units |-> [u \in Users |->
                   credit[c][t][u] + (IF t \in Pull!ClipToWindow(p) /\ u = p.user THEN 1 ELSE 0)]]]
  BY DEF Pull!PullDone, Pull!Insert
<1>3. /\ cursor'[c] = p.end /\ first'[c] # Pull!None
      /\ \A d \in Clients : d # c => cursor'[d] = cursor[d] /\ first'[d] = first[d]
  BY <1>0, <1>1 DEF Pull!ConstantsOK, PullIInv, Pull!TypeOK, Pull!None
<1>4. \A d \in Clients, t \in Pull!Units : d # c \/ t \notin Pull!ClipToWindow(p) => credit'[d][t] = credit[d][t]
  <2>1. \A t \in Pull!Units : credit[c][t] \in [Users -> Nat]
    BY <1>0 DEF PullIInv, Pull!TypeOK
  <2>2. \A d \in Clients : d # c => credit'[d] = credit[d]
    BY <1>2 DEF PullIInv, Pull!TypeOK
  <2>3. ASSUME NEW t \in Pull!Units, t \notin Pull!ClipToWindow(p) PROVE credit'[c][t] = credit[c][t]
    <3>1. credit'[c][t] = [u \in Users |-> credit[c][t][u] + 0]
      BY <1>0, <1>2, <2>3 DEF PullIInv, Pull!TypeOK
    <3> QED
      BY <2>1, <3>1
  <2> QED
    BY <2>2, <2>3
<1>5. ASSUME NEW t \in Pull!Units, t \in Pull!ClipToWindow(p)
      PROVE  /\ credit'[c][t][p.user] = 1
             /\ \A u \in Users : u # p.user => credit'[c][t][u] = 0
  <2>1. credit'[c][t] = [u \in Users |-> credit[c][t][u] + (IF u = p.user THEN 1 ELSE 0)]
    BY <1>0, <1>2, <1>5 DEF PullIInv, Pull!TypeOK
  <2>2. cursor[c] <= t
    BY <1>0, <1>5, ClippedUnits DEF Pull!ConstantsOK, Pull!Units
  <2>3. \A u \in Users : credit[c][t][u] = 0
    BY <1>0, <2>2 DEF PullIInv, CreditedOnce
  <2>4. credit[c][t] \in [Users -> Nat]
    BY <1>0 DEF PullIInv, Pull!TypeOK
  <2> QED
    BY <1>0, <2>1, <2>3, <2>4
<1> HIDE DEF c
<1>6. Pull!TypeOK'
  <2>1. credit' \in [Clients -> [Pull!Units -> [Users -> Nat]]]
    BY <1>0, <1>2 DEF PullIInv, Pull!TypeOK
  <2>2. cursor' \in [Clients -> Pull!Instants] /\ saved' \in [Clients -> Pull!Instants] /\ first' \in [Clients -> Pull!Instants]
    BY <1>0, <1>1 DEF PullIInv, Pull!TypeOK, Pull!Instants
  <2> QED
    BY <1>1, <2>1, <2>2 DEF PullIInv, Pull!TypeOK
<1>7. CursorsKept'
  <2>1. cursor' = saved'
    BY <1>1 DEF PullIInv, CursorsKept
  <2>2. p.end # Pull!None
    BY <1>0 DEF Pull!ConstantsOK, Pull!None
  <2> QED
    BY <1>0, <1>1, <1>3, <2>1, <2>2 DEF Pull!ConstantsOK, PullIInv, CursorsKept, Pull!TypeOK
<1>8. PullsInTurn'
  <2>1. \A q \in pulls' : q \in pulls /\ q.client # c
    BY <1>1 DEF PullIInv, PullsInTurn, c
  <2>2. \A q \in pulls' : cursor'[q.client] = cursor[q.client]
    BY <1>3, <2>1 DEF PullIInv, Pull!TypeOK
  <2> QED
    BY <1>1, <2>1, <2>2 DEF PullIInv, PullsInTurn
<1>9. CreditedOnce'
  <2>1. ASSUME NEW d \in Clients, NEW t \in Pull!Units, NEW u \in Users
        PROVE  /\ credit'[d][t][u] \in {0, 1}
               /\ cursor'[d] <= t => credit'[d][t][u] = 0
               /\ \A v \in Users : credit'[d][t][u] > 0 /\ credit'[d][t][v] > 0 => u = v
    <3>1. CASE d = c /\ t \in Pull!ClipToWindow(p)
      <4>1. t < p.end /\ t \in Int /\ p.end \in Int
        BY <1>0, <3>1, ClippedUnits DEF Pull!ConstantsOK, Pull!Units
      <4>2. \A w \in Users : credit'[d][t][w] \in {0, 1} /\ (credit'[d][t][w] > 0 => w = p.user)
        BY <1>5, <3>1
      <4>3. ~(cursor'[d] <= t)
        BY <1>3, <3>1, <4>1
      <4> QED
        BY <4>2, <4>3
    <3>2. CASE d # c \/ t \notin Pull!ClipToWindow(p)
      <4>1. credit'[d][t] = credit[d][t]
        BY <1>4, <3>2
      <4>2. cursor[d] \in Int /\ t \in Int
        BY DEF Pull!ConstantsOK, PullIInv, Pull!TypeOK, Pull!Instants, Pull!None, Pull!Units
      <4>3. cursor'[d] \in Int /\ cursor[d] <= cursor'[d]
        BY <1>0, <1>3, <4>2 DEF Pull!ConstantsOK
      <4> QED
        BY <4>1, <4>2, <4>3 DEF PullIInv, CreditedOnce
    <3> QED
      BY <3>1, <3>2
  <2> QED
    BY <2>1 DEF CreditedOnce
<1>10. Covered'
  <2>1. ASSUME NEW d \in Clients, NEW t \in Pull!Units, first'[d] # Pull!None, first'[d] <= t, t < cursor'[d],
               log[d][t] # NoUser
        PROVE  \E u \in Users : credit'[d][t][u] > 0
    <3>1. CASE d = c /\ t \in Pull!ClipToWindow(p)
      BY <1>0, <1>5, <3>1
    <3>2. CASE d # c
      BY <1>3, <1>4, <2>1, <3>2 DEF PullIInv, Covered
    <3>3. CASE d = c /\ t \notin Pull!ClipToWindow(p)
      <4>1. t < p.start
        BY <1>0, <1>3, <2>1, <3>3, ClippedUnits DEF Pull!ConstantsOK, Pull!Units, c
      <4>2. first[c] # Pull!None /\ first'[c] = first[c]
        BY <1>0, <1>1, <2>1, <3>3, <4>1 DEF Pull!ConstantsOK, PullIInv, Pull!TypeOK, Pull!Units
      <4>3. cursor[c] # Pull!None
        BY <1>0, <4>2 DEF PullIInv, CursorsKept
      <4> QED
        BY <1>0, <1>4, <2>1, <3>3, <4>1, <4>2, <4>3 DEF PullIInv, Covered
    <3> QED
      BY <3>1, <3>2, <3>3
  <2> QED
    BY <1>1, <2>1 DEF Covered
<1>11. UseByLinked'
  <2>1. \A d \in Clients, t \in Pull!Units : cursor'[d] <= t => cursor[d] <= t
    BY <1>0, <1>3 DEF Pull!ConstantsOK, Pull!Units
  <2> QED
    BY <1>1, <2>1 DEF PullIInv, UseByLinked
<1>12. Pull!RightUserUnlessRelinked'
  <2>1. ASSUME NEW d \in Clients, NEW t \in Pull!Units, NEW u \in Users, credit'[d][t][u] > 0
        PROVE  log[d][t] = u \/ <<d, t>> \in mixed
    <3>1. CASE d = c /\ t \in Pull!ClipToWindow(p)
      <4>1. u = p.user
        BY <1>5, <2>1, <3>1
      <4>2. p.start <= t /\ t < p.end /\ log[c][t] # NoUser
        BY <3>1, ClippedUnits DEF c
      <4>3. t \in p.start..(p.end - 1)
        BY <1>0, <4>2 DEF Pull!ConstantsOK, Pull!Units
      <4> QED
        BY <3>1, <4>1, <4>2, <4>3 DEF PullIInv, UseByLinked, c
    <3>2. CASE d # c \/ t \notin Pull!ClipToWindow(p)
      BY <1>4, <2>1, <3>2 DEF PullIInv, Pull!RightUserUnlessRelinked
    <3> QED
      BY <3>1, <3>2
  <2> QED
    BY <1>1, <2>1 DEF Pull!RightUserUnlessRelinked
<1> QED
  BY <1>6, <1>7, <1>8, <1>9, <1>10, <1>11, <1>12 DEF PullIInv

(* ---- the theorems ---- *)

\* Every step keeps the invariant.
LEMMA PullNextIInv == ASSUME Pull!ConstantsOK, PullIInv, [Pull!Next]_(Pull!vars) PROVE PullIInv'
<1>1. CASE UNCHANGED Pull!vars
  BY <1>1 DEF Pull!vars, PullIInv, Pull!TypeOK, CursorsKept, PullsInTurn, CreditedOnce, Covered, UseByLinked,
              Pull!RightUserUnlessRelinked
<1> QED
  BY <1>1, PassStartIInv, SkipIInv, ConsumeIInv, PullRelinkIInv, PullDoneIInv, PullFailsIInv, PullTimePassesIInv,
     PullCrashIInv DEF Pull!Next

\* The users a unit is credited to are none or one.
LEMMA CreditsOfOne ==
  ASSUME PullIInv, NEW c \in Clients, NEW t \in Pull!Units
  PROVE  /\ Pull!Credits(c, t) \in {0, 1}
         /\ (\E u \in Users : credit[c][t][u] > 0) => Pull!Credits(c, t) = 1
<1> DEFINE S == {u \in Users : credit[c][t][u] > 0}
<1>1. CASE S = {}
  BY <1>1, FS_EmptySet, PullFiniteSets DEF Pull!Credits
<1>2. CASE S # {}
  <2>1. PICK u \in Users : credit[c][t][u] > 0
    BY <1>2
  <2>2. S = {u}
    BY <2>1 DEF PullIInv, CreditedOnce
  <2> QED
    BY <2>2, FS_Singleton, PullFiniteSets DEF Pull!Credits
<1> QED
  BY <1>1, <1>2

\* No unit of use is credited twice, whatever pulls fail, are skipped or are cut
\* off by a crash.
THEOREM CountedOnce == ASSUME Pull!ConstantsOK PROVE Pull!Spec => []Pull!NoDoubleCount
<1>1. Pull!Init => PullIInv
  BY PullInitIInv
<1>2. PullIInv /\ [Pull!Next]_(Pull!vars) => PullIInv'
  BY PullNextIInv
<1>3. PullIInv => Pull!NoDoubleCount
  <2>1. ASSUME PullIInv, NEW c \in Clients, NEW t \in Pull!Units PROVE ~Pull!Twice(c, t)
    <3>1. ~(Pull!Credits(c, t) > 1)
      BY <2>1, CreditsOfOne
    <3>2. \A u \in Users : ~(credit[c][t][u] > 1)
      BY <2>1 DEF PullIInv, CreditedOnce
    <3> QED
      BY <3>1, <3>2 DEF Pull!Twice
  <2> QED
    BY <2>1 DEF Pull!NoDoubleCount
<1> QED
  BY <1>1, <1>2, <1>3, PTL DEF Pull!Spec

\* From a client's first pull to its cursor every unit of use is credited.
THEOREM NoneLost == ASSUME Pull!ConstantsOK PROVE Pull!Spec => []Pull!NothingSkipped
<1>1. Pull!Init => PullIInv
  BY PullInitIInv
<1>2. PullIInv /\ [Pull!Next]_(Pull!vars) => PullIInv'
  BY PullNextIInv
<1>3. PullIInv => Pull!NothingSkipped
  BY CreditsOfOne DEF PullIInv, Covered, Pull!NothingSkipped
<1> QED
  BY <1>1, <1>2, <1>3, PTL DEF Pull!Spec

\* Use is credited to the user it was of, unless the client's links changed between
\* the use and the pull.
THEOREM RightUser == ASSUME Pull!ConstantsOK PROVE Pull!Spec => []Pull!RightUserUnlessRelinked
<1>1. Pull!Init => PullIInv
  BY PullInitIInv
<1>2. PullIInv /\ [Pull!Next]_(Pull!vars) => PullIInv'
  BY PullNextIInv
<1>3. PullIInv => Pull!RightUserUnlessRelinked
  BY DEF PullIInv
<1> QED
  BY <1>1, <1>2, <1>3, PTL DEF Pull!Spec
=============================================================================

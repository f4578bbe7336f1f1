---------------------------- MODULE SshPoolProofs ----------------------------
(***************************************************************************)
(* For every set of hosts, connections and calls: the pool never hands out *)
(* a dead connection, and a call's outcome is final.                       *)
(*                                                                         *)
(* Events evict by key, so NoDeadHandle rests on a pooled connection being *)
(* pooled under its own key.  OutcomeFinal rests on Unsettled: only calls  *)
(* whose work is over have an outcome; `finish` alone may meet a settled   *)
(* call, when the channel of a timed-out command closes.                   *)
(***************************************************************************)
EXTENDS SshPool, TLAPS

ConnRec == [key : Keys \cup {NoConn},
            st : {"unused", "connecting", "ready", "errored", "ended", "closed"}]
CallRec == [key : Keys \cup {NoConn}, conn : Conns \cup {NoConn},
            at : {"none", "ready", "open", "run", "done"},
            chan : {"none", "open", "closed"},
            out : {"none", "result", "unreachable", "timeout"}]

\* TypeOK by its parts.
ConnOK == conn \in [Conns -> ConnRec]
PoolOK == pool \in [Keys -> Conns \cup {NoConn}]
CallOK == call \in [Calls -> CallRec]
RestOK == silent \subseteq Conns /\ shut \in BOOLEAN

\* A connection in use belongs to a host, and only finished calls have an outcome.
UsedHasKey == \A c \in Conns : conn[c].st # "unused" => conn[c].key \in Keys
Unsettled == \A n \in Calls : call[n].out # "none" => call[n].at = "done"

IInv == ConnOK /\ PoolOK /\ CallOK /\ RestOK /\ NoDeadHandle /\ UsedHasKey /\ Unsettled

\* The pool is empty and no call has been made.
LEMMA InitIInv == Init => IInv
<1> SUFFICES ASSUME Init PROVE IInv
  OBVIOUS
<1> USE NoConnAssumption
<1>1. ConnOK /\ UsedHasKey
  BY DEF Init, ConnOK, UsedHasKey, ConnRec, Unused
<1>2. PoolOK /\ NoDeadHandle
  BY DEF Init, PoolOK, NoDeadHandle
<1>3. CallOK /\ Unsettled
  BY DEF Init, CallOK, Unsettled, CallRec, NoCall
<1>4. RestOK
  BY DEF Init, RestOK
<1> QED
  BY <1>1, <1>2, <1>3, <1>4 DEF IInv

\* Taking a key out of the pool leaves the other entries as they were.
LEMMA EvictSafe ==
  ASSUME IInv, NEW k, Evict(k), UNCHANGED conn
  PROVE  PoolOK' /\ NoDeadHandle'
  BY NoConnAssumption DEF IInv, Evict, PoolOK, NoDeadHandle, Live

\* `finish` settles a call at most once and at most evicts its key.
LEMMA FinishSafe ==
  ASSUME IInv, NEW n \in Calls, Finish(n, "unreachable") \/ Finish(n, "result")
  PROVE  IInv' /\ \A m \in Calls : call[m].out # "none" => call'[m].out = call[m].out
<1>1. CallOK'
  BY DEF IInv, Finish, CallOK, CallRec
<1>2. Unsettled' /\ \A m \in Calls : call[m].out # "none" => call'[m].out = call[m].out
  BY DEF IInv, Finish, CallOK, CallRec, Unsettled
<1>3. PoolOK' /\ NoDeadHandle'
  <2>1. CASE Evict(call[n].key) /\ UNCHANGED conn
    BY <2>1, EvictSafe
  <2>2. CASE UNCHANGED <<pool, conn>>
    BY <2>2 DEF IInv, PoolOK, NoDeadHandle, Live
  <2> QED
    BY <2>1, <2>2 DEF Finish
<1>4. ConnOK' /\ RestOK' /\ UsedHasKey'
  BY DEF IInv, Finish, ConnOK, RestOK, UsedHasKey
<1> QED
  BY <1>1, <1>2, <1>3, <1>4 DEF IInv

\* What every step keeps: the invariant, and the outcomes already there.
Kept == IInv' /\ \A m \in Calls : call[m].out # "none" => call'[m].out = call[m].out

\* A call joins the pooled connection or pools a new one.
LEMMA ExecSafe ==
  ASSUME IInv, NEW n \in Calls, NEW k \in Keys, Exec(n, k) PROVE Kept
<1> USE NoConnAssumption
<1>1. CASE pool[k] # NoConn
  <2>1. call' = [call EXCEPT ![n] = [NoCall EXCEPT !.key = k, !.conn = pool[k],
                    !.at = IF conn[pool[k]].st = "connecting" THEN "ready" ELSE "open"]]
        /\ UNCHANGED <<conn, pool, silent, shut>> /\ call[n].at = "none"
    BY <1>1 DEF Exec
  <2>2. CallOK' /\ Unsettled'
    BY <1>1, <2>1 DEF IInv, CallOK, CallRec, NoCall, PoolOK, Unsettled
  <2>3. \A m \in Calls : call[m].out # "none" => call'[m].out = call[m].out
    BY <2>1 DEF IInv, CallOK, CallRec, Unsettled
  <2> QED
    BY <2>1, <2>2, <2>3 DEF Kept, IInv, ConnOK, PoolOK, RestOK, NoDeadHandle, Live, UsedHasKey
<1>2. CASE pool[k] = NoConn
  <2>1. PICK c \in Conns :
          /\ conn[c].st = "unused"
          /\ conn' = [conn EXCEPT ![c] = [key |-> k, st |-> "connecting"]]
          /\ pool' = [pool EXCEPT ![k] = c]
          /\ call' = [call EXCEPT ![n] = [NoCall EXCEPT !.key = k, !.conn = c, !.at = "ready"]]
    BY <1>2 DEF Exec
  <2>2. UNCHANGED <<silent, shut>> /\ call[n].at = "none"
    BY DEF Exec
  <2>3. ConnOK' /\ UsedHasKey'
    BY <2>1 DEF IInv, ConnOK, ConnRec, UsedHasKey
  <2>4. PoolOK' /\ NoDeadHandle'
    BY <2>1 DEF IInv, ConnOK, ConnRec, PoolOK, NoDeadHandle, Live
  <2>5. CallOK' /\ Unsettled'
    BY <2>1 DEF IInv, CallOK, CallRec, NoCall, Unsettled
  <2>6. \A m \in Calls : call[m].out # "none" => call'[m].out = call[m].out
    BY <2>1, <2>2 DEF IInv, CallOK, CallRec, Unsettled
  <2> QED
    BY <2>2, <2>3, <2>4, <2>5, <2>6 DEF Kept, IInv, RestOK
<1> QED
  BY <1>1, <1>2

\* `ready`, `error` and `close` of a connection.
LEMMA ConnEventSafe ==
  ASSUME IInv, NEW c \in Conns, Ready(c) \/ Error(c) \/ Close(c) PROVE Kept
<1> USE NoConnAssumption
<1>1. CASE Ready(c)
  <2>1. ConnOK' /\ UsedHasKey'
    BY <1>1 DEF Ready, IInv, ConnOK, ConnRec, UsedHasKey
  <2>2. PoolOK' /\ NoDeadHandle'
    BY <1>1 DEF Ready, IInv, ConnOK, ConnRec, PoolOK, NoDeadHandle, Live
  <2>3. CallOK' /\ Unsettled' /\ \A m \in Calls : call[m].out # "none" => call'[m].out = call[m].out
    BY <1>1 DEF Ready, IInv, CallOK, CallRec, Unsettled
  <2> QED
    BY <1>1, <2>1, <2>2, <2>3 DEF Kept, IInv, RestOK, Ready
<1>2. CASE Error(c)
  <2>1. ConnOK' /\ UsedHasKey'
    BY <1>2 DEF Error, Reject, IInv, ConnOK, ConnRec, UsedHasKey
  <2>2. PoolOK' /\ NoDeadHandle'
    BY ZenonT(60), <1>2 DEF Error, Reject, Evict, IInv, ConnOK, ConnRec, PoolOK, NoDeadHandle, Live, UsedHasKey
  <2>3. CallOK' /\ Unsettled' /\ \A m \in Calls : call[m].out # "none" => call'[m].out = call[m].out
    BY ZenonT(60), <1>2 DEF Error, Reject, IInv, CallOK, CallRec, Unsettled
  <2> QED
    BY <1>2, <2>1, <2>2, <2>3 DEF Kept, IInv, RestOK, Error, Reject
<1>3. CASE Close(c)
  <2>1. ConnOK' /\ UsedHasKey'
    BY <1>3 DEF Close, IInv, ConnOK, ConnRec, UsedHasKey
  <2>2. PoolOK' /\ NoDeadHandle'
    BY <1>3 DEF Close, Evict, IInv, ConnOK, ConnRec, PoolOK, NoDeadHandle, Live, UsedHasKey
  <2> QED
    BY <1>3, <2>1, <2>2 DEF Kept, IInv, RestOK, Close, CallOK, Unsettled
<1> QED
  BY <1>1, <1>2, <1>3

\* The steps of one call's channel.
LEMMA CallSafe ==
  ASSUME IInv, NEW n \in Calls, Opens(n) \/ Runs(n) PROVE Kept
<1>1. CASE ChannelOpens(n)
  <2>1. CallOK' /\ Unsettled' /\ \A m \in Calls : call[m].out # "none" => call'[m].out = call[m].out
    BY ZenonT(60), <1>1 DEF ChannelOpens, IInv, CallOK, CallRec, Unsettled
  <2> QED
    BY <1>1, <2>1 DEF ChannelOpens, Kept, IInv, ConnOK, PoolOK, RestOK, NoDeadHandle, Live, UsedHasKey
<1>2. CASE ExecTimeout(n)
  <2>1. CallOK' /\ Unsettled' /\ \A m \in Calls : call[m].out # "none" => call'[m].out = call[m].out
    BY <1>2 DEF ExecTimeout, IInv, CallOK, CallRec, Unsettled
  <2> QED
    BY <1>2, <2>1 DEF ExecTimeout, Kept, IInv, ConnOK, PoolOK, RestOK, NoDeadHandle, Live, UsedHasKey
<1>3. CASE ChannelRefused(n) \/ CommandExits(n) \/ ChannelDrops(n)
  BY <1>3, FinishSafe DEF ChannelRefused, CommandExits, ChannelDrops, Kept
<1> QED
  BY <1>1, <1>2, <1>3 DEF Opens, Runs

\* dispose, disposeAll and a peer that falls silent.
LEMMA RestSafe ==
  ASSUME IInv,
         (\E k \in Keys : Dispose(k)) \/ DisposeAll \/ (\E c \in Conns : GoesSilent(c))
  PROVE  Kept
<1> USE NoConnAssumption
<1>1. ASSUME NEW k \in Keys, Dispose(k) PROVE Kept
  <2>1. ConnOK' /\ UsedHasKey'
    BY <1>1 DEF Dispose, IInv, ConnOK, ConnRec, PoolOK, UsedHasKey, NoDeadHandle, Live
  <2>2. PoolOK' /\ NoDeadHandle'
    BY <1>1 DEF Dispose, Evict, IInv, ConnOK, ConnRec, PoolOK, NoDeadHandle, Live
  <2> QED
    BY <1>1, <2>1, <2>2 DEF Dispose, Kept, IInv, RestOK, CallOK, Unsettled
<1>2. CASE DisposeAll
  <2>1. ConnOK' /\ UsedHasKey'
    BY <1>2 DEF DisposeAll, IInv, ConnOK, ConnRec, PoolOK, UsedHasKey, NoDeadHandle, Live
  <2>2. PoolOK' /\ NoDeadHandle'
    BY <1>2 DEF DisposeAll, IInv, PoolOK, NoDeadHandle
  <2> QED
    BY <1>2, <2>1, <2>2 DEF DisposeAll, Kept, IInv, RestOK, CallOK, Unsettled
<1>3. ASSUME NEW c \in Conns, GoesSilent(c) PROVE Kept
  BY <1>3 DEF GoesSilent, Kept, IInv, ConnOK, PoolOK, CallOK, RestOK, NoDeadHandle, Live,
              UsedHasKey, Unsettled
<1> QED
  BY <1>1, <1>2, <1>3

\* Every step of the transport keeps the invariant and the outcomes.
LEMMA NextIInv == IInv /\ [Next]_vars => Kept
<1> SUFFICES ASSUME IInv, [Next]_vars PROVE Kept
  OBVIOUS
<1>1. CASE UNCHANGED vars
  BY <1>1 DEF vars, Kept, IInv, ConnOK, PoolOK, CallOK, RestOK, NoDeadHandle, Live,
              UsedHasKey, Unsettled
<1>2. ASSUME NEW n \in Calls, NEW k \in Keys, Exec(n, k) PROVE Kept
  BY <1>2, ExecSafe
<1>3. ASSUME NEW c \in Conns, Ready(c) \/ Error(c) \/ Close(c) PROVE Kept
  BY <1>3, ConnEventSafe
<1>4. ASSUME NEW n \in Calls, Opens(n) \/ Runs(n) PROVE Kept
  BY <1>4, CallSafe
<1>5. CASE (\E k \in Keys : Dispose(k)) \/ DisposeAll \/ (\E c \in Conns : GoesSilent(c))
  BY <1>5, RestSafe
<1> QED
  BY <1>1, <1>2, <1>3, <1>4, <1>5 DEF Next

\* The transport's state is well formed, for every value of the constants.
THEOREM TypeCorrect == Spec => []TypeOK
<1>1. IInv => TypeOK
  BY DEF IInv, TypeOK, ConnOK, PoolOK, CallOK, RestOK, ConnRec, CallRec
<1>2. IInv /\ [Next]_vars => IInv'
  BY NextIInv DEF Kept
<1> QED
  BY InitIInv, <1>1, <1>2, PTL DEF Spec

\* The pool never hands out a connection whose error or close fired, nor one to
\* another host (facade.ts), for any number of hosts, connections and calls.
THEOREM PoolHandlesLive == Spec => []NoDeadHandle
<1>1. IInv => NoDeadHandle
  BY DEF IInv
<1>2. IInv /\ [Next]_vars => IInv'
  BY NextIInv DEF Kept
<1> QED
  BY InitIInv, <1>1, <1>2, PTL DEF Spec

\* The outcome of a call is final: the close that follows a timeout does not make
\* it an unreachable host (exec-buffer.ts).
THEOREM OutcomesFinal == Spec => OutcomeFinal
<1>1. IInv /\ [Next]_vars => IInv'
  BY NextIInv DEF Kept
<1>2. IInv /\ [Next]_vars =>
        [\A n \in Calls : call[n].out # "none" => call'[n].out = call[n].out]_vars
  BY NextIInv DEF Kept
<1> QED
  BY InitIInv, <1>1, <1>2, PTL DEF Spec, OutcomeFinal
=============================================================================

------------------------------- MODULE SshPool -------------------------------
(***************************************************************************)
(* The pooled SSH transport (server/src/transport/ssh/facade.ts) and the   *)
(* execution of one command over a session (exec-buffer.ts).               *)
(*                                                                         *)
(* The pool maps a key (user@host:port) to a connection.  A connection is  *)
(* removed from it by three kinds of event, each of which deletes the KEY, *)
(* whatever connection it maps to by then:                                 *)
(*   - `error` and `close` of a connection (both may follow one another);  *)
(*   - a command that ends with SshUnreachableError.                       *)
(* Calls share connections and are not serialised; ssh2 delivers events    *)
(* of connections and channels in any order consistent with their lives.   *)
(***************************************************************************)
EXTENDS Integers, FiniteSets

CONSTANTS Keys,      \* user@host:port
          Conns,     \* ssh2 Client objects (bound: connections opened)
          Calls,     \* bound: exec calls
          NoConn     \* "not in the pool"

ASSUME NoConnAssumption == NoConn \notin Conns /\ NoConn \notin Keys

VARIABLES
  conn,     \* the connections' lives, as the client's events tell them
  pool,     \* #connections
  silent,   \* sessions whose peer no longer answers, though TCP stays up
  call,     \* the exec calls
  shut      \* disposeAll has run

vars == <<conn, pool, silent, call, shut>>

Unused == [key |-> NoConn, st |-> "unused"]
NoCall == [key |-> NoConn, conn |-> NoConn, at |-> "none", chan |-> "none",
           out |-> "none"]

Init ==
  /\ conn = [c \in Conns |-> Unused]
  /\ pool = [k \in Keys |-> NoConn]
  /\ silent = {}
  /\ call = [n \in Calls |-> NoCall]
  /\ shut = FALSE

\* this.#connections.delete(key).
Evict(k) == pool' = [pool EXCEPT ![k] = NoConn]

\* The connections still holding a TCP session.
Live(c) == conn[c].st \in {"connecting", "ready"}

(* ---- exec: #connect, then ExecBuffer.run ---- *)

\* A call takes the pooled connection, or opens and pools a new one, and awaits
\* its `ready`; on a connection that is ready it asks for a channel at once.
Exec(n, k) ==
  /\ ~shut
  /\ call[n].at = "none"
  /\ \/ /\ pool[k] # NoConn
        /\ call' = [call EXCEPT ![n] = [NoCall EXCEPT !.key = k, !.conn = pool[k],
                       !.at = IF conn[pool[k]].st = "connecting" THEN "ready" ELSE "open"]]
        /\ UNCHANGED <<conn, pool>>
     \/ /\ pool[k] = NoConn
        /\ \E c \in Conns :
             /\ conn[c].st = "unused"
             /\ conn' = [conn EXCEPT ![c] = [key |-> k, st |-> "connecting"]]
             /\ pool' = [pool EXCEPT ![k] = c]
             /\ call' = [call EXCEPT ![n] = [NoCall EXCEPT !.key = k, !.conn = c, !.at = "ready"]]
  /\ UNCHANGED <<silent, shut>>

\* Mutant: `ready` wakes only one of the calls awaiting it.
ReadyWakesOne(c) ==
  /\ conn[c].st = "connecting"
  /\ conn' = [conn EXCEPT ![c].st = "ready"]
  /\ \E n \in Calls : /\ call[n].conn = c /\ call[n].at = "ready"
                      /\ call' = [call EXCEPT ![n].at = "open"]
  /\ UNCHANGED <<pool, silent, shut>>

\* `ready`: every call awaiting it goes on to ask for its channel.
Ready(c) ==
  /\ conn[c].st = "connecting"
  /\ conn' = [conn EXCEPT ![c].st = "ready"]
  /\ call' = [n \in Calls |-> IF call[n].conn = c /\ call[n].at = "ready"
                              THEN [call[n] EXCEPT !.at = "open"] ELSE call[n]]
  /\ UNCHANGED <<pool, silent, shut>>

\* `ready` is rejected, if it had not settled, failing the calls awaiting it.
Reject(c, out) ==
  /\ conn[c].st \in {"connecting", "ready", "errored", "ended"}
  /\ conn' = [conn EXCEPT ![c].st = "errored"]
  /\ call' = [n \in Calls |-> IF call[n].conn = c /\ call[n].at = "ready"
                              THEN [call[n] EXCEPT !.at = "done", !.out = out]
                              ELSE call[n]]
  /\ silent' = silent \ {c}
  /\ UNCHANGED shut

\* Mutant: an error evicts nothing.
ErrorNoEvict(c) == Reject(c, "unreachable") /\ UNCHANGED pool

\* `error`, possibly repeated: the key is evicted and `ready` rejected.
Error(c) == Reject(c, "unreachable") /\ Evict(conn[c].key)

\* `close` of a session that dropped, failed or was ended: the key is evicted.
\* A channel request that was pending is answered (with an error, next action).
Close(c) ==
  /\ conn[c].st \in {"ready", "errored", "ended"}
  /\ conn' = [conn EXCEPT ![c].st = "closed"]
  /\ Evict(conn[c].key)
  /\ silent' = silent \ {c}
  /\ UNCHANGED <<call, shut>>

\* Mutant: `finish` without its settled guard.
FinishAgain(n, out) ==
  /\ call' = [call EXCEPT ![n].at = "done", ![n].chan = "closed", ![n].out = out]
  /\ IF out = "unreachable" THEN Evict(call[n].key) ELSE UNCHANGED pool
  /\ UNCHANGED <<conn, silent, shut>>

\* `finish`: only the first outcome settles the promise; #exec's catch evicts
\* the key when it is SshUnreachableError.
Finish(n, out) ==
  /\ call' = [call EXCEPT ![n].at = "done", ![n].chan = "closed",
                          ![n].out = IF @ = "none" THEN out ELSE @]
  /\ IF call[n].out = "none" /\ out = "unreachable" THEN Evict(call[n].key)
     ELSE UNCHANGED pool
  /\ UNCHANGED <<conn, silent, shut>>

\* client.exec's callback: the channel is open and the timeout is armed.
ChannelOpens(n) ==
  /\ call[n].at = "open" /\ conn[call[n].conn].st = "ready" /\ call[n].conn \notin silent
  /\ call' = [call EXCEPT ![n].at = "run", ![n].chan = "open"]
  /\ UNCHANGED <<conn, pool, silent, shut>>

\* client.exec's callback: an error, from the peer or because the session died.
ChannelRefused(n) ==
  /\ call[n].at = "open" /\ call[n].conn \notin silent
  /\ Finish(n, "unreachable")

\* The command exits and its channel closes: resolved, whatever the exit code.
CommandExits(n) ==
  /\ call[n].at = "run" /\ conn[call[n].conn].st = "ready" /\ call[n].conn \notin silent
  /\ Finish(n, "result")

\* The channel closes without an exit status: the session dropped (or the peer
\* closed the channel), or a timed-out command's channel finishes closing.
ChannelDrops(n) ==
  /\ call[n].chan = "open"
  /\ Finish(n, "unreachable")

\* The exec timeout: the channel is destroyed, the connection stays pooled.
ExecTimeout(n) ==
  /\ call[n].at = "run"
  /\ call' = [call EXCEPT ![n].at = "done", ![n].out = "timeout"]
  /\ UNCHANGED <<conn, pool, silent, shut>>

(* ---- dispose, disposeAll ---- *)

\* dispose.  A call still awaiting `ready` of the ended connection is settled
\* only if ssh2 reports an `error` for it: `close` does not settle `ready`.
Dispose(k) ==
  /\ pool[k] # NoConn
  /\ conn' = [conn EXCEPT ![pool[k]].st = "ended"]
  /\ Evict(k)
  /\ UNCHANGED <<silent, call, shut>>

\* disposeAll, on app.close(): every pooled connection is ended.
DisposeAll ==
  /\ ~shut
  /\ shut' = TRUE
  /\ conn' = [c \in Conns |-> IF \E k \in Keys : pool[k] = c
                              THEN [conn[c] EXCEPT !.st = "ended"] ELSE conn[c]]
  /\ pool' = [k \in Keys |-> NoConn]
  /\ UNCHANGED <<silent, call>>

(* ---- environment ---- *)

\* The peer stops answering without the TCP session failing (a stopped sshd).
GoesSilent(c) ==
  /\ conn[c].st = "ready"
  /\ silent' = silent \cup {c}
  /\ UNCHANGED <<conn, pool, call, shut>>

Connects(c) == conn[c].st = "connecting" /\ (Ready(c) \/ Error(c))
Opens(n) == ChannelOpens(n) \/ ChannelRefused(n)
Runs(n) == CommandExits(n) \/ ChannelDrops(n) \/ ExecTimeout(n)

Next ==
  \/ \E n \in Calls, k \in Keys : Exec(n, k)
  \/ \E c \in Conns : Ready(c) \/ Error(c) \/ Close(c) \/ GoesSilent(c)
  \/ \E n \in Calls : Opens(n) \/ Runs(n)
  \/ \E k \in Keys : Dispose(k)
  \/ DisposeAll

\* The ready timeout settles every connection attempt, the exec timeout every
\* open channel, and an answering (or dead) session every channel request.
Fairness ==
  /\ \A c \in Conns : WF_vars(Connects(c))
  /\ \A n \in Calls : WF_vars(Opens(n)) /\ WF_vars(Runs(n))

Spec == Init /\ [][Next]_vars
FairSpec == Spec /\ Fairness

-----------------------------------------------------------------------------
\* The state is well formed.
TypeOK ==
  /\ conn \in [Conns -> [key : Keys \cup {NoConn},
                         st : {"unused", "connecting", "ready", "errored", "ended", "closed"}]]
  /\ pool \in [Keys -> Conns \cup {NoConn}]
  /\ silent \subseteq Conns
  /\ call \in [Calls -> [key : Keys \cup {NoConn}, conn : Conns \cup {NoConn},
                         at : {"none", "ready", "open", "run", "done"},
                         chan : {"none", "open", "closed"},
                         out : {"none", "result", "unreachable", "timeout"}]]
  /\ shut \in BOOLEAN

\* "A drop after the session was established evicts it so the next call reconnects
\* rather than reusing a dead handle" (facade.ts): whatever the pool hands out is
\* connected to its own key's host, and none of its `error`/`close` events fired.
NoDeadHandle ==
  \A k \in Keys : pool[k] # NoConn => Live(pool[k]) /\ conn[pool[k]].key = k

\* A call is settled once: the channel's close event that follows a timeout does
\* not turn it into an unreachable host (exec-buffer.ts `finish`), which would
\* evict a healthy connection and make the drainer give up on the client.
OutcomeFinal ==
  [][\A n \in Calls : call[n].out # "none" => call'[n].out = call[n].out]_vars

\* A connection that was ended before it was ready strands the calls awaiting it.
Stranded(n) == call[n].at = "ready" /\ ~Live(call[n].conn)

\* Every call is eventually settled, unless its session's peer went silent or its
\* connection was disposed of: no wake-up is lost between calls sharing a session.
SettlesUnlessSilent ==
  \A n \in Calls :
    (call[n].at \in {"ready", "open", "run"}) ~>
      (call[n].at = "done" \/ call[n].conn \in silent \/ Stranded(n))

\* "should never let a hung command block its caller forever, so exec is time-boxed
\* by default" (facade.ts): a call that has its session is eventually settled.
ExecTimeBoxed == \A n \in Calls : (call[n].at = "open") ~> (call[n].at = "done")
=============================================================================

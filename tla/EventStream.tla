----------------------------- MODULE EventStream -----------------------------
(***************************************************************************)
(* The live event stream from the server to the clients' agents:           *)
(*   - the handshake and the life of a socket (server/src/events/stream.ts)*)
(*   - the fan-out registry (hub.ts) and the ping/pong (heartbeat.ts);     *)
(*   - the bridge that dials in, reconnects and relays frames to the       *)
(*     agents attached to it (client/agent/src/bridge).                    *)
(*                                                                         *)
(* A socket has two ends, which learn of its end separately: the server's  *)
(* (srv) and the bridge's (br).  The network between them may go dead      *)
(* without either being told (a half-open connection).                     *)
(***************************************************************************)
EXTENDS Integers, Sequences

CONSTANTS Clients,
          MaxSock,   \* bound: connections in one behaviour
          MaxSeq,    \* bound: events published
          First      \* the opening messages bridges send: "full", "plain", "old", "bad"


Sockets == 1..MaxSock

VARIABLES
  sock,      \* the sockets
  wire,      \* frames written by the server and not yet read by the bridge
  flag,      \* clients.update_required
  reconnect, \* pending connects of the bridge's WsClient
  attached,  \* clients with an agent on the bridge's AF_UNIX socket
  seq,       \* EventHub.#seq
  got        \* history: the frames the client's agent received

vars == <<sock, wire, flag, reconnect, attached, seq, got>>

NoSock == [client |-> 0, srv |-> "none", br |-> "none", net |-> "up", said |-> FALSE,
           settled |-> FALSE, refused |-> FALSE, stale |-> FALSE, hub |-> FALSE,
           caps |-> FALSE, alive |-> FALSE]

Init ==
  /\ sock = [s \in Sockets |-> NoSock]
  /\ wire = [s \in Sockets |-> <<>>]
  /\ flag \in [Clients -> BOOLEAN]
  /\ reconnect = [c \in Clients |-> 1]      \* WsClient.start
  /\ attached = Clients
  /\ seq = 0
  /\ got = [c \in Clients |-> <<>>]

Talks(s) == sock[s].net = "up" /\ sock[s].br = "open"

(* ---- the bridge's WsClient ---- *)

\* #connect; the server authenticates the upgrade, reading the client's row, and
\* arms the hello timer.
BridgeConnects(s, c) ==
  /\ sock[s].srv = "none"
  /\ \A r \in Sockets : r < s => sock[r].srv # "none"
  /\ reconnect[c] > 0
  /\ reconnect' = [reconnect EXCEPT ![c] = @ - 1]
  /\ sock' = [sock EXCEPT ![s] = [NoSock EXCEPT !.client = c, !.srv = "open",
                                  !.br = "open", !.stale = flag[c]]]
  /\ UNCHANGED <<wire, flag, attached, seq, got>>

\* The bridge's end is closed; its `close` handler schedules a reconnect.
Hangup(s) ==
  /\ sock' = [sock EXCEPT ![s].br = "closed"]
  /\ wire' = [wire EXCEPT ![s] = <<>>]
  /\ reconnect' = [reconnect EXCEPT ![sock[s].client] = @ + 1]
  /\ UNCHANGED <<flag, attached, seq, got>>

\* The server's close reaches the bridge.
BridgeClosed(s) ==
  /\ Talks(s) /\ sock[s].srv \in {"closing", "closed"}
  /\ Hangup(s)

\* Mutant: `error` schedules a reconnect, and the socket is left open.
BridgeErrorKeepsSocket(s) ==
  /\ Talks(s) /\ reconnect[sock[s].client] = 0
  /\ reconnect' = [reconnect EXCEPT ![sock[s].client] = 1]
  /\ UNCHANGED <<sock, wire, flag, attached, seq, got>>

\* The bridge's end fails: `error`, then `close`.
BridgeError(s) ==
  /\ Talks(s)
  /\ Hangup(s)

\* onFrame: Dispatcher.dispatch writes to the user's agents, or drops the frame.
FrameArrives(s) ==
  /\ Talks(s) /\ wire[s] # <<>>
  /\ wire' = [wire EXCEPT ![s] = Tail(@)]
  /\ LET c == sock[s].client IN
       got' = IF c \in attached THEN [got EXCEPT ![c] = Append(@, Head(wire[s]))] ELSE got
  /\ UNCHANGED <<sock, flag, reconnect, attached, seq>>

\* An agent attaches to, or drops off, the bridge's AF_UNIX socket.
AgentFlips(c) ==
  /\ attached' = IF c \in attached THEN attached \ {c} ELSE attached \cup {c}
  /\ UNCHANGED <<sock, wire, flag, reconnect, seq, got>>

(* ---- the handshake ---- *)

Refuse(s) == sock' = [sock EXCEPT ![s].settled = TRUE, ![s].refused = TRUE,
                                  ![s].srv = "closing", ![s].said = TRUE]

\* Mutant: a compatible connect leaves the flag alone.
AcceptKeepsFlag(s, caps) ==
  /\ UNCHANGED flag
  /\ sock' = [sock EXCEPT ![s].settled = TRUE, ![s].said = TRUE, ![s].hub = TRUE,
                          ![s].caps = caps, ![s].alive = TRUE]

\* Accepted: the bookkeeping, then `accept`, hub.register and the heartbeat.
Accept(s, caps) ==
  /\ flag' = IF sock[s].stale THEN [flag EXCEPT ![sock[s].client] = FALSE] ELSE flag
  /\ sock' = [sock EXCEPT ![s].settled = TRUE, ![s].said = TRUE, ![s].hub = TRUE,
                          ![s].caps = caps, ![s].alive = TRUE]

\* negotiate and what follows, on an opening message m.
Negotiate(s, m) ==
  \/ m = "bad" /\ Refuse(s) /\ UNCHANGED flag
  \/ m = "old" /\ Refuse(s) /\ flag' = [flag EXCEPT ![sock[s].client] = TRUE]
  \/ m \in {"full", "plain"} /\ Accept(s, m = "full")
  \/ m \in {"full", "plain"} /\ Refuse(s) /\ UNCHANGED flag   \* the bookkeeping threw

\* The opening message arrives, possibly at a socket being closed.
Heard(s) == sock[s].srv \in {"open", "closing"} /\ Talks(s) /\ ~sock[s].said

\* Mutant: the message handler does not look at `settled`.
HelloIgnoresSettled(s, m) ==
  /\ Heard(s)
  /\ Negotiate(s, m)
  /\ UNCHANGED <<wire, reconnect, attached, seq, got>>

\* socket.once("message"): a no-op when the timeout has settled the handshake.
Hello(s, m) ==
  /\ Heard(s)
  /\ IF sock[s].settled THEN sock' = [sock EXCEPT ![s].said = TRUE] /\ UNCHANGED flag
     ELSE Negotiate(s, m)
  /\ UNCHANGED <<wire, reconnect, attached, seq, got>>

\* The hello timer.
HelloTimeout(s) ==
  /\ sock[s].srv = "open" /\ ~sock[s].settled
  /\ sock' = [sock EXCEPT ![s].settled = TRUE, ![s].refused = TRUE, ![s].srv = "closing"]
  /\ UNCHANGED <<wire, flag, reconnect, attached, seq, got>>

(* ---- heartbeat, close ---- *)

\* Mutant: the interval pings without expecting an answer.
HeartbeatTrusts(s) ==
  /\ sock[s].hub /\ sock[s].srv = "open"
  /\ sock' = [sock EXCEPT ![s].alive = TRUE]
  /\ UNCHANGED <<wire, flag, reconnect, attached, seq, got>>

\* The ping interval: terminate a peer that has not answered, or ping it.
HeartbeatTick(s) ==
  /\ sock[s].hub /\ sock[s].srv = "open"
  /\ sock' = IF sock[s].alive THEN [sock EXCEPT ![s].alive = FALSE]
             ELSE [sock EXCEPT ![s].srv = "closing"]
  /\ UNCHANGED <<wire, flag, reconnect, attached, seq, got>>

\* A pong, in time or late.
Pong(s) ==
  /\ sock[s].hub /\ Talks(s)
  /\ sock' = [sock EXCEPT ![s].alive = TRUE]
  /\ UNCHANGED <<wire, flag, reconnect, attached, seq, got>>

\* `close` at the server, after its own close or terminate or the bridge's:
\* timers are cleared and the socket is unregistered.
ServerClosed(s) ==
  /\ \/ sock[s].srv = "closing"
     \/ sock[s].srv = "open" /\ sock[s].br = "closed" /\ sock[s].net = "up"
  /\ sock' = [sock EXCEPT ![s].srv = "closed", ![s].hub = FALSE]
  /\ UNCHANGED <<wire, flag, reconnect, attached, seq, got>>

(* ---- publishToClient ---- *)

\* The client's connections a frame is written to; force_close is gated.
Recipients(c, gated) ==
  {s \in Sockets : /\ sock[s].hub /\ sock[s].client = c
                   /\ sock[s].srv = "open"
                   /\ gated => sock[s].caps}

\* Mutant: the frame is stamped before the counter moves.
PublishOldSeq(c, gated) ==
  /\ seq < MaxSeq
  /\ \E s \in Sockets : sock[s].hub /\ sock[s].client = c    \* or: returns 0
  /\ seq' = seq + 1
  /\ wire' = [s \in Sockets |-> IF s \in Recipients(c, gated) /\ sock[s].br = "open"
                                THEN Append(wire[s], seq) ELSE wire[s]]
  /\ UNCHANGED <<sock, flag, reconnect, attached, got>>

\* publishToClient: an event for client c, written to its connections.
Publish(c, gated) ==
  /\ seq < MaxSeq
  /\ \E s \in Sockets : sock[s].hub /\ sock[s].client = c    \* or: returns 0
  /\ seq' = seq + 1
  /\ wire' = [s \in Sockets |-> IF s \in Recipients(c, gated) /\ sock[s].br = "open"
                                THEN Append(wire[s], seq + 1) ELSE wire[s]]
  /\ UNCHANGED <<sock, flag, reconnect, attached, got>>

(* ---- the network ---- *)

\* The path goes dead: no byte, FIN or RST passes any more.
NetDies(s) ==
  /\ sock[s].srv # "none" /\ sock[s].net = "up"
  /\ sock' = [sock EXCEPT ![s].net = "dead"]
  /\ UNCHANGED <<wire, flag, reconnect, attached, seq, got>>

Next ==
  \/ \E s \in Sockets :
       \/ \E c \in Clients : BridgeConnects(s, c)
       \/ \E m \in First : Hello(s, m)
       \/ BridgeClosed(s) \/ BridgeError(s) \/ FrameArrives(s)
       \/ HelloTimeout(s) \/ HeartbeatTick(s) \/ Pong(s) \/ ServerClosed(s)
       \/ NetDies(s)
  \/ \E c \in Clients : AgentFlips(c) \/ \E g \in BOOLEAN : Publish(c, g)

\* Timers fire, closed sockets emit `close`, and bytes on a working path arrive.
Fairness ==
  \A s \in Sockets :
    /\ WF_vars(HelloTimeout(s)) /\ WF_vars(HeartbeatTick(s)) /\ WF_vars(ServerClosed(s))
    /\ WF_vars(BridgeClosed(s)) /\ WF_vars(FrameArrives(s))

Spec == Init /\ [][Next]_vars
FairSpec == Spec /\ Fairness

-----------------------------------------------------------------------------
\* The state is well formed.
TypeOK ==
  /\ sock \in [Sockets ->
       [client : Clients \cup {0}, srv : {"none", "open", "closing", "closed"},
        br : {"none", "open", "closed"}, net : {"up", "dead"}, said : BOOLEAN,
        settled : BOOLEAN, refused : BOOLEAN, stale : BOOLEAN, hub : BOOLEAN,
        caps : BOOLEAN, alive : BOOLEAN]]
  /\ \A s \in Sockets : wire[s] \in Seq(1..MaxSeq)
  /\ flag \in [Clients -> BOOLEAN]
  /\ reconnect \in [Clients -> Nat]
  /\ attached \subseteq Clients
  /\ seq \in 0..MaxSeq
  /\ \A c \in Clients : got[c] \in Seq(1..MaxSeq)

\* "The handshake settles exactly once" (stream.ts): whichever of a late hello and
\* the hello timeout comes second, a refused socket is never in the hub.
RefusedNeverRegistered == \A s \in Sockets : ~(sock[s].refused /\ sock[s].hub)

\* An agent sees each event at most once and in the order it was published, across
\* reconnects and while the server still holds the client's previous socket.
FramesInOrder ==
  \A c \in Clients : \A i, j \in DOMAIN got[c] : i < j => got[c][i] < got[c][j]

\* "A compatible connect clears any stale update-required flag" (stream.ts), though
\* the flag is read when the socket is authenticated and used when its hello comes:
\* a bridge has one connection, so none of its hellos sets the flag in between.
ConnectStep == \A s \in Sockets : ~sock[s].hub /\ sock'[s].hub => ~flag'[sock[s].client]
ConnectClearsFlag == [][ConnectStep]_vars

\* A half-open socket does not linger at the server (heartbeat.ts), at whatever
\* stage of its life the peer vanished: the hello timeout or the heartbeat ends it.
Lingers(s) == sock[s].net = "dead" /\ sock[s].srv \notin {"none", "closed"}
HalfOpenReaped == \A s \in Sockets : Lingers(s) ~> ~Lingers(s)

\* "a dead peer is surfaced to us as a `close`, which drives the reconnect"
\* (ws-client.ts): the bridge eventually learns that its connection is gone.
DeadPeerSurfaced ==
  \A s \in Sockets : (sock[s].srv = "closed") ~> (sock[s].br = "closed")
=============================================================================

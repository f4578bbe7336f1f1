----------------------------- MODULE LiveProofs -----------------------------
(***************************************************************************)
(* The agent, the event stream and the AdGuard supervisor, as MCLive puts  *)
(* them side by side: for any grace, budgets, grants, clients,             *)
(* connections, events, opening messages, upstream releases, restart caps, *)
(* spawns and boots, and any number of runs and ticks.                     *)
(*                                                                         *)
(* The agent's force-close: beside an unfinished run that has not          *)
(* overlapped, no other of its activity can act (Solo), so the timers that *)
(* look it up by activity act on its own countdown, and it is where its    *)
(* course puts it (OnCourse): a grant that finds it in the map stops it.   *)
(*                                                                         *)
(* The agent's warnings: the tracker's last boundary is the least it has   *)
(* told (Tracked), a tick knows no more use of today than there was        *)
(* (UseKnown), and the frames on the wire follow those applied             *)
(* (FramesFollow).                                                         *)
(*                                                                         *)
(* The stream: a handshake is settled once, so a refused socket stays out  *)
(* of the hub; a bridge has one open connection or one pending connect     *)
(* (OneLink), so what its agent has seen, what is on the wire and what is  *)
(* published next follow each other (InOrder), and no hello but a socket's *)
(* own touches the flag it read (FlagAsRead).                              *)
(*                                                                         *)
(* The supervisor: the acquisition, the live child and the pending restart *)
(* exclude each other (OneSpawner); what a spawn uses up of the restart    *)
(* cap is what the back-off counts (Counted); and outside a write the      *)
(* sentinel names a binary that is whole (DiskKept).                       *)
(***************************************************************************)
EXTENDS MCLive, SequenceTheorems, WellFoundedInduction, TLAPS

(* ---- the event stream ---- *)

SockRec ==
  [client : Clients \cup {0}, srv : {"none", "open", "closing", "closed"},
   br : {"none", "open", "closed"}, net : {"up", "dead"}, said : BOOLEAN,
   settled : BOOLEAN, refused : BOOLEAN, stale : BOOLEAN, hub : BOOLEAN,
   caps : BOOLEAN, alive : BOOLEAN]

StreamTyped ==
  /\ sock \in [Stream!Sockets -> SockRec]
  /\ wire \in [Stream!Sockets -> Seq(1..MaxSeq)]
  /\ flag \in [Clients -> BOOLEAN] /\ reconnect \in [Clients -> Nat]
  /\ attached \subseteq Clients /\ seq \in 0..MaxSeq
  /\ got \in [Clients -> Seq(1..MaxSeq)]

\* A handshake that is settled is not settled again, and a socket in use has a client.
Handshakes ==
  \A s \in Stream!Sockets :
    /\ sock[s].hub => sock[s].settled /\ ~sock[s].refused
    /\ sock[s].refused => sock[s].settled
    /\ sock[s].srv = "none" => sock[s].br = "none" /\ ~sock[s].hub /\ ~sock[s].settled
    /\ sock[s].br # "none" => sock[s].client \in Clients

\* A bridge has one open connection, or one connect pending.
OneLink ==
  /\ \A s, t \in Stream!Sockets :
       sock[s].br = "open" /\ sock[t].br = "open" /\ sock[s].client = sock[t].client => s = t
  /\ \A c \in Clients : reconnect[c] \in {0, 1}
  /\ \A s \in Stream!Sockets : sock[s].br = "open" => reconnect[sock[s].client] = 0

Rising(q) == \A i, j \in 1..Len(q) : i < j => q[i] < q[j]
Below(q, n) == \A i \in 1..Len(q) : q[i] <= n
Ahead(p, q) == \A i \in 1..Len(p), j \in 1..Len(q) : p[i] < q[j]

\* What an agent saw, what is on the wire to it and what is published next, in order.
InOrder ==
  /\ \A c \in Clients : Rising(got[c]) /\ Below(got[c], seq)
  /\ \A s \in Stream!Sockets :
       /\ sock[s].br # "open" => wire[s] = << >>
       /\ Rising(wire[s]) /\ Below(wire[s], seq)
       /\ sock[s].br = "open" => Ahead(got[sock[s].client], wire[s])

\* The flag is as it was read, until the socket has been heard.
FlagAsRead ==
  \A s \in Stream!Sockets :
    sock[s].br = "open" /\ ~sock[s].said /\ ~sock[s].stale => ~flag[sock[s].client]

StreamInv == StreamTyped /\ Handshakes /\ OneLink /\ InOrder /\ FlagAsRead

(* ---- the AdGuard supervisor ---- *)

SupervisorTyped ==
  /\ up \in BOOLEAN /\ stopping \in BOOLEAN /\ stable \in BOOLEAN /\ broken \in BOOLEAN
  /\ acq \in {"none", "fetching", "torn", "written"}
  /\ stopCall \in {"none", "waiting", "killing", "done"}
  /\ spawned \in Nat /\ child \in Nat \cup {Null} /\ procs = {child} \ {Null}
  /\ count \in Nat /\ timers \in {0, 1} /\ streak \in Nat
  /\ \E b, s : \E w \in BOOLEAN : disk = [bin |-> b, whole |-> w, sentinel |-> s]

\* The acquisition, the child and a pending restart exclude each other; a server
\* that is down has none of them.
OneSpawner ==
  /\ acq # "none" => child = Null /\ timers = 0
  /\ timers = 1 => child = Null
  /\ ~up => acq = "none" /\ child = Null /\ timers = 0 /\ streak = 0 /\ count = 0 /\ ~stopping

\* Who has called stop() is told once the child is gone, and nothing is spawned after.
Stopped ==
  /\ stopCall # "none" => stopping
  /\ stopCall = "done" => child = Null

\* The spawns since a stable run are those the back-off has counted.
Counted ==
  /\ count <= MaxRestarts
  /\ streak <= count + 1
  /\ timers = 1 => streak <= count
  /\ acq # "none" => streak = 0

\* Outside a write the sentinel names the binary, which is whole; within one the
\* binary is the one asked for.  A child, or a restart, found it so.
DiskKept ==
  /\ ~broken /\ acq \notin {"torn", "written"} =>
       disk.sentinel = disk.bin /\ (disk.bin # Null => disk.whole)
  /\ acq = "written" => disk.whole
  /\ acq \in {"torn", "written"} => want \in {Null, disk.bin}
  /\ (child # Null \/ timers = 1) /\ ~broken => disk.whole /\ want \in {Null, disk.bin}

SupervisorInv == SupervisorTyped /\ OneSpawner /\ Stopped /\ Counted /\ DiskKept

(* ---- the agent's force-close ---- *)

RunRec ==
  [act : Activities \cup {0}, at : {"none", "toast", "begun"}, remaining : 0..Grace,
   grace : 0..Grace, timer : BOOLEAN, resolving : 0..MaxAwait, esc : BOOLEAN, stray : 0..MaxAwait]

AgentTyped ==
  /\ active \in [Activities -> 0..MaxRuns] /\ run \in [Agent!Runs -> RunRec]
  /\ stopped \in BOOLEAN
  /\ \A h \in {awaiting, overlapped, granted, late} : h \subseteq Agent!Runs

\* A run that started is of an activity, and the map holds runs whose countdown began.
Clear(r) == ~r.timer /\ ~r.esc /\ r.resolving = 0 /\ r.stray = 0
Owned ==
  /\ \A i \in Agent!Runs : /\ run[i].at # "begun" => Clear(run[i])
                           /\ run[i].at # "none" => run[i].act \in Activities
  /\ \A a \in Activities : active[a] # 0 => run[active[a]].at = "begun" /\ run[active[a]].act = a
  /\ \A i \in granted : run[i].at # "none"

\* Beside an unfinished run that has not overlapped, no other of its activity can act.
Solo ==
  \A i, j \in Agent!Runs :
    i # j /\ i \notin overlapped /\ Agent!Unfinished(i) /\ run[j].act = run[i].act => ~Agent!Unfinished(j)

Holds(i) == active[run[i].act] = i

\* Where a run of its own can be: it waits for its toast, counts down, waits for the
\* pids, waits to send SIGKILL, is over, or was cut loose at an await or by stop().
Busy(r) ==
  /\ r.stray = 0
  /\ \/ r.timer /\ ~r.esc /\ r.resolving = 0
     \/ ~r.timer /\ ~r.esc /\ r.resolving = 1
     \/ ~r.timer /\ r.esc /\ r.resolving = 0
Course(i) ==
  \/ run[i].at = "toast" /\ Clear(run[i]) /\ ~Holds(i)
  \/ run[i].at = "begun" /\ Busy(run[i]) /\ Holds(i)
  \/ run[i].at = "begun" /\ Clear(run[i]) /\ ~Holds(i)
  \/ run[i].at = "begun" /\ ~Holds(i) /\ ~run[i].timer /\ (stopped \/ i \in awaiting)

OnCourse == \A i \in Agent!Runs : run[i].at # "none" /\ i \notin overlapped => Course(i)

\* What a grant reached in time is over.
Spared ==
  /\ \A i \in granted : i \notin awaiting \cup overlapped => run[i].at = "begun" /\ ~Agent!Unfinished(i)
  /\ late \subseteq awaiting \cup overlapped

AgentInv == AgentTyped /\ Owned /\ Solo /\ OnCourse /\ Spared

(* ---- the agent's warnings ---- *)

TickRec == [id : Nat, day : Nat, use : Nat \cup {-1, -2}]
Chunk == (1..Len(sent)) \X {"head", "tail"}
GrantRec == [frame : 1..Len(sent), from : Nat, to : Nat]

CadenceTyped ==
  /\ total \in Nat /\ used \in Nat /\ yesterday \in Nat /\ day \in Nat /\ asked \in Nat /\ seen \in Nat
  /\ tracker \in [thresholds : {Cadence!warningThresholdsSeconds(total)},
                  lastAnnounced : Nat, finalAnnounced : BOOLEAN]
  /\ ticks \subseteq TickRec
  /\ sent \in Seq(Grants) /\ frames \in Seq(Chunk) /\ added \in Seq(GrantRec)
  /\ told \subseteq Nat

\* The tracker remembers the lowest boundary it announced, and whether time is up.
Tracked ==
  /\ \A b \in told : tracker.lastAnnounced <= b
  /\ tracker.lastAnnounced \in told \/ (told = {} /\ tracker.lastAnnounced = Cadence!Infinity(total))
  /\ tracker.finalAnnounced <=> 0 \in told

\* A tick knows no more use of today than there was.
UseKnown == \A t \in ticks : t.day <= day /\ (t.day = day /\ t.use # -1 => Cadence!usedSeconds(t) <= used)

\* A frame is read once: those on the wire follow each other and those applied.
FramesFollow ==
  /\ \A i, j \in 1..Len(frames) :
       i < j /\ frames[i][2] = "tail" /\ frames[j][2] = "tail" => frames[i][1] < frames[j][1]
  /\ \A i \in 1..Len(added), j \in 1..Len(frames) :
       frames[j][2] = "tail" => added[i].frame < frames[j][1]

CadenceInv == CadenceTyped /\ Tracked /\ UseKnown /\ FramesFollow /\ Cadence!CadenceSound

LiveInv ==
  /\ focus = "agent" => AgentInv
  /\ focus = "cadence" => CadenceInv
  /\ focus = "stream" => StreamInv
  /\ focus = "adguard" => SupervisorInv

(* ---- sequences of event numbers ---- *)

LEMMA Appended ==
  ASSUME NEW M \in Nat, NEW q \in Seq(1..M), NEW n \in Nat, n < M, Rising(q), Below(q, n)
  PROVE  /\ Append(q, n + 1) \in Seq(1..M)
         /\ Rising(Append(q, n + 1)) /\ Below(Append(q, n + 1), n + 1)
<1> DEFINE r == Append(q, n + 1)
<1>1. n + 1 \in 1..M
  OBVIOUS
<1>2. /\ r \in Seq(1..M) /\ Len(r) = Len(q) + 1 /\ Len(q) \in Nat /\ r[Len(q) + 1] = n + 1
      /\ \A i \in 1..Len(q) : r[i] = q[i] /\ q[i] \in 1..M
  BY <1>1, AppendProperties
<1> HIDE DEF r
<1>3. \A i \in 1..Len(r) : i = Len(q) + 1 \/ i \in 1..Len(q)
  BY <1>2
<1>4. Below(r, n + 1)
  BY <1>2, <1>3 DEF Below
<1>5. Rising(r)
  <2> SUFFICES ASSUME NEW i \in 1..Len(r), NEW j \in 1..Len(r), i < j PROVE r[i] < r[j]
    BY DEF Rising
  <2>1. i \in 1..Len(q)
    BY <1>2, <1>3
  <2>2. CASE j \in 1..Len(q)
    BY <1>2, <2>1, <2>2 DEF Rising
  <2>3. CASE j = Len(q) + 1
    <3>1. r[i] = q[i] /\ q[i] \in 1..M /\ q[i] <= n
      BY <1>2, <2>1 DEF Below
    <3>2. r[j] = n + 1
      BY <1>2, <2>3
    <3> QED
      BY <3>1, <3>2
  <2> QED
    BY <1>3, <2>2, <2>3
<1> QED
  BY <1>2, <1>4, <1>5 DEF r

\* What is read next comes before what stays on the wire.
LEMMA Shifted ==
  ASSUME NEW M \in Nat, NEW q \in Seq(1..M), q # << >>, NEW n \in Nat, Rising(q), Below(q, n)
  PROVE  /\ Tail(q) \in Seq(1..M) /\ Head(q) \in 1..M /\ Head(q) <= n
         /\ Rising(Tail(q)) /\ Below(Tail(q), n)
         /\ \A j \in 1..Len(Tail(q)) : Head(q) < Tail(q)[j]
<1>1. /\ Tail(q) \in Seq(1..M) /\ Len(q) \in Nat \ {0} /\ Len(Tail(q)) = Len(q) - 1
      /\ Head(q) = q[1] /\ Head(q) \in 1..M
      /\ \A i \in 1..Len(Tail(q)) : Tail(q)[i] = q[i + 1]
  BY HeadTailProperties, EmptySeq
<1>2. \A i \in 1..Len(Tail(q)) : i + 1 \in 1..Len(q) /\ 1 \in 1..Len(q) /\ 1 < i + 1
  BY <1>1
<1>3. 1 \in 1..Len(q)
  BY <1>1
<1>4. Below(Tail(q), n) /\ Head(q) <= n
  BY <1>1, <1>2, <1>3 DEF Below
<1>5. \A i \in 1..Len(Tail(q)) : Head(q) < Tail(q)[i]
  BY <1>1, <1>2 DEF Rising
<1>6. Rising(Tail(q))
  BY <1>1, <1>2 DEF Rising
<1> QED
  BY <1>1, <1>4, <1>5, <1>6

\* The agent reads the head: what it has seen stays in order, ahead of the rest.
LEMMA Seen ==
  ASSUME NEW M \in Nat, NEW p \in Seq(1..M), NEW q \in Seq(1..M), q # << >>, NEW n \in Nat,
         Rising(p), Below(p, n), Rising(q), Below(q, n), Ahead(p, q)
  PROVE  /\ Append(p, Head(q)) \in Seq(1..M)
         /\ Rising(Append(p, Head(q))) /\ Below(Append(p, Head(q)), n)
         /\ Ahead(Append(p, Head(q)), Tail(q)) /\ Ahead(p, Tail(q))
<1> DEFINE h == Head(q)
           r == Append(p, h)
<1>1. /\ h \in 1..M /\ h <= n /\ Tail(q) \in Seq(1..M)
      /\ \A j \in 1..Len(Tail(q)) : h < Tail(q)[j]
  BY Shifted
<1>2. /\ Len(q) \in Nat /\ 1 \in 1..Len(q) /\ h = q[1] /\ Len(Tail(q)) \in Nat
      /\ \A j \in 1..Len(Tail(q)) : j + 1 \in 1..Len(q) /\ Tail(q)[j] = q[j + 1]
  BY HeadTailProperties, EmptySeq
<1>3. \A i \in 1..Len(p) : p[i] < h /\ \A j \in 1..Len(Tail(q)) : p[i] < Tail(q)[j]
  BY <1>2 DEF Ahead
<1>4. Ahead(p, Tail(q))
  BY <1>3 DEF Ahead
<1> HIDE DEF h
<1>5. /\ r \in Seq(1..M) /\ Len(r) = Len(p) + 1 /\ Len(p) \in Nat /\ r[Len(p) + 1] = h
      /\ \A i \in 1..Len(p) : r[i] = p[i] /\ p[i] \in 1..M
  BY <1>1, AppendProperties
<1> HIDE DEF r
<1>6. \A i \in 1..Len(r) : i = Len(p) + 1 \/ i \in 1..Len(p)
  BY <1>5
<1>7. Below(r, n)
  <2> SUFFICES ASSUME NEW i \in 1..Len(r) PROVE r[i] <= n
    BY DEF Below
  <2>1. CASE i \in 1..Len(p)
    BY <1>5, <2>1 DEF Below
  <2> QED
    BY <1>1, <1>5, <1>6, <2>1
<1>8. Rising(r)
  <2> SUFFICES ASSUME NEW i \in 1..Len(r), NEW j \in 1..Len(r), i < j PROVE r[i] < r[j]
    BY DEF Rising
  <2>1. i \in 1..Len(p)
    BY <1>5, <1>6
  <2>2. CASE j \in 1..Len(p)
    BY <1>5, <2>1, <2>2 DEF Rising
  <2>3. CASE j = Len(p) + 1
    <3>1. r[i] = p[i] /\ p[i] < h
      BY <1>3, <1>5, <2>1
    <3>2. r[j] = h
      BY <1>5, <2>3
    <3> QED
      BY <3>1, <3>2
  <2> QED
    BY <1>6, <2>2, <2>3
<1>9. Ahead(r, Tail(q))
  BY <1>1, <1>3, <1>5, <1>6 DEF Ahead
<1> QED
  BY <1>4, <1>5, <1>7, <1>8, <1>9 DEF r, h

LEMMA Entry ==
  ASSUME NEW M \in Nat, NEW q \in Seq(1..M), NEW n, Below(q, n), NEW i \in 1..Len(q)
  PROVE  q[i] \in 1..M /\ q[i] <= n
BY ElementOfSeq DEF Below

LEMMA NothingOnWire ==
  ASSUME NEW n, NEW p
  PROVE  Rising(<< >>) /\ Below(<< >>, n) /\ Ahead(p, << >>)
BY DEF Rising, Below, Ahead

(* ---- the stream, action by action ---- *)

LEMMA StreamInitInv == ASSUME Stream!Init PROVE StreamInv
<1> USE DEF Stream!Init
<1>1. Stream!NoSock \in SockRec /\ Stream!NoSock.br = "none" /\ Stream!NoSock.srv = "none"
      /\ ~Stream!NoSock.hub /\ ~Stream!NoSock.settled /\ ~Stream!NoSock.refused
  BY DEF Stream!NoSock, SockRec
<1>2. \A s \in Stream!Sockets : sock[s] = Stream!NoSock /\ wire[s] = << >>
  OBVIOUS
<1>3. StreamTyped
  BY <1>1, LiveAssumption, EmptySeq DEF StreamTyped
<1>4. Handshakes /\ OneLink /\ FlagAsRead
  BY <1>1, <1>2 DEF Handshakes, OneLink, FlagAsRead
<1>5. InOrder
  BY <1>1, <1>2, NothingOnWire DEF InOrder
<1> QED
  BY <1>3, <1>4, <1>5 DEF StreamInv

\* The server's end of a socket changes, and perhaps its client's flag.
LEMMA ServerEnd ==
  ASSUME StreamInv, NEW s \in Stream!Sockets, NEW r \in SockRec,
         sock' = [sock EXCEPT ![s] = r], r.client = sock[s].client, r.br = sock[s].br,
         r.srv # "none", r.hub => r.settled /\ ~r.refused, r.refused => r.settled,
         flag' \in [Clients -> BOOLEAN], FlagAsRead',
         UNCHANGED <<wire, reconnect, attached, seq, got>>
  PROVE  StreamInv'
<1>1. /\ sock' \in [Stream!Sockets -> SockRec]
      /\ \A t \in Stream!Sockets : sock'[t].client = sock[t].client /\ sock'[t].br = sock[t].br
      /\ sock'[s] = r
      /\ \A t \in Stream!Sockets : t # s => sock'[t] = sock[t]
  BY DEF StreamInv, StreamTyped
<1>2. StreamTyped'
  BY <1>1 DEF StreamInv, StreamTyped, Stream!Sockets
<1>3. Handshakes'
  BY <1>1 DEF StreamInv, Handshakes, Stream!Sockets
<1>4. OneLink'
  BY <1>1 DEF StreamInv, OneLink, Stream!Sockets
<1>5. InOrder'
  BY <1>1 DEF StreamInv, InOrder, Stream!Sockets
<1> QED
  BY <1>2, <1>3, <1>4, <1>5 DEF StreamInv

\* The same, with the flags as they were.
LEMMA FlagUntouched ==
  ASSUME StreamInv, NEW s \in Stream!Sockets, NEW r \in SockRec,
         sock' = [sock EXCEPT ![s] = r], r.client = sock[s].client, r.br = sock[s].br,
         r.stale = sock[s].stale, sock[s].said => r.said, UNCHANGED flag
  PROVE  flag' \in [Clients -> BOOLEAN] /\ FlagAsRead'
BY DEF StreamInv, StreamTyped, FlagAsRead, Stream!Sockets

LEMMA RecordOf == ASSUME StreamInv, NEW s \in Stream!Sockets PROVE sock[s] \in SockRec
BY DEF StreamInv, StreamTyped

\* A hello of an open connection is its client's only one: the flag it sets or
\* clears is no other socket's.
LEMMA NegotiateInv ==
  ASSUME StreamInv, NEW s \in Stream!Sockets, NEW m, Stream!Heard(s), ~sock[s].settled,
         Stream!Negotiate(s, m), UNCHANGED <<wire, reconnect, attached, seq, got>>
  PROVE  StreamInv'
<1> DEFINE c == sock[s].client
           refused == [sock[s] EXCEPT !.settled = TRUE, !.refused = TRUE, !.srv = "closing", !.said = TRUE]
           accepted(k) == [sock[s] EXCEPT !.settled = TRUE, !.said = TRUE, !.hub = TRUE, !.caps = k, !.alive = TRUE]
<1>1. sock[s] \in SockRec /\ sock[s].br = "open" /\ c \in Clients /\ ~sock[s].hub /\ ~sock[s].refused /\ sock[s].srv # "none"
  BY RecordOf DEF Stream!Heard, Stream!Talks, StreamInv, Handshakes
<1>2. refused \in SockRec /\ \A k \in BOOLEAN : accepted(k) \in SockRec
  BY <1>1 DEF SockRec
<1>3. \E r \in {refused, accepted(TRUE), accepted(FALSE)} : sock' = [sock EXCEPT ![s] = r]
  BY <1>1 DEF Stream!Negotiate, Stream!Refuse, Stream!Accept, StreamInv, StreamTyped
<1>4. PICK r \in {refused, accepted(TRUE), accepted(FALSE)} : sock' = [sock EXCEPT ![s] = r]
  BY <1>3
<1>5. /\ r \in SockRec /\ r.client = c /\ r.br = sock[s].br /\ r.said /\ r.srv # "none"
      /\ r.hub => r.settled /\ ~r.refused
      /\ r.refused => r.settled
  <2>1. CASE r = refused
    BY ZenonT(60), <1>1, <1>2, <2>1 DEF SockRec
  <2>2. ASSUME NEW k \in BOOLEAN, r = accepted(k)
        PROVE  r.client = c /\ r.br = sock[s].br /\ r.said /\ r.srv # "none" /\ r.settled /\ ~r.refused
    BY <1>1, <2>2 DEF SockRec
  <2> QED
    BY <1>2, <1>4, <2>1, <2>2
<1>6. flag' \in [Clients -> BOOLEAN] /\ \A d \in Clients : d # c => flag'[d] = flag[d]
  BY <1>1 DEF Stream!Negotiate, Stream!Accept, StreamInv, StreamTyped
<1> HIDE DEF refused, accepted
<1>7. FlagAsRead'
  <2> SUFFICES ASSUME NEW t \in Stream!Sockets, sock'[t].br = "open", ~sock'[t].said, ~sock'[t].stale
               PROVE  ~flag'[sock'[t].client]
    BY DEF FlagAsRead, Stream!Sockets
  <2>1. t # s /\ sock'[t] = sock[t]
    BY <1>4, <1>5 DEF StreamInv, StreamTyped
  <2>2. sock[t].client # c /\ sock[t].client \in Clients /\ ~flag[sock[t].client]
    BY <1>1, <2>1 DEF StreamInv, OneLink, Handshakes, FlagAsRead
  <2> QED
    BY <1>6, <2>1, <2>2
<1> QED
  BY <1>4, <1>5, <1>6, <1>7, ServerEnd

LEMMA HelloInv ==
  ASSUME StreamInv, NEW s \in Stream!Sockets, NEW m, Stream!Hello(s, m)
  PROVE  StreamInv'
<1>1. CASE ~sock[s].settled
  BY <1>1, NegotiateInv DEF Stream!Hello
<1>2. CASE sock[s].settled
  <2> DEFINE r == [sock[s] EXCEPT !.said = TRUE]
  <2>1. sock[s] \in SockRec /\ sock[s].srv # "none" /\ (sock[s].hub => ~sock[s].refused)
    BY RecordOf DEF Stream!Hello, Stream!Heard, StreamInv, Handshakes
  <2>2. sock' = [sock EXCEPT ![s] = r] /\ UNCHANGED <<flag, wire, reconnect, attached, seq, got>>
    BY <1>2 DEF Stream!Hello, StreamInv, StreamTyped
  <2>3. /\ r \in SockRec /\ r.client = sock[s].client /\ r.br = sock[s].br /\ r.said /\ r.srv # "none"
        /\ r.stale = sock[s].stale
        /\ r.hub => r.settled /\ ~r.refused
        /\ r.refused => r.settled
    BY <1>2, <2>1, RecordOf DEF SockRec, Stream!Hello, Stream!Heard, StreamInv, Handshakes
  <2> HIDE DEF r
  <2>4. flag' \in [Clients -> BOOLEAN] /\ FlagAsRead'
    BY <2>2, <2>3, FlagUntouched
  <2> QED
    BY <2>2, <2>3, <2>4, ServerEnd
<1> QED
  BY <1>1, <1>2

\* The timers, the pong, the close and the network act on a socket's server end.
LEMMA ServerStepInv ==
  ASSUME StreamInv, NEW s \in Stream!Sockets,
         Stream!HelloTimeout(s) \/ Stream!HeartbeatTick(s) \/ Stream!Pong(s)
         \/ Stream!ServerClosed(s) \/ Stream!NetDies(s)
  PROVE  StreamInv'
<1>1. sock[s] \in SockRec /\ UNCHANGED <<flag, wire, reconnect, attached, seq, got>>
  BY RecordOf DEF Stream!HelloTimeout, Stream!HeartbeatTick, Stream!Pong, Stream!ServerClosed, Stream!NetDies
<1>2. /\ sock[s].hub => sock[s].settled /\ ~sock[s].refused
      /\ sock[s].refused => sock[s].settled
      /\ sock[s].srv = "none" => sock[s].br = "none" /\ ~sock[s].hub
  BY DEF StreamInv, Handshakes
<1> DEFINE Good(r) ==
             /\ r \in SockRec /\ r.client = sock[s].client /\ r.br = sock[s].br /\ r.srv # "none"
             /\ r.stale = sock[s].stale /\ r.said = sock[s].said
             /\ r.hub => r.settled /\ ~r.refused
             /\ r.refused => r.settled
<1>3. CASE Stream!HelloTimeout(s)
  <2> DEFINE r == [sock[s] EXCEPT !.settled = TRUE, !.refused = TRUE, !.srv = "closing"]
  <2>1. Good(r)
    BY <1>1, <1>2, <1>3 DEF Stream!HelloTimeout, SockRec
  <2>2. sock' = [sock EXCEPT ![s] = r]
    BY <1>3 DEF Stream!HelloTimeout, StreamInv, StreamTyped
  <2> QED
    BY <1>1, <2>1, <2>2, FlagUntouched, ServerEnd
<1>4. CASE Stream!HeartbeatTick(s)
  <2> DEFINE r == IF sock[s].alive THEN [sock[s] EXCEPT !.alive = FALSE] ELSE [sock[s] EXCEPT !.srv = "closing"]
  <2>1. Good(r)
    BY <1>1, <1>2, <1>4 DEF Stream!HeartbeatTick, SockRec
  <2>2. sock' = [sock EXCEPT ![s] = r]
    BY <1>4 DEF Stream!HeartbeatTick, StreamInv, StreamTyped
  <2> QED
    BY <1>1, <2>1, <2>2, FlagUntouched, ServerEnd
<1>5. CASE Stream!Pong(s)
  <2> DEFINE r == [sock[s] EXCEPT !.alive = TRUE]
  <2>1. Good(r)
    BY <1>1, <1>2, <1>5 DEF Stream!Pong, Stream!Talks, SockRec
  <2>2. sock' = [sock EXCEPT ![s] = r]
    BY <1>5 DEF Stream!Pong, StreamInv, StreamTyped
  <2> QED
    BY <1>1, <2>1, <2>2, FlagUntouched, ServerEnd
<1>6. CASE Stream!ServerClosed(s)
  <2> DEFINE r == [sock[s] EXCEPT !.srv = "closed", !.hub = FALSE]
  <2>1. Good(r)
    BY <1>1, <1>2, <1>6 DEF Stream!ServerClosed, SockRec
  <2>2. sock' = [sock EXCEPT ![s] = r]
    BY <1>6 DEF Stream!ServerClosed, StreamInv, StreamTyped
  <2> QED
    BY <1>1, <2>1, <2>2, FlagUntouched, ServerEnd
<1>7. CASE Stream!NetDies(s)
  <2> DEFINE r == [sock[s] EXCEPT !.net = "dead"]
  <2>1. Good(r)
    BY <1>1, <1>2, <1>7 DEF Stream!NetDies, SockRec
  <2>2. sock' = [sock EXCEPT ![s] = r]
    BY <1>7 DEF Stream!NetDies, StreamInv, StreamTyped
  <2> QED
    BY <1>1, <2>1, <2>2, FlagUntouched, ServerEnd
<1> QED
  BY <1>3, <1>4, <1>5, <1>6, <1>7

\* A connection is made only when none is open: nothing is on its wire yet, and it
\* reads the flag as it is.
LEMMA BridgeConnectsInv ==
  ASSUME StreamInv, NEW s \in Stream!Sockets, NEW c \in Clients, Stream!BridgeConnects(s, c)
  PROVE  StreamInv'
<1> DEFINE r == [Stream!NoSock EXCEPT !.client = c, !.srv = "open", !.br = "open", !.stale = flag[c]]
<1>1. /\ r \in SockRec /\ r.client = c /\ r.br = "open" /\ r.srv = "open" /\ r.stale = flag[c]
      /\ ~r.hub /\ ~r.refused
  BY DEF Stream!NoSock, SockRec, StreamInv, StreamTyped
<1>2. /\ sock' = [sock EXCEPT ![s] = r] /\ reconnect[c] > 0
      /\ reconnect' = [reconnect EXCEPT ![c] = @ - 1]
      /\ UNCHANGED <<wire, flag, attached, seq, got>>
  BY DEF Stream!BridgeConnects
<1> HIDE DEF r
<1>3. /\ sock' \in [Stream!Sockets -> SockRec] /\ sock'[s] = r
      /\ \A t \in Stream!Sockets : t # s => sock'[t] = sock[t]
  BY <1>1, <1>2 DEF StreamInv, StreamTyped
<1>4. reconnect[c] = 1 /\ reconnect' \in [Clients -> Nat] /\ reconnect'[c] = 0
      /\ \A d \in Clients : d # c => reconnect'[d] = reconnect[d]
  BY <1>2 DEF StreamInv, StreamTyped, OneLink
<1>5. \A t \in Stream!Sockets : sock[t].br = "open" => sock[t].client # c /\ sock[t].client \in Clients
  BY <1>4 DEF StreamInv, OneLink, Handshakes
<1>6. wire[s] = << >>
  BY DEF Stream!BridgeConnects, StreamInv, Handshakes, InOrder
<1>7. StreamTyped'
  BY <1>2, <1>3, <1>4 DEF StreamInv, StreamTyped, Stream!Sockets
<1>8. Handshakes'
  BY <1>1, <1>3 DEF StreamInv, Handshakes, Stream!Sockets
<1>9. OneLink'
  BY <1>1, <1>3, <1>4, <1>5 DEF StreamInv, OneLink, Stream!Sockets
<1>10. InOrder'
  <2>1. \A t \in Stream!Sockets : t # s => sock'[t] = sock[t]
    BY <1>3
  <2>2. /\ sock'[s].br # "open" => wire'[s] = << >>
        /\ Rising(wire'[s]) /\ Below(wire'[s], seq')
        /\ sock'[s].br = "open" => Ahead(got'[sock'[s].client], wire'[s])
    BY <1>1, <1>2, <1>3, <1>6, NothingOnWire
  <2> QED
    BY <1>2, <2>1, <2>2 DEF StreamInv, InOrder, Stream!Sockets
<1>11. FlagAsRead'
  BY <1>1, <1>2, <1>3 DEF StreamInv, FlagAsRead, Stream!Sockets
<1> QED
  BY <1>7, <1>8, <1>9, <1>10, <1>11 DEF StreamInv

\* The bridge hangs up its one connection, and one connect is pending.
LEMMA HangupInv ==
  ASSUME StreamInv, NEW s \in Stream!Sockets, Stream!BridgeClosed(s) \/ Stream!BridgeError(s)
  PROVE  StreamInv'
<1> DEFINE c == sock[s].client
           r == [sock[s] EXCEPT !.br = "closed"]
<1>1. sock[s] \in SockRec /\ sock[s].br = "open" /\ c \in Clients /\ reconnect[c] = 0 /\ sock[s].srv # "none"
  BY RecordOf DEF Stream!BridgeClosed, Stream!BridgeError, Stream!Talks, StreamInv, Handshakes, OneLink
<1>2. /\ r \in SockRec /\ r.client = c /\ r.br = "closed" /\ r.srv = sock[s].srv /\ r.hub = sock[s].hub
      /\ r.settled = sock[s].settled /\ r.refused = sock[s].refused
  BY <1>1 DEF SockRec
<1>3. /\ sock' = [sock EXCEPT ![s] = r] /\ wire' = [wire EXCEPT ![s] = << >>]
      /\ reconnect' = [reconnect EXCEPT ![c] = @ + 1]
      /\ UNCHANGED <<flag, attached, seq, got>>
  BY DEF Stream!BridgeClosed, Stream!BridgeError, Stream!Hangup, StreamInv, StreamTyped
<1> HIDE DEF r
<1>4. /\ sock' \in [Stream!Sockets -> SockRec] /\ sock'[s] = r
      /\ \A t \in Stream!Sockets : t # s => sock'[t] = sock[t]
  BY <1>2, <1>3 DEF StreamInv, StreamTyped
<1>5. reconnect' \in [Clients -> Nat] /\ reconnect'[c] = 1
      /\ \A d \in Clients : d # c => reconnect'[d] = reconnect[d]
  BY <1>1, <1>3 DEF StreamInv, StreamTyped
<1>6. /\ wire' \in [Stream!Sockets -> Seq(1..MaxSeq)] /\ wire'[s] = << >>
      /\ \A t \in Stream!Sockets : t # s => wire'[t] = wire[t]
  BY <1>3, EmptySeq DEF StreamInv, StreamTyped
<1>7. \A t \in Stream!Sockets : t # s /\ sock[t].br = "open" => sock[t].client # c
  BY <1>1 DEF StreamInv, OneLink
<1>8. StreamTyped'
  BY <1>3, <1>4, <1>5, <1>6 DEF StreamInv, StreamTyped, Stream!Sockets
<1>9. Handshakes'
  BY <1>1, <1>2, <1>4 DEF StreamInv, Handshakes, Stream!Sockets
<1>10. OneLink'
  <2>1. \A d \in Clients : reconnect'[d] \in {0, 1}
    BY <1>5 DEF StreamInv, OneLink
  <2>2. \A t \in Stream!Sockets : sock'[t].br = "open" =>
          t # s /\ sock'[t] = sock[t] /\ sock[t].client # c /\ sock[t].client \in Clients /\ reconnect[sock[t].client] = 0
    BY <1>2, <1>4, <1>7 DEF StreamInv, OneLink, Handshakes
  <2> QED
    BY <1>5, <2>1, <2>2 DEF StreamInv, OneLink, Stream!Sockets
<1>11. InOrder'
  <2>1. /\ sock'[s].br # "open" => wire'[s] = << >>
        /\ Rising(wire'[s]) /\ Below(wire'[s], seq')
        /\ sock'[s].br = "open" => Ahead(got'[sock'[s].client], wire'[s])
    BY <1>2, <1>4, <1>6, NothingOnWire
  <2> QED
    BY <1>3, <1>4, <1>6, <2>1 DEF StreamInv, InOrder, Stream!Sockets
<1>12. FlagAsRead'
  BY <1>2, <1>3, <1>4 DEF StreamInv, FlagAsRead, Stream!Sockets
<1> QED
  BY <1>8, <1>9, <1>10, <1>11, <1>12 DEF StreamInv

\* A frame moves from the wire to the agent, or is dropped.
LEMMA FrameArrivesInv ==
  ASSUME StreamInv, NEW s \in Stream!Sockets, Stream!FrameArrives(s)
  PROVE  StreamInv'
<1> DEFINE c == sock[s].client
<1>1. /\ sock[s].br = "open" /\ wire[s] # << >> /\ c \in Clients
      /\ wire[s] \in Seq(1..MaxSeq) /\ got[c] \in Seq(1..MaxSeq) /\ seq \in Nat /\ MaxSeq \in Nat
      /\ Rising(wire[s]) /\ Below(wire[s], seq) /\ Rising(got[c]) /\ Below(got[c], seq)
      /\ Ahead(got[c], wire[s])
  BY LiveAssumption DEF Stream!FrameArrives, Stream!Talks, StreamInv, StreamTyped, Handshakes, InOrder
<1>2. /\ wire' = [wire EXCEPT ![s] = Tail(wire[s])]
      /\ got' = IF c \in attached THEN [got EXCEPT ![c] = Append(got[c], Head(wire[s]))] ELSE got
      /\ UNCHANGED <<sock, flag, reconnect, attached, seq>>
  BY DEF Stream!FrameArrives, StreamInv, StreamTyped
<1>3. /\ Tail(wire[s]) \in Seq(1..MaxSeq) /\ Rising(Tail(wire[s])) /\ Below(Tail(wire[s]), seq)
  BY <1>1, Shifted
<1>4. /\ Append(got[c], Head(wire[s])) \in Seq(1..MaxSeq)
      /\ Rising(Append(got[c], Head(wire[s]))) /\ Below(Append(got[c], Head(wire[s])), seq)
      /\ Ahead(Append(got[c], Head(wire[s])), Tail(wire[s])) /\ Ahead(got[c], Tail(wire[s]))
  BY <1>1, Seen
<1>5. /\ wire' \in [Stream!Sockets -> Seq(1..MaxSeq)]
      /\ \A t \in Stream!Sockets : t # s => wire'[t] = wire[t]
      /\ Rising(wire'[s]) /\ Below(wire'[s], seq)
  BY <1>2, <1>3 DEF StreamInv, StreamTyped
<1>6. /\ got' \in [Clients -> Seq(1..MaxSeq)]
      /\ \A d \in Clients : d # c => got'[d] = got[d]
      /\ Rising(got'[c]) /\ Below(got'[c], seq) /\ Ahead(got'[c], wire'[s])
  <2>1. CASE c \in attached
    BY <1>1, <1>2, <1>4, <2>1 DEF StreamInv, StreamTyped
  <2>2. CASE c \notin attached
    BY <1>1, <1>2, <1>4, <2>2 DEF StreamInv, StreamTyped
  <2> QED
    BY <2>1, <2>2
<1>7. \A t \in Stream!Sockets : t # s /\ sock[t].br = "open" => sock[t].client # c /\ sock[t].client \in Clients
  BY <1>1 DEF StreamInv, OneLink, Handshakes
<1>8. StreamTyped'
  BY <1>2, <1>5, <1>6 DEF StreamInv, StreamTyped, Stream!Sockets
<1>9. Handshakes' /\ OneLink' /\ FlagAsRead'
  BY <1>2 DEF StreamInv, Handshakes, OneLink, FlagAsRead, Stream!Sockets
<1>10. InOrder'
  <2>1. \A d \in Clients : Rising(got'[d]) /\ Below(got'[d], seq)
    BY <1>6 DEF StreamInv, InOrder
  <2>2. ASSUME NEW t \in Stream!Sockets
        PROVE  /\ sock[t].br # "open" => wire'[t] = << >>
               /\ Rising(wire'[t]) /\ Below(wire'[t], seq)
               /\ sock[t].br = "open" => Ahead(got'[sock[t].client], wire'[t])
    <3>1. CASE t = s
      BY <1>1, <1>5, <1>6, <3>1
    <3>2. CASE t # s
      BY <1>5, <1>6, <1>7, <3>2 DEF StreamInv, InOrder
    <3> QED
      BY <3>1, <3>2
  <2> QED
    BY <1>2, <2>1, <2>2 DEF InOrder, Stream!Sockets
<1> QED
  BY <1>8, <1>9, <1>10 DEF StreamInv

LEMMA AgentFlipsInv ==
  ASSUME StreamInv, NEW c \in Clients, Stream!AgentFlips(c)
  PROVE  StreamInv'
BY DEF Stream!AgentFlips, StreamInv, StreamTyped, Handshakes, OneLink, InOrder, FlagAsRead, Stream!Sockets

\* An event is stamped above everything seen or on a wire.
LEMMA PublishInv ==
  ASSUME StreamInv, NEW c \in Clients, NEW g \in BOOLEAN, Stream!Publish(c, g)
  PROVE  StreamInv'
<1>1. /\ seq \in Nat /\ MaxSeq \in Nat /\ seq < MaxSeq /\ seq' = seq + 1 /\ seq' \in 0..MaxSeq
      /\ UNCHANGED <<sock, flag, reconnect, attached, got>>
  BY LiveAssumption DEF Stream!Publish, StreamInv, StreamTyped
<1>2. \A t \in Stream!Sockets :
        \/ wire'[t] = wire[t]
        \/ sock[t].br = "open" /\ wire'[t] = Append(wire[t], seq + 1)
  BY DEF Stream!Publish, StreamInv, StreamTyped
<1>3. wire' = [t \in Stream!Sockets |-> wire'[t]]
  BY DEF Stream!Publish
<1>4. \A p : p \in Seq(1..MaxSeq) /\ Below(p, seq) => Below(p, seq + 1)
  <2> SUFFICES ASSUME NEW p \in Seq(1..MaxSeq), Below(p, seq), NEW i \in 1..Len(p) PROVE p[i] <= seq + 1
    BY DEF Below
  <2>1. p[i] \in 1..MaxSeq /\ p[i] <= seq
    BY <1>1, Entry
  <2> QED
    BY <1>1, <2>1
<1>5. ASSUME NEW t \in Stream!Sockets
      PROVE  /\ wire'[t] \in Seq(1..MaxSeq)
             /\ sock[t].br # "open" => wire'[t] = << >>
             /\ Rising(wire'[t]) /\ Below(wire'[t], seq + 1)
             /\ sock[t].br = "open" => Ahead(got[sock[t].client], wire'[t])
  <2>1. /\ wire[t] \in Seq(1..MaxSeq) /\ Rising(wire[t]) /\ Below(wire[t], seq)
        /\ sock[t].br # "open" => wire[t] = << >>
        /\ sock[t].br = "open" => Ahead(got[sock[t].client], wire[t])
    BY DEF StreamInv, StreamTyped, InOrder
  <2>2. CASE wire'[t] = wire[t]
    BY <1>4, <2>1, <2>2
  <2>3. CASE sock[t].br = "open" /\ wire'[t] = Append(wire[t], seq + 1)
    <3> DEFINE p == got[sock[t].client]
               q == wire'[t]
    <3>1. /\ q \in Seq(1..MaxSeq) /\ Rising(q) /\ Below(q, seq + 1)
      BY <1>1, <2>1, <2>3, Appended
    <3>2. p \in Seq(1..MaxSeq) /\ Below(p, seq) /\ Ahead(p, wire[t])
      BY <2>1, <2>3 DEF StreamInv, StreamTyped, Handshakes, InOrder
    <3>3. Len(q) = Len(wire[t]) + 1 /\ q[Len(wire[t]) + 1] = seq + 1 /\ Len(wire[t]) \in Nat
          /\ \A j \in 1..Len(wire[t]) : q[j] = wire[t][j]
      BY <1>1, <2>1, <2>3, AppendProperties
    <3> HIDE DEF p, q
    <3>4. Ahead(p, q)
      <4> SUFFICES ASSUME NEW i \in 1..Len(p), NEW j \in 1..Len(q) PROVE p[i] < q[j]
        BY DEF Ahead
      <4>1. p[i] \in 1..MaxSeq /\ p[i] <= seq
        BY <1>1, <3>2, Entry
      <4>2. CASE j \in 1..Len(wire[t])
        BY <3>2, <3>3, <4>2 DEF Ahead
      <4>3. CASE j = Len(wire[t]) + 1
        BY <1>1, <3>3, <4>1, <4>3
      <4> QED
        BY <3>3, <4>2, <4>3
    <3> QED
      BY <2>3, <3>1, <3>4 DEF p, q
  <2> QED
    BY <1>2, <2>2, <2>3
<1>6. wire' \in [Stream!Sockets -> Seq(1..MaxSeq)]
  BY <1>3, <1>5
<1>7. StreamTyped'
  BY <1>1, <1>6 DEF StreamInv, StreamTyped, Stream!Sockets
<1>8. Handshakes' /\ OneLink' /\ FlagAsRead'
  BY <1>1 DEF StreamInv, Handshakes, OneLink, FlagAsRead, Stream!Sockets
<1>9. InOrder'
  <2>1. \A d \in Clients : Rising(got[d]) /\ Below(got[d], seq + 1)
    BY <1>4 DEF StreamInv, StreamTyped, InOrder
  <2> QED
    BY <1>1, <1>5, <2>1 DEF InOrder, Stream!Sockets
<1> QED
  BY <1>7, <1>8, <1>9 DEF StreamInv

LEMMA StreamNextInv ==
  ASSUME StreamInv, [Stream!Next]_streamVars
  PROVE  StreamInv'
<1>1. CASE UNCHANGED streamVars
  BY <1>1 DEF streamVars, StreamInv, StreamTyped, Handshakes, OneLink, InOrder, FlagAsRead, Stream!Sockets
<1>2. CASE Stream!Next
  <2>1. CASE \E s \in Stream!Sockets : \E c \in Clients : Stream!BridgeConnects(s, c)
    BY <2>1, BridgeConnectsInv
  <2>2. CASE \E s \in Stream!Sockets : \E m \in First : Stream!Hello(s, m)
    BY <2>2, HelloInv
  <2>3. CASE \E s \in Stream!Sockets : Stream!BridgeClosed(s) \/ Stream!BridgeError(s)
    BY <2>3, HangupInv
  <2>4. CASE \E s \in Stream!Sockets : Stream!FrameArrives(s)
    BY <2>4, FrameArrivesInv
  <2>5. CASE \E s \in Stream!Sockets :
               Stream!HelloTimeout(s) \/ Stream!HeartbeatTick(s) \/ Stream!Pong(s)
               \/ Stream!ServerClosed(s) \/ Stream!NetDies(s)
    BY <2>5, ServerStepInv
  <2>6. CASE \E c \in Clients : Stream!AgentFlips(c)
    BY <2>6, AgentFlipsInv
  <2>7. CASE \E c \in Clients : \E g \in BOOLEAN : Stream!Publish(c, g)
    BY <2>7, PublishInv
  <2> QED
    BY <1>2, <2>1, <2>2, <2>3, <2>4, <2>5, <2>6, <2>7 DEF Stream!Next
<1> QED
  BY <1>1, <1>2

LEMMA StreamInvSound ==
  ASSUME StreamInv
  PROVE  Stream!TypeOK /\ Stream!RefusedNeverRegistered /\ Stream!FramesInOrder
<1>1. Stream!TypeOK
  BY DEF StreamInv, StreamTyped, SockRec, Stream!TypeOK
<1>2. Stream!RefusedNeverRegistered
  BY DEF StreamInv, Handshakes, Stream!RefusedNeverRegistered
<1>3. \A c \in Clients : DOMAIN got[c] = 1..Len(got[c])
  BY LenProperties DEF StreamInv, StreamTyped
<1>4. Stream!FramesInOrder
  BY <1>3 DEF StreamInv, InOrder, Rising, Stream!FramesInOrder
<1> QED
  BY <1>1, <1>2, <1>4

\* Only a compatible hello registers a socket, and it leaves the flag clear.
LEMMA ConnectStepHolds ==
  ASSUME StreamInv, [Stream!Next]_streamVars
  PROVE  Stream!ConnectStep
<1> SUFFICES ASSUME NEW s \in Stream!Sockets, ~sock[s].hub, sock'[s].hub
             PROVE  ~flag'[sock[s].client]
  BY DEF Stream!ConnectStep
<1> USE DEF StreamInv, StreamTyped
<1>1. ~UNCHANGED sock
  OBVIOUS
<1>2. \A t \in Stream!Sockets, r \in SockRec :
        sock' = [sock EXCEPT ![t] = r] /\ (r.hub => sock[t].hub) => FALSE
  OBVIOUS
<1>3. \A t \in Stream!Sockets : sock[t] \in SockRec
  OBVIOUS
<1> HIDE DEF StreamInv, StreamTyped
<1>keep. ASSUME NEW t \in Stream!Sockets,
             \/ sock' = [sock EXCEPT ![t].br = "closed"]
             \/ sock' = [sock EXCEPT ![t].srv = "closing"]
             \/ sock' = [sock EXCEPT ![t].alive = FALSE]
      PROVE  sock'[s].hub => sock[s].hub
  <2>1. DOMAIN sock = Stream!Sockets
    BY DEF StreamInv, StreamTyped
  <2>2. CASE s # t
    <3>1. sock'[s] = sock[s]
      BY <1>keep, <2>1, <2>2
    <3> QED
      BY <3>1
  <2>3. CASE s = t
    <3>1. sock'[s] = [sock[s] EXCEPT !.br = "closed"]
          \/ sock'[s] = [sock[s] EXCEPT !.srv = "closing"]
          \/ sock'[s] = [sock[s] EXCEPT !.alive = FALSE]
      BY <1>keep, <2>1, <2>3
    <3>2. sock[s] \in SockRec
      BY <1>3
    <3> QED
      BY <3>1, <3>2 DEF SockRec
  <2> QED
    BY <2>2, <2>3
<1>4. PICK t \in Stream!Sockets, m \in First : Stream!Hello(t, m) /\ ~sock[t].settled
  <2>1. ASSUME NEW t \in Stream!Sockets, NEW c \in Clients, Stream!BridgeConnects(t, c) PROVE FALSE
    <3>1. ~Stream!NoSock.hub /\ flag[c] \in BOOLEAN
      BY DEF Stream!NoSock, StreamInv, StreamTyped
    <3>2. [Stream!NoSock EXCEPT !.client = c, !.srv = "open", !.br = "open", !.stale = flag[c]] \in SockRec
      BY <3>1 DEF Stream!NoSock, SockRec
    <3> QED
      BY <1>2, <2>1, <3>1, <3>2 DEF Stream!BridgeConnects, Stream!NoSock
  <2>2. ASSUME NEW t \in Stream!Sockets,
               Stream!BridgeClosed(t) \/ Stream!BridgeError(t) \/ Stream!HelloTimeout(t)
               \/ Stream!HeartbeatTick(t) \/ Stream!ServerClosed(t) \/ Stream!NetDies(t)
        PROVE  sock'[s].hub => sock[s].hub
    <3>1. CASE Stream!BridgeClosed(t) \/ Stream!BridgeError(t)
      <4>1. sock' = [sock EXCEPT ![t].br = "closed"]
        BY <3>1 DEF Stream!BridgeClosed, Stream!BridgeError, Stream!Hangup
      <4> QED
        BY <4>1, <1>keep
    <3>2. CASE Stream!HelloTimeout(t)
      BY <3>2, <1>3 DEF Stream!HelloTimeout, SockRec, StreamInv, StreamTyped
    <3>3. CASE Stream!HeartbeatTick(t)
      <4>1. sock' = [sock EXCEPT ![t].alive = FALSE] \/ sock' = [sock EXCEPT ![t].srv = "closing"]
        BY <3>3 DEF Stream!HeartbeatTick
      <4> QED
        BY <4>1, <1>keep
    <3>4. CASE Stream!ServerClosed(t)
      BY <3>4, <1>3 DEF Stream!ServerClosed, SockRec, StreamInv, StreamTyped
    <3>5. CASE Stream!NetDies(t)
      BY <3>5, <1>3 DEF Stream!NetDies, SockRec, StreamInv, StreamTyped
    <3> QED
      BY <2>2, <3>1, <3>2, <3>3, <3>4, <3>5
  <2>3. ASSUME NEW t \in Stream!Sockets, Stream!Pong(t) PROVE sock'[s].hub => sock[s].hub
    BY <2>3, <1>3 DEF Stream!Pong, SockRec, StreamInv, StreamTyped
  <2>4. ASSUME NEW t \in Stream!Sockets, Stream!FrameArrives(t) PROVE FALSE
    BY <1>1, <2>4 DEF Stream!FrameArrives
  <2>5. ASSUME NEW c, NEW g, Stream!AgentFlips(c) \/ Stream!Publish(c, g) PROVE FALSE
    BY <1>1, <2>5 DEF Stream!AgentFlips, Stream!Publish
  <2>6. ASSUME NEW t \in Stream!Sockets, NEW m, Stream!Hello(t, m), sock[t].settled
        PROVE  sock'[s].hub => sock[s].hub
    BY ZenonT(60), <1>3, <2>6 DEF Stream!Hello, SockRec, StreamInv, StreamTyped
  <2> QED
    BY <1>1, <2>1, <2>2, <2>3, <2>4, <2>5, <2>6 DEF Stream!Next, streamVars
<1>5. t = s /\ sock[s].client \in Clients
  <2>1. \A u \in Stream!Sockets : u # t => sock'[u] = sock[u]
    BY <1>4 DEF Stream!Hello, Stream!Negotiate, Stream!Refuse, Stream!Accept, StreamInv, StreamTyped
  <2>2. t = s
    BY <2>1
  <2> QED
    BY <1>4, <2>2 DEF Stream!Hello, Stream!Heard, Stream!Talks, StreamInv, Handshakes
<1>6. PICK k \in BOOLEAN : Stream!Accept(s, k)
  <2>1. Stream!Negotiate(s, m)
    BY <1>4, <1>5 DEF Stream!Hello
  <2>2. ASSUME Stream!Refuse(s) PROVE FALSE
    <3>1. sock'[s].hub = sock[s].hub
      BY <2>2, <1>3 DEF Stream!Refuse, SockRec, StreamInv, StreamTyped
    <3> QED
      BY <3>1
  <2> QED
    BY <2>1, <2>2 DEF Stream!Negotiate
<1>7. CASE sock[s].stale
  BY <1>5, <1>6, <1>7 DEF Stream!Accept, StreamInv, StreamTyped
<1>8. CASE ~sock[s].stale
  <2>1. sock[s].br = "open" /\ ~sock[s].said
    BY <1>4, <1>5 DEF Stream!Hello, Stream!Heard, Stream!Talks
  <2> QED
    BY <1>6, <1>8, <2>1 DEF Stream!Accept, StreamInv, FlagAsRead
<1> QED
  BY <1>7, <1>8

(* ---- the supervisor, action by action ---- *)

LEMMA SupervisorInitInv == ASSUME AdGuard!Init PROVE SupervisorInv
<1> USE DEF AdGuard!Init, AdGuard!Fresh
<1>1. SupervisorTyped
  BY LiveAssumption DEF SupervisorTyped
<1>2. OneSpawner /\ Stopped /\ Counted /\ DiskKept
  BY LiveAssumption DEF OneSpawner, Stopped, Counted, DiskKept
<1> QED
  BY <1>1, <1>2 DEF SupervisorInv

\* What spawnChild does where there is no child: one more, or none in a shutdown.
LEMMA Spawned ==
  ASSUME SupervisorInv, child = Null, AdGuard!spawnChild
  PROVE  /\ spawned' \in Nat /\ child' \in Nat \cup {Null} /\ procs' = {child'} \ {Null}
         /\ stable' \in BOOLEAN /\ streak' \in Nat /\ streak' \in {streak, streak + 1}
         /\ child' # Null => ~stopping
<1> USE LiveAssumption DEF AdGuard!spawnChild, SupervisorInv, SupervisorTyped
<1>1. spawned \in Nat /\ streak \in Nat /\ procs = {} /\ stable \in BOOLEAN
  OBVIOUS
<1>2. CASE stopping
  BY <1>1, <1>2
<1>3. CASE ~stopping
  <2>1. /\ spawned' = spawned + 1 /\ child' = spawned + 1 /\ procs' = procs \cup {spawned + 1}
        /\ stable' = FALSE /\ streak' = streak + 1
    BY <1>3
  <2>2. spawned + 1 \in Nat /\ spawned + 1 # Null /\ streak + 1 \in Nat
    BY <1>1
  <2> QED
    BY <1>1, <1>3, <2>1, <2>2
<1> QED
  BY <1>2, <1>3

LEMMA BootstrapInv ==
  ASSUME SupervisorInv, AdGuard!Bootstrap
  PROVE  SupervisorInv'
<1> USE LiveAssumption DEF AdGuard!Bootstrap, AdGuard!healthVars
<1>4. SupervisorTyped'
  BY DEF SupervisorInv, SupervisorTyped
<1>5. OneSpawner'
  BY DEF SupervisorInv, SupervisorTyped, OneSpawner
<1>6. Stopped'
  BY DEF SupervisorInv, SupervisorTyped, OneSpawner, Stopped
<1>7. Counted'
  BY DEF SupervisorInv, SupervisorTyped, OneSpawner, Counted
<1>8. DiskKept'
  BY DEF SupervisorInv, SupervisorTyped, OneSpawner, DiskKept
<1> QED
  BY <1>4, <1>5, <1>6, <1>7, <1>8 DEF SupervisorInv

LEMMA AcquireReuseInv ==
  ASSUME SupervisorInv, AdGuard!acquireReuse
  PROVE  SupervisorInv'
<1> USE LiveAssumption DEF AdGuard!acquireReuse, AdGuard!healthVars, AdGuard!bootVars
<1>1. child = Null
  BY DEF SupervisorInv, OneSpawner, SupervisorTyped
<1>2. AdGuard!spawnChild
  OBVIOUS
<1>3. /\ spawned' \in Nat /\ child' \in Nat \cup {Null} /\ procs' = {child'} \ {Null}
      /\ stable' \in BOOLEAN /\ streak' \in Nat /\ streak' \in {streak, streak + 1}
      /\ child' # Null => ~stopping
  BY <1>1, <1>2, Spawned
<1>4. SupervisorTyped'
  BY <1>1, <1>3 DEF SupervisorInv, SupervisorTyped
<1>5. OneSpawner'
  BY <1>1, <1>3 DEF SupervisorInv, SupervisorTyped, OneSpawner
<1>6. Stopped'
  BY <1>1, <1>3 DEF SupervisorInv, SupervisorTyped, OneSpawner, Stopped
<1>7. Counted'
  BY <1>1, <1>3 DEF SupervisorInv, SupervisorTyped, OneSpawner, Counted
<1>8. DiskKept'
  BY <1>1, <1>3 DEF SupervisorInv, SupervisorTyped, OneSpawner, DiskKept
<1> QED
  BY <1>4, <1>5, <1>6, <1>7, <1>8 DEF SupervisorInv

LEMMA AcquireDownloadsInv ==
  ASSUME SupervisorInv, AdGuard!acquireDownloads
  PROVE  SupervisorInv'
<1> USE LiveAssumption DEF AdGuard!acquireDownloads, AdGuard!writeBinary, AdGuard!supVars, AdGuard!bootVars, AdGuard!healthVars
<1>4. SupervisorTyped'
  BY DEF SupervisorInv, SupervisorTyped
<1>5. OneSpawner'
  BY DEF SupervisorInv, SupervisorTyped, OneSpawner
<1>6. Stopped'
  BY DEF SupervisorInv, SupervisorTyped, OneSpawner, Stopped
<1>7. Counted'
  BY DEF SupervisorInv, SupervisorTyped, OneSpawner, Counted
<1>8. DiskKept'
  BY DEF SupervisorInv, SupervisorTyped, OneSpawner, DiskKept
<1> QED
  BY <1>4, <1>5, <1>6, <1>7, <1>8 DEF SupervisorInv

LEMMA AcquireWrittenInv ==
  ASSUME SupervisorInv, AdGuard!acquireWritten
  PROVE  SupervisorInv'
BY LiveAssumption DEF AdGuard!acquireWritten, AdGuard!supVars, AdGuard!bootVars, AdGuard!healthVars,
   SupervisorInv, SupervisorTyped, OneSpawner, Stopped, Counted, DiskKept

LEMMA WriteSentinelInv ==
  ASSUME SupervisorInv, AdGuard!writeSentinel
  PROVE  SupervisorInv'
<1> USE LiveAssumption DEF AdGuard!writeSentinel, AdGuard!bootVars, AdGuard!healthVars
<1>1. child = Null
  BY DEF SupervisorInv, OneSpawner, SupervisorTyped
<1>2. AdGuard!spawnChild
  OBVIOUS
<1>3. /\ spawned' \in Nat /\ child' \in Nat \cup {Null} /\ procs' = {child'} \ {Null}
      /\ stable' \in BOOLEAN /\ streak' \in Nat /\ streak' \in {streak, streak + 1}
      /\ child' # Null => ~stopping
  BY <1>1, <1>2, Spawned
<1>4. SupervisorTyped'
  <2>1. \E b, s : \E w \in BOOLEAN : disk' = [bin |-> b, whole |-> w, sentinel |-> s]
    <3>1. PICK b, s : \E w \in BOOLEAN : disk = [bin |-> b, whole |-> w, sentinel |-> s]
      BY DEF SupervisorInv, SupervisorTyped
    <3>2. PICK w \in BOOLEAN : disk = [bin |-> b, whole |-> w, sentinel |-> s]
      BY <3>1
    <3>3. disk' = [bin |-> b, whole |-> w, sentinel |-> b]
      BY <3>2
    <3> QED
      BY <3>3
  <2> QED
    BY <1>1, <1>3, <2>1 DEF SupervisorInv, SupervisorTyped
<1>5. OneSpawner'
  BY <1>1, <1>3 DEF SupervisorInv, SupervisorTyped, OneSpawner
<1>6. Stopped'
  BY <1>1, <1>3 DEF SupervisorInv, SupervisorTyped, OneSpawner, Stopped
<1>7. Counted'
  BY <1>1, <1>3 DEF SupervisorInv, SupervisorTyped, OneSpawner, Counted
<1>8. DiskKept'
  BY <1>1, <1>3 DEF SupervisorInv, SupervisorTyped, OneSpawner, DiskKept
<1> QED
  BY <1>4, <1>5, <1>6, <1>7, <1>8 DEF SupervisorInv

LEMMA AcquireFailsInv ==
  ASSUME SupervisorInv, AdGuard!acquireFails
  PROVE  SupervisorInv'
BY LiveAssumption DEF AdGuard!acquireFails, AdGuard!bootVars,
   SupervisorInv, SupervisorTyped, OneSpawner, Stopped, Counted, DiskKept

LEMMA OnSpawnErrorInv ==
  ASSUME SupervisorInv, AdGuard!onSpawnError
  PROVE  SupervisorInv'
BY LiveAssumption DEF AdGuard!onSpawnError, AdGuard!releaseExitWaiters, AdGuard!Running, AdGuard!bootVars,
   SupervisorInv, SupervisorTyped, OneSpawner, Stopped, Counted, DiskKept

LEMMA OnExitInv ==
  ASSUME SupervisorInv, AdGuard!onExit
  PROVE  SupervisorInv'
<1> USE LiveAssumption DEF AdGuard!onExit, AdGuard!releaseExitWaiters, AdGuard!Running, AdGuard!nextDelayMs, AdGuard!bootVars
<1>4. SupervisorTyped'
  <2>1. procs' = {} /\ child' = Null /\ stopCall' \in {"none", "waiting", "killing", "done"}
    BY DEF SupervisorInv, SupervisorTyped
  <2>2. count' \in Nat /\ timers' \in {0, 1} /\ streak' \in Nat
    <3>1. timers = 0 /\ count \in Nat /\ streak \in Nat
      BY DEF SupervisorInv, SupervisorTyped, OneSpawner
    <3> QED
      BY <3>1
  <2> QED
    BY <2>1, <2>2 DEF SupervisorInv, SupervisorTyped
<1>5. OneSpawner'
  BY DEF SupervisorInv, SupervisorTyped, OneSpawner
<1>6. Stopped'
  BY DEF SupervisorInv, SupervisorTyped, OneSpawner, Stopped
<1>7. Counted'
  BY DEF SupervisorInv, SupervisorTyped, OneSpawner, Counted
<1>8. DiskKept'
  BY DEF SupervisorInv, SupervisorTyped, OneSpawner, DiskKept
<1> QED
  BY <1>4, <1>5, <1>6, <1>7, <1>8 DEF SupervisorInv

LEMMA ScheduleRestartInv ==
  ASSUME SupervisorInv, AdGuard!scheduleRestart
  PROVE  SupervisorInv'
<1> USE LiveAssumption DEF AdGuard!scheduleRestart, AdGuard!Running, AdGuard!bootVars
<1>1. child = Null
  BY DEF SupervisorInv, OneSpawner, SupervisorTyped
<1>2. AdGuard!spawnChild
  OBVIOUS
<1>3. /\ spawned' \in Nat /\ child' \in Nat \cup {Null} /\ procs' = {child'} \ {Null}
      /\ stable' \in BOOLEAN /\ streak' \in Nat /\ streak' \in {streak, streak + 1}
      /\ child' # Null => ~stopping
  BY <1>1, <1>2, Spawned
<1>4. SupervisorTyped'
  <2>1. timers' = 0
    BY DEF SupervisorInv, SupervisorTyped
  <2> QED
    BY <1>1, <1>3, <2>1 DEF SupervisorInv, SupervisorTyped
<1>5. OneSpawner'
  BY <1>1, <1>3 DEF SupervisorInv, SupervisorTyped, OneSpawner
<1>6. Stopped'
  BY <1>1, <1>3 DEF SupervisorInv, SupervisorTyped, OneSpawner, Stopped
<1>7. Counted'
  BY <1>1, <1>3 DEF SupervisorInv, SupervisorTyped, OneSpawner, Counted
<1>8. DiskKept'
  BY <1>1, <1>3 DEF SupervisorInv, SupervisorTyped, OneSpawner, DiskKept
<1> QED
  BY <1>4, <1>5, <1>6, <1>7, <1>8 DEF SupervisorInv

LEMMA StopInv ==
  ASSUME SupervisorInv, AdGuard!stop
  PROVE  SupervisorInv'
BY LiveAssumption DEF AdGuard!stop, AdGuard!Running, AdGuard!bootVars,
   SupervisorInv, SupervisorTyped, OneSpawner, Stopped, Counted, DiskKept

LEMMA StopTimeoutInv ==
  ASSUME SupervisorInv, AdGuard!stopTimeout
  PROVE  SupervisorInv'
BY LiveAssumption DEF AdGuard!stopTimeout, AdGuard!Running, AdGuard!bootVars,
   SupervisorInv, SupervisorTyped, OneSpawner, Stopped, Counted, DiskKept

LEMMA StaysUpInv ==
  ASSUME SupervisorInv, AdGuard!StaysUp
  PROVE  SupervisorInv'
BY LiveAssumption DEF AdGuard!StaysUp, AdGuard!bootVars,
   SupervisorInv, SupervisorTyped, OneSpawner, Stopped, Counted, DiskKept

LEMMA CrashInv ==
  ASSUME SupervisorInv, AdGuard!Crash
  PROVE  SupervisorInv'
<1> USE LiveAssumption DEF AdGuard!Crash
<1>4. SupervisorTyped'
  BY DEF SupervisorInv, SupervisorTyped
<1>5. OneSpawner'
  BY DEF SupervisorInv, SupervisorTyped, OneSpawner
<1>6. Stopped'
  BY DEF SupervisorInv, SupervisorTyped, OneSpawner, Stopped
<1>7. Counted'
  BY DEF SupervisorInv, SupervisorTyped, OneSpawner, Counted
<1>8. DiskKept'
  BY DEF SupervisorInv, SupervisorTyped, OneSpawner, DiskKept
<1> QED
  BY <1>4, <1>5, <1>6, <1>7, <1>8 DEF SupervisorInv

LEMMA ProbeManagedInv ==
  ASSUME SupervisorInv, AdGuard!probeManaged
  PROVE  SupervisorInv'
BY LiveAssumption DEF AdGuard!probeManaged, AdGuard!Running, AdGuard!supVars, AdGuard!bootVars,
   SupervisorInv, SupervisorTyped, OneSpawner, Stopped, Counted, DiskKept

LEMMA AnswersInv ==
  ASSUME SupervisorInv, AdGuard!Answers
  PROVE  SupervisorInv'
BY ZenonT(60), LiveAssumption DEF AdGuard!Answers, AdGuard!supVars, AdGuard!bootVars,
   SupervisorInv, SupervisorTyped, OneSpawner, Stopped, Counted, DiskKept

LEMMA ProbeRecordedInv ==
  ASSUME SupervisorInv, AdGuard!probeRecorded
  PROVE  SupervisorInv'
BY LiveAssumption DEF AdGuard!probeRecorded, AdGuard!Running, AdGuard!supVars, AdGuard!bootVars,
   SupervisorInv, SupervisorTyped, OneSpawner, Stopped, Counted, DiskKept

LEMMA SupervisorNextInv ==
  ASSUME SupervisorInv, [AdGuard!Next]_adguardVars
  PROVE  SupervisorInv'
<1>1. CASE UNCHANGED adguardVars
  BY ZenonT(60), <1>1 DEF adguardVars, SupervisorInv, SupervisorTyped, OneSpawner, Stopped, Counted, DiskKept
<1>2. CASE AdGuard!Next
  BY <1>2, BootstrapInv, AcquireReuseInv, AcquireDownloadsInv, AcquireWrittenInv, WriteSentinelInv,
     AcquireFailsInv, OnSpawnErrorInv, OnExitInv, ScheduleRestartInv, StopInv, StopTimeoutInv,
     StaysUpInv, CrashInv, ProbeManagedInv, AnswersInv, ProbeRecordedInv
     DEF AdGuard!Next
<1> QED
  BY <1>1, <1>2

LEMMA SupervisorInvSound ==
  ASSUME SupervisorInv
  PROVE  AdGuard!SupervisorSound /\ AdGuard!RunsWhatWasAsked
<1> USE LiveAssumption DEF SupervisorInv, SupervisorTyped
<1>1. AdGuard!OneChild
  BY DEF AdGuard!OneChild
<1>2. AdGuard!NoneAfterStop
  BY DEF Stopped, AdGuard!NoneAfterStop
<1>3. AdGuard!CapHolds
  BY DEF Counted, AdGuard!CapHolds
<1>4. AdGuard!RunsWhatWasAsked
  BY DEF DiskKept, AdGuard!RunsWhatWasAsked
<1> QED
  BY <1>1, <1>2, <1>3, <1>4 DEF AdGuard!SupervisorSound

(* ---- the force-close, action by action ---- *)

LEMMA AgentInitInv == ASSUME Agent!Init PROVE AgentInv
<1> USE LiveAssumption DEF Agent!Init, Agent!NoRun, Agent!Unfinished
<1>1. AgentTyped
  <2>1. Agent!NoRun \in RunRec
    BY DEF RunRec
  <2>2. active \in [Activities -> 0..MaxRuns]
    OBVIOUS
  <2>3. run \in [Agent!Runs -> RunRec]
    BY <2>1
  <2> QED
    BY <2>2, <2>3 DEF AgentTyped
<1>2. Owned /\ Solo /\ OnCourse /\ Spared
  BY DEF Owned, Clear, Solo, OnCourse, Spared
<1> QED
  BY <1>1, <1>2 DEF AgentInv

LEMMA AgentStartInv ==
  ASSUME AgentInv, NEW i \in Agent!Runs, NEW a \in Activities, NEW g \in Agent!Graces,
         Agent!Start(i, a, g)
  PROVE  AgentInv'
<1> DEFINE r == [Agent!NoRun EXCEPT !.act = a, !.at = "toast", !.grace = g]
<1>1. /\ run' = [run EXCEPT ![i] = r] /\ r \in RunRec /\ run[i].at = "none" /\ active[a] = 0
      /\ r.at = "toast" /\ r.act = a /\ Clear(r)
      /\ UNCHANGED <<active, stopped, awaiting, granted, late>>
  <2>1. g \in 0..Grace /\ 0 \in 0..Grace /\ 0 \in 0..MaxAwait
    BY LiveAssumption DEF Agent!Graces
  <2>2. Agent!NoRun \in RunRec /\ Clear(Agent!NoRun)
    BY <2>1 DEF RunRec, Agent!NoRun, Clear
  <2>3. r \in RunRec /\ Clear(r) /\ r.at = "toast" /\ r.act = a
    BY <2>1, <2>2 DEF RunRec, Clear
  <2> HIDE DEF r
  <2> QED
    BY <2>3 DEF Agent!Start, r
<1>2. overlapped' \subseteq Agent!Runs /\ overlapped \subseteq overlapped'
      /\ \A j \in Agent!Runs : j # i /\ run[j].at # "none" /\ run[j].act = a /\ Agent!Unfinished(j)
                               => j \in overlapped' /\ i \in overlapped'
  BY DEF Agent!Start, Agent!Of, AgentInv, AgentTyped
<1> HIDE DEF r
<1>3. run'[i] = r /\ \A j \in Agent!Runs : j # i => run'[j] = run[j]
  BY <1>1 DEF AgentInv, AgentTyped
<1>4. AgentTyped'
  BY <1>1, <1>2 DEF AgentInv, AgentTyped
<1>5. Owned'
  BY <1>1, <1>3 DEF AgentInv, AgentTyped, Owned, Agent!Unfinished
<1>6. Solo'
  BY <1>1, <1>2, <1>3 DEF AgentInv, Owned, Solo, Agent!Unfinished, Clear
<1>7. OnCourse'
  <2>1. Course(i)'
    BY <1>1, <1>3 DEF Course, Holds, Clear, Agent!Runs
  <2>2. ASSUME NEW j \in Agent!Runs, j # i, run[j].at # "none", j \notin overlapped PROVE Course(j)'
    <3>1. Course(j)
      BY <2>2 DEF AgentInv, OnCourse
    <3> QED
      BY <1>1, <1>3, <2>2, <3>1 DEF Course, Holds
  <2> QED
    BY <1>2, <1>3, <2>1, <2>2 DEF OnCourse, Agent!Runs
<1>8. Spared'
  BY <1>1, <1>2, <1>3 DEF AgentInv, Owned, Spared, Agent!Unfinished
<1> QED
  BY <1>4, <1>5, <1>6, <1>7, <1>8 DEF AgentInv

\* What a run that can act does to run j, itself or one of those that overlap with it,
\* and to the map, leaves the others of their own course where they were.
LEMMA OneRun ==
  ASSUME AgentInv, NEW i \in Agent!Runs, NEW j \in Agent!Runs, NEW r \in RunRec,
         Agent!Unfinished(i), run[j].at # "none", run[i].act = run[j].act,
         i = j \/ (i \in overlapped /\ j \in overlapped),
         r.act = run[j].act, r.at = "begun", run' = [run EXCEPT ![j] = r],
         active' \in {active, [active EXCEPT ![run[j].act] = 0], [active EXCEPT ![run[j].act] = j]},
         j \notin overlapped => Course(j)',
         UNCHANGED <<stopped, awaiting, overlapped, granted>>,
         late' = late \/ (i \in granted /\ late' = late \cup {i})
  PROVE  AgentInv'
<1> DEFINE a == run[j].act
<1>0. Agent!Runs \subseteq Nat \ {0} /\ j \in 0..MaxRuns /\ 0 \in 0..MaxRuns /\ a \in Activities
  BY LiveAssumption DEF Agent!Runs, AgentInv, Owned
<1>1. run'[j] = r /\ run' \in [Agent!Runs -> RunRec] /\ \A k \in Agent!Runs : k # j => run'[k] = run[k]
  BY DEF AgentInv, AgentTyped
<1>2. /\ active' \in [Activities -> 0..MaxRuns] /\ active'[a] \in {active[a], 0, j}
      /\ \A b \in Activities : b # a => active'[b] = active[b]
  BY <1>0 DEF AgentInv, AgentTyped
<1>3. ASSUME NEW k \in Agent!Runs, k # j, k \notin overlapped, run[k].at # "none", run[k].act = a
      PROVE  ~Agent!Unfinished(k) /\ ~Holds(k)
  <2>1. ~Agent!Unfinished(k)
    BY <1>3 DEF AgentInv, Solo
  <2>2. Course(k)
    BY <1>3 DEF AgentInv, OnCourse
  <2> QED
    BY <2>1, <2>2 DEF Course, Busy, Agent!Unfinished, Holds
<1> HIDE DEF a
<1>4. AgentTyped'
  BY <1>1, <1>2 DEF AgentInv, AgentTyped
<1>5. Owned'
  <2>1. \A k \in Agent!Runs : /\ run'[k].at # "begun" => Clear(run'[k])
                              /\ run'[k].at # "none" => run'[k].act \in Activities
    BY <1>0, <1>1 DEF AgentInv, Owned, a
  <2>2. \A b \in Activities : active'[b] # 0 => run'[active'[b]].at = "begun" /\ run'[active'[b]].act = b
    BY <1>0, <1>1, <1>2 DEF AgentInv, AgentTyped, Owned, a, Agent!Runs
  <2>3. \A k \in granted' : run'[k].at # "none"
    BY <1>1 DEF AgentInv, AgentTyped, Owned
  <2> QED
    BY <2>1, <2>2, <2>3 DEF Owned
<1>6. Solo'
  <2>1. ASSUME NEW k \in Agent!Runs, NEW l \in Agent!Runs, k # l, k \notin overlapped,
               Agent!Unfinished(k)', run'[l].act = run'[k].act
        PROVE  ~Agent!Unfinished(l)'
    <3>1. CASE k = j
      <4>1. i = j /\ run[l].act = a /\ run'[l] = run[l]
        BY <1>1, <2>1, <3>1 DEF a
      <4> QED
        BY <2>1, <3>1, <4>1 DEF AgentInv, Solo, Agent!Unfinished, a
    <3>2. CASE k # j /\ l = j
      <4>1. Agent!Unfinished(k) /\ run[k].act = a
        BY <1>1, <2>1, <3>2 DEF Agent!Unfinished, a
      <4>2. run[k].at # "none"
        BY <4>1 DEF AgentInv, Owned, Clear, Agent!Unfinished
      <4> QED
        BY <1>3, <2>1, <3>2, <4>1, <4>2
    <3>3. CASE k # j /\ l # j
      BY <1>1, <2>1, <3>3 DEF AgentInv, Solo, Agent!Unfinished
    <3> QED
      BY <3>1, <3>2, <3>3
  <2> QED
    BY <2>1 DEF Solo, Agent!Runs
<1>7. OnCourse'
  <2>1. ASSUME NEW k \in Agent!Runs, k # j, run[k].at # "none", k \notin overlapped PROVE Course(k)'
    <3>1. Course(k) /\ run[k].act \in Activities
      BY <2>1 DEF AgentInv, OnCourse, Owned
    <3>2. Holds(k)' <=> Holds(k)
      BY <1>0, <1>1, <1>2, <1>3, <2>1, <3>1 DEF Holds
    <3> QED
      BY <1>1, <2>1, <3>1, <3>2 DEF Course
  <2> QED
    BY <1>1, <2>1 DEF OnCourse, Agent!Runs
<1>8. Spared'
  <2>1. \A k \in granted : k \notin awaiting \cup overlapped => k # j
    BY DEF AgentInv, Spared
  <2>2. i \in granted => i \in awaiting \cup overlapped
    BY DEF AgentInv, Spared
  <2> QED
    BY <1>1, <2>1, <2>2 DEF AgentInv, AgentTyped, Spared, Agent!Unfinished
<1> QED
  BY <1>4, <1>5, <1>6, <1>7, <1>8 DEF AgentInv

LEMMA Going ==
  ASSUME AgentInv, NEW i \in Agent!Runs, Agent!Unfinished(i)
  PROVE  /\ run[i] \in RunRec /\ run[i].at # "none" /\ run[i].act \in Activities
         /\ i # 0 /\ run \in [Agent!Runs -> RunRec] /\ active \in [Activities -> 0..MaxRuns]
BY DEF AgentInv, AgentTyped, Owned, Clear, Agent!Unfinished, Agent!Runs

LEMMA Begun ==
  ASSUME AgentInv, NEW i \in Agent!Runs, run[i].resolving > 0 \/ run[i].esc \/ run[i].stray > 0
  PROVE  run[i].at = "begun"
BY DEF AgentInv, Owned, Clear

LEMMA ToastedInv ==
  ASSUME AgentInv, NEW i \in Agent!Runs, Agent!Toasted(i)
  PROVE  AgentInv'
<1>1. Agent!Unfinished(i) /\ run[i].at = "toast" /\ Clear(run[i])
  BY DEF Agent!Toasted, Agent!Unfinished, AgentInv, Owned
<1>2. PICK r : r = Agent!Begin(run[i])
  OBVIOUS
<1>3. run' = [run EXCEPT ![i] = r] /\ active' = [active EXCEPT ![run[i].act] = i]
      /\ UNCHANGED <<stopped, awaiting, overlapped, granted, late>>
  BY <1>2 DEF Agent!Toasted, Agent!hist
<1>4. r \in RunRec /\ r.act = run[i].act /\ r.at = "begun" /\ Busy(r)
  <2>1. run[i].grace \in 0..Grace /\ 1 \in 0..MaxAwait /\ run[i] \in RunRec
    BY <1>1, Going, LiveAssumption DEF RunRec
  <2>2. CASE run[i].grace > 0
    BY <1>1, <1>2, <2>1, <2>2 DEF Agent!Begin, RunRec, Clear, Busy
  <2>3. CASE ~(run[i].grace > 0)
    BY <1>1, <1>2, <2>1, <2>3 DEF Agent!Begin, RunRec, Clear, Busy
  <2> QED
    BY <2>2, <2>3
<1>5. Course(i)'
  <2>1. run'[i] = r /\ active'[r.act] = i
    BY <1>1, <1>3, <1>4, Going
  <2> QED
    BY <1>4, <2>1 DEF Course, Holds
<1> QED
  BY <1>1, <1>3, <1>4, <1>5, Going, OneRun

\* The countdown an interval finds under its activity is its own run's, or overlaps it.
LEMMA Target ==
  ASSUME AgentInv, NEW i \in Agent!Runs, run[i].timer, active[run[i].act] # 0
  PROVE  LET j == active[run[i].act] IN
         /\ j \in Agent!Runs /\ run[j].at = "begun" /\ run[j].act = run[i].act
         /\ (i = j \/ (i \in overlapped /\ j \in overlapped))
<1> DEFINE j == active[run[i].act]
<1>1. Agent!Unfinished(i) /\ j \in Agent!Runs /\ run[j].at = "begun" /\ run[j].act = run[i].act
  <2>1. Agent!Unfinished(i)
    BY DEF Agent!Unfinished
  <2> QED
    BY <2>1, Going DEF AgentInv, Owned, Agent!Runs
<1>2. i \in overlapped \/ i = j
  BY <1>1, Going DEF AgentInv, OnCourse, Course, Busy, Clear, Holds
<1>3. ASSUME j \notin overlapped, i # j PROVE FALSE
  <2>1. Course(j) /\ Holds(j)
    BY <1>1, <1>3 DEF AgentInv, OnCourse, Holds
  <2>2. Agent!Unfinished(j)
    BY <1>1, <2>1 DEF Course, Busy, Agent!Unfinished
  <2> QED
    BY <1>1, <1>3, <2>2 DEF AgentInv, Solo
<1> QED
  BY <1>1, <1>2, <1>3

\* A second of a countdown: it is shorter, or over and one lookup of the pids begins.
LEMMA Counting ==
  ASSUME NEW r \in RunRec, r.resolving < MaxAwait
  PROVE  LET c == Agent!CountDown(r) IN
         /\ c \in RunRec /\ c.act = r.act /\ c.at = r.at /\ c.esc = r.esc /\ c.stray = r.stray
         /\ \/ c.timer = r.timer /\ c.resolving = r.resolving
            \/ ~c.timer /\ c.resolving = r.resolving + 1
<1>1. /\ r.remaining \in 0..Grace /\ r.resolving \in 0..MaxAwait /\ 0 \in 0..Grace
      /\ r.resolving + 1 \in 0..MaxAwait /\ Grace \in Nat
  BY LiveAssumption DEF RunRec
<1>2. CASE r.remaining > 1
  <2>1. Agent!CountDown(r) = [r EXCEPT !.remaining = @ - 1] /\ r.remaining - 1 \in 0..Grace
    BY <1>1, <1>2 DEF Agent!CountDown
  <2> QED
    BY <2>1 DEF RunRec
<1>3. CASE ~(r.remaining > 1)
  <2>1. Agent!CountDown(r) = [r EXCEPT !.remaining = 0, !.timer = FALSE, !.resolving = @ + 1]
    BY <1>3 DEF Agent!CountDown
  <2> QED
    BY <1>1, <2>1 DEF RunRec
<1> QED
  BY <1>2, <1>3

LEMMA AgentTickInv ==
  ASSUME AgentInv, NEW i \in Agent!Runs, Agent!Tick(i)
  PROVE  AgentInv'
<1>1. PICK j : j = active[run[i].act]
  OBVIOUS
<1>2. /\ Agent!Unfinished(i) /\ run[i].timer /\ j \in Agent!Runs /\ run[j].at = "begun"
      /\ run[j].act = run[i].act /\ (i = j \/ (i \in overlapped /\ j \in overlapped))
  BY <1>1, Target DEF Agent!Tick, Agent!Unfinished
<1>3. PICK r : r = Agent!CountDown(run[j])
  OBVIOUS
<1>4. run' = [run EXCEPT ![j] = r] /\ UNCHANGED <<active, stopped, awaiting, overlapped, granted, late>>
      /\ run[j].resolving < MaxAwait
  BY <1>1, <1>3 DEF Agent!Tick, Agent!hist
<1>5. run[j] \in RunRec /\ run \in [Agent!Runs -> RunRec]
  BY <1>2 DEF AgentInv, AgentTyped
<1>6. /\ r \in RunRec /\ r.act = run[j].act /\ r.at = "begun" /\ r.esc = run[j].esc /\ r.stray = run[j].stray
      /\ \/ r.timer = run[j].timer /\ r.resolving = run[j].resolving
         \/ ~r.timer /\ r.resolving = run[j].resolving + 1
  BY <1>2, <1>3, <1>4, <1>5, Counting
<1>7. ASSUME j \notin overlapped PROVE Course(j)'
  <2>1. i = j /\ Course(j)
    BY <1>2, <1>7 DEF AgentInv, OnCourse
  <2>2. run'[j] = r /\ active' = active
    BY <1>2, <1>4, <1>5
  <2>3. run[j].timer /\ run[j].resolving = 0 /\ ~run[j].esc /\ run[j].stray = 0 /\ Holds(j)
    BY <1>1, <1>2, <1>5, <2>1 DEF Course, Busy, Clear, Holds
  <2>4. Holds(j)'
    BY <1>6, <2>2, <2>3 DEF Holds
  <2>5. Busy(r)
    <3>1. CASE r.timer = run[j].timer /\ r.resolving = run[j].resolving
      BY <1>6, <2>3, <3>1 DEF Busy
    <3>2. CASE ~r.timer /\ r.resolving = run[j].resolving + 1
      BY <1>6, <2>3, <3>2 DEF Busy
    <3> QED
      BY <1>6, <3>1, <3>2
  <2> QED
    BY <1>6, <2>2, <2>4, <2>5 DEF Course
<1> QED
  BY <1>2, <1>4, <1>6, <1>7, OneRun

LEMMA AgentResolvedInv ==
  ASSUME AgentInv, NEW i \in Agent!Runs, Agent!ResolvedNone(i) \/ Agent!Resolved(i)
  PROVE  AgentInv'
<1>1. run[i].resolving > 0 /\ Agent!Unfinished(i)
  BY DEF Agent!ResolvedNone, Agent!Resolved, Agent!Unfinished
<1>2. ASSUME i \notin overlapped
      PROVE  /\ run[i].at = "begun" /\ ~run[i].timer /\ Course(i)
             /\ \/ run[i].resolving = 1 /\ ~run[i].esc /\ run[i].stray = 0
                \/ ~Holds(i) /\ (stopped \/ i \in awaiting)
  BY <1>1, <1>2, Going DEF AgentInv, OnCourse, Course, Busy, Clear, RunRec
<1>3. CASE Agent!ResolvedNone(i)
  <2> DEFINE r == [run[i] EXCEPT !.resolving = @ - 1]
  <2>1. r \in RunRec /\ r.act = run[i].act /\ r.at = run[i].at /\ r.resolving = run[i].resolving - 1
        /\ r.timer = run[i].timer /\ r.esc = run[i].esc /\ r.stray = run[i].stray
    BY <1>1, Going, LiveAssumption DEF RunRec
  <2>2. run' = [run EXCEPT ![i] = r] /\ active' = [active EXCEPT ![run[i].act] = 0]
        /\ UNCHANGED <<stopped, awaiting, overlapped, granted, late>>
    BY <1>3 DEF Agent!ResolvedNone, Agent!hist
  <2> HIDE DEF r
  <2>3. run'[i] = r /\ ~Holds(i)'
    BY <1>1, <2>1, <2>2, Going DEF Holds
  <2>4. ASSUME i \notin overlapped PROVE Course(i)'
    BY <1>2, <2>1, <2>2, <2>3, <2>4 DEF Course, Busy, Clear
  <2> QED
    BY <1>1, <2>1, <2>2, <2>4, Going, OneRun, Begun
<1>4. CASE Agent!Resolved(i)
  <2> DEFINE r == [run[i] EXCEPT !.resolving = @ - 1, !.esc = TRUE,
                                 !.stray = IF run[i].esc THEN @ + 1 ELSE @]
  <2>1. r \in RunRec /\ r.act = run[i].act /\ r.at = run[i].at /\ r.resolving = run[i].resolving - 1
        /\ r.timer = run[i].timer /\ r.esc /\ (~run[i].esc => r.stray = run[i].stray)
    BY <1>1, <1>4, Going, LiveAssumption DEF RunRec, Agent!Resolved
  <2>2. run' = [run EXCEPT ![i] = r] /\ UNCHANGED <<active, stopped, awaiting, overlapped, granted>>
        /\ (late' = late \/ (i \in granted /\ late' = late \cup {i}))
    BY <1>4 DEF Agent!Resolved, Agent!Signals
  <2> HIDE DEF r
  <2>3. run'[i] = r /\ (Holds(i)' <=> Holds(i))
    BY <1>1, <2>1, <2>2, Going DEF Holds
  <2>4. ASSUME i \notin overlapped PROVE Course(i)'
    <3>1. CASE Holds(i)
      <4>1. r.resolving = 0 /\ ~r.timer /\ r.stray = 0 /\ r.at = "begun"
        BY <1>2, <2>1, <2>4, <3>1
      <4>2. Busy(r)
        BY <2>1, <4>1 DEF Busy, RunRec
      <4> QED
        BY <2>1, <2>3, <3>1, <4>1, <4>2 DEF Course
    <3>2. CASE ~Holds(i)
      BY <1>2, <2>1, <2>2, <2>3, <2>4, <3>2 DEF Course, Busy, Clear
    <3> QED
      BY <3>1, <3>2
  <2> QED
    BY <1>1, <2>1, <2>2, <2>4, Going, OneRun, Begun
<1> QED
  BY <1>3, <1>4

LEMMA AgentEscalateInv ==
  ASSUME AgentInv, NEW i \in Agent!Runs, Agent!Escalate(i)
  PROVE  AgentInv'
<1> DEFINE fired == [run[i] EXCEPT !.esc = FALSE]
           forgotten == [run[i] EXCEPT !.stray = @ - 1]
<1>1. Agent!Unfinished(i) /\ active' = [active EXCEPT ![run[i].act] = 0]
      /\ UNCHANGED <<stopped, awaiting, overlapped, granted>>
      /\ (late' = late \/ (i \in granted /\ late' = late \cup {i}))
  BY DEF Agent!Escalate, Agent!Unfinished, Agent!Signals
<1>2. \E r \in {fired, forgotten} : /\ run' = [run EXCEPT ![i] = r] /\ (r = fired => run[i].esc)
                                    /\ r = forgotten => run[i].stray > 0
  <2>1. CASE run[i].esc /\ run' = [run EXCEPT ![i].esc = FALSE]
    <3>1. run' = [run EXCEPT ![i] = fired] /\ (fired = forgotten => run[i].stray > 0)
      BY <1>1, <2>1, Going DEF RunRec
    <3> QED
      BY <2>1, <3>1
  <2>2. CASE run[i].stray > 0 /\ run' = [run EXCEPT ![i].stray = @ - 1]
    <3>1. run' = [run EXCEPT ![i] = forgotten] /\ (fired = forgotten => run[i].esc)
      BY <1>1, <2>2, Going DEF RunRec
    <3> QED
      BY <2>2, <3>1
  <2> QED
    BY <2>1, <2>2 DEF Agent!Escalate
<1>3. PICK r \in {fired, forgotten} : /\ run' = [run EXCEPT ![i] = r] /\ (r = fired => run[i].esc)
                                      /\ r = forgotten => run[i].stray > 0
  BY <1>2
<1>4. /\ r \in RunRec /\ r.act = run[i].act /\ r.at = run[i].at /\ r.timer = run[i].timer
      /\ r.resolving = run[i].resolving
      /\ \/ run[i].esc /\ ~r.esc /\ r.stray = run[i].stray
         \/ run[i].stray > 0
  <2>1. CASE r = fired
    BY <1>1, <1>3, <2>1, Going DEF RunRec
  <2>2. CASE r = forgotten
    BY <1>1, <1>3, <2>2, Going, LiveAssumption DEF RunRec
  <2> QED
    BY <2>1, <2>2
<1> HIDE DEF fired, forgotten
<1>5. run'[i] = r /\ ~Holds(i)' /\ r.at = "begun"
  BY <1>1, <1>3, <1>4, Going, Begun DEF Holds
<1>6. ASSUME i \notin overlapped PROVE Course(i)'
  <2>1. Course(i)
    BY <1>1, <1>6, Going DEF AgentInv, OnCourse
  <2>2. CASE Holds(i)
    <3>1. run[i].esc /\ ~run[i].timer /\ run[i].resolving = 0 /\ run[i].stray = 0
      BY <1>4, <2>1, <2>2, Going, <1>1 DEF Course, Busy, Clear, RunRec
    <3> QED
      BY <1>4, <1>5, <3>1 DEF Course, Busy, Clear
  <2>3. CASE ~Holds(i)
    BY <1>1, <1>4, <1>5, <2>1, <2>3 DEF Course, Busy, Clear
  <2> QED
    BY <2>2, <2>3
<1> QED
  BY <1>1, <1>3, <1>4, <1>5, <1>6, Going, OneRun

\* A run whose timers are cleared: what it still has to do is behind an await.
LEMMA Cut ==
  ASSUME NEW r \in RunRec
  PROVE  LET c == Agent!ClearTimers(r) IN
         /\ c \in RunRec /\ c.act = r.act /\ c.at = r.at /\ c.resolving = r.resolving
         /\ c.stray = r.stray /\ ~c.timer /\ ~c.esc
BY DEF Agent!ClearTimers, RunRec

\* Clearing the timers of the runs the map holds, and taking them out of it.
LEMMA Cleared ==
  ASSUME AgentInv, NEW H, H \subseteq Agent!Runs, run' \in [Agent!Runs -> RunRec],
         active' \in [Activities -> 0..MaxRuns], stopped' \in BOOLEAN,
         \A i \in Agent!Runs : run'[i] = IF i \in H THEN Agent!ClearTimers(run[i]) ELSE run[i],
         \A i \in H : run[i].at = "begun" /\ Holds(i),
         \A i \in Agent!Runs : run[i].at # "none" => (Holds(i)' <=> (Holds(i) /\ i \notin H)),
         \A a \in Activities : active'[a] # 0 => active'[a] = active[a] /\ active[a] \notin H,
         stopped => stopped', awaiting \subseteq awaiting', awaiting' \subseteq Agent!Runs,
         \A i \in H : run[i].resolving > 0 => stopped' \/ i \in awaiting',
         granted' \subseteq Agent!Runs, UNCHANGED <<overlapped, late>>,
         \A i \in granted' : run[i].at # "none",
         \A i \in granted' : i \notin awaiting' \cup overlapped' => run'[i].at = "begun" /\ ~Agent!Unfinished(i)'
  PROVE  AgentInv'
<1>1. \A i \in Agent!Runs :
        /\ run[i] \in RunRec /\ run'[i] \in RunRec /\ run'[i].act = run[i].act /\ run'[i].at = run[i].at
        /\ run'[i].resolving = run[i].resolving /\ run'[i].stray = run[i].stray
        /\ i \in H => ~run'[i].timer /\ ~run'[i].esc
        /\ i \notin H => run'[i] = run[i]
  BY Cut DEF AgentInv, AgentTyped
<1>2. \A i \in Agent!Runs : Agent!Unfinished(i)' => Agent!Unfinished(i)
  BY <1>1 DEF Agent!Unfinished
<1>3. AgentTyped'
  BY DEF AgentInv, AgentTyped
<1>4. Owned'
  <2>1. \A i \in Agent!Runs : /\ run'[i].at # "begun" => Clear(run'[i])
                              /\ run'[i].at # "none" => run'[i].act \in Activities
    BY <1>1 DEF AgentInv, Owned
  <2>2. \A a \in Activities : active'[a] # 0 => run'[active'[a]].at = "begun" /\ run'[active'[a]].act = a
    BY <1>1 DEF AgentInv, Owned, AgentTyped, Agent!Runs
  <2>3. \A i \in granted' : run'[i].at # "none"
    BY <1>1
  <2> QED
    BY <2>1, <2>2, <2>3 DEF Owned
<1>5. Solo'
  BY <1>1, <1>2 DEF AgentInv, Solo
<1>6. OnCourse'
  <2> SUFFICES ASSUME NEW i \in Agent!Runs, run[i].at # "none", i \notin overlapped PROVE Course(i)'
    BY <1>1 DEF OnCourse, Agent!Runs
  <2>1. Course(i)
    BY DEF AgentInv, OnCourse
  <2>2. CASE i \notin H
    <3>1. run'[i] = run[i] /\ (Holds(i)' <=> Holds(i))
      BY <1>1, <2>2
    <3> QED
      BY <2>1, <3>1 DEF Course
  <2>3. CASE i \in H
    <3>1. run[i].at = "begun" /\ Holds(i) /\ ~Holds(i)' /\ run[i].stray = 0
          /\ (run[i].resolving = 0 \/ run[i].resolving > 0)
      BY <1>1, <2>1, <2>3 DEF Course, Busy, Clear, RunRec
    <3>2. CASE run[i].resolving = 0
      BY <1>1, <2>3, <3>1, <3>2 DEF Course, Busy, Clear
    <3>3. CASE run[i].resolving > 0
      BY <1>1, <2>3, <3>1, <3>3 DEF Course
    <3> QED
      BY <3>1, <3>2, <3>3
  <2> QED
    BY <2>2, <2>3
<1>7. Spared'
  BY <1>1 DEF AgentInv, Spared
<1> QED
  BY <1>3, <1>4, <1>5, <1>6, <1>7 DEF AgentInv

LEMMA AgentCancelInv ==
  ASSUME AgentInv, NEW a \in Activities, Agent!Cancel(a)
  PROVE  AgentInv'
<1> DEFINE H == IF active[a] = 0 THEN {} ELSE {active[a]}
<1>1. /\ H \subseteq Agent!Runs /\ ~stopped
      /\ \A i \in H : i = active[a] /\ run[i].at = "begun" /\ run[i].act = a
      /\ Agent!Of(a) \subseteq Agent!Runs /\ \A i \in Agent!Of(a) : run[i].at # "none" /\ run[i].act = a
  BY DEF AgentInv, AgentTyped, Owned, Agent!Runs, Agent!Of, Agent!Cancel
<1>2. /\ run' \in [Agent!Runs -> RunRec] /\ active' \in [Activities -> 0..MaxRuns]
      /\ \A i \in Agent!Runs : run'[i] = IF i \in H THEN Agent!ClearTimers(run[i]) ELSE run[i]
      /\ active'[a] = 0 /\ \A b \in Activities : b # a => active'[b] = active[b]
  <2>1. CASE active[a] = 0
    BY <2>1 DEF AgentInv, AgentTyped, Agent!Cancel
  <2>2. CASE active[a] # 0
    <3>1. active[a] \in Agent!Runs /\ Agent!ClearTimers(run[active[a]]) \in RunRec /\ 0 \in 0..MaxRuns
      BY <1>1, <2>2, Cut, LiveAssumption DEF AgentInv, AgentTyped
    <3>2. run' = [run EXCEPT ![active[a]] = Agent!ClearTimers(run[active[a]])]
          /\ active' = [active EXCEPT ![a] = 0]
      BY <2>2 DEF Agent!Cancel
    <3> QED
      BY <2>2, <3>1, <3>2 DEF AgentInv, AgentTyped
  <2> QED
    BY <2>1, <2>2
<1>3. \A i \in H : Holds(i)
  BY <1>1 DEF Holds
<1>4. ASSUME NEW i \in Agent!Runs, run[i].at # "none"
      PROVE  Holds(i)' <=> (Holds(i) /\ i \notin H)
  <2>1. run'[i].act = run[i].act /\ run[i].act \in Activities /\ i # 0
    BY <1>2, <1>4, Cut DEF AgentInv, AgentTyped, Owned, Agent!Runs
  <2>2. CASE run[i].act = a
    BY <1>1, <1>2, <2>1, <2>2 DEF Holds
  <2>3. CASE run[i].act # a
    BY <1>1, <1>2, <2>1, <2>3 DEF Holds
  <2> QED
    BY <2>2, <2>3
<1>5. /\ granted' = granted \cup Agent!Of(a) /\ UNCHANGED <<stopped, overlapped, late>>
      /\ awaiting' = awaiting \cup {i \in Agent!Of(a) : run[i].at = "toast" \/ run[i].resolving > 0}
  BY DEF Agent!Cancel
<1>6. \A i \in Agent!Runs : /\ run'[i].at = run[i].at
                            /\ Agent!Unfinished(i)' => Agent!Unfinished(i)
  BY <1>2, Cut DEF AgentInv, AgentTyped, Agent!Unfinished
<1>7. ASSUME NEW i \in granted', i \notin awaiting' \cup overlapped'
      PROVE  run'[i].at = "begun" /\ ~Agent!Unfinished(i)'
  <2>1. CASE i \in granted
    BY <1>5, <1>6, <1>7, <2>1 DEF AgentInv, AgentTyped, Spared
  <2>2. CASE i \in Agent!Of(a)
    <3>1. i \in Agent!Runs /\ run[i].act = a /\ Course(i)
      BY <1>1, <1>5, <1>7, <2>2 DEF AgentInv, OnCourse
    <3>2. ~(run[i].at = "toast") /\ run[i].at = "begun" /\ ~(run[i].resolving > 0) /\ i \notin awaiting /\ ~stopped
      BY <1>1, <1>5, <1>7, <2>2, <3>1 DEF Course
    <3>3. CASE i \in H
      <4>1. run[i].stray = 0 /\ run[i].resolving = 0
        BY <1>3, <3>1, <3>2, <3>3 DEF Course, Busy, Clear
      <4>2. run'[i] = Agent!ClearTimers(run[i])
        BY <1>2, <3>1, <3>3
      <4> QED
        BY <1>6, <3>1, <3>2, <4>1, <4>2, Cut DEF Agent!Unfinished, AgentInv, AgentTyped
    <3>4. CASE i \notin H
      <4>1. ~Holds(i)
        BY <1>1, <3>1, <3>4 DEF Holds, Agent!Runs
      <4>2. Clear(run[i]) /\ run'[i] = run[i]
        BY <1>2, <3>1, <3>2, <3>4, <4>1 DEF Course
      <4> QED
        BY <3>2, <4>2 DEF Clear, Agent!Unfinished
    <3> QED
      BY <3>3, <3>4
  <2> QED
    BY <1>5, <2>1, <2>2
<1> HIDE DEF H
<1>8. awaiting' \subseteq Agent!Runs /\ granted' \subseteq Agent!Runs /\ \A i \in granted' : run[i].at # "none"
  BY <1>1, <1>5 DEF AgentInv, AgentTyped, Owned
<1>9. \A b \in Activities : active'[b] # 0 => active'[b] = active[b] /\ active[b] \notin H
  BY <1>1, <1>2 DEF AgentInv, Owned
<1>10. stopped' \in BOOLEAN /\ \A i \in H : run[i].resolving > 0 => i \in awaiting'
  <2>1. \A i \in H : i \in Agent!Of(a)
    BY <1>1 DEF Agent!Of
  <2> QED
    BY <1>5, <2>1 DEF AgentInv, AgentTyped
<1> QED
  BY <1>1, <1>2, <1>3, <1>4, <1>5, <1>7, <1>8, <1>9, <1>10, Cleared

LEMMA AgentStopInv ==
  ASSUME AgentInv, Agent!Stop
  PROVE  AgentInv'
<1> DEFINE H == {i \in Agent!Runs : \E a \in Activities : active[a] = i}
<1>1. /\ H \subseteq Agent!Runs /\ stopped' = TRUE /\ UNCHANGED <<awaiting, overlapped, granted, late>>
      /\ \A i \in Agent!Runs : run'[i] = IF i \in H THEN Agent!ClearTimers(run[i]) ELSE run[i]
      /\ \A a \in Activities : active'[a] = 0
  BY DEF Agent!Stop, Agent!hist
<1>2. run' \in [Agent!Runs -> RunRec] /\ active' \in [Activities -> 0..MaxRuns]
  <2>1. \A i \in Agent!Runs : run'[i] \in RunRec
    BY <1>1, Cut DEF AgentInv, AgentTyped
  <2>2. \E f : run' = [i \in Agent!Runs |-> f[i]]
    <3>1. run' = [i \in Agent!Runs |-> run'[i]]
      BY DEF Agent!Stop
    <3> QED
      BY <3>1
  <2> QED
    BY <2>1, <2>2, LiveAssumption DEF Agent!Stop
<1>3. \A i \in H : run[i].at = "begun" /\ Holds(i)
  BY DEF AgentInv, Owned, Holds, Agent!Runs
<1>4. ASSUME NEW i \in Agent!Runs, run[i].at # "none"
      PROVE  Holds(i)' <=> (Holds(i) /\ i \notin H)
  <2>1. run'[i].act = run[i].act /\ run[i].act \in Activities /\ i # 0
    BY <1>1, <1>4, Cut DEF AgentInv, AgentTyped, Owned, Agent!Runs
  <2> QED
    BY <1>1, <2>1 DEF Holds
<1>5. \A i \in Agent!Runs : /\ run'[i].at = run[i].at
                            /\ Agent!Unfinished(i)' => Agent!Unfinished(i)
  BY <1>1, Cut DEF AgentInv, AgentTyped, Agent!Unfinished
<1> HIDE DEF H
<1>6. /\ awaiting' \subseteq Agent!Runs /\ granted' \subseteq Agent!Runs
      /\ \A i \in granted' : run[i].at # "none"
      /\ \A i \in granted' : i \notin awaiting' \cup overlapped' => run'[i].at = "begun" /\ ~Agent!Unfinished(i)'
  BY <1>1, <1>5 DEF AgentInv, AgentTyped, Owned, Spared
<1> QED
  BY <1>1, <1>2, <1>3, <1>4, <1>6, Cleared

LEMMA AgentNextInv ==
  ASSUME AgentInv, [Agent!Next]_agentVars
  PROVE  AgentInv'
<1>1. CASE UNCHANGED agentVars
  BY <1>1 DEF agentVars, AgentInv, AgentTyped, Owned, Solo, OnCourse, Course, Holds, Spared, Agent!Unfinished
<1>2. CASE Agent!Next
  BY <1>2, AgentStartInv, ToastedInv, AgentResolvedInv, AgentTickInv, AgentEscalateInv,
     AgentCancelInv, AgentStopInv DEF Agent!Next
<1> QED
  BY <1>1, <1>2

LEMMA AgentInvSound ==
  ASSUME AgentInv
  PROVE  Agent!TypeOK /\ Agent!GrantSparesUnlessAwaiting
BY DEF AgentInv, AgentTyped, Spared, RunRec, Agent!TypeOK, Agent!GrantSparesUnlessAwaiting

(* ---- the warnings, action by action ---- *)

\* The nearest boundary a reading has reached is one of them, and the least.
LEMMA LeastReached ==
  ASSUME NEW S \in SUBSET Nat, S # {}
  PROVE  Cadence!Min(S) \in S /\ \A t \in S : Cadence!Min(S) <= t
<1>1. PICK n \in S : \A m \in S : ~ (<<m, n>> \in OpToRel(<, Nat))
  BY NatLessThanWellFounded, WFMin
<1>2. \A m \in S : n <= m
  <2>1. \A m \in S : ~(m < n) /\ m \in Nat /\ n \in Nat
    BY <1>1 DEF OpToRel
  <2> QED
    BY <2>1
<1> QED
  BY <1>2 DEF Cadence!Min

LEMMA Boundaries ==
  ASSUME NEW t \in Nat
  PROVE  /\ Cadence!warningThresholdsSeconds(t) \subseteq Nat \ {0}
         /\ \A m \in Cadence!warningThresholdsSeconds(t) : m < t
         /\ Cadence!Infinity(t) \in Nat /\ t < Cadence!Infinity(t)
BY DEF Cadence!warningThresholdsSeconds, Cadence!Infinity

LEMMA CadenceInitInv == ASSUME Cadence!Init PROVE CadenceInv
<1> USE LiveAssumption DEF Cadence!Init
<1>1. Cadence!Infinity(Total) \in Nat
  BY Boundaries
<1>2. CadenceTyped
  BY <1>1, EmptySeq DEF CadenceTyped, Cadence!CadenceTracker
<1>3. Tracked /\ UseKnown
  BY DEF Tracked, UseKnown, Cadence!CadenceTracker
<1>4. FramesFollow
  BY EmptySeq DEF FramesFollow
<1>5. Cadence!CadenceSound
  <2>1. Cadence!NothingMissed
    BY Boundaries DEF Cadence!NothingMissed, Cadence!CadenceTracker, Cadence!Infinity
  <2>2. Cadence!GrantsInOrder
    BY DEF Cadence!GrantsInOrder
  <2> QED
    BY <2>1, <2>2 DEF Cadence!CadenceSound, Cadence!WarnedOnce, Cadence!NeverEarly
<1> QED
  BY <1>2, <1>3, <1>4, <1>5 DEF CadenceInv

\* Only the ticks under way, and the clock they are read against, change.
LEMMA TicksInv ==
  ASSUME CadenceInv, ticks' \subseteq TickRec, asked' \in Nat, UseKnown',
         day' \in Nat, used' \in Nat, yesterday' \in Nat,
         UNCHANGED <<total, tracker, link, frames, buffer, sent, added, told, repeated, early, seen>>
  PROVE  CadenceInv'
<1>1. CadenceTyped'
  BY DEF CadenceInv, CadenceTyped, TickRec, Chunk, GrantRec
<1>2. Tracked' /\ FramesFollow'
  BY DEF CadenceInv, Tracked, FramesFollow
<1>3. Cadence!CadenceSound'
  BY DEF CadenceInv, Cadence!CadenceSound, Cadence!WarnedOnce, Cadence!NeverEarly, Cadence!NothingMissed,
         Cadence!GrantsInOrder
<1> QED
  BY <1>1, <1>2, <1>3 DEF CadenceInv

LEMMA AsksInv ==
  ASSUME CadenceInv, Cadence!tick \/ Cadence!AwFlips \/ Cadence!Use \/ Cadence!Midnight
  PROVE  CadenceInv'
<1> USE DEF CadenceInv, CadenceTyped
<1>1. CASE Cadence!tick
  <2>1. ticks' \subseteq TickRec /\ asked' \in Nat
    BY <1>1 DEF Cadence!tick, TickRec
  <2>2. UseKnown'
    BY <1>1 DEF Cadence!tick, Cadence!aw, UseKnown, Cadence!usedSeconds
  <2> QED
    BY <1>1, <2>1, <2>2, TicksInv DEF Cadence!tick, Cadence!aw, Cadence!link, Cadence!hist
<1>2. CASE Cadence!AwFlips
  <2>1. UseKnown'
    BY <1>2 DEF Cadence!AwFlips, UseKnown
  <2> QED
    BY <1>2, <2>1, TicksInv DEF Cadence!AwFlips, Cadence!link, Cadence!hist
<1>3. CASE Cadence!Use
  <2>1. PICK u \in Uses : used' = used + u
    BY <1>3 DEF Cadence!Use
  <2>2. u \in Nat /\ used' \in Nat /\ used <= used' /\ UNCHANGED <<day, ticks>>
    BY <1>3, <2>1, LiveAssumption DEF Cadence!Use
  <2>3. UseKnown'
    <3> SUFFICES ASSUME NEW t \in ticks, t.day = day, t.use # -1 PROVE Cadence!usedSeconds(t) <= used'
      BY <2>2 DEF UseKnown
    <3>1. Cadence!usedSeconds(t) <= used /\ Cadence!usedSeconds(t) \in Int
      BY DEF UseKnown, TickRec, Cadence!usedSeconds
    <3> QED
      BY <2>2, <3>1
  <2> QED
    BY <1>3, <2>2, <2>3, TicksInv DEF Cadence!Use, Cadence!link, Cadence!hist
<1>4. CASE Cadence!Midnight
  <2>1. day' = day + 1 /\ used' = 0 /\ yesterday' = used /\ ticks' = ticks
    BY <1>4 DEF Cadence!Midnight
  <2>2. UseKnown'
    BY <2>1 DEF UseKnown, TickRec
  <2> QED
    BY <1>4, <2>1, <2>2, TicksInv DEF Cadence!Midnight, Cadence!link, Cadence!hist
<1> QED
  BY <1>1, <1>2, <1>3, <1>4

LEMMA AnswerInv ==
  ASSUME CadenceInv, NEW t \in ticks, Cadence!Answer(t)
  PROVE  CadenceInv'
<1>1. PICK u \in Nat \cup {-2} : /\ ticks' = (ticks \ {t}) \cup {[t EXCEPT !.use = u]}
                                 /\ t.day = day => u \in {used, -2}
  BY DEF CadenceInv, CadenceTyped, Cadence!Answer
<1>2. t \in TickRec /\ [t EXCEPT !.use = u] \in TickRec /\ [t EXCEPT !.use = u].day = t.day
      /\ [t EXCEPT !.use = u].use = u
  BY DEF CadenceInv, CadenceTyped, TickRec
<1>3. ticks' \subseteq TickRec
  BY <1>1, <1>2 DEF CadenceInv, CadenceTyped
<1>4. UseKnown'
  <2>1. UNCHANGED <<day, used>> /\ used \in Nat /\ 0 <= used
    BY DEF Cadence!Answer, Cadence!aw, CadenceInv, CadenceTyped
  <2> SUFFICES ASSUME NEW x \in ticks'
               PROVE  x.day <= day /\ (x.day = day /\ x.use # -1 => Cadence!usedSeconds(x) <= used)
    BY <2>1 DEF UseKnown, Cadence!usedSeconds
  <2>2. CASE x \in ticks
    BY <2>2 DEF CadenceInv, UseKnown
  <2>3. CASE x = [t EXCEPT !.use = u]
    <3>1. x.day = t.day /\ x.use = u /\ t.day <= day
      BY <1>2, <2>3 DEF CadenceInv, UseKnown
    <3> QED
      BY <1>1, <2>1, <3>1 DEF Cadence!usedSeconds
  <2> QED
    BY <1>1, <2>2, <2>3
<1> QED
  BY <1>3, <1>4, TicksInv DEF Cadence!Answer, Cadence!aw, Cadence!link, Cadence!hist, CadenceInv, CadenceTyped

\* What observe says of a reading: nothing, time's up once, or the least boundary
\* reached below the last one announced.
LEMMA Observed ==
  ASSUME CadenceInv, NEW r \in Nat
  PROVE  LET b == Cadence!observe(r) IN
         \/ b = -1 /\ (r = 0 => 0 \in told) /\ (r # 0 => \A t \in tracker.thresholds : r <= t => tracker.lastAnnounced <= t)
         \/ b = 0 /\ r = 0 /\ 0 \notin told
         \/ /\ r # 0 /\ b \in tracker.thresholds /\ b < tracker.lastAnnounced /\ r <= b
            /\ \A t \in tracker.thresholds : r <= t => b <= t \/ tracker.lastAnnounced <= t
<1> DEFINE reached == {t \in tracker.thresholds : t < tracker.lastAnnounced /\ r <= t}
<1>1. tracker.thresholds \subseteq Nat \ {0} /\ tracker.lastAnnounced \in Nat
  BY Boundaries DEF CadenceInv, CadenceTyped
<1>2. CASE r = 0
  BY <1>2 DEF Cadence!observe, CadenceInv, Tracked
<1>3. CASE r # 0 /\ reached = {}
  <2>1. Cadence!observe(r) = -1
    BY <1>3 DEF Cadence!observe
  <2> QED
    BY <1>1, <1>3, <2>1
<1>4. CASE r # 0 /\ reached # {}
  <2>1. Cadence!observe(r) = Cadence!Min(reached)
    BY <1>4 DEF Cadence!observe
  <2>2. Cadence!Min(reached) \in reached /\ \A t \in reached : Cadence!Min(reached) <= t
    BY <1>1, <1>4, LeastReached
  <2> QED
    BY <1>1, <1>4, <2>1, <2>2
<1> QED
  BY <1>2, <1>3, <1>4

LEMMA AnnounceInv ==
  ASSUME CadenceInv, NEW t \in ticks, Cadence!Announce(t)
  PROVE  CadenceInv'
<1>1. PICK r : r = Cadence!remainingSeconds(total, Cadence!usedSeconds(t))
  OBVIOUS
<1>2. PICK b : b = Cadence!observe(r)
  OBVIOUS
<1>3. /\ t.use # -1 /\ t \in TickRec /\ Cadence!usedSeconds(t) \in Nat
      /\ total \in Nat /\ used \in Nat /\ seen \in Nat /\ r \in Nat
  BY SMTT(30), <1>1 DEF CadenceInv, CadenceTyped, TickRec, Cadence!Announce, Cadence!usedSeconds, Cadence!remainingSeconds
<1>4. /\ tracker' = CASE b = -1 -> tracker
                      [] b = 0 -> [tracker EXCEPT !.lastAnnounced = 0, !.finalAnnounced = TRUE]
                      [] OTHER -> [tracker EXCEPT !.lastAnnounced = b]
      /\ told' = IF b = -1 THEN told ELSE told \cup {b}
      /\ repeated' = (repeated \/ b \in told)
      /\ early' = (early \/ (b # -1 /\ t.day = day /\ Cadence!remainingSeconds(total, used) > b))
      /\ seen' = IF r < seen THEN r ELSE seen
      /\ ticks' = ticks \ {t}
      /\ UNCHANGED <<day, used, yesterday, awUp, total, asked, link, frames, buffer, sent, added>>
  BY <1>1, <1>2 DEF Cadence!Announce, Cadence!aw, Cadence!link
<1>5. /\ tracker.thresholds = Cadence!warningThresholdsSeconds(total)
      /\ tracker.thresholds \subseteq Nat \ {0} /\ \A m \in tracker.thresholds : m < total
      /\ tracker.lastAnnounced \in Nat /\ told \subseteq Nat /\ -1 \notin Nat
  <2>1. /\ Cadence!warningThresholdsSeconds(total) \subseteq Nat \ {0}
        /\ \A m \in Cadence!warningThresholdsSeconds(total) : m < total
    BY <1>3, Boundaries
  <2>2. tracker.thresholds = Cadence!warningThresholdsSeconds(total) /\ tracker.lastAnnounced \in Nat
        /\ told \subseteq Nat
    BY DEF CadenceInv, CadenceTyped
  <2> QED
    BY <2>1, <2>2
<1>6. \/ b = -1 /\ (r = 0 => 0 \in told) /\ (r # 0 => \A m \in tracker.thresholds : r <= m => tracker.lastAnnounced <= m)
      \/ b = 0 /\ r = 0 /\ 0 \notin told
      \/ /\ r # 0 /\ b \in tracker.thresholds /\ b < tracker.lastAnnounced /\ r <= b
         /\ \A m \in tracker.thresholds : r <= m => b <= m \/ tracker.lastAnnounced <= m
  BY <1>2, <1>3, Observed
<1>7. /\ tracker' \in [thresholds : {Cadence!warningThresholdsSeconds(total)},
                       lastAnnounced : Nat, finalAnnounced : BOOLEAN]
      /\ tracker'.lastAnnounced = IF b = -1 THEN tracker.lastAnnounced ELSE b
      /\ tracker'.finalAnnounced <=> (tracker.finalAnnounced \/ b = 0)
      /\ tracker'.thresholds = tracker.thresholds
  <2>1. tracker \in [thresholds : {Cadence!warningThresholdsSeconds(total)},
                     lastAnnounced : Nat, finalAnnounced : BOOLEAN]
    BY DEF CadenceInv, CadenceTyped
  <2>2. CASE b = -1
    BY <1>4, <2>1, <2>2
  <2>3. CASE b = 0
    <3>1. tracker' = [tracker EXCEPT !.lastAnnounced = 0, !.finalAnnounced = TRUE]
      BY <1>4, <2>3
    <3>2. /\ tracker' \in [thresholds : {Cadence!warningThresholdsSeconds(total)},
                           lastAnnounced : Nat, finalAnnounced : BOOLEAN]
          /\ tracker'.lastAnnounced = 0 /\ tracker'.finalAnnounced = TRUE
          /\ tracker'.thresholds = tracker.thresholds
      BY <2>1, <3>1
    <3> QED
      BY <2>3, <3>2
  <2>4. CASE b # -1 /\ b # 0
    <3>1. b \in Nat /\ tracker' = [tracker EXCEPT !.lastAnnounced = b]
      BY <1>4, <1>5, <1>6, <2>4
    <3> QED
      BY <2>1, <2>4, <3>1
  <2> QED
    BY <2>2, <2>3, <2>4
<1>8. CadenceTyped'
  <2>1. told' \subseteq Nat /\ seen' \in Nat /\ ticks' \subseteq TickRec
    BY <1>3, <1>4, <1>5, <1>6 DEF CadenceInv, CadenceTyped
  <2> QED
    BY <1>4, <1>7, <2>1 DEF CadenceInv, CadenceTyped, Chunk, GrantRec, TickRec
<1>9. Tracked'
  <2>1. \A x \in told' : tracker'.lastAnnounced <= x
    <3>1. \A x \in told : tracker.lastAnnounced <= x
      BY DEF CadenceInv, Tracked
    <3>2. b # -1 => b \in Nat /\ b <= tracker.lastAnnounced
      BY <1>5, <1>6
    <3> QED
      BY <1>4, <1>5, <1>7, <3>1, <3>2
  <2>2. tracker'.lastAnnounced \in told' \/ (told' = {} /\ tracker'.lastAnnounced = Cadence!Infinity(total))
    BY <1>4, <1>7 DEF CadenceInv, Tracked
  <2>3. tracker'.finalAnnounced <=> 0 \in told'
    BY <1>4, <1>5, <1>6, <1>7 DEF CadenceInv, Tracked
  <2> QED
    BY <1>4, <2>1, <2>2, <2>3 DEF Tracked, Cadence!Infinity
<1>10. Cadence!NothingMissed'
  <2> SUFFICES ASSUME NEW m \in tracker.thresholds \cup {0}, seen' <= m PROVE \E x \in told' : x <= m
    BY <1>7 DEF Cadence!NothingMissed
  <2>1. CASE seen <= m
    <3>1. PICK x \in told : x <= m
      BY <2>1 DEF CadenceInv, Cadence!CadenceSound, Cadence!NothingMissed
    <3> QED
      BY <1>4, <3>1
  <2>2. CASE r <= m /\ r = 0
    <3>1. 0 \in told' /\ 0 <= m
      BY <1>4, <1>5, <1>6, <2>2
    <3> QED
      BY <3>1
  <2>3. CASE r <= m /\ r # 0
    <3>1. m \in tracker.thresholds /\ m \in Nat /\ m < total
      BY <1>3, <1>5, <2>3
    <3>2. CASE b # -1 /\ b <= m
      BY <1>4, <3>2
    <3>3. CASE tracker.lastAnnounced <= m
      <4>1. tracker.lastAnnounced # Cadence!Infinity(total)
        BY <1>3, <1>5, <3>1, <3>3, Boundaries
      <4>2. tracker.lastAnnounced \in told
        BY <4>1 DEF CadenceInv, Tracked
      <4> QED
        BY <1>4, <3>3, <4>2
    <3> QED
      BY <1>5, <1>6, <2>3, <3>1, <3>2, <3>3
  <2> QED
    BY <1>3, <1>4, <1>5, <2>1, <2>2, <2>3
<1>11. ~repeated'
  <2>1. ~repeated /\ \A x \in told : tracker.lastAnnounced <= x
    BY DEF CadenceInv, Cadence!CadenceSound, Cadence!WarnedOnce, Tracked
  <2>2. b \notin told
    <3> SUFFICES ASSUME b \in told PROVE FALSE
      OBVIOUS
    <3>1. b \in Nat /\ tracker.lastAnnounced <= b
      BY <1>5, <2>1
    <3> QED
      BY <1>5, <1>6, <3>1
  <2> QED
    BY <1>4, <2>1, <2>2
<1>12. ~early'
  <2>1. ~early
    BY DEF CadenceInv, Cadence!CadenceSound, Cadence!NeverEarly
  <2>2. ASSUME b # -1, t.day = day PROVE ~(Cadence!remainingSeconds(total, used) > b)
    <3>1. Cadence!usedSeconds(t) <= used
      BY <1>3, <2>2 DEF CadenceInv, UseKnown
    <3>2. Cadence!remainingSeconds(total, used) <= r /\ Cadence!remainingSeconds(total, used) \in Nat
      BY <1>1, <1>3, <3>1 DEF Cadence!remainingSeconds
    <3>3. b \in Nat /\ r <= b
      BY <1>5, <1>6, <2>2
    <3> QED
      BY <1>3, <3>2, <3>3
  <2> QED
    BY <1>4, <2>1, <2>2
<1>13. UseKnown' /\ FramesFollow' /\ Cadence!GrantsInOrder'
  BY <1>4 DEF CadenceInv, UseKnown, FramesFollow, Cadence!CadenceSound, Cadence!GrantsInOrder
<1> QED
  BY <1>8, <1>9, <1>10, <1>11, <1>12, <1>13
     DEF CadenceInv, Cadence!CadenceSound, Cadence!WarnedOnce, Cadence!NeverEarly

\* The wire is cut: what was not read is lost.
LEMMA CutInv ==
  ASSUME CadenceInv, Cadence!connect \/ Cadence!scheduleReconnect
  PROVE  CadenceInv'
<1>1. frames' = << >> /\ UNCHANGED <<day, used, yesterday, awUp, total, tracker, ticks, asked, sent,
                                    added, told, repeated, early, seen>>
  BY DEF Cadence!connect, Cadence!scheduleReconnect, Cadence!aw, Cadence!hist
<1>2. CadenceTyped'
  BY <1>1, EmptySeq DEF CadenceInv, CadenceTyped, TickRec, GrantRec
<1>3. FramesFollow'
  BY <1>1, EmptySeq DEF FramesFollow
<1>4. Tracked' /\ UseKnown'
  BY <1>1 DEF CadenceInv, Tracked, UseKnown
<1>5. Cadence!CadenceSound'
  BY <1>1 DEF CadenceInv, Cadence!CadenceSound, Cadence!WarnedOnce, Cadence!NeverEarly, Cadence!NothingMissed,
              Cadence!GrantsInOrder
<1> QED
  BY <1>2, <1>3, <1>4, <1>5 DEF CadenceInv

LEMMA DispatchInv ==
  ASSUME CadenceInv, NEW g \in Grants, Cadence!dispatch(g)
  PROVE  CadenceInv'
<1> DEFINE n == Len(sent) + 1
           more == << <<n, "head">>, <<n, "tail">> >>
<1>1. sent' = Append(sent, g) /\ frames' = frames \o more
      /\ UNCHANGED <<day, used, yesterday, awUp, total, tracker, ticks, asked, added, told, repeated, early, seen>>
  BY DEF Cadence!dispatch, Cadence!aw, Cadence!hist
<1>2. /\ sent \in Seq(Grants) /\ sent' \in Seq(Grants) /\ Len(sent) \in Nat /\ Len(sent') = n
      /\ \A i \in 1..Len(sent) : sent'[i] = sent[i]
  BY <1>1, AppendProperties DEF CadenceInv, CadenceTyped
<1>3. frames \in Seq(Chunk) /\ Chunk \subseteq Chunk' /\ more \in Seq(Chunk') /\ Len(more) = 2
      /\ more[1] = <<n, "head">> /\ more[2] = <<n, "tail">>
  BY <1>1, <1>2 DEF CadenceInv, CadenceTyped, Chunk
<1> HIDE DEF n, more
<1>4. /\ frames' \in Seq(Chunk') /\ Len(frames') = Len(frames) + 2 /\ Len(frames) \in Nat
      /\ \A i \in 1..Len(frames) : frames'[i] = frames[i] /\ frames[i] \in Chunk
      /\ frames'[Len(frames) + 1] = <<n, "head">> /\ frames'[Len(frames) + 2] = <<n, "tail">>
  <2>0. PICK C : C = Chunk'
    OBVIOUS
  <2>1. frames \in Seq(C) /\ more \in Seq(C)
    BY <1>3, <2>0
  <2>2. /\ frames \o more \in Seq(C) /\ Len(frames \o more) = Len(frames) + Len(more) /\ Len(frames) \in Nat
        /\ \A i \in 1..Len(frames) + Len(more) :
             (frames \o more)[i] = IF i <= Len(frames) THEN frames[i] ELSE more[i - Len(frames)]
    <3>1. Len(frames) \in Nat
      BY <2>1, LenProperties
    <3> QED
      BY <2>1, <3>1, ConcatProperties
  <2>3. \A i \in 1..Len(frames) : frames[i] \in Chunk
    BY <1>3, ElementOfSeq
  <2> QED
    BY <1>1, <1>3, <2>0, <2>2, <2>3
<1>5. CadenceTyped'
  <2>1. GrantRec \subseteq GrantRec'
    BY <1>2 DEF GrantRec, n
  <2>2. added' \in Seq(GrantRec')
    BY <1>1, <2>1 DEF CadenceInv, CadenceTyped
  <2> QED
    BY <1>1, <1>2, <1>4, <2>2 DEF CadenceInv, CadenceTyped, TickRec
<1>6. Tracked' /\ UseKnown'
  BY <1>1 DEF CadenceInv, Tracked, UseKnown
<1>7. \A j \in 1..Len(frames') : frames'[j][2] = "tail" =>
        \/ j \in 1..Len(frames) /\ frames'[j] = frames[j] /\ frames[j][1] \in 1..Len(sent)
        \/ j = Len(frames) + 2 /\ frames'[j][1] = n
  <2> SUFFICES ASSUME NEW j \in 1..Len(frames'), frames'[j][2] = "tail"
               PROVE  \/ j \in 1..Len(frames) /\ frames'[j] = frames[j] /\ frames[j][1] \in 1..Len(sent)
                      \/ j = Len(frames) + 2 /\ frames'[j][1] = n
    OBVIOUS
  <2>1. j \in 1..Len(frames) \/ j = Len(frames) + 1 \/ j = Len(frames) + 2
    BY <1>4
  <2>2. j # Len(frames) + 1
    BY <1>4
  <2> QED
    BY <1>4, <2>1, <2>2 DEF Chunk
<1>8. \A i \in 1..Len(added) : added[i].frame \in 1..Len(sent)
  <2>1. \A i \in 1..Len(added) : added[i] \in GrantRec
    BY ElementOfSeq DEF CadenceInv, CadenceTyped
  <2> QED
    BY <2>1 DEF GrantRec
<1>9. FramesFollow'
  <2>1. ASSUME NEW i \in 1..Len(frames'), NEW j \in 1..Len(frames'), i < j,
               frames'[i][2] = "tail", frames'[j][2] = "tail"
        PROVE  frames'[i][1] < frames'[j][1]
    <3>1. i \in 1..Len(frames) /\ frames'[i] = frames[i] /\ frames[i][1] \in 1..Len(sent)
      BY <1>4, <1>7, <2>1
    <3>2. CASE j \in 1..Len(frames) /\ frames'[j] = frames[j]
      BY <2>1, <3>1, <3>2 DEF CadenceInv, FramesFollow
    <3>3. CASE frames'[j][1] = n
      BY <1>2, <3>1, <3>3 DEF n
    <3> QED
      BY <1>7, <2>1, <3>2, <3>3
  <2>2. ASSUME NEW i \in 1..Len(added), NEW j \in 1..Len(frames'), frames'[j][2] = "tail"
        PROVE  added[i].frame < frames'[j][1]
    <3>1. CASE j \in 1..Len(frames) /\ frames'[j] = frames[j]
      BY <2>2, <3>1 DEF CadenceInv, FramesFollow
    <3>2. CASE frames'[j][1] = n
      BY <1>2, <1>8, <3>2 DEF n
    <3> QED
      BY <1>7, <2>2, <3>1, <3>2
  <2> QED
    BY <1>1, <2>1, <2>2 DEF FramesFollow
<1>10. Cadence!GrantsInOrder'
  <2>1. \A i \in DOMAIN added : i \in 1..Len(added)
    BY LenProperties DEF CadenceInv, CadenceTyped
  <2>2. \A i \in DOMAIN added : sent'[added[i].frame] = sent[added[i].frame]
    BY <1>2, <1>8, <2>1
  <2> QED
    BY <1>1, <2>2 DEF CadenceInv, Cadence!CadenceSound, Cadence!GrantsInOrder
<1>11. Cadence!CadenceSound'
  BY <1>1, <1>10 DEF CadenceInv, Cadence!CadenceSound, Cadence!WarnedOnce, Cadence!NeverEarly, Cadence!NothingMissed
<1> QED
  BY <1>5, <1>6, <1>9, <1>11 DEF CadenceInv

\* What is left on the wire when a chunk was read.
LEMMA ChunkRead ==
  ASSUME CadenceInv, frames # << >>
  PROVE  /\ Tail(frames) \in Seq(Chunk) /\ Head(frames) \in Chunk /\ Head(frames) = frames[1]
         /\ Len(frames) \in Nat /\ 1 \in 1..Len(frames) /\ Len(Tail(frames)) = Len(frames) - 1
         /\ \A i \in 1..Len(Tail(frames)) : i + 1 \in 1..Len(frames) /\ Tail(frames)[i] = frames[i + 1]
BY HeadTailProperties, EmptySeq DEF CadenceInv, CadenceTyped

LEMMA OnDataInv ==
  ASSUME CadenceInv, Cadence!onData
  PROVE  CadenceInv'
<1>1. /\ frames # << >> /\ frames' = Tail(frames)
      /\ UNCHANGED <<day, used, yesterday, awUp, ticks, asked, sent>>
  BY DEF Cadence!onData, Cadence!aw
<1>2. UseKnown'
  BY <1>1 DEF CadenceInv, UseKnown
<1>3. \A i, j \in 1..Len(frames') :
        i < j /\ frames'[i][2] = "tail" /\ frames'[j][2] = "tail" => frames'[i][1] < frames'[j][1]
  <2> SUFFICES ASSUME NEW i \in 1..Len(frames'), NEW j \in 1..Len(frames'), i < j,
                      frames'[i][2] = "tail", frames'[j][2] = "tail"
               PROVE  frames'[i][1] < frames'[j][1]
    OBVIOUS
  <2>1. i + 1 \in 1..Len(frames) /\ j + 1 \in 1..Len(frames) /\ i + 1 < j + 1
        /\ frames'[i] = frames[i + 1] /\ frames'[j] = frames[j + 1]
    BY <1>1, ChunkRead
  <2> QED
    BY <2>1 DEF CadenceInv, FramesFollow
<1>4. CASE Head(frames)[2] = "head"
  <2>1. UNCHANGED <<total, tracker, added, told, repeated, early, seen>>
    BY <1>4 DEF Cadence!onData, Cadence!hist
  <2>2. CadenceTyped'
    BY <1>1, <2>1, ChunkRead DEF CadenceInv, CadenceTyped, TickRec, GrantRec, Chunk
  <2>3. FramesFollow'
    <3>1. \A j \in 1..Len(frames') : j + 1 \in 1..Len(frames) /\ frames'[j] = frames[j + 1]
      BY <1>1, ChunkRead
    <3>2. \A i \in 1..Len(added), j \in 1..Len(frames') : frames'[j][2] = "tail" => added[i].frame < frames'[j][1]
      BY <3>1 DEF CadenceInv, FramesFollow
    <3> QED
      BY <1>3, <2>1, <3>2 DEF FramesFollow
  <2>4. Tracked' /\ Cadence!CadenceSound'
    BY <1>1, <2>1 DEF CadenceInv, Tracked, Cadence!CadenceSound, Cadence!WarnedOnce, Cadence!NeverEarly,
                      Cadence!NothingMissed, Cadence!GrantsInOrder
  <2> QED
    BY <1>2, <2>2, <2>3, <2>4 DEF CadenceInv
<1>5. CASE Head(frames)[2] # "head"
  <2>1. PICK n : n = Head(frames)[1]
    OBVIOUS
  <2>2. n \in 1..Len(sent) /\ frames[1][1] = n /\ frames[1][2] = "tail" /\ sent[n] \in Nat
    <3>1. Head(frames) \in Chunk /\ Head(frames) = frames[1]
      BY <1>1, ChunkRead
    <3>2. n \in 1..Len(sent) /\ frames[1][2] = "tail"
      BY <1>5, <2>1, <3>1 DEF Chunk
    <3>3. sent[n] \in Grants
      BY <3>2, ElementOfSeq DEF CadenceInv, CadenceTyped
    <3> QED
      BY <2>1, <3>1, <3>2, <3>3, LiveAssumption
  <2> DEFINE g == [frame |-> n, from |-> total, to |-> total']
  <2>3. /\ total' = total + sent[n] /\ tracker' = Cadence!CadenceTracker(total')
        /\ told' = {} /\ seen' = Cadence!Infinity(total') /\ added' = Append(added, g)
        /\ UNCHANGED <<repeated, early>>
    BY <1>5, <2>1 DEF Cadence!onData, Cadence!applyGrant
  <2>4. total \in Nat /\ total' \in Nat /\ Cadence!Infinity(total') \in Nat /\ total' < Cadence!Infinity(total')
    <3>1. total \in Nat /\ total' \in Nat
      BY SMTT(30), <2>2, <2>3 DEF CadenceInv, CadenceTyped
    <3> QED
      BY <3>1, Boundaries
  <2>5. g \in GrantRec /\ g.frame = n /\ g.from = total /\ g.to = total'
    BY <2>2, <2>4 DEF GrantRec
  <2> HIDE DEF g
  <2>6. /\ added \in Seq(GrantRec) /\ added' \in Seq(GrantRec) /\ Len(added) \in Nat /\ Len(added') = Len(added) + 1
        /\ added'[Len(added) + 1] = g /\ \A i \in 1..Len(added) : added'[i] = added[i]
    BY <2>3, <2>5, AppendProperties DEF CadenceInv, CadenceTyped
  <2>7. \A i \in 1..Len(added') : i \in 1..Len(added) \/ i = Len(added) + 1
    BY <2>6
  <2>8. CadenceTyped'
    <3>1. tracker' \in [thresholds : {Cadence!warningThresholdsSeconds(total')},
                        lastAnnounced : Nat, finalAnnounced : BOOLEAN]
      BY <2>3, <2>4 DEF Cadence!CadenceTracker
    <3>2. frames' \in Seq(Chunk)
      BY <1>1, ChunkRead
    <3>3. Chunk' = Chunk /\ GrantRec' = GrantRec
      BY <1>1 DEF Chunk, GrantRec
    <3> QED
      BY <1>1, <2>3, <2>4, <2>6, <3>1, <3>2, <3>3 DEF CadenceInv, CadenceTyped, TickRec
  <2>9. Tracked'
    BY <2>3 DEF Tracked, Cadence!CadenceTracker, Cadence!Infinity
  <2>10. FramesFollow'
    <3>1. \A j \in 1..Len(frames') : j + 1 \in 1..Len(frames) /\ frames'[j] = frames[j + 1] /\ 1 < j + 1 /\ 1 \in 1..Len(frames)
      BY <1>1, ChunkRead
    <3>2. ASSUME NEW i \in 1..Len(added'), NEW j \in 1..Len(frames'), frames'[j][2] = "tail"
          PROVE  added'[i].frame < frames'[j][1]
      <4>1. CASE i \in 1..Len(added)
        BY SMTT(30), <2>6, <3>1, <3>2, <4>1 DEF CadenceInv, FramesFollow
      <4>2. CASE i = Len(added) + 1
        BY SMTT(30), <2>2, <2>5, <2>6, <3>1, <3>2, <4>2 DEF CadenceInv, FramesFollow
      <4> QED
        BY <2>7, <4>1, <4>2
    <3> QED
      BY <1>3, <3>2 DEF FramesFollow
  <2>11. Cadence!NothingMissed'
    <3> SUFFICES ASSUME NEW m \in tracker'.thresholds \cup {0}, seen' <= m PROVE FALSE
      BY DEF Cadence!NothingMissed
    <3>1. tracker'.thresholds = Cadence!warningThresholdsSeconds(total')
      BY <2>3 DEF Cadence!CadenceTracker
    <3>2. m \in Nat /\ (m = 0 \/ m < total')
      BY <2>4, <3>1, Boundaries
    <3> QED
      BY <2>3, <2>4, <3>2
  <2>12. Cadence!GrantsInOrder'
    <3>1. DOMAIN added = 1..Len(added) /\ DOMAIN added' = 1..Len(added')
      BY <2>6, LenProperties
    <3>2. added # << >> <=> Len(added) # 0
      BY <2>6, EmptySeq
    <3>3. ASSUME NEW i \in 1..Len(added'), NEW j \in 1..Len(added'), i < j
          PROVE  added'[i].frame < added'[j].frame
      <4>1. i \in 1..Len(added)
        BY <2>6, <2>7, <3>3
      <4>2. CASE j \in 1..Len(added)
        BY <2>6, <3>1, <3>3, <4>1, <4>2 DEF CadenceInv, Cadence!CadenceSound, Cadence!GrantsInOrder
      <4>3. CASE j = Len(added) + 1
        <5>1. 1 \in 1..Len(frames)
          BY <1>1, ChunkRead
        <5>2. added[i].frame < n
          BY <2>2, <4>1, <5>1 DEF CadenceInv, FramesFollow
        <5> QED
          BY <2>5, <2>6, <4>1, <4>3, <5>2
      <4> QED
        BY <2>7, <4>2, <4>3
    <3>4. ASSUME NEW i \in 1..Len(added')
          PROVE  /\ added'[i].to = added'[i].from + sent[added'[i].frame]
                 /\ added'[i].from = IF i = 1 THEN Total ELSE added'[i - 1].to
      <4>1. CASE i \in 1..Len(added)
        <5>1. i # 1 => i - 1 \in 1..Len(added)
          BY <2>6, <4>1
        <5> QED
          BY <2>6, <3>1, <4>1, <5>1 DEF CadenceInv, Cadence!CadenceSound, Cadence!GrantsInOrder
      <4>2. CASE i = Len(added) + 1
        <5>1. total = IF added = << >> THEN Total ELSE added[Len(added)].to
          BY DEF CadenceInv, Cadence!CadenceSound, Cadence!GrantsInOrder
        <5>2. CASE added = << >>
          BY <2>3, <2>5, <2>6, <3>2, <4>2, <5>1, <5>2
        <5>3. CASE added # << >>
          <6>1. Len(added) \in 1..Len(added) /\ i - 1 = Len(added) /\ i # 1
            BY <2>6, <3>2, <4>2, <5>3
          <6> QED
            BY <2>3, <2>5, <2>6, <4>2, <5>1, <5>3, <6>1
        <5> QED
          BY <5>2, <5>3
      <4> QED
        BY <2>7, <4>1, <4>2
    <3>5. total' = added'[Len(added')].to /\ added' # << >>
      BY <2>5, <2>6, EmptySeq
    <3> QED
      BY <1>1, <3>1, <3>3, <3>4, <3>5 DEF Cadence!GrantsInOrder
  <2> QED
    BY <1>2, <2>3, <2>8, <2>9, <2>10, <2>11, <2>12
       DEF CadenceInv, Cadence!CadenceSound, Cadence!WarnedOnce, Cadence!NeverEarly
<1> QED
  BY <1>4, <1>5

LEMMA CadenceNextInv ==
  ASSUME CadenceInv, [Cadence!Next]_cadenceVars
  PROVE  CadenceInv'
<1>1. CASE UNCHANGED cadenceVars
  BY <1>1, TicksInv DEF cadenceVars, CadenceInv, CadenceTyped, UseKnown
<1>2. CASE Cadence!Next
  BY <1>2, AsksInv, AnswerInv, AnnounceInv, CutInv, DispatchInv, OnDataInv DEF Cadence!Next
<1> QED
  BY <1>1, <1>2

(* ---- side by side ---- *)

LEMMA LiveInit == ASSUME Init PROVE LiveInv
<1>1. /\ focus = "agent" => Agent!Init
      /\ focus = "cadence" => Cadence!Init
      /\ focus = "stream" => Stream!Init
      /\ focus = "adguard" => AdGuard!Init
  BY DEF Init
<1> QED
  BY <1>1, AgentInitInv, CadenceInitInv, StreamInitInv, SupervisorInitInv DEF LiveInv

\* A step of a behaviour about one component is a step of that component.
LEMMA OwnSteps ==
  ASSUME [Next]_vars
  PROVE  /\ focus' = focus
         /\ focus = "agent" => [Agent!Next]_agentVars
         /\ focus = "cadence" => [Cadence!Next]_cadenceVars
         /\ focus = "stream" => [Stream!Next]_streamVars
         /\ focus = "adguard" => [AdGuard!Next]_adguardVars
<1>1. CASE UNCHANGED vars
  BY <1>1 DEF vars, agentVars, cadenceVars, streamVars, adguardVars
<1>2. CASE AgentNext
  BY <1>2 DEF AgentNext, InAgent
<1>3. CASE CadenceNext
  BY <1>3 DEF CadenceNext, InCadence
<1>4. CASE StreamNext
  BY <1>4 DEF StreamNext, InStream
<1>5. CASE AdGuardNext
  BY <1>5 DEF AdGuardNext, InAdGuard
<1>6. CASE HealthNext
  BY <1>6 DEF HealthNext, InHealth
<1> QED
  BY <1>1, <1>2, <1>3, <1>4, <1>5, <1>6 DEF Next

LEMMA LiveStep == ASSUME LiveInv, [Next]_vars PROVE LiveInv'
<1>1. focus' = focus
  BY OwnSteps
<1>2. CASE focus = "agent"
  BY <1>1, <1>2, OwnSteps, AgentNextInv DEF LiveInv
<1>3. CASE focus = "cadence"
  BY <1>1, <1>3, OwnSteps, CadenceNextInv DEF LiveInv
<1>4. CASE focus = "stream"
  BY <1>1, <1>4, OwnSteps, StreamNextInv DEF LiveInv
<1>5. CASE focus = "adguard"
  BY <1>1, <1>5, OwnSteps, SupervisorNextInv DEF LiveInv
<1>6. CASE focus \notin {"agent", "cadence", "stream", "adguard"}
  BY <1>1, <1>6 DEF LiveInv
<1> QED
  BY <1>2, <1>3, <1>4, <1>5, <1>6

LEMMA LiveInductive == Spec => []LiveInv
BY LiveInit, LiveStep, PTL DEF Spec

\* A refused socket is never in the hub (settle in stream.ts), and an agent sees each
\* event at most once and in the order EventHub stamped it, for any connections,
\* reconnects and half-open sockets.
THEOREM StreamIsSound == Spec => []StreamSound
<1>1. LiveInv => StreamSound
  BY StreamInvSound DEF LiveInv, StreamSound
<1> QED
  BY <1>1, LiveInductive, PTL

\* One AdGuard Home at a time, none behind a stop() that returned, at most the cap's
\* restarts without a stable run (supervisor.ts, backoff.ts), and the binary asked for,
\* written whole (acquire.ts), however exits, downloads, stops and crashes fall.
THEOREM SupervisorIsSound == Spec => []SupervisorSound
<1>1. LiveInv => SupervisorSound
  BY SupervisorInvSound DEF LiveInv, SupervisorSound
<1> QED
  BY <1>1, LiveInductive, PTL

\* No boundary of the cadence is announced twice, early or passed in silence, and a
\* grant is applied once and in order (cadence.ts, agent.ts, socket-client.ts), however
\* ticks, answers, outages, midnights and reconnects fall; and no SIGTERM or SIGKILL
\* follows a grant (force-close.ts), but from a run it found at an await or overlapping
\* another.
THEOREM AgentIsSound == Spec => []AgentSound
<1>1. LiveInv => AgentSound
  BY AgentInvSound DEF LiveInv, CadenceInv, AgentSound
<1> QED
  BY <1>1, LiveInductive, PTL

\* A compatible connect leaves update_required clear (stream.ts), though what it does
\* depends on the flag as it was read when the socket was authenticated.
THEOREM StaleFlagCleared == Spec => ConnectClearsFlag
<1>1. LiveInv /\ [Next]_vars => [focus = "stream" => Stream!ConnectStep]_vars
  <2> SUFFICES ASSUME LiveInv, [Next]_vars, focus = "stream" PROVE Stream!ConnectStep
    OBVIOUS
  <2> QED
    BY OwnSteps, ConnectStepHolds DEF LiveInv
<1> QED
  BY <1>1, LiveInductive, PTL DEF Spec, ConnectClearsFlag
=============================================================================

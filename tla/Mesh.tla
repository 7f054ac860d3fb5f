--------------------------------- MODULE Mesh ---------------------------------
(***************************************************************************)
(* Call membership: the Room event loop (src/src/room.rs) of every         *)
(* participant, the connections it opens with net::connect_to_peer         *)
(* (src/src/net.rs) and the control streams on them (src/src/control.rs).  *)
(*                                                                         *)
(* A participant is its public key, a number: should_initiate compares     *)
(* keys.  One control message matters for membership, PeerList; the Hello  *)
(* that opens a control stream is written right after the connection is    *)
(* made and without waiting for anyone, so it is part of the connection.   *)
(***************************************************************************)
EXTENDS Integers, Sequences, FiniteSets

CONSTANTS
  Peers,     \* participants, ordered as their public keys
  None,      \* no peer, no connection
  Invites,   \* <<joiner, inviter>>: whose ticket a participant may be given
  MaxGen,    \* bound: connections between one pair in use at the same time
  QueueCap,  \* capacity of the room's event channel (64 in the code)
  MaxLag,    \* bound: messages a peer has not handled when a list timer fires
  MaxDrops,  \* bound: connections the network loses
  MaxQuits,  \* bound: participants that quit or crash, and
  Quitters   \* bound: those that may

ASSUME PeersAssumption ==
  /\ Peers \subseteq Nat /\ IsFiniteSet(Peers)
  /\ None \notin Peers /\ Invites \subseteq Peers \X Peers
ASSUME BoundsAssumption ==
  /\ MaxGen \in Nat /\ QueueCap \in Nat /\ MaxLag \in Nat
  /\ MaxDrops \in Nat /\ MaxQuits \in Nat

\* A QUIC connection: who dialled, who accepted, and which of the pair's it is.
Conns == {c \in [from : Peers, to : Peers, gen : 1..MaxGen] : c.from # c.to}

ASSUME NoneAssumption == None \notin Conns

VARIABLES
  phase,    \* "off", "joining" (ticket handshake), "meshing" (the first list),
            \* "running" (event loop, accept loop spawned) or "gone"
  born,     \* history: when a participant started, 0 before, and
  starts,   \* how many have started
  dial,     \* the handshake the room awaits: peer and, once there, connection
  work,     \* peers of the list being handled that are still to be dialled
  peers,    \* Room.peers: the connection of the session with each peer
  events,   \* Room.event_rx
  monitor,  \* connections whose monitor task is alive, per peer
  reader,   \* connections whose control reader task is alive, per peer
  up,       \* connections that are open
  wire,     \* PeerLists under way on a connection, by the peer they go to
  drops, quits

room   == <<phase, born, starts, dial, work, peers>>
tasks  == <<monitor, reader>>
faults == <<drops, quits>>
vars   == <<room, events, tasks, up, wire, faults>>

NoDial == [to |-> None, conn |-> None]

Incoming(c)     == [kind |-> "IncomingConnection", conn |-> c]
Disconnected(q) == [kind |-> "PeerDisconnected", peer |-> q]
ListMsg(L)      == [kind |-> "PeerList", list |-> L]

RoomEvent == {Incoming(c) : c \in Conns} \cup {Disconnected(q) : q \in Peers}
             \cup {ListMsg(L) : L \in SUBSET Peers}

TypeOK ==
  /\ phase \in [Peers -> {"off", "joining", "meshing", "running", "gone"}]
  /\ born \in [Peers -> Nat] /\ starts \in Nat
  /\ dial \in [Peers -> {NoDial} \cup [to : Peers, conn : Conns \cup {None}]]
  /\ work \in [Peers -> SUBSET Peers]
  /\ peers \in [Peers -> [Peers -> Conns \cup {None}]]
  /\ events \in [Peers -> Seq(RoomEvent)]
  /\ \A p \in Peers : Len(events[p]) <= QueueCap
  /\ monitor \in [Peers -> SUBSET Conns]
  /\ reader \in [Peers -> SUBSET Conns]
  /\ up \in SUBSET Conns
  /\ wire \in [Conns -> [Peers -> Seq(SUBSET Peers)]]
  /\ drops \in Nat
  /\ quits \in Nat

Init ==
  /\ phase = [p \in Peers |-> "off"]
  /\ born = [p \in Peers |-> 0] /\ starts = 0
  /\ dial = [p \in Peers |-> NoDial]
  /\ work = [p \in Peers |-> {}]
  /\ peers = [p \in Peers |-> [q \in Peers |-> None]]
  /\ events = [p \in Peers |-> <<>>]
  /\ monitor = [p \in Peers |-> {}]
  /\ reader = [p \in Peers |-> {}]
  /\ up = {}
  /\ wire = [c \in Conns |-> [p \in Peers |-> <<>>]]
  /\ drops = 0
  /\ quits = 0

-------------------------------------------------------------------------------
(* Helpers of the handlers. *)

Between(p, q) == {c \in Conns : {c.from, c.to} = {p, q}}

Other(p, c) == IF p = c.from THEN c.to ELSE c.from

\* Mutant: no tie-breaker, both sides dial.
ShouldInitiate_Always(p, q) == p # q

\* should_initiate: the smaller public key dials, the larger one waits.
ShouldInitiate(p, q) == p < q

\* build_peer_list: ourselves and every peer of the map s.
PeerList(p, s) == {p} \cup {q \in Peers : s[q] # None}

\* handle_received_peer_list: the peers of the list that are to be dialled.
Targets(p, L, s) ==
  {q \in L : q # p /\ s[q] = None /\ ShouldInitiate(p, q)}

\* What is written to c for r can arrive: the connection is open and r still has
\* the receive half of its control stream.
Receives(r, c) == c \in up /\ (c \in reader[r] \/ dial[r].conn = c)

\* broadcast_peer_list: write our list to the control stream of every session.
Broadcast(p, s, w) ==
  [c \in Conns |->
     [r \in Peers |->
        IF r # p /\ s[r] = c /\ Receives(r, c)
          THEN Append(w[c][r], PeerList(p, s))
          ELSE w[c][r]]]

\* The event loop is at its select!, not inside a handler.
Idle(p) == phase[p] = "running" /\ dial[p] = NoDial /\ work[p] = {}

\* Mutant: off by one at the channel's capacity.
HasRoom_OffByOne(p) == Len(events[p]) <= QueueCap

\* The event channel takes another event; otherwise the sender waits.
HasRoom(p) == Len(events[p]) < QueueCap

Enqueue(p, e) == events' = [events EXCEPT ![p] = Append(@, e)]

\* The event waits in p's channel.
Queued(p, e) == \E i \in 1..Len(events[p]) : events[p][i] = e

\* No task, queue or map refers to the connection any more.
Unused(c) ==
  /\ c \notin up
  /\ \A p \in Peers :
       /\ c \notin monitor[p] /\ c \notin reader[p]
       /\ dial[p].conn # c
       /\ peers[p][Other(p, c)] # c
       /\ ~Queued(p, Incoming(c))

\* The connection that net::connect_to_peer(q) at p yields, if the bound MaxGen
\* leaves one.
Fresh(p, q) ==
  LET F == {c \in Between(p, q) : c.from = p /\ Unused(c)}
  IN  {c \in F : \A d \in F : c.gen <= d.gen}

\* Mutant: the watchers are spawned only if the connection is still open.
AddSession_OpenOnly(p, q, c) ==
  /\ peers' = [peers EXCEPT ![p][q] = c]
  /\ monitor' = [monitor EXCEPT ![p] = @ \cup ({c} \cap up)]
  /\ reader' = [reader EXCEPT ![p] = @ \cup ({c} \cap up)]

\* add_peer_with_media and spawn_control_reader: the entry and its two watchers.
AddSession(p, q, c) ==
  /\ peers' = [peers EXCEPT ![p][q] = c]
  /\ monitor' = [monitor EXCEPT ![p] = @ \cup {c}]
  /\ reader' = [reader EXCEPT ![p] = @ \cup {c}]

\* p's process has ended: everything it held is gone and its connections break.
Stop(p) ==
  /\ phase' = [phase EXCEPT ![p] = "gone"]
  /\ dial' = [dial EXCEPT ![p] = NoDial]
  /\ work' = [work EXCEPT ![p] = {}]
  /\ peers' = [peers EXCEPT ![p] = [q \in Peers |-> None]]
  /\ events' = [events EXCEPT ![p] = <<>>]
  /\ monitor' = [monitor EXCEPT ![p] = {}]
  /\ reader' = [reader EXCEPT ![p] = {}]
  /\ up' = {c \in up : p \notin {c.from, c.to}}
  /\ wire' = [c \in Conns |-> [wire[c] EXCEPT ![p] = <<>>]]
  /\ UNCHANGED <<born, starts>>

-------------------------------------------------------------------------------
(* Starting, joining by a ticket, leaving. *)

\* Room::run without a ticket.  The first participant of a call starts this way.
StartCall(p) ==
  /\ starts = 0 /\ phase[p] = "off"
  /\ phase' = [phase EXCEPT ![p] = "running"]
  /\ born' = [born EXCEPT ![p] = 1] /\ starts' = 1
  /\ UNCHANGED <<dial, work, peers, events, tasks, up, wire, faults>>

\* Room::run with the ticket of t, who showed it before it entered Room::run.
\* Keys are fresh on every start, so nobody knows p yet.
Join(p, t) ==
  /\ <<p, t>> \in Invites
  /\ phase[p] = "off" /\ phase[t] # "off"
  /\ phase' = [phase EXCEPT ![p] = "joining"]
  /\ born' = [born EXCEPT ![p] = starts + 1] /\ starts' = starts + 1
  /\ dial' = [dial EXCEPT ![p] = [to |-> t, conn |-> None]]
  /\ UNCHANGED <<work, peers, events, tasks, up, wire, faults>>

\* The user quits or the process dies, whatever the room is doing.
Quit(p) ==
  /\ phase[p] \in {"joining", "meshing", "running"}
  /\ p \in Quitters /\ quits < MaxQuits
  /\ quits' = quits + 1
  /\ Stop(p)
  /\ UNCHANGED drops

-------------------------------------------------------------------------------
(* The dialling side: net::connect_to_peer, open_control_and_add_peer. *)

\* The next peer of the list that is not known yet and is ours to dial.
Dial(p, q) ==
  /\ phase[p] \in {"meshing", "running"} /\ dial[p] = NoDial
  /\ q \in work[p]
  /\ work' = [work EXCEPT ![p] = @ \ {q}]
  /\ dial' = [dial EXCEPT ![p] = [to |-> q, conn |-> None]]
  /\ UNCHANGED <<phase, born, starts, peers, events, tasks, up, wire, faults>>

\* The connection is made: q's accept loop, which runs once q's own joining is
\* over, hands it to q's room, and p writes its Hello and awaits the PeerList.
Connect(p) ==
  LET q == dial[p].to IN
  /\ q # None /\ dial[p].conn = None
  /\ phase[q] = "running" /\ HasRoom(q)
  /\ \E c \in Fresh(p, q) :
       /\ dial' = [dial EXCEPT ![p].conn = c]
       /\ up' = up \cup {c}
       /\ Enqueue(q, Incoming(c))
  /\ UNCHANGED <<phase, born, starts, work, peers, tasks, wire, faults>>

\* A room that was joining returns the error from Room::run and the program
\* ends; one that was dialling a peer of a list logs it and goes on.
GiveUp(p) ==
  IF phase[p] = "joining"
    THEN Stop(p)
    ELSE /\ dial' = [dial EXCEPT ![p] = NoDial]
         /\ wire' = [c \in Conns |-> IF c = dial[p].conn
                                       THEN [wire[c] EXCEPT ![p] = <<>>]
                                       ELSE wire[c]]
         /\ UNCHANGED <<phase, born, starts, work, peers, events, tasks, up>>

\* Nobody accepts at the address (the peer is gone, or its accept loop is not
\* spawned before the dial times out), or the network loses the attempt.
ConnectFails(p) ==
  LET q == dial[p].to IN
  /\ q # None /\ dial[p].conn = None
  /\ \/ phase[q] # "running" /\ UNCHANGED drops
     \/ phase[q] = "running" /\ drops < MaxDrops /\ drops' = drops + 1
  /\ GiveUp(p)
  /\ UNCHANGED quits

\* The PeerList answers our Hello: the session is added.  A joiner goes on with
\* the list it was sent; otherwise that list is ignored and ours is broadcast.
HandshakeDone(p) ==
  LET q == dial[p].to
      c == dial[p].conn
      s == [peers[p] EXCEPT ![q] = c]
      w == [wire EXCEPT ![c][p] = Tail(@)]
  IN
  /\ c # None /\ wire[c][p] # <<>>
  /\ AddSession(p, q, c)
  /\ dial' = [dial EXCEPT ![p] = NoDial]
  /\ IF phase[p] = "joining"
       THEN /\ phase' = [phase EXCEPT ![p] = "meshing"]
            /\ work' = [work EXCEPT ![p] = Targets(p, Head(wire[c][p]), s)]
            /\ wire' = w
       ELSE /\ wire' = Broadcast(p, s, w)
            /\ UNCHANGED <<phase, work>>
  /\ UNCHANGED <<born, starts, events, up, faults>>

\* The connection ends before the PeerList arrives.
HandshakeFails(p) ==
  /\ dial[p].conn # None /\ dial[p].conn \notin up
  /\ GiveUp(p)
  /\ UNCHANGED faults

\* join_via_peer is done: the accept loop is spawned, the event loop starts.
FinishJoin(p) ==
  /\ phase[p] = "meshing" /\ dial[p] = NoDial /\ work[p] = {}
  /\ phase' = [phase EXCEPT ![p] = "running"]
  /\ UNCHANGED <<born, starts, dial, work, peers, events, tasks, up, wire, faults>>

-------------------------------------------------------------------------------
(* The event loop of Room::run. *)

\* The loop takes the event at the head of its channel, of the given kind.
Take(p, kind) ==
  /\ Idle(p)
  /\ events[p] # <<>> /\ Head(events[p]).kind = kind
  /\ events' = [events EXCEPT ![p] = Tail(@)]

\* handle_incoming_connection of a peer we have a session with: the connection
\* is dropped, which closes it.
RefuseDuplicate(p) ==
  LET c == Head(events[p]).conn IN
  /\ Take(p, "IncomingConnection")
  /\ peers[p][c.from] # None
  /\ up' = up \ {c}
  /\ UNCHANGED <<room, tasks, wire, faults>>

\* Mutant: the list is broadcast, and the newcomer's Hello is left unanswered.
AcceptPeer_NoReply(p) ==
  LET c == Head(events[p]).conn
      s == [peers[p] EXCEPT ![c.from] = c]
  IN
  /\ Take(p, "IncomingConnection")
  /\ peers[p][c.from] = None
  /\ AddSession(p, c.from, c)
  /\ wire' = [Broadcast(p, s, wire) EXCEPT ![c] = wire[c]]
  /\ UNCHANGED <<phase, born, starts, dial, work, up, faults>>

\* handle_incoming_connection: the Hello is read, our list without the newcomer
\* is the reply, the session is added and the new list is broadcast.
AcceptPeer(p) ==
  LET c == Head(events[p]).conn
      q == c.from
      s == [peers[p] EXCEPT ![q] = c]
      reply == IF Receives(q, c) THEN Append(wire[c][q], PeerList(p, peers[p]))
                                   ELSE wire[c][q]
  IN
  /\ Take(p, "IncomingConnection")
  /\ peers[p][q] = None
  /\ AddSession(p, q, c)
  /\ wire' = Broadcast(p, s, [wire EXCEPT ![c][q] = reply])
  /\ UNCHANGED <<phase, born, starts, dial, work, up, faults>>

\* handle_incoming_connection returns an error: the connection is lost already.
IncomingLost(p) ==
  LET c == Head(events[p]).conn IN
  /\ Take(p, "IncomingConnection")
  /\ peers[p][c.from] = None
  /\ c \notin up
  /\ UNCHANGED <<room, tasks, up, wire, faults>>

\* handle_peer_disconnected: the entry goes (its tasks see session_cancel), and
\* the list is broadcast whether or not there was an entry.
HandlePeerDisconnected(p) ==
  LET q == Head(events[p]).peer
      s == [peers[p] EXCEPT ![q] = None]
  IN
  /\ Take(p, "PeerDisconnected")
  /\ peers' = [peers EXCEPT ![p] = s]
  /\ wire' = Broadcast(p, s, wire)
  /\ UNCHANGED <<phase, born, starts, dial, work, tasks, up, faults>>

\* handle_received_peer_list in the event loop.
HandlePeerList(p) ==
  /\ Take(p, "PeerList")
  /\ work' = [work EXCEPT ![p] = Targets(p, Head(events[p]).list, peers[p])]
  /\ UNCHANGED <<phase, born, starts, dial, peers, tasks, up, wire, faults>>

\* Mutant: no periodic broadcast.
Tick_Silent(p) == Idle(p) /\ UNCHANGED vars

\* The PEER_LIST_INTERVAL tick.  Bound: five seconds pass between two ticks, in
\* which a peer of p is left with at most MaxLag messages it has not handled.
Tick(p) ==
  /\ Idle(p)
  /\ \A q \in Peers :
       peers[p][q] # None => Len(wire[peers[p][q]][q]) + Len(events[q]) <= MaxLag
  /\ wire' = Broadcast(p, peers[p], wire)
  /\ UNCHANGED <<room, events, tasks, up, faults>>

-------------------------------------------------------------------------------
(* The tasks of a session: control reader and connection monitor. *)

\* The session of c was removed from the map: session_cancel is cancelled.
Cancelled(p, c) == peers[p][Other(p, c)] # c

\* The send half of c's control stream at q was dropped, which finishes it.
StreamFinished(q, c) == Cancelled(q, c) /\ dial[q].conn # c

\* Mutant: a clone of the connection leaks with the tasks.
AfterTask_Leak(p, c, others) == up

\* What is open once a task of p on c has ended, others being p's tasks of the
\* other kind: the last task of a cancelled session drops the last handle of the
\* connection, which closes it.
AfterTask(p, c, others) ==
  IF Cancelled(p, c) /\ c \notin others[p] THEN up \ {c} ELSE up

\* The reader forwards the next PeerList to the event channel.
Deliver(p, c) ==
  /\ c \in reader[p] /\ wire[c][p] # <<>> /\ HasRoom(p)
  /\ Enqueue(p, ListMsg(Head(wire[c][p])))
  /\ wire' = [wire EXCEPT ![c][p] = Tail(@)]
  /\ UNCHANGED <<room, tasks, up, faults>>

\* Reading fails, because the connection is lost (with whatever was under way)
\* or because the stream is finished and read to its end.
ReaderFails(p, c) ==
  /\ c \in reader[p] /\ HasRoom(p)
  /\ \/ c \notin up
     \/ StreamFinished(Other(p, c), c) /\ wire[c][p] = <<>>
  /\ Enqueue(p, Disconnected(Other(p, c)))
  /\ reader' = [reader EXCEPT ![p] = @ \ {c}]
  /\ wire' = [wire EXCEPT ![c][p] = <<>>]
  /\ up' = AfterTask(p, c, monitor)
  /\ UNCHANGED <<room, monitor, faults>>

\* Mutant: try_send instead of send().await on the event channel.
MonitorFires_TrySend(p, c) ==
  /\ c \in monitor[p] /\ c \notin up
  /\ IF HasRoom(p) THEN Enqueue(p, Disconnected(Other(p, c)))
                   ELSE UNCHANGED events
  /\ monitor' = [monitor EXCEPT ![p] = @ \ {c}]
  /\ UNCHANGED <<room, reader, up, wire, faults>>

\* Connection::closed resolves.  The select! of the task may take this branch
\* even when session_cancel is cancelled too.
MonitorFires(p, c) ==
  /\ c \in monitor[p] /\ c \notin up /\ HasRoom(p)
  /\ Enqueue(p, Disconnected(Other(p, c)))
  /\ monitor' = [monitor EXCEPT ![p] = @ \ {c}]
  /\ UNCHANGED <<room, reader, up, wire, faults>>

\* A task of a cancelled session ends.
ReaderQuits(p, c) ==
  /\ c \in reader[p] /\ Cancelled(p, c)
  /\ reader' = [reader EXCEPT ![p] = @ \ {c}]
  /\ wire' = [wire EXCEPT ![c][p] = <<>>]
  /\ up' = AfterTask(p, c, monitor)
  /\ UNCHANGED <<room, events, monitor, faults>>

MonitorQuits(p, c) ==
  /\ c \in monitor[p] /\ Cancelled(p, c)
  /\ monitor' = [monitor EXCEPT ![p] = @ \ {c}]
  /\ up' = AfterTask(p, c, reader)
  /\ UNCHANGED <<room, events, reader, wire, faults>>

\* The network loses a connection; each end notices by itself, later.
Drop(c) ==
  /\ c \in up /\ drops < MaxDrops
  /\ up' = up \ {c}
  /\ drops' = drops + 1
  /\ UNCHANGED <<room, events, tasks, wire, quits>>

-------------------------------------------------------------------------------
(* The specification. *)

\* What p's event loop does by itself: every handler, every awaited handshake.
RoomStep(p) ==
  \/ \E q \in Peers : Dial(p, q)
  \/ Connect(p) \/ ConnectFails(p) \/ HandshakeDone(p) \/ HandshakeFails(p)
  \/ FinishJoin(p)
  \/ RefuseDuplicate(p) \/ AcceptPeer(p) \/ IncomingLost(p)
  \/ HandlePeerDisconnected(p) \/ HandlePeerList(p)

ReaderStep(p, c)  == Deliver(p, c) \/ ReaderFails(p, c) \/ ReaderQuits(p, c)
MonitorStep(p, c) == MonitorFires(p, c) \/ MonitorQuits(p, c)

\* What the tasks of p's sessions with q do.
TaskStep(p, q) ==
  \E c \in Between(p, q) : ReaderStep(p, c) \/ MonitorStep(p, c)

Next ==
  \/ \E p \in Peers :
       \/ StartCall(p) \/ Quit(p) \/ Tick(p) \/ RoomStep(p)
       \/ \E t \in Peers : Join(p, t)
       \/ \E q \in Peers : TaskStep(p, q)
  \/ \E c \in Conns : Drop(c)

\* The runtime polls every task that is ready; nothing obliges a user to join or
\* to quit or the network to lose a connection.  The interval's tick stays due
\* until the loop's select!, which picks among the ready branches at random,
\* takes it: it is enough that the loop keeps coming back to its select!.
Fairness ==
  /\ \A p \in Peers : WF_vars(RoomStep(p)) /\ WF_vars(Tick(p))
  /\ \A p, q \in Peers : p # q => WF_vars(TaskStep(p, q))

Spec     == Init /\ [][Next]_vars
FairSpec == Spec /\ Fairness

-------------------------------------------------------------------------------
(* Properties. *)

\* p's room is blocked on q: its dial waits for q's accept loop, or it awaits the
\* PeerList that only q's event loop can send.
Waits(p, q) ==
  /\ dial[p].to = q
  /\ \/ dial[p].conn = None
     \/ dial[p].conn \in up /\ wire[dial[p].conn][p] = <<>>

\* No set of rooms wait on one another: the tie-breaker of should_initiate, and
\* that nobody knows a joiner before its ticket is answered, keep the blocking
\* handshakes of open_control_and_add_peer free of a distributed deadlock.
NoWaitCycle ==
  \A S \in (SUBSET Peers) \ {{}} : \E p \in S : \A q \in S : ~Waits(p, q)

\* An open connection is never held by one end only: when p has a session on it,
\* the other end has it too, or still awaits our PeerList on it, or has given the
\* session up and is closing the connection.
NoHalfOpen ==
  \A p, q \in Peers : \A c \in up :
    peers[p][q] = c => \/ peers[q][p] = c
                       \/ dial[q].conn = c
                       \/ c \in monitor[q] \cup reader[q]

\* A session whose connection is lost is always going to be noticed: its monitor
\* is alive or the event that removes the entry is queued (never a lost wake-up).
NoZombie ==
  \A p, q \in Peers : \A c \in Conns :
    peers[p][q] = c =>
      \/ c \in monitor[p]
      \/ Queued(p, Disconnected(q))

\* "Peer disconnections are detected locally via QUIC connection close": an
\* entry of Room.peers goes only when its connection is closed, when the other
\* end has given the session up, or with its room.  The code does not keep this:
\* reader and monitor both report the end of a session, by peer and not by
\* connection, and the second report may find the session that replaced it.
RemovedOnlyWhenClosed ==
  [][\A p, q \in Peers : \A c \in Conns :
       peers[p][q] = c /\ peers'[p][q] # c =>
         c \notin up \/ StreamFinished(q, c) \/ phase'[p] = "gone"]_vars

\* Two rooms in the call see each other over one open connection.
Meshed(p, q) ==
  \E c \in up : peers[p][q] = c /\ peers[q][p] = c

FullMesh ==
  \A p, q \in Peers :
    p # q /\ phase[p] = "running" /\ phase[q] = "running" => Meshed(p, q)

\* Membership converges: from some time on all the rooms in the call are meshed
\* pairwise, whoever invited whom and whatever the order of keys and events.
Converges == <>[]FullMesh

\* ... which the code keeps up to the first fault: until somebody quits or a connection is
\* lost, they are on their way to it.
ConvergesUndisturbed == <>[](FullMesh \/ quits + drops > 0)

\* Every blocking handshake ends, so every room returns to its event loop.
HandshakesEnd == \A p \in Peers : []<>(dial[p] = NoDial)

\* A participant that left is forgotten by all the others, for good, although
\* lists that still name it go round and are acted upon.
DepartedForgotten ==
  <>[](\A p, q \in Peers : phase[q] = "gone" => peers[p][q] = None)

-------------------------------------------------------------------------------
(* What the invariants above rest on (MeshProofs). *)

\* An entry of p for q is a connection between the two.
EntryEnds ==
  \A p, q \in Peers : peers[p][q] # None => peers[p][q] \in Between(p, q)

\* A handshake is on a connection that p dialled to the peer it wants.
DialEnds ==
  \A p \in Peers : dial[p].conn # None =>
    dial[p].conn.from = p /\ dial[p].conn.to = dial[p].to

\* An accepted connection waits in the channel of the one it was dialled to.
QueuedEnds ==
  \A p \in Peers : \A c \in Conns : Queued(p, Incoming(c)) => c.to = p

\* A list under way has a reader: the control reader or the handshake.
WireRead ==
  \A c \in Conns : \A p \in Peers :
    wire[c][p] # <<>> => c \in reader[p] \/ dial[p].conn = c

\* ... and is in it once.
QueuedOnce ==
  \A p \in Peers : \A c \in Conns : \A i, j \in 1..Len(events[p]) :
    events[p][i] = Incoming(c) /\ events[p][j] = Incoming(c) => i = j

\* It belongs to no session yet, nothing was written to its dialler, and while it
\* is open, or its dialler is joining, the dialler awaits the PeerList on it.
QueuedConn ==
  \A p \in Peers : \A c \in Conns :
    Queued(p, Incoming(c)) =>
      /\ wire[c][c.from] = <<>>
      /\ \A r \in Peers : c \notin reader[r] /\ \A q \in Peers : peers[r][q] # c
      /\ c \in up \/ phase[c.from] \in {"off", "joining"} => dial[c.from].conn = c

\* A session on an open connection has its monitor.
Monitored ==
  \A p, q \in Peers : \A c \in up : peers[p][q] = c => c \in monitor[p]

\* Who has written to an open connection has a task on it.
Written ==
  \A c \in up : \A p \in {c.from, c.to} :
    wire[c][p] # <<>> => c \in monitor[Other(p, c)] \cup reader[Other(p, c)]

\* Who has been connected to has an accept loop, so it is past its own joining.
AcceptorRuns ==
  \A p \in Peers : dial[p].conn # None => phase[dial[p].to] \notin {"off", "joining"}

\* Before its ticket handshake is over, a participant runs no control reader.
JoiningQuiet ==
  \A p \in Peers :
    /\ phase[p] \in {"off", "joining"} => reader[p] = {}
    /\ phase[p] = "off" => dial[p] = NoDial

\* A ticket is of someone who started earlier.
TicketOrder ==
  \A p \in Peers :
    /\ born[p] <= starts
    /\ phase[p] = "joining" => /\ dial[p].to # None
                               /\ phase[dial[p].to] # "off"
                               /\ born[dial[p].to] < born[p]

\* All other dialling is from the smaller key to the larger.
KeyOrder ==
  \A p \in Peers :
    /\ \A q \in work[p] : p < q
    /\ phase[p] # "joining" /\ dial[p].to # None => p < dial[p].to

\* The list is under way to r.
OnWire(c, r, L) == \E i \in 1..Len(wire[c][r]) : wire[c][r][i] = L

\* Nobody else has p in its map, in a list, or as the target of a mesh dial.
Secret(p) ==
  /\ \A r \in Peers \ {p} :
       /\ peers[r][p] = None /\ p \notin work[r]
       /\ dial[r].to = p => phase[r] = "joining"
       /\ \A L \in SUBSET Peers : Queued(r, ListMsg(L)) => p \notin L
  /\ \A c \in Conns : \A r \in Peers : \A L \in SUBSET Peers :
       OnWire(c, r, L) => p \notin L

\* The ticket handshake of p is under way and not answered.
Unanswered(p) ==
  /\ phase[p] = "joining"
  /\ \/ dial[p].conn = None
     \/ dial[p].conn \in up /\ wire[dial[p].conn][p] = <<>>

\* Nobody knows a participant before somebody answered its ticket handshake.
Unknown ==
  \A p \in Peers : phase[p] = "off" \/ Unanswered(p) => Secret(p)

===============================================================================

------------------------------ MODULE MeshProofs ------------------------------
(* Theorems about Mesh, for every finite set of participants and every bound. *)
EXTENDS Mesh, FiniteSetTheorems, WellFoundedInduction, TLAPS

-------------------------------------------------------------------------------
(* Lemmas about the operators of Mesh. *)

\* What the event at the head of a channel carries.
LEMMA EventKinds ==
  ASSUME NEW e \in RoomEvent
  PROVE  /\ e.kind = "IncomingConnection" => e.conn \in Conns /\ e = Incoming(e.conn)
         /\ e.kind = "PeerDisconnected" => e.peer \in Peers /\ e = Disconnected(e.peer)
         /\ e.kind = "PeerList" => e.list \in SUBSET Peers /\ e = ListMsg(e.list)
BY DEF RoomEvent, Incoming, Disconnected, ListMsg

\* The events the actions enqueue are events, and differ.
LEMMA EventTypes ==
  /\ \A c \in Conns : Incoming(c) \in RoomEvent
  /\ \A q \in Peers : Disconnected(q) \in RoomEvent
  /\ \A L \in SUBSET Peers : ListMsg(L) \in RoomEvent
BY DEF RoomEvent

\* A connection joins two different participants.
LEMMA ConnEnds ==
  ASSUME NEW c \in Conns
  PROVE  c.from \in Peers /\ c.to \in Peers /\ c.from # c.to /\ c # None
BY NoneAssumption DEF Conns

LEMMA BetweenConns ==
  ASSUME NEW p \in Peers, NEW q \in Peers, NEW c \in Between(p, q)
  PROVE  c \in Conns
BY DEF Between

LEMMA OtherType ==
  ASSUME NEW c \in Conns, NEW p \in Peers
  PROVE  Other(p, c) \in Peers
BY ConnEnds DEF Other

Wires == [Conns -> [Peers -> Seq(SUBSET Peers)]]

LEMMA BroadcastType ==
  ASSUME NEW p \in Peers, NEW s, NEW w \in Wires
  PROVE  Broadcast(p, s, w) \in Wires
<1>1. PeerList(p, s) \in SUBSET Peers
  BY DEF PeerList
<1>2. ASSUME NEW c \in Conns, NEW r \in Peers
      PROVE  Append(w[c][r], PeerList(p, s)) \in Seq(SUBSET Peers)
  <2>1. w[c][r] \in Seq(SUBSET Peers)
    BY DEF Wires
  <2> QED BY <1>1, <2>1
<1> QED BY <1>2 DEF Broadcast, Wires

\* Taking the first element of a sequence.
LEMMA TakeSeq ==
  ASSUME NEW T, NEW s \in Seq(T), s # <<>>
  PROVE  Head(s) \in T /\ Tail(s) \in Seq(T) /\ Len(Tail(s)) = Len(s) - 1
OBVIOUS

\* Queueing one.
LEMMA AppendSeq ==
  ASSUME NEW T, NEW s \in Seq(T), NEW e \in T
  PROVE  Append(s, e) \in Seq(T) /\ Len(Append(s, e)) = Len(s) + 1
OBVIOUS

-------------------------------------------------------------------------------
(* Type correctness. *)

LEMMA EnqueueType ==
  ASSUME TypeOK, NEW p \in Peers, NEW e \in RoomEvent, HasRoom(p), Enqueue(p, e)
  PROVE  events' \in [Peers -> Seq(RoomEvent)] /\ \A q \in Peers : Len(events'[q]) <= QueueCap
<1>1. events[p] \in Seq(RoomEvent) /\ Len(events[p]) < QueueCap /\ Len(events[p]) \in Nat
  BY DEF TypeOK, HasRoom
<1>2. /\ Append(events[p], e) \in Seq(RoomEvent)
      /\ Len(Append(events[p], e)) = Len(events[p]) + 1
  BY <1>1, AppendSeq
<1>3. Len(events[p]) + 1 <= QueueCap
  BY <1>1, BoundsAssumption
<1> QED BY <1>2, <1>3 DEF TypeOK, Enqueue

LEMMA TakeType ==
  ASSUME TypeOK, NEW p \in Peers, NEW k, Take(p, k)
  PROVE  /\ events' \in [Peers -> Seq(RoomEvent)]
         /\ \A q \in Peers : Len(events'[q]) <= QueueCap
         /\ Head(events[p]) \in RoomEvent
<1>1. events[p] \in Seq(RoomEvent) /\ events[p] # <<>> /\ Len(events[p]) \in Nat
  BY DEF TypeOK, Take
<1>2. /\ Head(events[p]) \in RoomEvent /\ Tail(events[p]) \in Seq(RoomEvent)
      /\ Len(Tail(events[p])) = Len(events[p]) - 1
  BY <1>1, TakeSeq
<1>3. Len(events[p]) - 1 <= QueueCap
  BY <1>1, BoundsAssumption DEF TypeOK
<1> QED BY <1>2, <1>3 DEF TypeOK, Take

\* A process that stops, and a handshake given up, leave a state of the right type.
LEMMA StopType ==
  ASSUME TypeOK, NEW p \in Peers, Stop(p), drops' \in Nat, quits' \in Nat
  PROVE  TypeOK'
<1>1. <<>> \in Seq(RoomEvent) /\ <<>> \in Seq(SUBSET Peers) /\ Len(<<>>) <= QueueCap
  BY BoundsAssumption
<1>2. /\ events' \in [Peers -> Seq(RoomEvent)]
      /\ \A q \in Peers : Len(events'[q]) <= QueueCap
  BY <1>1 DEF TypeOK, Stop
<1>3. wire' \in [Conns -> [Peers -> Seq(SUBSET Peers)]]
  BY <1>1 DEF TypeOK, Stop
<1>4. peers' \in [Peers -> [Peers -> Conns \cup {None}]]
  BY DEF TypeOK, Stop
<1> QED BY <1>2, <1>3, <1>4 DEF TypeOK, Stop, NoDial

\* What dial may become.
LEMMA DialType ==
  ASSUME TypeOK, NEW p \in Peers
  PROVE  /\ [dial EXCEPT ![p] = NoDial]
              \in [Peers -> {NoDial} \cup [to : Peers, conn : Conns \cup {None}]]
         /\ \A q \in Peers : [dial EXCEPT ![p] = [to |-> q, conn |-> None]]
              \in [Peers -> {NoDial} \cup [to : Peers, conn : Conns \cup {None}]]
         /\ dial[p].to # None =>
              /\ dial[p].to \in Peers
              /\ \A c \in Conns : [dial EXCEPT ![p].conn = c]
                   \in [Peers -> {NoDial} \cup [to : Peers, conn : Conns \cup {None}]]
         /\ dial[p].conn # None => dial[p].to \in Peers /\ dial[p].conn \in Conns
<1> DEFINE D == [to : Peers, conn : Conns \cup {None}]
<1>1. dial[p] \in D \/ dial[p] = NoDial
  BY DEF TypeOK
<1>2. dial[p].to # None => dial[p] \in D
  BY <1>1 DEF NoDial
<1>3. dial[p].conn # None => dial[p] \in D
  BY <1>1 DEF NoDial
<1>4. \A q \in Peers : [to |-> q, conn |-> None] \in D
  OBVIOUS
<1>5. ASSUME dial[p] \in D, NEW c \in Conns
      PROVE  [dial[p] EXCEPT !.conn = c] \in D
  BY <1>5
<1>6. dial \in [Peers -> {NoDial} \cup D]
  BY DEF TypeOK
<1>7. \A d \in {NoDial} \cup D : [dial EXCEPT ![p] = d] \in [Peers -> {NoDial} \cup D]
  BY <1>6
<1>8. ASSUME dial[p].to # None, NEW c \in Conns
      PROVE  [dial EXCEPT ![p].conn = c] \in [Peers -> {NoDial} \cup D]
  <2> HIDE DEF D
  <2>1. [dial[p] EXCEPT !.conn = c] \in D
    BY <1>8, <1>2, <1>5
  <2> QED BY <2>1, <1>6
<1> QED BY <1>2, <1>3, <1>4, <1>7, <1>8

\* The wire of one connection with one direction emptied.
LEMMA ClearType ==
  ASSUME TypeOK, NEW p \in Peers, NEW c \in Conns
  PROVE  [wire[c] EXCEPT ![p] = <<>>] \in [Peers -> Seq(SUBSET Peers)]
<1>1. <<>> \in Seq(SUBSET Peers)
  OBVIOUS
<1> QED BY <1>1 DEF TypeOK

LEMMA GiveUpType ==
  ASSUME TypeOK, NEW p \in Peers, GiveUp(p), drops' \in Nat, quits' \in Nat
  PROVE  TypeOK'
<1>1. CASE phase[p] = "joining"
  BY <1>1, StopType DEF GiveUp, TypeOK
<1>2. CASE phase[p] # "joining"
  <2>1. wire' \in [Conns -> [Peers -> Seq(SUBSET Peers)]]
    <3>1. wire' = [c \in Conns |-> IF c = dial[p].conn THEN [wire[c] EXCEPT ![p] = <<>>]
                                                       ELSE wire[c]]
      BY <1>2 DEF GiveUp
    <3>2. ASSUME NEW c \in Conns
          PROVE  (IF c = dial[p].conn THEN [wire[c] EXCEPT ![p] = <<>>] ELSE wire[c])
                 \in [Peers -> Seq(SUBSET Peers)]
      BY ClearType DEF TypeOK
    <3> QED BY <3>1, <3>2
  <2>2. dial' \in [Peers -> {NoDial} \cup [to : Peers, conn : Conns \cup {None}]]
    BY <1>2, DialType DEF GiveUp
  <2>3. UNCHANGED <<phase, born, starts, work, peers, events, tasks, up>>
    BY <1>2 DEF GiveUp
  <2> QED BY <2>1, <2>2, <2>3 DEF TypeOK, tasks
<1> QED BY <1>1, <1>2

LEMMA AddSessionType ==
  ASSUME TypeOK, NEW p \in Peers, NEW q \in Peers, NEW c \in Conns, AddSession(p, q, c)
  PROVE  /\ peers' \in [Peers -> [Peers -> Conns \cup {None}]]
         /\ monitor' \in [Peers -> SUBSET Conns]
         /\ reader' \in [Peers -> SUBSET Conns]
BY DEF TypeOK, AddSession

\* A list taken off the wire is a list of participants.
LEMMA WireType ==
  ASSUME TypeOK, NEW p \in Peers, NEW c \in Conns, wire[c][p] # <<>>
  PROVE  /\ Head(wire[c][p]) \in SUBSET Peers
         /\ [wire EXCEPT ![c][p] = Tail(@)] \in Wires
<1>1. wire[c][p] \in Seq(SUBSET Peers)
  BY DEF TypeOK
<1>2. Head(wire[c][p]) \in SUBSET Peers /\ Tail(wire[c][p]) \in Seq(SUBSET Peers)
  BY <1>1, TakeSeq
<1> QED BY <1>2 DEF TypeOK, Wires

LEMMA TypeStep == TypeOK /\ [Next]_vars => TypeOK'
<1> SUFFICES ASSUME TypeOK, [Next]_vars PROVE TypeOK'
  OBVIOUS
<1>1. ASSUME NEW p \in Peers, StartCall(p) PROVE TypeOK'
  BY <1>1 DEF TypeOK, StartCall, tasks, faults
<1>2. ASSUME NEW p \in Peers, NEW t \in Peers, Join(p, t) PROVE TypeOK'
  BY <1>2, DialType DEF TypeOK, Join, tasks, faults
<1>3. ASSUME NEW p \in Peers, Quit(p) PROVE TypeOK'
  <2>1. Stop(p) /\ drops' \in Nat /\ quits' \in Nat
    BY <1>3 DEF TypeOK, Quit
  <2> QED BY <2>1, StopType
<1>4. ASSUME NEW p \in Peers, NEW q \in Peers, Dial(p, q) PROVE TypeOK'
  BY <1>4, DialType DEF TypeOK, Dial, tasks, faults
<1>5. ASSUME NEW p \in Peers, Connect(p) PROVE TypeOK'
  <2>1. dial[p].to \in Peers
    BY <1>5, DialType DEF Connect
  <2>2. PICK c \in Fresh(p, dial[p].to) :
          /\ dial' = [dial EXCEPT ![p].conn = c]
          /\ up' = up \cup {c}
          /\ Enqueue(dial[p].to, Incoming(c))
    BY <1>5 DEF Connect
  <2>3. c \in Conns
    BY <2>1, <2>2, BetweenConns DEF Fresh
  <2>4. /\ events' \in [Peers -> Seq(RoomEvent)]
        /\ \A q \in Peers : Len(events'[q]) <= QueueCap
    BY <1>5, <2>1, <2>2, <2>3, EventTypes, EnqueueType DEF Connect
  <2>5. dial' \in [Peers -> {NoDial} \cup [to : Peers, conn : Conns \cup {None}]]
    BY <1>5, <2>2, <2>3, DialType DEF Connect
  <2>6. up' \in SUBSET Conns
    BY <2>2, <2>3 DEF TypeOK
  <2>7. UNCHANGED <<phase, born, starts, work, peers, tasks, wire, faults>>
    BY <1>5 DEF Connect
  <2> QED BY <2>4, <2>5, <2>6, <2>7 DEF TypeOK, tasks, faults
<1>6. ASSUME NEW p \in Peers, ConnectFails(p) PROVE TypeOK'
  <2>1. drops' \in Nat
    BY <1>6 DEF TypeOK, ConnectFails
  <2> QED BY <1>6, <2>1, GiveUpType DEF TypeOK, ConnectFails
<1>7. ASSUME NEW p \in Peers, HandshakeDone(p) PROVE TypeOK'
  <2> DEFINE q == dial[p].to
             c == dial[p].conn
             w == [wire EXCEPT ![c][p] = Tail(@)]
  <2>1. c \in Conns /\ wire[c][p] # <<>> /\ q \in Peers
    BY <1>7, DialType DEF HandshakeDone
  <2>2. w \in Wires /\ Head(wire[c][p]) \in SUBSET Peers
    BY <2>1, WireType
  <2>3. /\ peers' \in [Peers -> [Peers -> Conns \cup {None}]]
        /\ monitor' \in [Peers -> SUBSET Conns]
        /\ reader' \in [Peers -> SUBSET Conns]
    BY <1>7, <2>1, AddSessionType DEF HandshakeDone
  <2>6. dial' \in [Peers -> {NoDial} \cup [to : Peers, conn : Conns \cup {None}]]
    BY <1>7, DialType DEF HandshakeDone
  <2>4. CASE phase[p] = "joining"
    <3>1. /\ wire' = w
          /\ work' = [work EXCEPT ![p] = Targets(p, Head(wire[c][p]), [peers[p] EXCEPT ![q] = c])]
      BY <1>7, <2>4 DEF HandshakeDone
    <3>4. Targets(p, Head(wire[c][p]), [peers[p] EXCEPT ![q] = c]) \in SUBSET Peers
      BY <2>2 DEF Targets
    <3>5. wire' \in Wires /\ work' \in [Peers -> SUBSET Peers]
      BY <2>2, <3>1, <3>4 DEF TypeOK
    <3>2. phase' \in [Peers -> {"off", "joining", "meshing", "running", "gone"}]
      BY <1>7, <2>4 DEF TypeOK, HandshakeDone
    <3> QED BY <1>7, <2>3, <2>6, <3>2, <3>5 DEF TypeOK, HandshakeDone, Wires, faults
  <2>5. CASE phase[p] # "joining"
    <3>1. wire' \in Wires /\ UNCHANGED <<phase, work>>
      BY <1>7, <2>2, <2>5, BroadcastType DEF HandshakeDone
    <3> QED BY <1>7, <2>3, <2>6, <3>1 DEF TypeOK, HandshakeDone, Wires, faults
  <2> QED BY <2>4, <2>5
<1>8. ASSUME NEW p \in Peers, HandshakeFails(p) PROVE TypeOK'
  BY <1>8, GiveUpType DEF TypeOK, HandshakeFails, faults
<1>9. ASSUME NEW p \in Peers, FinishJoin(p) PROVE TypeOK'
  BY <1>9 DEF TypeOK, FinishJoin, tasks, faults
<1>10. ASSUME NEW p \in Peers, RefuseDuplicate(p) PROVE TypeOK'
  BY <1>10, TakeType DEF TypeOK, RefuseDuplicate, room, tasks, faults
<1>11. ASSUME NEW p \in Peers, AcceptPeer(p) PROVE TypeOK'
  <2> DEFINE c == Head(events[p]).conn
             q == c.from
             reply == IF Receives(q, c) THEN Append(wire[c][q], PeerList(p, peers[p]))
                                        ELSE wire[c][q]
             w == [wire EXCEPT ![c][q] = reply]
  <2>1. c \in Conns /\ q \in Peers
    BY <1>11, TakeType, EventKinds, ConnEnds DEF AcceptPeer, Take
  <2>2. wire[c][q] \in Seq(SUBSET Peers) /\ PeerList(p, peers[p]) \in SUBSET Peers
    BY <2>1 DEF TypeOK, PeerList
  <2>3. reply \in Seq(SUBSET Peers)
    BY <2>2, AppendSeq
  <2>4. w \in Wires
    BY <2>1, <2>3 DEF TypeOK, Wires
  <2>5. wire' \in Wires
    <3>1. wire' = Broadcast(p, [peers[p] EXCEPT ![q] = c], w)
      BY <1>11 DEF AcceptPeer
    <3> HIDE DEF w
    <3> QED BY <2>4, <3>1, BroadcastType
  <2>6. /\ peers' \in [Peers -> [Peers -> Conns \cup {None}]]
        /\ monitor' \in [Peers -> SUBSET Conns]
        /\ reader' \in [Peers -> SUBSET Conns]
    BY <1>11, <2>1, AddSessionType DEF AcceptPeer
  <2>7. /\ events' \in [Peers -> Seq(RoomEvent)]
        /\ \A r \in Peers : Len(events'[r]) <= QueueCap
    BY <1>11, TakeType DEF AcceptPeer
  <2>8. UNCHANGED <<phase, born, starts, dial, work, up, drops, quits>>
    BY <1>11 DEF AcceptPeer, faults
  <2> QED BY <2>5, <2>6, <2>7, <2>8 DEF TypeOK, Wires
<1>12. ASSUME NEW p \in Peers, IncomingLost(p) PROVE TypeOK'
  BY <1>12, TakeType DEF TypeOK, IncomingLost, room, tasks, faults
<1>13. ASSUME NEW p \in Peers, HandlePeerDisconnected(p) PROVE TypeOK'
  <2>1. wire' \in Wires
    BY <1>13, BroadcastType DEF TypeOK, HandlePeerDisconnected, Wires
  <2>2. peers' \in [Peers -> [Peers -> Conns \cup {None}]]
    BY <1>13 DEF TypeOK, HandlePeerDisconnected
  <2>3. /\ events' \in [Peers -> Seq(RoomEvent)]
        /\ \A r \in Peers : Len(events'[r]) <= QueueCap
    BY <1>13, TakeType DEF HandlePeerDisconnected
  <2> QED BY <1>13, <2>1, <2>2, <2>3 DEF TypeOK, HandlePeerDisconnected, Wires, tasks, faults
<1>14. ASSUME NEW p \in Peers, HandlePeerList(p) PROVE TypeOK'
  <2>1. /\ events' \in [Peers -> Seq(RoomEvent)]
        /\ \A r \in Peers : Len(events'[r]) <= QueueCap
        /\ Head(events[p]).list \in SUBSET Peers
    BY <1>14, TakeType, EventKinds DEF HandlePeerList, Take
  <2>2. work' \in [Peers -> SUBSET Peers]
    BY <1>14, <2>1 DEF TypeOK, HandlePeerList, Targets
  <2> QED BY <1>14, <2>1, <2>2 DEF TypeOK, HandlePeerList, tasks, faults
<1>15. ASSUME NEW p \in Peers, Tick(p) PROVE TypeOK'
  <2>1. wire' \in Wires
    BY <1>15, BroadcastType DEF TypeOK, Tick, Wires
  <2> QED BY <1>15, <2>1 DEF TypeOK, Tick, Wires, room, tasks, faults
<1>16. ASSUME NEW p \in Peers, NEW c \in Conns, Deliver(p, c) PROVE TypeOK'
  <2>1. Head(wire[c][p]) \in SUBSET Peers /\ wire' \in Wires
    BY <1>16, WireType DEF Deliver
  <2>2. /\ events' \in [Peers -> Seq(RoomEvent)]
        /\ \A r \in Peers : Len(events'[r]) <= QueueCap
    BY <1>16, <2>1, EventTypes, EnqueueType DEF Deliver
  <2> QED BY <1>16, <2>1, <2>2 DEF TypeOK, Deliver, Wires, room, tasks, faults
<1>17. ASSUME NEW p \in Peers, NEW c \in Conns, ReaderFails(p, c) PROVE TypeOK'
  <2>1. /\ events' \in [Peers -> Seq(RoomEvent)]
        /\ \A r \in Peers : Len(events'[r]) <= QueueCap
    BY <1>17, OtherType, EventTypes, EnqueueType DEF ReaderFails
  <2>2. wire' \in [Conns -> [Peers -> Seq(SUBSET Peers)]]
    <3>1. <<>> \in Seq(SUBSET Peers)
      OBVIOUS
    <3> QED BY <1>17, <3>1 DEF TypeOK, ReaderFails
  <2> QED BY <1>17, <2>1, <2>2 DEF TypeOK, ReaderFails, AfterTask, room, faults
<1>18. ASSUME NEW p \in Peers, NEW c \in Conns, MonitorFires(p, c) PROVE TypeOK'
  <2>1. /\ events' \in [Peers -> Seq(RoomEvent)]
        /\ \A r \in Peers : Len(events'[r]) <= QueueCap
    BY <1>18, OtherType, EventTypes, EnqueueType DEF MonitorFires
  <2> QED BY <1>18, <2>1 DEF TypeOK, MonitorFires, room, faults
<1>19. ASSUME NEW p \in Peers, NEW c \in Conns, ReaderQuits(p, c) PROVE TypeOK'
  <2>1. wire' \in [Conns -> [Peers -> Seq(SUBSET Peers)]]
    <3>1. <<>> \in Seq(SUBSET Peers)
      OBVIOUS
    <3> QED BY <1>19, <3>1 DEF TypeOK, ReaderQuits
  <2> QED BY <1>19, <2>1 DEF TypeOK, ReaderQuits, AfterTask, room, faults
<1>20. ASSUME NEW p \in Peers, NEW c \in Conns, MonitorQuits(p, c) PROVE TypeOK'
  BY <1>20 DEF TypeOK, MonitorQuits, AfterTask, room, faults
<1>21. ASSUME NEW c \in Conns, Drop(c) PROVE TypeOK'
  BY <1>21 DEF TypeOK, Drop, room, tasks
<1>22. CASE UNCHANGED vars
  BY <1>22 DEF TypeOK, vars, room, tasks, faults
<1> QED
  BY <1>1, <1>2, <1>3, <1>4, <1>5, <1>6, <1>7, <1>8, <1>9, <1>10, <1>11, <1>12,
     <1>13, <1>14, <1>15, <1>16, <1>17, <1>18, <1>19, <1>20, <1>21, <1>22, BetweenConns
     DEF Next, RoomStep, TaskStep, ReaderStep, MonitorStep

\* Every value is of its kind and no event channel exceeds its capacity.
THEOREM TypeCorrect == Spec => []TypeOK
<1>1. Init => TypeOK
  BY BoundsAssumption DEF Init, TypeOK, NoDial
<1> QED BY <1>1, TypeStep, PTL DEF Spec

-------------------------------------------------------------------------------
(* What waits in a channel, and on a wire, before and after a step. *)

LEMMA EventsDiffer ==
  /\ \A c, d \in Conns : Incoming(c) = Incoming(d) => c = d
  /\ \A p, q \in Peers : Disconnected(p) = Disconnected(q) => p = q
  /\ \A L, M \in SUBSET Peers : ListMsg(L) = ListMsg(M) => L = M
  /\ \A c \in Conns : \A q \in Peers : Incoming(c) # Disconnected(q)
  /\ \A c \in Conns : \A L \in SUBSET Peers : Incoming(c) # ListMsg(L)
  /\ \A q \in Peers : \A L \in SUBSET Peers : Disconnected(q) # ListMsg(L)
BY DEF Incoming, Disconnected, ListMsg

LEMMA AppendIn ==
  ASSUME NEW T, NEW s \in Seq(T), NEW e \in T, NEW f
  PROVE  (\E i \in 1..Len(Append(s, e)) : Append(s, e)[i] = f)
           <=> (\E i \in 1..Len(s) : s[i] = f) \/ f = e
<1>1. /\ Len(s) \in Nat /\ Len(Append(s, e)) = Len(s) + 1
      /\ \A i \in 1..Len(s) : Append(s, e)[i] = s[i]
      /\ Append(s, e)[Len(s) + 1] = e
  OBVIOUS
<1>2. 1..(Len(s) + 1) = (1..Len(s)) \cup {Len(s) + 1}
  BY <1>1
<1> QED BY <1>1, <1>2

LEMMA TailIn ==
  ASSUME NEW T, NEW s \in Seq(T), s # <<>>, NEW f
  PROVE  /\ (\E i \in 1..Len(Tail(s)) : Tail(s)[i] = f) => \E i \in 1..Len(s) : s[i] = f
         /\ (\E i \in 1..Len(s) : s[i] = f) =>
              (\E i \in 1..Len(Tail(s)) : Tail(s)[i] = f) \/ f = Head(s)
         /\ \E i \in 1..Len(s) : s[i] = Head(s)
<1>1. /\ Len(s) \in Nat \ {0} /\ Len(Tail(s)) = Len(s) - 1 /\ s[1] = Head(s)
      /\ \A i \in 1..(Len(s) - 1) : Tail(s)[i] = s[i + 1]
  OBVIOUS
<1>2. \A i \in 1..(Len(s) - 1) : i + 1 \in 1..Len(s)
  BY <1>1
<1>3. \A i \in 1..Len(s) : i = 1 \/ (i - 1 \in 1..(Len(s) - 1) /\ Tail(s)[i - 1] = s[i])
  BY <1>1
<1>4. 1 \in 1..Len(s)
  BY <1>1
<1> QED BY <1>1, <1>2, <1>3, <1>4

LEMMA QueuedEnqueue ==
  ASSUME TypeOK, NEW p \in Peers, NEW e \in RoomEvent, Enqueue(p, e),
         NEW q \in Peers, NEW f
  PROVE  Queued(q, f)' <=> Queued(q, f) \/ (q = p /\ f = e)
<1>1. events[p] \in Seq(RoomEvent)
  BY DEF TypeOK
<1>2. events'[q] = IF q = p THEN Append(events[p], e) ELSE events[q]
  BY DEF TypeOK, Enqueue
<1>3. CASE q = p
  BY <1>1, <1>2, <1>3, AppendIn DEF Queued
<1>4. CASE q # p
  BY <1>2, <1>4 DEF Queued
<1> QED BY <1>3, <1>4

LEMMA QueuedTake ==
  ASSUME TypeOK, NEW p \in Peers, NEW k, Take(p, k), NEW q \in Peers, NEW f
  PROVE  /\ Queued(q, f)' => Queued(q, f)
         /\ Queued(q, f) => Queued(q, f)' \/ (q = p /\ f = Head(events[p]))
         /\ Queued(p, Head(events[p]))
<1>1. events[p] \in Seq(RoomEvent) /\ events[p] # <<>>
  BY DEF TypeOK, Take
<1>2. events'[q] = IF q = p THEN Tail(events[p]) ELSE events[q]
  BY DEF TypeOK, Take
<1>3. Queued(p, Head(events[p]))
  BY <1>1, TailIn DEF Queued
<1>4. CASE q = p
  BY <1>1, <1>2, <1>3, <1>4, TailIn DEF Queued
<1>5. CASE q # p
  BY <1>2, <1>3, <1>5 DEF Queued
<1> QED BY <1>4, <1>5

-------------------------------------------------------------------------------
(* The actions, one by one. *)

LEMMA NextCases ==
  ASSUME [Next]_vars
  PROVE
  \/ \E p \in Peers :
       \/ StartCall(p) \/ Quit(p) \/ Connect(p) \/ ConnectFails(p)
       \/ HandshakeDone(p) \/ HandshakeFails(p) \/ FinishJoin(p)
       \/ RefuseDuplicate(p) \/ AcceptPeer(p) \/ IncomingLost(p)
       \/ HandlePeerDisconnected(p) \/ HandlePeerList(p) \/ Tick(p)
  \/ \E p \in Peers : \E q \in Peers : Join(p, q) \/ Dial(p, q)
  \/ \E p \in Peers : \E c \in Conns :
       \/ Deliver(p, c) \/ ReaderFails(p, c) \/ ReaderQuits(p, c)
       \/ MonitorFires(p, c) \/ MonitorQuits(p, c)
  \/ \E c \in Conns : Drop(c)
  \/ UNCHANGED vars
BY BetweenConns DEF Next, RoomStep, TaskStep, ReaderStep, MonitorStep

-------------------------------------------------------------------------------
(* One entry of the map, one handshake. *)

LEMMA SetEntry ==
  ASSUME TypeOK, NEW p \in Peers, NEW q \in Peers, NEW x,
         peers' = [peers EXCEPT ![p][q] = x]
  PROVE  \A a, b \in Peers : peers'[a][b] = IF a = p /\ b = q THEN x ELSE peers[a][b]
<1>1. peers \in [Peers -> [Peers -> Conns \cup {None}]]
  BY DEF TypeOK
<1> QED BY <1>1

LEMMA SetDial ==
  ASSUME TypeOK, NEW p \in Peers, NEW x, dial' = [dial EXCEPT ![p] = x]
  PROVE  \A a \in Peers : dial'[a] = IF a = p THEN x ELSE dial[a]
<1>1. DOMAIN dial = Peers
  BY DEF TypeOK
<1> QED BY <1>1

-------------------------------------------------------------------------------
(* Connections are where their ends are. *)

Ends == EntryEnds /\ DialEnds /\ QueuedEnds

\* The connection being accepted was dialled to p.
LEMMA IncomingEnds ==
  ASSUME TypeOK, QueuedEnds, NEW p \in Peers, Take(p, "IncomingConnection")
  PROVE  /\ Head(events[p]).conn \in Conns /\ Head(events[p]).conn.from \in Peers
         /\ Head(events[p]).conn.to = p
         /\ Queued(p, Incoming(Head(events[p]).conn))
         /\ Head(events[p]) = Incoming(Head(events[p]).conn)
<1>1. Head(events[p]) \in RoomEvent /\ Head(events[p]).kind = "IncomingConnection"
  BY TakeType DEF Take
<1>2. /\ Head(events[p]).conn \in Conns
      /\ Head(events[p]) = Incoming(Head(events[p]).conn)
  BY <1>1, EventKinds
<1>3. Queued(p, Incoming(Head(events[p]).conn))
  BY <1>2, QueuedTake
<1> QED BY <1>2, <1>3, ConnEnds DEF QueuedEnds

\* An entry is for the other end of its connection.
LEMMA EntryOther ==
  ASSUME Ends, NEW p \in Peers, NEW q \in Peers, NEW c \in Conns, peers[p][q] = c
  PROVE  q = Other(p, c) /\ p \in {c.from, c.to} /\ p # q
<1>1. c \in Between(p, q)
  BY ConnEnds DEF Ends, EntryEnds
<1>2. {c.from, c.to} = {p, q} /\ c.from # c.to
  BY <1>1, ConnEnds DEF Between
<1> QED BY <1>2 DEF Other

LEMMA StopEnds ==
  ASSUME TypeOK, Ends, NEW p \in Peers, Stop(p)
  PROVE  Ends'
<1>1. EntryEnds'
  BY DEF Stop, TypeOK, Ends, EntryEnds, Between
<1>2. DialEnds'
  BY DEF Stop, TypeOK, Ends, DialEnds, NoDial
<1>3. \A q \in Peers : \A f : Queued(q, f)' => Queued(q, f)
  BY DEF Stop, TypeOK, Queued
<1>4. QueuedEnds'
  BY <1>3 DEF Ends, QueuedEnds
<1> QED BY <1>1, <1>2, <1>4 DEF Ends

LEMMA GiveUpEnds ==
  ASSUME TypeOK, Ends, NEW p \in Peers, GiveUp(p)
  PROVE  Ends'
<1>1. CASE phase[p] = "joining"
  BY <1>1, StopEnds DEF GiveUp
<1>2. CASE phase[p] # "joining"
  <2>1. dial' = [dial EXCEPT ![p] = NoDial] /\ UNCHANGED <<peers, events>>
    BY <1>2 DEF GiveUp
  <2>2. DialEnds'
    BY <2>1, SetDial DEF Ends, DialEnds, NoDial
  <2> QED BY <2>1, <2>2 DEF Ends, EntryEnds, QueuedEnds, Queued
<1> QED BY <1>1, <1>2

LEMMA EndsStep == TypeOK /\ Ends /\ [Next]_vars => Ends'
<1> SUFFICES ASSUME TypeOK, Ends, [Next]_vars PROVE Ends'
  OBVIOUS
<1>a. ASSUME UNCHANGED <<peers, events, dial>> PROVE Ends'
  BY <1>a DEF Ends, EntryEnds, DialEnds, QueuedEnds, Queued, Between
<1>b. ASSUME NEW p \in Peers, NEW k, Take(p, k), UNCHANGED <<peers, dial>> PROVE Ends'
  <2>1. \A q \in Peers : \A c \in Conns : Queued(q, Incoming(c))' => Queued(q, Incoming(c))
    BY <1>b, QueuedTake
  <2>2. QueuedEnds'
    BY <2>1 DEF Ends, QueuedEnds
  <2>3. EntryEnds' /\ DialEnds'
    BY <1>b DEF Ends, EntryEnds, DialEnds, Between
  <2> QED BY <2>2, <2>3 DEF Ends
<1>c. ASSUME NEW p \in Peers, NEW e \in RoomEvent, Enqueue(p, e), UNCHANGED <<peers, dial>>,
             \A c \in Conns : e # Incoming(c)
      PROVE  Ends'
  <2>1. EntryEnds' /\ DialEnds'
    BY <1>c DEF Ends, EntryEnds, DialEnds
  <2>2. \A q \in Peers : \A c \in Conns : Queued(q, Incoming(c))' => Queued(q, Incoming(c))
    BY <1>c, QueuedEnqueue
  <2> QED BY <2>1, <2>2 DEF Ends, QueuedEnds
<1>d. ASSUME NEW p \in Peers, NEW q, dial' = [dial EXCEPT ![p] = [to |-> q, conn |-> None]],
             UNCHANGED <<peers, events>>
      PROVE  Ends'
  <2>1. DialEnds'
    BY <1>d, SetDial DEF Ends, DialEnds
  <2> QED BY <1>d, <2>1 DEF Ends, EntryEnds, QueuedEnds, Queued
<1>1. ASSUME NEW p \in Peers, StartCall(p) \/ FinishJoin(p) \/ Tick(p) PROVE Ends'
  BY <1>1, <1>a DEF StartCall, FinishJoin, Tick, room
<1>2. ASSUME NEW p \in Peers, NEW q \in Peers, Join(p, q) PROVE Ends'
  <2>1. dial' = [dial EXCEPT ![p] = [to |-> q, conn |-> None]] /\ UNCHANGED <<peers, events>>
    BY <1>2 DEF Join
  <2> QED BY <2>1, <1>d
<1>3. ASSUME NEW p \in Peers, Quit(p) PROVE Ends'
  BY <1>3, StopEnds DEF Quit
<1>4. ASSUME NEW p \in Peers, NEW q \in Peers, Dial(p, q) PROVE Ends'
  <2>1. dial' = [dial EXCEPT ![p] = [to |-> q, conn |-> None]] /\ UNCHANGED <<peers, events>>
    BY <1>4 DEF Dial
  <2> QED BY <2>1, <1>d
<1>5. ASSUME NEW p \in Peers, Connect(p) PROVE Ends'
  <2>1. dial[p].to \in Peers
    BY <1>5, DialType DEF Connect
  <2>2. PICK c \in Fresh(p, dial[p].to) :
          dial' = [dial EXCEPT ![p].conn = c] /\ Enqueue(dial[p].to, Incoming(c))
    BY <1>5 DEF Connect
  <2>3. c \in Conns /\ c.from = p /\ c.to = dial[p].to
    BY <2>1, <2>2, BetweenConns, ConnEnds DEF Fresh, Between
  <2>4. Incoming(c) \in RoomEvent
    BY <2>3, EventTypes
  <2>5. EntryEnds'
    BY <1>5 DEF Connect, Ends, EntryEnds, Between
  <2>6. DialEnds'
    BY <2>2, <2>3 DEF TypeOK, Ends, DialEnds
  <2>7. QueuedEnds'
    BY <2>1, <2>2, <2>3, <2>4, QueuedEnqueue, EventsDiffer DEF Ends, QueuedEnds
  <2> QED BY <2>5, <2>6, <2>7 DEF Ends
<1>6. ASSUME NEW p \in Peers, ConnectFails(p) \/ HandshakeFails(p) PROVE Ends'
  BY <1>6, GiveUpEnds DEF ConnectFails, HandshakeFails
<1>7. ASSUME NEW p \in Peers, HandshakeDone(p) PROVE Ends'
  <2>1. /\ dial[p].conn \in Conns /\ dial[p].to \in Peers
        /\ dial[p].conn.from = p /\ dial[p].conn.to = dial[p].to
    BY <1>7, DialType DEF HandshakeDone, Ends, DialEnds
  <2>2. dial[p].conn \in Between(p, dial[p].to)
    BY <2>1 DEF Between
  <2>3. /\ peers' = [peers EXCEPT ![p][dial[p].to] = dial[p].conn]
        /\ dial' = [dial EXCEPT ![p] = NoDial] /\ UNCHANGED events
    BY <1>7 DEF HandshakeDone, AddSession
  <2>4. EntryEnds'
    BY <2>1, <2>2, <2>3, SetEntry DEF Ends, EntryEnds
  <2>5. DialEnds'
    BY <2>3 DEF TypeOK, Ends, DialEnds, NoDial
  <2> QED BY <2>3, <2>4, <2>5 DEF Ends, QueuedEnds, Queued
<1>8. ASSUME NEW p \in Peers, RefuseDuplicate(p) \/ IncomingLost(p) PROVE Ends'
  BY <1>8, <1>b DEF RefuseDuplicate, IncomingLost, room
<1>9. ASSUME NEW p \in Peers, HandlePeerList(p) PROVE Ends'
  BY <1>9, <1>b DEF HandlePeerList
<1>10. ASSUME NEW p \in Peers, AcceptPeer(p) PROVE Ends'
  <2> DEFINE c == Head(events[p]).conn
  <2>1. Take(p, "IncomingConnection")
    BY <1>10 DEF AcceptPeer
  <2>2. c \in Conns /\ c.from \in Peers /\ c.to = p
    BY <2>1, IncomingEnds DEF Ends
  <2>3. c \in Between(p, c.from)
    BY <2>2 DEF Between
  <2>4. peers' = [peers EXCEPT ![p][c.from] = c] /\ UNCHANGED dial
    BY <1>10 DEF AcceptPeer, AddSession
  <2> HIDE DEF c
  <2>5. EntryEnds'
    BY <2>2, <2>3, <2>4, SetEntry DEF Ends, EntryEnds
  <2>6. DialEnds' /\ QueuedEnds'
    BY <2>1, <2>4, QueuedTake DEF Ends, DialEnds, QueuedEnds
  <2> QED BY <2>5, <2>6 DEF Ends
<1>11. ASSUME NEW p \in Peers, HandlePeerDisconnected(p) PROVE Ends'
  <2>1. Take(p, "PeerDisconnected") /\ UNCHANGED dial
    BY <1>11 DEF HandlePeerDisconnected
  <2>2. peers' = [peers EXCEPT ![p] = [peers[p] EXCEPT ![Head(events[p]).peer] = None]]
    BY <1>11 DEF HandlePeerDisconnected
  <2>3. EntryEnds'
    <3>1. Head(events[p]).peer \in Peers
      BY <2>1, TakeType, EventKinds DEF Take
    <3>2. peers' = [peers EXCEPT ![p][Head(events[p]).peer] = None]
      BY <2>2
    <3> QED BY <3>1, <3>2, SetEntry DEF Ends, EntryEnds
  <2>4. DialEnds' /\ QueuedEnds'
    BY <2>1, QueuedTake DEF Ends, DialEnds, QueuedEnds
  <2> QED BY <2>3, <2>4 DEF Ends
<1>12. ASSUME NEW p \in Peers, NEW c \in Conns, Deliver(p, c) PROVE Ends'
  <2>1. Head(wire[c][p]) \in SUBSET Peers
    BY <1>12, WireType DEF Deliver
  <2> QED BY <1>12, <1>c, <2>1, EventTypes, EventsDiffer DEF Deliver, room
<1>13. ASSUME NEW p \in Peers, NEW c \in Conns, ReaderFails(p, c) \/ MonitorFires(p, c)
       PROVE  Ends'
  <2>1. Disconnected(Other(p, c)) \in RoomEvent /\ Other(p, c) \in Peers
    BY OtherType, EventTypes
  <2> QED BY <1>13, <1>c, <2>1, EventsDiffer DEF ReaderFails, MonitorFires, room
<1>14. ASSUME NEW p \in Peers, NEW c \in Conns, ReaderQuits(p, c) \/ MonitorQuits(p, c)
       PROVE  Ends'
  BY <1>14, <1>a DEF ReaderQuits, MonitorQuits, room
<1>15. ASSUME NEW c \in Conns, Drop(c) PROVE Ends'
  BY <1>15, <1>a DEF Drop, room
<1>16. CASE UNCHANGED vars
  BY <1>16, <1>a DEF vars, room
<1> QED
  BY <1>1, <1>2, <1>3, <1>4, <1>5, <1>6, <1>7, <1>8, <1>9, <1>10, <1>11, <1>12,
     <1>13, <1>14, <1>15, <1>16, NextCases

-------------------------------------------------------------------------------
(* No lost wake-up: a session is watched, or its end is announced. *)

LEMMA StopZombie ==
  ASSUME TypeOK, NoZombie, NEW p \in Peers, Stop(p)
  PROVE  NoZombie'
<1>1. \A a, b \in Peers : a # p => /\ peers'[a][b] = peers[a][b] /\ monitor'[a] = monitor[a]
                                   /\ events'[a] = events[a]
  BY DEF Stop, TypeOK
<1>2. \A b \in Peers : peers'[p][b] = None
  BY DEF Stop, TypeOK
<1>3. \A c \in Conns : c # None
  BY ConnEnds
<1> QED BY <1>1, <1>2, <1>3 DEF NoZombie, Queued

\* A session that is added is watched; the channel loses at most an event that is
\* not about a lost session.
LEMMA AddZombie ==
  ASSUME TypeOK, NoZombie, NEW p \in Peers, NEW q \in Peers, NEW c \in Conns,
         AddSession(p, q, c),
         \A a, b \in Peers : Queued(a, Disconnected(b)) => Queued(a, Disconnected(b))'
  PROVE  NoZombie'
<1>1. \A a, b \in Peers : peers'[a][b] = IF a = p /\ b = q THEN c ELSE peers[a][b]
  <2>1. peers' = [peers EXCEPT ![p][q] = c]
    BY DEF AddSession
  <2>2. peers \in [Peers -> [Peers -> Conns \cup {None}]]
    BY DEF TypeOK
  <2> QED BY <2>1, <2>2
<1>2. \A a \in Peers : monitor[a] \subseteq monitor'[a]
  BY DEF TypeOK, AddSession
<1>3. c \in monitor'[p]
  BY DEF TypeOK, AddSession
<1> QED BY <1>1, <1>2, <1>3 DEF NoZombie

LEMMA ZombieStep == TypeOK /\ Ends /\ NoZombie /\ [Next]_vars => NoZombie'
<1> SUFFICES ASSUME TypeOK, Ends, NoZombie, [Next]_vars PROVE NoZombie'
  OBVIOUS
<1>a. ASSUME UNCHANGED <<peers, events, monitor>> PROVE NoZombie'
  BY <1>a DEF NoZombie, Queued
<1>b. ASSUME NEW p \in Peers, NEW k, Take(p, k), k # "PeerDisconnected",
             UNCHANGED <<peers, monitor>>
      PROVE  NoZombie'
  <2>1. \A a, b \in Peers : Queued(a, Disconnected(b)) => Queued(a, Disconnected(b))'
    <3>1. Head(events[p]).kind # "PeerDisconnected"
      BY <1>b DEF Take
    <3>2. \A b \in Peers : Disconnected(b) # Head(events[p])
      BY <3>1 DEF Disconnected
    <3> QED BY <1>b, <3>2, QueuedTake
  <2> QED BY <1>b, <2>1 DEF NoZombie
<1>c. ASSUME NEW p \in Peers, NEW e \in RoomEvent, Enqueue(p, e), UNCHANGED <<peers, monitor>>
      PROVE  NoZombie'
  <2>1. \A a, b \in Peers : Queued(a, Disconnected(b)) => Queued(a, Disconnected(b))'
    BY <1>c, QueuedEnqueue
  <2> QED BY <1>c, <2>1 DEF NoZombie
<1>1. ASSUME NEW p \in Peers, StartCall(p) \/ FinishJoin(p) \/ Tick(p) PROVE NoZombie'
  BY <1>1, <1>a DEF StartCall, FinishJoin, Tick, room, tasks
<1>2. ASSUME NEW p \in Peers, NEW q \in Peers, Join(p, q) \/ Dial(p, q) PROVE NoZombie'
  BY <1>2, <1>a DEF Join, Dial, tasks
<1>3. ASSUME NEW p \in Peers, Quit(p) PROVE NoZombie'
  BY <1>3, StopZombie DEF Quit
<1>4. ASSUME NEW p \in Peers, Connect(p) PROVE NoZombie'
  <2>1. dial[p].to \in Peers
    BY <1>4, DialType DEF Connect
  <2>2. PICK c \in Fresh(p, dial[p].to) : Enqueue(dial[p].to, Incoming(c))
    BY <1>4 DEF Connect
  <2>3. Incoming(c) \in RoomEvent
    BY <2>1, <2>2, BetweenConns, EventTypes DEF Fresh
  <2> QED BY <1>4, <1>c, <2>1, <2>2, <2>3 DEF Connect, tasks
<1>5. ASSUME NEW p \in Peers, ConnectFails(p) \/ HandshakeFails(p) PROVE NoZombie'
  <2>1. GiveUp(p)
    BY <1>5 DEF ConnectFails, HandshakeFails
  <2>2. CASE phase[p] = "joining"
    BY <2>1, <2>2, StopZombie DEF GiveUp
  <2>3. CASE phase[p] # "joining"
    BY <2>1, <2>3, <1>a DEF GiveUp, tasks
  <2> QED BY <2>2, <2>3
<1>6. ASSUME NEW p \in Peers, HandshakeDone(p) PROVE NoZombie'
  <2>1. dial[p].conn \in Conns /\ dial[p].to \in Peers
    BY <1>6, DialType DEF HandshakeDone
  <2>2. AddSession(p, dial[p].to, dial[p].conn) /\ UNCHANGED events
    BY <1>6 DEF HandshakeDone
  <2> QED BY <2>1, <2>2, AddZombie DEF Queued
<1>7. ASSUME NEW p \in Peers, AcceptPeer(p) PROVE NoZombie'
  <2> DEFINE c == Head(events[p]).conn
  <2>1. Take(p, "IncomingConnection")
    BY <1>7 DEF AcceptPeer
  <2>2. c \in Conns /\ c.from \in Peers /\ Head(events[p]) = Incoming(c)
    BY <2>1, IncomingEnds DEF Ends
  <2>3. \A a, b \in Peers : Queued(a, Disconnected(b)) => Queued(a, Disconnected(b))'
    BY <2>1, <2>2, QueuedTake, EventsDiffer
  <2>4. AddSession(p, c.from, c)
    BY <1>7 DEF AcceptPeer
  <2> QED BY <2>2, <2>3, <2>4, AddZombie
<1>8. ASSUME NEW p \in Peers, RefuseDuplicate(p) \/ IncomingLost(p) \/ HandlePeerList(p)
      PROVE  NoZombie'
  BY <1>8, <1>b DEF RefuseDuplicate, IncomingLost, HandlePeerList, room, tasks
<1>9. ASSUME NEW p \in Peers, HandlePeerDisconnected(p) PROVE NoZombie'
  <2> DEFINE q == Head(events[p]).peer
  <2>1. Take(p, "PeerDisconnected") /\ UNCHANGED monitor
    BY <1>9 DEF HandlePeerDisconnected, tasks
  <2>2. q \in Peers /\ Head(events[p]) = Disconnected(q)
    BY <2>1, TakeType, EventKinds DEF Take
  <2>3. peers' = [peers EXCEPT ![p][q] = None]
    BY <1>9 DEF HandlePeerDisconnected
  <2>4. \A a, b \in Peers : peers'[a][b] = IF a = p /\ b = q THEN None ELSE peers[a][b]
    <3> HIDE DEF q
    <3>1. peers \in [Peers -> [Peers -> Conns \cup {None}]]
      BY DEF TypeOK
    <3> QED BY <2>2, <2>3, <3>1
  <2>5. \A a, b \in Peers : Queued(a, Disconnected(b)) =>
          Queued(a, Disconnected(b))' \/ (a = p /\ b = q)
    BY <2>1, <2>2, QueuedTake, EventsDiffer
  <2>6. \A c \in Conns : c # None
    BY ConnEnds
  <2> QED BY <2>1, <2>4, <2>5, <2>6 DEF NoZombie
<1>10. ASSUME NEW p \in Peers, NEW c \in Conns, Deliver(p, c) \/ ReaderFails(p, c)
       PROVE  NoZombie'
  <2>1. PICK e \in RoomEvent : Enqueue(p, e)
    <3>1. CASE Deliver(p, c)
      <4>1. Head(wire[c][p]) \in SUBSET Peers
        BY <3>1, WireType DEF Deliver
      <4> QED BY <3>1, <4>1, EventTypes DEF Deliver
    <3>2. CASE ReaderFails(p, c)
      BY <3>2, OtherType, EventTypes DEF ReaderFails
    <3> QED BY <1>10, <3>1, <3>2
  <2>2. UNCHANGED <<peers, monitor>>
    BY <1>10 DEF Deliver, ReaderFails, room, tasks
  <2> QED BY <1>c, <2>1, <2>2
<1>11. ASSUME NEW p \in Peers, NEW c \in Conns, MonitorFires(p, c) PROVE NoZombie'
  <2>1. Disconnected(Other(p, c)) \in RoomEvent /\ Other(p, c) \in Peers
    BY OtherType, EventTypes
  <2>2. /\ Enqueue(p, Disconnected(Other(p, c)))
        /\ monitor' = [monitor EXCEPT ![p] = @ \ {c}] /\ UNCHANGED peers
    BY <1>11 DEF MonitorFires, room
  <2>3. \A a, b \in Peers : Queued(a, Disconnected(b)) => Queued(a, Disconnected(b))'
    BY <2>1, <2>2, QueuedEnqueue
  <2>4. Queued(p, Disconnected(Other(p, c)))'
    BY <2>1, <2>2, QueuedEnqueue
  <2>5. \A b \in Peers : peers[p][b] = c => b = Other(p, c)
    BY EntryOther
  <2>6. \A a \in Peers : \A d \in Conns : d \in monitor[a] => d \in monitor'[a] \/ (a = p /\ d = c)
    BY <2>2 DEF TypeOK
  <2> QED BY <2>2, <2>3, <2>4, <2>5, <2>6 DEF NoZombie
<1>12. ASSUME NEW p \in Peers, NEW c \in Conns, ReaderQuits(p, c) PROVE NoZombie'
  BY <1>12, <1>a DEF ReaderQuits, room
<1>13. ASSUME NEW p \in Peers, NEW c \in Conns, MonitorQuits(p, c) PROVE NoZombie'
  <2>1. /\ peers[p][Other(p, c)] # c
        /\ monitor' = [monitor EXCEPT ![p] = @ \ {c}] /\ UNCHANGED <<peers, events>>
    BY <1>13 DEF MonitorQuits, Cancelled, room
  <2>2. \A b \in Peers : peers[p][b] = c => b = Other(p, c)
    BY EntryOther
  <2>3. \A a \in Peers : \A d \in Conns : d \in monitor[a] => d \in monitor'[a] \/ (a = p /\ d = c)
    BY <2>1 DEF TypeOK
  <2> QED BY <2>1, <2>2, <2>3 DEF NoZombie, Queued
<1>14. ASSUME NEW c \in Conns, Drop(c) PROVE NoZombie'
  BY <1>14, <1>a DEF Drop, room, tasks
<1>15. CASE UNCHANGED vars
  BY <1>15, <1>a DEF vars, room, tasks
<1> QED
  BY <1>1, <1>2, <1>3, <1>4, <1>5, <1>6, <1>7, <1>8, <1>9, <1>10, <1>11, <1>12,
     <1>13, <1>14, <1>15, NextCases

\* Every session whose connection is lost is going to be removed: its monitor is
\* alive or the event that removes it is queued.
THEOREM AlwaysWatched == Spec => []NoZombie
<1>1. Init => TypeOK /\ Ends /\ NoZombie
  <2>1. \A c \in Conns : c # None
    BY ConnEnds
  <2> QED BY <2>1, BoundsAssumption
          DEF Init, TypeOK, NoDial, Ends, EntryEnds, DialEnds, QueuedEnds, Queued, NoZombie
<1> QED BY <1>1, TypeStep, EndsStep, ZombieStep, PTL DEF Spec

-------------------------------------------------------------------------------
(* What a step does to the state of one participant or connection. *)

LEMMA StopIs ==
  ASSUME TypeOK, NEW p \in Peers, Stop(p)
  PROVE  /\ \A a \in Peers : /\ phase'[a] = IF a = p THEN "gone" ELSE phase[a]
                             /\ dial'[a] = IF a = p THEN NoDial ELSE dial[a]
                             /\ work'[a] = IF a = p THEN {} ELSE work[a]
                             /\ events'[a] = IF a = p THEN <<>> ELSE events[a]
                             /\ monitor'[a] = IF a = p THEN {} ELSE monitor[a]
                             /\ reader'[a] = IF a = p THEN {} ELSE reader[a]
         /\ \A a, b \in Peers : peers'[a][b] = IF a = p THEN None ELSE peers[a][b]
         /\ \A c \in Conns, a \in Peers : wire'[c][a] = IF a = p THEN <<>> ELSE wire[c][a]
         /\ up' \subseteq up /\ \A c \in up' : c.from # p /\ c.to # p
         /\ UNCHANGED <<born, starts>>
<1>1. \A a \in Peers : /\ phase'[a] = IF a = p THEN "gone" ELSE phase[a]
                       /\ dial'[a] = IF a = p THEN NoDial ELSE dial[a]
                       /\ work'[a] = IF a = p THEN {} ELSE work[a]
  BY DEF TypeOK, Stop
<1>2. \A a \in Peers : /\ events'[a] = IF a = p THEN <<>> ELSE events[a]
                       /\ monitor'[a] = IF a = p THEN {} ELSE monitor[a]
                       /\ reader'[a] = IF a = p THEN {} ELSE reader[a]
  BY DEF TypeOK, Stop
<1>3. \A a, b \in Peers : peers'[a][b] = IF a = p THEN None ELSE peers[a][b]
  BY DEF TypeOK, Stop
<1>4. \A c \in Conns, a \in Peers : wire'[c][a] = IF a = p THEN <<>> ELSE wire[c][a]
  BY DEF TypeOK, Stop
<1>5. up' \subseteq up /\ \A c \in up' : c.from # p /\ c.to # p
  BY DEF Stop
<1> QED BY <1>1, <1>2, <1>3, <1>4, <1>5 DEF Stop

LEMMA GiveUpIs ==
  ASSUME TypeOK, NEW p \in Peers, GiveUp(p), phase[p] # "joining"
  PROVE  /\ \A a \in Peers : dial'[a] = IF a = p THEN NoDial ELSE dial[a]
         /\ \A c \in Conns, a \in Peers :
              wire'[c][a] = IF a = p /\ c = dial[p].conn THEN <<>> ELSE wire[c][a]
         /\ UNCHANGED <<phase, born, starts, work, peers, events, tasks, up>>
<1>1. \A a \in Peers : dial'[a] = IF a = p THEN NoDial ELSE dial[a]
  BY SetDial DEF GiveUp
<1>2. \A c \in Conns, a \in Peers :
        wire'[c][a] = IF a = p /\ c = dial[p].conn THEN <<>> ELSE wire[c][a]
  BY DEF TypeOK, GiveUp
<1> QED BY <1>1, <1>2 DEF GiveUp

LEMMA AddSessionEntry ==
  ASSUME TypeOK, NEW p \in Peers, NEW q \in Peers, NEW c \in Conns, AddSession(p, q, c)
  PROVE  \A a, b \in Peers : peers'[a][b] = IF a = p /\ b = q THEN c ELSE peers[a][b]
<1>1. peers' = [peers EXCEPT ![p][q] = c]
  BY DEF AddSession
<1>2. peers \in [Peers -> [Peers -> Conns \cup {None}]]
  BY DEF TypeOK
<1> QED BY <1>1, <1>2

LEMMA AddSessionTasks ==
  ASSUME TypeOK, NEW p \in Peers, NEW q \in Peers, NEW c \in Conns, AddSession(p, q, c)
  PROVE  \A a \in Peers : /\ monitor'[a] = IF a = p THEN monitor[a] \cup {c} ELSE monitor[a]
                         /\ reader'[a] = IF a = p THEN reader[a] \cup {c} ELSE reader[a]
BY DEF TypeOK, AddSession

\* ... and the map of p, which its list is made of.
LEMMA AddSessionMap ==
  ASSUME TypeOK, NEW p \in Peers, NEW q \in Peers, NEW c \in Conns, AddSession(p, q, c)
  PROVE  peers'[p] = [peers[p] EXCEPT ![q] = c]
BY DEF TypeOK, AddSession

LEMMA SetWire ==
  ASSUME NEW w \in Wires, NEW p \in Peers, NEW c \in Conns, NEW x
  PROVE  \A d \in Conns, a \in Peers :
           [w EXCEPT ![c][p] = x][d][a] = IF a = p /\ d = c THEN x ELSE w[d][a]
BY DEF Wires

\* The connection that is made.
LEMMA ConnectIs ==
  ASSUME TypeOK, NEW p \in Peers, Connect(p)
  PROVE  \E c \in Conns :
           /\ Unused(c) /\ c.from = p /\ c.to = dial[p].to /\ c.to \in Peers
           /\ phase[c.to] = "running"
           /\ dial[p].to # None /\ dial[p].conn = None
           /\ dial'[p].conn = c /\ dial'[p].to = dial[p].to
           /\ \A a \in Peers : a # p => dial'[a] = dial[a]
           /\ up' = up \cup {c}
           /\ HasRoom(c.to) /\ Enqueue(c.to, Incoming(c))
           /\ UNCHANGED <<phase, born, starts, work, peers, tasks, wire, faults>>
<1>1. dial[p].to \in Peers
  BY DialType DEF Connect
<1>2. PICK c \in Fresh(p, dial[p].to) :
        /\ dial' = [dial EXCEPT ![p].conn = c]
        /\ up' = up \cup {c}
        /\ Enqueue(dial[p].to, Incoming(c))
  BY DEF Connect
<1>3. c \in Conns /\ c.from = p /\ c.to = dial[p].to /\ Unused(c)
  BY <1>1, <1>2, BetweenConns, ConnEnds DEF Fresh, Between
<1>4. \A a \in Peers : a # p => dial'[a] = dial[a]
  BY <1>2 DEF TypeOK
<1>5. dial'[p].conn = c /\ dial'[p].to = dial[p].to
  <2>1. dial[p] \in [to : Peers, conn : Conns \cup {None}]
    <3>1. dial[p] \in {NoDial} \cup [to : Peers, conn : Conns \cup {None}]
      BY DEF TypeOK
    <3>2. dial[p].to # None
      BY DEF Connect
    <3> QED BY <3>1, <3>2 DEF NoDial
  <2>2. dial'[p] = [dial[p] EXCEPT !.conn = c]
    BY <1>2 DEF TypeOK
  <2> QED BY <2>1, <2>2
<1> QED BY <1>1, <1>2, <1>3, <1>4, <1>5 DEF Connect

\* A session is added by its dialler, on the answer, or by its acceptor.
LEMMA HandshakeIs ==
  ASSUME TypeOK, DialEnds, NEW p \in Peers, HandshakeDone(p)
  PROVE  /\ dial[p].conn \in Conns /\ dial[p].to \in Peers
         /\ dial[p].conn.from = p /\ dial[p].conn.to = dial[p].to
         /\ wire[dial[p].conn][p] # <<>>
         /\ AddSession(p, dial[p].to, dial[p].conn)
         /\ \A a \in Peers : dial'[a] = IF a = p THEN NoDial ELSE dial[a]
         /\ \A a \in Peers : phase'[a] = IF a = p /\ phase[a] = "joining" THEN "meshing"
                                         ELSE phase[a]
         /\ UNCHANGED <<born, starts, events, up>>
<1>1. /\ dial[p].conn \in Conns /\ dial[p].to \in Peers
      /\ dial[p].conn.from = p /\ dial[p].conn.to = dial[p].to
      /\ wire[dial[p].conn][p] # <<>>
      /\ AddSession(p, dial[p].to, dial[p].conn)
      /\ UNCHANGED <<born, starts, events, up>>
  BY DialType DEF HandshakeDone, DialEnds
<1>2. \A a \in Peers : dial'[a] = IF a = p THEN NoDial ELSE dial[a]
  <2>1. dial' = [dial EXCEPT ![p] = NoDial]
    BY DEF HandshakeDone
  <2> QED BY <2>1, SetDial
<1>3. \A a \in Peers : phase'[a] = IF a = p /\ phase[a] = "joining" THEN "meshing"
                                   ELSE phase[a]
  BY DEF HandshakeDone, TypeOK
<1> QED BY <1>1, <1>2, <1>3

LEMMA AcceptIs ==
  ASSUME TypeOK, QueuedEnds, NEW p \in Peers, AcceptPeer(p)
  PROVE  /\ Take(p, "IncomingConnection") /\ phase[p] = "running"
         /\ Head(events[p]).conn \in Conns /\ Head(events[p]).conn.from \in Peers
         /\ Head(events[p]).conn.to = p
         /\ Queued(p, Incoming(Head(events[p]).conn))
         /\ Head(events[p]) = Incoming(Head(events[p]).conn)
         /\ peers[p][Head(events[p]).conn.from] = None
         /\ AddSession(p, Head(events[p]).conn.from, Head(events[p]).conn)
         /\ UNCHANGED <<phase, born, starts, dial, work, up, faults>>
<1>1. Take(p, "IncomingConnection")
  BY DEF AcceptPeer
<1>2. phase[p] = "running"
  BY <1>1 DEF Take, Idle
<1> QED BY <1>1, <1>2, IncomingEnds DEF AcceptPeer

LEMMA LeaveIs ==
  ASSUME TypeOK, NEW p \in Peers, HandlePeerDisconnected(p)
  PROVE  \E q \in Peers :
           /\ Take(p, "PeerDisconnected") /\ phase[p] = "running"
           /\ Head(events[p]) = Disconnected(q)
           /\ peers'[p] = [peers[p] EXCEPT ![q] = None]
           /\ \A a, b \in Peers : peers'[a][b] = IF a = p /\ b = q THEN None ELSE peers[a][b]
           /\ wire' = Broadcast(p, peers'[p], wire)
           /\ UNCHANGED <<phase, born, starts, dial, work, tasks, up, faults>>
<1> DEFINE q == Head(events[p]).peer
<1>1. Take(p, "PeerDisconnected") /\ phase[p] = "running"
  BY DEF HandlePeerDisconnected, Take, Idle
<1>2. q \in Peers /\ Head(events[p]) = Disconnected(q)
  BY <1>1, TakeType, EventKinds DEF Take
<1>3. /\ peers' = [peers EXCEPT ![p] = [peers[p] EXCEPT ![q] = None]]
      /\ wire' = Broadcast(p, [peers[p] EXCEPT ![q] = None], wire)
      /\ UNCHANGED <<phase, born, starts, dial, work, tasks, up, faults>>
  BY DEF HandlePeerDisconnected
<1> HIDE DEF q
<1>4. peers'[p] = [peers[p] EXCEPT ![q] = None]
  BY <1>3 DEF TypeOK
<1>5. \A a, b \in Peers : peers'[a][b] = IF a = p /\ b = q THEN None ELSE peers[a][b]
  <2>1. peers' = [peers EXCEPT ![p][q] = None]
    BY <1>3
  <2>2. peers \in [Peers -> [Peers -> Conns \cup {None}]]
    BY DEF TypeOK
  <2> QED BY <1>2, <2>1, <2>2
<1> QED BY <1>1, <1>2, <1>3, <1>4, <1>5

-------------------------------------------------------------------------------
(* Who may know whom, and who may wait for whom. *)

OrderInv == JoiningQuiet /\ AcceptorRuns /\ TicketOrder /\ KeyOrder

LEMMA OrderInit == Init => OrderInv
BY DEF Init, OrderInv, JoiningQuiet, AcceptorRuns, TicketOrder, KeyOrder, NoDial

\* Nothing changes but that lists get shorter and readers end.
LEMMA OrderFrame ==
  ASSUME OrderInv, UNCHANGED <<phase, born, starts, dial>>,
         \A a \in Peers : work'[a] \subseteq work[a] /\ reader'[a] \subseteq reader[a]
  PROVE  OrderInv'
BY DEF OrderInv, JoiningQuiet, AcceptorRuns, TicketOrder, KeyOrder

LEMMA StopOrder ==
  ASSUME TypeOK, OrderInv, NEW p \in Peers, Stop(p)
  PROVE  OrderInv'
<1>1. /\ \A a \in Peers : /\ phase'[a] = IF a = p THEN "gone" ELSE phase[a]
                          /\ dial'[a] = IF a = p THEN NoDial ELSE dial[a]
                          /\ work'[a] = IF a = p THEN {} ELSE work[a]
                          /\ reader'[a] = IF a = p THEN {} ELSE reader[a]
      /\ UNCHANGED <<born, starts>>
  BY StopIs
<1>2. \A a \in Peers : dial[a].to # None => dial[a].to \in Peers
  BY DialType
<1>3. \A a \in Peers : dial[a].conn # None => dial[a].to \in Peers
  BY DialType
<1>4. NoDial.to = None /\ NoDial.conn = None
  BY DEF NoDial
<1>5. JoiningQuiet'
  BY <1>1 DEF OrderInv, JoiningQuiet
<1>6. AcceptorRuns'
  BY <1>1, <1>3, <1>4 DEF OrderInv, AcceptorRuns
<1>7. TicketOrder'
  BY <1>1, <1>2 DEF OrderInv, TicketOrder
<1>8. KeyOrder'
  BY <1>1, <1>4 DEF OrderInv, KeyOrder
<1> QED BY <1>5, <1>6, <1>7, <1>8 DEF OrderInv

LEMMA OrderStep == TypeOK /\ Ends /\ OrderInv /\ [Next]_vars => OrderInv'
<1> SUFFICES ASSUME TypeOK, Ends, OrderInv, [Next]_vars PROVE OrderInv'
  OBVIOUS
<1> USE DEF OrderInv
<1>a. \A a \in Peers : /\ dial[a].to # None => dial[a].to \in Peers
                       /\ dial[a].conn # None => dial[a].to \in Peers
  BY DialType
<1>b. NoDial.to = None /\ NoDial.conn = None
  BY DEF NoDial
<1>c. None \notin Peers /\ \A a \in Peers : a \in Nat /\ born[a] \in Nat
  BY PeersAssumption DEF TypeOK
<1>1. ASSUME NEW p \in Peers, StartCall(p) PROVE OrderInv'
  <2>1. /\ phase[p] = "off" /\ starts = 0 /\ starts' = 1
        /\ \A a \in Peers : phase'[a] = IF a = p THEN "running" ELSE phase[a]
        /\ \A a \in Peers : born'[a] = IF a = p THEN 1 ELSE born[a]
        /\ UNCHANGED <<dial, work, reader>>
    BY <1>1 DEF StartCall, TypeOK, tasks
  <2>2. JoiningQuiet' /\ AcceptorRuns'
    BY <2>1, <1>a DEF JoiningQuiet, AcceptorRuns
  <2>3. TicketOrder'
    BY <2>1, <1>a, <1>c DEF TicketOrder
  <2>4. KeyOrder'
    BY <2>1, <1>b DEF KeyOrder, JoiningQuiet
  <2> QED BY <2>2, <2>3, <2>4
<1>2. ASSUME NEW p \in Peers, FinishJoin(p) PROVE OrderInv'
  <2>1. /\ phase[p] = "meshing"
        /\ \A a \in Peers : phase'[a] = IF a = p THEN "running" ELSE phase[a]
        /\ UNCHANGED <<born, starts, dial, work, reader>>
    BY <1>2 DEF FinishJoin, TypeOK, tasks
  <2>2. JoiningQuiet' /\ AcceptorRuns'
    BY <2>1, <1>a DEF JoiningQuiet, AcceptorRuns
  <2>3. TicketOrder' /\ KeyOrder'
    BY <2>1, <1>a DEF TicketOrder, KeyOrder
  <2> QED BY <2>2, <2>3
<1>3. ASSUME NEW p \in Peers, NEW t \in Peers, Join(p, t) PROVE OrderInv'
  <2>1. /\ phase[p] = "off" /\ phase[t] # "off" /\ p # t
        /\ \A a \in Peers : phase'[a] = IF a = p THEN "joining" ELSE phase[a]
        /\ \A a \in Peers : born'[a] = IF a = p THEN starts + 1 ELSE born[a]
        /\ starts' = starts + 1 /\ starts \in Nat
        /\ UNCHANGED <<work, reader>>
    BY <1>3 DEF Join, TypeOK, tasks
  <2>2. \A a \in Peers : dial'[a] = IF a = p THEN [to |-> t, conn |-> None] ELSE dial[a]
    <3>1. dial' = [dial EXCEPT ![p] = [to |-> t, conn |-> None]]
      BY <1>3 DEF Join
    <3> QED BY <3>1, SetDial
  <2>3. \A a \in Peers : /\ dial'[a].to = IF a = p THEN t ELSE dial[a].to
                         /\ dial'[a].conn = IF a = p THEN None ELSE dial[a].conn
    BY <2>2
  <2>4. JoiningQuiet'
    BY <2>1, <2>2 DEF JoiningQuiet
  <2>5. AcceptorRuns'
    BY <2>1, <2>3, <1>a DEF AcceptorRuns
  <2>6. TicketOrder'
    <3>1. \A a \in Peers : born[a] <= starts
      BY DEF TicketOrder
    <3>2. \A a \in Peers : born'[a] <= starts'
      BY <2>1, <3>1, <1>c
    <3>3. born[t] < born'[p] /\ born'[t] = born[t] /\ phase'[t] # "off" /\ dial'[p].to = t /\ t # None
      BY <2>1, <2>3, <3>1, <1>c
    <3>4. ASSUME NEW a \in Peers, a # p, phase'[a] = "joining"
          PROVE  /\ dial'[a].to # None /\ phase'[dial'[a].to] # "off"
                 /\ born'[dial'[a].to] < born'[a]
      <4>1. /\ dial[a].to # None /\ phase[dial[a].to] # "off"
            /\ born[dial[a].to] < born[a] /\ dial[a].to \in Peers /\ dial'[a].to = dial[a].to
        BY <2>1, <2>3, <3>4, <1>a DEF TicketOrder
      <4> QED BY <2>1, <3>4, <4>1
    <3> QED BY <3>2, <3>3, <3>4 DEF TicketOrder
  <2>7. KeyOrder'
    BY <2>1, <2>3 DEF KeyOrder
  <2> QED BY <2>4, <2>5, <2>6, <2>7
<1>4. ASSUME NEW p \in Peers, Quit(p) PROVE OrderInv'
  BY <1>4, StopOrder DEF Quit
<1>5. ASSUME NEW p \in Peers, NEW q \in Peers, Dial(p, q) PROVE OrderInv'
  <2>1. /\ phase[p] \in {"meshing", "running"} /\ q \in work[p] /\ p < q
        /\ UNCHANGED <<phase, born, starts, reader>>
        /\ \A a \in Peers : work'[a] \subseteq work[a]
    BY <1>5 DEF Dial, TypeOK, tasks, KeyOrder
  <2>2. \A a \in Peers : dial'[a] = IF a = p THEN [to |-> q, conn |-> None] ELSE dial[a]
    BY <1>5, SetDial DEF Dial
  <2>3. \A a \in Peers : /\ dial'[a].to = IF a = p THEN q ELSE dial[a].to
                         /\ dial'[a].conn = IF a = p THEN None ELSE dial[a].conn
    BY <2>2
  <2>4. JoiningQuiet'
    BY <2>1, <2>2 DEF JoiningQuiet
  <2>5. AcceptorRuns'
    BY <2>1, <2>3, <1>a DEF AcceptorRuns
  <2>6. TicketOrder'
    BY <2>1, <2>3 DEF TicketOrder
  <2>7. KeyOrder'
    BY <2>1, <2>3 DEF KeyOrder
  <2> QED BY <2>4, <2>5, <2>6, <2>7
<1>6. ASSUME NEW p \in Peers, Connect(p) PROVE OrderInv'
  <2>1. PICK c \in Conns :
          /\ c.to = dial[p].to /\ phase[c.to] = "running" /\ dial[p].to # None
          /\ dial'[p].conn = c /\ dial'[p].to = dial[p].to
          /\ \A a \in Peers : a # p => dial'[a] = dial[a]
          /\ UNCHANGED <<phase, born, starts, work, tasks>>
    BY <1>6, ConnectIs
  <2>2. \A a \in Peers : dial'[a].to = dial[a].to
    BY <2>1
  <2>3. JoiningQuiet'
    BY <2>1, <1>b DEF JoiningQuiet, tasks
  <2>4. AcceptorRuns'
    BY <2>1 DEF AcceptorRuns
  <2>5. TicketOrder' /\ KeyOrder'
    BY <2>1, <2>2 DEF TicketOrder, KeyOrder
  <2> QED BY <2>3, <2>4, <2>5
<1>7. ASSUME NEW p \in Peers, ConnectFails(p) \/ HandshakeFails(p) PROVE OrderInv'
  <2>1. GiveUp(p)
    BY <1>7 DEF ConnectFails, HandshakeFails
  <2>2. CASE phase[p] = "joining"
    BY <2>1, <2>2, StopOrder DEF GiveUp
  <2>3. CASE phase[p] # "joining"
    <3>1. /\ \A a \in Peers : dial'[a] = IF a = p THEN NoDial ELSE dial[a]
          /\ UNCHANGED <<phase, born, starts, work, reader>>
      BY <2>1, <2>3, GiveUpIs DEF tasks
    <3>2. JoiningQuiet'
      BY <3>1 DEF JoiningQuiet
    <3>3. AcceptorRuns'
      BY <3>1, <1>b DEF AcceptorRuns
    <3>4. TicketOrder' /\ KeyOrder'
      BY <2>3, <3>1, <1>b DEF TicketOrder, KeyOrder
    <3> QED BY <3>2, <3>3, <3>4
  <2> QED BY <2>2, <2>3
<1>8. ASSUME NEW p \in Peers, HandshakeDone(p) PROVE OrderInv'
  <2>1. /\ dial[p].conn \in Conns /\ dial[p].to \in Peers
        /\ AddSession(p, dial[p].to, dial[p].conn)
        /\ \A a \in Peers : dial'[a] = IF a = p THEN NoDial ELSE dial[a]
        /\ \A a \in Peers : phase'[a] = IF a = p /\ phase[a] = "joining" THEN "meshing"
                                        ELSE phase[a]
        /\ UNCHANGED <<born, starts>>
    BY <1>8, HandshakeIs DEF Ends
  <2>2. \A a \in Peers : a # p => reader'[a] = reader[a]
    BY <2>1, AddSessionTasks
  <2>3. phase[p] # "off" /\ phase'[p] \notin {"off", "joining"}
    <3>1. dial[p].conn # None
      BY <2>1, ConnEnds
    <3> QED BY <2>1, <3>1, <1>b DEF JoiningQuiet
  <2>4. \A a \in Peers : \A q \in work'[a] : a < q
    <3>1. CASE phase[p] = "joining"
      <4> DEFINE T == Targets(p, Head(wire[dial[p].conn][p]),
                              [peers[p] EXCEPT ![dial[p].to] = dial[p].conn])
      <4>1. work' = [work EXCEPT ![p] = T]
        BY <1>8, <3>1 DEF HandshakeDone
      <4>2. \A q \in T : p < q
        BY DEF Targets, ShouldInitiate
      <4> HIDE DEF T
      <4>3. \A a \in Peers : work'[a] = IF a = p THEN T ELSE work[a]
        BY <4>1 DEF TypeOK
      <4> QED BY <4>2, <4>3 DEF KeyOrder
    <3>2. CASE phase[p] # "joining"
      BY <1>8, <3>2 DEF HandshakeDone, KeyOrder
    <3> QED BY <3>1, <3>2
  <2>5. JoiningQuiet'
    BY <2>1, <2>2, <2>3 DEF JoiningQuiet
  <2>6. AcceptorRuns'
    BY <2>1, <1>a, <1>b DEF AcceptorRuns
  <2>7. TicketOrder'
    BY <2>1, <2>3, <1>a DEF TicketOrder
  <2>8. KeyOrder'
    BY <2>1, <2>4, <1>b DEF KeyOrder
  <2> QED BY <2>5, <2>6, <2>7, <2>8
<1>9. ASSUME NEW p \in Peers, AcceptPeer(p) PROVE OrderInv'
  <2>1. /\ phase[p] = "running" /\ UNCHANGED <<phase, born, starts, dial, work>>
        /\ \A a \in Peers : a # p => reader'[a] = reader[a]
    <3>1. PICK c \in Conns : /\ c.from \in Peers /\ AddSession(p, c.from, c)
                             /\ phase[p] = "running"
                             /\ UNCHANGED <<phase, born, starts, dial, work>>
      BY <1>9, AcceptIs DEF Ends
    <3> QED BY <3>1, AddSessionTasks
  <2>2. JoiningQuiet'
    BY <2>1 DEF JoiningQuiet
  <2>3. AcceptorRuns' /\ TicketOrder' /\ KeyOrder'
    BY <2>1 DEF AcceptorRuns, TicketOrder, KeyOrder
  <2> QED BY <2>2, <2>3
<1>10. ASSUME NEW p \in Peers, HandlePeerList(p) PROVE OrderInv'
  <2>1. /\ UNCHANGED <<phase, born, starts, dial, reader>>
        /\ work' = [work EXCEPT ![p] = Targets(p, Head(events[p]).list, peers[p])]
    BY <1>10 DEF HandlePeerList, tasks
  <2>2. \A a \in Peers : \A q \in work'[a] : a < q
    BY <2>1 DEF KeyOrder, Targets, ShouldInitiate, TypeOK
  <2>3. JoiningQuiet' /\ AcceptorRuns' /\ TicketOrder' /\ KeyOrder'
    BY <2>1, <2>2 DEF JoiningQuiet, AcceptorRuns, TicketOrder, KeyOrder
  <2> QED BY <2>3
<1>11. ASSUME NEW p \in Peers,
              RefuseDuplicate(p) \/ IncomingLost(p) \/ HandlePeerDisconnected(p) \/ Tick(p)
       PROVE  OrderInv'
  BY <1>11, OrderFrame
     DEF RefuseDuplicate, IncomingLost, HandlePeerDisconnected, Tick, room, tasks
<1>12. ASSUME NEW p \in Peers, NEW c \in Conns,
              \/ Deliver(p, c) \/ ReaderFails(p, c) \/ ReaderQuits(p, c)
              \/ MonitorFires(p, c) \/ MonitorQuits(p, c)
       PROVE  OrderInv'
  <2>1. UNCHANGED room
    BY <1>12 DEF Deliver, ReaderFails, ReaderQuits, MonitorFires, MonitorQuits
  <2>2. reader' = reader \/ reader' = [reader EXCEPT ![p] = @ \ {c}]
    BY <1>12 DEF Deliver, ReaderFails, ReaderQuits, MonitorFires, MonitorQuits, tasks
  <2>3. \A a \in Peers : reader'[a] \subseteq reader[a]
    <3>1. reader \in [Peers -> SUBSET Conns]
      BY DEF TypeOK
    <3> QED BY <2>2, <3>1
  <2> QED BY <2>1, <2>3, OrderFrame DEF room
<1>13. ASSUME NEW c \in Conns, Drop(c) PROVE OrderInv'
  BY <1>13, OrderFrame DEF Drop, room, tasks
<1>14. CASE UNCHANGED vars
  BY <1>14, OrderFrame DEF vars, room, tasks
<1> QED
  BY <1>1, <1>2, <1>3, <1>4, <1>5, <1>6, <1>7, <1>8, <1>9, <1>10, <1>11, <1>12,
     <1>13, <1>14, NextCases

-------------------------------------------------------------------------------
(* What a step does to a wire, and to the tasks and sessions. *)

\* Nothing is written to it.
Shrunk(d, r) ==
  /\ wire'[d][r] # <<>> => wire[d][r] # <<>>
  /\ \A L \in SUBSET Peers : OnWire(d, r, L)' => OnWire(d, r, L)

\* p, which has a session on it, writes its list for r, which reads.
Appended(p, d, r) ==
  /\ phase[p] \notin {"off", "joining"}
  /\ r # p /\ peers'[p][r] = d /\ Receives(r, d)
  /\ wire'[d][r] # <<>>
  /\ \A L \in SUBSET Peers : OnWire(d, r, L)' =>
       OnWire(d, r, L) \/ L = PeerList(p, peers[p]) \/ L = PeerList(p, peers'[p])

LEMMA WireKept ==
  ASSUME TypeOK, NEW d \in Conns, NEW r \in Peers,
         \/ wire'[d][r] = wire[d][r] \/ wire'[d][r] = <<>>
         \/ wire[d][r] # <<>> /\ wire'[d][r] = Tail(wire[d][r])
  PROVE  Shrunk(d, r)
<1>1. CASE wire'[d][r] = wire[d][r]
  BY <1>1 DEF Shrunk, OnWire
<1>2. CASE wire'[d][r] = <<>>
  <2>1. 1..Len(wire'[d][r]) = {}
    BY <1>2
  <2> QED BY <1>2, <2>1 DEF Shrunk, OnWire
<1>3. CASE wire[d][r] # <<>> /\ wire'[d][r] = Tail(wire[d][r])
  <2>1. wire[d][r] \in Seq(SUBSET Peers)
    BY DEF TypeOK
  <2>2. \A L \in SUBSET Peers : OnWire(d, r, L)' => OnWire(d, r, L)
    <3> SUFFICES ASSUME NEW L \in SUBSET Peers,
                        NEW i \in 1..Len(wire'[d][r]), wire'[d][r][i] = L
                 PROVE  \E j \in 1..Len(wire[d][r]) : wire[d][r][j] = L
      BY DEF OnWire
    <3> QED BY <1>3, <2>1, TailIn
  <2> QED BY <1>3, <2>2 DEF Shrunk
<1> QED BY <1>1, <1>2, <1>3

LEMMA AppendNotEmpty ==
  ASSUME NEW T, NEW s \in Seq(T), NEW e \in T
  PROVE  Append(s, e) # <<>>
<1>1. Len(Append(s, e)) = Len(s) + 1 /\ Len(s) \in Nat
  OBVIOUS
<1> QED BY <1>1

\* One list more on a wire.
LEMMA WireMore ==
  ASSUME TypeOK, NEW d \in Conns, NEW r \in Peers, NEW new \in SUBSET Peers,
         NEW s \in Seq(SUBSET Peers),
         s = wire[d][r] \/ (wire[d][r] # <<>> /\ s = Tail(wire[d][r])),
         wire'[d][r] = Append(s, new)
  PROVE  /\ wire'[d][r] # <<>>
         /\ \A L \in SUBSET Peers : OnWire(d, r, L)' => OnWire(d, r, L) \/ L = new
<1>1. wire[d][r] \in Seq(SUBSET Peers)
  BY DEF TypeOK
<1>2. wire'[d][r] # <<>>
  <2>1. Len(Append(s, new)) = Len(s) + 1 /\ Len(s) \in Nat
    OBVIOUS
  <2>2. Append(s, new) # <<>>
    BY <2>1
  <2> QED BY <2>2
<1>3. ASSUME NEW L \in SUBSET Peers, \E i \in 1..Len(wire'[d][r]) : wire'[d][r][i] = L
      PROVE  (\E j \in 1..Len(wire[d][r]) : wire[d][r][j] = L) \/ L = new
  <2>1. (\E i \in 1..Len(Append(s, new)) : Append(s, new)[i] = L)
    BY <1>3
  <2>2. (\E i \in 1..Len(s) : s[i] = L) \/ L = new
    BY <2>1, AppendIn
  <2>3. (\E i \in 1..Len(s) : s[i] = L) => \E j \in 1..Len(wire[d][r]) : wire[d][r][j] = L
    <3>1. CASE s = wire[d][r]
      BY <3>1
    <3>2. CASE wire[d][r] # <<>> /\ s = Tail(wire[d][r])
      <4>1. (\E i \in 1..Len(Tail(wire[d][r])) : Tail(wire[d][r])[i] = L)
              => \E j \in 1..Len(wire[d][r]) : wire[d][r][j] = L
        BY <1>1, <3>2, TailIn
      <4> QED BY <3>2, <4>1
    <3> QED BY <3>1, <3>2
  <2> QED BY <2>2, <2>3
<1> QED BY <1>2, <1>3 DEF OnWire

\* A broadcast, of a map s.
LEMMA BroadcastAt ==
  ASSUME NEW p \in Peers, NEW s, NEW w \in Wires, NEW d \in Conns, NEW r \in Peers
  PROVE  \/ Broadcast(p, s, w)[d][r] = w[d][r]
         \/ /\ r # p /\ s[r] = d /\ Receives(r, d)
            /\ Broadcast(p, s, w)[d][r] = Append(w[d][r], PeerList(p, s))
BY DEF Broadcast, Wires

\* It is of the map that p has after the step.
LEMMA BroadcastEffect ==
  ASSUME TypeOK, NEW p \in Peers, NEW s, s = peers'[p], phase[p] \notin {"off", "joining"},
         NEW w \in Wires, wire' = Broadcast(p, s, w), NEW d \in Conns, NEW r \in Peers,
         w[d][r] = wire[d][r] \/ (wire[d][r] # <<>> /\ w[d][r] = Tail(wire[d][r]))
  PROVE  Shrunk(d, r) \/ Appended(p, d, r)
<1>1. CASE wire'[d][r] = w[d][r]
  BY <1>1, WireKept
<1>2. CASE /\ r # p /\ s[r] = d /\ Receives(r, d)
           /\ wire'[d][r] = Append(w[d][r], PeerList(p, s))
  <2>1. w[d][r] \in Seq(SUBSET Peers)
    BY DEF Wires
  <2>2. PeerList(p, s) \in SUBSET Peers
    BY DEF PeerList
  <2>3. /\ wire'[d][r] # <<>>
        /\ \A L \in SUBSET Peers : OnWire(d, r, L)' => OnWire(d, r, L) \/ L = PeerList(p, s)
    <3>1. PICK t \in Seq(SUBSET Peers), new \in SUBSET Peers : t = w[d][r] /\ new = PeerList(p, s)
      BY <2>1, <2>2
    <3>2. wire'[d][r] = Append(t, new)
      BY <1>2, <3>1
    <3>3. t = wire[d][r] \/ (wire[d][r] # <<>> /\ t = Tail(wire[d][r]))
      BY <3>1
    <3>4. /\ wire'[d][r] # <<>>
          /\ \A L \in SUBSET Peers : OnWire(d, r, L)' => OnWire(d, r, L) \/ L = new
      BY <3>2, <3>3, WireMore
    <3> QED BY <3>1, <3>4
  <2> QED BY <1>2, <2>3 DEF Appended
<1> QED BY <1>1, <1>2, BroadcastAt

LEMMA WireEffect ==
  ASSUME TypeOK, Ends, OrderInv, [Next]_vars, NEW d \in Conns, NEW r \in Peers
  PROVE  Shrunk(d, r) \/ \E p \in Peers : Appended(p, d, r)
<1>w. wire \in Wires
  BY DEF TypeOK, Wires
<1>1. ASSUME NEW p \in Peers,
             \/ StartCall(p) \/ FinishJoin(p) \/ RefuseDuplicate(p) \/ IncomingLost(p)
             \/ HandlePeerList(p) \/ Connect(p)
      PROVE  Shrunk(d, r)
  BY <1>1, WireKept
     DEF StartCall, FinishJoin, RefuseDuplicate, IncomingLost, HandlePeerList, Connect
<1>2. ASSUME NEW p \in Peers, NEW q \in Peers, Join(p, q) \/ Dial(p, q) PROVE Shrunk(d, r)
  BY <1>2, WireKept DEF Join, Dial
<1>3. ASSUME NEW p \in Peers, Stop(p) PROVE Shrunk(d, r)
  <2>1. wire'[d][r] = IF r = p THEN <<>> ELSE wire[d][r]
    BY <1>3, StopIs
  <2> QED BY <2>1, WireKept
<1>4. ASSUME NEW p \in Peers, Quit(p) PROVE Shrunk(d, r)
  BY <1>3, <1>4 DEF Quit
<1>5. ASSUME NEW p \in Peers, ConnectFails(p) \/ HandshakeFails(p) PROVE Shrunk(d, r)
  <2>1. GiveUp(p)
    BY <1>5 DEF ConnectFails, HandshakeFails
  <2>2. CASE phase[p] = "joining"
    BY <1>3, <2>1, <2>2 DEF GiveUp
  <2>3. CASE phase[p] # "joining"
    <3>1. wire'[d][r] = IF r = p /\ d = dial[p].conn THEN <<>> ELSE wire[d][r]
      BY <2>1, <2>3, GiveUpIs
    <3> QED BY <3>1, WireKept
  <2> QED BY <2>2, <2>3
<1>6. ASSUME NEW p \in Peers, HandshakeDone(p)
      PROVE  Shrunk(d, r) \/ Appended(p, d, r)
  <2>1. PICK c \in Conns, q \in Peers : dial[p].conn = c /\ dial[p].to = q
    BY <1>6, HandshakeIs DEF Ends
  <2>2. wire[c][p] # <<>> /\ AddSession(p, q, c)
    BY <1>6, <2>1, HandshakeIs DEF Ends
  <2> DEFINE w == [wire EXCEPT ![c][p] = Tail(@)]
             s == [peers[p] EXCEPT ![q] = c]
  <2>3. w \in Wires
    BY <2>2, WireType
  <2>4. w[d][r] = IF r = p /\ d = c THEN Tail(wire[d][r]) ELSE wire[d][r]
    BY <1>w DEF Wires
  <2>5. s = peers'[p]
    BY <2>2, AddSessionMap
  <2>6. CASE phase[p] = "joining"
    <3>1. wire' = w
      BY <1>6, <2>1, <2>6 DEF HandshakeDone
    <3> QED BY <2>2, <2>4, <3>1, WireKept
  <2>7. CASE phase[p] # "joining"
    <3>1. wire' = Broadcast(p, s, w)
      BY <1>6, <2>1, <2>7 DEF HandshakeDone
    <3>2. phase[p] \notin {"off", "joining"}
      <4>1. dial[p].conn # None
        BY <1>6 DEF HandshakeDone
      <4> QED BY <2>7, <4>1 DEF OrderInv, JoiningQuiet, NoDial
    <3> HIDE DEF w, s
    <3>3. w[d][r] = wire[d][r] \/ (wire[d][r] # <<>> /\ w[d][r] = Tail(wire[d][r]))
      BY <2>2, <2>4
    <3> QED BY <2>3, <2>5, <3>1, <3>2, <3>3, BroadcastEffect
  <2> QED BY <2>6, <2>7
<1>7. ASSUME NEW p \in Peers, AcceptPeer(p)
      PROVE  Shrunk(d, r) \/ Appended(p, d, r)
  <2>1. PICK c \in Conns : Head(events[p]).conn = c
    BY <1>7, AcceptIs DEF Ends
  <2>2. /\ c.from \in Peers /\ c.to = p /\ phase[p] = "running"
        /\ AddSession(p, c.from, c)
    BY <1>7, <2>1, AcceptIs DEF Ends
  <2> DEFINE q == c.from
             old == PeerList(p, peers[p])
             reply == IF Receives(q, c) THEN Append(wire[c][q], old) ELSE wire[c][q]
             w == [wire EXCEPT ![c][q] = reply]
             s == [peers[p] EXCEPT ![q] = c]
  <2>3. wire' = Broadcast(p, s, w)
    BY <1>7, <2>1 DEF AcceptPeer
  <2>4. s = peers'[p]
    BY <2>2, AddSessionMap
  <2>5. q # p
    BY <2>2, ConnEnds
  <2>6. wire[c][q] \in Seq(SUBSET Peers) /\ old \in SUBSET Peers
    BY <2>2 DEF TypeOK, PeerList
  <2>7. reply \in Seq(SUBSET Peers)
    BY <2>6, AppendSeq
  <2> HIDE DEF old, reply
  <2>8. w \in Wires /\ w[d][r] = IF r = q /\ d = c THEN reply ELSE wire[d][r]
    BY <1>w, <2>2, <2>7 DEF Wires
  <2> HIDE DEF w
  <2>9. CASE w[d][r] = wire[d][r]
    BY <2>2, <2>3, <2>4, <2>8, <2>9, BroadcastEffect
  <2>10. CASE w[d][r] # wire[d][r]
    <3>1. /\ r = q /\ d = c /\ Receives(r, d) /\ w[d][r] = Append(wire[d][r], old)
      BY <2>8, <2>10 DEF reply
    <3>2. peers'[p][r] = d
      BY <2>2, <3>1, AddSessionEntry
    <3>3. /\ w[d][r] # <<>>
          /\ \A L : (\E i \in 1..Len(w[d][r]) : w[d][r][i] = L) => OnWire(d, r, L) \/ L = old
      <4>1. wire[d][r] \in Seq(SUBSET Peers)
        BY DEF TypeOK
      <4>2. Append(wire[d][r], old) # <<>>
        BY <2>6, <4>1, AppendNotEmpty
      <4> QED BY <2>6, <3>1, <4>1, <4>2, AppendIn DEF OnWire
    <3>4. w[d][r] \in Seq(SUBSET Peers)
      BY <2>8 DEF Wires
    <3>5. PeerList(p, s) \in SUBSET Peers
      BY DEF PeerList
    <3> HIDE DEF s
    <3>6. \/ wire'[d][r] = w[d][r]
          \/ wire'[d][r] = Append(w[d][r], PeerList(p, s))
      <4> DEFINE all == Broadcast(p, s, w)
      <4>1. all[d][r] = w[d][r] \/ all[d][r] = Append(w[d][r], PeerList(p, s))
        <5>1. w \in Wires
          BY <2>8
        <5> QED BY <5>1, BroadcastAt
      <4>2. wire' = all
        BY <2>3
      <4> HIDE DEF all
      <4> QED BY <4>1, <4>2
    <3>7. /\ wire'[d][r] # <<>>
          /\ \A L \in SUBSET Peers :
               (\E i \in 1..Len(wire'[d][r]) : wire'[d][r][i] = L) =>
                 OnWire(d, r, L) \/ L = old \/ L = PeerList(p, s)
      <4>1. CASE wire'[d][r] = w[d][r]
        BY <3>3, <4>1
      <4>2. CASE wire'[d][r] = Append(w[d][r], PeerList(p, s))
        <5>1. wire'[d][r] # <<>>
          <6>1. PICK t \in Seq(SUBSET Peers), new \in SUBSET Peers :
                  t = w[d][r] /\ new = PeerList(p, s)
            BY <3>4, <3>5
          <6>2. Append(t, new) # <<>>
            BY AppendNotEmpty
          <6> QED BY <4>2, <6>1, <6>2
        <5>2. \A L : (\E i \in 1..Len(Append(w[d][r], PeerList(p, s))) :
                        Append(w[d][r], PeerList(p, s))[i] = L)
                      => (\E i \in 1..Len(w[d][r]) : w[d][r][i] = L) \/ L = PeerList(p, s)
          BY <3>4, <3>5, AppendIn
        <5> QED BY <3>3, <4>2, <5>1, <5>2
      <4> QED BY <3>6, <4>1, <4>2
    <3> QED BY <2>2, <2>4, <2>5, <3>1, <3>2, <3>7 DEF Appended, OnWire, old
  <2> QED BY <2>9, <2>10
<1>8. ASSUME NEW p \in Peers, HandlePeerDisconnected(p)
      PROVE  Shrunk(d, r) \/ Appended(p, d, r)
  <2>1. PICK s : s = peers'[p]
    OBVIOUS
  <2>2. phase[p] = "running" /\ wire' = Broadcast(p, s, wire)
    BY <1>8, <2>1, LeaveIs
  <2> QED BY <1>w, <2>1, <2>2, BroadcastEffect
<1>9. ASSUME NEW p \in Peers, Tick(p)
      PROVE  Shrunk(d, r) \/ Appended(p, d, r)
  <2>1. PICK s : s = peers'[p]
    OBVIOUS
  <2>2. phase[p] = "running" /\ wire' = Broadcast(p, s, wire)
    BY <1>9, <2>1 DEF Tick, Idle, room
  <2> QED BY <1>w, <2>1, <2>2, BroadcastEffect
<1>10. ASSUME NEW p \in Peers, NEW c \in Conns, Deliver(p, c) PROVE Shrunk(d, r)
  <2>1. wire[c][p] # <<>> /\ wire' = [wire EXCEPT ![c][p] = Tail(@)]
    BY <1>10 DEF Deliver
  <2>2. wire'[d][r] = IF r = p /\ d = c THEN Tail(wire[d][r]) ELSE wire[d][r]
    BY <1>w, <2>1 DEF Wires
  <2> QED BY <2>1, <2>2, WireKept
<1>11. ASSUME NEW p \in Peers, NEW c \in Conns, ReaderFails(p, c) \/ ReaderQuits(p, c)
       PROVE  Shrunk(d, r)
  <2>1. wire' = [wire EXCEPT ![c][p] = <<>>]
    BY <1>11 DEF ReaderFails, ReaderQuits
  <2>2. wire'[d][r] = IF r = p /\ d = c THEN <<>> ELSE wire[d][r]
    BY <1>w, <2>1 DEF Wires
  <2> QED BY <2>2, WireKept
<1>12. ASSUME NEW p \in Peers, NEW c \in Conns, MonitorFires(p, c) \/ MonitorQuits(p, c)
       PROVE  Shrunk(d, r)
  BY <1>12, WireKept DEF MonitorFires, MonitorQuits
<1>13. ASSUME NEW c \in Conns, Drop(c) PROVE Shrunk(d, r)
  BY <1>13, WireKept DEF Drop
<1>14. CASE UNCHANGED vars
  <2>1. UNCHANGED wire
    BY <1>14 DEF vars
  <2> QED BY <2>1, WireKept
<1> QED
  BY <1>1, <1>2, <1>4, <1>5, <1>6, <1>7, <1>8, <1>9, <1>10, <1>11, <1>12,
     <1>13, <1>14, NextCases

\* An open connection's session has its monitor, which ends only with one of them.
LEMMA MonitoredStep ==
  ASSUME TypeOK, Ends, Monitored, [Next]_vars
  PROVE  Monitored'
<1>a. ASSUME up' \subseteq up, UNCHANGED <<peers, monitor>> PROVE Monitored'
  BY <1>a DEF Monitored
<1>b. up \subseteq Conns /\ \A c \in Conns : c # None
  BY ConnEnds DEF TypeOK
<1>s. ASSUME NEW p \in Peers, Stop(p) PROVE Monitored'
  <2>1. /\ \A a \in Peers : monitor'[a] = IF a = p THEN {} ELSE monitor[a]
        /\ \A a, b \in Peers : peers'[a][b] = IF a = p THEN None ELSE peers[a][b]
        /\ up' \subseteq up
    BY <1>s, StopIs
  <2> QED BY <2>1, <1>b DEF Monitored
<1>t. ASSUME NEW p \in Peers, NEW q \in Peers, NEW c \in Conns, AddSession(p, q, c),
             UNCHANGED up
      PROVE  Monitored'
  <2>1. \A a, b \in Peers : peers'[a][b] = IF a = p /\ b = q THEN c ELSE peers[a][b]
    BY <1>t, AddSessionEntry
  <2>2. \A a \in Peers : monitor'[a] = IF a = p THEN monitor[a] \cup {c} ELSE monitor[a]
    BY <1>t, AddSessionTasks
  <2> SUFFICES ASSUME NEW a \in Peers, NEW b \in Peers, NEW d \in up, peers'[a][b] = d
               PROVE  d \in monitor'[a]
    BY <1>t DEF Monitored
  <2>3. CASE a = p /\ b = q
    BY <2>1, <2>2, <2>3
  <2>4. CASE ~(a = p /\ b = q)
    <3>1. d \in monitor[a]
      BY <2>1, <2>4 DEF Monitored
    <3> QED BY <2>2, <3>1
  <2> QED BY <2>3, <2>4
<1>1. ASSUME NEW p \in Peers,
             \/ StartCall(p) \/ FinishJoin(p) \/ RefuseDuplicate(p) \/ IncomingLost(p)
             \/ HandlePeerList(p) \/ Tick(p)
      PROVE  Monitored'
  BY <1>1, <1>a DEF StartCall, FinishJoin, RefuseDuplicate, IncomingLost, HandlePeerList,
                    Tick, tasks, room
<1>2. ASSUME NEW p \in Peers, NEW q \in Peers, Join(p, q) \/ Dial(p, q) PROVE Monitored'
  BY <1>2, <1>a DEF Join, Dial, tasks
<1>3. ASSUME NEW p \in Peers, Quit(p) PROVE Monitored'
  BY <1>3, <1>s DEF Quit
<1>4. ASSUME NEW p \in Peers, Connect(p) PROVE Monitored'
  <2>1. PICK c \in Conns : Unused(c) /\ up' = up \cup {c} /\ UNCHANGED <<peers, monitor>>
    BY <1>4, ConnectIs DEF tasks
  <2>2. \A a, b \in Peers : peers[a][b] # c
    BY <2>1, EntryOther DEF Unused
  <2> QED BY <2>1, <2>2 DEF Monitored
<1>5. ASSUME NEW p \in Peers, ConnectFails(p) \/ HandshakeFails(p) PROVE Monitored'
  <2>1. GiveUp(p)
    BY <1>5 DEF ConnectFails, HandshakeFails
  <2> QED BY <2>1, <1>s, <1>a DEF GiveUp, tasks
<1>6. ASSUME NEW p \in Peers, HandshakeDone(p) PROVE Monitored'
  <2>1. PICK c \in Conns, q \in Peers : AddSession(p, q, c) /\ UNCHANGED up
    BY <1>6, HandshakeIs DEF Ends
  <2> QED BY <2>1, <1>t
<1>7. ASSUME NEW p \in Peers, AcceptPeer(p) PROVE Monitored'
  <2>1. PICK c \in Conns : c.from \in Peers /\ AddSession(p, c.from, c) /\ UNCHANGED up
    BY <1>7, AcceptIs DEF Ends
  <2> QED BY <2>1, <1>t
<1>8. ASSUME NEW p \in Peers, HandlePeerDisconnected(p) PROVE Monitored'
  <2>1. PICK q \in Peers :
           /\ Take(p, "PeerDisconnected") /\ phase[p] = "running"
           /\ Head(events[p]) = Disconnected(q)
           /\ peers'[p] = [peers[p] EXCEPT ![q] = None]
           /\ \A a, b \in Peers : peers'[a][b] = IF a = p /\ b = q THEN None ELSE peers[a][b]
           /\ wire' = Broadcast(p, peers'[p], wire)
           /\ UNCHANGED <<phase, born, starts, dial, work, tasks, up, faults>>
    BY <1>8, LeaveIs
  <2> QED BY <2>1, <1>b DEF Monitored, tasks
<1>9. ASSUME NEW p \in Peers, NEW c \in Conns,
             Deliver(p, c) \/ ReaderFails(p, c) \/ ReaderQuits(p, c)
      PROVE  Monitored'
  BY <1>9, <1>a DEF Deliver, ReaderFails, ReaderQuits, AfterTask, room, tasks
<1>10. ASSUME NEW p \in Peers, NEW c \in Conns, MonitorFires(p, c) \/ MonitorQuits(p, c)
       PROVE  Monitored'
  <2>1. /\ monitor' = [monitor EXCEPT ![p] = @ \ {c}] /\ UNCHANGED peers /\ up' \subseteq up
        /\ c \notin up \/ peers[p][Other(p, c)] # c
    BY <1>10 DEF MonitorFires, MonitorQuits, AfterTask, Cancelled, room
  <2>2. \A a \in Peers : monitor'[a] = IF a = p THEN monitor[a] \ {c} ELSE monitor[a]
    BY <2>1 DEF TypeOK
  <2>3. \A b \in Peers : peers[p][b] = c => b = Other(p, c)
    BY EntryOther
  <2> QED BY <2>1, <2>2, <2>3 DEF Monitored
<1>11. ASSUME NEW c \in Conns, Drop(c) PROVE Monitored'
  BY <1>11, <1>a DEF Drop, room, tasks
<1>12. CASE UNCHANGED vars
  BY <1>12, <1>a DEF vars, room, tasks
<1> QED
  BY <1>1, <1>2, <1>3, <1>4, <1>5, <1>6, <1>7, <1>8, <1>9, <1>10, <1>11, <1>12, NextCases

\* r reads what arrives on d.
Reads(r, d) == d \in reader[r] \/ dial[r].conn = d

\* Who reads goes on reading, unless nothing is under way any more.
LEMMA ReaderStays ==
  ASSUME TypeOK, Ends, OrderInv, [Next]_vars, NEW d \in Conns, NEW r \in Peers,
         Reads(r, d), wire'[d][r] # <<>>
  PROVE  Reads(r, d)'
<1>a. ASSUME UNCHANGED <<reader, dial>> PROVE Reads(r, d)'
  BY <1>a DEF Reads
<1>w. wire \in Wires /\ d # None /\ NoDial.conn = None
  BY ConnEnds DEF TypeOK, Wires, NoDial
<1>s. ASSUME NEW p \in Peers, Stop(p) PROVE Reads(r, d)'
  <2>1. /\ dial'[r] = IF r = p THEN NoDial ELSE dial[r]
        /\ reader'[r] = IF r = p THEN {} ELSE reader[r]
        /\ wire'[d][r] = IF r = p THEN <<>> ELSE wire[d][r]
    BY <1>s, StopIs
  <2> QED BY <2>1 DEF Reads
<1>1. ASSUME NEW p \in Peers,
             \/ StartCall(p) \/ FinishJoin(p) \/ RefuseDuplicate(p) \/ IncomingLost(p)
             \/ HandlePeerList(p) \/ Tick(p) \/ HandlePeerDisconnected(p)
      PROVE  Reads(r, d)'
  BY <1>1, <1>a DEF StartCall, FinishJoin, RefuseDuplicate, IncomingLost, HandlePeerList,
                    Tick, HandlePeerDisconnected, tasks, room
<1>2. ASSUME NEW p \in Peers, NEW q \in Peers, Join(p, q) \/ Dial(p, q) PROVE Reads(r, d)'
  <2>1. dial[p].conn = None
    BY <1>2, <1>w DEF Join, Dial, OrderInv, JoiningQuiet
  <2>2. dial' = [dial EXCEPT ![p] = [to |-> q, conn |-> None]] /\ UNCHANGED reader
    BY <1>2 DEF Join, Dial, tasks
  <2>3. \A a \in Peers : a # p => dial'[a] = dial[a]
    BY <2>2 DEF TypeOK
  <2> QED BY <2>1, <2>2, <2>3, <1>w DEF Reads
<1>3. ASSUME NEW p \in Peers, Quit(p) PROVE Reads(r, d)'
  BY <1>3, <1>s DEF Quit
<1>4. ASSUME NEW p \in Peers, Connect(p) PROVE Reads(r, d)'
  <2>1. /\ dial[p].conn = None /\ UNCHANGED reader
        /\ \A a \in Peers : a # p => dial'[a] = dial[a]
    BY <1>4, ConnectIs DEF tasks
  <2> QED BY <2>1, <1>w DEF Reads
<1>5. ASSUME NEW p \in Peers, ConnectFails(p) \/ HandshakeFails(p) PROVE Reads(r, d)'
  <2>1. GiveUp(p)
    BY <1>5 DEF ConnectFails, HandshakeFails
  <2>2. CASE phase[p] = "joining"
    BY <2>1, <2>2, <1>s DEF GiveUp
  <2>3. CASE phase[p] # "joining"
    <3>1. /\ dial'[r] = IF r = p THEN NoDial ELSE dial[r]
          /\ wire'[d][r] = IF r = p /\ d = dial[p].conn THEN <<>> ELSE wire[d][r]
          /\ UNCHANGED reader
      BY <2>1, <2>3, GiveUpIs DEF tasks
    <3> QED BY <3>1 DEF Reads
  <2> QED BY <2>2, <2>3
<1>6. ASSUME NEW p \in Peers, HandshakeDone(p) PROVE Reads(r, d)'
  <2>1. PICK c \in Conns, q \in Peers :
          /\ dial[p].conn = c /\ AddSession(p, q, c)
          /\ \A a \in Peers : dial'[a] = IF a = p THEN NoDial ELSE dial[a]
    BY <1>6, HandshakeIs DEF Ends
  <2>2. \A a \in Peers : reader'[a] = IF a = p THEN reader[a] \cup {c} ELSE reader[a]
    <3>1. AddSession(p, q, c)
      BY <2>1
    <3> QED BY <3>1, AddSessionTasks
  <2> QED BY <2>1, <2>2 DEF Reads
<1>7. ASSUME NEW p \in Peers, AcceptPeer(p) PROVE Reads(r, d)'
  <2>1. PICK c \in Conns : c.from \in Peers /\ AddSession(p, c.from, c) /\ UNCHANGED dial
    BY <1>7, AcceptIs DEF Ends
  <2>2. \A a \in Peers : reader'[a] = IF a = p THEN reader[a] \cup {c} ELSE reader[a]
    BY <2>1, AddSessionTasks
  <2> QED BY <2>1, <2>2 DEF Reads
<1>8. ASSUME NEW p \in Peers, NEW c \in Conns,
             Deliver(p, c) \/ MonitorFires(p, c) \/ MonitorQuits(p, c)
      PROVE  Reads(r, d)'
  BY <1>8, <1>a DEF Deliver, MonitorFires, MonitorQuits, room, tasks
<1>9. ASSUME NEW p \in Peers, NEW c \in Conns, ReaderFails(p, c) \/ ReaderQuits(p, c)
      PROVE  Reads(r, d)'
  <2>1. /\ reader' = [reader EXCEPT ![p] = @ \ {c}] /\ UNCHANGED dial
        /\ wire' = [wire EXCEPT ![c][p] = <<>>]
    BY <1>9 DEF ReaderFails, ReaderQuits, room
  <2>2. reader'[r] = IF r = p THEN reader[r] \ {c} ELSE reader[r]
    BY <2>1 DEF TypeOK
  <2>3. wire'[d][r] = IF r = p /\ d = c THEN <<>> ELSE wire[d][r]
    BY <2>1, <1>w DEF Wires
  <2> QED BY <2>1, <2>2, <2>3 DEF Reads
<1>10. ASSUME NEW c \in Conns, Drop(c) PROVE Reads(r, d)'
  BY <1>10, <1>a DEF Drop, room, tasks
<1>11. CASE UNCHANGED vars
  BY <1>11, <1>a DEF vars, room, tasks
<1> QED
  BY <1>1, <1>2, <1>3, <1>4, <1>5, <1>6, <1>7, <1>8, <1>9, <1>10, <1>11, NextCases

LEMMA WireReadStep ==
  ASSUME TypeOK, Ends, OrderInv, WireRead, [Next]_vars
  PROVE  WireRead'
<1> SUFFICES ASSUME NEW d \in Conns, NEW r \in Peers, wire'[d][r] # <<>>
             PROVE  Reads(r, d)'
  BY DEF WireRead, Reads
<1>1. CASE Shrunk(d, r)
  BY <1>1, ReaderStays DEF Shrunk, WireRead, Reads
<1>2. ASSUME NEW p \in Peers, Appended(p, d, r) PROVE Reads(r, d)'
  BY <1>2, ReaderStays DEF Appended, Receives, Reads
<1> QED BY <1>1, <1>2, WireEffect

-------------------------------------------------------------------------------
(* The connections that wait to be accepted. *)

LEMMA AppendOnce ==
  ASSUME NEW T, NEW s \in Seq(T), NEW e \in T, NEW f,
         \A i, j \in 1..Len(s) : s[i] = f /\ s[j] = f => i = j,
         f = e => \A i \in 1..Len(s) : s[i] # f
  PROVE  \A i, j \in 1..Len(Append(s, e)) : Append(s, e)[i] = f /\ Append(s, e)[j] = f => i = j
<1>1. /\ Len(s) \in Nat /\ Len(Append(s, e)) = Len(s) + 1
      /\ \A i \in 1..Len(s) : Append(s, e)[i] = s[i]
      /\ Append(s, e)[Len(s) + 1] = e
  OBVIOUS
<1>2. 1..(Len(s) + 1) = (1..Len(s)) \cup {Len(s) + 1}
  BY <1>1
<1> QED BY <1>1, <1>2

LEMMA TailOnce ==
  ASSUME NEW T, NEW s \in Seq(T), s # <<>>, NEW f,
         \A i, j \in 1..Len(s) : s[i] = f /\ s[j] = f => i = j
  PROVE  /\ \A i, j \in 1..Len(Tail(s)) : Tail(s)[i] = f /\ Tail(s)[j] = f => i = j
         /\ Head(s) = f => \A i \in 1..Len(Tail(s)) : Tail(s)[i] # f
<1>1. /\ Len(s) \in Nat \ {0} /\ Len(Tail(s)) = Len(s) - 1 /\ s[1] = Head(s)
      /\ \A i \in 1..Len(Tail(s)) : Tail(s)[i] = s[i + 1] /\ i + 1 \in 1..Len(s) /\ i + 1 # 1
  OBVIOUS
<1>2. 1 \in 1..Len(s)
  BY <1>1
<1>3. \A i, j \in 1..Len(Tail(s)) : i + 1 = j + 1 => i = j
  BY <1>1
<1> QED BY <1>1, <1>2, <1>3

\* What is taken waits no more.
LEMMA TakeOnce ==
  ASSUME TypeOK, QueuedOnce, NEW p \in Peers, NEW k, Take(p, k)
  PROVE  /\ QueuedOnce'
         /\ \A c \in Conns : Head(events[p]) = Incoming(c) => ~Queued(p, Incoming(c))'
<1>1. events[p] \in Seq(RoomEvent) /\ events[p] # <<>>
  BY DEF TypeOK, Take
<1>2. \A a \in Peers : events'[a] = IF a = p THEN Tail(events[p]) ELSE events[a]
  BY DEF TypeOK, Take
<1>3. ASSUME NEW c \in Conns
      PROVE  /\ \A i, j \in 1..Len(Tail(events[p])) :
                  Tail(events[p])[i] = Incoming(c) /\ Tail(events[p])[j] = Incoming(c) => i = j
             /\ Head(events[p]) = Incoming(c) =>
                  \A i \in 1..Len(Tail(events[p])) : Tail(events[p])[i] # Incoming(c)
  <2>1. \A i, j \in 1..Len(events[p]) :
          events[p][i] = Incoming(c) /\ events[p][j] = Incoming(c) => i = j
    BY DEF QueuedOnce
  <2> QED BY <1>1, <2>1, TailOnce
<1>4. events'[p] = Tail(events[p])
  BY <1>2
<1>5. QueuedOnce'
  <2> SUFFICES ASSUME NEW a \in Peers, NEW c \in Conns,
                      NEW i \in 1..Len(events'[a]), NEW j \in 1..Len(events'[a]),
                      events'[a][i] = Incoming(c), events'[a][j] = Incoming(c)
               PROVE  i = j
    BY DEF QueuedOnce, Incoming
  <2>1. CASE a = p
    BY <1>3, <1>4, <2>1
  <2>2. CASE a # p
    BY <1>2, <2>2 DEF QueuedOnce
  <2> QED BY <2>1, <2>2
<1>6. \A c \in Conns : Head(events[p]) = Incoming(c) => ~Queued(p, Incoming(c))'
  BY <1>3, <1>4 DEF Queued, Incoming
<1> QED BY <1>5, <1>6

LEMMA EnqueueOnce ==
  ASSUME TypeOK, QueuedOnce, NEW p \in Peers, NEW e \in RoomEvent, Enqueue(p, e),
         \A c \in Conns : e = Incoming(c) => ~Queued(p, Incoming(c))
  PROVE  QueuedOnce'
<1>1. events[p] \in Seq(RoomEvent)
  BY DEF TypeOK
<1>2. \A a \in Peers : events'[a] = IF a = p THEN Append(events[p], e) ELSE events[a]
  BY DEF TypeOK, Enqueue
<1>3. ASSUME NEW c \in Conns
      PROVE  \A i, j \in 1..Len(Append(events[p], e)) :
               Append(events[p], e)[i] = Incoming(c) /\ Append(events[p], e)[j] = Incoming(c)
                 => i = j
  <2>1. \A i, j \in 1..Len(events[p]) :
          events[p][i] = Incoming(c) /\ events[p][j] = Incoming(c) => i = j
    BY DEF QueuedOnce
  <2>2. Incoming(c) = e => \A i \in 1..Len(events[p]) : events[p][i] # Incoming(c)
    BY DEF Queued
  <2> QED BY <1>1, <2>1, <2>2, AppendOnce
<1>4. events'[p] = Append(events[p], e)
  BY <1>2
<1> SUFFICES ASSUME NEW a \in Peers, NEW c \in Conns,
                    NEW i \in 1..Len(events'[a]), NEW j \in 1..Len(events'[a]),
                    events'[a][i] = Incoming(c), events'[a][j] = Incoming(c)
             PROVE  i = j
  BY DEF QueuedOnce, Incoming
<1>5. CASE a = p
  BY <1>3, <1>4, <1>5
<1>6. CASE a # p
  BY <1>2, <1>6 DEF QueuedOnce
<1> QED BY <1>5, <1>6

\* No other step than the making of a connection queues one.
LEMMA QueuedEffect ==
  ASSUME TypeOK, Ends, QueuedOnce, [Next]_vars
  PROVE  /\ QueuedOnce'
         /\ \/ \E p \in Peers : Connect(p)
            \/ \A q \in Peers : \A c \in Conns :
                 Queued(q, Incoming(c))' => Queued(q, Incoming(c))
<1> DEFINE Fewer == \A q \in Peers : \A c \in Conns :
                      Queued(q, Incoming(c))' => Queued(q, Incoming(c))
<1> SUFFICES /\ QueuedOnce'
             /\ (\A p \in Peers : ~Connect(p)) => QueuedOnce' /\ Fewer
  OBVIOUS
<1>a. ASSUME UNCHANGED events PROVE QueuedOnce' /\ Fewer
  BY <1>a DEF QueuedOnce, Queued, Incoming
<1>b. ASSUME NEW p \in Peers, NEW k, Take(p, k) PROVE QueuedOnce' /\ Fewer
  BY <1>b, TakeOnce, QueuedTake
<1>c. ASSUME NEW p \in Peers, NEW e \in RoomEvent, Enqueue(p, e),
             \A c \in Conns : e # Incoming(c)
      PROVE  QueuedOnce' /\ Fewer
  <2>1. QueuedOnce'
    BY <1>c, EnqueueOnce
  <2>2. Fewer
    BY <1>c, QueuedEnqueue
  <2> QED BY <2>1, <2>2
<1>s. ASSUME NEW p \in Peers, Stop(p) PROVE QueuedOnce' /\ Fewer
  <2>1. \A a \in Peers : events'[a] = IF a = p THEN <<>> ELSE events[a]
    BY <1>s, StopIs
  <2>2. 1..Len(<<>>) = {}
    OBVIOUS
  <2> QED BY <2>1, <2>2 DEF QueuedOnce, Queued, Incoming
<1> HIDE DEF Fewer
<1>1. ASSUME NEW p \in Peers, StartCall(p) \/ FinishJoin(p) \/ Tick(p)
      PROVE  QueuedOnce' /\ Fewer
  BY <1>1, <1>a DEF StartCall, FinishJoin, Tick
<1>2. ASSUME NEW p \in Peers, NEW q \in Peers, Join(p, q) \/ Dial(p, q)
      PROVE  QueuedOnce' /\ Fewer
  BY <1>2, <1>a DEF Join, Dial
<1>3. ASSUME NEW p \in Peers, Quit(p) PROVE QueuedOnce' /\ Fewer
  BY <1>3, <1>s DEF Quit
<1>4. ASSUME NEW p \in Peers, Connect(p) PROVE QueuedOnce'
  <2>1. PICK c \in Conns : Unused(c) /\ c.to \in Peers /\ Enqueue(c.to, Incoming(c))
    BY <1>4, ConnectIs
  <2>2. Incoming(c) \in RoomEvent
    BY EventTypes
  <2>3. \A d \in Conns : Incoming(c) = Incoming(d) => ~Queued(c.to, Incoming(d))
    BY <2>1, EventsDiffer DEF Unused
  <2> QED BY <2>1, <2>2, <2>3, EnqueueOnce
<1>5. ASSUME NEW p \in Peers, ConnectFails(p) \/ HandshakeFails(p)
      PROVE  QueuedOnce' /\ Fewer
  <2>1. GiveUp(p)
    BY <1>5 DEF ConnectFails, HandshakeFails
  <2> QED BY <2>1, <1>s, <1>a DEF GiveUp
<1>6. ASSUME NEW p \in Peers, HandshakeDone(p) PROVE QueuedOnce' /\ Fewer
  BY <1>6, <1>a DEF HandshakeDone
<1>7. ASSUME NEW p \in Peers,
             \/ RefuseDuplicate(p) \/ AcceptPeer(p) \/ IncomingLost(p)
             \/ HandlePeerDisconnected(p) \/ HandlePeerList(p)
      PROVE  QueuedOnce' /\ Fewer
  BY <1>7, <1>b DEF RefuseDuplicate, AcceptPeer, IncomingLost, HandlePeerDisconnected,
                    HandlePeerList
<1>8. ASSUME NEW p \in Peers, NEW c \in Conns, Deliver(p, c) PROVE QueuedOnce' /\ Fewer
  <2>1. Head(wire[c][p]) \in SUBSET Peers
    BY <1>8, WireType DEF Deliver
  <2>2. ListMsg(Head(wire[c][p])) \in RoomEvent
    BY <2>1, EventTypes
  <2>3. \A d \in Conns : ListMsg(Head(wire[c][p])) # Incoming(d)
    BY <2>1, EventsDiffer
  <2> QED BY <1>8, <1>c, <2>2, <2>3 DEF Deliver
<1>9. ASSUME NEW p \in Peers, NEW c \in Conns, ReaderFails(p, c) \/ MonitorFires(p, c)
      PROVE  QueuedOnce' /\ Fewer
  <2>1. Disconnected(Other(p, c)) \in RoomEvent /\ Other(p, c) \in Peers
    BY OtherType, EventTypes
  <2>2. \A d \in Conns : Disconnected(Other(p, c)) # Incoming(d)
    BY <2>1, EventsDiffer
  <2> QED BY <1>9, <1>c, <2>1, <2>2 DEF ReaderFails, MonitorFires
<1>10. ASSUME NEW p \in Peers, NEW c \in Conns, ReaderQuits(p, c) \/ MonitorQuits(p, c)
       PROVE  QueuedOnce' /\ Fewer
  BY <1>10, <1>a DEF ReaderQuits, MonitorQuits
<1>11. ASSUME NEW c \in Conns, Drop(c) PROVE QueuedOnce' /\ Fewer
  BY <1>11, <1>a DEF Drop
<1>12. CASE UNCHANGED vars
  BY <1>12, <1>a DEF vars
<1>13. QueuedOnce'
  BY <1>1, <1>2, <1>3, <1>4, <1>5, <1>6, <1>7, <1>8, <1>9, <1>10, <1>11, <1>12, NextCases
<1>14. ASSUME \A p \in Peers : ~Connect(p) PROVE QueuedOnce' /\ Fewer
  BY <1>1, <1>2, <1>3, <1>5, <1>6, <1>7, <1>8, <1>9, <1>10, <1>11, <1>12, <1>14, NextCases
<1> QED BY <1>13, <1>14

\* The connection of a new session of r.
New(r, c) ==
  \/ HandshakeDone(r) /\ dial[r].conn = c
  \/ AcceptPeer(r) /\ Head(events[r]).conn = c

\* There is no other way to a session and its tasks.
LEMMA SessionEffect ==
  ASSUME TypeOK, Ends, [Next]_vars, NEW r \in Peers, NEW c \in Conns
  PROVE  \/ New(r, c)
         \/ /\ c \in reader'[r] => c \in reader[r]
            /\ \A q \in Peers : peers'[r][q] = c => peers[r][q] = c
<1> DEFINE Same == /\ c \in reader'[r] => c \in reader[r]
                   /\ \A q \in Peers : peers'[r][q] = c => peers[r][q] = c
<1> SUFFICES ASSUME ~New(r, c) PROVE Same
  OBVIOUS
<1>a. ASSUME UNCHANGED <<peers, reader>> PROVE Same
  BY <1>a
<1>s. ASSUME NEW p \in Peers, Stop(p) PROVE Same
  <2>1. \A a, b \in Peers : peers'[a][b] = IF a = p THEN None ELSE peers[a][b]
    BY <1>s, StopIs
  <2>2. \A a \in Peers : reader'[a] = IF a = p THEN {} ELSE reader[a]
    BY <1>s, StopIs
  <2> QED BY <2>1, <2>2, ConnEnds
<1>t. ASSUME NEW p \in Peers, NEW q \in Peers, NEW d \in Conns, AddSession(p, q, d),
             ~(p = r /\ d = c)
      PROVE  Same
  <2>1. \A a, b \in Peers : peers'[a][b] = IF a = p /\ b = q THEN d ELSE peers[a][b]
    BY <1>t, AddSessionEntry
  <2>2. \A a \in Peers : reader'[a] = IF a = p THEN reader[a] \cup {d} ELSE reader[a]
    BY <1>t, AddSessionTasks
  <2> QED BY <1>t, <2>1, <2>2
<1>r. ASSUME NEW p \in Peers, NEW d \in Conns, reader' = [reader EXCEPT ![p] = @ \ {d}],
             UNCHANGED peers
      PROVE  Same
  <2>1. reader \in [Peers -> SUBSET Conns]
    BY DEF TypeOK
  <2> QED BY <1>r, <2>1
<1> HIDE DEF Same
<1>1. ASSUME NEW p \in Peers,
             \/ StartCall(p) \/ FinishJoin(p) \/ Tick(p) \/ Connect(p)
             \/ RefuseDuplicate(p) \/ IncomingLost(p) \/ HandlePeerList(p)
      PROVE  Same
  BY <1>1, <1>a DEF StartCall, FinishJoin, Tick, Connect, RefuseDuplicate, IncomingLost,
                    HandlePeerList, room, tasks
<1>2. ASSUME NEW p \in Peers, NEW q \in Peers, Join(p, q) \/ Dial(p, q) PROVE Same
  BY <1>2, <1>a DEF Join, Dial, tasks
<1>3. ASSUME NEW p \in Peers, Quit(p) PROVE Same
  BY <1>3, <1>s DEF Quit
<1>4. ASSUME NEW p \in Peers, ConnectFails(p) \/ HandshakeFails(p) PROVE Same
  <2>1. GiveUp(p)
    BY <1>4 DEF ConnectFails, HandshakeFails
  <2> QED BY <2>1, <1>s, <1>a DEF GiveUp, tasks
<1>5. ASSUME NEW p \in Peers, HandshakeDone(p) PROVE Same
  <2>1. PICK d \in Conns, q \in Peers : dial[p].conn = d /\ AddSession(p, q, d)
    BY <1>5, HandshakeIs DEF Ends
  <2>2. ~(p = r /\ d = c)
    BY <1>5, <2>1 DEF New
  <2> QED BY <2>1, <2>2, <1>t
<1>6. ASSUME NEW p \in Peers, AcceptPeer(p) PROVE Same
  <2>1. PICK d \in Conns : /\ Head(events[p]).conn = d /\ d.from \in Peers
                           /\ AddSession(p, d.from, d)
    BY <1>6, AcceptIs DEF Ends
  <2>2. ~(p = r /\ d = c)
    BY <1>6, <2>1 DEF New
  <2> QED BY <2>1, <2>2, <1>t
<1>7. ASSUME NEW p \in Peers, HandlePeerDisconnected(p) PROVE Same
  <2>1. PICK q \in Peers :
           /\ Take(p, "PeerDisconnected") /\ phase[p] = "running"
           /\ Head(events[p]) = Disconnected(q)
           /\ peers'[p] = [peers[p] EXCEPT ![q] = None]
           /\ \A a, b \in Peers : peers'[a][b] = IF a = p /\ b = q THEN None ELSE peers[a][b]
           /\ wire' = Broadcast(p, peers'[p], wire)
           /\ UNCHANGED <<phase, born, starts, dial, work, tasks, up, faults>>
    BY <1>7, LeaveIs
  <2> QED BY <2>1, ConnEnds DEF Same, tasks
<1>8. ASSUME NEW p \in Peers, NEW d \in Conns,
             Deliver(p, d) \/ MonitorFires(p, d) \/ MonitorQuits(p, d)
      PROVE  Same
  BY <1>8, <1>a DEF Deliver, MonitorFires, MonitorQuits, room, tasks
<1>9. ASSUME NEW p \in Peers, NEW d \in Conns, ReaderFails(p, d) \/ ReaderQuits(p, d)
      PROVE  Same
  BY <1>9, <1>r DEF ReaderFails, ReaderQuits, room
<1>10. ASSUME NEW d \in Conns, Drop(d) PROVE Same
  BY <1>10, <1>a DEF Drop, room, tasks
<1>11. CASE UNCHANGED vars
  BY <1>11, <1>a DEF vars, room, tasks
<1> QED
  BY <1>1, <1>2, <1>3, <1>4, <1>5, <1>6, <1>7, <1>8, <1>9, <1>10, <1>11, NextCases

\* A step that ends a handshake completes it, or the connection is lost and the
\* participant does not join any more.
LEMMA DialEffect ==
  ASSUME TypeOK, Ends, OrderInv, [Next]_vars, NEW x \in Peers, NEW c \in Conns,
         dial[x].conn = c, ~HandshakeDone(x)
  PROVE  dial'[x].conn = c \/ (c \notin up' /\ phase'[x] \notin {"off", "joining"})
<1> DEFINE Goal == dial'[x].conn = c \/ (c \notin up' /\ phase'[x] \notin {"off", "joining"})
<1> SUFFICES Goal
  OBVIOUS
<1>e. c # None /\ c.from = x /\ NoDial.conn = None /\ phase[x] # "off"
  BY ConnEnds DEF Ends, DialEnds, NoDial, OrderInv, JoiningQuiet
<1>a. ASSUME dial'[x] = dial[x] PROVE Goal
  BY <1>a
<1>s. ASSUME NEW p \in Peers, Stop(p) PROVE Goal
  <2>1. /\ dial'[x] = IF x = p THEN NoDial ELSE dial[x]
        /\ phase'[x] = IF x = p THEN "gone" ELSE phase[x]
    BY <1>s, StopIs
  <2>2. c \in up' => c.from # p
    BY <1>s, StopIs
  <2> QED BY <1>e, <2>1, <2>2
<1> HIDE DEF Goal
<1>1. ASSUME NEW p \in Peers,
             \/ StartCall(p) \/ FinishJoin(p) \/ Tick(p) \/ AcceptPeer(p)
             \/ RefuseDuplicate(p) \/ IncomingLost(p) \/ HandlePeerList(p)
             \/ HandlePeerDisconnected(p)
      PROVE  Goal
  BY <1>1, <1>a DEF StartCall, FinishJoin, Tick, AcceptPeer, RefuseDuplicate, IncomingLost,
                    HandlePeerList, HandlePeerDisconnected, room
<1>2. ASSUME NEW p \in Peers, NEW q \in Peers, Join(p, q) \/ Dial(p, q) PROVE Goal
  <2>1. dial[p].conn = None
    BY <1>2, <1>e DEF Join, Dial, OrderInv, JoiningQuiet
  <2>2. dial' = [dial EXCEPT ![p] = [to |-> q, conn |-> None]]
    BY <1>2 DEF Join, Dial
  <2>3. dial'[x] = dial[x]
    BY <1>e, <2>1, <2>2, SetDial
  <2> QED BY <2>3, <1>a
<1>3. ASSUME NEW p \in Peers, Quit(p) PROVE Goal
  BY <1>3, <1>s DEF Quit
<1>4. ASSUME NEW p \in Peers, Connect(p) PROVE Goal
  <2>1. dial[p].conn = None /\ \A a \in Peers : a # p => dial'[a] = dial[a]
    BY <1>4, ConnectIs
  <2> QED BY <1>e, <2>1, <1>a
<1>5. ASSUME NEW p \in Peers, ConnectFails(p) \/ HandshakeFails(p) PROVE Goal
  <2>1. GiveUp(p)
    BY <1>5 DEF ConnectFails, HandshakeFails
  <2>2. CASE phase[p] = "joining"
    BY <2>1, <2>2, <1>s DEF GiveUp
  <2>3. CASE phase[p] # "joining"
    <3>1. /\ dial'[x] = IF x = p THEN NoDial ELSE dial[x]
          /\ UNCHANGED <<phase, up>>
      BY <2>1, <2>3, GiveUpIs
    <3>2. x = p => c \notin up
      BY <1>5, <1>e DEF ConnectFails, HandshakeFails
    <3> QED BY <1>e, <2>3, <3>1, <3>2 DEF Goal
  <2> QED BY <2>2, <2>3
<1>6. ASSUME NEW p \in Peers, HandshakeDone(p) PROVE Goal
  <2>1. p # x
    BY <1>6
  <2>2. dial'[x] = IF x = p THEN NoDial ELSE dial[x]
    BY <1>6, HandshakeIs DEF Ends
  <2> QED BY <2>1, <2>2, <1>a
<1>7. ASSUME NEW p \in Peers, NEW d \in Conns,
             \/ Deliver(p, d) \/ ReaderFails(p, d) \/ ReaderQuits(p, d)
             \/ MonitorFires(p, d) \/ MonitorQuits(p, d)
      PROVE  Goal
  BY <1>7, <1>a DEF Deliver, ReaderFails, ReaderQuits, MonitorFires, MonitorQuits, room
<1>8. ASSUME NEW d \in Conns, Drop(d) PROVE Goal
  BY <1>8, <1>a DEF Drop, room
<1>9. CASE UNCHANGED vars
  BY <1>9, <1>a DEF vars, room
<1> QED BY <1>1, <1>2, <1>3, <1>4, <1>5, <1>6, <1>7, <1>8, <1>9, NextCases

\* Nothing opens but the connection that is made.
LEMMA UpEffect ==
  ASSUME [Next]_vars, NEW c, c \in up', c \notin up
  PROVE  \E p \in Peers : Connect(p)
<1> SUFFICES ASSUME \A p \in Peers : ~Connect(p) PROVE up' \subseteq up
  OBVIOUS
<1>1. ASSUME NEW p \in Peers,
             \/ StartCall(p) \/ FinishJoin(p) \/ Tick(p) \/ AcceptPeer(p)
             \/ RefuseDuplicate(p) \/ IncomingLost(p) \/ HandlePeerList(p)
             \/ HandlePeerDisconnected(p) \/ HandshakeDone(p)
      PROVE  up' \subseteq up
  BY <1>1 DEF StartCall, FinishJoin, Tick, AcceptPeer, RefuseDuplicate, IncomingLost,
              HandlePeerList, HandlePeerDisconnected, HandshakeDone
<1>2. ASSUME NEW p \in Peers, NEW q \in Peers, Join(p, q) \/ Dial(p, q)
      PROVE  up' \subseteq up
  BY <1>2 DEF Join, Dial
<1>3. ASSUME NEW p \in Peers, Quit(p) \/ ConnectFails(p) \/ HandshakeFails(p)
      PROVE  up' \subseteq up
  BY <1>3 DEF Quit, ConnectFails, HandshakeFails, GiveUp, Stop
<1>4. ASSUME NEW p \in Peers, NEW d \in Conns,
             \/ Deliver(p, d) \/ ReaderFails(p, d) \/ ReaderQuits(p, d)
             \/ MonitorFires(p, d) \/ MonitorQuits(p, d)
      PROVE  up' \subseteq up
  BY <1>4 DEF Deliver, ReaderFails, ReaderQuits, MonitorFires, MonitorQuits, AfterTask
<1>5. ASSUME NEW d \in Conns, Drop(d) PROVE up' \subseteq up
  BY <1>5 DEF Drop
<1>6. CASE UNCHANGED vars
  BY <1>6 DEF vars
<1> QED BY <1>1, <1>2, <1>3, <1>4, <1>5, <1>6, NextCases

\* Nobody starts to join but who has not started.
LEMMA PhaseEffect ==
  ASSUME TypeOK, [Next]_vars, NEW x \in Peers, phase'[x] \in {"off", "joining"}
  PROVE  phase[x] \in {"off", "joining"}
<1> DEFINE Goal == phase'[x] \in {"off", "joining"} => phase[x] \in {"off", "joining"}
<1> SUFFICES Goal
  OBVIOUS
<1>p. DOMAIN phase = Peers
  BY DEF TypeOK
<1>a. ASSUME phase'[x] = phase[x] PROVE Goal
  BY <1>a
<1>b. ASSUME NEW p \in Peers, NEW to, phase' = [phase EXCEPT ![p] = to],
             to \notin {"off", "joining"}
      PROVE  Goal
  BY <1>b, <1>p
<1> HIDE DEF Goal
<1>1. ASSUME NEW p \in Peers,
             \/ Tick(p) \/ AcceptPeer(p) \/ Connect(p)
             \/ RefuseDuplicate(p) \/ IncomingLost(p) \/ HandlePeerList(p)
             \/ HandlePeerDisconnected(p)
      PROVE  Goal
  BY <1>1, <1>a DEF Tick, AcceptPeer, Connect, RefuseDuplicate, IncomingLost,
                    HandlePeerList, HandlePeerDisconnected, room
<1>2. ASSUME NEW p \in Peers, NEW q \in Peers, Join(p, q) \/ Dial(p, q) PROVE Goal
  BY <1>2, <1>p DEF Join, Dial, Goal
<1>3. ASSUME NEW p \in Peers,
             \/ Quit(p) \/ ConnectFails(p) \/ HandshakeFails(p) \/ HandshakeDone(p)
             \/ StartCall(p) \/ FinishJoin(p)
      PROVE  Goal
  <2>1. \/ UNCHANGED phase
        \/ \E to \in {"gone", "meshing", "running"} : phase' = [phase EXCEPT ![p] = to]
    BY <1>3 DEF Quit, ConnectFails, HandshakeFails, HandshakeDone, GiveUp, Stop,
                StartCall, FinishJoin
  <2> QED BY <2>1, <1>a, <1>b
<1>4. ASSUME NEW p \in Peers, NEW d \in Conns,
             \/ Deliver(p, d) \/ ReaderFails(p, d) \/ ReaderQuits(p, d)
             \/ MonitorFires(p, d) \/ MonitorQuits(p, d)
      PROVE  Goal
  BY <1>4, <1>a DEF Deliver, ReaderFails, ReaderQuits, MonitorFires, MonitorQuits, room
<1>5. ASSUME NEW d \in Conns, Drop(d) PROVE Goal
  BY <1>5, <1>a DEF Drop, room
<1>6. CASE UNCHANGED vars
  BY <1>6, <1>a DEF vars, room
<1> QED BY <1>1, <1>2, <1>3, <1>4, <1>5, <1>6, NextCases

\* A connection that waits to be accepted is still nobody's but its dialler's.
LEMMA QueuedConnStep ==
  ASSUME TypeOK, Ends, OrderInv, WireRead, QueuedOnce, QueuedConn, [Next]_vars
  PROVE  QueuedConn'
<1> DEFINE Free(c) == \A r \in Peers : c \notin reader[r] /\ \A q \in Peers : peers[r][q] # c
           Awaited(c) == c \in up \/ phase[c.from] \in {"off", "joining"} => dial[c.from].conn = c
<1> SUFFICES ASSUME NEW p \in Peers, NEW c \in Conns, Queued(p, Incoming(c))'
             PROVE  wire'[c][c.from] = <<>> /\ Free(c)' /\ Awaited(c)'
  BY DEF QueuedConn, Incoming
<1>f. c.from \in Peers /\ c.to \in Peers /\ c # None
  BY ConnEnds
<1>1. CASE \A a \in Peers : ~Connect(a)
  <2>1. Queued(p, Incoming(c)) /\ c.to = p
    BY <1>1, QueuedEffect DEF Ends, QueuedEnds
  <2>2. wire[c][c.from] = <<>> /\ Free(c) /\ Awaited(c)
    BY <2>1 DEF QueuedConn
  <2>3. ASSUME NEW r \in Peers PROVE ~New(r, c)
    <3>1. ASSUME HandshakeDone(r), dial[r].conn = c PROVE FALSE
      BY <2>2, <3>1, HandshakeIs DEF Ends
    <3>2. ASSUME AcceptPeer(r), Head(events[r]).conn = c PROVE FALSE
      <4>1. c.to = r /\ Head(events[r]) = Incoming(c) /\ Take(r, "IncomingConnection")
        BY <3>2, AcceptIs DEF Ends
      <4>2. ~Queued(r, Incoming(c))'
        BY <4>1, TakeOnce
      <4> QED BY <2>1, <4>1, <4>2
    <3> QED BY <3>1, <3>2 DEF New
  <2>4. Free(c)'
    <3> SUFFICES ASSUME NEW r \in Peers
                 PROVE  c \notin reader'[r] /\ \A q \in Peers : peers'[r][q] # c
      OBVIOUS
    <3>1. ~New(r, c)
      BY <2>3
    <3> QED BY <2>2, <3>1, SessionEffect
  <2>5. wire'[c][c.from] = <<>>
    <3>1. CASE Shrunk(c, c.from)
      BY <2>2, <3>1 DEF Shrunk
    <3>2. \A a \in Peers : ~Appended(a, c, c.from)
      BY <1>f, <2>4 DEF Appended
    <3> QED BY <1>f, <3>1, <3>2, WireEffect
  <2>6. Awaited(c)'
    <3> SUFFICES ASSUME c \in up' \/ phase'[c.from] \in {"off", "joining"}
                 PROVE  dial'[c.from].conn = c
      OBVIOUS
    <3>1. c \in up' => c \in up
      BY <1>1, UpEffect
    <3>2. phase'[c.from] \in {"off", "joining"} => phase[c.from] \in {"off", "joining"}
      BY <1>f, PhaseEffect
    <3>3. dial[c.from].conn = c
      BY <2>2, <3>1, <3>2
    <3>4. ~HandshakeDone(c.from)
      BY <1>f, <2>3, <3>3 DEF New
    <3> QED BY <1>f, <3>3, <3>4, DialEffect
  <2> QED BY <2>4, <2>5, <2>6
<1>2. ASSUME NEW a \in Peers, Connect(a)
      PROVE  wire'[c][c.from] = <<>> /\ Free(c)' /\ Awaited(c)'
  <2>1. PICK d \in Conns :
          /\ Unused(d) /\ d.from = a /\ d.to \in Peers
          /\ dial[a].conn = None /\ dial'[a].conn = d
          /\ \A b \in Peers : b # a => dial'[b] = dial[b]
          /\ up' = up \cup {d}
          /\ Enqueue(d.to, Incoming(d))
          /\ UNCHANGED <<phase, peers, reader, wire>>
    BY <1>2, ConnectIs DEF tasks
  <2>2. CASE c = d
    <3>1. Free(c)
      BY <2>1, <2>2, EntryOther DEF Unused
    <3>2. wire[c][c.from] = <<>>
      BY <1>f, <2>1, <2>2 DEF WireRead, Unused
    <3> QED BY <2>1, <2>2, <3>1, <3>2
  <2>3. CASE c # d
    <3>1. Incoming(d) \in RoomEvent /\ Incoming(c) # Incoming(d)
      BY <2>3, EventTypes, EventsDiffer
    <3>2. Queued(p, Incoming(c))
      BY <2>1, <3>1, QueuedEnqueue
    <3>3. wire[c][c.from] = <<>> /\ Free(c) /\ Awaited(c)
      BY <3>2 DEF QueuedConn
    <3>4. Awaited(c)'
      BY <1>f, <2>1, <2>3, <3>3
    <3> QED BY <2>1, <3>3, <3>4
  <2> QED BY <2>2, <2>3
<1> QED BY <1>1, <1>2

-------------------------------------------------------------------------------
(* An open connection has its two ends. *)

\* The last task of a session closes the connection.
LEMMA TasksStay ==
  ASSUME TypeOK, Ends, Monitored, [Next]_vars, NEW c \in Conns, NEW r \in {c.from, c.to},
         c \in up', c \in monitor[r] \cup reader[r]
  PROVE  c \in monitor'[r] \cup reader'[r]
<1> DEFINE Goal == c \in monitor'[r] \cup reader'[r]
<1> SUFFICES Goal
  OBVIOUS
<1>r. r \in Peers
  BY ConnEnds
<1>t. monitor \in [Peers -> SUBSET Conns] /\ reader \in [Peers -> SUBSET Conns]
  BY DEF TypeOK
<1>a. ASSUME UNCHANGED tasks PROVE Goal
  BY <1>a DEF tasks
<1>s. ASSUME NEW p \in Peers, Stop(p) PROVE Goal
  <2>1. r # p
    BY <1>s, StopIs
  <2>2. /\ monitor'[r] = IF r = p THEN {} ELSE monitor[r]
        /\ reader'[r] = IF r = p THEN {} ELSE reader[r]
    BY <1>s, <1>r, StopIs
  <2> QED BY <2>1, <2>2
<1>n. ASSUME NEW p \in Peers, NEW q \in Peers, NEW d \in Conns, AddSession(p, q, d)
      PROVE  Goal
  <2>1. /\ monitor'[r] = IF r = p THEN monitor[r] \cup {d} ELSE monitor[r]
        /\ reader'[r] = IF r = p THEN reader[r] \cup {d} ELSE reader[r]
    BY <1>n, <1>r, AddSessionTasks
  <2> QED BY <2>1
<1>m. ASSUME ~Cancelled(r, c), c \in up PROVE c \in monitor[r]
  BY <1>m, <1>r, OtherType DEF Monitored, Cancelled
<1> HIDE DEF Goal
<1>1. ASSUME NEW p \in Peers,
             \/ StartCall(p) \/ FinishJoin(p) \/ Tick(p) \/ Connect(p)
             \/ RefuseDuplicate(p) \/ IncomingLost(p) \/ HandlePeerList(p)
             \/ HandlePeerDisconnected(p)
      PROVE  Goal
  BY <1>1, <1>a DEF StartCall, FinishJoin, Tick, Connect, RefuseDuplicate, IncomingLost,
                    HandlePeerList, HandlePeerDisconnected
<1>2. ASSUME NEW p \in Peers, NEW q \in Peers, Join(p, q) \/ Dial(p, q) PROVE Goal
  BY <1>2, <1>a DEF Join, Dial
<1>3. ASSUME NEW p \in Peers, Quit(p) PROVE Goal
  BY <1>3, <1>s DEF Quit
<1>4. ASSUME NEW p \in Peers, ConnectFails(p) \/ HandshakeFails(p) PROVE Goal
  <2>1. GiveUp(p)
    BY <1>4 DEF ConnectFails, HandshakeFails
  <2> QED BY <2>1, <1>s, <1>a DEF GiveUp
<1>5. ASSUME NEW p \in Peers, HandshakeDone(p) PROVE Goal
  <2>1. PICK d \in Conns, q \in Peers : AddSession(p, q, d)
    BY <1>5, HandshakeIs DEF Ends
  <2> QED BY <2>1, <1>n
<1>6. ASSUME NEW p \in Peers, AcceptPeer(p) PROVE Goal
  <2>1. PICK d \in Conns : d.from \in Peers /\ AddSession(p, d.from, d)
    BY <1>6, AcceptIs DEF Ends
  <2> QED BY <2>1, <1>n
<1>7. ASSUME NEW p \in Peers, NEW d \in Conns, Deliver(p, d) PROVE Goal
  BY <1>7, <1>a DEF Deliver
<1>8. ASSUME NEW p \in Peers, NEW d \in Conns, ReaderFails(p, d) \/ ReaderQuits(p, d)
      PROVE  Goal
  <2>1. /\ reader' = [reader EXCEPT ![p] = @ \ {d}] /\ UNCHANGED monitor
        /\ up' = AfterTask(p, d, monitor)
    BY <1>8 DEF ReaderFails, ReaderQuits
  <2>2. CASE p = r /\ d = c
    <3>1. c \in up /\ (~Cancelled(r, c) \/ c \in monitor[r])
      BY <2>1, <2>2 DEF AfterTask
    <3>2. c \in monitor[r]
      BY <3>1, <1>m
    <3> QED BY <2>1, <3>2 DEF Goal
  <2>3. CASE ~(p = r /\ d = c)
    <3>1. c \in reader[r] => c \in reader'[r]
      BY <1>r, <1>t, <2>1, <2>3
    <3> QED BY <2>1, <3>1 DEF Goal
  <2> QED BY <2>2, <2>3
<1>9. ASSUME NEW p \in Peers, NEW d \in Conns, MonitorFires(p, d) \/ MonitorQuits(p, d)
      PROVE  Goal
  <2>1. monitor' = [monitor EXCEPT ![p] = @ \ {d}] /\ UNCHANGED reader
    BY <1>9 DEF MonitorFires, MonitorQuits
  <2>2. CASE p = r /\ d = c
    <3>1. ~MonitorFires(p, d)
      BY <2>2 DEF MonitorFires
    <3>2. c \in reader[r]
      BY <1>9, <2>2, <3>1 DEF MonitorQuits, AfterTask
    <3> QED BY <2>1, <3>2 DEF Goal
  <2>3. CASE ~(p = r /\ d = c)
    <3>1. c \in monitor[r] => c \in monitor'[r]
      BY <1>r, <1>t, <2>1, <2>3
    <3> QED BY <2>1, <3>1 DEF Goal
  <2> QED BY <2>2, <2>3
<1>10. ASSUME NEW d \in Conns, Drop(d) PROVE Goal
  BY <1>10, <1>a DEF Drop
<1>11. CASE UNCHANGED vars
  BY <1>11, <1>a DEF vars
<1> QED
  BY <1>1, <1>2, <1>3, <1>4, <1>5, <1>6, <1>7, <1>8, <1>9, <1>10, <1>11, NextCases

LEMMA WrittenStep ==
  ASSUME TypeOK, Ends, Ends', OrderInv, WireRead, Monitored, Monitored', Written,
         up' \subseteq Conns, [Next]_vars
  PROVE  Written'
<1> SUFFICES ASSUME NEW c \in up', NEW r \in {c.from, c.to}, wire'[c][r] # <<>>
             PROVE  c \in monitor'[Other(r, c)] \cup reader'[Other(r, c)]
  BY DEF Written
<1>c. c \in Conns /\ r \in Peers /\ Other(r, c) \in {c.from, c.to}
  BY ConnEnds DEF Other
<1>1. CASE Shrunk(c, r)
  <2>1. wire[c][r] # <<>>
    BY <1>1 DEF Shrunk
  <2>2. CASE c \in up
    <3>1. c \in monitor[Other(r, c)] \cup reader[Other(r, c)]
      BY <2>1, <2>2 DEF Written
    <3> QED BY <1>c, <3>1, TasksStay
  <2>3. CASE c \notin up
    <3>1. PICK a \in Peers : Connect(a)
      BY <2>3, UpEffect
    <3>2. PICK d \in Conns : Unused(d) /\ up' = up \cup {d}
      BY <3>1, ConnectIs
    <3>3. Unused(c)
      BY <2>3, <3>2
    <3> QED BY <1>c, <2>1, <3>3 DEF Unused, WireRead
  <2> QED BY <2>2, <2>3
<1>2. ASSUME NEW p \in Peers, Appended(p, c, r)
      PROVE  c \in monitor'[Other(r, c)] \cup reader'[Other(r, c)]
  <2>1. peers'[p][r] = c /\ c # None
    BY <1>2, <1>c, ConnEnds DEF Appended
  <2>2. c \in monitor'[p]
    BY <1>c, <2>1 DEF Monitored
  <2>3. c \in Between(p, r)
    BY <1>c, <2>1 DEF Ends, EntryEnds
  <2>4. Other(r, c) = p
    BY <2>3, ConnEnds, <1>c DEF Between, Other
  <2> QED BY <2>2, <2>4
<1> QED BY <1>c, <1>1, <1>2, WireEffect

LEMMA HalfOpenStep ==
  ASSUME TypeOK, Ends, Ends', OrderInv, Monitored, Written, QueuedConn, NoHalfOpen,
         up' \subseteq Conns, [Next]_vars
  PROVE  NoHalfOpen'
<1> DEFINE Goal(q, p, c) == peers'[q][p] = c \/ dial'[q].conn = c
                            \/ c \in monitor'[q] \cup reader'[q]
<1> SUFFICES ASSUME NEW p \in Peers, NEW q \in Peers, NEW c \in up', peers'[p][q] = c
             PROVE  Goal(q, p, c)
  BY DEF NoHalfOpen
<1>c. c \in Conns /\ c # None
  BY ConnEnds
<1>e. p # q /\ {c.from, c.to} = {p, q}
  <2>1. c \in Between(p, q)
    BY <1>c DEF Ends, EntryEnds
  <2> QED BY <1>c, <2>1, ConnEnds DEF Between
<1>o. Other(p, c) = q /\ q \in {c.from, c.to}
  BY <1>e DEF Other
<1>t. c \in monitor[q] \cup reader[q] => Goal(q, p, c)
  BY <1>c, <1>o, TasksStay
<1>1. CASE c \notin up
  <2>1. PICK a \in Peers : Connect(a)
    BY <1>1, UpEffect
  <2>2. PICK d \in Conns : Unused(d) /\ up' = up \cup {d} /\ UNCHANGED peers
    BY <2>1, ConnectIs
  <2>3. Unused(c)
    BY <1>1, <2>2
  <2> QED BY <1>o, <2>2, <2>3 DEF Unused
<1>2. CASE c \in up /\ peers[p][q] = c
  <2>1. CASE peers[q][p] = c
    <3>1. c \in monitor[q]
      BY <1>2, <2>1 DEF Monitored
    <3> QED BY <3>1, <1>t
  <2>2. CASE dial[q].conn = c
    <3>1. CASE HandshakeDone(q)
      <4>1. PICK b \in Peers : AddSession(q, b, c)
        BY <2>2, <3>1, HandshakeIs DEF Ends
      <4>2. reader'[q] = IF q = q THEN reader[q] \cup {c} ELSE reader[q]
        BY <1>c, <4>1, AddSessionTasks
      <4> QED BY <4>2
    <3>2. CASE ~HandshakeDone(q)
      BY <1>c, <2>2, <3>2, DialEffect
    <3> QED BY <3>1, <3>2
  <2> QED BY <1>2, <2>1, <2>2, <1>t DEF NoHalfOpen
<1>3. CASE c \in up /\ peers[p][q] # c
  <2>1. New(p, c)
    BY <1>c, <1>3, SessionEffect
  <2>2. CASE HandshakeDone(p) /\ dial[p].conn = c
    <3>1. wire[c][p] # <<>>
      BY <2>2, HandshakeIs DEF Ends
    <3>2. c \in monitor[q] \cup reader[q]
      BY <1>e, <1>o, <1>3, <3>1 DEF Written
    <3> QED BY <3>2, <1>t
  <2>3. CASE AcceptPeer(p) /\ Head(events[p]).conn = c
    <3>1. Queued(p, Incoming(c)) /\ c.to = p /\ UNCHANGED dial
      BY <2>3, AcceptIs DEF Ends
    <3>2. dial[c.from].conn = c
      BY <1>c, <1>3, <3>1 DEF QueuedConn
    <3> QED BY <1>e, <3>1, <3>2
  <2> QED BY <2>1, <2>2, <2>3 DEF New
<1> QED BY <1>1, <1>2, <1>3

\* The inductive invariant.
HalfInv ==
  /\ TypeOK /\ Ends /\ OrderInv
  /\ WireRead /\ QueuedOnce /\ QueuedConn
  /\ Monitored /\ Written /\ NoHalfOpen

LEMMA HalfInit == Init => HalfInv
<1> SUFFICES ASSUME Init PROVE HalfInv
  OBVIOUS
<1>1. \A c \in Conns : c # None
  BY ConnEnds
<1>2. TypeOK /\ Ends
  BY <1>1, BoundsAssumption
     DEF Init, TypeOK, NoDial, Ends, EntryEnds, DialEnds, QueuedEnds, Queued
<1>3. OrderInv
  BY OrderInit
<1>4. \A p \in Peers : 1..Len(events[p]) = {}
  BY DEF Init
<1>5. QueuedOnce /\ QueuedConn
  BY <1>4 DEF QueuedOnce, QueuedConn, Queued
<1>6. WireRead
  BY DEF Init, WireRead
<1>7. Monitored /\ Written /\ NoHalfOpen
  BY DEF Init, Monitored, Written, NoHalfOpen
<1> QED BY <1>2, <1>3, <1>5, <1>6, <1>7 DEF HalfInv

LEMMA HalfStep == HalfInv /\ [Next]_vars => HalfInv'
<1> SUFFICES ASSUME HalfInv, [Next]_vars PROVE HalfInv'
  OBVIOUS
<1> USE DEF HalfInv
<1>1. TypeOK' /\ Ends'
  BY TypeStep, EndsStep
<1>2. OrderInv'
  BY OrderStep
<1>3. WireRead' /\ QueuedOnce' /\ QueuedConn'
  BY WireReadStep, QueuedEffect, QueuedConnStep
<1>4. Monitored'
  BY MonitoredStep
<1>5. up' \subseteq Conns
  BY <1>1 DEF TypeOK
<1>6. Written'
  BY <1>1, <1>4, <1>5, WrittenStep
<1>7. NoHalfOpen'
  BY <1>1, <1>5, HalfOpenStep
<1> QED BY <1>1, <1>2, <1>3, <1>4, <1>6, <1>7

\* In every call, an open connection that one end has a session on is known to
\* the other end (add_peer_with_media, spawn_connection_monitor and
\* handle_peer_disconnected of room.rs, control::spawn_control_reader).
THEOREM NeverHalfOpen == Spec => []NoHalfOpen
<1>1. HalfInv => NoHalfOpen
  BY DEF HalfInv
<1> QED BY <1>1, HalfInit, HalfStep, PTL DEF Spec

-------------------------------------------------------------------------------
(* Nobody knows a participant before its ticket is answered. *)

\* The lists that r has been sent and has not acted upon.
Sent(r, L) == Queued(r, ListMsg(L)) \/ \E c \in Conns : OnWire(c, r, L)

LEMMA HeadOnWire ==
  ASSUME TypeOK, NEW c \in Conns, NEW r \in Peers, wire[c][r] # <<>>
  PROVE  Head(wire[c][r]) \in SUBSET Peers /\ Sent(r, Head(wire[c][r]))
<1>1. wire[c][r] \in Seq(SUBSET Peers)
  BY DEF TypeOK
<1>2. Head(wire[c][r]) \in SUBSET Peers
  BY <1>1
<1>3. \E i \in 1..Len(wire[c][r]) : wire[c][r][i] = Head(wire[c][r])
  BY <1>1, TailIn
<1> QED BY <1>2, <1>3 DEF Sent, OnWire

LEMMA HeadQueued ==
  ASSUME TypeOK, NEW r \in Peers, Take(r, "PeerList")
  PROVE  Head(events[r]).list \in SUBSET Peers /\ Sent(r, Head(events[r]).list)
<1>1. Head(events[r]) \in RoomEvent /\ Head(events[r]).kind = "PeerList"
  BY TakeType DEF Take
<1>2. /\ Head(events[r]).list \in SUBSET Peers
      /\ Head(events[r]) = ListMsg(Head(events[r]).list)
  BY <1>1, EventKinds
<1> QED BY <1>2, QueuedTake DEF Sent

\* A participant dials whom a list names.
LEMMA WorkEffect ==
  ASSUME TypeOK, Ends, [Next]_vars, NEW r \in Peers, NEW q \in work'[r], q \notin work[r]
  PROVE  \E L \in SUBSET Peers : q \in L /\ Sent(r, L)
<1> DEFINE Goal == \E L \in SUBSET Peers : q \in L /\ Sent(r, L)
<1> SUFFICES Goal
  OBVIOUS
<1>w. work \in [Peers -> SUBSET Peers]
  BY DEF TypeOK
<1>t. ASSUME NEW p \in Peers, NEW L \in SUBSET Peers, NEW s,
             work' = [work EXCEPT ![p] = Targets(p, L, s)], Sent(p, L)
      PROVE  Goal
  <2>1. work'[r] = IF r = p THEN Targets(p, L, s) ELSE work[r]
    BY <1>t, <1>w
  <2>2. r = p /\ q \in L
    BY <2>1 DEF Targets
  <2> QED BY <1>t, <2>2
<1> HIDE DEF Goal
<1>1. ASSUME NEW p \in Peers,
             \/ StartCall(p) \/ FinishJoin(p) \/ Tick(p) \/ Connect(p) \/ AcceptPeer(p)
             \/ RefuseDuplicate(p) \/ IncomingLost(p) \/ HandlePeerDisconnected(p)
      PROVE  Goal
  BY <1>1 DEF StartCall, FinishJoin, Tick, Connect, AcceptPeer, RefuseDuplicate,
              IncomingLost, HandlePeerDisconnected, room
<1>2. ASSUME NEW p \in Peers, NEW x \in Peers, Join(p, x) \/ Dial(p, x) PROVE Goal
  BY <1>2, <1>w DEF Join, Dial
<1>s. ASSUME NEW p \in Peers, Stop(p) PROVE Goal
  <2>1. work'[r] = IF r = p THEN {} ELSE work[r]
    BY <1>s, StopIs
  <2> QED BY <2>1
<1>3. ASSUME NEW p \in Peers, Quit(p) PROVE Goal
  BY <1>3, <1>s DEF Quit
<1>4. ASSUME NEW p \in Peers, ConnectFails(p) \/ HandshakeFails(p) PROVE Goal
  <2>1. GiveUp(p)
    BY <1>4 DEF ConnectFails, HandshakeFails
  <2> QED BY <2>1, <1>s DEF GiveUp
<1>5. ASSUME NEW p \in Peers, HandshakeDone(p) PROVE Goal
  <2>1. PICK c \in Conns, x \in Peers : dial[p].conn = c /\ dial[p].to = x
    BY <1>5, HandshakeIs DEF Ends
  <2>2. wire[c][p] # <<>>
    BY <1>5, <2>1, HandshakeIs DEF Ends
  <2>3. CASE phase[p] = "joining"
    <3>1. work' = [work EXCEPT ![p] = Targets(p, Head(wire[c][p]), [peers[p] EXCEPT ![x] = c])]
      BY <1>5, <2>1, <2>3 DEF HandshakeDone
    <3>2. PICK L \in SUBSET Peers : L = Head(wire[c][p]) /\ Sent(p, L)
      BY <2>2, HeadOnWire
    <3> QED BY <3>1, <3>2, <1>t
  <2>4. CASE phase[p] # "joining"
    BY <1>5, <2>4 DEF HandshakeDone
  <2> QED BY <2>3, <2>4
<1>6. ASSUME NEW p \in Peers, HandlePeerList(p) PROVE Goal
  <2>1. /\ Take(p, "PeerList")
        /\ work' = [work EXCEPT ![p] = Targets(p, Head(events[p]).list, peers[p])]
    BY <1>6 DEF HandlePeerList
  <2>2. PICK L \in SUBSET Peers : L = Head(events[p]).list /\ Sent(p, L)
    BY <2>1, HeadQueued
  <2> QED BY <2>1, <2>2, <1>t
<1>7. ASSUME NEW p \in Peers, NEW d \in Conns,
             \/ Deliver(p, d) \/ ReaderFails(p, d) \/ ReaderQuits(p, d)
             \/ MonitorFires(p, d) \/ MonitorQuits(p, d)
      PROVE  Goal
  BY <1>7 DEF Deliver, ReaderFails, ReaderQuits, MonitorFires, MonitorQuits, room
<1>8. ASSUME NEW d \in Conns, Drop(d) PROVE Goal
  BY <1>8 DEF Drop, room
<1>9. CASE UNCHANGED vars
  BY <1>9 DEF vars, room
<1> QED BY <1>1, <1>2, <1>3, <1>4, <1>5, <1>6, <1>7, <1>8, <1>9, NextCases

\* A list reaches the channel from a wire.
LEMMA ListEffect ==
  ASSUME TypeOK, [Next]_vars, NEW r \in Peers, NEW L \in SUBSET Peers,
         Queued(r, ListMsg(L))'
  PROVE  Sent(r, L)
<1> DEFINE Goal == Sent(r, L)
<1> SUFFICES Goal
  OBVIOUS
<1>a. ASSUME UNCHANGED events PROVE Goal
  BY <1>a DEF Queued, ListMsg, Sent
<1>b. ASSUME NEW p \in Peers, NEW k, Take(p, k) PROVE Goal
  BY <1>b, QueuedTake DEF Sent
<1>c. ASSUME NEW p \in Peers, NEW e \in RoomEvent, Enqueue(p, e),
             e = ListMsg(L) => Sent(p, L)
      PROVE  Goal
  BY <1>c, QueuedEnqueue DEF Sent
<1>s. ASSUME NEW p \in Peers, Stop(p) PROVE Goal
  <2>1. \A a \in Peers : events'[a] = IF a = p THEN <<>> ELSE events[a]
    BY <1>s, StopIs
  <2>2. 1..Len(<<>>) = {}
    OBVIOUS
  <2> QED BY <2>1, <2>2 DEF Queued, ListMsg, Sent
<1> HIDE DEF Goal
<1>1. ASSUME NEW p \in Peers,
             StartCall(p) \/ FinishJoin(p) \/ Tick(p) \/ HandshakeDone(p)
      PROVE  Goal
  BY <1>1, <1>a DEF StartCall, FinishJoin, Tick, HandshakeDone
<1>2. ASSUME NEW p \in Peers, NEW q \in Peers, Join(p, q) \/ Dial(p, q) PROVE Goal
  BY <1>2, <1>a DEF Join, Dial
<1>3. ASSUME NEW p \in Peers, Quit(p) PROVE Goal
  BY <1>3, <1>s DEF Quit
<1>4. ASSUME NEW p \in Peers, Connect(p) PROVE Goal
  <2>1. PICK c \in Conns : c.to \in Peers /\ Enqueue(c.to, Incoming(c))
    BY <1>4, ConnectIs
  <2>2. Incoming(c) \in RoomEvent /\ Incoming(c) # ListMsg(L)
    BY EventTypes, EventsDiffer
  <2> QED BY <2>1, <2>2, <1>c
<1>5. ASSUME NEW p \in Peers, ConnectFails(p) \/ HandshakeFails(p) PROVE Goal
  <2>1. GiveUp(p)
    BY <1>5 DEF ConnectFails, HandshakeFails
  <2> QED BY <2>1, <1>s, <1>a DEF GiveUp
<1>6. ASSUME NEW p \in Peers,
             \/ RefuseDuplicate(p) \/ AcceptPeer(p) \/ IncomingLost(p)
             \/ HandlePeerDisconnected(p) \/ HandlePeerList(p)
      PROVE  Goal
  BY <1>6, <1>b DEF RefuseDuplicate, AcceptPeer, IncomingLost, HandlePeerDisconnected,
                    HandlePeerList
<1>7. ASSUME NEW p \in Peers, NEW c \in Conns, Deliver(p, c) PROVE Goal
  <2>1. wire[c][p] # <<>> /\ Enqueue(p, ListMsg(Head(wire[c][p])))
    BY <1>7 DEF Deliver
  <2>2. PICK M \in SUBSET Peers : M = Head(wire[c][p]) /\ Sent(p, M)
    BY <2>1, HeadOnWire
  <2>3. ListMsg(M) \in RoomEvent /\ (ListMsg(M) = ListMsg(L) => Sent(p, L))
    BY <2>2, EventTypes, EventsDiffer
  <2> QED BY <2>1, <2>2, <2>3, <1>c
<1>8. ASSUME NEW p \in Peers, NEW c \in Conns, ReaderFails(p, c) \/ MonitorFires(p, c)
      PROVE  Goal
  <2>1. Disconnected(Other(p, c)) \in RoomEvent /\ Other(p, c) \in Peers
    BY OtherType, EventTypes
  <2>2. Disconnected(Other(p, c)) # ListMsg(L)
    BY <2>1, EventsDiffer
  <2> QED BY <1>8, <1>c, <2>1, <2>2 DEF ReaderFails, MonitorFires
<1>9. ASSUME NEW p \in Peers, NEW c \in Conns, ReaderQuits(p, c) \/ MonitorQuits(p, c)
      PROVE  Goal
  BY <1>9, <1>a DEF ReaderQuits, MonitorQuits
<1>10. ASSUME NEW c \in Conns, Drop(c) PROVE Goal
  BY <1>10, <1>a DEF Drop
<1>11. CASE UNCHANGED vars
  BY <1>11, <1>a DEF vars
<1> QED
  BY <1>1, <1>2, <1>3, <1>4, <1>5, <1>6, <1>7, <1>8, <1>9, <1>10, <1>11, NextCases

\* Whom a participant dials comes from a list or from its ticket.
LEMMA DialToEffect ==
  ASSUME TypeOK, [Next]_vars, NEW r \in Peers, NEW q \in Peers, dial'[r].to = q
  PROVE  phase'[r] = "joining" \/ q \in work[r] \/ (dial[r].to = q /\ phase[r] # "joining")
<1> DEFINE Goal == phase'[r] = "joining" \/ q \in work[r]
                   \/ (dial[r].to = q /\ phase[r] # "joining")
<1> SUFFICES Goal
  OBVIOUS
<1>q. NoDial.to # q
  BY PeersAssumption DEF NoDial
<1>a. ASSUME phase'[r] = phase[r], dial'[r].to = dial[r].to PROVE Goal
  BY <1>a
<1>s. ASSUME NEW p \in Peers, Stop(p) PROVE Goal
  <2>1. /\ dial'[r] = IF r = p THEN NoDial ELSE dial[r]
        /\ phase'[r] = IF r = p THEN "gone" ELSE phase[r]
    BY <1>s, StopIs
  <2> QED BY <1>q, <2>1
<1> HIDE DEF Goal
<1>1. ASSUME NEW p \in Peers,
             \/ Tick(p) \/ AcceptPeer(p) \/ RefuseDuplicate(p) \/ IncomingLost(p)
             \/ HandlePeerList(p) \/ HandlePeerDisconnected(p)
      PROVE  Goal
  BY <1>1, <1>a DEF Tick, AcceptPeer, RefuseDuplicate, IncomingLost,
                    HandlePeerList, HandlePeerDisconnected, room
<1>2. ASSUME NEW p \in Peers, StartCall(p) \/ FinishJoin(p) PROVE Goal
  <2>1. phase[p] \notin {"joining"} /\ UNCHANGED dial /\ (r # p => phase'[r] = phase[r])
    BY <1>2 DEF StartCall, FinishJoin, TypeOK
  <2> QED BY <2>1 DEF Goal
<1>3. ASSUME NEW p \in Peers, NEW x \in Peers, Join(p, x) PROVE Goal
  <2>1. /\ phase'[r] = IF r = p THEN "joining" ELSE phase[r]
        /\ dial'[r] = IF r = p THEN [to |-> x, conn |-> None] ELSE dial[r]
    BY <1>3 DEF Join, TypeOK
  <2> QED BY <2>1, <1>a DEF Goal
<1>4. ASSUME NEW p \in Peers, NEW x \in Peers, Dial(p, x) PROVE Goal
  <2>1. /\ UNCHANGED phase /\ x \in work[p]
        /\ dial'[r] = IF r = p THEN [to |-> x, conn |-> None] ELSE dial[r]
    BY <1>4 DEF Dial, TypeOK
  <2> QED BY <2>1, <1>a DEF Goal
<1>5. ASSUME NEW p \in Peers, Quit(p) PROVE Goal
  BY <1>5, <1>s DEF Quit
<1>6. ASSUME NEW p \in Peers, Connect(p) PROVE Goal
  <2>1. /\ dial'[p].to = dial[p].to /\ \A a \in Peers : a # p => dial'[a] = dial[a]
        /\ UNCHANGED phase
    BY <1>6, ConnectIs
  <2> QED BY <2>1, <1>a
<1>7. ASSUME NEW p \in Peers, ConnectFails(p) \/ HandshakeFails(p) PROVE Goal
  <2>1. GiveUp(p)
    BY <1>7 DEF ConnectFails, HandshakeFails
  <2>2. CASE phase[p] = "joining"
    BY <2>1, <2>2, <1>s DEF GiveUp
  <2>3. CASE phase[p] # "joining"
    <3>1. dial'[r] = (IF r = p THEN NoDial ELSE dial[r]) /\ UNCHANGED phase
      BY <2>1, <2>3, GiveUpIs
    <3> QED BY <1>q, <1>a, <3>1
  <2> QED BY <2>2, <2>3
<1>8. ASSUME NEW p \in Peers, HandshakeDone(p) PROVE Goal
  <2>1. dial' = [dial EXCEPT ![p] = NoDial] /\ (r # p => phase'[r] = phase[r])
    BY <1>8 DEF HandshakeDone, TypeOK
  <2>2. DOMAIN dial = Peers
    BY DEF TypeOK
  <2>3. dial'[r] = IF r = p THEN NoDial ELSE dial[r]
    BY <2>1, <2>2
  <2> QED BY <1>q, <1>a, <2>1, <2>3
<1>9. ASSUME NEW p \in Peers, NEW d \in Conns,
             \/ Deliver(p, d) \/ ReaderFails(p, d) \/ ReaderQuits(p, d)
             \/ MonitorFires(p, d) \/ MonitorQuits(p, d)
      PROVE  Goal
  BY <1>9, <1>a DEF Deliver, ReaderFails, ReaderQuits, MonitorFires, MonitorQuits, room
<1>10. ASSUME NEW d \in Conns, Drop(d) PROVE Goal
  BY <1>10, <1>a DEF Drop, room
<1>11. CASE UNCHANGED vars
  BY <1>11, <1>a DEF vars, room
<1> QED
  BY <1>1, <1>2, <1>3, <1>4, <1>5, <1>6, <1>7, <1>8, <1>9, <1>10, <1>11, NextCases

LEMMA BroadcastAdds ==
  ASSUME NEW p \in Peers, NEW s, NEW w \in Wires, NEW d \in Conns, NEW r \in Peers,
         w[d][r] # <<>>
  PROVE  Broadcast(p, s, w)[d][r] # <<>>
<1>1. w[d][r] \in Seq(SUBSET Peers) /\ PeerList(p, s) \in SUBSET Peers
  BY DEF Wires, PeerList
<1>2. Append(w[d][r], PeerList(p, s)) # <<>>
  BY <1>1, AppendNotEmpty
<1> QED BY <1>2, BroadcastAt

\* The reply of an acceptor is on its way, and nothing is lost on the other wires.
LEMMA ReplySent ==
  ASSUME TypeOK, Ends, NEW p \in Peers, AcceptPeer(p), NEW d \in Conns, NEW r \in Peers,
         \/ wire[d][r] # <<>>
         \/ d = Head(events[p]).conn /\ r = d.from /\ Receives(r, d)
  PROVE  wire'[d][r] # <<>>
<1>1. PICK c \in Conns : Head(events[p]).conn = c
  BY AcceptIs DEF Ends
<1>2. c.from \in Peers
  BY ConnEnds
<1> DEFINE old == PeerList(p, peers[p])
           reply == IF Receives(c.from, c) THEN Append(wire[c][c.from], old)
                                           ELSE wire[c][c.from]
           w == [wire EXCEPT ![c][c.from] = reply]
           s == [peers[p] EXCEPT ![c.from] = c]
<1>3. wire' = Broadcast(p, s, w)
  BY <1>1 DEF AcceptPeer
<1>w. wire \in Wires
  BY DEF TypeOK, Wires
<1>4. wire[c][c.from] \in Seq(SUBSET Peers) /\ old \in SUBSET Peers
  BY <1>2, <1>w DEF PeerList, Wires
<1>5. reply \in Seq(SUBSET Peers) /\ Append(wire[c][c.from], old) # <<>>
  BY <1>4, AppendSeq, AppendNotEmpty
<1>6. wire[c][c.from] # <<>> \/ Receives(c.from, c) => reply # <<>>
  BY <1>5
<1> HIDE DEF old, reply, s
<1>7. w \in Wires /\ w[d][r] = IF r = c.from /\ d = c THEN reply ELSE wire[d][r]
  BY <1>2, <1>w, <1>5 DEF Wires
<1> HIDE DEF w
<1>8. w[d][r] # <<>>
  BY <1>1, <1>6, <1>7
<1> QED BY <1>3, <1>7, <1>8, BroadcastAdds

\* While a participant joins, nothing that is on the way to it is read or lost.
LEMMA JoinerWire ==
  ASSUME TypeOK, Ends, OrderInv, [Next]_vars, NEW x \in Peers, NEW d \in Conns,
         phase[x] = "joining", phase'[x] = "joining", wire[d][x] # <<>>
  PROVE  wire'[d][x] # <<>>
<1> DEFINE Goal == wire'[d][x] # <<>>
<1> SUFFICES Goal
  OBVIOUS
<1>w. wire \in Wires /\ reader[x] = {}
  BY DEF TypeOK, Wires, OrderInv, JoiningQuiet
<1>a. ASSUME wire'[d][x] = wire[d][x] PROVE Goal
  BY <1>a
<1>b. ASSUME NEW p \in Peers, NEW s, NEW w \in Wires, w[d][x] = wire[d][x],
             wire' = Broadcast(p, s, w)
      PROVE  Goal
  BY <1>b, BroadcastAdds
<1>s. ASSUME NEW p \in Peers, Stop(p) PROVE Goal
  <2>1. /\ wire'[d][x] = IF x = p THEN <<>> ELSE wire[d][x]
        /\ phase'[x] = IF x = p THEN "gone" ELSE phase[x]
    BY <1>s, StopIs
  <2> QED BY <2>1
<1> HIDE DEF Goal
<1>1. ASSUME NEW p \in Peers,
             \/ StartCall(p) \/ FinishJoin(p) \/ RefuseDuplicate(p) \/ IncomingLost(p)
             \/ HandlePeerList(p) \/ Connect(p)
      PROVE  Goal
  BY <1>1, <1>a DEF StartCall, FinishJoin, RefuseDuplicate, IncomingLost, HandlePeerList,
                    Connect
<1>2. ASSUME NEW p \in Peers, NEW q \in Peers, Join(p, q) \/ Dial(p, q) PROVE Goal
  BY <1>2, <1>a DEF Join, Dial
<1>3. ASSUME NEW p \in Peers, Quit(p) PROVE Goal
  BY <1>3, <1>s DEF Quit
<1>4. ASSUME NEW p \in Peers, ConnectFails(p) \/ HandshakeFails(p) PROVE Goal
  <2>1. GiveUp(p)
    BY <1>4 DEF ConnectFails, HandshakeFails
  <2>2. CASE phase[p] = "joining"
    BY <2>1, <2>2, <1>s DEF GiveUp
  <2>3. CASE phase[p] # "joining"
    <3>1. wire'[d][x] = IF x = p /\ d = dial[p].conn THEN <<>> ELSE wire[d][x]
      BY <2>1, <2>3, GiveUpIs
    <3> QED BY <2>3, <3>1, <1>a
  <2> QED BY <2>2, <2>3
<1>5. ASSUME NEW p \in Peers, HandshakeDone(p) PROVE Goal
  <2>1. PICK c \in Conns, q \in Peers : dial[p].conn = c /\ dial[p].to = q
    BY <1>5, HandshakeIs DEF Ends
  <2>2. wire[c][p] # <<>> /\ p # x
    <3>1. phase'[x] = IF x = p /\ phase[x] = "joining" THEN "meshing" ELSE phase[x]
      BY <1>5, HandshakeIs DEF Ends
    <3> QED BY <1>5, <2>1, <3>1, HandshakeIs DEF Ends
  <2> DEFINE w == [wire EXCEPT ![c][p] = Tail(@)]
             s == [peers[p] EXCEPT ![q] = c]
  <2>3. w \in Wires
    BY <2>2, WireType
  <2>4. w[d][x] = wire[d][x]
    BY <1>w, <2>2 DEF Wires
  <2>5. wire' = w \/ wire' = Broadcast(p, s, w)
    BY <1>5, <2>1 DEF HandshakeDone
  <2> HIDE DEF w, s
  <2> QED BY <2>3, <2>4, <2>5, <1>a, <1>b
<1>6. ASSUME NEW p \in Peers, AcceptPeer(p) PROVE Goal
  BY <1>6, ReplySent DEF Goal
<1>7. ASSUME NEW p \in Peers, HandlePeerDisconnected(p) \/ Tick(p) PROVE Goal
  <2>1. PICK s : wire' = Broadcast(p, s, wire)
    BY <1>7 DEF HandlePeerDisconnected, Tick
  <2> QED BY <1>w, <2>1, <1>b
<1>8. ASSUME NEW p \in Peers, NEW c \in Conns,
             Deliver(p, c) \/ ReaderFails(p, c) \/ ReaderQuits(p, c)
      PROVE  Goal
  <2>1. c \in reader[p] /\ \E y : wire' = [wire EXCEPT ![c][p] = y]
    BY <1>8 DEF Deliver, ReaderFails, ReaderQuits
  <2>2. wire'[d][x] = wire[d][x]
    BY <1>w, <2>1 DEF Wires
  <2> QED BY <2>2, <1>a
<1>9. ASSUME NEW p \in Peers, NEW c \in Conns, MonitorFires(p, c) \/ MonitorQuits(p, c)
      PROVE  Goal
  BY <1>9, <1>a DEF MonitorFires, MonitorQuits
<1>10. ASSUME NEW c \in Conns, Drop(c) PROVE Goal
  BY <1>10, <1>a DEF Drop
<1>11. CASE UNCHANGED vars
  BY <1>11, <1>a DEF vars
<1> QED
  BY <1>1, <1>2, <1>3, <1>4, <1>5, <1>6, <1>7, <1>8, <1>9, <1>10, <1>11, NextCases

Hidden(p) == phase[p] = "off" \/ Unanswered(p)

\* Once answered, or with its connection lost, a joiner does not wait again.
LEMMA HiddenBefore ==
  ASSUME TypeOK, Ends, OrderInv, [Next]_vars, NEW p \in Peers, Hidden(p)'
  PROVE  Hidden(p)
<1>1. phase'[p] \in {"off", "joining"} /\ phase[p] \in {"off", "joining"}
  BY PhaseEffect DEF Hidden, Unanswered
<1> SUFFICES ASSUME phase[p] = "joining", dial[p].conn # None
             PROVE  dial[p].conn \in up /\ wire[dial[p].conn][p] = <<>>
  BY <1>1 DEF Hidden, Unanswered
<1>2. PICK c \in Conns : dial[p].conn = c
  BY DialType
<1>3. ~HandshakeDone(p)
  <2> SUFFICES ASSUME HandshakeDone(p) PROVE FALSE
    OBVIOUS
  <2>1. phase'[p] = IF p = p /\ phase[p] = "joining" THEN "meshing" ELSE phase[p]
    BY HandshakeIs DEF Ends
  <2> QED BY <1>1, <2>1
<1>4. dial'[p].conn = c
  BY <1>1, <1>2, <1>3, DialEffect
<1>5. phase'[p] # "off"
  <2>1. OrderInv'
    BY OrderStep
  <2>2. dial'[p] # NoDial
    BY <1>4, ConnEnds DEF NoDial
  <2> QED BY <2>1, <2>2 DEF OrderInv, JoiningQuiet
<1>6. phase'[p] = "joining" /\ c \in up' /\ wire'[c][p] = <<>>
  BY <1>1, <1>4, <1>5, ConnEnds DEF Hidden, Unanswered
<1>7. c \in up
  <2> SUFFICES ASSUME c \notin up PROVE FALSE
    OBVIOUS
  <2>1. PICK a \in Peers : Connect(a)
    BY <1>6, UpEffect
  <2>2. PICK d \in Conns : Unused(d) /\ up' = up \cup {d}
    BY <2>1, ConnectIs
  <2>3. Unused(c)
    BY <1>6, <2>2
  <2> QED BY <1>2, <2>3 DEF Unused
<1>8. wire[c][p] = <<>>
  BY <1>6, JoinerWire
<1> QED BY <1>2, <1>7, <1>8

\* A participant that nobody knows gets no session before it is answered.
LEMMA StillNoEntry ==
  ASSUME TypeOK, Ends, OrderInv, QueuedOnce, QueuedConn, [Next]_vars,
         NEW p \in Peers, Hidden(p), Hidden(p)', Secret(p),
         NEW r \in Peers, r # p, NEW c \in Conns, peers'[r][p] = c
  PROVE  FALSE
<1>1. peers[r][p] # c
  BY ConnEnds DEF Secret
<1>2. New(r, c)
  BY <1>1, SessionEffect
<1>3. CASE HandshakeDone(r) /\ dial[r].conn = c
  <2>1. PICK q \in Peers : dial[r].to = q /\ AddSession(r, q, c)
    BY <1>3, HandshakeIs DEF Ends
  <2>2. \A a, b \in Peers : peers'[a][b] = IF a = r /\ b = q THEN c ELSE peers[a][b]
    BY <2>1, AddSessionEntry
  <2>3. q = p
    BY <1>1, <2>2
  <2>4. phase[p] \notin {"off", "joining"}
    BY <1>3, <2>1, <2>3, ConnEnds DEF OrderInv, AcceptorRuns
  <2> QED BY <2>4 DEF Hidden, Unanswered
<1>4. CASE AcceptPeer(r) /\ Head(events[r]).conn = c
  <2>1. /\ Queued(r, Incoming(c)) /\ c.from \in Peers /\ AddSession(r, c.from, c)
        /\ UNCHANGED <<phase, dial>>
    BY <1>4, AcceptIs DEF Ends
  <2>2. \A a, b \in Peers : peers'[a][b] = IF a = r /\ b = c.from THEN c ELSE peers[a][b]
    <3>1. AddSession(r, c.from, c)
      BY <2>1
    <3> QED BY <2>1, <3>1, AddSessionEntry
  <2>3. c.from = p
    BY <1>1, <2>2
  <2>4. phase[p] \in {"off", "joining"}
    BY DEF Hidden, Unanswered
  <2>5. dial[p].conn = c
    BY <2>1, <2>3, <2>4 DEF QueuedConn
  <2>6. phase[p] # "off" /\ c # None
    BY <2>5, ConnEnds DEF OrderInv, JoiningQuiet, NoDial
  <2>7. c \in up
    BY <2>5, <2>6 DEF Hidden, Unanswered
  <2>8. wire'[c][p] # <<>>
    BY <1>4, <2>3, <2>5, <2>7, ReplySent DEF Receives
  <2>9. phase'[p] # "off" /\ dial'[p].conn = c
    BY <2>1, <2>5, <2>6
  <2> QED BY <2>6, <2>8, <2>9 DEF Hidden, Unanswered
<1> QED BY <1>2, <1>3, <1>4 DEF New

LEMMA UnknownStep ==
  ASSUME TypeOK, TypeOK', Ends, OrderInv, QueuedOnce, QueuedConn, Unknown, [Next]_vars
  PROVE  Unknown'
<1> SUFFICES ASSUME NEW p \in Peers, Hidden(p)' PROVE Secret(p)'
  BY DEF Unknown, Hidden
<1>1. Hidden(p)
  BY HiddenBefore
<1>2. Secret(p)
  BY <1>1 DEF Unknown, Hidden
<1>3. ASSUME NEW r \in Peers \ {p} PROVE peers'[r][p] = None
  <2>1. peers'[r][p] \in Conns \cup {None}
    BY DEF TypeOK
  <2> QED BY <1>1, <1>2, <2>1, StillNoEntry
<1>4. ASSUME NEW r \in Peers, r # p, NEW L \in SUBSET Peers, Sent(r, L) PROVE p \notin L
  BY <1>2, <1>4 DEF Secret, Sent
<1>5. ASSUME NEW r \in Peers \ {p} PROVE p \notin work'[r]
  BY <1>2, <1>4, WorkEffect DEF Secret
<1>6. ASSUME NEW r \in Peers \ {p}, dial'[r].to = p PROVE phase'[r] = "joining"
  BY <1>2, <1>6, DialToEffect DEF Secret
<1>7. ASSUME NEW r \in Peers \ {p}, NEW L \in SUBSET Peers, Queued(r, ListMsg(L))'
      PROVE  p \notin L
  BY <1>4, <1>7, ListEffect
<1>8. ASSUME NEW d \in Conns, NEW r \in Peers, NEW L \in SUBSET Peers, OnWire(d, r, L)'
      PROVE  p \notin L
  <2>1. ~OnWire(d, r, L) => \E a \in Peers :
          /\ phase[a] \notin {"off", "joining"}
          /\ L = PeerList(a, peers[a]) \/ L = PeerList(a, peers'[a])
    BY <1>8, WireEffect DEF Shrunk, Appended
  <2>2. CASE OnWire(d, r, L)
    BY <1>2, <2>2 DEF Secret
  <2>3. CASE ~OnWire(d, r, L)
    <3>1. PICK a \in Peers :
            /\ phase[a] \notin {"off", "joining"}
            /\ L = PeerList(a, peers[a]) \/ L = PeerList(a, peers'[a])
      BY <2>1, <2>3
    <3>2. a # p
      BY <1>1, <3>1 DEF Hidden, Unanswered
    <3>3. peers[a][p] = None /\ peers'[a][p] = None
      BY <1>2, <1>3, <3>2 DEF Secret
    <3> QED BY <3>1, <3>2, <3>3 DEF PeerList
  <2> QED BY <2>2, <2>3
<1> QED BY <1>3, <1>5, <1>6, <1>7, <1>8 DEF Secret

-------------------------------------------------------------------------------
(* No rooms wait on one another. *)

LEMMA LeastNatural ==
  ASSUME NEW S \in SUBSET Nat, S # {}
  PROVE  \E least \in S : \A k \in S : least <= k
<1> DEFINE R == OpToRel(<, Nat)
<1>1. IsWellFoundedOn(R, Nat)
  BY NatLessThanWellFounded
<1>2. \A i, j \in Nat : i < j <=> <<i, j>> \in R
  BY DEF OpToRel
<1> HIDE DEF R
<1>3. PICK least \in S : \A k \in S : <<k, least>> \notin R
  BY <1>1, WFMin
<1>4. \A k \in S : ~(k < least) /\ k \in Nat /\ least \in Nat
  BY <1>2, <1>3
<1> QED BY <1>4

\* A nonempty set of participants has one that a measure makes least ...
LEMMA LeastMember ==
  ASSUME NEW S \in SUBSET Peers, S # {}, NEW m \in [Peers -> Nat]
  PROVE  \E p \in S : \A q \in S : ~(m[q] < m[p])
<1> DEFINE T == {m[p] : p \in S}
<1>1. T \in SUBSET Nat /\ T # {}
  OBVIOUS
<1>2. PICK least \in T : \A k \in T : least <= k
  BY <1>1, LeastNatural
<1>3. PICK p \in S : m[p] = least
  BY <1>2
<1>4. \A q \in S : least <= m[q] /\ m[q] \in Nat /\ least \in Nat
  BY <1>1, <1>2
<1> QED BY <1>3, <1>4

\* ... and one with the greatest key.
LEMMA GreatestMember ==
  ASSUME NEW S \in SUBSET Peers, S # {}
  PROVE  \E p \in S : \A q \in S : ~(p < q)
<1> DEFINE Above(p) == {x \in Peers : p < x}
           m == [p \in Peers |-> Cardinality(Above(p))]
<1>1. ASSUME NEW p \in Peers PROVE IsFiniteSet(Above(p)) /\ Cardinality(Above(p)) \in Nat
  <2>1. Above(p) \in SUBSET Peers
    OBVIOUS
  <2> QED BY <2>1, PeersAssumption, FS_Subset, FS_CardinalityType
<1>2. ASSUME NEW p \in Peers, NEW q \in Peers, p < q
      PROVE  Cardinality(Above(q)) < Cardinality(Above(p))
  <2>1. p \in Nat /\ q \in Nat /\ \A x \in Peers : x \in Nat
    BY PeersAssumption
  <2>2. \A x \in Above(q) : x \in Above(p)
    BY <1>2, <2>1
  <2>3. Above(q) \in SUBSET Above(p)
    BY <2>2
  <2>4. Above(q) # Above(p)
    <3>1. q \in Above(p)
      BY <1>2
    <3>2. q \notin Above(q)
      BY <2>1
    <3> QED BY <3>1, <3>2
  <2> HIDE DEF Above
  <2>5. /\ Cardinality(Above(q)) <= Cardinality(Above(p))
        /\ Cardinality(Above(p)) # Cardinality(Above(q))
    BY <1>1, <2>3, <2>4, FS_Subset
  <2> QED BY <1>1, <2>5
<1> HIDE DEF Above
<1>3. m \in [Peers -> Nat]
  BY <1>1
<1>4. PICK p \in S : \A q \in S : ~(m[q] < m[p])
  BY <1>3, LeastMember
<1> QED BY <1>2, <1>4

\* Rooms that are in the call wait only on rooms in the call with larger keys,
\* rooms that join only on rooms that started before them.
LEMMA NoCycle ==
  ASSUME TypeOK, Ends, OrderInv, Unknown
  PROVE  NoWaitCycle
<1> SUFFICES ASSUME NEW S \in (SUBSET Peers) \ {{}}
             PROVE  \E p \in S : \A q \in S : ~Waits(p, q)
  BY DEF NoWaitCycle
<1>n. S \in SUBSET Peers /\ S # {}
  OBVIOUS
<1> SUFFICES ASSUME \A p \in S : \E q \in S : Waits(p, q)
             PROVE  FALSE
  OBVIOUS
<1> DEFINE Joined == {p \in S : phase[p] # "joining"}
<1>d. \A p \in S : dial[p].to \in S
  BY DEF Waits
<1>p. \A p \in S : p \in Peers /\ p # None
  BY PeersAssumption
<1>1. CASE Joined # {}
  <2>1. PICK p \in Joined : \A q \in Joined : ~(p < q)
    BY <1>1, GreatestMember
  <2>2. PICK q \in S : dial[p].to = q /\ Waits(p, q)
    BY DEF Waits
  <2>3. q \in Joined
    <3> SUFFICES ASSUME phase[q] = "joining" PROVE FALSE
      OBVIOUS
    <3>1. Unanswered(q)
      BY DEF Unanswered, Waits
    <3>2. Secret(q)
      BY <3>1, <1>p DEF Unknown
    <3> QED BY <2>2, <3>2, <1>p DEF Secret
  <2>4. p < q
    BY <2>2, <1>p DEF OrderInv, KeyOrder
  <2> QED BY <2>1, <2>3, <2>4
<1>2. CASE Joined = {}
  <2>1. born \in [Peers -> Nat]
    BY DEF TypeOK
  <2>2. PICK p \in S : \A q \in S : ~(born[q] < born[p])
    BY <2>1, LeastMember
  <2>3. phase[p] = "joining"
    BY <1>2
  <2>4. born[dial[p].to] < born[p]
    BY <2>3, <1>p DEF OrderInv, TicketOrder
  <2> QED BY <1>d, <2>2, <2>4
<1> QED BY <1>1, <1>2

\* In every call, no rooms wait on one another in a cycle (should_initiate and
\* open_control_and_add_peer of room.rs, the blocking handshake of join_via_peer).
THEOREM NoDeadlock == Spec => []NoWaitCycle
<1> DEFINE Inv == HalfInv /\ Unknown
<1>1. Init => Inv
  <2> SUFFICES ASSUME Init PROVE Unknown
    BY HalfInit
  <2>1. \A p \in Peers : 1..Len(events[p]) = {}
    BY DEF Init
  <2>2. \A c \in Conns : \A p \in Peers : 1..Len(wire[c][p]) = {}
    BY DEF Init
  <2> QED BY <2>1, <2>2, PeersAssumption
          DEF Init, Unknown, Secret, Queued, OnWire, NoDial
<1>2. Inv /\ [Next]_vars => Inv'
  <2> SUFFICES ASSUME HalfInv, Unknown, [Next]_vars PROVE HalfInv' /\ Unknown'
    OBVIOUS
  <2>1. HalfInv'
    BY HalfStep
  <2>2. Unknown'
    BY <2>1, UnknownStep DEF HalfInv
  <2> QED BY <2>1, <2>2
<1>3. Inv => NoWaitCycle
  BY NoCycle DEF HalfInv
<1> QED BY <1>1, <1>2, <1>3, PTL DEF Spec
===============================================================================

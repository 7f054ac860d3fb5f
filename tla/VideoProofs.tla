----------------------------- MODULE VideoProofs -----------------------------
(***************************************************************************)
(* Video from the encoder to the decoder, for every number of sessions and *)
(* every capacity: the sender asks for the keyframes it owes and sends     *)
(* them alone (VideoSend); the receiver decodes a frame only right after   *)
(* the one it refers to, and counts what it drops (VideoPath).             *)
(*                                                                         *)
(* Both rest on the numbers of frames: what is sent under a larger number  *)
(* was encoded later, and no number is used twice.                         *)
(***************************************************************************)
EXTENDS VideoPath, FiniteSetTheorems, TLAPS

\* The frames that have been sent to s, or are being sent.
Numbered(s) == in_flight[s] \cup sent[s]

\* There are numbers enough: as many as there are frames.
Counted ==
  /\ encoding # "no" => n < MaxFrames
  /\ frame_seq + Len(packets) <= n
  /\ handling # None => frame_seq > 0 /\ handling.n <= n

\* Packets are in the order in which they were encoded.
PacketsInOrder ==
  \A i \in 1..Len(packets) :
    /\ packets[i].n <= n
    /\ handling # None => handling.n < packets[i].n
    /\ \A j \in 1..Len(packets) : i < j => packets[i].n < packets[j].n

\* Frames are numbered in the order in which they were encoded, and each gets a number
\* that is larger than those before it.
NumbersInOrder ==
  \A s \in Sessions : \A f \in Numbered(s) :
    /\ f.seq <= frame_seq /\ f.n <= n
    /\ handling # None => f.seq < frame_seq /\ f.n < handling.n
    /\ \A i \in 1..Len(packets) : f.n < packets[i].n
    /\ \A g \in Numbered(s) : f.seq < g.seq <=> f.n < g.n

\* Nothing has been sent to a session that has not been added.
FreshEmpty == \A s \in Sessions \ past : Numbered(s) = {}

\* A keyframe that is going to be sent has the connections for itself.
KeyAlone == handling # None /\ handling.key => \A s \in Sessions : in_flight[s] = {}

SendInv ==
  /\ SendTypeOK /\ Counted /\ PacketsInOrder /\ NumbersInOrder /\ FreshEmpty /\ KeyAlone
  /\ KeyframeOwed /\ OneGroupInFlight /\ CutSuperseded

-------------------------------------------------------------------------------
(* The encoder thread. *)

USE VideoSendAssumption

LEMMA TakeFrameKeeps ==
  ASSUME SendInv, TakeFrame
  PROVE  SendInv'
<1> USE DEF TakeFrame, loop, peers, debt
<1>1. SendTypeOK' /\ Counted'
  BY DEF SendInv, SendTypeOK, Counted
<1>2. PacketsInOrder' /\ NumbersInOrder' /\ FreshEmpty' /\ KeyAlone'
  BY DEF SendInv, PacketsInOrder, NumbersInOrder, Numbered, FreshEmpty, KeyAlone
<1>3. KeyframeOwed'
  BY DEF SendInv, SendTypeOK, KeyframeOwed, KeyComing
<1>4. OneGroupInFlight' /\ CutSuperseded'
  BY DEF SendInv, OneGroupInFlight, CutSuperseded
<1> QED BY <1>1, <1>2, <1>3, <1>4 DEF SendInv

LEMMA EncodeFrameKeeps ==
  ASSUME SendInv, EncodeFrame
  PROVE  SendInv'
<1> USE DEF EncodeFrame, loop, peers
<1>1. PICK k \in BOOLEAN :
        /\ IsKey(k)
        /\ gop' = NextGop(k)
        /\ \/ /\ HasRoom
              /\ packets' = Append(packets, [n |-> n', key |-> k])
              /\ UNCHANGED missed
           \/ /\ ~HasRoom
              /\ LoseKey(k)
              /\ UNCHANGED packets
  OBVIOUS
<1>2. n \in Nat /\ n' = n + 1 /\ n' \in 1..MaxFrames /\ packets \in Seq(Packet)
  BY DEF SendInv, SendTypeOK, Counted
<1>3. [n |-> n', key |-> k] \in Packet
  BY <1>2 DEF Packet
<1>4. SendTypeOK'
  <2>1. packets' \in Seq(Packet) /\ Len(packets') <= ChanCap
    BY <1>1, <1>2, <1>3 DEF HasRoom, SendInv, SendTypeOK
  <2>2. gop' \in 0..KeyInterval
    BY <1>1 DEF NextGop, SendInv, SendTypeOK
  <2>3. missed' \subseteq owed
    BY <1>1 DEF LoseKey, SendInv, SendTypeOK
  <2> QED BY <1>2, <2>1, <2>2, <2>3 DEF SendInv, SendTypeOK
<1>5. /\ Len(packets) \in Nat /\ Len(packets') \in Nat /\ Len(packets') <= Len(packets) + 1
      /\ \A i \in 1..Len(packets) : i \in 1..Len(packets') /\ packets'[i] = packets[i]
      /\ \A i \in 1..Len(packets') : i \notin 1..Len(packets) =>
           i = Len(packets) + 1 /\ packets'[i].n = n' /\ packets'[i].key = k
  BY <1>1, <1>2, <1>3
<1>6. UNCHANGED <<handling, frame_seq, in_flight, sent>> /\ encoding' = "no"
  OBVIOUS
<1>7. Counted'
  BY <1>2, <1>5, <1>6 DEF SendInv, SendTypeOK, Counted, Packet
<1>8. PacketsInOrder'
  <2>1. handling # None => handling.n \in Nat /\ handling.n <= n
    BY DEF SendInv, SendTypeOK, Counted, Packet
  <2>2. \A i \in 1..Len(packets) : packets[i].n \in Nat /\ packets[i].n <= n
    <3>1. \A i \in 1..Len(packets) : packets[i] \in Packet
      BY <1>2
    <3> QED BY <3>1 DEF SendInv, PacketsInOrder, Packet
  <2> SUFFICES ASSUME NEW i \in 1..Len(packets')
               PROVE  /\ packets'[i].n <= n'
                      /\ handling # None => handling.n < packets'[i].n
                      /\ \A j \in 1..Len(packets') : i < j => packets'[i].n < packets'[j].n
    BY <1>6 DEF PacketsInOrder
  <2>3. CASE i \in 1..Len(packets)
    BY <1>2, <1>5, <2>1, <2>2, <2>3 DEF SendInv, PacketsInOrder
  <2>4. CASE i \notin 1..Len(packets)
    BY <1>2, <1>5, <2>1, <2>4
  <2> QED BY <2>3, <2>4
<1>9. NumbersInOrder'
  BY <1>2, <1>5, <1>6 DEF SendInv, SendTypeOK, NumbersInOrder, Numbered, Frame, Stream
<1>10. FreshEmpty' /\ KeyAlone' /\ OneGroupInFlight' /\ CutSuperseded'
  BY DEF SendInv, FreshEmpty, Numbered, KeyAlone, OneGroupInFlight, CutSuperseded
<1>11. KeyframeOwed'
  <2>1. CASE ~HasRoom
    BY <1>1, <1>2, <1>5, <2>1 DEF SendInv, SendTypeOK, KeyframeOwed, KeyComing, IsKey, LoseKey
  <2>2. CASE HasRoom
    BY <1>1, <1>2, <1>5, <2>2 DEF SendInv, SendTypeOK, KeyframeOwed, KeyComing, IsKey
  <2> QED BY <2>1, <2>2
<1> QED BY <1>4, <1>7, <1>8, <1>9, <1>10, <1>11 DEF SendInv

\* Nothing becomes of frames and packets where none is sent or taken.
LEMMA FramesKept ==
  ASSUME SendInv, UNCHANGED <<packets, handling, frame_seq, in_flight, sent>>,
         n' \in Nat, n <= n', past \subseteq past'
  PROVE  /\ PacketsInOrder' /\ NumbersInOrder' /\ FreshEmpty' /\ KeyAlone'
         /\ OneGroupInFlight'
<1>1. PacketsInOrder'
  <2>1. \A i \in 1..Len(packets) : packets[i].n <= n'
    <3>1. \A i \in 1..Len(packets) : packets[i] \in Packet
      BY DEF SendInv, SendTypeOK
    <3>2. n \in Nat
      BY DEF SendInv, SendTypeOK
    <3> QED BY <3>1, <3>2 DEF SendInv, PacketsInOrder, Packet
  <2> QED BY <2>1 DEF SendInv, PacketsInOrder
<1>2. NumbersInOrder'
  <2>1. \A s \in Sessions : \A f \in Numbered(s) : f.n <= n'
    <3>1. \A s \in Sessions : \A f \in Numbered(s) : f.n \in Nat
      BY DEF SendInv, SendTypeOK, Numbered, Frame, Stream
    <3>2. n \in Nat
      BY DEF SendInv, SendTypeOK
    <3> QED BY <3>1, <3>2 DEF SendInv, NumbersInOrder
  <2> QED BY <2>1 DEF SendInv, NumbersInOrder, Numbered
<1>3. FreshEmpty' /\ KeyAlone' /\ OneGroupInFlight'
  BY DEF SendInv, FreshEmpty, Numbered, KeyAlone, OneGroupInFlight
<1> QED BY <1>1, <1>2, <1>3

LEMMA EncodeFailsKeeps ==
  ASSUME SendInv, EncodeFails
  PROVE  SendInv'
<1> USE DEF EncodeFails, loop, peers
<1>1. PICK k \in BOOLEAN :
        /\ LoseKey(k)
        /\ encoding = "key" => k
        /\ \/ UNCHANGED <<n, gop>>
           \/ n' = n + 1 /\ gop' = NextGop(k)
  <2>1. (encoding = "key") \in BOOLEAN
    OBVIOUS
  <2> QED BY <2>1 DEF IsKey
<1>2. n \in Nat /\ n < MaxFrames /\ n' \in 0..MaxFrames /\ n <= n'
  BY <1>1 DEF SendInv, SendTypeOK, Counted
<1>3. SendTypeOK'
  <2>1. gop' \in 0..KeyInterval
    BY <1>1 DEF NextGop, SendInv, SendTypeOK
  <2>2. missed' \subseteq owed
    BY <1>1 DEF LoseKey, SendInv, SendTypeOK
  <2>3. fails' \in 0..MaxFails
    BY DEF SendInv, SendTypeOK
  <2> QED BY <1>2, <2>1, <2>2, <2>3 DEF SendInv, SendTypeOK
<1>4. Counted'
  BY <1>2 DEF SendInv, SendTypeOK, Counted, Packet
<1>5. PacketsInOrder' /\ NumbersInOrder' /\ FreshEmpty' /\ KeyAlone' /\ OneGroupInFlight'
  BY <1>2, FramesKept
<1>6. KeyframeOwed'
  BY <1>1 DEF SendInv, SendTypeOK, KeyframeOwed, KeyComing, LoseKey
<1>7. CutSuperseded'
  BY DEF SendInv, CutSuperseded
<1> QED BY <1>3, <1>4, <1>5, <1>6, <1>7 DEF SendInv

LEMMA RecreateSessionKeeps ==
  ASSUME SendInv, RecreateSession
  PROVE  SendInv'
<1> USE DEF RecreateSession, loop, peers, debt
<1>1. SendTypeOK' /\ Counted'
  BY DEF SendInv, SendTypeOK, Counted
<1>2. n' \in Nat /\ n <= n'
  BY DEF SendInv, SendTypeOK
<1>3. PacketsInOrder' /\ NumbersInOrder' /\ FreshEmpty' /\ KeyAlone' /\ OneGroupInFlight'
  BY <1>2, FramesKept
<1>4. KeyframeOwed' /\ CutSuperseded'
  BY DEF SendInv, KeyframeOwed, KeyComing, CutSuperseded
<1> QED BY <1>1, <1>3, <1>4 DEF SendInv

-------------------------------------------------------------------------------
(* The room's calls. *)

\* A peer that is put into the map is still in add_peer, and nothing has been sent to it.
LEMMA AddPeerKeeps ==
  ASSUME SendInv, NEW s \in Sessions, AddPeer(s)
  PROVE  SendInv'
<1> USE DEF AddPeer, encode, loop, debt
<1>1. SendTypeOK' /\ Counted'
  BY DEF SendInv, SendTypeOK, Counted
<1>2. n' \in Nat /\ n <= n'
  BY DEF SendInv, SendTypeOK
<1>3. PacketsInOrder' /\ NumbersInOrder' /\ FreshEmpty' /\ KeyAlone' /\ OneGroupInFlight'
  BY <1>2, FramesKept
<1>4. KeyframeOwed'
  BY DEF SendInv, SendTypeOK, KeyframeOwed, KeyComing
<1>5. CutSuperseded'
  BY DEF SendInv, SendTypeOK, FreshEmpty, Numbered, CutSuperseded
<1> QED BY <1>1, <1>3, <1>4, <1>5 DEF SendInv

LEMMA RemovePeerKeeps ==
  ASSUME SendInv, NEW s \in Sessions, RemovePeer(s)
  PROVE  SendInv'
<1> USE DEF RemovePeer, encode, loop
<1>1. SendTypeOK' /\ Counted'
  BY DEF SendInv, SendTypeOK, Counted
<1>2. n' \in Nat /\ n <= n'
  BY DEF SendInv, SendTypeOK
<1>3. PacketsInOrder' /\ NumbersInOrder' /\ FreshEmpty' /\ KeyAlone' /\ OneGroupInFlight'
  BY <1>2, FramesKept
<1>4. KeyframeOwed' /\ CutSuperseded'
  BY DEF SendInv, KeyframeOwed, KeyComing, CutSuperseded
<1> QED BY <1>1, <1>3, <1>4 DEF SendInv

LEMMA LoseConnectionKeeps ==
  ASSUME SendInv, NEW s \in Sessions, LoseConnection(s)
  PROVE  SendInv'
<1> USE DEF LoseConnection, encode, loop, debt
<1>1. SendTypeOK' /\ Counted'
  BY DEF SendInv, SendTypeOK, Counted
<1>2. n' \in Nat /\ n <= n'
  BY DEF SendInv, SendTypeOK
<1>3. PacketsInOrder' /\ NumbersInOrder' /\ FreshEmpty' /\ KeyAlone' /\ OneGroupInFlight'
  BY <1>2, FramesKept
<1>4. KeyframeOwed' /\ CutSuperseded'
  BY DEF SendInv, KeyframeOwed, KeyComing, CutSuperseded
<1> QED BY <1>1, <1>3, <1>4 DEF SendInv

-------------------------------------------------------------------------------
(* send_loop. *)

LEMMA StartSendLoopKeeps ==
  ASSUME SendInv, StartSendLoop
  PROVE  SendInv'
<1> USE DEF StartSendLoop, encode, peers, debt
<1>1. SendTypeOK' /\ Counted'
  BY DEF SendInv, SendTypeOK, Counted
<1>2. n' \in Nat /\ n <= n'
  BY DEF SendInv, SendTypeOK
<1>3. PacketsInOrder' /\ NumbersInOrder' /\ FreshEmpty' /\ KeyAlone' /\ OneGroupInFlight'
  BY <1>2, FramesKept
<1>4. KeyframeOwed' /\ CutSuperseded'
  BY DEF SendInv, KeyframeOwed, KeyComing, CutSuperseded
<1> QED BY <1>1, <1>3, <1>4 DEF SendInv

\* Each frame of s is one that was there before.
Traced(s) ==
  \A f \in Numbered(s)' : \E g \in Numbered(s) : f.seq = g.seq /\ f.n = g.n

\* What AbortAll does to s: all of its tasks are gone, and of some a part is on the way.
LEMMA AbortAllCuts ==
  ASSUME SendInv, AbortAll, NEW s \in Sessions
  PROVE  /\ in_flight' = [t \in Sessions |-> {}]
         /\ sent' \in [Sessions -> SUBSET Stream]
         /\ sent[s] \subseteq sent'[s]
         /\ Traced(s)
<1>1. PICK begun \in [Sessions -> SUBSET UNION {in_flight[t] : t \in Sessions}] :
        /\ \A t \in Sessions : begun[t] \subseteq in_flight[t]
        /\ sent' = [t \in Sessions |-> sent[t] \cup {OnItsWay(f, FALSE) : f \in begun[t]}]
  BY DEF AbortAll
<1>2. in_flight' = [t \in Sessions |-> {}]
  BY DEF AbortAll
<1>3. in_flight \in [Sessions -> SUBSET Frame] /\ sent \in [Sessions -> SUBSET Stream]
  BY DEF SendInv, SendTypeOK
<1>4. ASSUME NEW t \in Sessions
      PROVE  sent'[t] \in SUBSET Stream
  <2>1. \A f \in begun[t] : OnItsWay(f, FALSE) \in Stream
    BY <1>1, <1>3 DEF OnItsWay, Frame, Stream
  <2>2. sent'[t] = sent[t] \cup {OnItsWay(f, FALSE) : f \in begun[t]}
    BY <1>1
  <2>3. sent[t] \subseteq Stream
    BY <1>3
  <2> QED BY <2>1, <2>2, <2>3
<1>5. sent' \in [Sessions -> SUBSET Stream]
  BY <1>1, <1>4
<1>6. ASSUME NEW f \in Numbered(s)'
      PROVE  \E g \in Numbered(s) : f.seq = g.seq /\ f.n = g.n
  <2>1. f \in sent[s] \cup {OnItsWay(g, FALSE) : g \in begun[s]}
    BY <1>1, <1>2 DEF Numbered
  <2>2. CASE f \in sent[s]
    BY <2>2 DEF Numbered
  <2>3. ASSUME NEW g \in begun[s], f = OnItsWay(g, FALSE)
        PROVE  \E h \in Numbered(s) : f.seq = h.seq /\ f.n = h.n
    BY <1>1, <2>3 DEF Numbered, OnItsWay
  <2> QED BY <2>1, <2>2, <2>3
<1> QED BY <1>1, <1>2, <1>5, <1>6 DEF Traced

\* Frames that can be traced to others are in order like these.
LEMMA TracedInOrder ==
  ASSUME SendInv, NEW s \in Sessions, Traced(s), NEW f \in Numbered(s)'
  PROVE  /\ f.seq <= frame_seq /\ f.n <= n
         /\ handling # None => f.seq < frame_seq /\ f.n < handling.n
         /\ \A i \in 1..Len(packets) : f.n < packets[i].n
         /\ \A g \in Numbered(s)' : f.seq < g.seq <=> f.n < g.n
BY DEF SendInv, NumbersInOrder, Traced

\* The frames that are not sent because nobody is there are nobody's loss.
LEMMA TakePacketKeeps ==
  ASSUME SendInv, TakePacket
  PROVE  SendInv'
<1>1. /\ handling = None /\ packets # <<>> /\ packets' = Tail(packets)
      /\ UNCHANGED <<force_keyframe, encoding, n, gop, fails, sending, peers, debt>>
      /\ packets \in Seq(Packet) /\ Head(packets) \in Packet /\ Head(packets) = packets[1]
      /\ Len(packets) \in Nat /\ Len(packets) > 0 /\ Len(packets') = Len(packets) - 1
      /\ \A i \in 1..Len(packets') : i + 1 \in 1..Len(packets) /\ packets'[i] = packets[i + 1]
      /\ packets' \in Seq(Packet)
  BY DEF TakePacket, SendInv, SendTypeOK
<1>2. /\ n \in Nat /\ frame_seq \in Nat /\ frame_seq + 1 <= n
      /\ packets[1].n \in Nat /\ packets[1].n <= n
      /\ \A i \in 1..Len(packets') : packets[1].n < packets'[i].n
  <2>1. n \in Nat /\ frame_seq \in Nat /\ frame_seq + 1 <= n
    BY <1>1 DEF SendInv, SendTypeOK, Counted
  <2>2. packets[1].n \in Nat /\ packets[1].n <= n
    BY <1>1 DEF SendInv, PacketsInOrder, Packet
  <2>3. \A i \in 1..Len(packets') : packets[1].n < packets'[i].n
    <3>1. \A i \in 1..Len(packets') : 1 \in 1..Len(packets) /\ i + 1 \in 1..Len(packets) /\ 1 < i + 1
      BY <1>1
    <3> QED BY <1>1, <3>1 DEF SendInv, PacketsInOrder
  <2> QED BY <2>1, <2>2, <2>3
<1>3. \/ members = {} /\ AbortAll /\ UNCHANGED <<handling, frame_seq>>
      \/ /\ members # {}
         /\ handling' = Head(packets) /\ frame_seq' = frame_seq + 1
         /\ IF Head(packets).key THEN AbortAll ELSE UNCHANGED <<in_flight, sent>>
  BY DEF TakePacket
<1>4. /\ in_flight' \in [Sessions -> SUBSET Frame] /\ sent' \in [Sessions -> SUBSET Stream]
      /\ \A s \in Sessions :
           /\ Traced(s) /\ sent[s] \subseteq sent'[s]
           /\ in_flight'[s] = {} \/ in_flight'[s] = in_flight[s]
  <2>1. CASE AbortAll
    <3>1. in_flight' = [t \in Sessions |-> {}]
      BY <2>1 DEF AbortAll
    <3>2. in_flight' \in [Sessions -> SUBSET Frame]
      BY <3>1
    <3>3. sent' \in [Sessions -> SUBSET Stream]
      <4>1. CASE Sessions = {}
        BY <2>1, <4>1 DEF AbortAll
      <4>2. CASE Sessions # {}
        BY <2>1, <4>2, AbortAllCuts
      <4> QED BY <4>1, <4>2
    <3> QED BY <2>1, <3>1, <3>2, <3>3, AbortAllCuts
  <2>2. CASE UNCHANGED <<in_flight, sent>>
    BY <2>2 DEF SendInv, SendTypeOK, Traced, Numbered
  <2> QED BY <1>3, <2>1, <2>2
<1>5. SendTypeOK'
  BY <1>1, <1>2, <1>3, <1>4 DEF SendInv, SendTypeOK, peers, debt
<1>6. Counted'
  BY <1>1, <1>2, <1>3 DEF SendInv, Counted
<1>7. PacketsInOrder'
  <2> SUFFICES ASSUME NEW i \in 1..Len(packets')
               PROVE  /\ packets'[i].n <= n'
                      /\ handling' # None => handling'.n < packets'[i].n
                      /\ \A j \in 1..Len(packets') : i < j => packets'[i].n < packets'[j].n
    BY DEF PacketsInOrder
  <2>1. packets'[i].n <= n'
    BY <1>1 DEF SendInv, PacketsInOrder
  <2>2. handling' # None => handling'.n < packets'[i].n
    BY <1>1, <1>2, <1>3
  <2>3. ASSUME NEW j \in 1..Len(packets'), i < j
        PROVE  packets'[i].n < packets'[j].n
    <3>1. i + 1 \in 1..Len(packets) /\ j + 1 \in 1..Len(packets) /\ i + 1 < j + 1
      BY <1>1, <2>3
    <3> QED BY <1>1, <3>1 DEF SendInv, PacketsInOrder
  <2> QED BY <2>1, <2>2, <2>3
<1>8. NumbersInOrder'
  <2> SUFFICES ASSUME NEW s \in Sessions, NEW f \in Numbered(s)'
               PROVE  /\ f.seq <= frame_seq' /\ f.n <= n'
                      /\ handling' # None => f.seq < frame_seq' /\ f.n < handling'.n
                      /\ \A i \in 1..Len(packets') : f.n < packets'[i].n
                      /\ \A g \in Numbered(s)' : f.seq < g.seq <=> f.n < g.n
    BY DEF NumbersInOrder
  <2>1. /\ f.seq <= frame_seq /\ f.n <= n
        /\ \A i \in 1..Len(packets) : f.n < packets[i].n
        /\ \A g \in Numbered(s)' : f.seq < g.seq <=> f.n < g.n
    BY <1>4, TracedInOrder
  <2>2. f.seq \in Nat /\ f.n \in Nat
    BY <1>4 DEF Numbered, Frame, Stream
  <2>3. \A i \in 1..Len(packets') : f.n < packets'[i].n
    BY <1>1, <2>1
  <2>4. 1 \in 1..Len(packets)
    BY <1>1
  <2> QED BY <1>1, <1>2, <1>3, <2>1, <2>2, <2>3, <2>4
<1>9. FreshEmpty'
  BY <1>1, <1>4 DEF SendInv, FreshEmpty, Traced, peers
<1>10. KeyAlone'
  BY <1>1, <1>3 DEF AbortAll, KeyAlone
<1>11. KeyframeOwed'
  <2>1. CASE members = {}
    BY <1>1, <2>1 DEF SendInv, SendTypeOK, KeyframeOwed, peers, debt
  <2>2. CASE members # {}
    <3>1. ASSUME NEW i \in 1..Len(packets), packets[i].key
          PROVE  handling'.key \/ \E j \in 1..Len(packets') : packets'[j].key
      <4>1. CASE i = 1
        BY <1>1, <1>3, <2>2, <3>1, <4>1
      <4>2. CASE i # 1
        <5>1. i - 1 \in 1..Len(packets') /\ packets'[i - 1] = packets[i]
          BY <1>1, <4>2
        <5> QED BY <3>1, <5>1
      <4> QED BY <4>1, <4>2
    <3>2. handling' # None
      BY <1>1, <1>3, <2>2 DEF Packet
    <3> QED BY <1>1, <3>1, <3>2 DEF SendInv, KeyframeOwed, KeyComing, peers, debt
  <2> QED BY <2>1, <2>2
<1>12. OneGroupInFlight'
  BY <1>4 DEF SendInv, OneGroupInFlight
<1>13. CutSuperseded'
  <2>1. CASE members = {}
    BY <1>1, <2>1 DEF CutSuperseded, peers
  <2>2. CASE members # {} /\ Head(packets).key
    BY <1>1, <1>3, <2>2 DEF CutSuperseded, Packet
  <2>3. CASE members # {} /\ ~Head(packets).key
    <3>1. UNCHANGED <<in_flight, sent, members, closed>>
      BY <1>1, <1>3, <2>3 DEF peers
    <3> QED BY <1>1, <3>1 DEF SendInv, CutSuperseded
  <2> QED BY <2>1, <2>2, <2>3
<1> QED BY <1>5, <1>6, <1>7, <1>8, <1>9, <1>10, <1>11, <1>12, <1>13 DEF SendInv

\* The new frames have the number that nothing has been sent under before; a keyframe
\* goes to all members.
LEMMA SpawnTasksKeeps ==
  ASSUME SendInv, SpawnTasks
  PROVE  SendInv'
<1> DEFINE new == [seq |-> frame_seq, key |-> handling.key, n |-> handling.n]
<1>1. /\ handling # None /\ handling' = None
      /\ UNCHANGED <<force_keyframe, sending, frame_seq, sent, encode, peers>>
      /\ handling \in Packet /\ new \in Frame /\ handling.n <= n /\ n \in Nat
  BY DEF SpawnTasks, SendInv, SendTypeOK, Counted, Packet, Frame
<1>2. ASSUME NEW s \in Sessions
      PROVE  in_flight'[s] = IF s \in members THEN in_flight[s] \cup {new} ELSE in_flight[s]
  BY <1>2 DEF SpawnTasks
<1> HIDE DEF new
<1>3. in_flight' \in [Sessions -> SUBSET Frame]
  <2>1. \A s \in Sessions : in_flight'[s] \in SUBSET Frame
    BY <1>1, <1>2 DEF SendInv, SendTypeOK
  <2>2. in_flight' = [s \in Sessions |-> in_flight'[s]]
    BY DEF SpawnTasks
  <2> QED BY <2>1, <2>2
<1>4. new.seq = frame_seq /\ new.key = handling.key /\ new.n = handling.n
  BY DEF new
<1>5. SendTypeOK'
  BY <1>1, <1>3 DEF SpawnTasks, SendInv, SendTypeOK, encode, peers
<1>6. Counted' /\ PacketsInOrder' /\ KeyAlone'
  BY <1>1 DEF SendInv, Counted, PacketsInOrder, KeyAlone, encode
<1>7. NumbersInOrder'
  <2> SUFFICES ASSUME NEW s \in Sessions, NEW f \in Numbered(s)'
               PROVE  /\ f.seq <= frame_seq /\ f.n <= n
                      /\ \A i \in 1..Len(packets) : f.n < packets[i].n
                      /\ \A g \in Numbered(s)' : f.seq < g.seq <=> f.n < g.n
    BY <1>1 DEF NumbersInOrder, encode
  <2>1. \A g \in Numbered(s)' : g \in Numbered(s) \/ g = new
    BY <1>1, <1>2 DEF Numbered
  <2>2. \A g \in Numbered(s) : g.seq < frame_seq /\ g.n < handling.n
    BY <1>1 DEF SendInv, NumbersInOrder
  <2>3. \A g \in Numbered(s) : g.seq \in Nat /\ g.n \in Nat
    BY DEF SendInv, SendTypeOK, Numbered, Frame, Stream
  <2>4. frame_seq \in Nat /\ handling.n \in Nat
    BY <1>1 DEF SendInv, SendTypeOK, Packet
  <2>5. CASE f \in Numbered(s)
    BY <1>4, <2>1, <2>2, <2>3, <2>4, <2>5 DEF SendInv, NumbersInOrder
  <2>6. CASE f = new
    BY <1>1, <1>4, <2>1, <2>2, <2>3, <2>4, <2>6 DEF SendInv, PacketsInOrder
  <2> QED BY <2>1, <2>5, <2>6
<1>8. FreshEmpty'
  BY <1>1, <1>2 DEF SendInv, SendTypeOK, FreshEmpty, Numbered, peers
<1>9. KeyframeOwed'
  BY <1>1 DEF SpawnTasks, SendInv, SendTypeOK, KeyframeOwed, KeyComing, encode, peers
<1>10. OneGroupInFlight'
  <2> SUFFICES ASSUME NEW s \in Sessions, NEW f \in in_flight'[s], NEW g \in in_flight'[s],
                      f.key
               PROVE  f.seq <= g.seq
    BY DEF OneGroupInFlight
  <2>1. CASE g \in in_flight[s] /\ f \in in_flight[s]
    BY <2>1 DEF SendInv, OneGroupInFlight
  <2>2. CASE g = new
    <3>1. frame_seq <= frame_seq
      BY DEF SendInv, SendTypeOK
    <3>2. f \in in_flight[s] => f.seq <= frame_seq
      BY DEF SendInv, NumbersInOrder, Numbered
    <3>3. f \in in_flight[s] \/ f = new
      BY <1>2
    <3> QED BY <1>4, <2>2, <3>1, <3>2, <3>3
  <2>3. CASE f = new /\ g # new
    BY <1>1, <1>2, <1>4, <2>3 DEF SendInv, KeyAlone
  <2> QED BY <1>2, <2>1, <2>2, <2>3
<1>11. CutSuperseded'
  <2> SUFFICES ASSUME NEW s \in members \ closed, NEW f \in sent[s], ~f.whole
               PROVE  \E g \in in_flight'[s] \cup sent[s] : g.key /\ g.seq > f.seq
    BY <1>1 DEF CutSuperseded, peers
  <2>1. s \in Sessions
    BY DEF SendInv, SendTypeOK
  <2>2. CASE handling.key
    <3>1. new \in in_flight'[s]
      BY <1>2, <2>1
    <3>2. f.seq < frame_seq /\ f.seq \in Nat /\ frame_seq \in Nat
      BY <1>1, <2>1 DEF SendInv, SendTypeOK, NumbersInOrder, Numbered, Stream
    <3> QED BY <1>4, <2>2, <3>1, <3>2
  <2>3. CASE ~handling.key
    BY <1>2, <2>1, <2>3 DEF SendInv, CutSuperseded
  <2> QED BY <2>2, <2>3
<1> QED BY <1>5, <1>6, <1>7, <1>8, <1>9, <1>10, <1>11 DEF SendInv

LEMMA TaskEndsKeeps ==
  ASSUME SendInv, NEW s \in Sessions, TaskEnds(s)
  PROVE  SendInv'
<1>1. PICK f \in in_flight[s] :
        /\ in_flight' = [in_flight EXCEPT ![s] = @ \ {f}]
        /\ sent' = IF s \in closed THEN sent ELSE [sent EXCEPT ![s] = @ \cup {OnItsWay(f, TRUE)}]
  BY DEF TaskEnds
<1>2. UNCHANGED <<force_keyframe, sending, handling, frame_seq, encode, peers, debt>>
  BY DEF TaskEnds
<1>3. in_flight \in [Sessions -> SUBSET Frame] /\ sent \in [Sessions -> SUBSET Stream]
  BY DEF SendInv, SendTypeOK
<1>4. /\ OnItsWay(f, TRUE) \in Stream
      /\ OnItsWay(f, TRUE).seq = f.seq /\ OnItsWay(f, TRUE).key = f.key
      /\ OnItsWay(f, TRUE).n = f.n /\ OnItsWay(f, TRUE).whole
  BY <1>1, <1>3 DEF OnItsWay, Frame, Stream
<1>5. /\ in_flight' \in [Sessions -> SUBSET Frame] /\ sent' \in [Sessions -> SUBSET Stream]
      /\ \A t \in Sessions : in_flight'[t] \subseteq in_flight[t]
      /\ \A t \in Sessions : sent'[t] \subseteq sent[t]
                                \cup (IF t = s THEN {OnItsWay(f, TRUE)} ELSE {})
      /\ \A t \in Sessions \ closed : /\ sent[t] \subseteq sent'[t]
                                      /\ in_flight[t] \ in_flight'[t] \subseteq {f}
                                      /\ t # s => in_flight[t] = in_flight'[t]
                                      /\ t = s => OnItsWay(f, TRUE) \in sent'[t]
  BY <1>1, <1>3, <1>4
<1>6. SendTypeOK' /\ Counted' /\ PacketsInOrder'
  BY <1>2, <1>5 DEF SendInv, SendTypeOK, Counted, PacketsInOrder, encode, peers, debt
<1>7. ASSUME NEW t \in Sessions
      PROVE  Traced(t)
  <2>1. Numbered(t)' \subseteq Numbered(t) \cup (IF t = s THEN {OnItsWay(f, TRUE)} ELSE {})
    BY <1>5 DEF Numbered
  <2>2. f \in Numbered(s)
    BY <1>1 DEF Numbered
  <2>3. OnItsWay(f, TRUE).seq = f.seq /\ OnItsWay(f, TRUE).n = f.n
    BY <1>4
  <2> QED BY <2>1, <2>2, <2>3 DEF Traced
<1>8. NumbersInOrder'
  BY <1>2, <1>7, TracedInOrder DEF NumbersInOrder, encode
<1>9. FreshEmpty'
  BY <1>2, <1>7 DEF SendInv, FreshEmpty, Traced, peers
<1>10. KeyAlone' /\ OneGroupInFlight'
  BY <1>2, <1>5 DEF SendInv, KeyAlone, OneGroupInFlight
<1>11. KeyframeOwed'
  BY <1>2 DEF SendInv, KeyframeOwed, KeyComing, encode, peers, debt
<1>12. CutSuperseded'
  <2> SUFFICES ASSUME NEW t \in members \ closed, NEW cut \in sent'[t], ~cut.whole,
                      ~(handling # None /\ handling.key)
               PROVE  \E g \in in_flight'[t] \cup sent'[t] : g.key /\ g.seq > cut.seq
    BY <1>2 DEF CutSuperseded, peers
  <2>1. t \in Sessions
    BY DEF SendInv, SendTypeOK
  <2>2. cut \in sent[t]
    BY <1>4, <1>5, <2>1
  <2>3. PICK g \in in_flight[t] \cup sent[t] : g.key /\ g.seq > cut.seq
    BY <2>2 DEF SendInv, CutSuperseded
  <2>4. CASE g \in in_flight'[t] \cup sent'[t]
    BY <2>3, <2>4
  <2>5. CASE g \notin in_flight'[t] \cup sent'[t]
    BY <1>4, <1>5, <2>1, <2>3, <2>5
  <2> QED BY <2>4, <2>5
<1> QED BY <1>6, <1>8, <1>9, <1>10, <1>11, <1>12 DEF SendInv

-------------------------------------------------------------------------------

LEMMA SendInitInv == SendInit => SendInv
<1> SUFFICES ASSUME SendInit
             PROVE  SendInv
  OBVIOUS
<1>1. SendTypeOK /\ Counted
  <2>1. packets \in Seq(Packet) /\ Len(packets) = 0
    BY DEF SendInit
  <2>2. in_flight \in [Sessions -> SUBSET Frame] /\ sent \in [Sessions -> SUBSET Stream]
    BY DEF SendInit
  <2>3. n \in 0..MaxFrames /\ gop \in 0..KeyInterval /\ fails \in 0..MaxFails
    BY DEF SendInit
  <2>4. frame_seq \in 0..n /\ frame_seq + Len(packets) <= n
    BY <2>1 DEF SendInit
  <2>5. SendTypeOK
    <3>1. /\ force_keyframe \in BOOLEAN /\ sending \in BOOLEAN
          /\ encoding \in {"no", "plain", "key"}
          /\ handling \in Packet \cup {None} /\ adding \in Sessions \cup {None}
      BY DEF SendInit
    <3>2. /\ members \subseteq past /\ closed \subseteq past /\ past \subseteq Sessions
          /\ missed \subseteq owed /\ owed \subseteq members
      BY DEF SendInit
    <3> QED BY <2>1, <2>2, <2>3, <2>4, <3>1, <3>2 DEF SendTypeOK
  <2>6. Counted
    BY <2>4 DEF SendInit, Counted
  <2> QED BY <2>5, <2>6
<1>2. KeyAlone /\ KeyframeOwed /\ CutSuperseded
  BY DEF SendInit, KeyAlone, KeyframeOwed, CutSuperseded
<1>3. \A s \in Sessions : Numbered(s) = {} /\ in_flight[s] = {}
  BY DEF SendInit, Numbered
<1>4. PacketsInOrder
  <2>1. 1..Len(packets) = {}
    BY DEF SendInit
  <2> QED BY <2>1 DEF PacketsInOrder
<1>5. NumbersInOrder /\ FreshEmpty /\ OneGroupInFlight
  BY <1>3 DEF NumbersInOrder, FreshEmpty, OneGroupInFlight
<1> QED BY <1>1, <1>2, <1>4, <1>5 DEF SendInv

LEMMA SendStepKeeps == SendInv /\ [SendStep]_svars => SendInv'
<1> SUFFICES ASSUME SendInv, [SendStep]_svars
             PROVE  SendInv'
  OBVIOUS
<1>1. CASE UNCHANGED svars
  BY <1>1 DEF svars, encode, loop, peers, debt, SendInv, SendTypeOK, Counted, PacketsInOrder,
              NumbersInOrder, Numbered, FreshEmpty, KeyAlone, KeyframeOwed, KeyComing,
              OneGroupInFlight, CutSuperseded
<1> QED BY <1>1, TakeFrameKeeps, EncodeFrameKeeps, EncodeFailsKeeps, RecreateSessionKeeps,
           AddPeerKeeps, RemovePeerKeeps, LoseConnectionKeeps, StartSendLoopKeeps,
           TakePacketKeeps, SpawnTasksKeeps, TaskEndsKeeps DEF SendStep

LEMMA SendInvariance == SendSpec => []SendInv
BY SendInitInv, SendStepKeeps, PTL DEF SendSpec

\* A peer that has not been sent a keyframe is going to be, unless one was lost that
\* nobody repeats: the flag, which encoder thread, room and send_loop share, is not
\* cleared for a keyframe that was encoded before the peer was in the map.
THEOREM KeyframeComes == SendSpec => []KeyframeOwed
BY SendInvariance, PTL DEF SendInv

\* Nothing competes with the keyframe that send_loop has taken.
THEOREM KeyframeFirst == SendSpec => []OneGroupInFlight
BY SendInvariance, PTL DEF SendInv

\* send_loop aborts no frame of a member without a keyframe after it.
THEOREM CutFramesSuperseded == SendSpec => []CutSuperseded
BY SendInvariance, PTL DEF SendInv

-------------------------------------------------------------------------------
(* The receiver. *)

\* The frame that the decoder refers to is the last that was decoded.
RefersToLast == reference # R!NoFrame => reference.seq = last_decoded_group

ReceiveInv ==
  /\ R!ReceiveTypeOK /\ IsFiniteSet(arrived)
  /\ R!GateHasDecoder /\ RefersToLast /\ R!NothingVanishes

PathInv == SendInv /\ ReceiveInv

\* A set that grows by one element at most.
LEMMA AtMostOneMore ==
  ASSUME NEW S, IsFiniteSet(S), NEW x, NEW T, T \subseteq S \cup {x}
  PROVE  /\ IsFiniteSet(T) /\ Cardinality(S) \in Nat /\ Cardinality(T) \in Nat
         /\ Cardinality(T) <= Cardinality(S) + 1
<1>1. /\ IsFiniteSet(S \cup {x}) /\ Cardinality(S) \in Nat
      /\ Cardinality(S \cup {x}) = IF x \in S THEN Cardinality(S) ELSE Cardinality(S) + 1
  BY FS_AddElement, FS_CardinalityType
<1>2. IsFiniteSet(T) /\ Cardinality(T) <= Cardinality(S \cup {x}) /\ Cardinality(T) \in Nat
  BY <1>1, FS_Subset, FS_CardinalityType
<1> QED BY <1>1, <1>2

\* What VideoReceive counts with.
LEMMA SameCardinality == \A S : R!Cardinality(S) = Cardinality(S)
BY DEF R!Cardinality, Cardinality

\* When a frame is done with, something is counted.
LEMMA StillCounted ==
  ASSUME ReceiveInv, NEW d \in Nat, NEW s \in Nat, NEW w \in Nat,
         drops' = drops + d, shown' = shown + s, withheld' = withheld + w,
         NEW x, R!Finished' \subseteq R!Finished \cup {x},
         d + s + w > 0 \/ R!Finished' \subseteq R!Finished
  PROVE  R!NothingVanishes'
<1>1. IsFiniteSet(R!Finished) /\ Cardinality(R!Finished) \in Nat
  BY FS_Subset, FS_CardinalityType DEF ReceiveInv, R!Finished
<1>2. /\ Cardinality(R!Finished) <= drops + shown + withheld
      /\ drops \in Nat /\ shown \in Nat /\ withheld \in Nat
  BY SameCardinality DEF ReceiveInv, R!NothingVanishes, R!ReceiveTypeOK
<1>3. /\ Cardinality(R!Finished') \in Nat
      /\ \/ Cardinality(R!Finished') <= Cardinality(R!Finished)
         \/ d + s + w > 0 /\ Cardinality(R!Finished') <= Cardinality(R!Finished) + 1
  BY <1>1, AtMostOneMore, FS_Subset
<1>4. Cardinality(R!Finished') <= (drops + d) + (shown + s) + (withheld + w)
  BY <1>1, <1>2, <1>3
<1>5. Cardinality(R!Finished') <= drops' + shown' + withheld'
  BY <1>4
<1> QED BY <1>5, SameCardinality DEF R!NothingVanishes

LEMMA ReadHeaderKeeps ==
  ASSUME PathInv, UNCHANGED svars, NEW f \in sent[viewer], R!ReadHeader(f)
  PROVE  ReceiveInv'
<1> USE DEF R!ReadHeader, R!StopOld, R!decode, PathInv, ReceiveInv
<1>1. sent' = sent
  BY DEF svars, loop
<1>2. R!ReceiveTypeOK'
  BY <1>1 DEF R!ReceiveTypeOK
<1>3. IsFiniteSet(arrived')
  BY FS_AddElement
<1>4. R!GateHasDecoder' /\ RefersToLast'
  BY DEF R!GateHasDecoder, RefersToLast, R!NoFrame
<1>5. R!NothingVanishes'
  <2>1. /\ drops' \in Nat /\ shown' \in Nat /\ drops \in Nat /\ shown \in Nat
        /\ withheld \in Nat /\ withheld' \in Nat
    BY <1>2 DEF R!ReceiveTypeOK
  <2>0. ReceiveInv /\ 0 \in Nat /\ 1 \in Nat /\ 1 + 0 + 0 > 0
    OBVIOUS
  <2> HIDE DEF R!ReadHeader, R!decode, PathInv, ReceiveInv
  <2>2. CASE R!StopOld(f)
    <3>1. R!Finished' \subseteq R!Finished \cup {f}
      BY <2>2 DEF R!Finished, R!ReadHeader
    <3>2. drops' = drops + 1 /\ shown' = shown + 0 /\ withheld' = withheld + 0
      BY <2>1, <2>2 DEF R!ReadHeader, R!decode
    <3> QED BY <2>0, <3>1, <3>2, StillCounted
  <2>3. CASE ~R!StopOld(f)
    <3>1. R!Finished' \subseteq R!Finished
      BY <2>3 DEF R!Finished, R!ReadHeader, R!StopOld
    <3>2. drops' = drops + 0 /\ shown' = shown + 0 /\ withheld' = withheld + 0
      BY <2>1, <2>3 DEF R!ReadHeader, R!decode
    <3> QED BY <2>0, <3>1, <3>2, StillCounted
  <2> QED BY <2>2, <2>3
<1> QED BY <1>2, <1>3, <1>4, <1>5

LEMMA ReadObjectKeeps ==
  ASSUME PathInv, UNCHANGED svars, NEW f \in sent[viewer], R!ReadObject(f)
  PROVE  ReceiveInv'
<1> USE DEF R!ReadObject, R!decode, PathInv, ReceiveInv
<1>1. sent' = sent
  BY DEF svars, loop
<1>2. video \in Seq(sent[viewer]) /\ Len(video) \in Nat
  BY DEF R!ReceiveTypeOK
<1>3. \/ /\ R!Room /\ video' = Append(video, f) /\ UNCHANGED drops
      \/ /\ ~R!Room /\ drops' = drops + 1 /\ UNCHANGED video
  OBVIOUS
<1>4. R!ReceiveTypeOK'
  <2>1. video' \in Seq(sent[viewer]) /\ Len(video') <= VideoCap
    <3>1. VideoCap \in Nat /\ Len(video) <= VideoCap
      BY ViewerAssumption DEF R!ReceiveTypeOK
    <3>2. CASE R!Room
      <4>1. Len(video) < VideoCap /\ video' = Append(video, f)
        BY <1>3, <3>2 DEF R!Room
      <4>2. video' \in Seq(sent[viewer]) /\ Len(video') = Len(video) + 1
        BY <1>2, <4>1
      <4> QED BY <1>2, <3>1, <4>1, <4>2
    <3>3. CASE ~R!Room
      BY <1>2, <1>3, <3>1, <3>3
    <3> QED BY <3>2, <3>3
  <2>2. drops' \in Nat /\ received' \in Nat
    BY <1>3 DEF R!ReceiveTypeOK
  <2>3. latest_keyframe' \in {0} \cup {g.seq : g \in sent[viewer]}
    BY DEF R!ReceiveTypeOK
  <2> QED BY <1>1, <2>1, <2>2, <2>3 DEF R!ReceiveTypeOK
<1>5. R!GateHasDecoder' /\ RefersToLast'
  BY DEF R!GateHasDecoder, RefersToLast, R!NoFrame
<1>6. R!NothingVanishes'
  <2>1. drops' \in Nat /\ shown' \in Nat /\ drops \in Nat /\ shown \in Nat /\ shown' = shown
        /\ withheld \in Nat /\ withheld' = withheld
    BY <1>4 DEF R!ReceiveTypeOK
  <2>2. CASE R!Room
    <3>1. video' = Append(video, f) /\ drops' = drops
      BY <1>3, <2>2
    <3>2. {video'[i] : i \in DOMAIN video'} = {video[i] : i \in DOMAIN video} \cup {f}
      <4>1. DOMAIN video' = DOMAIN video \cup {Len(video) + 1} /\ video'[Len(video) + 1] = f
        BY <1>2, <3>1
      <4>2. \A i \in DOMAIN video : video'[i] = video[i]
        BY <1>2, <3>1
      <4> QED BY <4>1, <4>2
    <3>3. R!Finished' \subseteq R!Finished
      BY <3>2 DEF R!Finished
    <3>4. drops' = drops + 0 /\ shown' = shown + 0 /\ withheld' = withheld + 0
      BY <2>1, <3>1
    <3> QED BY <3>3, <3>4, StillCounted
  <2>3. CASE ~R!Room
    <3>1. R!Finished' \subseteq R!Finished \cup {f}
      BY <1>3, <2>3 DEF R!Finished
    <3>2. drops' = drops + 1 /\ shown' = shown + 0 /\ withheld' = withheld + 0
      BY <1>3, <2>1, <2>3
    <3> QED BY <3>1, <3>2, StillCounted
  <2> QED BY <2>2, <2>3
<1> QED BY <1>4, <1>5, <1>6

LEMMA StreamFailsKeeps ==
  ASSUME PathInv, UNCHANGED svars, NEW f \in sent[viewer], R!StreamFails(f)
  PROVE  ReceiveInv'
<1> USE DEF R!StreamFails, R!decode, R!counters, PathInv, ReceiveInv
<1>1. sent' = sent
  BY DEF svars, loop
<1>2. R!ReceiveTypeOK'
  BY <1>1 DEF R!ReceiveTypeOK
<1>3. IsFiniteSet(arrived')
  BY FS_AddElement
<1>4. R!GateHasDecoder' /\ RefersToLast'
  BY DEF R!GateHasDecoder, RefersToLast, R!NoFrame
<1>5. R!Finished' \subseteq R!Finished
  BY DEF R!Finished
<1>6. R!NothingVanishes'
  <2>1. drops' = drops + 0 /\ shown' = shown + 0 /\ withheld' = withheld + 0
    BY <1>2 DEF R!ReceiveTypeOK
  <2> QED BY <1>5, <2>1, StillCounted
<1> QED BY <1>2, <1>3, <1>4, <1>6

\* The frame is put down as dropped, shown or withheld in every branch of the decoder.
LEMMA HandleFrameKeeps ==
  ASSUME PathInv, UNCHANGED svars, R!HandleFrame
  PROVE  ReceiveInv'
<1> DEFINE f == Head(video)
<1> USE DEF PathInv, ReceiveInv
<1>1. sent' = sent /\ sent \in [Sessions -> SUBSET Stream] /\ viewer \in Sessions
  BY ViewerAssumption DEF svars, loop, SendInv, SendTypeOK
<1>2. /\ video' = Tail(video) /\ f = video[1] /\ f \in sent[viewer] /\ f \in Stream
      /\ video' \in Seq(sent[viewer]) /\ Len(video') <= Len(video) /\ Len(video) <= VideoCap
      /\ {video[i] : i \in DOMAIN video} = {video'[i] : i \in DOMAIN video'} \cup {f}
  <2>1. video \in Seq(sent[viewer]) /\ video # <<>> /\ video' = Tail(video) /\ Len(video) <= VideoCap
    BY DEF R!HandleFrame, R!ReceiveTypeOK
  <2>2. /\ Len(video) \in Nat /\ Len(video) > 0 /\ f = video[1] /\ video' \in Seq(sent[viewer])
        /\ DOMAIN video = 1..Len(video) /\ DOMAIN video' = 1..(Len(video) - 1)
        /\ Len(video') = Len(video) - 1
        /\ \A i \in DOMAIN video' : video'[i] = video[i + 1] /\ i + 1 \in DOMAIN video
    BY <2>1
  <2>3. \A i \in DOMAIN video : i = 1 \/ (i - 1 \in DOMAIN video' /\ video'[i - 1] = video[i])
    BY <2>2
  <2>4. {video[i] : i \in DOMAIN video} = {video'[i] : i \in DOMAIN video'} \cup {f}
    BY <2>2, <2>3
  <2>5. Len(video') <= Len(video)
    BY <2>2
  <2>6. f \in sent[viewer] /\ f \in Stream
    BY <1>1, <2>1, <2>2
  <2> QED BY <2>1, <2>2, <2>4, <2>5, <2>6
<1>3. UNCHANGED <<arrived, reading, latest_keyframe>>
  BY DEF R!HandleFrame, R!dispatcher
<1>4. R!DropFrame(f) \/ R!CreateFails(f) \/ R!DecodeFrame(f) \/ R!DecodeFails(f)
  BY DEF R!HandleFrame
<1>5. /\ received' = received
      /\ \E d, s, w \in Nat : /\ drops' = drops + d /\ shown' = shown + s
                             /\ withheld' = withheld + w /\ d + s + w > 0
  <2>0. drops \in Nat /\ shown \in Nat /\ withheld \in Nat
    BY DEF R!ReceiveTypeOK
  <2>1. CASE shown' = shown + 1 /\ UNCHANGED <<received, drops, withheld>>
    <3>1. drops' = drops + 0 /\ shown' = shown + 1 /\ withheld' = withheld + 0
      BY <2>0, <2>1
    <3> QED BY <2>1, <3>1
  <2>2. CASE drops' = drops + 1 /\ UNCHANGED <<received, shown, withheld>>
    <3>1. drops' = drops + 1 /\ shown' = shown + 0 /\ withheld' = withheld + 0
      BY <2>0, <2>2
    <3> QED BY <2>2, <3>1
  <2>4. CASE withheld' = withheld + 1 /\ UNCHANGED <<received, drops, shown>>
    <3>1. drops' = drops + 0 /\ shown' = shown + 0 /\ withheld' = withheld + 1
      BY <2>0, <2>4
    <3> QED BY <2>4, <3>1
  <2>3. CASE drops' = drops + 2 /\ UNCHANGED <<received, shown, withheld>>
    <3>1. drops' = drops + 2 /\ shown' = shown + 0 /\ withheld' = withheld + 0
      BY <2>0, <2>3
    <3> QED BY <2>3, <3>1
  <2> HIDE DEF f
  <2> QED BY <1>4, <2>1, <2>2, <2>3, <2>4
          DEF R!DropFrame, R!CreateFails, R!DecodeFrame, R!DecodeFails
<1> HIDE DEF f
<1>6. R!ReceiveTypeOK'
  <2>1. drops' \in Nat /\ shown' \in Nat /\ received' \in Nat /\ withheld' \in Nat
    BY <1>5 DEF R!ReceiveTypeOK
  <2>2. /\ got_keyframe' \in BOOLEAN /\ decoder' \in BOOLEAN
        /\ last_decoded_group' \in {0} \cup {g.seq : g \in sent[viewer]}
        /\ reference' \in sent[viewer] \cup {R!NoFrame}
    BY <1>2, <1>4 DEF R!ReceiveTypeOK, R!DropFrame, R!CreateFails, R!DecodeFrame, R!DecodeFails
  <2>3. errors' \in 0..MaxErrors
    BY <1>4, ViewerAssumption
       DEF R!ReceiveTypeOK, R!DropFrame, R!CreateFails, R!DecodeFrame, R!DecodeFails
  <2>4. Len(video') <= VideoCap
    <3>1. Len(video') \in Nat /\ Len(video) \in Nat /\ VideoCap \in Nat
      BY <1>2, ViewerAssumption DEF R!ReceiveTypeOK
    <3> QED BY <1>2, <3>1
  <2> QED BY <1>1, <1>2, <1>3, <2>1, <2>2, <2>3, <2>4 DEF R!ReceiveTypeOK
<1>7. R!GateHasDecoder' /\ RefersToLast'
  <2>1. f # R!NoFrame
    BY <1>2 DEF R!NoFrame, Stream
  <2> QED BY <1>4, <2>1 DEF R!GateHasDecoder, RefersToLast, R!NoFrame,
                           R!DropFrame, R!CreateFails, R!DecodeFrame, R!DecodeFails
<1>8. R!NothingVanishes'
  <2>1. R!Finished' \subseteq R!Finished \cup {f}
    BY <1>2, <1>3 DEF R!Finished
  <2> QED BY <1>5, <2>1, StillCounted
<1> QED BY <1>3, <1>6, <1>7, <1>8

\* Nothing that has been put on the network is taken back.
LEMMA SendGrows ==
  ASSUME SendInv, SendStep, NEW s \in Sessions
  PROVE  sent[s] \subseteq sent'[s]
<1>1. sent \in [Sessions -> SUBSET Stream]
  BY DEF SendInv, SendTypeOK
<1>2. CASE UNCHANGED sent
  BY <1>2
<1>3. CASE TakePacket
  BY <1>2, <1>3, AbortAllCuts DEF TakePacket
<1>4. CASE \E t \in Sessions : TaskEnds(t)
  BY <1>1, <1>4 DEF TaskEnds
<1> QED BY <1>2, <1>3, <1>4
        DEF SendStep, TakeFrame, EncodeFrame, EncodeFails, RecreateSession, StartSendLoop,
            SpawnTasks, AddPeer, RemovePeer, LoseConnection, loop

LEMMA SendKeepsReceive ==
  ASSUME PathInv, SendStep, UNCHANGED rvars
  PROVE  ReceiveInv'
<1> USE DEF PathInv, ReceiveInv
<1>1. sent[viewer] \subseteq sent'[viewer]
  BY SendGrows, ViewerAssumption
<1>2. R!ReceiveTypeOK'
  <2>1. video \in Seq(sent[viewer]) /\ video' = video
    BY DEF R!ReceiveTypeOK, rvars
  <2>2. video' \in Seq(sent'[viewer])
    BY <1>1, <2>1
  <2> QED BY <1>1, <2>2 DEF R!ReceiveTypeOK, rvars
<1>3. IsFiniteSet(arrived') /\ R!GateHasDecoder' /\ RefersToLast'
  BY DEF rvars, R!GateHasDecoder, RefersToLast, R!NoFrame
<1>4. R!NothingVanishes'
  <2>1. drops' = drops + 0 /\ shown' = shown + 0 /\ withheld' = withheld + 0
    BY DEF R!ReceiveTypeOK, rvars
  <2>2. R!Finished' \subseteq R!Finished
    BY DEF R!Finished, rvars
  <2> QED BY <2>1, <2>2, StillCounted
<1> QED BY <1>2, <1>3, <1>4

LEMMA PathInitInv == PathInit => PathInv
<1> SUFFICES ASSUME PathInit
             PROVE  PathInv
  OBVIOUS
<1> USE DEF PathInit, R!ReceiveInit
<1>1. SendInv
  BY SendInitInv
<1>2. R!ReceiveTypeOK
  <2>1. video \in Seq(sent[viewer]) /\ Len(video) = 0
    OBVIOUS
  <2>2. Len(video) <= VideoCap /\ errors \in 0..MaxErrors
    BY <2>1, ViewerAssumption
  <2> QED BY <2>1, <2>2 DEF R!ReceiveTypeOK
<1>3. IsFiniteSet(arrived) /\ R!GateHasDecoder /\ RefersToLast
  BY FS_EmptySet DEF R!GateHasDecoder, RefersToLast
<1>4. R!NothingVanishes
  <2>1. R!Finished = {}
    BY DEF R!Finished
  <2>2. R!Cardinality(R!Finished) = 0
    BY <2>1, FS_EmptySet, SameCardinality
  <2> QED BY <2>2 DEF R!NothingVanishes
<1> QED BY <1>1, <1>2, <1>3, <1>4 DEF PathInv, ReceiveInv

LEMMA PathStepKeeps == PathInv /\ [PathNext]_pvars => PathInv'
<1> SUFFICES ASSUME PathInv, [PathNext]_pvars
             PROVE  PathInv'
  OBVIOUS
<1>1. SendInv'
  BY SendStepKeeps DEF PathInv, PathNext, pvars
<1>2. CASE SendStep /\ UNCHANGED rvars
  BY <1>1, <1>2, SendKeepsReceive DEF PathInv
<1>3. CASE R!ReceiveStep /\ UNCHANGED svars
  BY <1>1, <1>3, ReadHeaderKeeps, ReadObjectKeeps, StreamFailsKeeps, HandleFrameKeeps
     DEF PathInv, R!ReceiveStep
<1>4. CASE UNCHANGED pvars
  <2>1. sent' = sent /\ UNCHANGED rvars
    BY <1>4 DEF pvars, svars, loop
  <2>2. ReceiveInv'
    BY <2>1 DEF PathInv, ReceiveInv, R!ReceiveTypeOK, R!GateHasDecoder, RefersToLast, R!NoFrame,
                R!NothingVanishes, R!Finished, rvars
  <2> QED BY <1>1, <2>2 DEF PathInv
<1> QED BY <1>2, <1>3, <1>4 DEF PathNext

LEMMA PathInvariance == PathSpec => []PathInv
BY PathInitInv, PathStepKeeps, PTL DEF PathSpec

\* The types of both ends' state and the bounds of the packet channel and of the
\* decoder's channel.
THEOREM PathTypeCorrect == PathSpec => []PathTypeOK
BY PathInvariance, PTL DEF PathInv, SendInv, ReceiveInv, PathTypeOK

\* The decoder's gate is open only while there is a decoder with a frame behind it.
THEOREM GateNeedsDecoder == PathSpec => []GateHasDecoder
BY PathInvariance, PTL DEF PathInv, ReceiveInv, GateHasDecoder

\* Each frame that a stream task and the decoder are done with is shown, counted in
\* VideoDropCounter, or one that the decoder took and gave no picture of.
THEOREM FramesAreCounted == PathSpec => []NothingVanishes
BY PathInvariance, PTL DEF PathInv, ReceiveInv, NothingVanishes

\* What becomes the decoder's reference, other than a keyframe, is next to the one before.
LEMMA ReferenceStep ==
  ASSUME PathInv, UNCHANGED svars, R!HandleFrame,
         reference' \notin {reference, R!NoFrame}, ~reference'.key
  PROVE  /\ reference.n < reference'.n
         /\ \A f \in sent[viewer] : f.n \notin reference.n + 1 .. reference'.n - 1
<1> DEFINE f == Head(video)
<1>1. f \in sent[viewer]
  BY DEF PathInv, ReceiveInv, R!ReceiveTypeOK, R!HandleFrame
<1>2. R!DropFrame(f) \/ R!CreateFails(f) \/ R!DecodeFrame(f) \/ R!DecodeFails(f)
  BY DEF R!HandleFrame
<1> HIDE DEF f
<1>3. reference' = f /\ got_keyframe /\ ~R!Gap(f) /\ ~f.key
  BY <1>2 DEF R!DropFrame, R!CreateFails, R!DecodeFrame, R!DecodeFails
<1>4. reference \in sent[viewer] /\ reference.seq = last_decoded_group
  BY <1>3 DEF PathInv, ReceiveInv, R!ReceiveTypeOK, R!GateHasDecoder, RefersToLast
<1>5. f.seq = reference.seq + 1
  BY <1>3, <1>4 DEF R!Gap
<1>6. \A g \in sent[viewer] : g.seq \in Nat /\ g.n \in Nat
  BY ViewerAssumption DEF PathInv, SendInv, SendTypeOK, Stream
<1>7. \A g, h \in sent[viewer] : g.seq < h.seq <=> g.n < h.n
  BY ViewerAssumption DEF PathInv, SendInv, NumbersInOrder, Numbered
<1>8. reference.n < f.n
  BY <1>1, <1>4, <1>5, <1>6, <1>7
<1>9. ASSUME NEW g \in sent[viewer], g.n \in reference.n + 1 .. f.n - 1
      PROVE  FALSE
  <2>1. reference.n < g.n /\ g.n < f.n
    BY <1>1, <1>4, <1>6, <1>9
  <2>2. reference.seq < g.seq /\ g.seq < f.seq
    BY <1>1, <1>4, <1>7, <2>1
  <2> QED BY <1>1, <1>4, <1>5, <1>6, <2>2
<1> QED BY <1>3, <1>8, <1>9

\* The decoder refers to the right frame: a frame that is no keyframe is decoded right
\* after the one that the sender numbered just before it.
THEOREM RefersRight == PathSpec => ReferenceKept
<1>1. PathInv /\ [PathNext]_pvars =>
        [reference' \notin {reference, R!NoFrame} /\ ~reference'.key =>
           /\ reference.n < reference'.n
           /\ \A f \in sent[viewer] : f.n \notin reference.n + 1 .. reference'.n - 1]_R!rvars
  <2> SUFFICES ASSUME PathInv, [PathNext]_pvars,
                      reference' \notin {reference, R!NoFrame}, ~reference'.key
               PROVE  /\ reference.n < reference'.n
                      /\ \A f \in sent[viewer] : f.n \notin reference.n + 1 .. reference'.n - 1
    OBVIOUS
  <2>1. R!HandleFrame /\ UNCHANGED svars
    BY DEF PathNext, pvars, rvars, R!ReceiveStep, R!ReadHeader, R!ReadObject, R!StreamFails,
           R!decode
  <2> QED BY <2>1, ReferenceStep
<1> QED BY <1>1, PathInvariance, PTL DEF PathSpec, ReferenceKept, R!ReferenceKept

===============================================================================

------------------------------- MODULE VideoSend -------------------------------
(***************************************************************************)
(* Sending video: the encoder thread (encode_loop in                       *)
(* src/src/video_encode.rs), the packet channel, send_loop with a task per *)
(* frame and peer, and the Broadcaster (src/src/broadcaster.rs) through    *)
(* which the room adds and removes peers.  Three threads share the packet  *)
(* channel, the map of peers and the force_keyframe flag.                  *)
(*                                                                         *)
(* A peer here is one session: it is added once and removed once.  Frames  *)
(* are numbered twice: n counts what the encoder produced, so frame n      *)
(* refers to frame n - 1 unless it is a keyframe; seq is the number under  *)
(* which send_loop sends a frame, its group_id.                            *)
(***************************************************************************)
EXTENDS Integers, Sequences, FiniteSets

CONSTANTS
  Sessions,     \* the sessions of the call's peers
  None,         \* no session, no packet
  ChanCap,      \* capacity of the packet channel (4)
  KeyInterval,  \* a keyframe after so many others at the latest (150)
  MaxFrames,    \* bound: frames that are encoded
  MaxFails      \* bound: frames the encoder fails on

Packet == [n : 1..MaxFrames, key : BOOLEAN]

ASSUME VideoSendAssumption ==
  /\ ChanCap \in Nat \ {0} /\ KeyInterval \in Nat \ {0}
  /\ MaxFrames \in Nat /\ MaxFails \in Nat
  /\ None \notin Sessions \cup Packet

VARIABLES
  force_keyframe,
  encoding,   \* "no", or the frame being encoded: "key" if frame_props asks for one
  n,          \* frames encoded
  gop,        \* frames since the keyframe, 0 if the next one is a keyframe
  fails,
  packets,    \* packet_tx, packet_rx
  sending,    \* send_loop has started
  handling,   \* the packet send_loop is handling
  frame_seq,
  members,    \* Broadcaster.peers
  adding,     \* the peer in add_peer, between its two statements
  past,       \* history: sessions that have been added
  closed,     \* sessions whose connection has been lost
  in_flight,  \* frames that are being written, by session
  sent,       \* frames on the way to a session, written completely or cut
  owed,       \* history: the members no keyframe has been sent to yet, and
  missed      \* those among them whose keyframe was lost

encode == <<encoding, n, gop, fails, packets>>
loop   == <<sending, handling, frame_seq, in_flight, sent>>
peers  == <<members, adding, past, closed>>
debt   == <<owed, missed>>
svars  == <<force_keyframe, encode, loop, peers, debt>>

Frame  == [seq : 1..MaxFrames, key : BOOLEAN, n : 1..MaxFrames]
Stream == [seq : 1..MaxFrames, key : BOOLEAN, n : 1..MaxFrames, whole : BOOLEAN]

SendTypeOK ==
  /\ force_keyframe \in BOOLEAN /\ sending \in BOOLEAN
  /\ encoding \in {"no", "plain", "key"}
  /\ n \in 0..MaxFrames /\ gop \in 0..KeyInterval /\ fails \in 0..MaxFails
  /\ packets \in Seq(Packet) /\ Len(packets) <= ChanCap
  /\ handling \in Packet \cup {None}
  /\ frame_seq \in 0..n
  /\ members \subseteq past /\ closed \subseteq past /\ past \subseteq Sessions
  /\ adding \in Sessions \cup {None}
  /\ in_flight \in [Sessions -> SUBSET Frame]
  /\ sent \in [Sessions -> SUBSET Stream]
  /\ missed \subseteq owed /\ owed \subseteq members

SendInit ==
  /\ force_keyframe = FALSE /\ sending = FALSE
  /\ n = 0 /\ gop = 0 /\ fails = 0
  /\ encoding = "no" /\ packets = <<>>
  /\ handling = None
  /\ frame_seq = 0
  /\ members = {} /\ past = {} /\ closed = {}
  /\ adding = None
  /\ in_flight = [s \in Sessions |-> {}]
  /\ sent = [s \in Sessions |-> {}]
  /\ owed = {} /\ missed = {}

-------------------------------------------------------------------------------
(* The encoder thread. *)

\* The encoder has a frame to encode: the request for a keyframe is taken.
TakeFrame ==
  /\ n < MaxFrames /\ encoding = "no"
  /\ encoding' = IF force_keyframe THEN "key" ELSE "plain"
  /\ force_keyframe' = FALSE
  /\ UNCHANGED <<n, gop, fails, packets, loop, peers, debt>>

\* A keyframe is encoded if it was asked for, at the start of a compression session
\* and at the latest after KeyInterval frames; k says whether the frame is one.
IsKey(k) == ~k => encoding = "plain" /\ gop \notin {0, KeyInterval}

NextGop(k) == IF k \/ gop = KeyInterval THEN 1 ELSE gop + 1

\* History: a keyframe is lost.  Those who wait for one and for whom none has been
\* asked for again miss it.
LoseKey(k) == missed' = IF k /\ ~force_keyframe THEN owed ELSE missed

HasRoom == Len(packets) < ChanCap

\* The frame is encoded, and its packet put into the channel or, if that is full,
\* dropped.
EncodeFrame ==
  /\ encoding # "no" /\ encoding' = "no"
  /\ n' = n + 1
  /\ \E k \in BOOLEAN :
       /\ IsKey(k)
       /\ gop' = NextGop(k)
       /\ \/ /\ HasRoom
             /\ packets' = Append(packets, [n |-> n', key |-> k])
             /\ UNCHANGED missed
          \/ /\ ~HasRoom
             /\ LoseKey(k)
             /\ UNCHANGED packets
  /\ UNCHANGED <<force_keyframe, fails, loop, peers, owed>>

\* Encoding fails: encode_frame returns an error, or its output is not usable and
\* the encoder goes on as if the frame had been sent.
EncodeFails ==
  /\ encoding # "no" /\ encoding' = "no"
  /\ fails < MaxFails /\ fails' = fails + 1
  /\ \/ LoseKey(encoding = "key") /\ UNCHANGED <<n, gop>>
     \/ \E k \in BOOLEAN :
          /\ IsKey(k)
          /\ n' = n + 1
          /\ gop' = NextGop(k)
          /\ LoseKey(k)
  /\ UNCHANGED <<force_keyframe, packets, loop, peers, owed>>

\* The preset has changed (module Bandwidth): a new compression session.
RecreateSession ==
  /\ encoding = "no" /\ gop # 0
  /\ gop' = 0
  /\ force_keyframe' = TRUE
  /\ UNCHANGED <<encoding, n, fails, packets, loop, peers, debt>>

-------------------------------------------------------------------------------
(* The room's calls of the Broadcaster. *)

\* Mutant: the keyframe is asked for before the peer is in the map.
AddPeer_FlagFirst(s) ==
  \/ /\ adding = None /\ s \notin past
     /\ force_keyframe' = TRUE
     /\ adding' = s
     /\ past' = past \cup {s}
     /\ UNCHANGED <<members, closed, encode, loop, debt>>
  \/ /\ adding = s /\ adding' = None
     /\ members' = members \cup {s}
     /\ owed' = owed \cup {s}
     /\ UNCHANGED <<force_keyframe, past, closed, encode, loop, missed>>

\* add_peer: the peer is put into the map, under its lock, then the flag is set.
AddPeer(s) ==
  \/ /\ adding = None /\ s \notin past
     /\ members' = members \cup {s}
     /\ owed' = owed \cup {s}
     /\ adding' = s
     /\ past' = past \cup {s}
     /\ UNCHANGED <<force_keyframe, closed, encode, loop, missed>>
  \/ /\ adding = s /\ adding' = None
     /\ force_keyframe' = TRUE
     /\ UNCHANGED <<members, past, closed, encode, loop, debt>>

\* remove_peer.
RemovePeer(s) ==
  /\ adding = None /\ s \in members
  /\ members' = members \ {s}
  /\ owed' = owed \ {s} /\ missed' = missed \ {s}
  /\ UNCHANGED <<force_keyframe, adding, past, closed, encode, loop>>

\* The connection is lost; the room will remove the peer.
LoseConnection(s) ==
  /\ s \in past \ closed
  /\ closed' = closed \cup {s}
  /\ UNCHANGED <<force_keyframe, members, adding, past, encode, loop, debt>>

-------------------------------------------------------------------------------
(* send_loop. *)

StartSendLoop ==
  /\ ~sending /\ sending' = TRUE
  /\ force_keyframe' = TRUE
  /\ UNCHANGED <<handling, frame_seq, in_flight, sent, encode, peers, debt>>

OnItsWay(f, whole) == [seq |-> f.seq, key |-> f.key, n |-> f.n, whole |-> whole]

\* Mutant: the frames of the old group go on.
AbortAll_Nothing == UNCHANGED <<in_flight, sent>>

\* abort_all.  Of a stream whose task is aborted nothing arrives, or its beginning.
AbortAll ==
  /\ in_flight' = [s \in Sessions |-> {}]
  /\ \E begun \in [Sessions -> SUBSET UNION {in_flight[s] : s \in Sessions}] :
       /\ \A s \in Sessions : begun[s] \subseteq in_flight[s]
       /\ sent' = [s \in Sessions |-> sent[s] \cup {OnItsWay(f, FALSE) : f \in begun[s]}]

\* Mutant: every packet aborts what is still being sent.
TakePacket_AbortAlways ==
  /\ sending /\ handling = None /\ packets # <<>>
  /\ packets' = Tail(packets)
  /\ AbortAll
  /\ handling' = IF members = {} THEN None ELSE Head(packets)
  /\ frame_seq' = IF members = {} THEN frame_seq ELSE frame_seq + 1
  /\ UNCHANGED <<force_keyframe, encoding, n, gop, fails, sending, peers, debt>>

\* The next packet: discarded if there are no peers, else numbered; a keyframe
\* aborts what is still being sent.
TakePacket ==
  /\ sending /\ handling = None /\ packets # <<>>
  /\ packets' = Tail(packets)
  /\ \/ /\ members = {}
        /\ AbortAll
        /\ UNCHANGED <<handling, frame_seq>>
     \/ /\ members # {}
        /\ handling' = Head(packets)
        /\ frame_seq' = frame_seq + 1
        /\ IF Head(packets).key THEN AbortAll ELSE UNCHANGED <<in_flight, sent>>
  /\ UNCHANGED <<force_keyframe, encoding, n, gop, fails, sending, peers, debt>>

\* A task for each peer of a snapshot of the map.
SpawnTasks ==
  /\ handling # None /\ handling' = None
  /\ in_flight' = [s \in Sessions |-> in_flight[s] \cup
       {[seq |-> frame_seq, key |-> handling.key, n |-> handling.n] : t \in members \cap {s}}]
  /\ owed' = IF handling.key THEN {} ELSE owed
  /\ missed' = IF handling.key THEN {} ELSE missed
  /\ UNCHANGED <<force_keyframe, sending, frame_seq, sent, encode, peers>>

\* The task of a frame ends: the frame is written and will arrive in its own time,
\* or it fails with its connection.
TaskEnds(s) ==
  \E f \in in_flight[s] :
    /\ in_flight' = [in_flight EXCEPT ![s] = @ \ {f}]
    /\ sent' = IF s \in closed THEN sent ELSE [sent EXCEPT ![s] = @ \cup {OnItsWay(f, TRUE)}]
    /\ UNCHANGED <<force_keyframe, sending, handling, frame_seq, encode, peers, debt>>

SendStep ==
  \/ TakeFrame \/ EncodeFrame \/ EncodeFails \/ RecreateSession
  \/ StartSendLoop \/ TakePacket \/ SpawnTasks
  \/ \E s \in Sessions : AddPeer(s) \/ RemovePeer(s) \/ LoseConnection(s) \/ TaskEnds(s)

SendSpec == SendInit /\ [][SendStep]_svars

-------------------------------------------------------------------------------

\* A keyframe is asked for, or on its way through the encoder and the packet channel.
KeyComing ==
  \/ force_keyframe \/ encoding = "key"
  \/ \E i \in 1..Len(packets) : packets[i].key
  \/ handling # None /\ handling.key

\* A peer that has not been sent a keyframe is going to be: between add_peer, the
\* encoder thread, which takes the request, and send_loop, which looks at the map
\* twice, the request is not lost.  A peer that is still in add_peer is excepted, and
\* one whose keyframe the encoder failed on or found no room for, which nobody repeats.
KeyframeOwed == owed \ (missed \cup {adding}) # {} => KeyComing

\* The keyframe that send_loop has taken is the oldest frame that is being sent to
\* anyone: nothing competes with it for the connection.
OneGroupInFlight ==
  \A s \in Sessions : \A f, g \in in_flight[s] : f.key => f.seq <= g.seq

\* A member of the call that gets a frame cut short also gets a keyframe after it:
\* nothing is aborted that the member still needs.
CutSuperseded ==
  \A s \in members \ closed : \A f \in sent[s] :
    \/ f.whole
    \/ handling # None /\ handling.key
    \/ \E g \in in_flight[s] \cup sent[s] : g.key /\ g.seq > f.seq
===============================================================================

------------------------------ MODULE MediaStream ------------------------------
(***************************************************************************)
(* A video frame from one encoder to one decoder as bytes in pool buffers: *)
(* extract_annex_b fills a buffer of the sender's pool, send_loop gives a  *)
(* handle to the task of each peer, the task writes a stream; the viewer's *)
(* stream task reads it into a buffer of its own pool, and                 *)
(* run_video_decoder takes it apart.                                       *)
(*                                                                         *)
(* BufPool's variables are the sender's pool; In is the viewer's.  When    *)
(* frames are aborted or dropped is the matter of VideoSend and            *)
(* VideoReceive; here any task may be aborted.                             *)
(***************************************************************************)
EXTENDS BufPool, Framing, AnnexB, FiniteSets

CONSTANTS
  Peers, viewer, None,
  Samples,     \* what the encoder may return, see AnnexB, with the capture timestamp
  Slack,       \* what the buffer is larger than the encoder's output (256)
  VideoCap,    \* capacity of the channel to the decoder (8)
  MaxFrames    \* bound: frames that are encoded

ASSUME MediaAssumption == viewer \in Peers /\ None \notin [sample : Samples, buf : Ids]

\* Frames are numbered and as long as TLC can count; the two highest bits of a timestamp
\* are free, as a varint needs it.  A frame is never empty.
ASSUME SamplesAssumption ==
  /\ MaxFrames \in Number
  /\ \A sample \in Samples :
       /\ sample.key \in BOOLEAN
       /\ sample.ts \in U64 /\ sample.ts[1] <= 63
       /\ AnnexBOf(sample) \in Seq(Byte) \ {<<>>} /\ Len(AnnexBOf(sample)) \in Number

VARIABLES
  frames,      \* history: the frames that send_loop has numbered
  encoder,     \* the frame in the encoder thread or in send_loop
  unsent,      \* the peers it has no task for yet
  tasks,       \* the tasks of send_video_frame
  streams,     \* streams on their way to the viewer
  in_made, in_free, in_place, in_handles, in_data,
  reading,     \* the viewer's stream tasks that are behind the object's head
  video,       \* the channel to the decoder
  session,     \* the parameter sets of the decoder's session
  got_keyframe, last_decoded_group,
  decoded      \* history: what the decoder was given

inVars   == <<in_made, in_free, in_place, in_handles, in_data>>
sendVars == <<frames, encoder, unsent, tasks>>
readVars == <<reading, video, session, got_keyframe, last_decoded_group, decoded>>
vars     == <<poolVars, inVars, sendVars, streams, readVars>>

In == INSTANCE BufPool WITH
  made <- in_made, free <- in_free, place <- in_place, handles <- in_handles, data <- in_data

Init ==
  /\ PoolInit /\ In!PoolInit
  /\ frames = <<>> /\ encoder = None /\ unsent = {} /\ tasks = {}
  /\ streams = {}
  /\ reading = {} /\ video = <<>>
  /\ session = None /\ got_keyframe = FALSE /\ last_decoded_group = 0
  /\ decoded = {}

-------------------------------------------------------------------------------
(* The sender. *)

\* The encoder returns a frame, and a buffer is checked out that should be large enough.
Encode(sample) ==
  /\ encoder = None /\ Len(frames) < MaxFrames
  /\ Checkout(TotalLen(sample) + Slack)
  /\ encoder' = [sample |-> sample, buf |-> Popped]
  /\ UNCHANGED <<inVars, frames, unsent, tasks, streams, readVars>>

Extracting == encoder # None /\ place[encoder.buf] = "owned"

\* It is not: the frame is dropped.
ExtractFails ==
  /\ Extracting /\ Len(AnnexBOf(encoder.sample)) > Len(data[encoder.buf])
  /\ DropOwned(encoder.buf)
  /\ encoder' = None
  /\ UNCHANGED <<inVars, frames, unsent, tasks, streams, readVars>>

\* The frame is written to the front of the buffer, the rest is cut off; send_loop
\* gives it the next number.
Extract ==
  /\ Extracting /\ Len(AnnexBOf(encoder.sample)) <= Len(data[encoder.buf])
  /\ Share(encoder.buf, AnnexBOf(encoder.sample))
  /\ frames' = Append(frames, encoder.sample)
  /\ unsent' = Peers
  /\ UNCHANGED <<inVars, encoder, tasks, streams, readVars>>

Sending == encoder # None /\ place[encoder.buf] = "shared"

Spawn(p) ==
  /\ Sending /\ p \in unsent
  /\ Clone(encoder.buf)
  /\ tasks' = tasks \cup {[peer |-> p, seq |-> Len(frames), buf |-> encoder.buf]}
  /\ unsent' = unsent \ {p}
  /\ UNCHANGED <<inVars, frames, encoder, streams, readVars>>

\* send_loop is done with the frame and drops its own handle.
Spawned ==
  /\ Sending /\ unsent = {}
  /\ DropShared(encoder.buf)
  /\ encoder' = None
  /\ UNCHANGED <<inVars, frames, unsent, tasks, streams, readVars>>

StreamOf(t) ==
  LET f == frames[t.seq]
  IN  SubgroupHeader(Wide(t.seq), Wide(IF f.key THEN 0 ELSE 1))
        \o WriteObject(f.ts, Hevc, data[t.buf])

\* A task writes the stream, or is aborted and resets it; either way it drops its handle.
EndTask(t, whole) ==
  /\ t \in tasks /\ tasks' = tasks \ {t}
  /\ streams' = IF t.peer # viewer THEN streams
                ELSE streams \cup {[bytes |-> StreamOf(t), whole |-> whole]}
  /\ DropShared(t.buf)
  /\ UNCHANGED <<inVars, frames, encoder, unsent, readVars>>

\* A thread that dropped the last handle puts the buffer back.
Return(b) ==
  /\ PushBack(b)
  /\ UNCHANGED <<inVars, sendVars, streams, readVars>>

-------------------------------------------------------------------------------
(* The viewer's stream tasks. *)

Readable(s) ==
  LET header == ReadSubgroupHeader(s.bytes)
      object == ReadObjectHead(header.rest)
  IN  header.ok /\ object.ok

\* The header and the object's head are read, and there is a buffer for the payload.
ReadHead(s) ==
  /\ s \in streams /\ streams' = streams \ {s}
  /\ LET header == ReadSubgroupHeader(s.bytes)
         object == ReadObjectHead(header.rest)
     IN  /\ header.ok /\ object.ok
         /\ In!Checkout(object.value.len)
         /\ reading' = reading \cup
              {[group_id |-> Narrow(header.value.group_id),
                key |-> Narrow(header.value.subgroup_id) = 0,
                ts |-> object.value.ts, codec |-> object.value.codec,
                payload |-> object.rest, whole |-> s.whole, buf |-> In!Popped]}
  /\ UNCHANGED <<poolVars, sendVars, video, session, got_keyframe, last_decoded_group, decoded>>

\* A stream that was reset ends before that; another one does if it makes no sense.
ReadNothing(s) ==
  /\ s \in streams /\ streams' = streams \ {s}
  /\ s.whole => ~Readable(s)
  /\ UNCHANGED <<poolVars, inVars, sendVars, readVars>>

Payload(r) == SubSeq(r.payload, 1, Len(in_data[r.buf]))

\* The payload is read and, while there is room in the channel, handed on.
ReadPayload(r) ==
  /\ r \in reading /\ in_place[r.buf] = "owned"
  /\ Len(r.payload) >= Len(in_data[r.buf])
  /\ In!Share(r.buf, Payload(r))
  /\ UNCHANGED <<poolVars, sendVars, streams, readVars>>

\* Mutant: a task that fails keeps its buffer.
ReadFails_Leak(r) ==
  /\ r \in reading /\ reading' = reading \ {r}
  /\ ~r.whole \/ Len(r.payload) < Len(in_data[r.buf])
  /\ in_place[r.buf] = "owned"
  /\ UNCHANGED <<poolVars, inVars, sendVars, streams, video, session, got_keyframe,
                 last_decoded_group, decoded>>

\* The stream is reset, or shorter than the object says.
ReadFails(r) ==
  /\ r \in reading /\ reading' = reading \ {r}
  /\ ~r.whole \/ Len(r.payload) < Len(in_data[r.buf])
  /\ In!DropOwned(r.buf)
  /\ UNCHANGED <<poolVars, sendVars, streams, video, session, got_keyframe,
                 last_decoded_group, decoded>>

\* The object goes to the decoder, or is dropped when the channel is full.
Dispatch(r) ==
  /\ r \in reading /\ reading' = reading \ {r}
  /\ in_place[r.buf] = "shared"
  /\ \/ /\ Len(video) < VideoCap /\ video' = Append(video, r)
        /\ UNCHANGED inVars
     \/ /\ Len(video) = VideoCap /\ In!DropShared(r.buf)
        /\ UNCHANGED video
  /\ UNCHANGED <<poolVars, sendVars, streams, session, got_keyframe, last_decoded_group, decoded>>

InReturn(b) ==
  /\ In!PushBack(b)
  /\ UNCHANGED <<poolVars, sendVars, streams, readVars>>

-------------------------------------------------------------------------------
(* The decoder. *)

Gap(v) == got_keyframe /\ ~v.key /\ v.group_id # last_decoded_group + 1

\* A frame is handed to the session.
Feed(v, bytes) ==
  /\ got_keyframe' = TRUE
  /\ last_decoded_group' = v.group_id
  /\ decoded' = decoded \cup
       {[seq |-> v.group_id, key |-> v.key, ts |-> v.ts, codec |-> v.codec,
         slices |-> Hvcc(bytes), params |-> session']}

\* The next frame, whose buffer is dropped whatever becomes of it: a gap and the closed
\* gate drop it, a keyframe makes a session with its parameter sets if there is none
\* or it has others, and without parameter sets none.
Decode ==
  /\ video # <<>> /\ video' = Tail(video)
  /\ LET v     == Head(video)
         bytes == in_data[v.buf]
         sets  == ParameterSets(bytes)
     IN  /\ In!DropShared(v.buf)
         /\ \/ /\ ~v.key /\ (Gap(v) \/ ~got_keyframe)
               /\ got_keyframe' = FALSE
               /\ session' = IF Gap(v) THEN None ELSE session
               /\ UNCHANGED <<last_decoded_group, decoded>>
            \/ /\ ~v.key /\ got_keyframe /\ ~Gap(v)
               /\ UNCHANGED session
               /\ Feed(v, bytes)
            \/ /\ v.key /\ session # None /\ ParamsMatch(session, bytes)
               /\ UNCHANGED session
               /\ Feed(v, bytes)
            \/ /\ v.key /\ ~(session # None /\ ParamsMatch(session, bytes)) /\ sets # <<>>
               /\ session' = sets
               /\ Feed(v, bytes)
            \/ /\ v.key /\ ~(session # None /\ ParamsMatch(session, bytes)) /\ sets = <<>>
               /\ got_keyframe' = FALSE
               /\ UNCHANGED <<session, last_decoded_group, decoded>>
  /\ UNCHANGED <<poolVars, sendVars, streams, reading>>

Next ==
  \/ \E sample \in Samples : Encode(sample)
  \/ Extract \/ ExtractFails
  \/ \E p \in Peers : Spawn(p)
  \/ Spawned
  \/ \E t \in tasks, whole \in BOOLEAN : EndTask(t, whole)
  \/ \E b \in Ids : Return(b) \/ InReturn(b)
  \/ \E s \in streams : ReadHead(s) \/ ReadNothing(s)
  \/ \E r \in reading : ReadPayload(r) \/ ReadFails(r) \/ Dispatch(r)
  \/ Decode

Spec == Init /\ [][Next]_vars

-------------------------------------------------------------------------------

\* The units the decoder is to be given of a frame: those with a whole header.
Slices(f) == SelectSeq(f.nals, LAMBDA nal : Len(nal) >= 2)

\* What the decoder is given is what the encoder returned, frame by frame: its slices
\* byte by byte, its timestamp, and in a session with the parameter sets of the keyframe
\* it depends on; whatever buffers it has been through, and whoever used them before.
DecodedAsEncoded ==
  \A d \in decoded :
    LET f == frames[d.seq]
    IN  /\ d.key = f.key /\ d.ts = f.ts /\ d.codec = Hevc
        /\ d.slices = Slices(f)
        /\ \E k \in 1..d.seq :
             /\ frames[k].key /\ frames[k].params = d.params
             /\ \A j \in k + 1 .. d.seq : ~frames[j].key

\* What DecodedAsEncoded needs of AnnexB: the receiver takes a sample apart as it was put
\* together, and parameter sets are told apart by their bytes in a row.
SurvivesAnnexB ==
  /\ \A sample \in Samples : Hvcc(AnnexBOf(sample)) = Slices(sample)
  /\ \A sample \in Samples : sample.key => ParameterSets(AnnexBOf(sample)) = sample.params
  /\ \A one, two \in Samples :
       one.key /\ two.key /\ FlattenSeq(one.params) = FlattenSeq(two.params)
         => one.params = two.params

\* No stream that arrives whole is given up: its header and object can be read, and the
\* payload is as long as announced.
WholeStreamsRead ==
  /\ \A s \in streams : s.whole => Readable(s)
  /\ \A r \in reading : r.whole => Len(r.payload) = Len(in_data[r.buf])

Holds(x, b) == IF x # None /\ x.buf = b THEN 1 ELSE 0

\* No buffer is lost and none returned too early, on the paths of failure and abort
\* too: a buffer has as many handles as there are threads and queues that will drop one.
\* The viewer's pool is as sound as BufPool says, like the sender's.
EveryHandleHeld ==
  \A b \in Ids :
    /\ place[b] = "owned" => Holds(encoder, b) = 1
    /\ place[b] = "shared" =>
         handles[b] = Holds(encoder, b) + Cardinality({t \in tasks : t.buf = b})
    /\ \A t \in tasks : place[t.buf] = "shared"
    /\ in_place[b] \in {"owned", "shared"} =>
         Cardinality({r \in reading : r.buf = b})
           + Cardinality({i \in DOMAIN video : video[i].buf = b}) = 1
    /\ \A i \in DOMAIN video : in_place[video[i].buf] = "shared"
    /\ In!OneHome /\ In!FreeIsEmpty
===============================================================================

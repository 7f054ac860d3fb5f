------------------------------ MODULE VideoReceive ------------------------------
(***************************************************************************)
(* Receiving video from one peer: a task per incoming stream               *)
(* (handle_video_stream in src/src/dispatch.rs), a bounded channel, the    *)
(* decoder with its gap detection and keyframe gate (run_video_decoder in  *)
(* src/src/video_decode.rs), and the counters of drops.                    *)
(*                                                                         *)
(* streams is what the sender has put on the network; module VideoPath     *)
(* says what that is.  A stream holds one frame: seq is its group_id, key  *)
(* stands for subgroup 0, whole for a stream that was not cut short.  Its n *)
(* is unknown to the program: frame n refers to frame n - 1 unless it is a *)
(* keyframe.                                                               *)
(***************************************************************************)
EXTENDS Integers, Sequences, FiniteSets

CONSTANTS
  VideoCap,   \* capacity of the channel to the decoder (8)
  MaxErrors   \* bound: failures of the decoder

VARIABLES
  streams,
  arrived,              \* streams whose task has read the header, or failed to
  reading,              \* those whose task is reading the object
  latest_keyframe,
  video,                \* video_payload_tx, video_payload_rx
  got_keyframe,
  last_decoded_group,
  decoder,              \* there is a decoder
  reference,            \* the frame it decoded last, or a frame 0
  received, drops,      \* VideoDropCounter
  shown,                \* history: how many frames were decoded and not dropped, and
  withheld,             \* how many the decoder took and returned no picture of
  errors

dispatcher == <<arrived, reading, latest_keyframe>>
decode     == <<got_keyframe, last_decoded_group, decoder, reference, errors>>
counters   == <<received, drops, shown, withheld>>
rvars      == <<dispatcher, video, decode, counters>>

NoFrame == [seq |-> 0, key |-> FALSE, n |-> 0, whole |-> TRUE]

ReceiveTypeOK ==
  /\ arrived \subseteq streams /\ reading \subseteq arrived
  /\ latest_keyframe \in {0} \cup {f.seq : f \in streams}
  /\ video \in Seq(streams) /\ Len(video) <= VideoCap
  /\ got_keyframe \in BOOLEAN /\ decoder \in BOOLEAN
  /\ last_decoded_group \in {0} \cup {f.seq : f \in streams}
  /\ reference \in streams \cup {NoFrame}
  /\ received \in Nat /\ drops \in Nat /\ shown \in Nat /\ withheld \in Nat
  /\ errors \in 0..MaxErrors

ReceiveInit ==
  /\ arrived = {} /\ reading = {}
  /\ latest_keyframe = 0
  /\ video = <<>>
  /\ got_keyframe = FALSE /\ decoder = FALSE
  /\ last_decoded_group = 0
  /\ reference = NoFrame
  /\ received = 0 /\ drops = 0 /\ shown = 0 /\ withheld = 0
  /\ errors = 0

-------------------------------------------------------------------------------
(* The stream tasks.  They run in any order, whatever the order of the streams. *)

\* Mutant: a stream of an old group is stopped silently.
StopOld_Uncounted(f) ==
  /\ f.seq < latest_keyframe
  /\ UNCHANGED <<reading, drops>>

\* A newer keyframe has been received: the stream is stopped.
StopOld(f) ==
  /\ f.seq < latest_keyframe
  /\ drops' = drops + 1
  /\ UNCHANGED reading

\* The header is read and compared with the latest keyframe.
ReadHeader(f) ==
  /\ f \notin arrived /\ arrived' = arrived \cup {f}
  /\ \/ StopOld(f)
     \/ /\ f.seq >= latest_keyframe
        /\ reading' = reading \cup {f}
        /\ UNCHANGED drops
  /\ UNCHANGED <<latest_keyframe, video, decode, received, shown, withheld>>

\* Mutant: the channel is one longer.
Room_OffByOne == Len(video) <= VideoCap

Room == Len(video) < VideoCap

\* The object is read and handed to the decoder, or dropped if the channel is full.
ReadObject(f) ==
  /\ f \in reading /\ f.whole
  /\ reading' = reading \ {f}
  /\ latest_keyframe' = IF f.key /\ f.seq > latest_keyframe THEN f.seq ELSE latest_keyframe
  /\ received' = received + 1
  /\ \/ /\ Room
        /\ video' = Append(video, f)
        /\ UNCHANGED drops
     \/ /\ ~Room
        /\ drops' = drops + 1
        /\ UNCHANGED video
  /\ UNCHANGED <<arrived, decode, shown, withheld>>

\* The stream was cut short, before the header or after it.
StreamFails(f) ==
  /\ ~f.whole
  /\ f \in reading \/ f \notin arrived
  /\ arrived' = arrived \cup {f}
  /\ reading' = reading \ {f}
  /\ UNCHANGED <<latest_keyframe, video, decode, counters>>

-------------------------------------------------------------------------------
(* The decoder. *)

\* Mutant: a frame may be missing.
Gap_Lenient(f) == got_keyframe /\ ~f.key /\ f.seq > last_decoded_group + 2

\* A frame that does not follow the last one.
Gap(f) == got_keyframe /\ ~f.key /\ f.seq # last_decoded_group + 1

\* Mutant: a gap is noticed and the gate left as it is.
DropFrame_GateOpen(f) ==
  /\ ~f.key /\ (Gap(f) \/ ~got_keyframe)
  /\ drops' = drops + (IF Gap(f) THEN 2 ELSE 1)
  /\ decoder' = (decoder /\ ~Gap(f))
  /\ reference' = IF Gap(f) THEN NoFrame ELSE reference
  /\ UNCHANGED <<got_keyframe, last_decoded_group, errors, received, shown, withheld>>

\* A gap closes the gate and drops the decoder; a frame at the closed gate, the one
\* behind the gap included, is dropped.
DropFrame(f) ==
  /\ ~f.key /\ (Gap(f) \/ ~got_keyframe)
  /\ drops' = drops + (IF Gap(f) THEN 2 ELSE 1)
  /\ got_keyframe' = FALSE
  /\ decoder' = (decoder /\ ~Gap(f))
  /\ reference' = IF Gap(f) THEN NoFrame ELSE reference
  /\ UNCHANGED <<last_decoded_group, errors, received, shown, withheld>>

\* A keyframe with new parameter sets, or without a decoder, needs a new one, and that
\* cannot be created.
CreateFails(f) ==
  /\ f.key
  /\ errors < MaxErrors /\ errors' = errors + 1
  /\ got_keyframe' = FALSE
  /\ drops' = drops + 1
  /\ UNCHANGED <<last_decoded_group, decoder, reference, received, shown, withheld>>

\* The frame is decoded, which yields a picture before the call returns, and if the
\* compositor's channel is full the picture is dropped; or it yields none, because the
\* callback gave none or the sample had no slices, and then nothing else refers to it.
DecodeFrame(f) ==
  /\ f.key \/ (got_keyframe /\ ~Gap(f))
  /\ got_keyframe' = TRUE
  /\ decoder' = TRUE
  /\ reference' = f
  /\ last_decoded_group' = f.seq
  /\ \/ shown' = shown + 1 /\ UNCHANGED <<drops, withheld>>
     \/ drops' = drops + 1 /\ UNCHANGED <<shown, withheld>>
     \/ withheld' = withheld + 1 /\ UNCHANGED <<drops, shown>>
  /\ UNCHANGED <<errors, received>>

\* Decoding fails: the decoder is dropped and the gate closed.
DecodeFails(f) ==
  /\ f.key \/ (got_keyframe /\ ~Gap(f))
  /\ errors < MaxErrors /\ errors' = errors + 1
  /\ got_keyframe' = FALSE
  /\ decoder' = FALSE
  /\ reference' = NoFrame
  /\ drops' = drops + 1
  /\ UNCHANGED <<last_decoded_group, received, shown, withheld>>

\* The decoder handles the next frame.
HandleFrame ==
  /\ video # <<>> /\ video' = Tail(video)
  /\ LET f == Head(video)
     IN  DropFrame(f) \/ CreateFails(f) \/ DecodeFrame(f) \/ DecodeFails(f)
  /\ UNCHANGED dispatcher

ReceiveStep ==
  \/ \E f \in streams : ReadHeader(f) \/ ReadObject(f) \/ StreamFails(f)
  \/ HandleFrame

-------------------------------------------------------------------------------

\* The gate is open only while there is a decoder: the code's branch for a frame
\* without a decoder, behind the gate, is never taken, and DecodeFrame needs none.
GateHasDecoder == got_keyframe => decoder /\ reference # NoFrame

\* A frame that refers to another one is decoded right after that one, for all the
\* reordering and dropping between sender and decoder: between the two the sender
\* has numbered no frame.
ReferenceKept ==
  [][reference' \notin {reference, NoFrame} /\ ~reference'.key =>
       /\ reference.n < reference'.n
       /\ \A f \in streams : f.n \notin reference.n + 1 .. reference'.n - 1]_rvars

\* Frames whose stream has been dealt with.
Finished == {f \in arrived : f.whole} \ (reading \cup {video[i] : i \in DOMAIN video})

\* No frame vanishes: one that arrived and is not shown has been counted as dropped,
\* unless it got as far as the decoder and the decoder had no picture to give.
NothingVanishes == Cardinality(Finished) <= drops + shown + withheld
===============================================================================

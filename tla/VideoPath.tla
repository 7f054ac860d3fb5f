------------------------------- MODULE VideoPath -------------------------------
(***************************************************************************)
(* Video from one participant to another: VideoSend, with all its peers,   *)
(* and VideoReceive at one of them.  The network delivers the streams of a *)
(* connection in any order, which is the order in which the receiver's     *)
(* tasks get to read them.                                                 *)
(***************************************************************************)
EXTENDS VideoSend

CONSTANTS viewer, VideoCap, MaxErrors

ASSUME ViewerAssumption ==
  viewer \in Sessions /\ VideoCap \in Nat \ {0} /\ MaxErrors \in Nat

VARIABLES
  arrived, reading, latest_keyframe, video, got_keyframe, last_decoded_group,
  decoder, reference, received, drops, shown, withheld, errors

R == INSTANCE VideoReceive WITH streams <- sent[viewer]

rvars == <<arrived, reading, latest_keyframe, video, got_keyframe, last_decoded_group,
           decoder, reference, received, drops, shown, withheld, errors>>
pvars == <<svars, rvars>>

PathInit == SendInit /\ R!ReceiveInit

PathNext ==
  \/ SendStep /\ UNCHANGED rvars
  \/ R!ReceiveStep /\ UNCHANGED svars

PathSpec == PathInit /\ [][PathNext]_pvars

-------------------------------------------------------------------------------

\* The types of both ends' state, and the bounds of their channels.
PathTypeOK == SendTypeOK /\ R!ReceiveTypeOK

\* The gate is open only while there is a decoder to decode with.
GateHasDecoder == R!GateHasDecoder

\* A frame that refers to another is decoded right after one that the sender numbered
\* just before it, for all reordering, dropping and aborting in between.
ReferenceKept == R!ReferenceKept

\* No frame vanishes between its stream and the decoder: who is not shown is counted, but
\* for those that the decoder took and gave no picture of.
NothingVanishes == R!NothingVanishes
===============================================================================

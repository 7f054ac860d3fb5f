------------------------------- MODULE AudioPath -------------------------------
(***************************************************************************)
(* Audio from the participants to the speaker: the jitter buffer of one    *)
(* peer in detail (Jitter), others as the decoded frames they contribute;  *)
(* behind it the decoder's task (src/src/audio_decode.rs), the mixer       *)
(* (src/src/audio_mixer.rs) and the playback loop of the audio engine      *)
(* (src/src/audio_macos.rs), with the channels between them, which drop    *)
(* what is sent while they are full.                                       *)
(*                                                                         *)
(* Every frame is 960 samples: that is what the sender encodes, what Opus  *)
(* returns for a lost frame as well, and what is mixed at a time.          *)
(***************************************************************************)
EXTENDS Jitter

CONSTANTS
  peer,        \* the peer whose jitter buffer it is
  Others,      \* the other peers
  DecodeCap,   \* capacity of the channel from jitter buffer to decoder (20)
  MixCap,      \* of the channel to the mixer (50)
  PlayCap,     \* of the channel to the audio engine (50)
  MaxOthers    \* bound: frames of each other peer

ASSUME AudioAssumption ==
  /\ peer \notin Others
  /\ DecodeCap \in Nat /\ MixCap \in Nat /\ PlayCap \in Nat /\ MaxOthers \in Nat

VARIABLES
  decoding,    \* audio_jitter_tx, audio_jitter_rx: timestamps
  mixing,      \* mixer_tx, AudioMixer.rx: <<peer, timestamp>>
  buffers,     \* peer_buffers
  playback,    \* playback_tx, playback_rx: a frame is the set of what was mixed in it
  heard,       \* history: the last timestamp of peer that went to the player
  fed, mixed   \* history: frames the mixer was sent by each peer, and frames it sent

mixVars == <<buffers, playback, fed, mixed>>
avars   == <<vars, decoding, mixing, mixVars, heard>>

AudioInit ==
  /\ Init
  /\ decoding = <<>> /\ mixing = <<>> /\ playback = <<>>
  /\ buffers = [p \in Others \cup {peer} |-> <<>>]
  /\ heard = None
  /\ fed = [p \in Others \cup {peer} |-> 0] /\ mixed = 0

\* What a full channel of capacity cap does with the frames sent to it.
TrySend(channel, frames, cap) ==
  LET all == channel \o frames IN SubSeq(all, 1, IF Len(all) < cap THEN Len(all) ELSE cap)

\* A batch is emitted frame by frame, the earliest first.
Ascending(batch) ==
  CHOOSE frames \in [1..Cardinality(batch) -> batch] :
    \A i, j \in DOMAIN frames : i < j => frames[i] < frames[j]

\* The jitter buffer emits a batch, a sentinel or nothing.
JitterStep ==
  /\ Next
  /\ decoding' = IF out' = out THEN decoding
                 ELSE TrySend(decoding, Ascending(out'[Len(out')]), DecodeCap)
  /\ UNCHANGED <<mixing, mixVars, heard>>

\* A frame is decoded, or concealed if it is a sentinel.
DecodeAudio ==
  /\ decoding # <<>> /\ decoding' = Tail(decoding)
  /\ mixing' = TrySend(mixing, << <<peer, Head(decoding)>> >>, MixCap)
  /\ UNCHANGED <<vars, mixVars, heard>>

\* Another peer's decoder contributes its next frame.
OtherDecodes(p) ==
  /\ fed[p] + Len(SelectSeq(mixing, LAMBDA m : m[1] = p)) < MaxOthers
  /\ mixing' = TrySend(mixing, << <<p, fed[p]>> >>, MixCap)
  /\ UNCHANGED <<vars, decoding, mixVars, heard>>

\* Mutant: the mixer waits until all peers it knows have a frame.
TryMix_AllReady(bufs) ==
  IF \A p \in DOMAIN bufs : bufs[p] # <<>>
    THEN /\ buffers' = [p \in DOMAIN bufs |-> Tail(bufs[p])]
         /\ playback' = TrySend(playback, <<{<<p, Head(bufs[p])>> : p \in DOMAIN bufs}>>, PlayCap)
         /\ mixed' = mixed + 1
    ELSE buffers' = bufs /\ UNCHANGED <<playback, mixed>>

\* As soon as any peer has a frame, one frame is taken of all that have one.
TryMix(bufs) ==
  LET ready == {p \in DOMAIN bufs : bufs[p] # <<>>}
  IN  IF ready = {} THEN buffers' = bufs /\ UNCHANGED <<playback, mixed>>
      ELSE /\ buffers' = [p \in DOMAIN bufs |-> IF p \in ready THEN Tail(bufs[p]) ELSE <<>>]
           /\ playback' = TrySend(playback, <<{<<p, Head(bufs[p])>> : p \in ready}>>, PlayCap)
           /\ mixed' = mixed + 1

\* The mixer adds a message to the buffer of its peer and mixes.
Mix ==
  /\ mixing # <<>> /\ mixing' = Tail(mixing)
  /\ LET m == Head(mixing)
     IN  /\ fed' = [fed EXCEPT ![m[1]] = @ + 1]
         /\ TryMix([buffers EXCEPT ![m[1]] = Append(@, m[2])])
  /\ UNCHANGED <<vars, decoding, heard>>

\* The engine's thread takes a frame and schedules it with the player, which plays
\* what is scheduled in order.
Pump ==
  /\ playback # <<>> /\ playback' = Tail(playback)
  /\ heard' = LET ts == {f[2] : f \in {f \in Head(playback) : f[1] = peer}}
              IN  IF ts = {} THEN heard ELSE CHOOSE t \in ts : TRUE
  /\ UNCHANGED <<vars, decoding, mixing, buffers, fed, mixed>>

AudioNext ==
  \/ JitterStep \/ DecodeAudio \/ Mix \/ Pump
  \/ \E p \in Others : OtherDecodes(p)

AudioSpec == AudioInit /\ [][AudioNext]_avars

-------------------------------------------------------------------------------

\* What is heard of a peer is in the order in which it was said and nothing is heard
\* twice, whatever was lost, late, concealed or dropped at a full channel on the way.
HeardInOrder == [][heard' # heard => heard = None \/ heard < heard']_avars

\* No audio waits in the mixer, whoever stops sending or leaves: a peer's silence never
\* holds back the others, and no delay builds up there.
MixerHoldsNothing == \A p \in DOMAIN buffers : buffers[p] = <<>>

\* "Combines N decoded audio streams into a single mixed output for playback": the
\* mixer sends no more frames than the peer that sent it the most.
SingleOutput == \E p \in DOMAIN fed : mixed <= fed[p]
===============================================================================

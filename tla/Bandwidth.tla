------------------------------- MODULE Bandwidth -------------------------------
(***************************************************************************)
(* The encoder thread follows the estimator: the part of encode_loop       *)
(* (src/src/video_encode.rs) that reads EncoderConfig, one atomic at a     *)
(* time, while the estimator's task (module Estimator) stores to it.       *)
(* quality_changed is stored with Release after the values and swapped     *)
(* with Acquire before they are loaded, so a thread that finds it set sees *)
(* values at least as new; all loads and stores are interleaved.           *)
(***************************************************************************)
EXTENDS Estimator

VARIABLES
  enc,      \* what encode_loop does next: "check" the flag, load a value,
            \* "session", "bitrate" or wait for a "frame"; or "dead"
  loaded,   \* new_w, new_h, new_fps, new_br
  session,  \* the compression session's enc_width, enc_height, enc_fps
  applied   \* applied_bitrate

encoder == <<enc, loaded, session, applied>>
vars    == <<estimator, encoder>>

Size  == [width : Nat, height : Nat, fps : Nat]
\* The local variables of the load are out of scope.
Unloaded == [width |-> 0, height |-> 0, fps |-> 0, rate |-> 0]

Of(c) == [width |-> c.width, height |-> c.height, fps |-> c.fps]

EncoderTypeOK ==
  /\ TypeOK
  /\ enc \in {"check", "width", "height", "fps", "rate", "session", "bitrate",
              "frame", "dead"}
  /\ loaded \in [width : Nat, height : Nat, fps : Nat, rate : Nat]
  /\ session \in Size
  /\ applied \in Nat

\* The thread is started before the first event can reach the estimator.
InitBandwidth ==
  /\ Init
  /\ enc = "check"
  /\ session = Of(config)
  /\ applied = config.rate
  /\ loaded = Unloaded

\* quality_changed.swap(false).
Check ==
  /\ enc = "check"
  /\ enc' = IF config.quality_changed THEN "width" ELSE "bitrate"
  /\ config' = [config EXCEPT !.quality_changed = FALSE]
  /\ UNCHANGED <<current_bitrate, quality_idx, rested, held, est>>
  /\ UNCHANGED <<loaded, session, applied>>

Load(at, next, l) ==
  /\ enc = at /\ enc' = next
  /\ loaded' = l
  /\ UNCHANGED <<estimator, session, applied>>

LoadPreset ==
  \/ Load("width", "height", [loaded EXCEPT !.width = config.width])
  \/ Load("height", "fps", [loaded EXCEPT !.height = config.height])
  \/ Load("fps", "rate", [loaded EXCEPT !.fps = config.fps])
  \/ Load("rate", "session", [loaded EXCEPT !.rate = config.rate])

\* Another size or frame rate: the session is recreated with what was loaded.
Recreate ==
  /\ enc = "session"
  /\ IF Of(loaded) # session
       THEN session' = Of(loaded) /\ applied' = loaded.rate
       ELSE UNCHANGED <<session, applied>>
  /\ enc' = "bitrate"
  /\ loaded' = Unloaded
  /\ UNCHANGED estimator

\* The new session cannot be created: encode_loop returns, for good.
RecreateFails ==
  /\ enc = "session" /\ Of(loaded) # session
  /\ enc' = "dead"
  /\ loaded' = Unloaded
  /\ UNCHANGED <<estimator, session, applied>>

\* Mutant: the bitrate is only looked at when the preset has changed.
UpdateBitrate_WithPreset ==
  /\ enc = "bitrate" /\ enc' = "frame"
  /\ UNCHANGED <<estimator, loaded, session, applied>>

\* A change of the bitrate alone is applied to the running session.
UpdateBitrate ==
  /\ enc = "bitrate" /\ enc' = "frame"
  /\ applied' = config.rate
  /\ UNCHANGED <<estimator, loaded, session>>

\* A captured frame arrives and is encoded (module VideoSend).
EncodeFrame ==
  /\ enc = "frame" /\ enc' = "check"
  /\ UNCHANGED <<estimator, loaded, session, applied>>

EncoderStep == Check \/ LoadPreset \/ Recreate \/ RecreateFails \/ UpdateBitrate \/ EncodeFrame

NextBandwidth == (Next /\ UNCHANGED encoder) \/ EncoderStep

SpecBandwidth == InitBandwidth /\ [][NextBandwidth]_vars

\* The estimator's task is polled, the encoder's thread runs, frames are captured.
\* Time passes, and as long as there is video there are events without congestion:
\* frames that are sent in time.
FairBandwidth ==
  /\ SpecBandwidth
  /\ WF_vars(ApplyPreset /\ UNCHANGED encoder) /\ WF_vars(EncoderStep)
  /\ WF_vars(ProbeDue /\ UNCHANGED encoder) /\ WF_vars(HoldOver /\ UNCHANGED encoder)
  /\ WF_vars(HandleEvent("None") /\ UNCHANGED encoder)

-------------------------------------------------------------------------------

\* A change of the preset is never lost, although flag and values are separate
\* atomics and the encoder may load a mixture of two presets: when the estimator
\* has stored a preset and the encoder is not about to look at it, it encodes it.
PresetNotLost ==
  est = "idle" /\ ~config.quality_changed /\ enc \in {"check", "bitrate", "frame"} =>
    session = Of(Preset)

\* What it rests on.  The values stored so far are those of the preset ...
StoredSoFar ==
  /\ est \in {"idle", "height", "fps", "flag"} => config.width = Preset.width
  /\ est \in {"idle", "fps", "flag"} => config.height = Preset.height
  /\ est \in {"idle", "flag"} => config.fps = Preset.fps

\* ... and when none is to come, so are those loaded so far.
LoadedSoFar ==
  est = "idle" /\ ~config.quality_changed =>
    /\ enc \in {"height", "fps", "rate", "session"} => loaded.width = Preset.width
    /\ enc \in {"fps", "rate", "session"} => loaded.height = Preset.height
    /\ enc \in {"rate", "session"} => loaded.fps = Preset.fps

Followed ==
  session = Of(Preset) /\ applied = current_bitrate

\* Once the estimator rests, the encoder encodes with its preset and bitrate, or has
\* ended because a session could not be created.
EncoderFollows ==
  <>[][FALSE]_<<current_bitrate, quality_idx>> => <>[](enc = "dead" \/ Followed)
===============================================================================

------------------------------- MODULE Estimator -------------------------------
(***************************************************************************)
(* BandwidthEstimator (src/src/bandwidth.rs): additive increase,           *)
(* multiplicative decrease of the video bitrate, a ladder of quality       *)
(* presets, and EncoderConfig, the atomics the estimator writes one by one *)
(* while the encoder thread reads them (module Bandwidth).                 *)
(*                                                                         *)
(* Bitrates are naturals in any unit.  Events come in any order: frames    *)
(* sent, RTT samples and feedback all end in a congestion level.           *)
(***************************************************************************)
EXTENDS Integers, Sequences

CONSTANTS
  Ladder,       \* QUALITY_LADDER, low to high: [width, height, fps, rate]
  MinBitrate,   \* MIN_BITRATE_BPS
  MaxBitrate,   \* MAX_BITRATE_BPS
  IncreasePct,  \* INCREASE_RATE in per cent
  Durations     \* how long, in ms, sending a frame may take

Rungs    == DOMAIN Ladder
Top      == Len(Ladder)
Bitrates == MinBitrate..MaxBitrate

\* f64 arithmetic, truncated to u32.
Cut(b, pct) == (b * pct) \div 100
Raised(b)   == (b * (100 + IncreasePct)) \div 100

CongestionLevel == {"None", "Mild", "Moderate", "Severe"}
Factor == [Mild |-> 85, Moderate |-> 80, Severe |-> 50]
Congested == DOMAIN Factor

ASSUME LadderAssumption ==
  /\ MinBitrate \in Nat \ {0} /\ MaxBitrate \in Nat /\ IncreasePct \in Nat
  /\ Durations \subseteq Nat
  /\ Ladder \in Seq([width : Nat, height : Nat, fps : Nat \ {0}, rate : Bitrates])
  /\ Ladder # <<>>
  /\ \A i, j \in Rungs : i < j => Ladder[i].rate < Ladder[j].rate

\* The rungs lie further apart than one event moves the bitrate.
ASSUME SpacingAssumption ==
  /\ \A i \in Rungs : \A b \in Bitrates :
       /\ i + 1 < Top /\ b < Ladder[i + 1].rate => Raised(b) < Ladder[i + 2].rate
       /\ 1 < i /\ i < Top /\ b > Ladder[i].rate =>
            \A level \in Congested : Cut(b, Factor[level]) > Ladder[i - 1].rate

VARIABLES
  current_bitrate, quality_idx,
  rested,   \* PROBE_INTERVAL has elapsed since last_probe
  held,     \* HOLD_AFTER_DECREASE has elapsed since last_decrease
  est,      \* the store of apply_preset that comes next, or "idle"
  config    \* EncoderConfig

estimator == <<current_bitrate, quality_idx, rested, held, est, config>>

Preset == Ladder[quality_idx]

TypeOK ==
  /\ current_bitrate \in Bitrates
  /\ quality_idx \in Rungs
  /\ rested \in BOOLEAN /\ held \in BOOLEAN
  /\ est \in {"idle", "width", "height", "fps", "flag"}
  /\ config \in [width : Nat, height : Nat, fps : Nat, rate : Bitrates,
                 quality_changed : BOOLEAN]

Init ==
  /\ current_bitrate = Ladder[Top].rate
  /\ quality_idx = Top
  /\ rested = FALSE /\ held = FALSE
  /\ est = "idle"
  /\ config = [width |-> Ladder[Top].width, height |-> Ladder[Top].height,
               fps |-> Ladder[Top].fps, rate |-> Ladder[Top].rate,
               quality_changed |-> FALSE]

\* Time goes by.
ProbeDue ==
  /\ ~rested /\ rested' = TRUE
  /\ UNCHANGED <<current_bitrate, quality_idx, held, est, config>>

HoldOver ==
  /\ ~held /\ held' = TRUE
  /\ UNCHANGED <<current_bitrate, quality_idx, rested, est, config>>

-------------------------------------------------------------------------------

\* Mutant: not clamped from below.
SetBitrate_NoFloor(bps) ==
  LET b == IF bps > MaxBitrate THEN MaxBitrate ELSE bps
  IN  /\ current_bitrate' = b
      /\ config' = [config EXCEPT !.rate = b]

\* set_bitrate: clamped, remembered and stored for the encoder.
SetBitrate(bps) ==
  LET b == IF bps < MinBitrate THEN MinBitrate
           ELSE IF bps > MaxBitrate THEN MaxBitrate ELSE bps
  IN  /\ current_bitrate' = b
      /\ config' = [config EXCEPT !.rate = b]

\* The next rung is chosen; the stores of apply_preset follow.
Step(i) == quality_idx' = i /\ est' = "width"
Stay    == UNCHANGED <<quality_idx, est>>

\* Mutant: off by one at the end of the ladder.
MaybeStepUp_OffByOne ==
  IF quality_idx + 1 < Top /\ current_bitrate' >= Ladder[quality_idx + 1].rate
    THEN Step(quality_idx + 1)
    ELSE Stay

\* maybe_step_up_quality, maybe_step_down_quality: one rung at most.
MaybeStepUp ==
  IF quality_idx < Top /\ current_bitrate' >= Ladder[quality_idx + 1].rate
    THEN Step(quality_idx + 1)
    ELSE Stay

\* Mutant: strict comparison.
MaybeStepDown_Strict ==
  IF quality_idx > 1 /\ current_bitrate' < Ladder[quality_idx - 1].rate
    THEN Step(quality_idx - 1)
    ELSE Stay

MaybeStepDown ==
  IF quality_idx > 1 /\ current_bitrate' <= Ladder[quality_idx - 1].rate
    THEN Step(quality_idx - 1)
    ELSE Stay

\* try_probe, when there is no congestion.
TryProbe ==
  IF rested /\ held
    THEN /\ rested' = FALSE
         /\ SetBitrate(Raised(current_bitrate))
         /\ MaybeStepUp
         /\ UNCHANGED held
    ELSE UNCHANGED estimator

\* decrease.
Decrease(level) ==
  /\ held' = FALSE
  /\ SetBitrate(Cut(current_bitrate, Factor[level]))
  /\ MaybeStepDown
  /\ UNCHANGED rested

\* handle_event.  SendComplete: slower than the interval between two frames of
\* the preset is moderate congestion.  RttSample: nothing or mild, as the
\* smoothed RTT compares with its baseline.  ReceiverFeedback: by the fraction
\* lost.  StreamStopped is severe.  (The estimator handles the last two, but no part
\* of the program sends it StreamStopped, and feedback never reaches it.)
Levels ==
  {IF d * Preset.fps > 1000 THEN "Moderate" ELSE "None" : d \in Durations}
  \cup {"None", "Mild"}          \* RttSample
  \cup CongestionLevel           \* ReceiverFeedback, StreamStopped

HandleEvent(level) ==
  /\ est = "idle" /\ level \in Levels
  /\ IF level = "None" THEN TryProbe ELSE Decrease(level)

\* apply_preset stores width, height and fps one by one, the flag last.
Store(at, next, c) ==
  /\ est = at /\ est' = next
  /\ config' = c
  /\ UNCHANGED <<current_bitrate, quality_idx, rested, held>>

\* Mutant: the flag is set before the values.
ApplyPreset_FlagFirst ==
  \/ Store("width", "height", [config EXCEPT !.quality_changed = TRUE])
  \/ Store("height", "fps", [config EXCEPT !.width = Preset.width])
  \/ Store("fps", "flag", [config EXCEPT !.height = Preset.height])
  \/ Store("flag", "idle", [config EXCEPT !.fps = Preset.fps])

ApplyPreset ==
  \/ Store("width", "height", [config EXCEPT !.width = Preset.width])
  \/ Store("height", "fps", [config EXCEPT !.height = Preset.height])
  \/ Store("fps", "flag", [config EXCEPT !.fps = Preset.fps])
  \/ Store("flag", "idle", [config EXCEPT !.quality_changed = TRUE])

Next ==
  \/ ProbeDue \/ HoldOver \/ ApplyPreset
  \/ \E level \in CongestionLevel : HandleEvent(level)

Spec == Init /\ [][Next]_estimator

-------------------------------------------------------------------------------

\* Although one event moves the preset by one rung at most, the preset always fits
\* the bitrate: the rate is above the rung below, where maybe_step_down_quality
\* would have left the preset, and below the rung above.
QualityFits ==
  /\ quality_idx > 1   => current_bitrate > Ladder[quality_idx - 1].rate
  /\ quality_idx < Top => current_bitrate < Ladder[quality_idx + 1].rate

\* Nothing is lost for good: once decreases are over, probing leads back to the
\* best preset and to the highest bitrate, in spite of truncation and clamping.
Recovers == <>[]held => <>[](quality_idx = Top /\ current_bitrate = MaxBitrate)
===============================================================================

---------------------------- MODULE BandwidthProofs ----------------------------
(***************************************************************************)
(* Proofs about the estimator and the encoder thread, for every ladder,    *)
(* bounds and rate of increase that satisfy the assumptions of Estimator.  *)
(***************************************************************************)
EXTENDS Bandwidth, TLAPS

\* The numbers of the rungs, and the bitrates.
LEMMA RungNumbers ==
  /\ Top \in Nat /\ 1 <= Top
  /\ \A i : i \in Rungs <=> i \in Nat /\ 1 <= i /\ i <= Top
PROOF
<1>1. Ladder \in Seq([width : Nat, height : Nat, fps : Nat \ {0}, rate : Bitrates])
      /\ Ladder # <<>>
  BY LadderAssumption
<1>2. Top \in Nat /\ Rungs = 1..Top /\ Top # 0
  BY <1>1 DEF Top, Rungs
<1> QED
  BY <1>2

LEMMA BitrateNumbers ==
  /\ MinBitrate \in Nat /\ MaxBitrate \in Nat
  /\ \A b : b \in Bitrates <=> b \in Nat /\ MinBitrate <= b /\ b <= MaxBitrate
PROOF
  BY LadderAssumption DEF Bitrates

\* A rung is a preset, and the rates of the rungs increase.
LEMMA RungPreset ==
  ASSUME NEW i \in Rungs
  PROVE  /\ Ladder[i].width \in Nat /\ Ladder[i].height \in Nat /\ Ladder[i].fps \in Nat
         /\ Ladder[i].rate \in Bitrates
PROOF
<1> DEFINE P == [width : Nat, height : Nat, fps : Nat \ {0}, rate : Bitrates]
<1>1. Ladder \in Seq(P)
  BY LadderAssumption
<1> HIDE DEF P
<1>2. Ladder[i] \in P
  BY <1>1 DEF Rungs
<1> QED
  BY <1>2 DEF P

LEMMA RungRate ==
  ASSUME NEW i \in Rungs
  PROVE  Ladder[i].rate \in Nat
PROOF
  BY RungPreset, BitrateNumbers

LEMMA RungsRise ==
  ASSUME NEW i \in Rungs, NEW j \in Rungs, i < j
  PROVE  Ladder[i].rate < Ladder[j].rate
PROOF
  BY LadderAssumption

\* A decrease does not raise the bitrate, an increase does not lower it.
LEMMA CutBelow ==
  ASSUME NEW b \in Nat, NEW level \in Congested
  PROVE  Cut(b, Factor[level]) \in Nat /\ Cut(b, Factor[level]) <= b
PROOF
<1>1. Factor[level] \in {85, 80, 50}
  BY DEF Congested, Factor
<1>2. CASE Factor[level] = 85
  BY <1>2, SMT DEF Cut
<1>3. CASE Factor[level] = 80
  BY <1>3, SMT DEF Cut
<1>4. CASE Factor[level] = 50
  BY <1>4, SMT DEF Cut
<1> QED
  BY <1>1, <1>2, <1>3, <1>4

LEMMA RaisedAbove ==
  ASSUME NEW b \in Nat
  PROVE  Raised(b) \in Nat /\ b <= Raised(b)
PROOF
<1>1. IncreasePct \in Nat
  BY LadderAssumption
<1> DEFINE extra == b * IncreasePct
<1>2. extra \in Nat
  BY <1>1
<1>3. b * (100 + IncreasePct) = 100 * b + extra
  BY <1>1
<1> HIDE DEF extra
<1>4. (100 * b + extra) \div 100 \in Nat /\ b <= (100 * b + extra) \div 100
  BY <1>2, SMT
<1> QED
  BY <1>3, <1>4 DEF Raised

\* A quiet event: nothing, or a probe that raises the bitrate and perhaps the preset.
LEMMA ProbeStep ==
  ASSUME TypeOK, QualityFits, HandleEvent("None")
  PROVE  TypeOK' /\ QualityFits'
PROOF
<1>1. CASE UNCHANGED estimator
  BY <1>1 DEF TypeOK, QualityFits, estimator
<1>2. CASE rested /\ held
  <2> DEFINE b == current_bitrate
             r == Raised(b)
             n == IF r < MinBitrate THEN MinBitrate
                  ELSE IF r > MaxBitrate THEN MaxBitrate ELSE r
             q == quality_idx
  <2>1. /\ rested' = FALSE /\ current_bitrate' = n /\ config' = [config EXCEPT !.rate = n]
        /\ MaybeStepUp /\ held' = held /\ est = "idle"
    BY <1>2 DEF HandleEvent, TryProbe, SetBitrate
  <2>2. b \in Bitrates /\ q \in Rungs
    BY DEF TypeOK
  <2>3. b \in Nat /\ MinBitrate <= b /\ b <= MaxBitrate
    BY <2>2, BitrateNumbers
  <2>4. r \in Nat /\ b <= r
    BY <2>3, RaisedAbove
  <2> HIDE DEF r
  <2>5. n \in Nat /\ b <= n /\ n <= r /\ n \in Bitrates
    BY <2>3, <2>4, BitrateNumbers
  <2> HIDE DEF n
  <2>6. CASE q < Top /\ n >= Ladder[q + 1].rate
    <3>1. quality_idx' = q + 1 /\ est' = "width"
      BY <2>1, <2>6 DEF MaybeStepUp, Step
    <3>2. q + 1 \in Rungs
      BY <2>2, <2>6, RungNumbers
    <3>3. TypeOK'
      BY <2>1, <2>5, <3>1, <3>2, <1>2 DEF TypeOK
    <3>4. Ladder[q].rate < Ladder[q + 1].rate
      BY <2>2, <3>2, RungsRise, RungNumbers
    <3>5. ASSUME q + 1 < Top PROVE n < Ladder[q + 2].rate
      <4>1. b < Ladder[q + 1].rate
        BY <2>6 DEF QualityFits
      <4>2. r < Ladder[q + 2].rate
        BY <2>2, <3>5, <4>1, SpacingAssumption DEF r
      <4>3. Ladder[q + 2].rate \in Nat
        BY <2>2, <3>5, RungRate, RungNumbers
      <4> QED
        BY <2>4, <2>5, <4>2, <4>3
    <3>6. /\ Ladder[q].rate \in Nat /\ Ladder[q + 1].rate \in Nat /\ q \in Nat
          /\ (q + 1) - 1 = q /\ (q + 1) + 1 = q + 2
      BY <2>2, <3>2, RungRate, RungNumbers
    <3>7. QualityFits'
      <4>1. current_bitrate' > Ladder[quality_idx' - 1].rate
        BY <2>1, <2>5, <2>6, <3>1, <3>4, <3>6
      <4>2. quality_idx' < Top => current_bitrate' < Ladder[quality_idx' + 1].rate
        BY <2>1, <3>1, <3>5, <3>6
      <4> QED
        BY <4>1, <4>2 DEF QualityFits, Top
    <3> QED
      BY <3>3, <3>7
  <2>7. CASE ~(q < Top /\ n >= Ladder[q + 1].rate)
    <3>1. quality_idx' = q /\ est' = est
      BY <2>1, <2>7 DEF MaybeStepUp, Stay
    <3>2. TypeOK'
      BY <2>1, <2>5, <3>1, <1>2 DEF TypeOK
    <3>3. q > 1 => Ladder[q - 1].rate \in Nat
      BY <2>2, RungRate, RungNumbers
    <3>4. q < Top => Ladder[q + 1].rate \in Nat
      BY <2>2, RungRate, RungNumbers
    <3>5. q > 1 => n > Ladder[q - 1].rate
      BY <2>3, <2>5, <3>3 DEF QualityFits
    <3>6. q < Top => n < Ladder[q + 1].rate
      BY <2>5, <2>7, <3>4
    <3>7. QualityFits'
      BY <2>1, <3>1, <3>5, <3>6 DEF QualityFits, Top
    <3> QED
      BY <3>2, <3>7
  <2> QED
    BY <2>6, <2>7
<1> QED
  BY <1>1, <1>2 DEF HandleEvent, TryProbe

\* Congestion: the bitrate falls, the preset by one rung at most.
LEMMA DecreaseStep ==
  ASSUME NEW level \in Congested, TypeOK, QualityFits, est = "idle", Decrease(level)
  PROVE  TypeOK' /\ QualityFits'
PROOF
<1> DEFINE b == current_bitrate
           r == Cut(b, Factor[level])
           n == IF r < MinBitrate THEN MinBitrate
                ELSE IF r > MaxBitrate THEN MaxBitrate ELSE r
           q == quality_idx
<1>1. /\ held' = FALSE /\ current_bitrate' = n /\ config' = [config EXCEPT !.rate = n]
      /\ MaybeStepDown /\ rested' = rested
  BY DEF Decrease, SetBitrate
<1>2. b \in Bitrates /\ q \in Rungs
  BY DEF TypeOK
<1>3. b \in Nat /\ MinBitrate <= b /\ b <= MaxBitrate
  BY <1>2, BitrateNumbers
<1>4. r \in Nat /\ r <= b
  BY <1>3, CutBelow
<1> HIDE DEF r
<1>5. n \in Nat /\ n <= b /\ r <= n /\ n \in Bitrates
  BY <1>3, <1>4, BitrateNumbers
<1> HIDE DEF n
<1>6. CASE q > 1 /\ n <= Ladder[q - 1].rate
  <2>1. quality_idx' = q - 1 /\ est' = "width"
    BY <1>1, <1>6 DEF MaybeStepDown, Step
  <2>2. q - 1 \in Rungs /\ q \in Nat /\ q <= Top
    BY <1>2, <1>6, RungNumbers
  <2>3. TypeOK'
    BY <1>1, <1>5, <2>1, <2>2 DEF TypeOK
  <2>4. /\ Ladder[q - 1].rate < Ladder[q].rate
        /\ Ladder[q - 1].rate \in Nat /\ Ladder[q].rate \in Nat
    BY <1>2, <2>2, RungsRise, RungRate
  <2>5. ASSUME q - 1 > 1 PROVE n > Ladder[(q - 1) - 1].rate
    <3>1. b > Ladder[q - 1].rate
      BY <1>6 DEF QualityFits
    <3>2. r > Ladder[(q - 1) - 1].rate
      BY <1>2, <2>2, <2>5, <3>1, SpacingAssumption, RungNumbers DEF r
    <3>3. (q - 1) - 1 \in Rungs
      BY <2>2, <2>5, RungNumbers
    <3>4. Ladder[(q - 1) - 1].rate \in Nat
      BY <3>3, RungRate
    <3> QED
      BY <1>4, <1>5, <3>2, <3>4
  <2>6. n < Ladder[(q - 1) + 1].rate
    <3>1. (q - 1) + 1 = q
      BY <2>2
    <3> QED
      BY <1>5, <1>6, <2>4, <3>1
  <2>7. QualityFits'
    BY <1>1, <2>1, <2>5, <2>6 DEF QualityFits, Top
  <2> QED
    BY <2>3, <2>7
<1>7. CASE ~(q > 1 /\ n <= Ladder[q - 1].rate)
  <2>1. quality_idx' = q /\ est' = est
    BY <1>1, <1>7 DEF MaybeStepDown, Stay
  <2>2. TypeOK'
    BY <1>1, <1>5, <2>1 DEF TypeOK
  <2>3. q > 1 => Ladder[q - 1].rate \in Nat
    BY <1>2, RungRate, RungNumbers
  <2>4. q < Top => Ladder[q + 1].rate \in Nat
    BY <1>2, RungRate, RungNumbers
  <2>5. q > 1 => n > Ladder[q - 1].rate
    BY <1>5, <1>7, <2>3
  <2>6. q < Top => n < Ladder[q + 1].rate
    BY <1>3, <1>5, <2>4 DEF QualityFits
  <2>7. QualityFits'
    BY <1>1, <2>1, <2>5, <2>6 DEF QualityFits, Top
  <2> QED
    BY <2>2, <2>7
<1> QED
  BY <1>6, <1>7

LEMMA EstimatorStep ==
  ASSUME TypeOK, QualityFits, [Next]_estimator
  PROVE  TypeOK' /\ QualityFits'
PROOF
<1>1. CASE ProbeDue
  BY <1>1 DEF ProbeDue, TypeOK, QualityFits, Top
<1>2. CASE HoldOver
  BY <1>2 DEF HoldOver, TypeOK, QualityFits, Top
<1>3. CASE ApplyPreset
  <2>1. /\ Preset.width \in Nat /\ Preset.height \in Nat /\ Preset.fps \in Nat
    BY RungPreset DEF Preset, TypeOK
  <2>2. /\ UNCHANGED <<current_bitrate, quality_idx, rested, held>>
        /\ est' \in {"height", "fps", "flag", "idle"}
        /\ config' \in {[config EXCEPT !.width = Preset.width],
                        [config EXCEPT !.height = Preset.height],
                        [config EXCEPT !.fps = Preset.fps],
                        [config EXCEPT !.quality_changed = TRUE]}
    BY <1>3 DEF ApplyPreset, Store
  <2>3. config' \in [width : Nat, height : Nat, fps : Nat, rate : Bitrates,
                     quality_changed : BOOLEAN]
    BY <2>1, <2>2 DEF TypeOK
  <2> QED
    BY <2>2, <2>3 DEF TypeOK, QualityFits, Top
<1>4. ASSUME NEW level \in CongestionLevel, HandleEvent(level)
      PROVE  TypeOK' /\ QualityFits'
  <2>1. CASE level = "None"
    BY <1>4, <2>1, ProbeStep
  <2>2. CASE level # "None"
    <3>1. level \in Congested
      BY <2>2 DEF CongestionLevel, Congested, Factor
    <3>2. est = "idle" /\ Decrease(level)
      BY <1>4, <2>2 DEF HandleEvent
    <3> QED
      BY <3>1, <3>2, DecreaseStep
  <2> QED
    BY <2>1, <2>2
<1>5. CASE UNCHANGED estimator
  BY <1>5 DEF estimator, TypeOK, QualityFits, Top
<1> QED
  BY <1>1, <1>2, <1>3, <1>4, <1>5 DEF Next

LEMMA EstimatorInit ==
  ASSUME Init
  PROVE  TypeOK /\ QualityFits
PROOF
<1>1. Ladder[Top].rate \in Bitrates /\ Top \in Rungs
  BY RungPreset, RungNumbers
<1>2. Ladder[Top].width \in Nat /\ Ladder[Top].height \in Nat /\ Ladder[Top].fps \in Nat
  BY <1>1, RungPreset
<1>3. TypeOK
  BY <1>1, <1>2 DEF Init, TypeOK
<1>4. Top > 1 => Ladder[Top - 1].rate < Ladder[Top].rate /\ Ladder[Top - 1].rate \in Nat
  BY <1>1, RungNumbers, RungsRise, RungRate
<1>5. QualityFits
  BY <1>1, <1>4, RungNumbers DEF Init, QualityFits
<1> QED
  BY <1>3, <1>5

-------------------------------------------------------------------------------
(* The encoder thread. *)

PresetInv == EncoderTypeOK /\ QualityFits /\ StoredSoFar /\ LoadedSoFar /\ PresetNotLost

LEMMA PresetInit ==
  ASSUME InitBandwidth
  PROVE  PresetInv
PROOF
<1>1. TypeOK /\ QualityFits
  BY EstimatorInit DEF InitBandwidth
<1>2. EncoderTypeOK
  BY <1>1, BitrateNumbers DEF InitBandwidth, EncoderTypeOK, TypeOK, Unloaded, Of, Size
<1>3. StoredSoFar /\ LoadedSoFar /\ PresetNotLost
  BY DEF InitBandwidth, Init, StoredSoFar, LoadedSoFar, PresetNotLost, Preset, Of
<1> QED
  BY <1>1, <1>2, <1>3 DEF PresetInv

\* The estimator's steps: while a store is to come or the flag is set, nothing is
\* claimed of the encoder, and the last store is that of the flag.
LEMMA EstimatorKeeps ==
  ASSUME PresetInv, Next, UNCHANGED encoder
  PROVE  PresetInv'
PROOF
<1>1. EncoderTypeOK' /\ QualityFits'
  BY EstimatorStep DEF PresetInv, EncoderTypeOK, encoder
<1>2. CASE ProbeDue \/ HoldOver
  BY <1>1, <1>2 DEF ProbeDue, HoldOver, PresetInv, StoredSoFar, LoadedSoFar, PresetNotLost,
                    Preset, Of, encoder
<1>3. CASE ApplyPreset
  <2>1. UNCHANGED quality_idx /\ Preset' = Preset
    BY <1>3 DEF ApplyPreset, Store, Preset
  <2>2. StoredSoFar'
    BY <1>3, <2>1 DEF ApplyPreset, Store, PresetInv, StoredSoFar, EncoderTypeOK, TypeOK
  <2>3. est' = "idle" => config'.quality_changed
    BY <1>3 DEF ApplyPreset, Store, PresetInv, EncoderTypeOK, TypeOK
  <2>4. LoadedSoFar' /\ PresetNotLost'
    BY <2>3 DEF LoadedSoFar, PresetNotLost
  <2> QED
    BY <1>1, <2>2, <2>4 DEF PresetInv
<1>4. ASSUME NEW level \in CongestionLevel, HandleEvent(level)
      PROVE  PresetInv'
  <2>1. CASE est' = "width"
    BY <1>1, <2>1 DEF PresetInv, StoredSoFar, LoadedSoFar, PresetNotLost
  <2>2. CASE est' # "width"
    <3>1. /\ UNCHANGED <<quality_idx, est>> /\ est = "idle"
          /\ config'.quality_changed = config.quality_changed /\ Of(config') = Of(config)
          /\ config'.width = config.width /\ config'.height = config.height
          /\ config'.fps = config.fps
      BY <1>4, <2>2 DEF HandleEvent, TryProbe, Decrease, SetBitrate, MaybeStepUp,
                        MaybeStepDown, Step, Stay, estimator, PresetInv, EncoderTypeOK,
                        TypeOK, Of
    <3>2. Preset' = Preset
      BY <3>1 DEF Preset
    <3> QED
      BY <1>1, <3>1, <3>2 DEF PresetInv, StoredSoFar, LoadedSoFar, PresetNotLost, encoder, Of
  <2> QED
    BY <2>1, <2>2
<1> QED
  BY <1>2, <1>3, <1>4 DEF Next

\* The encoder's steps: what it loads after the flag was clear is the preset.
LEMMA EncoderKeeps ==
  ASSUME PresetInv, EncoderStep
  PROVE  PresetInv'
PROOF
<1>1. CASE Check
  <2>1. /\ UNCHANGED <<current_bitrate, quality_idx, rested, held, est, loaded, session>>
        /\ config' = [config EXCEPT !.quality_changed = FALSE]
        /\ enc = "check"
        /\ enc' = IF config.quality_changed THEN "width" ELSE "bitrate"
    BY <1>1 DEF Check
  <2>2. EncoderTypeOK' /\ QualityFits'
    BY <2>1, <1>1 DEF Check, PresetInv, EncoderTypeOK, TypeOK, QualityFits, Top
  <2>3. Preset' = Preset /\ config'.width = config.width /\ config'.height = config.height
        /\ config'.fps = config.fps
    BY <2>1 DEF Preset, PresetInv, EncoderTypeOK, TypeOK
  <2> QED
    BY <2>1, <2>2, <2>3 DEF PresetInv, StoredSoFar, LoadedSoFar, PresetNotLost, Of
<1>2. CASE LoadPreset
  <2>1. UNCHANGED estimator /\ UNCHANGED <<session, applied>>
    BY <1>2 DEF LoadPreset, Load
  <2>2. /\ config \in [width : Nat, height : Nat, fps : Nat, rate : Bitrates,
                       quality_changed : BOOLEAN]
        /\ loaded \in [width : Nat, height : Nat, fps : Nat, rate : Nat]
        /\ config.rate \in Nat
    BY BitrateNumbers DEF PresetInv, EncoderTypeOK, TypeOK
  <2>3. TypeOK' /\ QualityFits' /\ StoredSoFar' /\ Preset' = Preset
    BY <2>1 DEF estimator, PresetInv, EncoderTypeOK, TypeOK, QualityFits, StoredSoFar,
                Preset, Top
  <2>4. EncoderTypeOK'
    BY <1>2, <2>1, <2>2, <2>3 DEF LoadPreset, Load, PresetInv, EncoderTypeOK
  <2>5. LoadedSoFar'
    <3>1. SUFFICES ASSUME est = "idle", ~config.quality_changed
                   PROVE  LoadedSoFar'
      BY <2>1 DEF estimator, LoadedSoFar
    <3>2. /\ config.width = Preset.width /\ config.height = Preset.height
          /\ config.fps = Preset.fps
      BY <3>1 DEF PresetInv, StoredSoFar
    <3> QED
      BY <1>2, <2>2, <2>3, <3>1, <3>2 DEF LoadPreset, Load, PresetInv, LoadedSoFar
  <2>6. PresetNotLost'
    BY <1>2 DEF LoadPreset, Load, PresetNotLost
  <2> QED
    BY <2>3, <2>4, <2>5, <2>6 DEF PresetInv
<1>3. CASE Recreate \/ RecreateFails \/ UpdateBitrate \/ EncodeFrame
  <2>1. UNCHANGED estimator
    BY <1>3 DEF Recreate, RecreateFails, UpdateBitrate, EncodeFrame
  <2>2. TypeOK' /\ QualityFits' /\ StoredSoFar' /\ Preset' = Preset
    BY <2>1 DEF estimator, PresetInv, EncoderTypeOK, TypeOK, QualityFits, StoredSoFar,
                Preset, Top
  <2>3. EncoderTypeOK'
    BY <1>3, <2>2, BitrateNumbers
       DEF Recreate, RecreateFails, UpdateBitrate, EncodeFrame, PresetInv, EncoderTypeOK,
           TypeOK, Unloaded, Of, Size
  <2>4. LoadedSoFar' /\ PresetNotLost'
    BY <1>3, <2>1, <2>2
       DEF Recreate, RecreateFails, UpdateBitrate, EncodeFrame, estimator, PresetInv,
           LoadedSoFar, PresetNotLost, Of
  <2> QED
    BY <2>2, <2>3, <2>4 DEF PresetInv
<1> QED
  BY <1>1, <1>2, <1>3 DEF EncoderStep

LEMMA BandwidthInvariance == SpecBandwidth => []PresetInv
PROOF
<1>1. InitBandwidth => PresetInv
  BY PresetInit
<1>2. PresetInv /\ [NextBandwidth]_vars => PresetInv'
  <2> SUFFICES ASSUME PresetInv, [NextBandwidth]_vars
               PROVE  PresetInv'
    OBVIOUS
  <2>1. CASE Next /\ UNCHANGED encoder
    BY <2>1, EstimatorKeeps
  <2>2. CASE EncoderStep
    BY <2>2, EncoderKeeps
  <2>3. CASE UNCHANGED vars
    BY <2>3 DEF vars, estimator, encoder, PresetInv, EncoderTypeOK, TypeOK, QualityFits, StoredSoFar,
                LoadedSoFar, PresetNotLost, Preset, Of, Top
  <2> QED
    BY <2>1, <2>2, <2>3 DEF NextBandwidth
<1> QED
  BY <1>1, <1>2, PTL DEF SpecBandwidth

-------------------------------------------------------------------------------

\* Every bitrate stays within MIN_BITRATE_BPS and MAX_BITRATE_BPS and every preset
\* on the ladder, in the estimator and in what it stores for the encoder thread.
THEOREM TypeCorrect == SpecBandwidth => []TypeOK
PROOF
<1>1. PresetInv => TypeOK
  BY DEF PresetInv, EncoderTypeOK
<1> QED
  BY <1>1, BandwidthInvariance, PTL

\* The preset always fits the bitrate, whatever the ladder, if its rungs are further
\* apart than one event moves the bitrate: maybe_step_up_quality and
\* maybe_step_down_quality of the estimator, alone or with the encoder thread.
THEOREM PresetFits == (Spec => []QualityFits) /\ (SpecBandwidth => []QualityFits)
PROOF
<1>1. Spec => []QualityFits
  <2>1. Init => TypeOK /\ QualityFits
    BY EstimatorInit
  <2>2. TypeOK /\ QualityFits /\ [Next]_estimator => (TypeOK /\ QualityFits)'
    BY EstimatorStep
  <2> QED
    BY <2>1, <2>2, PTL DEF Spec
<1>2. SpecBandwidth => []QualityFits
  <2>1. PresetInv => QualityFits
    BY DEF PresetInv
  <2> QED
    BY <2>1, BandwidthInvariance, PTL
<1> QED
  BY <1>1, <1>2

\* A change of the preset is never lost, for every ladder and every interleaving of
\* the estimator's stores and the encoder's loads.
THEOREM ChangeNotLost == SpecBandwidth => []PresetNotLost
PROOF
<1>1. PresetInv => PresetNotLost
  BY DEF PresetInv
<1> QED
  BY <1>1, BandwidthInvariance, PTL
===============================================================================

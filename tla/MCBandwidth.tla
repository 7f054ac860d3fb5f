------------------------------ MODULE MCBandwidth ------------------------------
(* Estimator and encoder on a ladder of three rungs, with few bitrates around      *)
(* them.  Sizes differ in one dimension, so that width and fps can be mixed up.    *)
EXTENDS Bandwidth

SmallLadder ==
  << [width |-> 1, height |-> 1, fps |-> 10, rate |-> 2],
     [width |-> 2, height |-> 1, fps |-> 15, rate |-> 5],
     [width |-> 3, height |-> 1, fps |-> 15, rate |-> 10] >>

\* Slower than a frame interval never, at 15 frames a second, and always.
SendTimes == {50, 80, 120}

\* The program's own ladder, in kbit/s.
ProgramLadder ==
  << [width |-> 320, height |-> 240, fps |-> 10, rate |-> 100],
     [width |-> 480, height |-> 360, fps |-> 15, rate |-> 250],
     [width |-> 640, height |-> 480, fps |-> 15, rate |-> 500] >>

Program ==
  INSTANCE Estimator
    WITH Ladder <- ProgramLadder, MinBitrate <- 50, MaxBitrate <- 2000, IncreasePct <- 5

\* What the proofs assume holds for the program's constants.
ASSUME ProgramAssumption == Program!LadderAssumption /\ Program!SpacingAssumption
===============================================================================

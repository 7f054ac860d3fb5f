--------------------------------- MODULE AnnexB ---------------------------------
(***************************************************************************)
(* A video frame as bytes: NAL units behind start codes.  extract_annex_b  *)
(* (src/src/video_encode.rs) writes them, from what the encoder returns,   *)
(* and the receiver (src/src/video_decode.rs) takes them apart, parameter  *)
(* sets for the session and the others for the decoder.                    *)
(***************************************************************************)
EXTENDS Integers, Sequences, SequencesExt

StartCode == <<0, 0, 0, 1>>

\* What extract_annex_b writes for a sample: a keyframe has its parameter sets in front.
\* A sample's nals have no start code in them and do not end in a zero, by the rules of
\* HEVC; the encoder puts their lengths in front, hlen bytes for each.
AnnexBOf(sample) ==
  LET units == (IF sample.key THEN sample.params ELSE <<>>) \o sample.nals
  IN  FlattenSeq([i \in DOMAIN units |-> StartCode \o units[i]])

\* The length of what the encoder returns.
TotalLen(sample) ==
  FoldSeq(LAMBDA nal, n : n + sample.hlen + Len(nal), 0, sample.nals)

-------------------------------------------------------------------------------

At(s, i, code) == i + Len(code) - 1 <= Len(s) /\ SubSeq(s, i, i + Len(code) - 1) = code

\* The length of the start code at i, or 0.
CodeLen(s, i) ==
  CASE At(s, i, StartCode) -> 4
    [] At(s, i, Tail(StartCode)) -> 3
    [] OTHER -> 0

\* Where NAL units start: one of four bytes has one of three in it.
Starts(s) ==
  {i \in 1..Len(s) : CodeLen(s, i) > 0 /\ (i = 1 \/ CodeLen(s, i - 1) # 4)}

\* The NAL units of a stream, from behind a start code up to the next one.
Nalus(s) ==
  LET at    == SetToSortSeq(Starts(s), <) \o <<Len(s) + 1>>
      units == [k \in 1..Len(at) - 1 |-> SubSeq(s, at[k] + CodeLen(s, at[k]), at[k + 1] - 1)]
  IN  SelectSeq(units, LAMBDA nal : nal # <<>>)

\* Type 32, 33 and 34, in bits 1 to 6 of the first byte: the parameter sets.
IsParameterSet(nal) == Len(nal) >= 2 /\ (nal[1] \div 2) % 64 \in 32..34

ParameterSets(s) == SelectSeq(Nalus(s), IsParameterSet)

\* What is left for the decoder, each unit with its length in front.
Hvcc(s) == SelectSeq(Nalus(s), LAMBDA nal : Len(nal) >= 2 /\ ~IsParameterSet(nal))

\* Whether a session that was created with other parameter sets will do: the bytes of
\* the sets are compared, in a row.
ParamsMatch(params, s) == FlattenSeq(params) = FlattenSeq(ParameterSets(s))
===============================================================================

----------------------------- MODULE MCMediaStream -----------------------------
(* Frames and timestamps at the edges of the framing. *)
EXTENDS MediaStream

VPS == <<64, 1, 9>>
SPS == <<66, 1, 9>>
PPS == <<68, 1, 9>>

Frame(key, params, nals, hlen, ts) ==
  [key |-> key, params |-> params, nals |-> nals, hlen |-> hlen, ts |-> ts]

\* Two keyframes, of which the second has other parameter sets, a unit that is too short
\* and lengths shorter than start codes, and one that has more sets than there is room
\* for.
Keyframes ==
  { Frame(TRUE, <<VPS, SPS, PPS>>, << <<38, 1, 5>> >>, 4, <<63>> \o [i \in 1..7 |-> 255]),
    Frame(TRUE, <<VPS, <<66, 1, 8>>, PPS>>, << <<38>>, <<38, 1, 0, 0, 3, 1>> >>, 2, Wide(16384)),
    Frame(TRUE, <<VPS, SPS, PPS, PPS>>, << <<38, 1>> >>, 4, Wide(0)) }

\* Two units, the first byte of the first is 0, and 64 bytes with their start codes.
Delta ==
  Frame(FALSE, <<>>, << <<0, 1, 7>>, <<2, 1, 0, 1>> \o [i \in 1..49 |-> 7] >>, 4,
        Zeroes(4) \o <<64, 0, 0, 0>>)

\* Their timestamps are the first that need 4 and 8 bytes and the last of all; the first
\* number that needs 2 is the delta's length.
MCSamples == Keyframes \cup {Delta}

ASSUME MCSurvives == SurvivesAnnexB
===============================================================================

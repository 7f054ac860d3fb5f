-------------------------------- MODULE Framing --------------------------------
(***************************************************************************)
(* How media is laid out in bytes (src/src/protocol.rs): QUIC varints, the *)
(* subgroup header of a stream, its object with extension headers, and     *)
(* audio datagrams.  A byte is a number below 256, a u64 its eight bytes,  *)
(* the most significant one first.                                         *)
(*                                                                         *)
(* A decoder returns [ok |-> TRUE, value, rest], rest being the bytes      *)
(* behind the value, or Failed.                                            *)
(***************************************************************************)
EXTENDS Integers, Sequences

Byte == 0..255
U64  == [1..8 -> Byte]

Failed == [ok |-> FALSE]

Zeroes(n) == [i \in 1..n |-> 0]

\* bound: the numbers that are read or written by their value are below 2^31, as TLC's are
Number == {n \in Nat : ((n \div 256) \div 256) \div 256 < 128}

\* A number as a u64 and back.
Wide(n) ==
  LET n1 == n \div 256
      n2 == n1 \div 256
  IN  Zeroes(4) \o <<n2 \div 256, n2 % 256, n1 % 256, n % 256>>

Narrow(v) == 256 * (256 * (256 * v[5] + v[6]) + v[7]) + v[8]

-------------------------------------------------------------------------------
(* Varints: two bits for the width, 1, 2, 4 or 8 bytes, and the number. *)

\* Mutant: a width is used up to its last bit.
Fits_OffByOne(v, w) == SubSeq(v, 1, 8 - w) = Zeroes(8 - w) /\ v[9 - w] <= 64

\* The number leaves the two bits of the width free.
Fits(v, w) == SubSeq(v, 1, 8 - w) = Zeroes(8 - w) /\ v[9 - w] <= 63

Tag(w) == CASE w = 1 -> 0 [] w = 2 -> 64 [] w = 4 -> 128 [] w = 8 -> 192

\* The first width that fits, and eight bytes for whatever is left.
Width(v) == IF Fits(v, 1) THEN 1 ELSE IF Fits(v, 2) THEN 2 ELSE IF Fits(v, 4) THEN 4 ELSE 8

\* A number of more than 62 bits loses the two highest.
Varint(v) == <<Tag(Width(v)) + (v[9 - Width(v)] % 64)>> \o SubSeq(v, 10 - Width(v), 8)

Small(n) == Varint(Wide(n))

\* The same in three places: from a slice, from a stream, and from a stream whose
\* first byte has been read.
DecodeVarint(s) ==
  IF s = <<>> THEN Failed
  ELSE LET w == CHOOSE w \in {1, 2, 4, 8} : Tag(w) = 64 * (s[1] \div 64)
       IN  IF Len(s) < w THEN Failed
           ELSE [ok |-> TRUE,
                 value |-> Zeroes(8 - w) \o <<s[1] % 64>> \o SubSeq(s, 2, w),
                 rest |-> SubSeq(s, w + 1, Len(s))]

ReadVarint(s) == DecodeVarint(s)

-------------------------------------------------------------------------------
(* The header of a stream, and its object. *)

StreamTypeSubgroup == 4
TrackVideo == 1
PriorityVideo == 1
ExtCaptureTimestamp == 2
ExtCodec == 4
Hevc == 1
MaxExtensions == 64   \* the reader's buffer

SubgroupHeader(group_id, subgroup_id) ==
  Small(StreamTypeSubgroup) \o Small(TrackVideo) \o Varint(group_id) \o Varint(subgroup_id)
    \o <<PriorityVideo>>

\* Two varints in a row.
ReadPair(s) ==
  LET one == ReadVarint(s)
      two == ReadVarint(one.rest)
  IN  IF ~one.ok \/ ~two.ok THEN Failed
      ELSE [ok |-> TRUE, value |-> <<one.value, two.value>>, rest |-> two.rest]

ReadSubgroupHeader(s) ==
  LET stream == ReadPair(s)
      group  == ReadPair(stream.rest)
  IN  IF \/ ~stream.ok \/ ~group.ok
         \/ stream.value[1] # Wide(StreamTypeSubgroup) \/ group.rest = <<>>
        THEN Failed
        ELSE [ok |-> TRUE,
              value |-> [track_alias |-> stream.value[2], group_id |-> group.value[1],
                         subgroup_id |-> group.value[2], publisher_priority |-> group.rest[1]],
              rest |-> Tail(group.rest)]

ExtensionHeaders(ts, codec) ==
  Small(ExtCaptureTimestamp) \o Varint(ts) \o Small(ExtCodec) \o Small(codec)

\* Headers of an even type have a varint as their value, others a length and so many
\* bytes; those of another type than the two above are skipped.
ParseExtension(before) ==
  LET head  == ReadPair(before.rest)
      type  == Narrow(head.value[1])
      value == head.value[2]
  IN  IF ~head.ok THEN Failed
      ELSE CASE type = ExtCaptureTimestamp ->
                  [before EXCEPT !.value.ts = value, !.rest = head.rest]
             [] type = ExtCodec ->
                  [before EXCEPT !.value.codec = Narrow(value), !.rest = head.rest]
             [] type % 2 = 0 /\ type \notin {ExtCaptureTimestamp, ExtCodec} ->
                  [before EXCEPT !.rest = head.rest]
             [] type % 2 = 1 ->
                  IF Narrow(value) > Len(head.rest) THEN Failed
                  ELSE [before EXCEPT !.rest = SubSeq(head.rest, Narrow(value) + 1, Len(head.rest))]

\* Every header takes bytes of s, so that there are at most Len(s) of them.
ParseExtensions(s, vals) ==
  LET parsed[n \in 0..Len(s)] ==
        IF n = 0 THEN [ok |-> TRUE, value |-> vals, rest |-> s]
        ELSE LET before == parsed[n - 1]
             IN  IF ~before.ok \/ before.rest = <<>> THEN before ELSE ParseExtension(before)
  IN  parsed[Len(s)]

\* Mutant: the length counts what is announced with it.
WriteObject_LengthOff(ts, codec, payload) ==
  LET ext == ExtensionHeaders(ts, codec)
  IN  Small(0) \o Small(Len(ext)) \o ext \o Small(Len(payload) + 1) \o payload

\* The object with number 0, the only one of its stream.
WriteObject(ts, codec, payload) ==
  LET ext == ExtensionHeaders(ts, codec)
  IN  Small(0) \o Small(Len(ext)) \o ext \o Small(Len(payload)) \o payload

\* An object up to its payload, which the reader has room for when it knows the
\* length.  An empty payload is followed by a status, which WriteObject does not write:
\* the encoder has no empty frames.
ReadObjectHead(s) ==
  LET two  == ReadPair(s)
      len  == Narrow(two.value[2])
      vals == ParseExtensions(SubSeq(two.rest, 1, len), [ts |-> Zeroes(8), codec |-> -1])
      size == ReadVarint(SubSeq(two.rest, len + 1, Len(two.rest)))
  IN  CASE ~two.ok -> Failed
        [] two.ok /\ (len > MaxExtensions \/ len > Len(two.rest)) -> Failed
        [] OTHER ->
             IF ~vals.ok \/ ~size.ok THEN Failed
             ELSE [ok |-> TRUE, value |-> [ts |-> vals.value.ts, codec |-> vals.value.codec,
                             len |-> Narrow(size.value)],
                   rest |-> IF Narrow(size.value) > 0 THEN size.rest
                            ELSE ReadVarint(size.rest).rest]
===============================================================================

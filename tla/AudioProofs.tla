------------------------------- MODULE AudioProofs -------------------------------
(***************************************************************************)
(* The jitter buffer implements Playout: whatever the network does and     *)
(* however the clock offset moves, what it emits is in order; and its      *)
(* statistics add up.                                                      *)
(*                                                                         *)
(* Audio from the jitter buffer to the player, for every number of peers   *)
(* and every capacity of the channels: what is heard of a peer is in order *)
(* (HeardInOrder), and the mixer holds nothing back (MixerHoldsNothing).   *)
(*                                                                         *)
(* The frames of the peer are in order along the whole way, from the one   *)
(* that was heard last over the channels to those that the jitter buffer   *)
(* has emitted, of which nothing that it emits later is earlier.           *)
(***************************************************************************)
EXTENDS AudioPath, FiniteSetTheorems, TLAPS

-------------------------------------------------------------------------------
(* The jitter buffer. *)

\* Frames are queued after the first one has set the clock.
Clocked == queue # {} => clock_offset # None

IInv == TypeOK /\ Clocked /\ QueueInTurn /\ LastIsLast

USE DEF stats

\* The queue is finite, so that its parts can be counted.
LEMMA QueueFinite ==
  ASSUME TypeOK, NEW S \in SUBSET queue
  PROVE  Cardinality(S) \in Nat
<1>1. IsFiniteSet(0..now)
  BY FS_Interval DEF TypeOK
<1>2. IsFiniteSet(S)
  BY <1>1, FS_Subset DEF TypeOK
<1> QED BY <1>2, FS_CardinalityType

\* An offset that moves between two naturals is one.
LEMMA AdaptedNat ==
  ASSUME TypeOK, NEW ts \in captured
  PROVE  Adapted(ts) \subseteq Nat
<1>1. now - ts + TargetDelay \in Nat
  BY JitterAssumption DEF TypeOK
<1>2. CASE clock_offset = None
  BY <1>1, <1>2 DEF Adapted
<1>3. CASE clock_offset \in Nat
  <2>1. clock_offset # None
    BY <1>3, JitterAssumption
  <2> QED BY <1>1, <1>3, <2>1 DEF Adapted
<1> QED BY <1>2, <1>3 DEF TypeOK

\* A frame that is queued on arrival has its turn still to come.
LEMMA ArriveKeeps ==
  ASSUME IInv, NEW ts \in wire, Arrive(ts)
  PROVE  IInv'
<1> USE DEF IInv
<1>1. ts \in captured /\ ts \in Nat
  BY DEF TypeOK
<1>2. clock_offset' \in Nat
  BY <1>1, AdaptedNat DEF Arrive
<1>3. TypeOK'
  <2>1. queue' \subseteq captured'
    BY <1>1 DEF Arrive, TypeOK
  <2>2. dropped_late' \in Nat /\ dropped_duplicate' \in Nat /\ received' \in Nat
    BY DEF Arrive, TypeOK
  <2> QED BY <1>2, <2>1, <2>2 DEF Arrive, TypeOK
<1>4. QueueInTurn'
  <2> SUFFICES ASSUME NEW other \in queue', last_emitted # None
               PROVE  last_emitted < other
    BY DEF Arrive, QueueInTurn
  <2>1. CASE other \in queue
    BY <2>1 DEF QueueInTurn
  <2>2. CASE other \notin queue
    <3>1. other = ts /\ ~(ts <= last_emitted)
      BY <2>2 DEF Arrive, OutOfTurn
    <3>2. last_emitted \in Nat
      BY DEF TypeOK
    <3> QED BY <1>1, <3>1, <3>2
  <2> QED BY <2>1, <2>2
<1>5. LastIsLast'
  BY DEF Arrive, LastIsLast
<1>6. Clocked'
  BY <1>2, JitterAssumption DEF Clocked
<1> QED BY <1>3, <1>4, <1>5, <1>6

\* What is due comes before all that is not.
LEMMA DueFirst ==
  ASSUME IInv, NEW due \in Due, NEW other \in queue \ Due
  PROVE  due < other
<1>1. due \in Nat /\ other \in Nat /\ now \in Nat /\ clock_offset \in Nat
  BY DEF IInv, TypeOK, Due, Clocked
<1> QED BY <1>1 DEF Due

\* A batch that is played is later than all that was emitted, and what stays in the
\* queue is later than the batch.
LEMMA PlayKeeps ==
  ASSUME IInv, Play
  PROVE  IInv' /\ P!PlayoutNext
<1> DEFINE stale == {ts \in Due : TooLate(ts, clock_offset)}
           batch == Due \ stale
<1> USE DEF IInv
<1>1. /\ batch # {} /\ batch \subseteq Due /\ Due \subseteq queue
      /\ out' = Append(out, batch)
      /\ played' = played + Cardinality(batch)
      /\ dropped_late' = dropped_late + Cardinality(stale)
      /\ queue' = queue \ Due
      /\ UNCHANGED <<now, captured, wire, clock_offset, received, dropped_duplicate>>
  BY DEF Play, Due
<1>2. PICK last \in batch : (\A ts \in batch : ts <= last) /\ last_emitted' = last
  BY DEF Play
<1>3. /\ now \in Nat /\ queue \subseteq 0..now /\ out \in Seq(SUBSET (0..now))
      /\ last \in 0..now /\ last \in Due
  BY <1>1, <1>2 DEF TypeOK
<1>4. \A i \in DOMAIN out : \A old \in out[i], new \in batch : old < new
  <2> SUFFICES ASSUME NEW i \in DOMAIN out, NEW old \in out[i], NEW new \in batch
               PROVE  old < new
    OBVIOUS
  <2>1. last_emitted # None /\ old <= last_emitted
    BY DEF LastIsLast
  <2>2. last_emitted < new
    BY <1>1, <2>1 DEF QueueInTurn
  <2>3. old \in 0..now /\ new \in 0..now /\ last_emitted \in 0..now
    BY <1>1, <1>3, <2>1 DEF TypeOK
  <2> QED BY <2>1, <2>2, <2>3
<1>5. TypeOK'
  <2>1. Cardinality(batch) \in Nat /\ Cardinality(stale) \in Nat
    BY <1>1, QueueFinite DEF Due
  <2>2. batch \in SUBSET (0..now)
    BY <1>1, <1>3
  <2>3. out' \in Seq(SUBSET (0..now))
    BY <1>1, <1>3, <2>2
  <2>4. played' \in Nat /\ dropped_late' \in Nat
    BY <1>1, <2>1 DEF TypeOK
  <2>5. queue' \subseteq captured'
    BY <1>1 DEF TypeOK
  <2>6. last_emitted' \in 0..now
    BY <1>2, <1>3
  <2>7. now' = now
    BY <1>1
  <2> HIDE DEF batch, stale
  <2> QED BY <1>1, <2>3, <2>4, <2>5, <2>6, <2>7 DEF TypeOK
<1>6. Clocked'
  BY <1>1 DEF Clocked
<1>7. QueueInTurn'
  BY <1>1, <1>2, <1>3, DueFirst DEF QueueInTurn
<1>8. LastIsLast'
  <2> SUFFICES ASSUME NEW i \in DOMAIN out', NEW ts \in out'[i]
               PROVE  last_emitted' # None /\ ts <= last_emitted'
    BY DEF LastIsLast
  <2>1. last # None
    BY <1>3, JitterAssumption
  <2>2. CASE i \in DOMAIN out
    <3>1. out'[i] = out[i]
      BY <1>1, <1>3, <2>2
    <3>2. ts < last /\ ts \in 0..now
      BY <1>2, <1>3, <1>4, <2>2, <3>1
    <3> QED BY <1>2, <1>3, <2>1, <3>2
  <2>3. CASE i \notin DOMAIN out
    <3>1. out'[i] = batch
      BY <1>1, <1>3, <2>3
    <3> QED BY <1>2, <2>1, <3>1
  <2> QED BY <2>2, <2>3
<1>9. P!PlayoutNext
  <2>1. Len(out') > 0 /\ out'[Len(out')] = batch
    BY <1>1, <1>3
  <2> QED BY <1>1, <1>4, <2>1 DEF P!PlayoutNext, P!PutOut
<1> QED BY <1>5, <1>6, <1>7, <1>8, <1>9

\* A sentinel is later than all that was emitted, and what stays in the queue is later
\* than the sentinel, because it is due later.
LEMMA PlayNothingKeeps ==
  ASSUME IInv, PlayNothing
  PROVE  IInv' /\ [P!PlayoutNext]_out
<1> USE DEF IInv
<1>1. /\ queue' = queue \ Due
      /\ dropped_late' = dropped_late + Cardinality(Due)
      /\ UNCHANGED <<now, captured, wire, clock_offset, received, played, dropped_duplicate>>
  BY DEF PlayNothing
<1>2. dropped_late' \in Nat /\ queue' \subseteq captured' /\ queue' \subseteq queue
  <2>1. Cardinality(Due) \in Nat
    BY QueueFinite DEF Due
  <2>2. dropped_late \in Nat /\ queue \subseteq captured
    BY DEF TypeOK
  <2>3. dropped_late' \in Nat
    BY <1>1, <2>1, <2>2
  <2>4. queue' \subseteq queue
    BY <1>1
  <2> QED BY <1>1, <2>2, <2>3, <2>4
<1>3. CASE UNCHANGED <<last_emitted, out>>
  <2>1. TypeOK'
    BY <1>1, <1>2, <1>3 DEF TypeOK
  <2>2. Clocked' /\ QueueInTurn' /\ LastIsLast'
    BY <1>1, <1>2, <1>3 DEF Clocked, QueueInTurn, LastIsLast
  <2> QED BY <1>3, <2>1, <2>2
<1>4. CASE Conceal
  <2>1. /\ last_emitted \in 0..now /\ clock_offset \in Nat /\ now \in Nat
        /\ Sentinel \in 0..now /\ last_emitted < Sentinel
        /\ Sentinel + clock_offset <= now
        /\ last_emitted' = Sentinel
        /\ out' = Append(out, {Sentinel})
    <3>1. /\ last_emitted \in 0..now /\ clock_offset \in Nat /\ now \in Nat
          /\ Sentinel + clock_offset <= now
      BY <1>4 DEF Conceal, Missing, TypeOK
    <3> QED BY <1>4, <3>1, JitterAssumption DEF Conceal, Sentinel
  <2>2. out \in Seq(SUBSET (0..now))
    BY DEF TypeOK
  <2>3. \A i \in DOMAIN out : \A old \in out[i] : old < Sentinel
    <3> SUFFICES ASSUME NEW i \in DOMAIN out, NEW old \in out[i]
                 PROVE  old < Sentinel
      OBVIOUS
    <3>1. old <= last_emitted /\ old \in 0..now
      BY <2>2 DEF LastIsLast
    <3> QED BY <2>1, <3>1
  <2>4. TypeOK'
    <3>1. out' \in Seq(SUBSET (0..now))
      BY <2>1, <2>2
    <3> QED BY <1>1, <1>2, <2>1, <3>1 DEF TypeOK
  <2>5. Clocked'
    BY <1>1, <1>2 DEF Clocked
  <2>6. QueueInTurn'
    <3> SUFFICES ASSUME NEW ts \in queue \ Due
                 PROVE  Sentinel < ts
      BY <1>1, <2>1 DEF QueueInTurn
    <3>1. ts \in Nat /\ ~(now >= ts + clock_offset)
      BY DEF Due, TypeOK
    <3> QED BY <2>1, <3>1
  <2>7. LastIsLast'
    <3> SUFFICES ASSUME NEW i \in DOMAIN out', NEW ts \in out'[i]
                 PROVE  last_emitted' # None /\ ts <= last_emitted'
      BY DEF LastIsLast
    <3>1. Sentinel # None
      BY <2>1, JitterAssumption
    <3>2. CASE i \in DOMAIN out
      <4>1. out'[i] = out[i] /\ out[i] \subseteq 0..now
        BY <2>1, <2>2, <3>2
      <4>2. ts < Sentinel /\ ts \in 0..now
        BY <2>3, <3>2, <4>1
      <4> QED BY <2>1, <3>1, <4>2
    <3>3. CASE i \notin DOMAIN out
      <4>1. out'[i] = {Sentinel}
        BY <2>1, <2>2, <3>3
      <4> QED BY <2>1, <3>1, <4>1
    <3> QED BY <3>2, <3>3
  <2>8. P!PlayoutNext
    <3>1. Len(out') > 0 /\ out'[Len(out')] = {Sentinel}
      BY <2>1, <2>2
    <3> QED BY <2>1, <2>3, <3>1 DEF P!PlayoutNext, P!PutOut
  <2> QED BY <2>4, <2>5, <2>6, <2>7, <2>8
<1> QED BY <1>3, <1>4 DEF PlayNothing

LEMMA InitIInv == Init => IInv
BY JitterAssumption DEF Init, IInv, TypeOK, Clocked, QueueInTurn, LastIsLast

\* Every step keeps the invariant, and puts something out in order or nothing.
LEMMA StepKeeps ==
  ASSUME IInv, [Next]_vars
  PROVE  IInv' /\ [P!PlayoutNext]_out
<1>1. CASE Elapse
  <2>1. now \in 0..MaxTime /\ now' = now + 1 /\ now' \in 0..MaxTime
    BY <1>1, JitterAssumption DEF Elapse, IInv, TypeOK
  <2>2. 0..now \subseteq 0..now'
    BY <2>1
  <2>3. out \in Seq(SUBSET (0..now'))
    BY <2>2 DEF IInv, TypeOK
  <2> QED BY <1>1, <2>1, <2>2, <2>3
          DEF Elapse, IInv, TypeOK, Clocked, QueueInTurn, LastIsLast
<1>2. CASE Capture
  <2>1. now \in 0..now
    BY DEF IInv, TypeOK
  <2> QED BY <1>2, <2>1 DEF Capture, IInv, TypeOK, Clocked, QueueInTurn, LastIsLast
<1>3. CASE Play
  BY <1>3, PlayKeeps
<1>4. CASE PlayNothing
  BY <1>4, PlayNothingKeeps
<1>5. ASSUME NEW ts \in wire, Lose(ts)
      PROVE  IInv' /\ [P!PlayoutNext]_out
  BY <1>5 DEF Lose, IInv, TypeOK, Clocked, QueueInTurn, LastIsLast
<1>6. ASSUME NEW ts \in wire, Arrive(ts)
      PROVE  IInv' /\ [P!PlayoutNext]_out
  BY <1>6, ArriveKeeps DEF Arrive
<1>7. CASE UNCHANGED vars
  BY <1>7 DEF vars, IInv, TypeOK, Clocked, QueueInTurn, LastIsLast
<1> QED BY <1>1, <1>2, <1>3, <1>4, <1>5, <1>6, <1>7 DEF Next

LEMMA Invariance == Spec => []IInv
<1>1. IInv /\ [Next]_vars => IInv'
  BY StepKeeps
<1> QED BY <1>1, InitIInv, PTL DEF Spec

-------------------------------------------------------------------------------
(* The statistics.  That a frame is counted once rests on its datagram: while that is *)
(* on the wire the frame is not in the queue, and none is captured twice.             *)

Apart == wire \cap queue = {}

CountInv == IInv /\ Apart /\ Accounted

\* The queue and what is due of it are finite, and counting can be done by parts.
LEMMA CountedByParts ==
  ASSUME TypeOK, NEW stale \in SUBSET Due
  PROVE  /\ Cardinality(queue) \in Nat /\ Cardinality(queue \ Due) \in Nat
         /\ Cardinality(Due) \in Nat /\ Cardinality(stale) \in Nat
         /\ Cardinality(Due \ stale) \in Nat
         /\ Cardinality(queue) = Cardinality(queue \ Due) + Cardinality(Due)
         /\ Cardinality(Due) = Cardinality(Due \ stale) + Cardinality(stale)
<1>1. IsFiniteSet(0..now) /\ queue \subseteq 0..now /\ Due \subseteq queue
  BY FS_Interval DEF TypeOK, Due
<1>2. IsFiniteSet(queue) /\ IsFiniteSet(Due) /\ queue \cap Due = Due /\ Due \cap stale = stale
  BY <1>1, FS_Subset
<1>3. /\ Cardinality(queue \ Due) = Cardinality(queue) - Cardinality(queue \cap Due)
      /\ Cardinality(Due \ stale) = Cardinality(Due) - Cardinality(Due \cap stale)
  <2>1. Cardinality(queue \ Due) = Cardinality(queue) - Cardinality(queue \cap Due)
    BY <1>2, FS_Difference
  <2>2. Cardinality(Due \ stale) = Cardinality(Due) - Cardinality(Due \cap stale)
    BY <1>2, FS_Difference
  <2> QED BY <2>1, <2>2
<1>4. /\ Cardinality(queue) \in Nat /\ Cardinality(queue \ Due) \in Nat
      /\ Cardinality(Due) \in Nat
      /\ Cardinality(stale) \in Nat /\ Cardinality(Due \ stale) \in Nat
  BY <1>1, QueueFinite
<1>5. /\ Cardinality(queue \cap Due) = Cardinality(Due)
      /\ Cardinality(Due \cap stale) = Cardinality(stale)
  BY <1>2
<1> QED BY <1>3, <1>4, <1>5

LEMMA ArriveCounts ==
  ASSUME CountInv, NEW ts \in wire, Arrive(ts)
  PROVE  Apart' /\ Accounted'
<1>1. IsFiniteSet(queue) /\ Cardinality(queue) \in Nat
  <2>1. IsFiniteSet(0..now) /\ queue \subseteq 0..now
    BY FS_Interval DEF CountInv, IInv, TypeOK
  <2> QED BY <2>1, FS_Subset, FS_CardinalityType
<1>2. Cardinality(queue \cup {ts}) = Cardinality(queue) + 1
  <2>1. ts \notin queue
    BY DEF CountInv, Apart
  <2> QED BY <1>1, <2>1, FS_AddElement
<1>3. /\ received \in Nat /\ played \in Nat /\ dropped_late \in Nat /\ dropped_duplicate \in Nat
      /\ received = played + dropped_late + dropped_duplicate + Cardinality(queue)
  BY DEF CountInv, IInv, TypeOK, Accounted
<1>4. Apart'
  BY DEF Arrive, CountInv, Apart
<1>5. Accounted'
  <2>1. received' = received + 1 /\ played' = played
    BY DEF Arrive
  <2>2. CASE dropped_late' = dropped_late + 1 /\ UNCHANGED <<queue, dropped_duplicate>>
    BY <1>1, <1>3, <2>1, <2>2 DEF Accounted
  <2>3. CASE dropped_duplicate' = dropped_duplicate + 1 /\ UNCHANGED <<queue, dropped_late>>
    BY <1>1, <1>3, <2>1, <2>3 DEF Accounted
  <2>4. CASE queue' = queue \cup {ts} /\ UNCHANGED <<dropped_late, dropped_duplicate>>
    BY <1>1, <1>2, <1>3, <2>1, <2>4 DEF Accounted
  <2> QED BY <2>2, <2>3, <2>4 DEF Arrive
<1> QED BY <1>4, <1>5

LEMMA PlayCounts ==
  ASSUME CountInv, Play \/ PlayNothing
  PROVE  Apart' /\ Accounted'
<1>1. TypeOK /\ Accounted /\ Apart
  BY DEF CountInv, IInv
<1>2. Apart'
  BY <1>1 DEF Play, PlayNothing, Apart
<1>3. /\ received \in Nat /\ played \in Nat /\ dropped_late \in Nat /\ dropped_duplicate \in Nat
  BY <1>1 DEF TypeOK
<1>4. CASE Play
  <2> DEFINE stale == {ts \in Due : TooLate(ts, clock_offset)}
  <2>1. /\ queue' = queue \ Due /\ UNCHANGED <<received, dropped_duplicate>>
        /\ played' = played + Cardinality(Due \ stale)
        /\ dropped_late' = dropped_late + Cardinality(stale)
    BY <1>4 DEF Play
  <2>2. stale \in SUBSET Due
    OBVIOUS
  <2> HIDE DEF stale
  <2>3. /\ Cardinality(stale) \in Nat /\ Cardinality(Due \ stale) \in Nat
        /\ Cardinality(queue \ Due) \in Nat
        /\ Cardinality(Due) \in Nat
        /\ Cardinality(queue) = Cardinality(queue \ Due) + Cardinality(Due)
        /\ Cardinality(Due) = Cardinality(Due \ stale) + Cardinality(stale)
    BY <1>1, <2>2, CountedByParts
  <2> QED BY <1>1, <1>2, <1>3, <2>1, <2>3 DEF Accounted
<1>5. CASE PlayNothing
  <2>1. /\ queue' = queue \ Due /\ UNCHANGED <<received, played, dropped_duplicate>>
        /\ dropped_late' = dropped_late + Cardinality(Due)
    BY <1>5 DEF PlayNothing
  <2>2. /\ Cardinality(Due) \in Nat /\ Cardinality(queue \ Due) \in Nat
        /\ Cardinality(queue) = Cardinality(queue \ Due) + Cardinality(Due)
    BY <1>1, CountedByParts
  <2> QED BY <1>1, <1>2, <1>3, <2>1, <2>2 DEF Accounted
<1> QED BY <1>4, <1>5

LEMMA StepCounts ==
  ASSUME CountInv, [Next]_vars
  PROVE  CountInv'
<1>1. IInv'
  BY StepKeeps DEF CountInv
<1>2. CASE Play \/ PlayNothing
  BY <1>1, <1>2, PlayCounts DEF CountInv
<1>3. CASE \E ts \in wire : Arrive(ts)
  BY <1>1, <1>3, ArriveCounts DEF CountInv
<1>4. CASE Capture
  <2>1. now \notin queue
    BY <1>4 DEF Capture, CountInv, IInv, TypeOK
  <2> QED BY <1>1, <1>4, <2>1 DEF Capture, CountInv, Apart, Accounted
<1>5. CASE Elapse \/ (\E ts \in wire : Lose(ts)) \/ UNCHANGED vars
  BY <1>1, <1>5 DEF Elapse, Lose, vars, CountInv, Apart, Accounted
<1> QED BY <1>2, <1>3, <1>4, <1>5 DEF Next

LEMMA InitCounts == Init => CountInv
<1> SUFFICES ASSUME Init
             PROVE  CountInv
  OBVIOUS
<1>1. Cardinality(queue) = 0
  BY FS_EmptySet DEF Init
<1>2. Accounted /\ Apart
  BY <1>1 DEF Init, Accounted, Apart
<1> QED BY <1>2, InitIInv DEF CountInv

\* JitterStats add up: what was received is played, dropped late, dropped as out of
\* turn or still in the queue.
THEOREM StatisticsAddUp == Spec => []Accounted
<1>1. CountInv /\ [Next]_vars => CountInv'
  BY StepCounts
<1>2. CountInv => Accounted
  BY DEF CountInv
<1> QED BY <1>1, <1>2, InitCounts, PTL DEF Spec

-------------------------------------------------------------------------------

\* Every reachable state of the jitter buffer is well typed: no frame or sentinel is
\* put out before its time has come.
THEOREM TypeCorrect == Spec => []TypeOK
BY Invariance, PTL DEF IInv

\* Nothing that waits in the queue is out of turn, also after a sentinel.
THEOREM InTurn == Spec => []QueueInTurn
BY Invariance, PTL DEF IInv

\* The jitter buffer implements Playout: what run_jitter_buffer emits is in order.
THEOREM Implements == Spec => InOrder
<1>1. Init => P!PlayoutInit
  BY DEF Init, P!PlayoutInit
<1>2. IInv /\ [Next]_vars => [P!PlayoutNext]_out
  BY StepKeeps
<1> QED BY <1>1, <1>2, Invariance, PTL DEF Spec, InOrder, P!PlayoutSpec
-------------------------------------------------------------------------------
(* From the jitter buffer to the player. *)

Peers == Others \cup {peer}

\* Where the frames of the peer are.
Heard    == {heard} \ {None}
ToPlay   == {ts \in Nat : \E i \in 1..Len(playback) : playback[i] = {<<peer, ts>>}}
ToMix    == {ts \in Nat : \E i \in 1..Len(mixing) : mixing[i] = <<peer, ts>>}
ToDecode == {decoding[i] : i \in 1..Len(decoding)}

\* What the jitter buffer has emitted.
Emitted == UNION {out[i] : i \in 1..Len(out)}

AudioTypes ==
  /\ decoding \in Seq(Nat)
  /\ mixing \in Seq(Peers \X Nat)
  /\ playback \in Seq({{m} : m \in Peers \X Nat})
  /\ buffers = [p \in Peers |-> <<>>]
  /\ heard \in Nat \cup {None}
  /\ fed \in [Peers -> Nat]

\* Each of the channels is in order.
DecodingInOrder ==
  \A i, j \in 1..Len(decoding) : i < j => decoding[i] < decoding[j]
MixingInOrder ==
  \A i, j \in 1..Len(mixing) : \A ts, later \in Nat :
    i < j /\ mixing[i] = <<peer, ts>> /\ mixing[j] = <<peer, later>> => ts < later
PlaybackInOrder ==
  \A i, j \in 1..Len(playback) : \A ts, later \in Nat :
    i < j /\ playback[i] = {<<peer, ts>>} /\ playback[j] = {<<peer, later>>} => ts < later
ChannelsInOrder == DecodingInOrder /\ MixingInOrder /\ PlaybackInOrder

\* What is further on its way is earlier.
WayInOrder ==
  /\ \A ts \in Heard  : \A later \in ToPlay \cup ToMix \cup ToDecode : ts < later
  /\ \A ts \in ToPlay : \A later \in ToMix \cup ToDecode : ts < later
  /\ \A ts \in ToMix  : \A later \in ToDecode : ts < later
  /\ Heard \cup ToPlay \cup ToMix \cup ToDecode \subseteq Emitted

AudioInv == IInv /\ AudioTypes /\ ChannelsInOrder /\ WayInOrder

USE AudioAssumption

-------------------------------------------------------------------------------
(* A batch as a sequence, and a channel. *)

\* There is an ascending sequence of the elements of a finite set of naturals: each in the
\* place that is the number of those up to it.
LEMMA AscendingIs ==
  ASSUME NEW bound \in Nat, NEW batch \in SUBSET (0..bound)
  PROVE  /\ Ascending(batch) \in Seq(batch)
         /\ \A i, j \in 1..Len(Ascending(batch)) :
              i < j => Ascending(batch)[i] < Ascending(batch)[j]
<1> DEFINE n == Cardinality(batch)
           upTo(ts) == {other \in batch : other <= ts}
           rank == [ts \in batch |-> Cardinality(upTo(ts))]
<1>1. IsFiniteSet(batch) /\ n \in Nat
  <2>1. IsFiniteSet(0..bound)
    BY FS_Interval
  <2> QED BY <2>1, FS_Subset, FS_CardinalityType
<1>2. IsFiniteSet(1..n) /\ Cardinality(1..n) = n
  BY <1>1, FS_Interval
<1>3. ASSUME NEW ts \in batch
      PROVE  /\ IsFiniteSet(upTo(ts)) /\ upTo(ts) \in SUBSET batch
             /\ rank[ts] = Cardinality(upTo(ts)) /\ rank[ts] \in 1..n
  <2>1. upTo(ts) \in SUBSET batch
    OBVIOUS
  <2>2. /\ IsFiniteSet(upTo(ts)) /\ Cardinality(upTo(ts)) \in Nat /\ Cardinality(upTo(ts)) <= n
    BY <1>1, <2>1, FS_Subset, FS_CardinalityType
  <2>3. ts \in upTo(ts)
    OBVIOUS
  <2>4. Cardinality(upTo(ts)) # 0
    BY <2>2, <2>3, FS_EmptySet
  <2>5. rank[ts] = Cardinality(upTo(ts))
    OBVIOUS
  <2> HIDE DEF upTo, rank, n
  <2> QED BY <1>1, <2>1, <2>2, <2>4, <2>5
<1>4. ASSUME NEW ts \in batch, NEW later \in batch, ts < later
      PROVE  rank[ts] < rank[later]
  <2>1. upTo(ts) \in SUBSET upTo(later) /\ later \in upTo(later) /\ later \notin upTo(ts)
    <3>1. \A other \in batch : other \in Nat
      OBVIOUS
    <3>2. ts \in Nat /\ later \in Nat /\ ~(later <= ts) /\ later <= later
      BY <1>4, <3>1
    <3>3. \A other \in batch : other <= ts => other <= later
      BY <1>4, <3>1, <3>2
    <3> QED BY <3>2, <3>3
  <2>2. /\ IsFiniteSet(upTo(later)) /\ rank[ts] = Cardinality(upTo(ts)) /\ rank[ts] \in 1..n
        /\ rank[later] = Cardinality(upTo(later)) /\ rank[later] \in 1..n
    BY <1>3
  <2> HIDE DEF upTo, rank, n
  <2>3. /\ Cardinality(upTo(ts)) <= Cardinality(upTo(later))
        /\ Cardinality(upTo(ts)) # Cardinality(upTo(later))
    BY <2>1, <2>2, FS_Subset
  <2> QED BY <1>1, <2>2, <2>3
<1>5. \A place \in 1..n : \E ts \in batch : rank[ts] = place
  <2>1. rank \in [batch -> 1..n]
    <3>1. rank = [ts \in batch |-> rank[ts]]
      OBVIOUS
    <3> HIDE DEF rank
    <3> QED BY <1>3, <3>1
  <2>2. \A ts, other \in batch : rank[ts] = rank[other] => ts = other
    <3> SUFFICES ASSUME NEW ts \in batch, NEW other \in batch, ts # other
                 PROVE  rank[ts] # rank[other]
      OBVIOUS
    <3>1. ts < other \/ other < ts
      OBVIOUS
    <3>2. rank[ts] \in 1..n /\ rank[other] \in 1..n
      BY <1>3
    <3> HIDE DEF rank, n
    <3> QED BY <1>1, <1>4, <3>1, <3>2
  <2> HIDE DEF rank, n
  <2>3. rank \in Injection(batch, 1..n)
    BY <2>1, <2>2 DEF Injection, IsInjective
  <2>4. rank \in Surjection(batch, 1..n)
    BY <1>2, <2>3, FS_Injection DEF n
  <2> QED BY <2>4 DEF Surjection
<1> DEFINE at == [i \in 1..n |-> CHOOSE ts \in batch : rank[ts] = i]
<1> HIDE DEF rank
<1>6. \A i \in 1..n : at[i] \in batch /\ rank[at[i]] = i
  BY <1>5
<1>7. at \in [1..n -> batch]
  BY <1>6
<1>8. \A i, j \in DOMAIN at : i < j => at[i] < at[j]
  <2> SUFFICES ASSUME NEW i \in 1..n, NEW j \in 1..n, i < j
               PROVE  at[i] < at[j]
    OBVIOUS
  <2>1. at[i] \in batch /\ at[j] \in batch /\ rank[at[i]] = i /\ rank[at[j]] = j
    BY <1>6
  <2> HIDE DEF at
  <2>2. ~(at[j] < at[i]) /\ at[i] # at[j]
    <3>1. i \in Int /\ j \in Int /\ ~(j < i) /\ i # j
      BY <1>1
    <3> QED BY <1>4, <2>1, <3>1
  <2>3. at[i] \in Nat /\ at[j] \in Nat
    <3>1. \A ts \in batch : ts \in Nat
      OBVIOUS
    <3> QED BY <2>1, <3>1
  <2> QED BY <2>2, <2>3
<1> HIDE DEF at
<1>9. /\ Ascending(batch) \in [1..n -> batch]
      /\ \A i, j \in DOMAIN Ascending(batch) :
           i < j => Ascending(batch)[i] < Ascending(batch)[j]
  BY <1>7, <1>8 DEF Ascending
<1> HIDE DEF n
<1> QED BY <1>1, <1>9

\* Of what is sent to a channel it takes what it has room for, and no other.
LEMMA TrySendIs ==
  ASSUME NEW S, NEW channel \in Seq(S), NEW frames \in Seq(S), NEW cap \in Nat
  PROVE  LET after == TrySend(channel, frames, cap)
         IN  /\ after \in Seq(S)
             /\ \A i \in 1..Len(after) :
                  \/ i \in 1..Len(channel) /\ after[i] = channel[i]
                  \/ /\ i \notin 1..Len(channel)
                     /\ i - Len(channel) \in 1..Len(frames)
                     /\ after[i] = frames[i - Len(channel)]
<1> DEFINE all == channel \o frames
           n   == IF Len(all) < cap THEN Len(all) ELSE cap
<1>1. /\ Len(channel) \in Nat /\ Len(frames) \in Nat
      /\ all \in Seq(S) /\ Len(all) = Len(channel) + Len(frames)
      /\ \A i \in 1..Len(all) : all[i] = IF i <= Len(channel) THEN channel[i]
                                         ELSE frames[i - Len(channel)]
  OBVIOUS
<1>2. n \in Nat /\ n <= Len(all) /\ TrySend(channel, frames, cap) = SubSeq(all, 1, n)
  BY <1>1 DEF TrySend
<1> HIDE DEF all, n
<1>3. /\ SubSeq(all, 1, n) \in Seq(S) /\ Len(SubSeq(all, 1, n)) = n
      /\ \A i \in 1..n : SubSeq(all, 1, n)[i] = all[i]
  BY <1>1, <1>2
<1> QED BY <1>1, <1>2, <1>3
-------------------------------------------------------------------------------

LEMMA AudioInitInv == AudioInit => AudioInv
<1> SUFFICES ASSUME AudioInit
             PROVE  AudioInv
  OBVIOUS
<1>1. IInv
  BY InitIInv DEF AudioInit
<1>2. /\ decoding = <<>> /\ mixing = <<>> /\ playback = <<>> /\ heard = None
      /\ Len(decoding) = 0 /\ Len(mixing) = 0 /\ Len(playback) = 0
  BY DEF AudioInit
<1>3. AudioTypes
  BY <1>2 DEF AudioInit, AudioTypes, Peers
<1>4. 1..Len(decoding) = {} /\ 1..Len(mixing) = {} /\ 1..Len(playback) = {}
  BY <1>2
<1>5. ChannelsInOrder /\ WayInOrder
  BY <1>2, <1>4
     DEF ChannelsInOrder, DecodingInOrder, MixingInOrder, PlaybackInOrder, WayInOrder,
         Heard, ToPlay, ToMix, ToDecode
<1> QED BY <1>1, <1>3, <1>5 DEF AudioInv

\* Nothing becomes of the jitter buffer and what it has emitted.
LEMMA JitterKept ==
  ASSUME AudioInv, UNCHANGED vars
  PROVE  IInv' /\ Emitted' = Emitted
BY StepKeeps DEF AudioInv, vars, Emitted

\* What is emitted is later than everything that was emitted before.
LEMMA JitterStepKeeps ==
  ASSUME AudioInv, JitterStep
  PROVE  AudioInv'
<1>1. IInv' /\ [P!PlayoutNext]_out
  BY StepKeeps DEF AudioInv, JitterStep
<1>2. UNCHANGED <<mixing, buffers, playback, fed, mixed, heard>>
  BY DEF JitterStep, mixVars
<1>3. AudioTypes /\ ChannelsInOrder /\ WayInOrder
  BY DEF AudioInv
<1>4. UNCHANGED <<Heard, ToPlay, ToMix>>
  BY <1>2 DEF Heard, ToPlay, ToMix
<1>5. MixingInOrder' /\ PlaybackInOrder'
  <2>1. mixing' = mixing /\ playback' = playback
    BY <1>2
  <2>2. MixingInOrder'
    BY <1>3, <2>1 DEF ChannelsInOrder, MixingInOrder
  <2>3. PlaybackInOrder'
    BY <1>3, <2>1 DEF ChannelsInOrder, PlaybackInOrder
  <2> QED BY <2>2, <2>3
<1>6. CASE out' = out
  <2>1. decoding' = decoding
    BY <1>6 DEF JitterStep
  <2>2. UNCHANGED <<ToDecode, Emitted>>
    BY <1>6, <2>1 DEF ToDecode, Emitted
  <2>3. AudioTypes'
    BY <1>2, <1>3, <2>1 DEF AudioTypes
  <2>4. ChannelsInOrder'
    <3>1. DecodingInOrder'
      BY <1>3, <2>1 DEF ChannelsInOrder, DecodingInOrder
    <3> QED BY <1>5, <3>1 DEF ChannelsInOrder
  <2>5. WayInOrder'
    BY <1>3, <1>4, <2>2 DEF WayInOrder
  <2> QED BY <1>1, <2>3, <2>4, <2>5 DEF AudioInv
<1>7. CASE out' # out
  <2> DEFINE batch  == out'[Len(out')]
             frames == Ascending(batch)
  <2>1. P!PutOut(batch) /\ out \in Seq(SUBSET (0..now)) /\ now \in Nat
    BY <1>1, <1>7 DEF P!PlayoutNext, AudioInv, IInv, TypeOK
  <2>2. /\ out' = Append(out, batch)
        /\ \A i \in DOMAIN out : \A old \in out[i], new \in batch : old < new
    BY <2>1 DEF P!PutOut
  <2>3. batch \in SUBSET (0..now') /\ now' \in Nat
    <3>1. out' \in Seq(SUBSET (0..now')) /\ Len(out') > 0 /\ now' \in Nat
      BY <1>1, <1>7 DEF P!PlayoutNext, IInv, TypeOK
    <3> QED BY <3>1
  <2>4. decoding' = TrySend(decoding, frames, DecodeCap)
    BY <1>7 DEF JitterStep
  <2> HIDE DEF batch
  <2>5. Emitted' = Emitted \cup batch
    <3>1. /\ Len(out) \in Nat /\ Len(out') = Len(out) + 1 /\ out'[Len(out) + 1] = batch
          /\ \A i \in 1..Len(out) : out'[i] = out[i]
      BY <2>1, <2>2
    <3>2. 1..Len(out') = 1..Len(out) \cup {Len(out) + 1}
      BY <3>1
    <3> QED BY <3>1, <3>2 DEF Emitted
  <2>6. \A old \in Emitted, new \in batch : old < new
    BY <2>1, <2>2 DEF Emitted
  <2>7. /\ frames \in Seq(batch) /\ frames \in Seq(Nat) /\ decoding \in Seq(Nat)
        /\ \A i, j \in 1..Len(frames) : i < j => frames[i] < frames[j]
    <3>1. /\ frames \in Seq(batch)
          /\ \A i, j \in 1..Len(frames) : i < j => frames[i] < frames[j]
      BY <2>3, AscendingIs
    <3> HIDE DEF frames
    <3>2. frames \in Seq(Nat)
      <4>1. \A ts \in batch : ts \in Nat
        BY <2>3
      <4>2. frames = [i \in 1..Len(frames) |-> frames[i]] /\ Len(frames) \in Nat
        BY <3>1
      <4>3. \A i \in 1..Len(frames) : frames[i] \in batch
        BY <3>1
      <4>4. \A i \in 1..Len(frames) : frames[i] \in Nat
        BY <4>1, <4>3
      <4>5. frames \in [1..Len(frames) -> Nat]
        BY <4>2, <4>4
      <4> QED BY <4>2, <4>5
    <3> QED BY <1>3, <3>1, <3>2 DEF AudioTypes
  <2> HIDE DEF frames
  <2>8. /\ decoding' \in Seq(Nat) /\ Len(decoding) \in Nat
        /\ \A i \in 1..Len(decoding') :
             \/ i \in 1..Len(decoding) /\ decoding'[i] = decoding[i]
             \/ /\ i \notin 1..Len(decoding)
                /\ i - Len(decoding) \in 1..Len(frames)
                /\ decoding'[i] = frames[i - Len(decoding)]
    BY <2>4, <2>7, TrySendIs
  <2>9. \A i \in 1..Len(frames) : frames[i] \in batch
    BY <2>7
  <2>10. ToDecode' \subseteq ToDecode \cup batch
    <3>1. \A i \in 1..Len(decoding') : decoding'[i] \in ToDecode \cup batch
      BY <2>8, <2>9 DEF ToDecode
    <3> QED BY <3>1 DEF ToDecode
  <2>11. AudioTypes'
    BY <1>2, <1>3, <2>8 DEF AudioTypes
  <2>12. ChannelsInOrder'
    <3> SUFFICES ASSUME NEW i \in 1..Len(decoding'), NEW j \in 1..Len(decoding'), i < j
                 PROVE  decoding'[i] < decoding'[j]
      BY <1>5 DEF ChannelsInOrder, DecodingInOrder
    <3>1. CASE i \in 1..Len(decoding) /\ j \in 1..Len(decoding)
      BY <1>3, <2>8, <3>1 DEF ChannelsInOrder, DecodingInOrder
    <3>2. CASE i \in 1..Len(decoding) /\ j \notin 1..Len(decoding)
      <4>1. decoding'[i] \in ToDecode /\ decoding'[j] \in batch
        BY <2>8, <2>9, <3>2 DEF ToDecode
      <4> QED BY <1>3, <2>6, <4>1 DEF WayInOrder
    <3>3. CASE i \notin 1..Len(decoding)
      <4>1. /\ i \in Nat /\ j \in Nat /\ j \notin 1..Len(decoding)
            /\ i - Len(decoding) < j - Len(decoding)
        BY <2>8, <3>3
      <4> QED BY <2>7, <2>8, <3>3, <4>1
    <3> QED BY <3>1, <3>2, <3>3
  <2>13. WayInOrder'
    <3>1. Heard \cup ToPlay \cup ToMix \cup ToDecode \subseteq Emitted
      BY <1>3 DEF WayInOrder
    <3>2. \A ts \in Heard \cup ToPlay \cup ToMix : \A later \in batch : ts < later
      BY <2>6, <3>1
    <3> QED BY <1>3, <1>4, <2>5, <2>10, <3>1, <3>2 DEF WayInOrder
  <2> QED BY <1>1, <2>11, <2>12, <2>13 DEF AudioInv
<1> QED BY <1>6, <1>7

\* The first frame of the decoder's channel becomes the last of the mixer's.
LEMMA DecodeAudioKeeps ==
  ASSUME AudioInv, DecodeAudio
  PROVE  AudioInv'
<1> DEFINE frame == Head(decoding)
<1>1. /\ IInv' /\ Emitted' = Emitted
      /\ UNCHANGED <<buffers, playback, fed, mixed, heard>>
  BY JitterKept DEF DecodeAudio, mixVars
<1>2. AudioTypes /\ ChannelsInOrder /\ WayInOrder
  BY DEF AudioInv
<1>3. UNCHANGED <<Heard, ToPlay>>
  BY <1>1 DEF Heard, ToPlay
<1>4. /\ decoding' = Tail(decoding) /\ decoding # <<>> /\ decoding \in Seq(Nat)
      /\ mixing \in Seq(Peers \X Nat) /\ mixing' = TrySend(mixing, <<<<peer, frame>>>>, MixCap)
  BY <1>2 DEF DecodeAudio, AudioTypes
<1>5. /\ Len(decoding) \in Nat /\ Len(decoding) > 0 /\ frame = decoding[1] /\ frame \in Nat
      /\ decoding' \in Seq(Nat) /\ Len(decoding') = Len(decoding) - 1
      /\ \A i \in 1..Len(decoding') : decoding'[i] = decoding[i + 1] /\ i + 1 \in 1..Len(decoding)
  BY <1>4
<1> HIDE DEF frame
<1>6. /\ frame \in ToDecode
      /\ ToDecode' \subseteq ToDecode /\ \A later \in ToDecode' : frame < later
  <2>1. 1 \in 1..Len(decoding) /\ \A i \in 1..Len(decoding') : 1 < i + 1
    BY <1>5
  <2>2. \A i \in 1..Len(decoding') : frame < decoding'[i] /\ decoding'[i] \in ToDecode
    BY <1>2, <1>5, <2>1 DEF ToDecode, ChannelsInOrder, DecodingInOrder
  <2>3. frame \in ToDecode
    BY <1>5, <2>1 DEF ToDecode
  <2>4. ToDecode' = {decoding'[i] : i \in 1..Len(decoding')}
    BY DEF ToDecode
  <2> QED BY <2>2, <2>3, <2>4
<1>7. /\ mixing' \in Seq(Peers \X Nat) /\ Len(mixing) \in Nat /\ Len(mixing') \in Nat
      /\ \A i \in 1..Len(mixing') :
           \/ i \in 1..Len(mixing) /\ mixing'[i] = mixing[i]
           \/ /\ i \notin 1..Len(mixing) /\ i = Len(mixing) + 1
              /\ mixing'[i] = <<peer, frame>>
  <2> DEFINE frames == <<<<peer, frame>>>>
  <2>1. /\ frames \in Seq(Peers \X Nat) /\ Len(frames) = 1
        /\ \A i \in 1..Len(frames) : i = 1 /\ frames[i] = <<peer, frame>>
    BY <1>5 DEF Peers
  <2> HIDE DEF frames
  <2>2. mixing' = TrySend(mixing, frames, MixCap)
    BY <1>4 DEF frames
  <2>3. /\ mixing' \in Seq(Peers \X Nat)
        /\ \A i \in 1..Len(mixing') :
             \/ i \in 1..Len(mixing) /\ mixing'[i] = mixing[i]
             \/ /\ i \notin 1..Len(mixing)
                /\ i - Len(mixing) \in 1..Len(frames)
                /\ mixing'[i] = frames[i - Len(mixing)]
    <3> DEFINE S == Peers \X Nat
    <3>1. mixing \in Seq(S) /\ frames \in Seq(S)
      BY <1>4, <2>1
    <3> HIDE DEF S
    <3>2. /\ mixing' \in Seq(S)
          /\ \A i \in 1..Len(mixing') :
               \/ i \in 1..Len(mixing) /\ mixing'[i] = mixing[i]
               \/ /\ i \notin 1..Len(mixing)
                  /\ i - Len(mixing) \in 1..Len(frames)
                  /\ mixing'[i] = frames[i - Len(mixing)]
      BY <2>2, <3>1, TrySendIs
    <3> QED BY <3>2 DEF S
  <2>4. Len(mixing) \in Nat /\ Len(mixing') \in Nat
    BY <1>4, <2>3
  <2> QED BY <2>1, <2>3, <2>4
<1>8. ToMix' \subseteq ToMix \cup {frame}
  <2> SUFFICES ASSUME NEW ts \in Nat, NEW i \in 1..Len(mixing'), mixing'[i] = <<peer, ts>>
               PROVE  ts \in ToMix \cup {frame}
    BY DEF ToMix
  <2>1. CASE i \in 1..Len(mixing) /\ mixing'[i] = mixing[i]
    BY <2>1 DEF ToMix
  <2>2. CASE mixing'[i] = <<peer, frame>>
    BY <2>2
  <2> QED BY <1>7, <2>1, <2>2
<1>9. AudioTypes'
  BY <1>1, <1>2, <1>5, <1>7 DEF AudioTypes
<1>10. ChannelsInOrder'
  <2>1. \A i, j \in 1..Len(decoding') : i < j => decoding'[i] < decoding'[j]
    <3> SUFFICES ASSUME NEW i \in 1..Len(decoding'), NEW j \in 1..Len(decoding'), i < j
                 PROVE  decoding'[i] < decoding'[j]
      OBVIOUS
    <3>1. i + 1 < j + 1
      BY <1>5
    <3> QED BY <1>2, <1>5, <3>1 DEF ChannelsInOrder, DecodingInOrder
  <2>2. ASSUME NEW i \in 1..Len(mixing'), NEW j \in 1..Len(mixing'), NEW ts \in Nat,
               NEW later \in Nat,
               i < j, mixing'[i] = <<peer, ts>>, mixing'[j] = <<peer, later>>
        PROVE  ts < later
    <3>0. /\ \/ i \in 1..Len(mixing) /\ mixing'[i] = mixing[i]
             \/ i = Len(mixing) + 1
          /\ \/ j \in 1..Len(mixing) /\ mixing'[j] = mixing[j]
             \/ j = Len(mixing) + 1 /\ mixing'[j] = <<peer, frame>>
      BY <1>7
    <3>1. i \in 1..Len(mixing)
      <4>1. Len(mixing) \in Nat /\ i \in Nat /\ j \in Nat
        BY <1>7
      <4>2. j <= Len(mixing) + 1
        BY <3>0, <4>1
      <4>3. i # Len(mixing) + 1
        BY <2>2, <4>1, <4>2
      <4> QED BY <3>0, <4>3
    <3>2. mixing'[i] = mixing[i]
      BY <3>0, <3>1
    <3>3. CASE j \in 1..Len(mixing)
      <4>1. mixing'[j] = mixing[j]
        BY <3>0, <3>3
      <4> QED BY <1>2, <2>2, <3>1, <3>2, <3>3, <4>1 DEF ChannelsInOrder, MixingInOrder
    <3>4. CASE j \notin 1..Len(mixing)
      <4>1. later = frame
        <5>1. mixing'[j] = <<peer, frame>>
          BY <3>0, <3>4
        <5> QED BY <2>2, <5>1
      <4>2. ts \in ToMix
        <5>1. mixing[i] = <<peer, ts>>
          BY <2>2, <3>2
        <5> QED BY <3>1, <5>1 DEF ToMix
      <4> QED BY <1>2, <1>6, <4>1, <4>2 DEF WayInOrder
    <3> QED BY <3>3, <3>4
  <2>3. DecodingInOrder'
    BY <2>1 DEF DecodingInOrder
  <2>4. MixingInOrder'
    BY <2>2 DEF MixingInOrder
  <2>5. PlaybackInOrder'
    BY <1>1, <1>2 DEF ChannelsInOrder, PlaybackInOrder
  <2> QED BY <2>3, <2>4, <2>5 DEF ChannelsInOrder
<1>11. WayInOrder'
  BY <1>1, <1>2, <1>3, <1>6, <1>8 DEF WayInOrder
<1> QED BY <1>1, <1>9, <1>10, <1>11 DEF AudioInv

\* What another peer contributes is none of peer's.
LEMMA OtherDecodesKeeps ==
  ASSUME AudioInv, NEW p \in Others, OtherDecodes(p)
  PROVE  AudioInv'
<1> DEFINE S      == Peers \X Nat
           frame  == <<p, fed[p]>>
           frames == <<frame>>
<1>1. /\ IInv' /\ Emitted' = Emitted
      /\ UNCHANGED <<decoding, buffers, playback, fed, mixed, heard>>
  BY JitterKept DEF OtherDecodes, mixVars
<1>2. AudioTypes /\ ChannelsInOrder /\ WayInOrder
  BY DEF AudioInv
<1>3. UNCHANGED <<Heard, ToPlay, ToDecode>>
  BY <1>1 DEF Heard, ToPlay, ToDecode
<1>4. p # peer /\ p \in Peers /\ fed[p] \in Nat
  BY <1>2 DEF AudioTypes, Peers
<1>5. /\ frame \in S /\ \A ts : frame # <<peer, ts>>
  BY <1>4
<1>6. mixing \in Seq(S)
  BY <1>2 DEF AudioTypes
<1>7. mixing' = TrySend(mixing, frames, MixCap)
  BY DEF OtherDecodes
<1> HIDE DEF S, frame
<1>8. /\ frames \in Seq(S) /\ Len(frames) = 1
      /\ \A i \in 1..Len(frames) : i = 1 /\ frames[i] = frame
  BY <1>5
<1> HIDE DEF frames
<1>9. /\ mixing' \in Seq(S)
      /\ \A i \in 1..Len(mixing') :
           \/ i \in 1..Len(mixing) /\ mixing'[i] = mixing[i]
           \/ /\ i \notin 1..Len(mixing)
              /\ i - Len(mixing) \in 1..Len(frames)
              /\ mixing'[i] = frames[i - Len(mixing)]
  BY <1>6, <1>7, <1>8, TrySendIs
<1>10. ASSUME NEW i \in 1..Len(mixing'), NEW ts, mixing'[i] = <<peer, ts>>
       PROVE  i \in 1..Len(mixing) /\ mixing[i] = <<peer, ts>>
  BY <1>5, <1>8, <1>9, <1>10
<1>11. ToMix' \subseteq ToMix
  BY <1>10 DEF ToMix
<1>12. AudioTypes'
  BY <1>1, <1>2, <1>9 DEF AudioTypes, S
<1>13. ChannelsInOrder'
  <2>1. ASSUME NEW i \in 1..Len(mixing'), NEW j \in 1..Len(mixing'), NEW ts \in Nat,
               NEW later \in Nat,
               i < j, mixing'[i] = <<peer, ts>>, mixing'[j] = <<peer, later>>
        PROVE  ts < later
    <3>1. /\ i \in 1..Len(mixing) /\ mixing[i] = <<peer, ts>>
          /\ j \in 1..Len(mixing) /\ mixing[j] = <<peer, later>>
      BY <1>10, <2>1
    <3> QED BY <1>2, <2>1, <3>1 DEF ChannelsInOrder, MixingInOrder
  <2>2. DecodingInOrder'
    BY <1>1, <1>2 DEF ChannelsInOrder, DecodingInOrder
  <2>3. MixingInOrder'
    BY <2>1 DEF MixingInOrder
  <2>4. PlaybackInOrder'
    BY <1>1, <1>2 DEF ChannelsInOrder, PlaybackInOrder
  <2> QED BY <2>2, <2>3, <2>4 DEF ChannelsInOrder
<1>14. WayInOrder'
  BY <1>1, <1>2, <1>3, <1>11 DEF WayInOrder
<1> QED BY <1>1, <1>12, <1>13, <1>14 DEF AudioInv

\* With nothing in the mixer's buffers, what it takes from the channel is what it mixes.
LEMMA MixIs ==
  ASSUME AudioInv, Mix
  PROVE  /\ buffers' = buffers
         /\ playback' = TrySend(playback, <<{Head(mixing)}>>, PlayCap)
         /\ Head(mixing) \in Peers \X Nat
         /\ fed' \in [Peers -> Nat]
<1> DEFINE m    == Head(mixing)
           bufs == [buffers EXCEPT ![m[1]] = Append(@, m[2])]
<1>1. /\ mixing \in Seq(Peers \X Nat) /\ mixing # <<>> /\ fed \in [Peers -> Nat]
      /\ buffers = [p \in Peers |-> <<>>]
  BY DEF AudioInv, AudioTypes, Mix
<1>2. m \in Peers \X Nat
  BY <1>1
<1>3. /\ fed' = [fed EXCEPT ![m[1]] = @ + 1]
      /\ TryMix(bufs)
  BY DEF Mix
<1> HIDE DEF m
<1>4. PICK from \in Peers, ts \in Nat : m = <<from, ts>>
  BY <1>2
<1>5. m[1] = from /\ m[2] = ts
  BY <1>4
<1>6. fed' \in [Peers -> Nat]
  BY <1>1, <1>3, <1>5
<1>7. bufs = [p \in Peers |-> IF p = from THEN <<ts>> ELSE <<>>]
  <2>1. buffers[from] = <<>> /\ Append(<<>>, ts) = <<ts>>
    BY <1>1
  <2>2. bufs = [buffers EXCEPT ![from] = <<ts>>]
    BY <1>5, <2>1
  <2> QED BY <1>1, <2>2
<1> HIDE DEF bufs
<1>8. DOMAIN bufs = Peers /\ \A p \in Peers : bufs[p] = IF p = from THEN <<ts>> ELSE <<>>
  BY <1>7
<1>9. <<ts>> # <<>> /\ Tail(<<ts>>) = <<>> /\ Head(<<ts>>) = ts
  OBVIOUS
<1>10. {p \in DOMAIN bufs : bufs[p] # <<>>} = {from}
  BY <1>8, <1>9
<1>11. /\ buffers' = [p \in DOMAIN bufs |-> IF p \in {from} THEN Tail(bufs[p]) ELSE <<>>]
       /\ playback' = TrySend(playback, <<{<<p, Head(bufs[p])>> : p \in {from}}>>, PlayCap)
  BY <1>3, <1>10 DEF TryMix
<1>12. buffers' = buffers
  BY <1>1, <1>8, <1>9, <1>11
<1>13. {<<p, Head(bufs[p])>> : p \in {from}} = {m}
  BY <1>4, <1>8, <1>9
<1> QED BY <1>2, <1>6, <1>11, <1>12, <1>13 DEF m

\* The first message of the mixer's channel becomes the last frame of the engine's.
LEMMA MixKeeps ==
  ASSUME AudioInv, Mix
  PROVE  AudioInv'
<1> DEFINE S      == {{m} : m \in Peers \X Nat}
           first  == Head(mixing)
           frame  == {first}
           frames == <<frame>>
<1>1. /\ IInv' /\ Emitted' = Emitted
      /\ UNCHANGED <<decoding, buffers, heard>>
  BY JitterKept, MixIs DEF Mix
<1>2. AudioTypes /\ ChannelsInOrder /\ WayInOrder
  BY DEF AudioInv
<1>3. UNCHANGED <<Heard, ToDecode>>
  BY <1>1 DEF Heard, ToDecode
<1>4. /\ mixing' = Tail(mixing) /\ mixing # <<>> /\ mixing \in Seq(Peers \X Nat)
      /\ first \in Peers \X Nat /\ fed' \in [Peers -> Nat]
      /\ playback' = TrySend(playback, frames, PlayCap) /\ playback \in Seq(S)
  BY <1>2, MixIs DEF Mix, AudioTypes
<1>5. frame \in S
  BY <1>4
<1>6. /\ Len(mixing) \in Nat /\ Len(mixing) > 0 /\ first = mixing[1]
      /\ mixing' \in Seq(Peers \X Nat) /\ Len(mixing') = Len(mixing) - 1
      /\ \A i \in 1..Len(mixing') : mixing'[i] = mixing[i + 1] /\ i + 1 \in 1..Len(mixing)
  <2> DEFINE T == Peers \X Nat
  <2>1. mixing \in Seq(T) /\ mixing # <<>> /\ mixing' = Tail(mixing)
    BY <1>4
  <2> HIDE DEF T, first
  <2>2. /\ Len(mixing) \in Nat /\ Len(mixing) > 0 /\ Head(mixing) = mixing[1]
        /\ mixing' \in Seq(T) /\ Len(mixing') = Len(mixing) - 1
        /\ \A i \in 1..Len(mixing') : mixing'[i] = mixing[i + 1] /\ i + 1 \in 1..Len(mixing)
    BY <2>1
  <2> QED BY <2>2 DEF T, first
<1> HIDE DEF first, S
<1>7. /\ frames \in Seq(S) /\ Len(frames) = 1
      /\ \A i \in 1..Len(frames) : i = 1 /\ frames[i] = {first}
  BY <1>5
<1> HIDE DEF frames, frame
<1>8. /\ playback' \in Seq(S) /\ Len(playback) \in Nat /\ Len(playback') \in Nat
      /\ \A i \in 1..Len(playback') :
           \/ i \in 1..Len(playback) /\ playback'[i] = playback[i]
           \/ /\ i \notin 1..Len(playback) /\ i = Len(playback) + 1
              /\ playback'[i] = {first}
  <2>1. /\ playback' \in Seq(S)
        /\ \A i \in 1..Len(playback') :
             \/ i \in 1..Len(playback) /\ playback'[i] = playback[i]
             \/ /\ i \notin 1..Len(playback)
                /\ i - Len(playback) \in 1..Len(frames)
                /\ playback'[i] = frames[i - Len(playback)]
    <3>1. playback \in Seq(S) /\ playback' = TrySend(playback, frames, PlayCap)
      BY <1>4
    <3>2. PlayCap \in Nat /\ frames \in Seq(S)
      BY <1>7
    <3> QED BY <3>1, <3>2, TrySendIs
  <2>2. Len(playback) \in Nat /\ Len(playback') \in Nat
    BY <1>4, <2>1
  <2> QED BY <1>7, <2>1, <2>2
<1>9. \A ts \in Nat : first = <<peer, ts>> =>
        /\ ts \in ToMix
        /\ \A later \in ToMix' : ts < later
  <2> SUFFICES ASSUME NEW ts \in Nat, first = <<peer, ts>>
               PROVE  ts \in ToMix /\ \A later \in ToMix' : ts < later
    OBVIOUS
  <2>1. 1 \in 1..Len(mixing) /\ \A i \in 1..Len(mixing') : 1 < i + 1
    BY <1>6
  <2>2. mixing[1] = <<peer, ts>>
    BY <1>6
  <2>3. ASSUME NEW later \in Nat, NEW i \in 1..Len(mixing'), mixing'[i] = <<peer, later>>
        PROVE  ts < later
    <3>1. mixing[i + 1] = <<peer, later>> /\ i + 1 \in 1..Len(mixing) /\ 1 < i + 1
      BY <1>6, <2>1, <2>3
    <3> QED BY <1>2, <2>1, <2>2, <3>1 DEF ChannelsInOrder, MixingInOrder
  <2>4. ToMix' = {later \in Nat : \E i \in 1..Len(mixing') : mixing'[i] = <<peer, later>>}
    BY DEF ToMix
  <2>5. ts \in ToMix
    BY <2>1, <2>2 DEF ToMix
  <2> QED BY <2>3, <2>4, <2>5
<1>10. ToMix' \subseteq ToMix
  BY <1>6 DEF ToMix
<1>11. \A ts \in ToPlay' : ts \in ToPlay \/ first = <<peer, ts>>
  <2> SUFFICES ASSUME NEW ts \in Nat, NEW i \in 1..Len(playback'),
                      playback'[i] = {<<peer, ts>>}
               PROVE  ts \in ToPlay \/ first = <<peer, ts>>
    BY DEF ToPlay
  <2>1. CASE i \in 1..Len(playback) /\ playback'[i] = playback[i]
    BY <2>1 DEF ToPlay
  <2>2. CASE playback'[i] = {first}
    <3>1. {first} = {<<peer, ts>>}
      BY <2>2
    <3> QED BY <3>1, Zenon
  <2> QED BY <1>8, <2>1, <2>2
<1>12. AudioTypes'
  BY <1>1, <1>2, <1>4, <1>6, <1>8 DEF AudioTypes, S
<1>13. ChannelsInOrder'
  <2>1. ASSUME NEW i \in 1..Len(mixing'), NEW j \in 1..Len(mixing'), NEW ts \in Nat,
               NEW later \in Nat,
               i < j, mixing'[i] = <<peer, ts>>, mixing'[j] = <<peer, later>>
        PROVE  ts < later
    <3>1. i + 1 < j + 1
      BY <1>6, <2>1
    <3>2. /\ mixing[i + 1] = <<peer, ts>> /\ i + 1 \in 1..Len(mixing)
          /\ mixing[j + 1] = <<peer, later>> /\ j + 1 \in 1..Len(mixing)
      BY <1>6, <2>1
    <3> QED BY <1>2, <3>1, <3>2 DEF ChannelsInOrder, MixingInOrder
  <2>2. ASSUME NEW i \in 1..Len(playback'), NEW j \in 1..Len(playback'), NEW ts \in Nat,
               NEW later \in Nat,
               i < j, playback'[i] = {<<peer, ts>>}, playback'[j] = {<<peer, later>>}
        PROVE  ts < later
    <3>1. i \in 1..Len(playback)
      BY <1>8, <2>2
    <3>2. playback[i] = {<<peer, ts>>}
      <4>1. playback'[i] = playback[i]
        BY <1>8, <3>1
      <4> QED BY <2>2, <4>1
    <3>3. CASE j \in 1..Len(playback)
      <4>1. playback'[j] = playback[j]
        BY <1>8, <3>3
      <4>2. playback[j] = {<<peer, later>>}
        BY <2>2, <4>1
      <4> QED BY <1>2, <2>2, <3>1, <3>2, <3>3, <4>2 DEF ChannelsInOrder, PlaybackInOrder
    <3>4. CASE j \notin 1..Len(playback)
      <4>1. playback'[j] = {first}
        BY <1>8, <3>4
      <4>2. {first} = {<<peer, later>>}
        BY <2>2, <4>1
      <4>3. first = <<peer, later>>
        BY <4>2, Zenon
      <4>4. ts \in ToPlay
        BY <3>1, <3>2 DEF ToPlay
      <4> QED BY <1>2, <1>9, <4>3, <4>4 DEF WayInOrder
    <3> QED BY <3>3, <3>4
  <2>3. DecodingInOrder'
    BY <1>1, <1>2 DEF ChannelsInOrder, DecodingInOrder
  <2>4. MixingInOrder'
    BY <2>1 DEF MixingInOrder
  <2>5. PlaybackInOrder'
    BY <2>2 DEF PlaybackInOrder
  <2> QED BY <2>3, <2>4, <2>5 DEF ChannelsInOrder
<1>14. WayInOrder'
  <2>1. ToPlay' \subseteq Nat
    BY DEF ToPlay
  <2>2. \A ts \in ToPlay' : ts \in ToPlay \cup ToMix
    BY <1>9, <1>11, <2>1
  <2>3. \A ts \in ToPlay' : \A later \in ToMix' : ts < later
    BY <1>2, <1>9, <1>10, <1>11, <2>1 DEF WayInOrder
  <2>4. \A ts \in ToPlay' : \A later \in ToDecode : ts < later
    BY <1>2, <2>2 DEF WayInOrder
  <2> QED BY <1>1, <1>2, <1>3, <1>10, <2>2, <2>3, <2>4 DEF WayInOrder
<1> QED BY <1>1, <1>12, <1>13, <1>14 DEF AudioInv

\* What was heard last is earlier than what is played.
LEMMA PumpKeeps ==
  ASSUME AudioInv, Pump
  PROVE  AudioInv' /\ (heard' # heard => heard = None \/ heard < heard')
<1> DEFINE S     == {{m} : m \in Peers \X Nat}
           first == Head(playback)
           mine  == {f[2] : f \in {f \in first : f[1] = peer}}
<1>1. /\ IInv' /\ Emitted' = Emitted
      /\ UNCHANGED <<decoding, mixing, buffers, fed, mixed>>
  BY JitterKept DEF Pump
<1>2. AudioTypes /\ ChannelsInOrder /\ WayInOrder
  BY DEF AudioInv
<1>3. UNCHANGED <<ToMix, ToDecode>>
  BY <1>1 DEF ToMix, ToDecode
<1>4. /\ playback' = Tail(playback) /\ playback # <<>> /\ playback \in Seq(S)
  BY <1>2 DEF Pump, AudioTypes
<1>5. heard' = IF mine = {} THEN heard ELSE CHOOSE t \in mine : TRUE
  BY DEF Pump
<1> HIDE DEF S, mine, first
<1>6. /\ Len(playback) \in Nat /\ Len(playback) > 0 /\ first = playback[1] /\ first \in S
      /\ playback' \in Seq(S) /\ Len(playback') = Len(playback) - 1
      /\ \A i \in 1..Len(playback') :
           playback'[i] = playback[i + 1] /\ i + 1 \in 1..Len(playback)
  BY <1>4 DEF first
<1>7. PICK from \in Peers, ts \in Nat : first = {<<from, ts>>}
  <2>1. PICK m \in Peers \X Nat : first = {m}
    BY <1>6 DEF S
  <2>2. PICK from \in Peers, ts \in Nat : m = <<from, ts>>
    BY <2>1
  <2> QED BY <2>1, <2>2
<1>8. mine = IF from = peer THEN {ts} ELSE {}
  <2>1. <<from, ts>>[1] = from /\ <<from, ts>>[2] = ts
    OBVIOUS
  <2>2. {f \in first : f[1] = peer} = IF from = peer THEN {<<from, ts>>} ELSE {}
    BY <1>7, <2>1
  <2>3. mine = {f[2] : f \in IF from = peer THEN {<<from, ts>>} ELSE {}}
    BY <2>2 DEF mine
  <2>4. CASE from = peer
    <3>1. mine = {f[2] : f \in {<<from, ts>>}}
      BY <2>3, <2>4
    <3>2. \A t : t \in mine <=> t = ts
      BY <2>1, <3>1
    <3> QED BY <2>4, <3>2
  <2>5. CASE from # peer
    BY <2>3, <2>5
  <2> QED BY <2>4, <2>5
<1>9. heard' = IF from = peer THEN ts ELSE heard
  BY <1>5, <1>8
<1>10. ToPlay' \subseteq ToPlay
  BY <1>6 DEF ToPlay
<1>11. from = peer => ts \in ToPlay /\ \A later \in ToPlay' : ts < later
  <2> SUFFICES ASSUME from = peer
               PROVE  ts \in ToPlay /\ \A later \in ToPlay' : ts < later
    OBVIOUS
  <2>1. 1 \in 1..Len(playback) /\ \A i \in 1..Len(playback') : 1 < i + 1
    BY <1>6
  <2>2. playback[1] = {<<peer, ts>>}
    BY <1>6, <1>7
  <2>3. ASSUME NEW later \in Nat, NEW i \in 1..Len(playback'),
               playback'[i] = {<<peer, later>>}
        PROVE  ts < later
    <3>1. /\ playback[i + 1] = {<<peer, later>>} /\ i + 1 \in 1..Len(playback)
          /\ 1 < i + 1
      BY <1>6, <2>1, <2>3
    <3> QED BY <1>2, <2>1, <2>2, <3>1 DEF ChannelsInOrder, PlaybackInOrder
  <2>4. ToPlay' = {later \in Nat :
                     \E i \in 1..Len(playback') : playback'[i] = {<<peer, later>>}}
    BY DEF ToPlay
  <2>5. ts \in ToPlay
    BY <2>1, <2>2 DEF ToPlay
  <2> QED BY <2>3, <2>4, <2>5
<1>12. heard' # heard => heard = None \/ heard < heard'
  BY <1>2, <1>9, <1>11 DEF WayInOrder, Heard
<1>13. AudioTypes'
  BY <1>1, <1>2, <1>6, <1>9 DEF AudioTypes, S
<1>14. ChannelsInOrder'
  <2>1. ASSUME NEW i \in 1..Len(playback'), NEW j \in 1..Len(playback'), NEW t \in Nat,
               NEW later \in Nat,
               i < j, playback'[i] = {<<peer, t>>}, playback'[j] = {<<peer, later>>}
        PROVE  t < later
    <3>1. i + 1 < j + 1
      BY <1>6, <2>1
    <3>2. /\ playback[i + 1] = {<<peer, t>>} /\ i + 1 \in 1..Len(playback)
          /\ playback[j + 1] = {<<peer, later>>} /\ j + 1 \in 1..Len(playback)
      BY <1>6, <2>1
    <3> QED BY <1>2, <3>1, <3>2 DEF ChannelsInOrder, PlaybackInOrder
  <2>2. DecodingInOrder'
    BY <1>1, <1>2 DEF ChannelsInOrder, DecodingInOrder
  <2>3. MixingInOrder'
    BY <1>1, <1>2 DEF ChannelsInOrder, MixingInOrder
  <2>4. PlaybackInOrder'
    BY <2>1 DEF PlaybackInOrder
  <2> QED BY <2>2, <2>3, <2>4 DEF ChannelsInOrder
<1>15. WayInOrder'
  <2>1. CASE from = peer
    <3>1. Heard' \subseteq {ts}
      BY <1>9, <2>1 DEF Heard
    <3>2. ts \in ToPlay /\ \A later \in ToPlay' : ts < later
      BY <1>11, <2>1
    <3> QED BY <1>1, <1>2, <1>3, <1>10, <3>1, <3>2 DEF WayInOrder
  <2>2. CASE from # peer
    <3>1. Heard' = Heard
      BY <1>9, <2>2 DEF Heard
    <3> QED BY <1>1, <1>2, <1>3, <1>10, <3>1 DEF WayInOrder
  <2> QED BY <2>1, <2>2
<1> QED BY <1>1, <1>12, <1>13, <1>14, <1>15 DEF AudioInv

LEMMA AudioStepKeeps ==
  ASSUME AudioInv, [AudioNext]_avars
  PROVE  AudioInv' /\ (heard' # heard => heard = None \/ heard < heard')
<1>1. CASE JitterStep
  BY <1>1, JitterStepKeeps DEF JitterStep
<1>2. CASE DecodeAudio
  BY <1>2, DecodeAudioKeeps DEF DecodeAudio
<1>3. CASE Mix
  BY <1>3, MixKeeps DEF Mix
<1>4. CASE Pump
  BY <1>4, PumpKeeps
<1>5. ASSUME NEW p \in Others, OtherDecodes(p)
      PROVE  AudioInv' /\ heard' = heard
  BY <1>5, OtherDecodesKeeps DEF OtherDecodes
<1>6. CASE UNCHANGED avars
  <2>1. /\ IInv' /\ Emitted' = Emitted
        /\ UNCHANGED <<decoding, mixing, buffers, playback, fed, heard>>
    BY <1>6, JitterKept DEF avars, mixVars
  <2>2. AudioTypes /\ ChannelsInOrder /\ WayInOrder
    BY DEF AudioInv
  <2>3. AudioTypes'
    BY <2>1, <2>2 DEF AudioTypes
  <2>4. ChannelsInOrder'
    <3>1. DecodingInOrder'
      BY <2>1, <2>2 DEF ChannelsInOrder, DecodingInOrder
    <3>2. MixingInOrder'
      BY <2>1, <2>2 DEF ChannelsInOrder, MixingInOrder
    <3>3. PlaybackInOrder'
      BY <2>1, <2>2 DEF ChannelsInOrder, PlaybackInOrder
    <3> QED BY <3>1, <3>2, <3>3 DEF ChannelsInOrder
  <2>5. UNCHANGED <<Heard, ToPlay, ToMix, ToDecode>>
    BY <2>1 DEF Heard, ToPlay, ToMix, ToDecode
  <2>6. WayInOrder'
    BY <2>1, <2>2, <2>5 DEF WayInOrder
  <2> QED BY <2>1, <2>3, <2>4, <2>6 DEF AudioInv
<1> QED BY <1>1, <1>2, <1>3, <1>4, <1>5, <1>6 DEF AudioNext

THEOREM AudioInvariance == AudioSpec => []AudioInv
<1>1. AudioInv /\ [AudioNext]_avars => AudioInv'
  BY AudioStepKeeps
<1> QED BY AudioInitInv, <1>1, PTL DEF AudioSpec

\* The mixer keeps no sample from one message to the next (AudioMixer::run): it mixes
\* whatever any one peer has as soon as it comes, so nobody's silence delays the others.
THEOREM MixerIsEmpty == AudioSpec => []MixerHoldsNothing
<1>1. AudioInv => MixerHoldsNothing
  BY DEF AudioInv, AudioTypes, MixerHoldsNothing
<1> QED BY AudioInvariance, <1>1, PTL

\* What the player is given of a peer is in the order in which it was said and nothing
\* is given twice, whatever the network did, whatever was concealed, and whichever
\* frames the channels of the decoder, the mixer and the engine dropped.
THEOREM HeardRight == AudioSpec => HeardInOrder
<1>1. AudioInv /\ [AudioNext]_avars
        => [heard' # heard => heard = None \/ heard < heard']_avars
  BY AudioStepKeeps
<1> QED BY AudioInvariance, <1>1, PTL DEF AudioSpec, HeardInOrder

===============================================================================

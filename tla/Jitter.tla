--------------------------------- MODULE Jitter ---------------------------------
(***************************************************************************)
(* The jitter buffer of a peer's audio (run_jitter_buffer in               *)
(* src/src/jitter.rs, as the room starts it: master of the clock, emitting *)
(* sentinels for the decoder to conceal a loss), with the sender's capture *)
(* and the datagrams between them.                                         *)
(*                                                                         *)
(* Both clocks count the same units and show the same time: the offset     *)
(* between them is what the buffer estimates anyway.  A frame is its       *)
(* timestamp.                                                              *)
(***************************************************************************)
EXTENDS Integers, Sequences, FiniteSets

CONSTANTS
  FrameTime,    \* 20 ms
  TargetDelay,  \* target_delay_us
  MaxLate,      \* max_late_us
  None,
  MaxFrames,    \* bound: frames that are captured
  MaxTime       \* bound: of the clock

ASSUME JitterAssumption ==
  /\ FrameTime \in Nat \ {0} /\ TargetDelay \in Nat /\ MaxLate \in Nat
  /\ MaxFrames \in Nat /\ MaxTime \in Nat
  /\ None \notin Int

VARIABLES
  now,
  captured,      \* the frames captured so far
  wire,          \* those whose datagram is under way
  queue,
  clock_offset,  \* clock_offset_us
  last_emitted,  \* last_emitted_ts, of a frame or a sentinel
  out,           \* history: what was emitted, one batch each time, be there room for
                 \* it in the channel behind or not
  received, played, dropped_late, dropped_duplicate

stats == <<received, played, dropped_late, dropped_duplicate>>
vars  == <<now, captured, wire, queue, clock_offset, last_emitted, out, stats>>

TypeOK ==
  /\ now \in 0..MaxTime
  /\ captured \subseteq 0..now /\ wire \subseteq captured /\ queue \subseteq captured
  /\ clock_offset \in Nat \cup {None}
  /\ last_emitted \in 0..now \cup {None}
  /\ out \in Seq(SUBSET (0..now))
  /\ received \in Nat /\ played \in Nat
  /\ dropped_late \in Nat /\ dropped_duplicate \in Nat

Init ==
  /\ now = 0
  /\ captured = {} /\ wire = {} /\ queue = {}
  /\ clock_offset = None /\ last_emitted = None
  /\ out = <<>>
  /\ received = 0 /\ played = 0 /\ dropped_late = 0 /\ dropped_duplicate = 0

Elapse ==
  /\ now < MaxTime /\ now' = now + 1
  /\ UNCHANGED <<captured, wire, queue, clock_offset, last_emitted, out, stats>>

\* A frame is captured, encoded and sent, once in a FrameTime more or less.
Capture ==
  /\ now \notin captured /\ Cardinality(captured) < MaxFrames
  /\ captured' = captured \cup {now}
  /\ wire' = wire \cup {now}
  /\ UNCHANGED <<now, queue, clock_offset, last_emitted, out, stats>>

Lose(ts) ==
  /\ ts \in wire /\ wire' = wire \ {ts}
  /\ UNCHANGED <<now, captured, queue, clock_offset, last_emitted, out, stats>>

-------------------------------------------------------------------------------

\* The clock offset with a frame taken into account: the first one sets it, the
\* others move it, by drift_alpha, some of the way.
Adapted(ts) ==
  LET instantaneous == now - ts + TargetDelay
  IN  IF clock_offset = None THEN {instantaneous}
      ELSE (clock_offset..instantaneous) \cup (instantaneous..clock_offset)

TooLate(ts, offset) == now > ts + offset + MaxLate

\* Mutant: only the frame that was emitted last is out of turn.
OutOfTurn_Equal(ts) == last_emitted # None /\ ts = last_emitted

\* Something that is no earlier has been emitted.
OutOfTurn(ts) == last_emitted # None /\ ts <= last_emitted

\* A frame arrives: late frames are dropped, then those out of turn.  (A frame that is
\* queued already does not arrive again, and no frame has timestamp 0.)
Arrive(ts) ==
  /\ ts \in wire /\ wire' = wire \ {ts}
  /\ received' = received + 1
  /\ clock_offset' \in Adapted(ts)
  /\ \/ /\ TooLate(ts, clock_offset')
        /\ dropped_late' = dropped_late + 1
        /\ UNCHANGED <<queue, dropped_duplicate>>
     \/ /\ ~TooLate(ts, clock_offset') /\ OutOfTurn(ts)
        /\ dropped_duplicate' = dropped_duplicate + 1
        /\ UNCHANGED <<queue, dropped_late>>
     \/ /\ ~TooLate(ts, clock_offset') /\ ~OutOfTurn(ts)
        /\ queue' = queue \cup {ts}
        /\ UNCHANGED <<dropped_late, dropped_duplicate>>
  /\ UNCHANGED <<now, captured, last_emitted, out, played>>

-------------------------------------------------------------------------------

Due == {ts \in queue : now >= ts + clock_offset}

\* The sleep is over, at the playout time of the front or, if there is none, within
\* 5 ms: what is due is played, or dropped if that is too late by now.
Play ==
  /\ Due # {}
  /\ LET stale == {ts \in Due : TooLate(ts, clock_offset)}
         batch == Due \ stale
     IN  /\ batch # {}
         /\ \E last \in batch : (\A ts \in batch : ts <= last) /\ last_emitted' = last
         /\ out' = Append(out, batch)
         /\ played' = played + Cardinality(batch)
         /\ dropped_late' = dropped_late + Cardinality(stale)
  /\ queue' = queue \ Due
  /\ UNCHANGED <<now, captured, wire, clock_offset, received, dropped_duplicate>>

Sentinel == last_emitted + FrameTime

\* Mutant: as soon as anything has been emitted.
Missing_Early ==
  /\ clock_offset # None /\ last_emitted # None
  /\ now < Sentinel + clock_offset + MaxLate

\* The time of the frame after the last one has come, and it is not there.
Missing ==
  /\ clock_offset # None /\ last_emitted # None
  /\ Sentinel + clock_offset <= now /\ now < Sentinel + clock_offset + MaxLate

\* Mutant: a sentinel is emitted and not remembered.
Conceal_Forgotten ==
  /\ Missing
  /\ out' = Append(out, {Sentinel})
  /\ UNCHANGED last_emitted

Conceal ==
  /\ Missing
  /\ last_emitted' = Sentinel
  /\ out' = Append(out, {Sentinel})

\* Mutant: what is dropped late in the queue is not counted.
PlayNothing_Uncounted ==
  /\ queue = {} \/ Due # {}
  /\ \A ts \in Due : TooLate(ts, clock_offset)
  /\ queue' = queue \ Due
  /\ \/ Conceal
     \/ ~Missing /\ UNCHANGED <<last_emitted, out>>
  /\ UNCHANGED <<now, captured, wire, clock_offset, stats>>

\* Nothing is played: the queue is empty or all that is due is too late.
PlayNothing ==
  /\ queue = {} \/ Due # {}
  /\ \A ts \in Due : TooLate(ts, clock_offset)
  /\ dropped_late' = dropped_late + Cardinality(Due)
  /\ queue' = queue \ Due
  /\ \/ Conceal
     \/ ~Missing /\ UNCHANGED <<last_emitted, out>>
  /\ UNCHANGED <<now, captured, wire, clock_offset, received, played, dropped_duplicate>>

Next ==
  \/ Elapse \/ Capture \/ Play \/ PlayNothing
  \/ \E ts \in wire : Lose(ts) \/ Arrive(ts)

Spec == Init /\ [][Next]_vars

-------------------------------------------------------------------------------

\* What is emitted is in order, across frames that overtake one another, an offset
\* that moves while they wait, and sentinels: a frame does not follow the sentinel
\* that stood for it.  See Playout.
P == INSTANCE Playout
InOrder == P!PlayoutSpec

\* What it rests on: nothing in the queue is out of turn, and nothing is put out that
\* is later than last_emitted.
QueueInTurn == \A ts \in queue : last_emitted # None => last_emitted < ts
LastIsLast  == \A i \in DOMAIN out : \A ts \in out[i] : last_emitted # None /\ ts <= last_emitted

\* The statistics add up: each frame received is played, dropped or in the queue.
Accounted == received = played + dropped_late + dropped_duplicate + Cardinality(queue)
===============================================================================

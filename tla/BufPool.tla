-------------------------------- MODULE BufPool --------------------------------
(***************************************************************************)
(* The pool of buffers (src/src/pool.rs): buffers that one thread checks   *)
(* out and fills, and then shares by handles that threads clone and drop   *)
(* in any order; the last one to go puts the buffer back.                  *)
(*                                                                         *)
(* A buffer is the heap allocation of a Vec, whichever Vec it is in, and a *)
(* number.  data is what that Vec holds.  Who has which handle is up to    *)
(* the module that uses the pool; Next is what its users may do.           *)
(***************************************************************************)
EXTENDS Integers, Sequences

CONSTANTS
  Buffers,   \* bound: the buffers that can be allocated are 1..Buffers
  Contents   \* what a user may write, sequences over the pool's type; Zero is T::default()

Zero == 0

ASSUME BufPoolAssumption ==
  Buffers \in Nat /\ Contents \subseteq Seq(Nat)

VARIABLES
  made,      \* how many buffers have been allocated
  free,      \* BufPool.inner, a stack
  place,     \* where a buffer is, one of Places
  handles,   \* how many SharedBufs refer to it
  data

poolVars == <<made, free, place, handles, data>>

Ids == 1..Buffers

\* Not allocated; in the free list; owned by a PoolBuf; shared; and on its way back,
\* with no handle left and the lock not yet taken.
Places == {"none", "free", "owned", "shared", "returning"}

PoolInit ==
  /\ made = 0 /\ free = <<>>
  /\ place = [b \in Ids |-> "none"]
  /\ handles = [b \in Ids |-> 0]
  /\ data = [b \in Ids |-> <<>>]

\* The buffer that a checkout gets: the last of the free list or a new one.
Popped == IF free # <<>> THEN free[Len(free)] ELSE made + 1

Pop ==
  /\ Popped \in Ids
  /\ \/ free # <<>> /\ free' = SubSeq(free, 1, Len(free) - 1) /\ UNCHANGED made
     \/ free = <<>> /\ made' = made + 1 /\ UNCHANGED free
  /\ place' = [place EXCEPT ![Popped] = "owned"]
  /\ UNCHANGED handles

CheckoutEmpty ==
  /\ Pop
  /\ data' = [data EXCEPT ![Popped] = <<>>]

\* The contents cut or filled up with zeroes.
Resized(d, len) == [i \in 1..len |-> IF i <= Len(d) THEN d[i] ELSE Zero]

Checkout(len) ==
  /\ Pop
  /\ data' = [data EXCEPT ![Popped] = Resized(@, len)]

\* Mutant: share leaves the buffer in the PoolBuf, whose drop puts it back as well.
Share_NotTaken(b, d) ==
  /\ place[b] = "owned"
  /\ place' = [place EXCEPT ![b] = "shared"]
  /\ handles' = [handles EXCEPT ![b] = 1]
  /\ data' = [data EXCEPT ![b] = d]
  /\ free' = Append(free, b)
  /\ UNCHANGED made

\* The owner has filled the buffer with d, by writing to it, pushing or truncating,
\* which nobody else sees, and shares it.
Share(b, d) ==
  /\ place[b] = "owned"
  /\ place' = [place EXCEPT ![b] = "shared"]
  /\ handles' = [handles EXCEPT ![b] = 1]
  /\ data' = [data EXCEPT ![b] = d]
  /\ UNCHANGED <<made, free>>

Clone(b) ==
  /\ place[b] = "shared"
  /\ handles' = [handles EXCEPT ![b] = @ + 1]
  /\ UNCHANGED <<made, free, place, data>>

\* A PoolBuf is dropped and clears its buffer.
DropOwned(b) ==
  /\ place[b] = "owned"
  /\ place' = [place EXCEPT ![b] = "returning"]
  /\ data' = [data EXCEPT ![b] = <<>>]
  /\ UNCHANGED <<made, free, handles>>

\* Mutant: the buffer goes back with what it held.
DropShared_Uncleared(b) ==
  /\ place[b] = "shared"
  /\ handles' = [handles EXCEPT ![b] = @ - 1]
  /\ place' = [place EXCEPT ![b] = IF handles[b] = 1 THEN "returning" ELSE @]
  /\ UNCHANGED <<made, free, data>>

\* A SharedBuf is dropped; the last one clears the buffer.
DropShared(b) ==
  /\ place[b] = "shared"
  /\ handles' = [handles EXCEPT ![b] = @ - 1]
  /\ IF handles[b] = 1
       THEN /\ place' = [place EXCEPT ![b] = "returning"]
            /\ data' = [data EXCEPT ![b] = <<>>]
       ELSE UNCHANGED <<place, data>>
  /\ UNCHANGED <<made, free>>

\* Whoever dropped the last handle has the lock.
PushBack(b) ==
  /\ place[b] = "returning"
  /\ free' = Append(free, b)
  /\ place' = [place EXCEPT ![b] = "free"]
  /\ UNCHANGED <<made, handles, data>>

PoolNext ==
  \/ CheckoutEmpty
  \/ \E d \in Contents : Checkout(Len(d))
  \/ \E b \in Ids :
       \/ \E d \in Contents : Share(b, d)
       \/ Clone(b) \/ DropOwned(b) \/ DropShared(b) \/ PushBack(b)

PoolSpec == PoolInit /\ [][PoolNext]_poolVars

-------------------------------------------------------------------------------

\* What buffers hold is their users' business.
PoolTypeOK ==
  /\ made \in 0..Buffers
  /\ free \in Seq(Ids)
  /\ place \in [Ids -> Places]
  /\ handles \in [Ids -> Nat]
  /\ DOMAIN data = Ids

\* A buffer is in one place, for all orders in which threads drop their handles: it
\* is in the free list, once, if and only if nobody can reach it any more, and a
\* checkout never hands out a buffer that somebody still reads.
OneHome ==
  /\ \A i, j \in DOMAIN free : free[i] = free[j] => i = j
  /\ \A b \in Ids : place[b] = "free" <=> \E i \in DOMAIN free : free[i] = b
  /\ \A b \in Ids : handles[b] > 0 <=> place[b] = "shared"
  /\ \A b \in Ids : place[b] = "none" <=> b > made

\* What the mixer relies on ("checkout gives us a zeroed buffer", audio_mixer.rs:56)
\* although checkout does not promise it: nothing of an earlier use is left in a buffer
\* of the free list, so that resizing fills it with zeroes.
FreeIsEmpty == \A i \in DOMAIN free : data[free[i]] = <<>>
===============================================================================

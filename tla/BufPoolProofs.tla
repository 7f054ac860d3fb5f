----------------------------- MODULE BufPoolProofs -----------------------------
(***************************************************************************)
(* Proofs about BufPool, for any number of buffers and any contents: the   *)
(* free list holds the buffers nobody can reach, each of them once, and    *)
(* they are empty.                                                         *)
(***************************************************************************)
EXTENDS BufPool, TLAPS

\* A buffer on its way back to the free list is empty like those that are in it.
ReturningEmpty == \A b \in Ids : place[b] \in {"free", "returning"} => data[b] = <<>>

PoolInv == PoolTypeOK /\ OneHome /\ ReturningEmpty

\* A checkout gets a buffer that is in the free list or new, and nobody else's.
LEMMA PoppedIsNobodys ==
  ASSUME PoolInv, Popped \in Ids
  PROVE  /\ free # <<>> => place[Popped] = "free" /\ data[Popped] = <<>>
         /\ free = <<>> => place[Popped] = "none"
         /\ handles[Popped] = 0
<1>1. CASE free # <<>>
  <2>1. Len(free) \in DOMAIN free /\ Popped = free[Len(free)]
    <3>1. free \in Seq(Ids)
      BY DEF PoolInv, PoolTypeOK
    <3>2. Len(free) \in Nat \ {0} /\ DOMAIN free = 1..Len(free)
      BY <1>1, <3>1
    <3> QED BY <1>1, <3>2 DEF Popped
  <2>2. place[Popped] = "free"
    BY <2>1 DEF PoolInv, OneHome
  <2>3. data[Popped] = <<>>
    BY <2>2 DEF PoolInv, ReturningEmpty
  <2>4. handles[Popped] = 0
    BY <2>2 DEF PoolInv, PoolTypeOK, OneHome
  <2> QED BY <1>1, <2>2, <2>3, <2>4
<1>2. CASE free = <<>>
  <2>1. Popped = made + 1 /\ made \in Nat
    BY <1>2, BufPoolAssumption DEF PoolInv, PoolTypeOK, Popped
  <2>2. place[Popped] = "none"
    BY <2>1 DEF PoolInv, OneHome
  <2> QED BY <1>2, <2>2 DEF PoolInv, PoolTypeOK, OneHome
<1> QED BY <1>1, <1>2

\* A checkout, whatever it does to the contents, keeps the invariant.
LEMMA PopKeeps ==
  ASSUME PoolInv, Pop, NEW d, data' = [data EXCEPT ![Popped] = d]
  PROVE  PoolInv'
<1>1. Popped \in Ids /\ place' = [place EXCEPT ![Popped] = "owned"] /\ handles' = handles
  BY DEF Pop
<1>2. /\ free # <<>> => place[Popped] = "free"
      /\ free = <<>> => place[Popped] = "none"
      /\ handles[Popped] = 0
  BY <1>1, PoppedIsNobodys
<1>3. CASE free # <<>>
  <2>1. /\ free' = SubSeq(free, 1, Len(free) - 1) /\ made' = made
        /\ Len(free) \in Nat \ {0} /\ Popped = free[Len(free)]
    BY <1>3 DEF Pop, Popped, PoolInv, PoolTypeOK
  <2>2. /\ free' \in Seq(Ids) /\ DOMAIN free' = 1..Len(free) - 1
        /\ DOMAIN free = 1..Len(free)
        /\ \A i \in DOMAIN free' : free'[i] = free[i]
    BY <2>1 DEF PoolInv, PoolTypeOK
  <2>3. \A i \in DOMAIN free' : free'[i] # Popped
    BY <2>1, <2>2 DEF PoolInv, OneHome
  <2>4. PoolTypeOK'
    BY <1>1, <2>1, <2>2 DEF PoolInv, PoolTypeOK, Places
  <2>5. OneHome'
    <3>1. \A i, j \in DOMAIN free' : free'[i] = free'[j] => i = j
      BY <2>1, <2>2 DEF PoolInv, OneHome
    <3>2. ASSUME NEW b \in Ids
          PROVE  place'[b] = "free" <=> \E i \in DOMAIN free' : free'[i] = b
      <4>1. CASE b = Popped
        BY <4>1, <1>1, <2>3 DEF PoolInv, PoolTypeOK
      <4>2. CASE b # Popped
        <5>1. place'[b] = place[b]
          BY <4>2, <1>1 DEF PoolInv, PoolTypeOK
        <5>2. (\E i \in DOMAIN free : free[i] = b) <=> \E i \in DOMAIN free' : free'[i] = b
          <6>1. \A i \in DOMAIN free : free[i] = b => i \in DOMAIN free'
            BY <4>2, <2>1, <2>2
          <6>2. \A i \in DOMAIN free' : i \in DOMAIN free
            BY <2>1, <2>2
          <6> QED BY <6>1, <6>2, <2>2
        <5> QED BY <5>1, <5>2 DEF PoolInv, OneHome
      <4> QED BY <4>1, <4>2
    <3>3. \A b \in Ids : handles'[b] > 0 <=> place'[b] = "shared"
      BY <1>1, <1>2 DEF PoolInv, PoolTypeOK, OneHome
    <3>4. \A b \in Ids : place'[b] = "none" <=> b > made'
      BY <1>1, <1>2, <1>3, <2>1 DEF PoolInv, PoolTypeOK, OneHome
    <3> QED BY <3>1, <3>2, <3>3, <3>4 DEF OneHome
  <2> QED BY <1>1, <2>4, <2>5 DEF PoolInv, PoolTypeOK, ReturningEmpty
<1>4. CASE free = <<>>
  <2>1. free' = <<>> /\ made' = made + 1 /\ Popped = made + 1 /\ made \in Nat
    BY <1>4, BufPoolAssumption DEF Pop, Popped, PoolInv, PoolTypeOK
  <2>2. PoolTypeOK'
    BY <1>1, <2>1, BufPoolAssumption DEF PoolInv, PoolTypeOK, Places, Ids
  <2>3. OneHome'
    BY <1>1, <1>2, <1>4, <2>1, BufPoolAssumption DEF PoolInv, PoolTypeOK, OneHome, Ids
  <2> QED BY <1>1, <2>2, <2>3 DEF PoolInv, PoolTypeOK, ReturningEmpty
<1> QED BY <1>3, <1>4

\* Dropping keeps it too, the last handle and the others.
LEMMA DropKeeps ==
  ASSUME PoolInv, NEW b \in Ids, DropOwned(b) \/ DropShared(b)
  PROVE  PoolInv'
<1> USE DEF PoolInv
<1>1. CASE DropOwned(b)
  <2>1. PoolTypeOK' /\ ReturningEmpty'
    BY <1>1 DEF DropOwned, PoolTypeOK, ReturningEmpty, Places
  <2>2. OneHome'
    BY <1>1 DEF DropOwned, PoolTypeOK, OneHome
  <2> QED BY <2>1, <2>2
<1>2. CASE DropShared(b)
  <2>1. handles[b] \in Nat \ {0}
    BY <1>2 DEF DropShared, PoolTypeOK, OneHome
  <2>2. CASE handles[b] = 1
    <3>1. /\ handles' = [handles EXCEPT ![b] = 0]
          /\ place' = [place EXCEPT ![b] = "returning"] /\ data' = [data EXCEPT ![b] = <<>>]
          /\ UNCHANGED <<made, free>>
      BY <1>2, <2>1, <2>2 DEF DropShared
    <3>2. PoolTypeOK' /\ ReturningEmpty'
      BY <3>1 DEF PoolTypeOK, ReturningEmpty, Places
    <3>3. OneHome'
      BY <1>2, <3>1 DEF DropShared, PoolTypeOK, OneHome
    <3> QED BY <3>2, <3>3
  <2>3. CASE handles[b] # 1
    <3>1. /\ handles' = [handles EXCEPT ![b] = handles[b] - 1]
          /\ UNCHANGED <<made, free, place, data>>
      BY <1>2, <2>1, <2>3 DEF DropShared
    <3>2. PoolTypeOK' /\ ReturningEmpty'
      BY <2>1, <3>1 DEF PoolTypeOK, ReturningEmpty
    <3>3. OneHome'
      BY <1>2, <2>1, <2>3, <3>1 DEF DropShared, PoolTypeOK, OneHome
    <3> QED BY <3>2, <3>3
  <2> QED BY <2>2, <2>3
<1> QED BY <1>1, <1>2

LEMMA PushBackKeeps ==
  ASSUME PoolInv, NEW b \in Ids, PushBack(b)
  PROVE  PoolInv'
<1> USE DEF PoolInv
<1>1. /\ free' \in Seq(Ids) /\ DOMAIN free = 1..Len(free) /\ Len(free) \in Nat
      /\ DOMAIN free' = 1..Len(free) + 1
      /\ Len(free) + 1 \in DOMAIN free' /\ free'[Len(free) + 1] = b
      /\ \A i \in DOMAIN free : free'[i] = free[i]
  BY DEF PushBack, PoolTypeOK
<1>2. place[b] = "returning" /\ \A i \in DOMAIN free : free[i] # b
  BY DEF PushBack, OneHome
<1>3. PoolTypeOK' /\ ReturningEmpty'
  BY <1>1 DEF PushBack, PoolTypeOK, ReturningEmpty, Places
<1>4. \A i, j \in DOMAIN free' : free'[i] = free'[j] => i = j
  BY <1>1, <1>2 DEF OneHome
<1>5. ASSUME NEW c \in Ids
      PROVE  place'[c] = "free" <=> \E i \in DOMAIN free' : free'[i] = c
  <2>1. CASE c = b
    <3>1. place'[c] = "free"
      BY <2>1 DEF PushBack, PoolTypeOK
    <3> QED BY <2>1, <3>1, <1>1
  <2>2. CASE c # b
    BY <2>2, <1>1 DEF PushBack, PoolTypeOK, OneHome
  <2> QED BY <2>1, <2>2
<1>6. /\ \A c \in Ids : handles'[c] > 0 <=> place'[c] = "shared"
      /\ \A c \in Ids : place'[c] = "none" <=> c > made'
  BY <1>2 DEF PushBack, PoolTypeOK, OneHome
<1> QED BY <1>3, <1>4, <1>5, <1>6 DEF OneHome

\* Sharing and cloning, whatever the contents are.
LEMMA ShareKeeps ==
  ASSUME PoolInv, NEW b \in Ids, NEW d, Share(b, d)
  PROVE  PoolInv'
<1>1. PoolTypeOK' /\ ReturningEmpty'
  BY DEF Share, PoolInv, PoolTypeOK, ReturningEmpty, Places
<1>2. OneHome'
  BY DEF Share, PoolInv, PoolTypeOK, OneHome
<1> QED BY <1>1, <1>2 DEF PoolInv

LEMMA CloneKeeps ==
  ASSUME PoolInv, NEW b \in Ids, Clone(b)
  PROVE  PoolInv'
<1>1. PoolTypeOK' /\ ReturningEmpty'
  BY DEF Clone, PoolInv, PoolTypeOK, ReturningEmpty
<1>2. OneHome'
  BY DEF Clone, PoolInv, PoolTypeOK, OneHome
<1> QED BY <1>1, <1>2 DEF PoolInv

LEMMA CheckoutKeeps ==
  ASSUME PoolInv, NEW len, Checkout(len)
  PROVE  PoolInv'
BY PopKeeps DEF Checkout

\* No other buffer than the one that is shared or cleared changes its contents.
LEMMA ContentsKept ==
  ASSUME PoolInv,
         \/ \E len : Checkout(len)
         \/ \E b \in Ids : Clone(b) \/ DropOwned(b) \/ DropShared(b) \/ PushBack(b)
  PROVE  \A b \in Ids : place'[b] \in {"owned", "shared"} =>
           \/ place[b] = place'[b] /\ data'[b] = data[b]
           \/ place[b] \in {"none", "free"} /\ b = Popped
<1>1. CASE \E len : Checkout(len)
  BY <1>1, PoppedIsNobodys DEF Checkout, Pop, PoolInv, PoolTypeOK
<1>2. CASE \E b \in Ids : Clone(b) \/ DropOwned(b) \/ DropShared(b) \/ PushBack(b)
  BY <1>2 DEF Clone, DropOwned, DropShared, PushBack, PoolInv, PoolTypeOK
<1> QED BY <1>1, <1>2

LEMMA NextKeeps == PoolInv /\ [PoolNext]_poolVars => PoolInv'
<1> SUFFICES ASSUME PoolInv, [PoolNext]_poolVars PROVE PoolInv'
  OBVIOUS
<1>1. CASE UNCHANGED poolVars
  BY <1>1 DEF poolVars, PoolInv, PoolTypeOK, OneHome, ReturningEmpty
<1>2. CASE CheckoutEmpty
  BY <1>2, PopKeeps DEF CheckoutEmpty
<1>3. ASSUME NEW d \in Contents, Checkout(Len(d)) PROVE PoolInv'
  BY <1>3, CheckoutKeeps
<1>4. ASSUME NEW b \in Ids, NEW d \in Contents, Share(b, d) PROVE PoolInv'
  BY <1>4, ShareKeeps
<1>5. ASSUME NEW b \in Ids, Clone(b) PROVE PoolInv'
  BY <1>5, CloneKeeps
<1>6. ASSUME NEW b \in Ids, DropOwned(b) \/ DropShared(b) \/ PushBack(b) PROVE PoolInv'
  BY <1>6, DropKeeps, PushBackKeeps
<1> QED BY <1>1, <1>2, <1>3, <1>4, <1>5, <1>6 DEF PoolNext

LEMMA PoolInvInit == PoolInit => PoolInv
BY BufPoolAssumption DEF PoolInit, PoolInv, PoolTypeOK, OneHome, ReturningEmpty, Places, Ids

LEMMA FreeListEmpty == PoolInv => FreeIsEmpty
<1> SUFFICES ASSUME PoolInv, NEW i \in DOMAIN free PROVE data[free[i]] = <<>>
  BY DEF FreeIsEmpty
<1>1. free[i] \in Ids
  BY DEF PoolInv, PoolTypeOK
<1>2. place[free[i]] = "free"
  BY <1>1 DEF PoolInv, OneHome
<1> QED BY <1>1, <1>2 DEF PoolInv, ReturningEmpty

LEMMA PoolInvHolds == PoolSpec => []PoolInv
BY PoolInvInit, NextKeeps, PTL DEF PoolSpec

\* However users of the pool check out, clone, share and drop, a buffer has one home:
\* pool.rs hands no buffer out that someone can still reach, and loses none.
THEOREM EachOneHome == PoolSpec => []OneHome
<1>1. PoolInv => OneHome
  BY DEF PoolInv
<1> QED BY <1>1, PoolInvHolds, PTL

\* A buffer of the free list is empty, so that checkout returns zeroes, as the mixer
\* needs it to.
THEOREM FreeAlwaysEmpty == PoolSpec => []FreeIsEmpty
BY PoolInvHolds, FreeListEmpty, PTL
===============================================================================

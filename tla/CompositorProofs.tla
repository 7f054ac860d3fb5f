--------------------------- MODULE CompositorProofs ---------------------------
(***************************************************************************)
(* GhostsExplained and NamesInStep hold for every set of peers and names   *)
(* and every capacity of the channels.                                     *)
(*                                                                         *)
(* NamesInStep speaks of the whole channel and is inductive, given that    *)
(* the room has recorded no name for a peer that is not in its map: a peer *)
(* that is added without a name sends nothing, and must find itself        *)
(* nameless in what is in the channel already.                             *)
(***************************************************************************)
EXTENDS Compositor, TLAPS

Labels == Names \cup {None}

Commands ==
  ({"counter", "remove"} \X Peers) \cup ({"name"} \X Peers \X Labels)
    \cup ({"kind"} \X Peers \X {Unknown, Direct, Local})

CmdsOK == cmds \in Seq(Commands)

NamesOK ==
  /\ names \in [Peers -> Labels] /\ known \in [Remotes -> Labels]
  /\ \A p \in Remotes : p \notin sessions => known[p] = None

IInv == CmdsOK /\ NamesOK /\ GhostsExplained /\ NamesInStep

-------------------------------------------------------------------------------
(* The channel of commands. *)

\* t is s with x at its end, or s if that is full.
Taken(s, t, x, cap) ==
  /\ Len(s) <= Len(t)
  /\ \A i \in 1..Len(s) : t[i] = s[i]
  /\ \A i \in 1..Len(t) : i > Len(s) => t[i] = x
  /\ Len(s) < cap => Len(t) = Len(s) + 1 /\ t[Len(s) + 1] = x
  /\ Len(s) >= cap => t = s

LEMMA SentTaken ==
  ASSUME NEW S, NEW s \in Seq(S), NEW x \in S, NEW cap \in Nat
  PROVE  Sent(s, x, cap) \in Seq(S) /\ Taken(s, Sent(s, x, cap), x, cap)
<1>1. CASE Len(s) < cap
  BY <1>1 DEF Sent, Taken
<1>2. CASE ~(Len(s) < cap)
  BY <1>2 DEF Sent, Taken
<1> QED BY <1>1, <1>2

Grows == /\ CmdsOK /\ CmdsOK'
         /\ Len(cmds) <= Len(cmds')
         /\ \A i \in 1..Len(cmds) : cmds'[i] = cmds[i]

\* What is in the channel stays in it while others are sent.
LEMMA QueuedKept ==
  ASSUME Grows, NEW kind, NEW p, Queued(kind, p)
  PROVE  Queued(kind, p)'
BY DEF Grows, CmdsOK, Queued

\* So does what it will call p, if no command about that is sent.
LEMMA CalledKept ==
  ASSUME Grows, NEW p, NEW name, Called(p, name), names'[p] = names[p],
         \A i \in 1..Len(cmds') : i > Len(cmds) => ~Renames(cmds'[i], p)
  PROVE  Called(p, name)'
<1>1. DOMAIN cmds = 1..Len(cmds) /\ DOMAIN cmds' = 1..Len(cmds')
      /\ Len(cmds) \in Nat /\ Len(cmds') \in Nat
  BY DEF Grows, CmdsOK
<1>2. \A i \in 1..Len(cmds') : i \notin 1..Len(cmds) => ~Renames(cmds'[i], p)
  BY <1>1
<1>3. \A i \in 1..Len(cmds) : i \in 1..Len(cmds') /\ cmds'[i] = cmds[i]
  BY <1>1 DEF Grows
<1>4. CASE (\A i \in DOMAIN cmds : ~Renames(cmds[i], p)) /\ names[p] = name
  <2>1. \A i \in DOMAIN cmds' : ~Renames(cmds'[i], p)
    BY <1>1, <1>2, <1>3, <1>4
  <2> QED BY <2>1, <1>4 DEF Called
<1>5. CASE \E i \in DOMAIN cmds :
             /\ Renames(cmds[i], p) /\ NameAfter(cmds[i]) = name
             /\ \A j \in DOMAIN cmds : j > i => ~Renames(cmds[j], p)
  <2>1. PICK i \in DOMAIN cmds :
          /\ Renames(cmds[i], p) /\ NameAfter(cmds[i]) = name
          /\ \A j \in DOMAIN cmds : j > i => ~Renames(cmds[j], p)
    BY <1>5
  <2>2. i \in DOMAIN cmds' /\ Renames(cmds'[i], p) /\ NameAfter(cmds'[i]) = name
    BY <2>1, <1>1, <1>3
  <2>3. \A j \in DOMAIN cmds' : j > i => ~Renames(cmds'[j], p)
    BY <2>1, <1>1, <1>2, <1>3
  <2> QED BY <2>2, <2>3 DEF Called
<1> QED BY <1>4, <1>5 DEF Called

\* A command about p at the end says what p is called.
LEMMA CalledByLast ==
  ASSUME CmdsOK', NEW p, NEW c, Len(cmds') # 0, cmds'[Len(cmds')] = c, Renames(c, p)
  PROVE  Called(p, NameAfter(c))'
<1>1. DOMAIN cmds' = 1..Len(cmds') /\ Len(cmds') \in 1..Len(cmds')
  BY DEF CmdsOK
<1>2. \A j \in 1..Len(cmds') : ~(j > Len(cmds'))
  BY <1>1
<1>3. Renames(cmds'[Len(cmds')], p) /\ NameAfter(cmds'[Len(cmds')]) = NameAfter(c)
  OBVIOUS
<1> QED BY <1>1, <1>2, <1>3 DEF Called

\* Taking the first command, with its effect on the name, changes nothing about that.
LEMMA TakenFirst ==
  ASSUME CmdsOK, cmds # <<>>, cmds' = Tail(cmds)
  PROVE  /\ CmdsOK'
         /\ \A kind, p : Queued(kind, p) /\ ~(Head(cmds)[1] = kind /\ Head(cmds)[2] = p)
                           => Queued(kind, p)'
         /\ \A p, name :
              /\ Called(p, name)
              /\ names'[p] = IF Renames(Head(cmds), p) THEN NameAfter(Head(cmds)) ELSE names[p]
              => Called(p, name)'
<1>1. /\ CmdsOK' /\ Len(cmds') = Len(cmds) - 1 /\ Head(cmds) = cmds[1] /\ Len(cmds) \in Nat
      /\ Len(cmds) >= 1
      /\ \A i \in 1..Len(cmds') : cmds'[i] = cmds[i + 1]
      /\ DOMAIN cmds = 1..Len(cmds) /\ DOMAIN cmds' = 1..Len(cmds')
  BY DEF CmdsOK
<1>2. ASSUME NEW i \in 1..Len(cmds), i # 1
      PROVE  i - 1 \in 1..Len(cmds') /\ cmds'[i - 1] = cmds[i]
  BY <1>1, <1>2
<1>3. ASSUME NEW kind, NEW p, Queued(kind, p), ~(Head(cmds)[1] = kind /\ Head(cmds)[2] = p)
      PROVE  Queued(kind, p)'
  <2>1. PICK i \in 1..Len(cmds) : cmds[i][1] = kind /\ cmds[i][2] = p
    BY <1>3 DEF Queued, CmdsOK
  <2>2. i # 1
    BY <1>1, <1>3, <2>1
  <2> QED BY <1>1, <1>2, <2>1, <2>2 DEF Queued
<1>4. ASSUME NEW p, NEW name, Called(p, name),
             names'[p] = IF Renames(Head(cmds), p) THEN NameAfter(Head(cmds)) ELSE names[p]
      PROVE  Called(p, name)'
  <2>1. CASE (\A i \in DOMAIN cmds : ~Renames(cmds[i], p)) /\ names[p] = name
    <3>1. names'[p] = name
      BY <1>1, <1>4, <2>1
    <3>2. \A i \in 1..Len(cmds') : i + 1 \in 1..Len(cmds)
      BY <1>1
    <3>3. \A i \in DOMAIN cmds' : ~Renames(cmds'[i], p)
      BY <1>1, <2>1, <3>2
    <3> QED BY <3>1, <3>3 DEF Called
  <2>2. CASE \E i \in DOMAIN cmds :
               /\ Renames(cmds[i], p) /\ NameAfter(cmds[i]) = name
               /\ \A j \in DOMAIN cmds : j > i => ~Renames(cmds[j], p)
    <3>1. PICK i \in 1..Len(cmds) :
            /\ Renames(cmds[i], p) /\ NameAfter(cmds[i]) = name
            /\ \A j \in 1..Len(cmds) : j > i => ~Renames(cmds[j], p)
      BY <1>1, <2>2
    <3>2. ASSUME NEW j \in 1..Len(cmds'), j + 1 > i
          PROVE  ~Renames(cmds'[j], p)
      <4>1. j + 1 \in 1..Len(cmds) /\ cmds'[j] = cmds[j + 1]
        BY <1>1
      <4> QED BY <3>1, <3>2, <4>1
    <3>3. CASE i = 1
      <4>1. names'[p] = name
        BY <1>1, <1>4, <3>1, <3>3
      <4>2. \A j \in 1..Len(cmds') : j + 1 > i
        BY <3>3
      <4>3. \A j \in DOMAIN cmds' : ~Renames(cmds'[j], p)
        BY <1>1, <3>2, <4>2
      <4> QED BY <4>1, <4>3 DEF Called
    <3>4. CASE i # 1
      <4>1. i - 1 \in DOMAIN cmds' /\ cmds'[i - 1] = cmds[i]
        BY <1>1, <1>2, <3>4
      <4>2. \A j \in DOMAIN cmds' : j > i - 1 => ~Renames(cmds'[j], p)
        BY <1>1, <3>2
      <4>3. Renames(cmds'[i - 1], p) /\ NameAfter(cmds'[i - 1]) = name
        BY <3>1, <4>1
      <4> QED BY <4>1, <4>2, <4>3 DEF Called
    <3> QED BY <3>3, <3>4
  <2> QED BY <2>1, <2>2, <1>4 DEF Called
<1> QED BY <1>1, <1>3, <1>4

\* The channel t is the channel cmds with nothing about p behind it but a counter.
Counted(t, p) ==
  /\ t \in Seq(Commands) /\ Len(cmds) <= Len(t)
  /\ \A i \in 1..Len(cmds) : t[i] = cmds[i]
  /\ \A i \in 1..Len(t) : i > Len(cmds) => t[i] = <<"counter", p>>

\* What the room tells of p is at the end of the channel, or lost, and concerns p alone.
LEMMA TellIs ==
  ASSUME CmdsOK, NEW p \in Remotes, NEW t, Counted(t, p), NEW c \in Commands, Tell(p, t, c)
  PROVE  /\ Grows
         /\ \A i \in 1..Len(cmds') : i > Len(cmds) => cmds'[i] \in {<<"counter", p>>, c}
         /\ p \in lost' \/ (Len(cmds') # 0 /\ cmds'[Len(cmds')] = c)
         /\ \A q : q # p => (q \in lost' <=> q \in lost)
<1>0. CmdCap \in Nat
  BY CompositorAssumption
<1>1. t \in Seq(Commands) /\ cmds' = Sent(t, c, CmdCap)
  BY DEF Counted, Tell
<1>2. cmds' \in Seq(Commands) /\ Taken(t, cmds', c, CmdCap)
  BY <1>0, <1>1, SentTaken
<1>3. Len(cmds) \in Nat /\ Len(t) \in Nat /\ Len(cmds') \in Nat /\ Len(cmds) <= Len(t)
  BY <1>1, <1>2 DEF CmdsOK, Counted
<1>4. Len(t) <= Len(cmds') /\ \A i \in 1..Len(t) : cmds'[i] = t[i]
  BY <1>2 DEF Taken
<1>5. Grows
  <2>1. ASSUME NEW i \in 1..Len(cmds) PROVE cmds'[i] = cmds[i]
    <3>1. i \in 1..Len(t) /\ t[i] = cmds[i]
      BY <1>3 DEF Counted
    <3> QED BY <3>1, <1>4
  <2>2. CmdsOK' /\ Len(cmds) <= Len(cmds')
    BY <1>2, <1>3, <1>4 DEF CmdsOK
  <2> QED BY <2>1, <2>2 DEF Grows
<1>6. ASSUME NEW i \in 1..Len(cmds'), i > Len(cmds)
      PROVE  cmds'[i] \in {<<"counter", p>>, c}
  <2>1. CASE i > Len(t)
    BY <2>1, <1>2 DEF Taken
  <2>2. CASE ~(i > Len(t))
    <3>1. i \in 1..Len(t)
      BY <2>2, <1>3
    <3> QED BY <3>1, <1>4, <1>6 DEF Counted
  <2> QED BY <2>1, <2>2
<1>7. p \in lost' \/ (Len(cmds') # 0 /\ cmds'[Len(cmds')] = c)
  <2>1. CASE Len(t) < CmdCap
    <3>1. Len(cmds') = Len(t) + 1 /\ cmds'[Len(t) + 1] = c
      BY <1>2, <2>1 DEF Taken
    <3> QED BY <3>1, <1>3
  <2>2. CASE ~(Len(t) < CmdCap)
    BY <2>2 DEF Tell
  <2> QED BY <2>1, <2>2
<1>8. \A q : q # p => (q \in lost' <=> q \in lost)
  BY DEF Tell
<1> QED BY <1>5, <1>6, <1>7, <1>8

\* So names stay in step when the room tells what it has recorded.
LEMMA TellInStep ==
  ASSUME IInv, NEW p \in Remotes, NEW t, Counted(t, p), NEW c \in Commands, Tell(p, t, c),
         Renames(c, p), known' = [known EXCEPT ![p] = NameAfter(c)], names' = names
  PROVE  Grows /\ NamesInStep'
<1>0. CmdsOK /\ NamesOK /\ NamesInStep
  BY DEF IInv
<1>1. /\ Grows
      /\ \A i \in 1..Len(cmds') : i > Len(cmds) => cmds'[i] \in {<<"counter", p>>, c}
      /\ p \in lost' \/ (Len(cmds') # 0 /\ cmds'[Len(cmds')] = c)
      /\ \A q : q # p => (q \in lost' <=> q \in lost)
  BY <1>0, TellIs
<1>2. CmdsOK'
  BY <1>1 DEF Grows
<1>3. ASSUME NEW q \in Remotes, q \notin lost'
      PROVE  Called(q, known[q])'
  <2>1. CASE q = p
    <3>1. Called(p, NameAfter(c))'
      BY <1>1, <1>2, <1>3, <2>1, CalledByLast
    <3>2. known'[p] = NameAfter(c)
      BY <1>0 DEF NamesOK
    <3> QED BY <2>1, <3>1, <3>2 DEF Called
  <2>2. CASE q # p
    <3>1. q \notin lost /\ Called(q, known[q])
      BY <1>0, <1>1, <1>3, <2>2 DEF NamesInStep
    <3>2. <<"counter", p>>[2] # q /\ c[2] # q
      BY <2>2 DEF Renames
    <3>3. \A i \in 1..Len(cmds') : i > Len(cmds) => ~Renames(cmds'[i], q)
      BY <1>1, <3>2 DEF Renames
    <3>4. Called(q, known[q])' \/ known'[q] # known[q]
      <4>1. names'[q] = names[q]
        OBVIOUS
      <4>2. PICK n : n = known[q]
        OBVIOUS
      <4>3. Called(q, n)
        BY <3>1, <4>2
      <4>4. Called(q, n)'
        BY <1>1, <3>3, <4>1, <4>3, CalledKept
      <4> QED BY <4>2, <4>4
    <3>5. known'[q] = known[q]
      BY <1>0, <2>2 DEF NamesOK
    <3> QED BY <3>4, <3>5
  <2> QED BY <2>1, <2>2
<1> QED BY <1>1, <1>3 DEF NamesInStep

-------------------------------------------------------------------------------
(* The actions. *)

LEMMA InitIInv == Init => IInv
<1> SUFFICES ASSUME Init PROVE IInv
  OBVIOUS
<1> USE CompositorAssumption
<1>1. CmdsOK
  BY DEF Init, CmdsOK, Commands, Peers, Labels
<1>2. \A i \in DOMAIN cmds : cmds[i][2] = Self
  BY DEF Init
<1>3. NamesOK
  BY DEF Init, NamesOK, Labels
<1>4. NamesInStep
  <2> SUFFICES ASSUME NEW p \in Remotes PROVE Called(p, known[p])
    BY DEF NamesInStep
  <2>1. \A i \in DOMAIN cmds : ~Renames(cmds[i], p)
    BY <1>2 DEF Renames
  <2>2. names[p] = known[p]
    BY DEF Init, Peers
  <2> QED BY <2>1, <2>2 DEF Called
<1> QED BY <1>1, <1>3, <1>4 DEF Init, IInv, GhostsExplained

\* A command that is not about names or the end of a peer leaves names in step.
LEMMA UntoldInStep ==
  ASSUME IInv, Grows, lost' = lost, names' = names, known' = known,
         \A i \in 1..Len(cmds') : i > Len(cmds) => cmds'[i][1] \notin {"name", "remove"}
  PROVE  NamesInStep'
<1> SUFFICES ASSUME NEW q \in Remotes, q \notin lost PROVE Called(q, known[q])'
  BY DEF NamesInStep
<1>1. PICK n : n = known[q]
  OBVIOUS
<1>2. Called(q, n)
  BY <1>1 DEF IInv, NamesInStep
<1>3. \A i \in 1..Len(cmds') : i > Len(cmds) => ~Renames(cmds'[i], q)
  BY DEF Renames
<1>4. Called(q, n)'
  BY <1>2, <1>3, CalledKept
<1> QED BY <1>1, <1>4

\* A counter makes the channel longer, or finds it full.
LEMMA CounterSent ==
  ASSUME CmdsOK, NEW p \in Remotes
  PROVE  Counted(Sent(cmds, <<"counter", p>>, CmdCap), p)
<1>1. CmdCap \in Nat /\ <<"counter", p>> \in Commands
  BY CompositorAssumption DEF Commands, Peers
<1>2. /\ Sent(cmds, <<"counter", p>>, CmdCap) \in Seq(Commands)
      /\ Taken(cmds, Sent(cmds, <<"counter", p>>, CmdCap), <<"counter", p>>, CmdCap)
  BY <1>1, SentTaken DEF CmdsOK
<1> QED BY <1>2 DEF Counted, Taken

\* A peer that is added tells its name, or has none in the channel and in the room.
LEMMA AddPeerIInv ==
  ASSUME IInv, NEW p \in Remotes, NEW name \in Labels, AddPeer(p, name) PROVE IInv'
<1> DEFINE t == Sent(cmds, <<"counter", p>>, CmdCap)
<1>1. CmdsOK /\ NamesOK
  BY DEF IInv
<1>2. Counted(t, p)
  BY <1>1, CounterSent
<1>3. /\ IF name = None THEN cmds' = t /\ lost' = lost ELSE Tell(p, t, <<"name", p, name>>)
      /\ p \notin sessions /\ sessions' = sessions \cup {p}
      /\ latest' = latest /\ names' = names /\ revived' = revived \ {p}
      /\ known' = [known EXCEPT ![p] = name]
  BY DEF AddPeer
<1> HIDE DEF t
<1>4. NamesOK'
  BY <1>1, <1>3 DEF NamesOK
<1>5. Grows /\ NamesInStep' /\ (\A q : q # p => (q \in lost' <=> q \in lost))
  <2>1. CASE name = None
    <3>1. cmds' = t /\ lost' = lost
      BY <1>3, <2>1
    <3>2. Grows
      BY <1>1, <1>2, <3>1 DEF Grows, Counted, CmdsOK
    <3>3. known' = known
      BY <1>1, <1>3, <2>1 DEF NamesOK
    <3>4. \A i \in 1..Len(cmds') : i > Len(cmds) => cmds'[i][1] \notin {"name", "remove"}
      BY <1>2, <3>1 DEF Counted
    <3>5. NamesInStep'
      BY <1>3, <3>1, <3>2, <3>3, <3>4, UntoldInStep
    <3> QED BY <3>1, <3>2, <3>5
  <2>2. CASE name # None
    <3> DEFINE c == <<"name", p, name>>
    <3>1. Tell(p, t, c)
      BY <1>3, <2>2
    <3>2. c \in Commands /\ Renames(c, p) /\ NameAfter(c) = name
      BY DEF Commands, Peers, Renames, NameAfter
    <3> HIDE DEF c
    <3>3. Grows /\ NamesInStep'
      BY <1>2, <1>3, <3>1, <3>2, TellInStep
    <3>4. \A q : q # p => (q \in lost' <=> q \in lost)
      BY <3>1 DEF Tell
    <3> QED BY <3>3, <3>4
  <2> QED BY <2>1, <2>2
<1>6. GhostsExplained'
  <2> SUFFICES ASSUME NEW q \in latest' \ (sessions' \cup {Self})
               PROVE  Queued("remove", q)' \/ q \in lost' \/ q \in revived'
    BY DEF GhostsExplained
  <2>1. q # p /\ (Queued("remove", q) \/ q \in lost \/ q \in revived)
    BY <1>3 DEF IInv, GhostsExplained
  <2> QED BY <2>1, <1>3, <1>5, QueuedKept
<1> QED BY <1>4, <1>5, <1>6 DEF IInv, Grows

\* A peer that is removed has its RemovePeer at the end of the channel, or lost.
LEMMA RemovePeerIInv == ASSUME IInv, NEW p \in Remotes, RemovePeer(p) PROVE IInv'
<1> DEFINE c == <<"remove", p>>
<1>1. CmdsOK /\ NamesOK
  BY DEF IInv
<1>2. Counted(cmds, p)
  BY <1>1 DEF Counted, CmdsOK
<1>3. /\ Tell(p, cmds, c) /\ sessions' = sessions \ {p}
      /\ latest' = latest /\ names' = names /\ revived' = revived
      /\ known' = [known EXCEPT ![p] = None]
  BY DEF RemovePeer
<1>4. /\ c \in Commands /\ c[1] = "remove" /\ c[2] = p
      /\ Renames(c, p) /\ NameAfter(c) = None
  BY DEF Commands, Peers, Renames, NameAfter
<1> HIDE DEF c
<1>5. Grows /\ NamesInStep'
  BY <1>2, <1>3, <1>4, TellInStep
<1>6. /\ p \in lost' \/ (Len(cmds') # 0 /\ cmds'[Len(cmds')] = c)
      /\ \A q : q # p => (q \in lost' <=> q \in lost)
  BY <1>1, <1>2, <1>3, <1>4, TellIs
<1>7. p \in lost' \/ Queued("remove", p)'
  <2>1. CmdsOK'
    BY <1>5 DEF Grows
  <2>2. Len(cmds') # 0 => Len(cmds') \in DOMAIN cmds'
    BY <2>1 DEF CmdsOK
  <2> QED BY <1>4, <1>6, <2>2 DEF Queued
<1>8. NamesOK'
  BY <1>1, <1>3 DEF NamesOK, Labels
<1>9. GhostsExplained'
  <2> SUFFICES ASSUME NEW q \in latest' \ (sessions' \cup {Self})
               PROVE  Queued("remove", q)' \/ q \in lost' \/ q \in revived'
    BY DEF GhostsExplained
  <2>1. CASE q = p
    BY <2>1, <1>7
  <2>2. CASE q # p
    <3>1. Queued("remove", q) \/ q \in lost \/ q \in revived
      BY <2>2, <1>3 DEF IInv, GhostsExplained
    <3> QED BY <2>2, <3>1, <1>3, <1>5, <1>6, QueuedKept
  <2> QED BY <2>1, <2>2
<1> QED BY <1>5, <1>8, <1>9 DEF IInv, Grows

\* A new name goes behind whatever is in the channel, or is lost.
LEMMA UpdateNameIInv ==
  ASSUME IInv, NEW p \in Remotes, NEW name \in Names, UpdateName(p, name) PROVE IInv'
<1> DEFINE c == <<"name", p, name>>
<1>1. CmdsOK /\ NamesOK
  BY DEF IInv
<1>2. Counted(cmds, p)
  BY <1>1 DEF Counted, CmdsOK
<1>3. /\ Tell(p, cmds, c) /\ p \in sessions /\ sessions' = sessions
      /\ latest' = latest /\ names' = names /\ revived' = revived
      /\ known' = [known EXCEPT ![p] = name]
  BY DEF UpdateName
<1>4. c \in Commands /\ Renames(c, p) /\ NameAfter(c) = name
  BY DEF Commands, Peers, Renames, NameAfter, Labels
<1> HIDE DEF c
<1>5. Grows /\ NamesInStep'
  BY <1>2, <1>3, <1>4, TellInStep
<1>6. \A q : q # p => (q \in lost' <=> q \in lost)
  BY <1>1, <1>2, <1>3, <1>4, TellIs
<1>7. NamesOK'
  BY <1>1, <1>3 DEF NamesOK, Labels
<1>8. GhostsExplained'
  <2> SUFFICES ASSUME NEW q \in latest' \ (sessions' \cup {Self})
               PROVE  Queued("remove", q)' \/ q \in lost' \/ q \in revived'
    BY DEF GhostsExplained
  <2>1. q # p /\ (Queued("remove", q) \/ q \in lost \/ q \in revived)
    BY <1>3 DEF IInv, GhostsExplained
  <2> QED BY <2>1, <1>3, <1>5, <1>6, QueuedKept
<1> QED BY <1>5, <1>7, <1>8 DEF IInv, Grows

\* A path is a command of a kind that matters to none of the invariants.
LEMMA SendPathIInv ==
  ASSUME IInv, NEW p \in Remotes, NEW kind \in {Unknown, Direct}, SendPath(p, kind)
  PROVE  IInv'
<1>0. CmdCap \in Nat
  BY CompositorAssumption
<1>1. <<"kind", p, kind>> \in Commands
  BY DEF Commands, Peers
<1>2. cmds \in Seq(Commands) /\ cmds' = Sent(cmds, <<"kind", p, kind>>, CmdCap)
  BY DEF IInv, CmdsOK, SendPath
<1>3. cmds' \in Seq(Commands) /\ Taken(cmds, cmds', <<"kind", p, kind>>, CmdCap)
  BY <1>0, <1>1, <1>2, SentTaken
<1>4. Grows
  BY <1>2, <1>3 DEF Grows, CmdsOK, Taken
<1>5. /\ sessions' = sessions /\ latest' = latest /\ names' = names
      /\ revived' = revived /\ lost' = lost /\ known' = known
  BY DEF SendPath, roomVars
<1>6. \A i \in 1..Len(cmds') : i > Len(cmds) => cmds'[i][1] \notin {"name", "remove"}
  BY <1>3 DEF Taken
<1>7. NamesInStep'
  BY <1>4, <1>5, <1>6, UntoldInStep
<1>8. NamesOK'
  BY <1>5 DEF IInv, NamesOK
<1>9. GhostsExplained'
  BY <1>4, <1>5, QueuedKept DEF IInv, GhostsExplained
<1> QED BY <1>4, <1>7, <1>8, <1>9 DEF IInv, Grows

\* What a command of the channel does to the names is what it says.
LEMMA ApplyRenames ==
  ASSUME NamesOK, NEW c \in Commands, Apply(c)
  PROVE  /\ names' \in [Peers -> Labels]
         /\ \A q \in Peers : names'[q] = IF Renames(c, q) THEN NameAfter(c) ELSE names[q]
<1>1. names \in [Peers -> Labels] /\ None \in Labels
  BY DEF NamesOK, Labels
<1>2. CASE c[1] = "remove"
  <2>1. names' = [names EXCEPT ![c[2]] = None]
    BY <1>2 DEF Apply
  <2>2. NameAfter(c) = None /\ \A q : Renames(c, q) <=> c[2] = q
    BY <1>2 DEF NameAfter, Renames
  <2> QED BY <1>1, <2>1, <2>2
<1>3. CASE c[1] = "name"
  <2>1. names' = [names EXCEPT ![c[2]] = c[3]]
    BY <1>3 DEF Apply
  <2>2. NameAfter(c) = c[3] /\ \A q : Renames(c, q) <=> c[2] = q
    BY <1>3 DEF NameAfter, Renames
  <2>3. c[3] \in Labels
    BY <1>3 DEF Commands
  <2> QED BY <1>1, <2>1, <2>2, <2>3
<1>4. CASE c[1] \notin {"remove", "name"}
  <2>1. names' = names
    BY <1>4 DEF Apply
  <2>2. \A q : ~Renames(c, q)
    BY <1>4 DEF Renames
  <2> QED BY <1>1, <2>1, <2>2
<1> QED BY <1>2, <1>3, <1>4

\* The first command leaves the channel and has its effect.
LEMMA TakeCommandIInv == ASSUME IInv, TakeCommand PROVE IInv'
<1> DEFINE c == Head(cmds)
<1>1. /\ cmds # <<>> /\ cmds' = Tail(cmds) /\ CmdsOK /\ NamesOK
      /\ sessions' = sessions /\ lost' = lost /\ known' = known
  BY DEF IInv, TakeCommand, roomVars
<1>2. /\ CmdsOK'
      /\ \A kind, p : Queued(kind, p) /\ ~(c[1] = kind /\ c[2] = p) => Queued(kind, p)'
      /\ \A p, name :
           /\ Called(p, name)
           /\ names'[p] = IF Renames(c, p) THEN NameAfter(c) ELSE names[p]
           => Called(p, name)'
  BY <1>1, TakenFirst
<1>3. Apply(c) /\ c \in Commands
  BY <1>1 DEF TakeCommand, CmdsOK
<1> HIDE DEF c
<1>4. /\ names' \in [Peers -> Labels]
      /\ \A q \in Peers : names'[q] = IF Renames(c, q) THEN NameAfter(c) ELSE names[q]
  BY <1>1, <1>3, ApplyRenames
<1>5. /\ latest' \subseteq latest
      /\ c[1] = "remove" => c[2] \notin latest' /\ revived' = revived \ {c[2]}
      /\ c[1] # "remove" => revived' = revived
  BY <1>3 DEF Apply
<1>6. NamesOK'
  BY <1>1, <1>4 DEF NamesOK
<1>7. NamesInStep'
  <2> SUFFICES ASSUME NEW q \in Remotes, q \notin lost PROVE Called(q, known[q])'
    BY <1>1 DEF NamesInStep
  <2>1. PICK n : n = known[q]
    OBVIOUS
  <2>2. Called(q, n)
    BY <2>1 DEF IInv, NamesInStep
  <2>3. q \in Peers
    BY DEF Peers
  <2>4. Called(q, n)'
    BY <1>2, <1>4, <2>2, <2>3
  <2> QED BY <1>1, <2>1, <2>4
<1>8. GhostsExplained'
  <2> SUFFICES ASSUME NEW q \in latest' \ (sessions' \cup {Self})
               PROVE  Queued("remove", q)' \/ q \in lost' \/ q \in revived'
    BY DEF GhostsExplained
  <2>1. ~(c[1] = "remove" /\ c[2] = q)
    BY <1>5
  <2>2. Queued("remove", q) \/ q \in lost \/ q \in revived
    BY <1>1, <1>5 DEF IInv, GhostsExplained
  <2>3. q \in revived => q \in revived'
    BY <2>1, <1>5
  <2> QED BY <2>1, <2>2, <2>3, <1>1, <1>2
<1> QED BY <1>2, <1>6, <1>7, <1>8 DEF IInv

\* A frame of someone who is not a member is noted.
LEMMA TakeFrameIInv == ASSUME IInv, TakeFrame PROVE IInv'
<1>1. /\ cmds' = cmds /\ sessions' = sessions /\ lost' = lost /\ names' = names
      /\ known' = known /\ latest' = latest \cup {Head(frames)}
      /\ revived' = IF Head(frames) \in sessions \cup {Self} THEN revived
                    ELSE revived \cup {Head(frames)}
  BY DEF TakeFrame, roomVars
<1>2. CmdsOK' /\ NamesOK' /\ NamesInStep'
  BY <1>1 DEF IInv, CmdsOK, NamesOK, NamesInStep, Called
<1>3. GhostsExplained'
  BY <1>1 DEF IInv, GhostsExplained, Queued
<1> QED BY <1>2, <1>3 DEF IInv

LEMMA NextIInv == IInv /\ [Next]_vars => IInv'
<1> SUFFICES ASSUME IInv, [Next]_vars PROVE IInv'
  OBVIOUS
<1>1. ASSUME NEW p \in Remotes, NEW name \in Names \cup {None}, AddPeer(p, name) PROVE IInv'
  BY <1>1, AddPeerIInv DEF Labels
<1>2. ASSUME NEW p \in Remotes, RemovePeer(p) PROVE IInv'
  BY <1>2, RemovePeerIInv
<1>3. ASSUME NEW p \in Remotes, NEW name \in Names, UpdateName(p, name) PROVE IInv'
  BY <1>3, UpdateNameIInv
<1>4. ASSUME NEW p \in Remotes, NEW kind \in {Unknown, Direct}, SendPath(p, kind) PROVE IInv'
  BY <1>4, SendPathIInv
<1>5. CASE TakeFrame
  BY <1>5, TakeFrameIInv
<1>6. CASE TakeCommand
  BY <1>6, TakeCommandIInv
<1>7. ASSUME \/ \E p \in Remotes : TasksEnd(p)
             \/ \E p \in Peers : SendFrame(p)
             \/ Receive
             \/ UNCHANGED vars
      PROVE  IInv'
  <2>1. UNCHANGED <<cmds, sessions, known, lost, names, latest, revived>>
    BY <1>7 DEF TasksEnd, SendFrame, Receive, vars, roomVars, compositorVars
  <2> QED BY <2>1 DEF IInv, CmdsOK, NamesOK, NamesInStep, Called, GhostsExplained, Queued
<1> QED BY <1>1, <1>2, <1>3, <1>4, <1>5, <1>6, <1>7 DEF Next

-------------------------------------------------------------------------------
(* The results. *)

\* A departed peer has a tile only while its RemovePeer is on its way, was lost in the
\* full channel, or a frame came behind it (src/src/video_compositor.rs, run).
THEOREM Ghosts == Spec => []GhostsExplained
<1>1. IInv => GhostsExplained
  BY DEF IInv
<1> QED BY <1>1, InitIInv, NextIInv, PTL DEF Spec

\* What the channel holds leads the compositor to the names the room has recorded, unless
\* the last command about a peer was lost (add_peer_with_media, handle_peer_disconnected
\* and handle_received_peer_list of room.rs): the order of the channel is enough for that.
THEOREM NamesFollow == Spec => []NamesInStep
<1>1. IInv => NamesInStep
  BY DEF IInv
<1> QED BY <1>1, InitIInv, NextIInv, PTL DEF Spec
===============================================================================

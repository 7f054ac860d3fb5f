------------------------------- MODULE Compositor -------------------------------
(***************************************************************************)
(* The gallery: the room tells the compositor of its peers, decoders and   *)
(* the camera's tee send it frames (src/src/video_compositor.rs), and it   *)
(* sends galleries to the display, all through channels that drop what is  *)
(* sent while they are full.                                               *)
(*                                                                         *)
(* A frame is the peer it shows.  A gallery is the sequence of its tiles;  *)
(* where the grid has them is left out.                                    *)
(***************************************************************************)
EXTENDS Integers, Sequences, FiniteSets, SequencesExt

CONSTANTS
  Remotes, Self,            \* peers, numbers in the order of their ids
  Unknown, Direct, Local,   \* ConnectionKind; Direct stands for Relay too
  Names, OwnName,           \* display names that are not empty; the own one may be
  None,                     \* an empty name, or no name at all
  FrameCap, CmdCap,         \* capacities of the compositor's channels (10 and 10)
  DisplayCap                \* of the channel to the display (2)

Peers == Remotes \cup {Self}

ASSUME CompositorAssumption ==
  /\ Self \notin Remotes /\ CmdCap \in Nat
  /\ OwnName \in Names \cup {None} /\ None \notin Names

VARIABLES
  sessions,      \* the remote peers in the room's map
  known,         \* the names the room has recorded for them, PeerState.name
  running,       \* the peers that have a decoder and a path watcher, which outlive the
                 \* session by a while; Self's frames come from the tee
  frames, cmds,  \* compositor_rx, compositor_cmd_rx
  latest, names, kinds,   \* latest_frames, peer_names, peer_conn_kinds
  display,       \* display_rx
  shown,         \* the peers in the gallery that was received last
  lost,          \* history: peers whose last name or removal the room tried to send did
                 \* not get into the full channel of commands
  revived        \* history: departed peers of whom a frame came behind the RemovePeer

roomVars       == <<sessions, known, running, lost>>
compositorVars == <<latest, names, kinds, revived>>
vars           == <<roomVars, frames, cmds, compositorVars, display, shown>>

\* What a full channel does with what is sent.
Sent(channel, x, cap) == IF Len(channel) < cap THEN Append(channel, x) ELSE channel

Init ==
  /\ sessions = {} /\ known = [p \in Remotes |-> None] /\ running = {}
  /\ frames = <<>>
  /\ cmds = << <<"name", Self, OwnName>>, <<"kind", Self, Local>> >>
  /\ latest = {} /\ names = [p \in Peers |-> None] /\ kinds = [p \in Peers |-> Unknown]
  /\ display = <<>> /\ shown = {}
  /\ lost = {} /\ revived = {}

-------------------------------------------------------------------------------
(* The room and its tasks. *)

\* The room sends a command about p's name or end, and does not look whether it is lost.
Tell(p, channel, c) ==
  /\ cmds' = Sent(channel, c, CmdCap)
  /\ lost' = IF Len(channel) < CmdCap THEN lost \ {p} ELSE lost \cup {p}

\* The drop counter and the name, unless it is empty, go to the compositor; decoder and
\* watcher are started.  The name is that of the peer's Hello, or empty when the room
\* dialled the peer.
AddPeer(p, name) ==
  /\ p \notin sessions /\ sessions' = sessions \cup {p}
  /\ known' = [known EXCEPT ![p] = name]
  /\ LET channel == Sent(cmds, <<"counter", p>>, CmdCap)
     IN  IF name = None THEN cmds' = channel /\ UNCHANGED lost
                        ELSE Tell(p, channel, <<"name", p, name>>)
  /\ running' = running \cup {p}
  /\ revived' = revived \ {p}
  /\ UNCHANGED <<frames, latest, names, kinds, display, shown>>

RemovePeer(p) ==
  /\ p \in sessions /\ sessions' = sessions \ {p}
  /\ known' = [known EXCEPT ![p] = None]
  /\ Tell(p, cmds, <<"remove", p>>)
  /\ UNCHANGED <<running, frames, latest, names, kinds, display, shown, revived>>

\* A list that another peer sent has another name for a member than the room; it is
\* recorded before it is sent.
UpdateName(p, name) ==
  /\ p \in sessions /\ name # known[p]
  /\ known' = [known EXCEPT ![p] = name]
  /\ Tell(p, cmds, <<"name", p, name>>)
  /\ UNCHANGED <<sessions, running, frames, latest, names, kinds, display, shown, revived>>

\* A decoder, or the tee, has a frame.
SendFrame(p) ==
  /\ p \in running \cup {Self}
  /\ frames' = Sent(frames, p, FrameCap)
  /\ UNCHANGED <<roomVars, cmds, latest, names, kinds, display, shown, revived>>

\* A path is selected, or none.
SendPath(p, kind) ==
  /\ p \in running
  /\ cmds' = Sent(cmds, <<"kind", p, kind>>, CmdCap)
  /\ UNCHANGED <<roomVars, frames, latest, names, kinds, display, shown, revived>>

\* The tasks of a session that was removed come to its cancellation.
TasksEnd(p) ==
  /\ p \in running \ sessions /\ running' = running \ {p}
  /\ UNCHANGED <<sessions, known, lost, frames, cmds, latest, names, kinds, display, shown, revived>>

-------------------------------------------------------------------------------
(* The compositor. *)

BuildGallery ==
  [i \in 1..Cardinality(latest') |->
     LET p == SetToSortSeq(latest', <)[i]
     IN  [peer |-> p, name |-> names'[p], kind |-> kinds'[p]]]

\* While there is room; the gallery that follows will show what this one would have.
SendGallery ==
  display' = IF Len(display) < DisplayCap THEN Append(display, BuildGallery) ELSE display

\* Mutant: only the first frame of a peer is followed by a gallery.
TakeFrame_FirstOnly ==
  /\ frames # <<>> /\ frames' = Tail(frames)
  /\ latest' = latest \cup {Head(frames)}
  /\ revived' = IF Head(frames) \in sessions \cup {Self} THEN revived
                ELSE revived \cup {Head(frames)}
  /\ UNCHANGED <<names, kinds>>
  /\ IF Head(frames) \in latest THEN UNCHANGED display ELSE SendGallery
  /\ UNCHANGED <<roomVars, cmds, shown>>

\* A frame comes, and takes the place of the last one of its peer.
TakeFrame ==
  /\ frames # <<>> /\ frames' = Tail(frames)
  /\ latest' = latest \cup {Head(frames)}
  /\ revived' = IF Head(frames) \in sessions \cup {Self} THEN revived
                ELSE revived \cup {Head(frames)}
  /\ UNCHANGED <<names, kinds>>
  /\ SendGallery
  /\ UNCHANGED <<roomVars, cmds, shown>>

\* Mutant: the frame of a peer that leaves is kept.
Apply_KeepFrame(c) ==
  LET p == c[2]
  IN  \/ /\ c[1] = "remove"
         /\ names' = [names EXCEPT ![p] = None] /\ kinds' = [kinds EXCEPT ![p] = Unknown]
         /\ revived' = revived \ {p}
         /\ UNCHANGED latest
      \/ /\ c[1] = "name" /\ names' = [names EXCEPT ![p] = c[3]]
         /\ UNCHANGED <<latest, kinds, revived>>
      \/ /\ c[1] = "kind" /\ kinds' = [kinds EXCEPT ![p] = c[3]]
         /\ UNCHANGED <<latest, names, revived>>
      \/ /\ c[1] = "counter" /\ UNCHANGED <<latest, names, kinds, revived>>

\* Mutant: the name of a peer that leaves is kept.
Apply_KeepName(c) ==
  LET p == c[2]
  IN  \/ /\ c[1] = "remove"
         /\ latest' = latest \ {p} /\ kinds' = [kinds EXCEPT ![p] = Unknown]
         /\ revived' = revived \ {p}
         /\ UNCHANGED names
      \/ /\ c[1] = "name" /\ names' = [names EXCEPT ![p] = c[3]]
         /\ UNCHANGED <<latest, kinds, revived>>
      \/ /\ c[1] = "kind" /\ kinds' = [kinds EXCEPT ![p] = c[3]]
         /\ UNCHANGED <<latest, names, revived>>
      \/ /\ c[1] = "counter" /\ UNCHANGED <<latest, names, kinds, revived>>

\* What a command does to what the compositor knows.
Apply(c) ==
  LET p == c[2]
  IN  \/ /\ c[1] = "remove"
         /\ latest' = latest \ {p} /\ names' = [names EXCEPT ![p] = None]
         /\ kinds' = [kinds EXCEPT ![p] = Unknown]
         /\ revived' = revived \ {p}
      \/ /\ c[1] = "name" /\ names' = [names EXCEPT ![p] = c[3]]
         /\ UNCHANGED <<latest, kinds, revived>>
      \/ /\ c[1] = "kind" /\ kinds' = [kinds EXCEPT ![p] = c[3]]
         /\ UNCHANGED <<latest, names, revived>>
      \/ /\ c[1] = "counter" /\ UNCHANGED <<latest, names, kinds, revived>>

\* A command is followed by a gallery, but for a counter; an empty one only if a peer
\* was removed.
TakeCommand ==
  /\ cmds # <<>> /\ cmds' = Tail(cmds)
  /\ Apply(Head(cmds))
  /\ IF Head(cmds)[1] = "remove" \/ (Head(cmds)[1] \in {"name", "kind"} /\ latest # {})
       THEN SendGallery ELSE UNCHANGED display
  /\ UNCHANGED <<roomVars, frames, shown>>

-------------------------------------------------------------------------------
(* The display. *)

\* It has a gallery, and draws it, see Screen.
Receive ==
  /\ display # <<>> /\ display' = Tail(display)
  /\ shown' = {tile.peer : tile \in Range(Head(display))}
  /\ UNCHANGED <<roomVars, frames, cmds, compositorVars>>

Next ==
  \/ \E p \in Remotes, name \in Names \cup {None} : AddPeer(p, name)
  \/ \E p \in Remotes, name \in Names : UpdateName(p, name)
  \/ \E p \in Remotes : RemovePeer(p) \/ TasksEnd(p)
  \/ \E p \in Remotes, kind \in {Unknown, Direct} : SendPath(p, kind)
  \/ \E p \in Peers : SendFrame(p)
  \/ TakeFrame \/ TakeCommand \/ Receive

\* The compositor's loop and the display go on, and the camera has its frames; select!
\* is fair between the two channels.
Fairness ==
  /\ WF_vars(TakeFrame) /\ WF_vars(TakeCommand) /\ WF_vars(Receive)
  /\ WF_vars(SendFrame(Self))

Spec == Init /\ [][Next]_vars /\ Fairness

-------------------------------------------------------------------------------

Queued(kind, p) == \E i \in DOMAIN cmds : cmds[i][1] = kind /\ cmds[i][2] = p

\* A peer that has left has a tile only while its RemovePeer is on its way, or for one
\* of two reasons: RemovePeer found the channel full, or a frame came behind it.
GhostsExplained ==
  \A p \in latest \ (sessions \cup {Self}) :
    Queued("remove", p) \/ p \in lost \/ p \in revived

\* A command that gives p a name or takes it away, and what p is called after it.
Renames(c, p)  == c[1] \in {"name", "remove"} /\ c[2] = p
NameAfter(c)   == IF c[1] = "name" THEN c[3] ELSE None

\* What the compositor will call p when it has handled all that is in the channel.
Called(p, name) ==
  \/ /\ \A i \in DOMAIN cmds : ~Renames(cmds[i], p)
     /\ names[p] = name
  \/ \E i \in DOMAIN cmds :
       /\ Renames(cmds[i], p) /\ NameAfter(cmds[i]) = name
       /\ \A j \in DOMAIN cmds : j > i => ~Renames(cmds[j], p)

\* Names keep in step with the room, however fast a peer leaves and returns, with a name
\* or without, and is renamed: what the channel holds leads the compositor to the name the
\* room has recorded, to none if that is empty or the peer is gone, unless the last command
\* about it was lost.  A RemovePeer that is late never takes the name of a peer that is
\* back, and a peer that is back and has not told its name does not go by its old one.
NamesInStep ==
  \A p \in Remotes : p \in lost \/ Called(p, known[p])

\* The tile of a peer that has left goes from the screen, unless it is such a ghost: the
\* gallery without it may find the channel to the display full, but one that follows a
\* frame of the camera does not, for ever.
LeaverGoes ==
  \A p \in Remotes :
    p \notin sessions ~> \/ p \notin shown \/ p \in sessions
                        \/ p \in lost \/ p \in revived
===============================================================================

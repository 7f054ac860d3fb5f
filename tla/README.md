# TLA+ models of meshconf

meshconf is a peer-to-peer video call: no server, every participant runs the
same program, connects to every other one over QUIC (iroh), sends its own audio
and video to all and plays what all the others send. This directory holds TLA+
modules that model its parts, the TLC configurations that check them on small
instances, and theorems about them that TLAPS checks.

Paths below are relative to the repository; `src/room.rs` means `src/src/room.rs`
in the map of `PROJECT.json`.

## Inventory

### Control plane

| part | state | operations | interacts with |
|---|---|---|---|
| `Room` (`room.rs`) | `peers` (one `PeerState` per connected peer), event channel of 64, list timer | join by a ticket, accept, dial a peer of a list, add and remove a session, broadcast the list | every other part: starts all media tasks of a peer, and of the call |
| session tasks (`room.rs`) | one control reader, one connection monitor, one feedback sender, one path watcher per peer | forward messages and disconnects to the room; cancelled through `session_cancel` | the room's event channel |
| connections (`net.rs`) | endpoint, open connections | connect, accept, close | accept loop, session tasks |
| control messages (`control.rs`) | – | `Hello`, `PeerList`, `CongestionFeedback`, length-prefixed JSON | control streams |
| program (`main.rs`) | ticket, cancellation token | parse arguments, start devices, run the room, quit | room |

What makes it correct: everyone who is in the call ends up connected to everyone
else; a session exists on both ends or on none; a lost connection is always
noticed and a live one is never torn down; who left is forgotten; the handshakes
that block an event loop end.

What is hard: the event loop awaits other rooms inside its handlers; two rooms
discover each other at the same time; a session's end is reported by two tasks;
lists describe a membership that is over when they are handled; participants and
connections fail between any two steps.

### Media, sending side

| part | state | operations | correctness |
|---|---|---|---|
| `Broadcaster` (`broadcaster.rs`) | connections by peer, keyframe flag | add (asks for a keyframe), remove, send audio datagrams | a peer that is added gets a keyframe |
| video encoder (`video_encode.rs`) | encoder thread with its settings, force-keyframe flag, packet channel, group and object numbers, tasks of frames being sent | encode, recreate on a change of preset, abort the frames of an old group | a request for a keyframe is not lost; numbers grow; a frame of an aborted group is not followed up |
| bandwidth estimator (`bandwidth.rs`) | preset, bitrate, probe timers; `EncoderConfig` (four atomics) | congestion, feedback, probe | bitrate within the preset's bounds; the encoder ends up with the estimator's choice |
| audio encoder (`audio_encode.rs`) | frame buffer | encode, broadcast | – |

### Media, receiving side

| part | state | operations | correctness |
|---|---|---|---|
| dispatcher (`dispatch.rs`) | one task per video stream, latest keyframe group, drop counters | datagrams to audio, streams to the decoder, stop old streams | never blocks; every frame is counted once |
| video decoder (`video_decode.rs`) | expected group and object, keyframe gate | decode or drop, detect gaps | nothing is decoded whose reference is missing |
| jitter buffer (`jitter.rs`) | ordered frames, playout clock | insert, play, conceal a loss | frames go out in order and once |
| audio decoder and mixer (`audio_decode.rs`, `audio_mixer.rs`) | buffers by peer | mix | no frame is played twice |
| compositor (`video_compositor.rs`) | last frame and name by peer | frame, command, render | a peer that left has no tile |
| buffer pool (`pool.rs`) | free list, handles | check out, share, drop | a buffer has one owner or only readers |
| framing (`protocol.rs`) | – | varints, object headers | what is read is what was written |

### Devices and output

| part | state | operations | correctness |
|---|---|---|---|
| Kitty display (`video_display_kitty.rs`, `kitty.rs`) | what it believes to be on the screen: tile count, labels, status, error, which of two images of a slot is next | draw a gallery, redraw after a resize | the screen shows the gallery; a label belongs to its picture |
| window display (`video_display_window.rs`) | window | draw a gallery, close | closing it ends the program |
| camera (`video_capture.rs`) | capture thread, tee | frames to encoder and compositor | ends when cancelled |
| audio device (`audio.rs`, `audio_macos.rs`) | engine thread | capture, playback, stop | plays in order |
| terminal (`term.rs`, `tui.rs`) | raw mode, alternate screen | enter, leave, clear | left as it was found |
| image conversion (`vimage.rs`) | – | pixel formats | – |

## Modules

| module | what it is | composed with | proofs |
|---|---|---|---|
| `Mesh` | membership: rooms, sessions, lists | – | `MeshProofs` |
| `Estimator`, `Bandwidth` | bitrate and quality; the encoder thread that follows them | `Bandwidth` EXTENDS `Estimator` | `BandwidthProofs` |
| `VideoSend` | encoder thread, packet channel, send loop, broadcaster | – | `VideoProofs` |
| `VideoReceive`, `VideoPath` | stream tasks, channel, gap detection, keyframe gate | `VideoPath`: `VideoSend` with an instance of `VideoReceive` | `VideoProofs` |
| `BufPool` | buffers and handles | – | `BufPoolProofs` |
| `Framing`, `AnnexB` | layouts as functions | – | `MediaProofs`, of `Framing` |
| `MediaStream` | a frame as bytes in buffers from encoder to decoder | two instances of `BufPool`, `Framing`, `AnnexB` | `MediaProofs` |
| `Jitter`, `Playout` | the jitter buffer, and what it promises | `Jitter` implements `Playout` | `AudioProofs` |
| `AudioPath` | from jitter buffer over decoder and mixer to the player | EXTENDS `Jitter` | `AudioProofs` |
| `Compositor` | the room's side of the gallery, the compositor | – | `CompositorProofs` |
| `Screen` | the Kitty display loop and the screen | – | `ProgramProofs` |
| `Program` | `run_app`, threads and tasks, from start to exit | EXTENDS `Screen` | `ProgramProofs` |

Each `MC` module gives constants and definitions to the configurations that use
it. `AnnexB` is written with folds and searches over sequences; its round trip is
checked and not proved, the reason is with `MediaStream`.

What could follow: an abstract specification of a session, which `Mesh` should
implement; a run with a larger ring of participants.

## Module `Mesh`

### State

| variable | code |
|---|---|
| `phase` | how far `Room::run` got: ticket handshake, first list, event loop; or not started, or gone |
| `born`, `starts` | history: the order in which participants started, so that a ticket is of someone who had started |
| `dial` | the `connect_to_peer` / `open_control_and_add_peer` the room is awaiting |
| `work` | the rest of the `for` loop of `handle_received_peer_list` |
| `peers` | `Room.peers`: for each peer the connection of its session |
| `events` | `Room.event_rx` |
| `monitor`, `reader` | the connection monitor (`room.rs:718`) and the control reader (`room.rs:260`) that are alive |
| `up` | connections that are open |
| `wire` | `PeerList`s under way on a connection's control stream, for each end |
| `drops`, `quits` | how often the faults have been used |

A participant is its public key, a number, since `should_initiate` compares keys.

### Actions

`StartCall`, `Join` start a participant, `Quit` ends it at any point. `Dial`,
`Connect`, `ConnectFails`, `HandshakeDone`, `HandshakeFails`, `FinishJoin` are
the points of `join_via_peer` and `connect_to_peer` where the loop waits.
`RefuseDuplicate`, `AcceptPeer`, `IncomingLost`, `HandlePeerDisconnected`,
`HandlePeerList` and `Tick` are the branches of the event loop's `select!`, each
with its trailing broadcast. `Deliver`, `ReaderFails`, `ReaderQuits`,
`MonitorFires`, `MonitorQuits` are the session tasks, `Drop` is the network.

### Abstractions

- A `Hello` is written right after the connection is made and nobody is waited
  for; it belongs to `Connect`, as does the accept loop, which hands the
  connection to the event channel. A connection that is made while the channel
  is full waits in the model as it waits in the accept loop.
- Names are left out of lists and of the map; they do not influence membership.
- The flow control of QUIC streams is left out: writing a list never waits for
  the reader. A reader that is slow therefore fills `wire`, not the writer.
- A session has more tasks that hold its connection (dispatcher, feedback
  sender, path watcher). They end on `session_cancel` or with the connection;
  the model lets the last of monitor and reader stand for the last of them all.
- Keys are new at every start, so a participant that left does not come back.

### Runs

All on `MCMesh`. Faults are bounded by `MaxDrops`, `MaxQuits` and `Quitters`, the
connections of a pair that can exist at one time by `MaxGen`, the event channel
by `QueueCap` (64 in the code; 2 or 3 here, so that it is full often), and how
far list timers run ahead of the handling of lists by `MaxLag`.

| run | instance | checks |
|---|---|---|
| `mesh` | 3 participants, any ticket for any joiner, channel of 2; the one with the middle key, which dials one of the others and is dialled by the other, may quit at any moment | `NoWaitCycle`: no set of rooms blocks on one another. `HandshakesEnd`: no handshake blocks a room for ever, though its other end may quit. `ConvergesUndisturbed`: the rooms in the call come to be connected pairwise, unless somebody quits. `DepartedForgotten`: who has quit is forgotten for good. All orders of start, keys and events are in the instance, and two joiners that meet through a third need three participants. Deadlock is not an error here: when the call is over nothing happens any more. |
| `mesh_drop` | 2 participants, 2 connections, one is lost | `TypeOK`, `NoHalfOpen`, `NoZombie`, while the old session is taken down and a new one made. |
| `mesh_introducer` | 3 participants, two of them invited by the third, which may quit | `Converges` is violated, see below. |
| `mesh_stale` | 2 participants, 2 connections, one is lost, a channel of 3 | `RemovedOnlyWhenClosed` is violated, see below. |

### Fairness

Tokio polls every task that is ready, so each room's loop (`RoomStep`), each
timer that is due (`Tick`) and the tasks of each session (`TaskStep`) are weakly
fair. Nothing obliges a user to join or quit, or the network to fail. `select!`
chooses at random among ready branches, but a tick that is due stays due: it is
continuously enabled while the loop is at its `select!` and weak fairness says no
more than that it is taken if the loop stays there. Weak fairness of the session tasks is stated
for each pair of participants, which is less than the runtime gives.

### What the runs found

- **An introduction dies with the introducer** (`mesh_introducer`). The README
  says that participants converge even if the peer that introduced them leaves
  before the introduction is complete. The introducer answers the newcomer
  first and tells the others afterwards; if it stops in between and the newcomer
  has the larger key, the newcomer waits to be dialled by someone who has never
  heard of it.

- **The end of one session removes the next** (`mesh_stale`). The reader and the monitor
  of a session both report its end, and the event carries the peer, not the
  connection. If the peer has reconnected between the two reports,
  `handle_peer_disconnected` removes the new session, which is open and which the other
  end has. In TLC's trace a list that arrived before the loss is read after it, by
  which the participants reconnect in between. `NoHalfOpen` says what becomes of it: the end
  that removed it is closing it, so the other one is going to see the loss.

### Proofs

`MeshProofs` proves, for any finite set of participants, any bounds and any invitations:

- `TypeCorrect`: `Spec => []TypeOK`, with the capacity of the event channels.
- `AlwaysWatched`: `Spec => []NoZombie`. `NoZombie` alone is not inductive: the
  monitor's event names a peer, so the proof needs that the entry for a peer is a
  connection with that peer (`EntryEnds`), which rests on where connections in a
  handshake (`DialEnds`) and in an event channel (`QueuedEnds`) lead. Then: an
  entry is made together with its monitor; a monitor ends by queueing its event
  or after the entry is gone; an event leaves the queue only when the loop
  handles it and then removes the entry.
- `NeverHalfOpen`: `Spec => []NoHalfOpen`. An end enters a connection in its map at
  three points: when it accepts it, when its own handshake is answered, and when
  its ticket is. The invariant `HalfInv` says what the other end is doing then. A
  connection in an event channel is there once (`QueuedOnce`), belongs to nobody yet,
  and while it is open its dialler waits for the list on it (`QueuedConn`), so
  accepting it leaves an end that is in its handshake. A list is on its way only to
  one who reads it (`WireRead`), and who has written one has a task on the
  connection (`Written`), so a handshake that is answered finds the other end with
  the session or taking it down. An entry on an open connection has its monitor
  (`Monitored`), which is why an end that drops its entry is still closing. When
  two connections of a pair cross, the order in which participants start
  (`TicketOrder`) and that of the keys (`KeyOrder`) say who waits for whom; they
  need that a participant that is still joining has nobody to read (`JoiningQuiet`)
  and accepts nothing (`AcceptorRuns`).
- `NoDeadlock`: `Spec => []NoWaitCycle`, from `HalfInv` and `Unknown`, that nobody
  knows a participant before its ticket has been answered. A room that is in the
  call waits only for rooms with larger keys, and these are in the call too; one
  that is joining waits for one that started earlier. So of rooms that all wait
  within their own set, the one with the largest key among those in the call, or the
  one that started first if none is, waits for none of them.

TLC has checked the parts of `HalfInv` and `Unknown` as invariants of the instances of
`mesh` and `mesh_drop`.

The proofs assume `PeersAssumption`, `BoundsAssumption` and `NoneAssumption` of
`Mesh`, which say that there are finitely many participants, keys are numbers, bounds
are naturals and `None` is neither a peer nor a connection.

Model-checked only: `ConvergesUndisturbed`, `HandshakesEnd` and `DepartedForgotten`, since liveness
is beyond the prover.

## Modules `Estimator` and `Bandwidth`

`Estimator` is `BandwidthEstimator` (`bandwidth.rs`), a task that handles one
event at a time; `Bandwidth` EXTENDS it with the part of `encode_loop`
(`video_encode.rs:248-347`) that reads its decisions.

| variable | code |
|---|---|
| `current_bitrate`, `quality_idx` | the fields of these names; rungs count from 1 |
| `rested`, `held` | `last_probe` and `last_decrease` lie `PROBE_INTERVAL` and `HOLD_AFTER_DECREASE` back |
| `est` | which store of `apply_preset` comes next |
| `config` | `EncoderConfig`: target size, rate, bitrate and `quality_changed` |
| `enc` | where `encode_loop` is: at the flag, at one of the loads, at the session, at the bitrate, waiting for a frame, or returned |
| `loaded` | `new_w`, `new_h`, `new_fps`, `new_br` |
| `session`, `applied` | `enc_width`, `enc_height`, `enc_fps`; `applied_bitrate` |

`HandleEvent` is `handle_event` up to the stores of a new preset, which are the
steps of `ApplyPreset`; the encoder's steps come between any two of them. The
flag is stored with Release and swapped with Acquire, so a thread that sees it
set sees the values stored before it, and interleaving is a sound picture of the
relaxed loads. How RTT samples are smoothed is left out: a sample means no
congestion or mild congestion, in any order. Feedback is an event the
estimator handles, so it is in the model, though nothing in the program delivers
it (see the hazards in `PROJECT.json`).

| run | instance | checks |
|---|---|---|
| `bandwidth` | three rungs, bitrates in 2..12, raises of 50 per cent | `TypeOK`, `QualityFits` (one event moves the preset by one rung at most, and still the preset always fits the bitrate), `Recovers` (once decreases end, probing leads back to the top in spite of truncation), `PresetNotLost` (no change of the preset is lost between flag and values), `EncoderFollows` (the encoder ends up with the estimator's choice). |

Three rungs have a middle one, where the bitrate can pass either threshold; they
differ in width and rate, which is enough for the encoder to load a mixture of
two presets. The program's own ladder (in kbit/s, 5 per cent) is in `MCBandwidth`
too, where TLC evaluates the assumptions of the proofs on it.

Two remarks on comments. The README gives 500 kbit/s as the maximum for video;
the estimator's bound is 2 Mbit/s and probing goes there. A comment on
`quality_changed` (`bandwidth.rs:94`) says that it is cleared after the session
has been recreated; the code clears it before, which is the right order: with the
other, a change between the two would be lost.

Fairness: the timers run out, the estimator's task is polled, and `Recovers`
needs events without congestion, which frames that are sent in time produce; that
decreases end is its hypothesis. `EncoderFollows` needs that frames keep coming from the
camera, since `encode_loop` looks at the configuration once per frame.

### Proofs

`BandwidthProofs` proves for every ladder, every bound on the bitrate, and every
percentage that satisfy `LadderAssumption` and `SpacingAssumption` (rungs rise
and lie further apart than one event moves the bitrate, true of the program's
ladder):

- `TypeCorrect`: `SpecBandwidth => []TypeOK`. That bitrates stay within their bounds is
  part of the type.
- `PresetFits`: `[]QualityFits`, of `Spec`, the estimator alone, and of
  `SpecBandwidth`. The invariant adds the type of the
  state. A step of the bitrate crosses one threshold at most, which is the
  spacing assumption, and the preset moves with it.
- `ChangeNotLost`: `SpecBandwidth => []PresetNotLost`. Not inductive: the
  invariant adds what has been stored so far (`StoredSoFar`) and what has been
  loaded so far (`LoadedSoFar`). Loads may mix two presets only while stores
  are outstanding, and then the flag will be set again.

## Module `VideoSend`

Three threads meet here: the encoder thread (`encode_loop`), the task of
`send_loop` with a task for each frame and peer, and the room, which calls
`add_peer` and `remove_peer`.

| variable | code |
|---|---|
| `force_keyframe` | the atomic shared by `Broadcaster` and encoder |
| `encoding` | the frame between the swap of the flag and `packet_tx`: asked to be a keyframe or not |
| `n`, `gop`, `fails` | frames encoded, frames since the last keyframe (the encoder's `MaxKeyFrameInterval`), failures used up |
| `packets` | the packet channel, `ChanCap` long |
| `sending`, `handling`, `frame_seq`, `in_flight` | `send_loop`: started, the packet between the check for peers and the snapshot of the map, its counter, its tasks |
| `members`, `adding` | `Broadcaster.peers`; the peer in `add_peer`, between the map and the flag |
| `past`, `closed` | sessions that were added; those whose connection is lost |
| `sent` | frames that will arrive, in any order, written completely or cut short by an abort |
| `owed`, `missed` | history: members no keyframe was sent to, and those whose keyframe was lost |

What the encoder does with a frame is nondeterministic: it may emit a keyframe
at any time and must at the start of a session, when asked, and at its interval.
Finished tasks leave `in_flight` at once, which is when `retain` would find them
finished. Peers are sessions, so one that comes back is a new one.

| run | instance | checks |
|---|---|---|
| `video_send` | 2 sessions, a channel of 2, 4 frames, an interval of 3, one failure | `KeyframeOwed`: whoever has not been sent a keyframe has one coming, whatever the threads do in whatever order. `OneGroupInFlight`, `CutSuperseded`: an abort leaves nothing older than the keyframe and takes nothing from a peer that does not get the keyframe. |

Four frames fill the channel while send_loop holds another and leave one more
for a later keyframe; two sessions are enough for one to join while a keyframe
for the other is on its way. The run's end is the bound on frames, so deadlock is
not checked.

**A keyframe that was asked for may not be sent.** The request is cleared
before the frame is encoded, and a keyframe that then finds the packet channel full,
or fails to be encoded, is not asked for again: the peer waits for the next natural
keyframe, up to 150 frames. The comments at `broadcaster.rs:21` and `room.rs:198` say
what the request is for. `KeyframeOwed` excepts these peers (`missed`) and shows that no other
is forgotten.

### Proofs

`VideoProofs` proves, for any sessions, capacities, intervals and bounds
(`VideoSendAssumption`, which says that these are naturals, capacity and interval
positive, and that `None` is neither a session nor a packet), the three invariants as
theorems of `SendSpec`: `KeyframeComes` (`KeyframeOwed`), `KeyframeFirst`
(`OneGroupInFlight`) and `CutFramesSuperseded` (`CutSuperseded`). Their inductive
invariant is `SendInv`. Beyond the type it needs

- that packets are in the order in which they were encoded (`PacketsInOrder`), and the
  numbers that send_loop gives them too (`NumbersInOrder`), so that a keyframe comes
  behind all that was aborted for it and no number is used twice;
- that while send_loop holds a keyframe nobody has a task (`KeyAlone`): the aborts come
  before the snapshot of the map;
- that nothing was sent to a session that was not added (`FreshEmpty`).

`KeyframeOwed` is preserved although the flag is cleared by one thread and set by
another, because the room sets it after it has put the peer into the map: whoever
clears it encodes a keyframe that finds the peer there.

## Modules `VideoReceive` and `VideoPath`

`VideoReceive` is the receiving end of one peer's video; `VideoPath` EXTENDS
`VideoSend` with an instance of it, whose `streams` are what `VideoSend` has sent
to one session, `viewer`. A stream stays in `streams`; `arrived` says which have
been accepted, in any order.

| variable | code |
|---|---|
| `arrived`, `reading` | tasks of `handle_video_stream` behind the header, and those in `read_object` |
| `latest_keyframe` | the atomic of this name, shared by the tasks |
| `video` | the channel from dispatcher to decoder, `VideoCap` long |
| `got_keyframe`, `last_decoded_group`, `decoder` | locals of `run_video_decoder`; `keyframe_group` is never read |
| `reference` | history: the frame the decoder would decode the next one against |
| `received`, `drops` | `VideoDropCounter` |
| `shown`, `withheld` | history: frames decoded and handed to the compositor; frames that the decoder took without an error and gave no picture of |
| `errors` | failures of the decoder, bounded by `MaxErrors` |

`ReadHeader` and `ReadObject` are the two halves of `handle_video_stream`, before
and after it waits for the object. `HandleFrame` is one turn of
`run_video_decoder`, whose outcomes are `DropFrame`, `CreateFails`,
`DecodeFrame` and `DecodeFails`; whether parameter sets changed, which is when a
decoder is created, is left open, and so is whether the compositor's channel is
full. The object of a stream that was cut short cannot be read, and of one that
was not it can. Cancellation of the session is not modelled here.

| run | instance | checks |
|---|---|---|
| `video_path` | one viewer, 4 frames, channels of 1 and 2, one decoder error | `ReferenceKept`: among the frames that send_loop numbered, none is decoded out of order or behind a gap. `GateHasDecoder`: gate and decoder agree. `NothingVanishes`: a frame that arrived is shown, counted, or one the decoder gave no picture of. |

A gap is counted when it is noticed and once more at the gate, so `drops` can exceed
the frames that were lost; nothing here rules that out.

`decode_annex_b` has three outcomes. The one without a picture and without an error
(`video_decode.rs:145`; a sample without slices, or a callback that brought nothing) moves
`last_decoded_group` on and is counted nowhere, so that the drop counter that the viewer sees
does not know of such a frame. `NothingVanishes` names it (`withheld`).

**A gap that the numbers do not show.** A packet that the encoder thread
drops at the full channel has not been numbered yet. The frames around it have
consecutive numbers, so gap detection, which `room.rs:688` relies on, lets the second of them
through although it refers to the frame that never came. `ReferenceKept` is therefore
about the frames that send_loop has numbered.

A remark: a stream task that compared its group with
`latest_keyframe` before the keyframe arrived delivers its frame behind it; the
decoder, for which any other number than the next is a gap, then closes its gate
and waits for another keyframe, although nothing is missing.

Four frames hold two groups, with frames of the old one under way when the
keyframe of the new one arrives, and one that is lost in between. The runs state
safety only and need no fairness; they end when the frames are used up. `PathTypeOK`
is the types of both ends and the bounds of the channels.

### Proofs

`VideoProofs` also proves, for any capacities and any number of errors
(`ViewerAssumption`), of `PathSpec`:

- `PathTypeCorrect` (`PathTypeOK`), `GateNeedsDecoder` (`GateHasDecoder`), and
  `FramesAreCounted` (`NothingVanishes`): a step by which a frame leaves task or channel
  counts at least one, as a drop, as shown or as withheld.
- `RefersRight` (`ReferenceKept`, an action property). The invariant is `PathInv`, which is
  `SendInv`, the type of the receiver, and that the frame the decoder refers to is the
  one that `last_decoded_group` names (`RefersToLast`). A frame that is decoded without
  being a keyframe has the number after it; that there is no frame between them, in the
  order in which they were encoded, is `NumbersInOrder` of the sender.

## Modules `Jitter` and `Playout`

`Jitter` is `run_jitter_buffer` as the room starts it: for audio, master of the
clock, with sentinels. `Playout` is what it promises: whatever it emits is later
than everything it has emitted.

| variable | code |
|---|---|
| `now`, `captured`, `wire` | the clock of both ends, the frames captured, datagrams under way |
| `queue` | the map from timestamps to frames; a frame is its timestamp |
| `clock_offset`, `last_emitted` | `clock_offset_us`, `last_emitted_ts` |
| `out` | history: what each turn of the loop emitted, a sentinel as the timestamp of the frame it stands for |
| `received`, `played`, `dropped_late`, `dropped_duplicate` | `JitterStats` |

`Arrive` is the branch of `rx.recv()`; `Play` and `PlayNothing` are the branch of
the sleep, with and without a frame that is in time. How far an arrival moves the
offset, `drift_alpha` of the way, is left open. The sleep is over when the front
of the queue is due, or within 5 ms if there is none, so the branch is possible
whenever the queue is empty or something in it is due; a task that is scheduled
late takes it later. Both clocks show the same time, since a constant difference
is cancelled by the offset. The shared clock is written and never read by video,
which has no jitter buffer, and is left out.

The run `audio`, described with `AudioPath`, checks `TypeOK`, `QueueInTurn`,
`Accounted` and `InOrder`, the refinement. Units are coarse (a frame, the delay and
the limit are 2 units each), so that three frames in nine units are late, missing,
replaced by sentinels and overtaken in all combinations.

### Proofs

`AudioProofs`, which is about `AudioPath` as well, proves for every frame time, delay, limit and bound
(`JitterAssumption`, which says that they are naturals):

- `TypeCorrect`: `Spec => []TypeOK`. Nothing is put out before its time, which
  is part of the type, needs the clock offset to be a natural number.
- `InTurn`: `Spec => []QueueInTurn`, and
- `Implements`: `Spec => InOrder`, the refinement of `Playout`. The invariant adds
  to `QueueInTurn` that the last thing emitted is the latest (`LastIsLast`), and
  that there is a clock when something is queued (`Clocked`). A batch is in turn
  because the queue is; what stays in the queue is later than the batch, because
  it is not due, and later than a sentinel, because that is due.
- `StatisticsAddUp`: `Spec => []Accounted`, which needs besides that no frame is in the queue
  and on the network at once (`Apart`): it would be dropped as a duplicate of itself.

## Module `AudioPath`

`AudioPath` EXTENDS `Jitter`, which stays the jitter buffer of one peer, with
everything behind it. Others are the decoded frames they contribute.

| variable | code |
|---|---|
| `decoding` | the channel from jitter buffer to decoder (20) |
| `mixing` | `mixer_tx`, to the mixer (50): the peer and the timestamp of a frame |
| `buffers` | `peer_buffers`: frames instead of samples |
| `playback` | `playback_tx`, to the audio engine (50): a frame is the set of what was mixed in it |
| `heard`, `fed`, `mixed` | history: the last frame of the peer that went to the player; frames the mixer got by peer, and frames it sent |

`JitterStep` is a step of `Jitter` whose output is sent on, `DecodeAudio` a turn of
`run_audio_decoder`, `OtherDecodes` another peer's decoder, `Mix` a turn of
`AudioMixer::run` with `try_mix`, `Pump` a turn of the engine's loop. Channels drop
what is sent while they are full. A frame is always 960 samples: the sender encodes
that many, Opus conceals that many in the buffer it is given, and `try_mix` takes
that many, so that counting samples would show nothing else.

| run | instance | checks |
|---|---|---|
| `audio` | 3 frames of a peer, one of another, channels of 1, nine units of time | `Jitter`'s properties, and: `HeardInOrder`, what is heard of a peer is in order and not repeated, whatever was dropped on the way; `MixerHoldsNothing`, no audio waits in the mixer, so that a peer that falls silent or leaves holds back nobody. |
| `audio_mix` | the same | `SingleOutput` is violated, see below. |

Channels of 1 are full as soon as two things come at once, and empty again; the
time bound ends the runs, so deadlock is not checked. They are safety only.

**The mixer does not combine** (`audio_mix`). A comment says that it combines N
streams into one. It mixes after every message, as soon as any peer has a frame, and
a message is a frame: it never has two peers' frames at once. N peers make N output
frames in the time of one, the player plays them one after another, its queue grows,
the channel fills and drops. `MixerHoldsNothing` is the other side of this. The
buffer of a peer that left stays in the map for good, empty.

### Proofs

`AudioProofs` proves for any peers and capacities (`AudioAssumption`, by which the capacities are
numbers and the peer is none of the others) and what `JitterAssumption` allows:

- `HeardRight`: `AudioSpec => HeardInOrder`. The inductive invariant is `AudioInv`: `IInv` of the
  jitter buffer, the types, that each of the three channels is in order
  (`ChannelsInOrder`), and that what is further on its way is earlier, and all of it
  emitted (`WayInOrder`). What the jitter buffer emits next is later than all that it
  emitted, by the invariant of its own proof; dropping at a full channel leaves the order
  alone. `Ascending`, the sequence of a batch, is given by a `CHOOSE`; `AscendingIs` proves that
  there is such a sequence.
- `MixerIsEmpty`: `AudioSpec => []MixerHoldsNothing`. The invariant that buffers are empty is all
  that it takes, with the same remark about the comment as above.

## Module `BufPool`

| variable | code |
|---|---|
| `made` | buffers that were allocated |
| `free` | `BufPool.inner`, a stack |
| `place` | where a buffer is: in the pool, owned by a `PoolBuf`, behind `SharedBuf`s, on its way back |
| `handles` | the count of the `Arc<SharedInner>` |
| `data` | the contents of the `Vec` |

`Checkout`, `CheckoutEmpty`, `Share` (with filling and truncating before it),
`Clone`, `DropOwned`, `DropShared` and `PushBack` are the operations. A thread that
dropped the last handle waits for the lock: the buffer is cleared before, and
pushed after it.

`BufPoolProofs` proves for any number of buffers and any contents:

- `EachOneHome`: `PoolSpec => []OneHome`. Inductive with the type of the state: every
  operation moves one buffer between two places, and pushing it needs it to be in
  none of the stack's.
- `FreeAlwaysEmpty`: `PoolSpec => []FreeIsEmpty`. The invariant adds that a buffer on
  its way back is empty. `checkout` calls its contents unspecified (`pool.rs:86`) and
  `audio_mixer.rs:56` relies on zeroes; this theorem is why the mixer is right.

## Modules `Framing`, `AnnexB` and `MediaStream`

`Framing` is `protocol.rs` over sequences of bytes, a u64 being eight of them:
varints by their width, the header of a stream, an object with its extension headers.
`AnnexB` is what `extract_annex_b` writes and how the receiver takes it apart.
`MediaStream` is one frame's way through them, in buffers of two pools.

| variable | code |
|---|---|
| the five of `BufPool`, twice | the encoder's pool, and `video_payload_pool` (`in_` in front) |
| `encoder`, `unsent` | the frame in the callback or in send_loop, and the peers it has no task for yet |
| `tasks` | tasks of `send_video_frame`, each with a handle |
| `streams` | streams on their way to `viewer`: the bytes, and whether they will all come |
| `reading` | tasks of `handle_video_stream` behind the object's head |
| `video`, `session`, `got_keyframe`, `last_decoded_group` | as in `VideoReceive`; a session is its parameter sets |
| `frames`, `decoded` | history: what was numbered, and what the decoder was fed with |

What is dropped or aborted when is the matter of the two modules before; here any
task may be aborted and any stream reset.

The run `media_stream` has four kinds of frames, of which two are encoded, in any
combination: keyframes with two sets of parameters, one that does not fit the buffer
with its slack, units of one byte, units that start or go on with zeroes. Timestamps
are the first that take four and eight bytes and the last of all; the delta is 64
bytes with its start codes, the first length that takes two. Two buffers in each pool
are enough for two frames at once and for a second that gets the buffer of the first.
Two peers let the handles of a frame be dropped in any order.

- `DecodedAsEncoded`: the decoder is given the slices, timestamp and parameter sets
  that the encoder returned, or nothing.
- `WholeStreamsRead`: a stream that is not reset can be read to its end.
- `OneHome`, `FreeIsEmpty`: of the sender's pool; `EveryHandleHeld`: for every handle
  there is a thread or queue that will drop it, in both pools, and the viewer's pool
  is sound as well.

### Proofs

`MediaProofs` proves for any samples, peers and numbers of buffers:

- `NoBufferLost`: `Spec => []EveryHandleHeld`. The invariant `HoldInv` says of each pool that
  it is sound (the invariant of `BufPoolProofs`, by its lemmas about each operation) and
  counts who holds what: at the sender a buffer's handles are the encoder's and one
  for each task (`SendInv`); at the viewer a buffer has one handle, of one reader or one
  frame of the channel (`ReadInv`). Every action is an operation of one pool or of
  none, and the invariants of the two pools do not mention each other's state.
- `WholeStreams`: `Spec => []WholeStreamsRead`. The invariant `ContentInv` says that the
  buffer of every handle has the bytes of the frame it was filled with (`Filled`), that
  there is a number for the frame being extracted (`Numbered`), that a stream carries the bytes of some frame
  (`StreamsCarry`), and that what a reader or the channel holds is what that frame's
  stream said (`HeldCarry`). That the buffer cannot change under a task is `SendInv`: it has a
  handle, so it is neither in the pool nor with another frame. The rest is about `Framing`: a
  number is read as it was written whatever follows it (`VarintRead`), for each of the
  four widths, hence a header, an object and its extensions (`ObjectRead`), and a
  stream (`FrameRead`).
- `DecodesWhatWasEncoded`: `Spec => []DecodedAsEncoded`, if `SurvivesAnnexB`: that taking apart
  what `extract_annex_b` writes for a sample gives its slices and parameter sets, and that two
  keyframes with the same bytes of parameters have the same parameter sets. `DecodeInv` adds that
  the session is the parameter sets of the keyframe that the last decoded frame depends on.

The hypothesis is an operator of the model and not an assumption of it; TLC evaluates
it on the samples of the run (`MCSurvives`). A proof of it would go by induction over
the bytes of a sample, which needs theorems that the prover cannot instantiate.

They assume `MediaAssumption` (the viewer is a peer, `None` is no frame),
`SamplesAssumption` and `BufPoolAssumption`. `SamplesAssumption` is what the code takes for granted of
what the encoder returns: a frame is a sequence of bytes and not empty, its timestamp
is a u64 with two bits to spare, and its length, as the number of frames, is below
2^31. The last is a bound of the model (`Number`): lengths and frame numbers are numbers that
TLC counts with, of four bytes, where the code has u64.

Remarks: a payload of length zero would be followed by a status that `write_object`
does not write, but the encoder has no empty frames. Above 2^62 - 1 a varint loses
its two highest bits; no number of the program is that large. A sample whose start
codes are so much longer than its lengths that 256 bytes of slack are used up is
dropped with an error, which may cost a keyframe. The layout of audio datagrams is
not modelled. A NAL unit that ends in a zero would lose it to the start code behind
it; HEVC forbids it, and the samples follow that.

## Module `Compositor`

| variable | code |
|---|---|
| `sessions`, `known` | the peers in `Room.peers`, and their `PeerState.name` |
| `running` | peers whose decoder and path watcher still run; they end some time after the session was removed |
| `frames`, `cmds` | the compositor's channels, both 10 long |
| `latest`, `names`, `kinds` | `latest_frames`, `peer_names`, `peer_conn_kinds`; `None` is an empty name as well as no entry, which the gallery does not tell apart |
| `display`, `shown` | the channel to the display (2), the peers of the gallery it took last |
| `lost`, `revived` | history: peers whose last name or removal found the channel full; departed peers of whom a frame came behind `RemovePeer` |

`AddPeer`, `RemovePeer`, `UpdateName`, `SendFrame`, `SendPath` and `TasksEnd` are the
room and its tasks, `TakeFrame` and `TakeCommand` the branches of the compositor's
`select!`, `Receive` the display. A session's two commands, drop counter and name,
are sent in one action: nothing between them waits, and what other threads may send
in between changes neither's fate in a way that the properties tell apart. A peer is
added with the name of its `Hello`, which may be empty, or without one when the room
dialled it (`room.rs:527`); an empty name is not sent (`room.rs:729`). `UpdateName` is a list that
has another name for a member; any name can come from any list, since lists repeat
what their senders have recorded. The counters' values, pictures and the grid are left out.

The run `gallery` has one peer that comes and goes beside the own tile, with two names or
none, and channels of 1, 3 and 1.
A channel of three commands takes a session's two and one more, so that it is full at
every kind of command. `Direct` and `Local` are the same model value as `Unknown`, which
merges the contents of `kinds` but not the commands.

- `GhostsExplained`: a departed peer has a tile only while its `RemovePeer` is on its
  way, or because it found the channel full, or because a late frame came behind it.
  The last two leave the tile on the screen for good, since nothing removes it later.
- `NamesInStep`: what is in the channel leads the compositor to the name that the room
  has recorded for the peer, none if it is empty or the peer is gone, unless the last
  command about it was lost. So a late `RemovePeer` never takes the name of a peer that is
  back, and one that is back without having told its name does not go by its old one.
- `LeaverGoes`: the tile of a peer that left disappears from the screen. The gallery
  that `RemovePeer` makes may itself be dropped at the full channel to the display;
  then the next one that the camera's frames cause will show it. Without a camera the
  last gallery stays, and the property fails; the fairness of `SendFrame(Self)` is
  that assumption. The rest is that the compositor's loop and the display go on, and
  that `select!`, which picks at random, serves both channels. Weak fairness of each
  branch says that, since a message in a channel stays there.

Two things that the code does not do, which the properties except by name:

- **The tile of a peer that left comes back** (`revived`, `lost`). Frames and commands have a
  channel each and the compositor enters every frame it takes; one that the decoder
  sent before it was cancelled can be taken behind `RemovePeer`. A `RemovePeer` that finds its
  channel full, which the room ignores, leaves the tile as well. Either stays until
  the peer returns and leaves again.
- **A name that is lost is not sent again** (`lost`). `handle_received_peer_list` records
  the new name and then tries to send it. When the channel is full the lists that
  repeat the name change nothing, for the room knows it already.

`CompositorProofs` proves `Ghosts` and `NamesFollow`, the two invariants, for any
peers, names and capacities. Their invariant `IInv` is the two together, with the types of
commands and names and that the room has recorded no name for a peer that is not in
its map: a peer that is added without a name sends nothing, and must find itself
nameless behind what is in the channel already. `Called` says of the whole channel what a
peer will be called, so the lemmas are about what sending a command (`TellIs`,
`CalledByLast`), sending one about another peer (`CalledKept`) and taking the first (`TakenFirst`) do to it.

## Modules `Screen` and `Program`

`Screen` is the Kitty display's loop with the screen it draws on; `Program` EXTENDS it
with `run_app` and everything that has to end.

| variable | code |
|---|---|
| `display`, `loop` | the channel, and where `display_loop` is |
| `resized` | `RESIZED` |
| `last_tile_count`, `last_gallery`, `drawn_labels`, `back_toggle`, `last_status_drawn`, `error_drawn` | the loop's locals |
| `status_line`, `camera_error` | the two shared cells |
| `placed`, `pictures`, `texts` | the screen: images by their ids, and for each slot whose picture and what label it shows |
| `wiped` | history: the main thread has cleared the screen since the loop did |
| `mode` | window, or terminal; of the latter, once it is set up, with Kitty graphics or without |
| `app`, `failed` | where `run_app` is, and whether it returns an error |
| `cancelled` | the cancellation token |
| `tty`, `alt` | whether the terminal is in raw mode, with `ORIG_TERMIOS`, the mode to restore; the alternate screen |
| `stuck` | history: raw mode was on already when `run_app` turned it on |
| `sender` | who holds `display_tx` |
| `capture`, `pipes` | the camera's thread; the blocking threads of tee and encoder |
| `window` | whether the window is open |

In `Screen`, `Top` is the loop up to `blocking_recv`, `Receive` the rest; a gallery may
be dropped (`SendGallery`), the terminal resized (`Resize`), the transfer of any tile
fail. In `Program`, `StartTerminal`, `StartWindow`, `Bind`, `Online`, `Setup`, `Join`, `Handle`, `Handled`, `RunEnds`, `Cleanup`,
`LeaveApp` and `RuntimeEnds` are `main`, `CompositorEnds`, `CaptureEnds` and `PipesEnd` the tasks
and threads, `Kitty...` and `Window...` the two displays. The room is here only what
takes time. The audio engine's thread ends when it is told and joined, in `LeaveApp`.
Which galleries come is left open.

`StartTerminal` is `run_app` up to the display: the probe for Kitty graphics
(`kitty::detect_kitty_support`, of which any step may fail, which is taken for a no),
`enable_raw_mode()?` and `tui::init()?`, either of which may fail with or without its
effect, and only then the guard (`Guarded`). What is written to the terminal may fail;
`tcsetattr` may fail when raw mode is turned on, and it is taken for granted that it
does not when the old mode is restored, nor the last write of `tui::cleanup`. The panic
hook and the signal handler (`main.rs:46-61`, `108`) are left out.

The run `program` has galleries of none and of two tiles, in which the peers of the second slot
replace one another, one known by name and one not; a channel of one; one
resize or failed transfer. All modes and all errors are in it, those of the start too.

- `LabelsMatch`: a label is that of the picture above it. It can be missing after the
  wipe (below), and after a failed transfer where nothing is known of the peer.
- `NoStaleTile`: no image is left in a slot that is gone.
- `QuietAfterCleanup`: nobody draws on the restored screen.
- `LeftClean`: when the program has ended its images are deleted; the main screen is back
  unless `run_app` failed; raw mode is off unless the start of the terminal failed or
  found it on.
- `Ends`: the program ends once it is cancelled, or has failed without leaving a camera
  behind in a terminal (below).
- `TicketShown`: with a camera, the ticket appears.

Fairness: `run_app` goes on, which needs that dials and handshakes end
(`HandshakesEnd` of `Mesh`, with time-outs of iroh); threads are scheduled; a camera has
frames; `select!` picks at random, so a loop that is at its `select!` again and again does
not miss `cancel` for ever, which is the only strong fairness (`RunEnds`). A window
that shows galleries is looked at between them; that somebody closes it is not assumed.

### Proofs

`ProgramProofs` proves, for any galleries, tiles and channel:

- `Quiet` (`QuietAfterCleanup`), which needs that `run_app` restores the screen only after it
  waited (`alt` falls in `Cleanup` alone) and that the loop never leaves its end.
- `Clean` (`LeftClean`): the process cannot end before the display has, and an ended
  loop has deleted its images and draws no more. Who has got past the start has the
  guard, which restores what `enable_raw_mode` saved: the usual mode, unless raw mode
  was on (`Restored`). The three exceptions are those of the property.
- `LabelsRight` (`LabelsMatch`) and `NoTileLeft` (`NoStaleTile`). The display draws what differs
  from what it remembers, so the invariant (`ScreenInv`) is that it remembers rightly:
  a slot's remembered label is the one on the screen, unless it was wiped or its
  transfer failed, and that of the slot's picture; the images on the screen are in the
  slots of the last gallery, whose length is `last_tile_count`. They assume
  `ScreenAssumption`: galleries are sequences, and no tile has `None` as its label.

### What was met in the code

- **The terminal is not always restored.** `RawModeGuard` is made
  behind two `?`, so a start that fails in `enable_raw_mode`, after `tcsetattr`, or in
  `tui::init` stays in raw mode. A probe that fails leaves raw mode on, and then
  `enable_raw_mode` saves raw mode as the mode to restore. Every error and a cancellation during
  set-up skip `tui::cleanup` through `?`, so the alternate screen stays, and raw mode
  ends while the display may still draw. `LeftClean` names each of these ways.
- **Without a camera the ticket is not shown.** When there is no peer with
  one either, no gallery comes, and the loop waits in `blocking_recv`
  (`video_display_kitty.rs:160`): neither the ticket nor the camera's error is drawn.
  `TicketShown` has a camera as its hypothesis.
- **A cleared screen that nobody tells the display of.** A participant
  that joins with a ticket clears the terminal (`main.rs:393`) when the display may have
  drawn its own tile, label and error banner already. The display still believes they are there:
  pictures come again with the next frame, the label and the banner only when the
  layout changes or the terminal is resized. `LabelsMatch` excepts it (`wiped`).
- A join that fails in a terminal with a camera leaves the camera's thread, and with it
  tee and encoder, waiting for `cancel`, which nobody fires; the runtime waits for
  them until the user presses a key. `Ends` excepts it.
- If Kitty's window size cannot be read when an empty gallery comes, the status is remembered as drawn.
- The signal handler (`main.rs:108`) locks the mutex that holds the terminal's old mode.
- `draw_error_banner` (`tui.rs:184`) wraps its text to the terminal's width less four and never ends
  when that is zero.

## What is proved, and what is only checked

| theorem | property | from |
|---|---|---|
| `MeshProofs!TypeCorrect`, `AlwaysWatched`, `NeverHalfOpen`, `NoDeadlock` | `TypeOK`, `NoZombie`, `NoHalfOpen`, `NoWaitCycle` | `PeersAssumption`, `BoundsAssumption`, `NoneAssumption` |
| `BandwidthProofs!TypeCorrect`, `PresetFits`, `ChangeNotLost` | `TypeOK`, `QualityFits`, `PresetNotLost` | `LadderAssumption`, `SpacingAssumption` |
| `VideoProofs!KeyframeComes`, `KeyframeFirst`, `CutFramesSuperseded` | `KeyframeOwed`, `OneGroupInFlight`, `CutSuperseded` | `VideoSendAssumption` |
| `VideoProofs!PathTypeCorrect`, `GateNeedsDecoder`, `FramesAreCounted`, `RefersRight` | `PathTypeOK`, `GateHasDecoder`, `NothingVanishes`, `ReferenceKept` | `VideoSendAssumption`, `ViewerAssumption` |
| `AudioProofs!TypeCorrect`, `InTurn`, `StatisticsAddUp`, `Implements` | `TypeOK`, `QueueInTurn`, `Accounted`, `InOrder` | `JitterAssumption` |
| `AudioProofs!HeardRight`, `MixerIsEmpty` | `HeardInOrder`, `MixerHoldsNothing` | `JitterAssumption`, `AudioAssumption` |
| `BufPoolProofs!EachOneHome`, `FreeAlwaysEmpty` | `OneHome`, `FreeIsEmpty` | `BufPoolAssumption` |
| `MediaProofs!NoBufferLost`, `WholeStreams` | `EveryHandleHeld`, `WholeStreamsRead` | `MediaAssumption`, `SamplesAssumption`, `BufPoolAssumption` |
| `MediaProofs!DecodesWhatWasEncoded` | `DecodedAsEncoded` | the same, and `SurvivesAnnexB` |
| `CompositorProofs!Ghosts`, `NamesFollow` | `GhostsExplained`, `NamesInStep` | `CompositorAssumption` |
| `ProgramProofs!Quiet`, `Clean`, `LabelsRight`, `NoTileLeft` | `QuietAfterCleanup`, `LeftClean`, `LabelsMatch`, `NoStaleTile` | `ScreenAssumption`, for the last two |

Every invariant and every safety action property that a passing run checks is a
theorem. Only checked: all liveness (`ConvergesUndisturbed`, `HandshakesEnd`, `DepartedForgotten`,
`Recovers`, `EncoderFollows`, `LeaverGoes`, `Ends`, `TicketShown`), since the prover does
not do liveness under fairness; and `SurvivesAnnexB`, a hypothesis of one theorem, since it needs
induction over data. The properties of the three violation
runs (`Converges`, `RemovedOnlyWhenClosed`, `SingleOutput`) are what the code does not keep.

## Not modelled

- `vimage.rs` and the conversions in `video_decode.rs` and `video_capture.rs`: calls into
  Accelerate and arithmetic on pixels, without state.
- VideoToolbox, AVFoundation, AVAudioEngine, Opus, iroh: external; what the code does
  with their results is modelled.
- Layout and escape sequences of the displays (`kitty.rs`, most of `tui.rs` and of the
  window's drawing): the position of a label is not redrawn when only the size of tiles
  changes, and the dot that shows drops is kept by slot, neither of which a model
  without positions can say.
- Congestion feedback: a peer sends it on streams of its own, the dispatcher has no
  channel to hand it to (`room.rs:656`), so it has no effect.
- Argument parsing, tracing, the ticket's and the control messages' text formats.

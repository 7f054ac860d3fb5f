-------------------------------- MODULE Program --------------------------------
(***************************************************************************)
(* The program from its start to its exit: run_app (src/src/main.rs) and   *)
(* the threads and tasks it starts, which end in their own time once       *)
(* `cancel` fires or what they receive from is gone.  The display is       *)
(* Screen's in the terminal, and of the one in a window what matters here. *)
(*                                                                         *)
(* What of the room takes time is left out but that it does: a dial, a     *)
(* handshake and the handling of an event end.  The galleries are any      *)
(* (Compositor says which).                                                *)
(***************************************************************************)
EXTENDS Screen

CONSTANTS Network, Ticket  \* what the status line says

VARIABLES
  mode,        \* "window" or "terminal"; of the latter, once it is set up, "kitty" or "plain",
               \* which shows no images
  cancelled,   \* `cancel`
  app,         \* where run_app is
  failed,      \* it returns an error
  tty,         \* whether the terminal is in raw mode, and ORIG_TERMIOS, the mode to restore
  alt,         \* it shows its alternate screen
  sender,      \* who has display_tx: "app", "compositor", or it is "gone"
  capture, pipes,   \* the threads that run: the camera's; those of tee_capture and encode_loop
  window,      \* the window has been opened
  stuck        \* history: raw mode was on already when run_app turned it on

threads == <<capture, pipes>>
appVars == <<app, failed, tty, alt, stuck>>
vars    == <<mode, appVars, cancelled, sender, threads, window, display, statusVars, screenVars>>

\* main has started run_app, in a terminal in its usual mode or beside the window.
Init ==
  /\ mode \in {"terminal", "window"}
  /\ cancelled = FALSE
  /\ app = "start" /\ failed = FALSE
  /\ tty = [raw |-> FALSE, saved |-> "none"] /\ alt = FALSE /\ stuck = FALSE
  /\ sender = IF mode = "window" THEN "app" ELSE "gone"
  /\ capture = FALSE /\ pipes = FALSE
  /\ window = FALSE
  /\ ScreenInit /\ status_line = None /\ camera_error = FALSE

\* A key, or Ctrl-C in window mode.  The window has keys of its own, see WindowTop.
Quit ==
  /\ ~cancelled /\ cancelled' = TRUE
  /\ mode # "terminal" /\ app # "start"
  /\ mode = "window" => app \notin {"left", "down"}
  /\ UNCHANGED <<mode, appVars, sender, threads, window, display, statusVars, screenVars>>

-------------------------------------------------------------------------------
(* The terminal's mode.  Its descriptor stays, so that tcsetattr does what it did before; *)
(* whatever writes to it may fail.                                                        *)

\* enable_raw_mode saves the mode that it finds, raw mode too ...
EnableRaw(t) == [raw |-> TRUE, saved |-> IF t.raw THEN "raw" ELSE "cooked"]

\* ... and may fail before that, before the mode is changed, or behind it, at the flush.
EnableFails(t) == {t, [t EXCEPT !.saved = EnableRaw(t).saved], EnableRaw(t)}

\* disable_raw_mode, which may fail behind it.
DisableRaw(t) == IF t.saved = "none" THEN t ELSE [raw |-> t.saved = "raw", saved |-> "none"]

\* detect_kitty_support, in raw mode, has an answer.
Probed(t) == DisableRaw(EnableRaw(t))

\* It fails, wherever it is; that is taken for the answer that there is no support.
ProbeFails(t) == EnableFails(t) \cup {Probed(t)}

-------------------------------------------------------------------------------
(* run_app. *)

\* `?`, or bail!: the way out that skips the clean-up.
Fails == failed' = TRUE /\ app' = "leave" /\ UNCHANGED status_line

\* The terminal has been probed for images, or not; it is put in raw mode and shows the
\* alternate screen.  Only then is there a guard to take it back.
StartTerminal ==
  /\ mode = "terminal" /\ app = "start"
  /\ \E kitty \in BOOLEAN : \E before \in ProbeFails(tty) \cup {tty} :
       /\ kitty => before = Probed(tty)
       /\ stuck' = before.raw
       /\ \/ Fails /\ tty' \in EnableFails(before) /\ UNCHANGED <<mode, alt, sender>>
          \/ Fails /\ tty' = EnableRaw(before) /\ alt' \in BOOLEAN /\ UNCHANGED <<mode, sender>>
          \/ /\ app' = "bind" /\ tty' = EnableRaw(before) /\ alt' = TRUE
             /\ mode' = IF kitty THEN "kitty" ELSE "plain"
             /\ sender' = IF kitty THEN "app" ELSE "gone"
             /\ UNCHANGED <<failed, status_line>>
  /\ UNCHANGED <<cancelled, threads, window, display, camera_error, screenVars>>

\* The endpoint is bound; then the camera and its threads, and Room::new.
Bind ==
  /\ app = "bind"
  /\ \/ /\ Fails
        /\ sender' = "gone"
        /\ UNCHANGED <<camera_error, capture, pipes>>
     \/ /\ capture' \in BOOLEAN /\ pipes' = capture' /\ camera_error' = ~capture'
        /\ sender' = IF mode = "plain" THEN "gone" ELSE "compositor"
        /\ \/ app' = "online" /\ status_line' = Network
           \/ app' = "setup" /\ UNCHANGED status_line
        /\ UNCHANGED failed
  /\ UNCHANGED <<mode, tty, alt, stuck, cancelled, window, display, screenVars>>

\* The endpoint is online, or 10 s have passed.
Online ==
  /\ app = "online"
  /\ \/ app' = "setup" /\ UNCHANGED <<failed, status_line>>
     \/ cancelled /\ Fails
  /\ UNCHANGED <<mode, tty, alt, stuck, cancelled, sender, threads, window, display,
                 camera_error, screenVars>>

\* The ticket that was given, if one was, is read, for which the terminal is cleared,
\* and the own one shown.
Setup ==
  /\ app = "setup"
  /\ \/ /\ app' \in {"join", "run"} /\ status_line' = Ticket
        /\ IF app' = "join" /\ mode = "kitty" THEN Wipe ELSE UNCHANGED screenVars
        /\ UNCHANGED failed
     \/ Fails /\ UNCHANGED screenVars
  /\ UNCHANGED <<mode, tty, alt, stuck, cancelled, sender, threads, window, display, camera_error>>

\* The first peer has been dialled and its PeerList followed; or that failed, which
\* includes that it was cancelled.
Join ==
  /\ app = "join"
  /\ \/ app' = "run" /\ UNCHANGED <<failed, status_line>>
     \/ Fails
  /\ UNCHANGED <<mode, tty, alt, stuck, cancelled, sender, threads, window, display,
                 camera_error, screenVars>>

Goto(from, to) ==
  /\ app = from /\ app' = to
  /\ UNCHANGED <<mode, failed, tty, alt, stuck, cancelled, sender, threads, window,
                 display, statusVars, screenVars>>

\* In a window there is no terminal to set up.
StartWindow == mode = "window" /\ Goto("start", "bind")

\* Who has got past the start has a guard, if in a terminal.
Guarded == mode \in {"kitty", "plain"}

\* The event loop, which does not look at `cancel` while it handles an event.
Handle  == Goto("run", "busy")
Handled == Goto("busy", "run")

\* It looks at it; the room is dropped.
RunEnds == cancelled /\ Goto("run", "await")

\* Mutant: the display is not waited for.
Cleanup_NoAwait ==
  /\ app = "await" /\ app' = "leave"
  /\ alt' = FALSE
  /\ UNCHANGED <<mode, failed, tty, stuck, cancelled, sender, threads, window, display,
                 statusVars, screenVars>>

\* The display in the terminal has ended: the main screen is restored.
Cleanup ==
  /\ app = "await" /\ app' = "leave"
  /\ mode = "kitty" => loop = "end"
  /\ alt' = FALSE
  /\ UNCHANGED <<mode, failed, tty, stuck, cancelled, sender, threads, window, display,
                 statusVars, screenVars>>

\* The locals are dropped: the audio engine, which stops its thread and waits for it, and
\* then the guard, if there is one, which restores the terminal's mode.
LeaveApp ==
  /\ app = "leave"
  /\ app' = "left" /\ tty' = IF Guarded THEN DisableRaw(tty) ELSE tty
  /\ UNCHANGED <<mode, failed, alt, stuck, cancelled, sender, threads, window, display,
                 statusVars, screenVars>>

\* The runtime is dropped, with its tasks, and waits for its blocking threads.
RuntimeEnds ==
  /\ sender = "gone"
  /\ ~pipes /\ (mode = "kitty" => loop = "end")
  /\ Goto("left", "down")

\* main returns; the process ends with the threads that nobody waits for.
Ended == app = "down" /\ (mode = "window" => loop = "end")

-------------------------------------------------------------------------------
(* The threads and tasks. *)

\* The compositor ends when it is cancelled, when the room that commands it is gone, or
\* with the runtime.
CompositorEnds ==
  /\ sender = "compositor" /\ sender' = "gone"
  /\ cancelled \/ app \in {"await", "leave", "left"}
  /\ UNCHANGED <<mode, appVars, cancelled, threads, window, display, statusVars, screenVars>>

\* Nothing but `cancel` ends the camera's thread.
CaptureEnds ==
  /\ capture /\ capture' = FALSE
  /\ cancelled
  /\ UNCHANGED <<mode, appVars, cancelled, sender, pipes, window, display,
                 statusVars, screenVars>>

\* Cancelled, or no more frames; so it is for the encoder, whose frames come from the tee.
PipesEnd ==
  /\ pipes /\ pipes' = FALSE
  /\ cancelled \/ ~capture
  /\ UNCHANGED <<mode, appVars, cancelled, sender, capture, window, display,
                 statusVars, screenVars>>

\* A gallery for the display.
Show(gallery) ==
  /\ sender = "compositor" /\ SendGallery(gallery)
  /\ UNCHANGED <<mode, appVars, cancelled, sender, threads, window>>

DisplayKeeps == UNCHANGED <<mode, appVars, cancelled, sender, threads, window>>
NoGalleries  == display = <<>> /\ sender = "gone"

\* The display in the terminal.
KittyResize  == mode = "kitty" /\ Resize /\ DisplayKeeps
KittyTop     == mode = "kitty" /\ ~cancelled /\ Top /\ DisplayKeeps
KittyReceive == mode = "kitty" /\ Receive /\ DisplayKeeps
KittyEnds ==
  /\ mode = "kitty"
  /\ (loop = "top" /\ cancelled) \/ (loop = "recv" /\ NoGalleries)
  /\ Leave /\ DisplayKeeps

\* The display in the window, on the main thread: the window is looked at between two
\* galleries.
WindowTop ==
  /\ mode = "window" /\ ~cancelled
  /\ loop = "top" /\ loop' = "recv"
  /\ DisplayKeeps
  /\ UNCHANGED <<display, statusVars, resized, last_tile_count, last_gallery, drawVars>>

WindowReceive ==
  /\ mode = "window"
  /\ loop = "recv" /\ loop' = "top"
  /\ display # <<>> /\ display' = Tail(display)
  /\ window' = (window \/ Head(display) # <<>>)
  /\ UNCHANGED <<mode, appVars, cancelled, sender, threads, statusVars, resized,
                 last_tile_count, last_gallery, drawVars>>

\* Mutant: the end of the display cancels nothing.
WindowEnds_NoCancel ==
  /\ mode = "window"
  /\ \/ loop = "top" /\ (cancelled \/ window)
     \/ loop = "recv" /\ (NoGalleries \/ display # <<>>)
  /\ loop' = "end" /\ display' = <<>>
  /\ UNCHANGED <<mode, appVars, cancelled, sender, threads, window, statusVars,
                 resized, last_tile_count, last_gallery, drawVars>>

\* It is cancelled or closed; there are no more galleries, or one that cannot be drawn.
\* main then cancels.
WindowEnds ==
  /\ mode = "window"
  /\ \/ loop = "top" /\ (cancelled \/ window)
     \/ loop = "recv" /\ (NoGalleries \/ display # <<>>)
  /\ loop' = "end" /\ display' = <<>> /\ cancelled' = TRUE
  /\ UNCHANGED <<mode, appVars, sender, threads, window, statusVars,
                 resized, last_tile_count, last_gallery, drawVars>>

Start    == StartTerminal \/ StartWindow
App      == Start \/ Bind \/ Online \/ Setup \/ Join \/ Handled \/ Cleanup \/ LeaveApp \/ RuntimeEnds
Threads  == CompositorEnds \/ CaptureEnds \/ PipesEnd
Terminal == KittyTop \/ KittyReceive \/ KittyEnds
InWindow == WindowTop \/ WindowReceive \/ (loop = "recv" /\ WindowEnds)
                      \/ (cancelled /\ WindowEnds)

Next ==
  \/ ~Ended /\ (Quit \/ KittyResize \/ \E gallery \in Galleries : Show(gallery))
  \/ App \/ Handle \/ RunEnds \/ Threads
  \/ Terminal \/ WindowTop \/ WindowReceive \/ WindowEnds

\* run_app goes on, for what the room waits for ends, and so does every thread; those that
\* end do it once.  The select! of the event loop picks among the branches that are ready
\* at random: it does not miss `cancel` for ever.  A camera has its frames.
Fairness ==
  /\ WF_vars(App) /\ SF_vars(RunEnds)
  /\ WF_vars(Threads) /\ WF_vars(Terminal \/ InWindow)
  /\ WF_vars(capture /\ \E gallery \in Galleries : Show(gallery))

Spec == Init /\ [][Next]_vars /\ Fairness

-------------------------------------------------------------------------------

\* The display has written its last when the main screen is restored, however it learns
\* that it is to end.
QuietAfterCleanup == mode = "kitty" /\ ~alt => loop = "end"

\* The program leaves no images on the terminal, whether the display ends because it is
\* cancelled or because it is left alone, the main screen unless run_app failed, and raw mode
\* unless the start of the terminal failed or found it on, where a failed probe had left it.
LeftClean ==
  Ended => /\ placed = {}
           /\ alt => failed
           /\ tty.raw => mode = "terminal" \/ stuck

\* It ends once it is cancelled, wherever it is: no thread waits for another in a circle.
\* So does one that failed, unless that leaves a camera behind in a terminal, whose thread
\* only `cancel` ends.
Ends == cancelled \/ (app = "left" /\ (~capture \/ mode = "window")) ~> Ended

\* The ticket is shown in a terminal that has a camera, whose galleries make the display
\* look at the status line, whatever was shown or cleared before.
TicketShown ==
  status_line = Ticket /\ mode = "kitty" /\ capture
    ~> last_status_drawn = Ticket \/ cancelled \/ app \in {"leave", "left", "down"}
===============================================================================

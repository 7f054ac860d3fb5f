----------------------------- MODULE ProgramProofs -----------------------------
(***************************************************************************)
(* The terminal is left as it was found (QuietAfterCleanup, LeftClean) and *)
(* shows what the display remembers to have drawn (LabelsMatch,            *)
(* NoStaleTile), whatever the galleries are.                               *)
(*                                                                         *)
(* The first two need how far run_app has come when the terminal is        *)
(* restored, and that a display that has ended has no images; the others   *)
(* need that each slot's label is remembered as it is on the screen, as    *)
(* that of the slot's picture.                                             *)
(***************************************************************************)
EXTENDS Program, WellFoundedInduction, TLAPS

\* Images are on the screen only while the display in the terminal runs.
ImagesShown == loop = "end" \/ mode # "kitty" => placed = {}

\* What has been restored when run_app is where it is.
Restored ==
  /\ Guarded /\ ~stuck => IF app \in {"left", "down"} THEN ~tty.raw
                                                     ELSE tty.saved = "cooked"
  /\ mode = "window" => ~tty.raw
  /\ mode \in {"terminal", "window", "kitty", "plain"}
  /\ mode = "terminal" => app \in {"start", "leave", "left", "down"}
  /\ app \in {"leave", "left", "down"} => failed \/ ~alt
  /\ app = "down" /\ mode = "kitty" => loop = "end"

IInv == QuietAfterCleanup /\ ImagesShown /\ Restored

-------------------------------------------------------------------------------

LEMMA InitIInv == Init => IInv
BY DEF Init, ScreenInit, IInv, QuietAfterCleanup, ImagesShown, Restored, Guarded

\* run_app is past the start with the guard and the alternate screen on, or has failed.
LEMMA StartIInv == ASSUME IInv, Start PROVE IInv'
<1>1. CASE StartTerminal
  <2>1. mode = "terminal" /\ app = "start" /\ placed' = placed /\ loop' = loop
    BY <1>1 DEF StartTerminal, screenVars, drawVars
  <2>2. PICK kitty \in BOOLEAN, before \in ProbeFails(tty) \cup {tty} :
          /\ stuck' = before.raw
          /\ \/ Fails /\ UNCHANGED mode
             \/ /\ app' = "bind" /\ tty' = EnableRaw(before) /\ alt' = TRUE
                /\ mode' = IF kitty THEN "kitty" ELSE "plain"
    BY <1>1 DEF StartTerminal
  <2>3. CASE Fails /\ UNCHANGED mode
    BY <2>1, <2>3 DEF Fails, IInv, QuietAfterCleanup, ImagesShown, Restored, Guarded
  <2>4. CASE /\ app' = "bind" /\ tty' = EnableRaw(before) /\ alt' = TRUE
             /\ mode' = IF kitty THEN "kitty" ELSE "plain"
    <3>1. ~stuck' => tty'.saved = "cooked"
      BY <2>2, <2>4 DEF EnableRaw
    <3> QED BY <2>1, <2>4, <3>1 DEF IInv, QuietAfterCleanup, ImagesShown, Restored, Guarded
  <2> QED BY <2>2, <2>3, <2>4
<1>2. CASE StartWindow
  BY <1>2 DEF StartWindow, Goto, screenVars, drawVars, IInv, QuietAfterCleanup, ImagesShown,
              Restored, Guarded
<1> QED BY <1>1, <1>2 DEF Start

\* The steps of run_app.
LEMMA AppIInv == ASSUME IInv, App \/ Handle \/ RunEnds PROVE IInv'
<1> USE DEF IInv, QuietAfterCleanup, ImagesShown, Restored, Guarded, screenVars, drawVars, Fails, Goto
<1>1. CASE Bind
  BY <1>1 DEF Bind
<1>2. CASE Online
  BY <1>2 DEF Online
<1>3. CASE Setup
  BY <1>3 DEF Setup, Wipe
<1>4. CASE Join
  BY <1>4 DEF Join
<1>5. CASE Handle \/ Handled \/ RunEnds
  BY <1>5 DEF Handle, Handled, RunEnds
<1>6. CASE Cleanup
  BY <1>6 DEF Cleanup
<1>7. CASE LeaveApp
  BY <1>7 DEF LeaveApp, DisableRaw
<1>8. CASE RuntimeEnds
  BY <1>8 DEF RuntimeEnds
<1>9. CASE Start
  BY <1>9, StartIInv
<1> QED BY <1>1, <1>2, <1>3, <1>4, <1>5, <1>6, <1>7, <1>8, <1>9 DEF App

\* The display in the terminal draws while it runs, and then never again.
LEMMA TerminalIInv == ASSUME IInv, Terminal \/ KittyResize PROVE IInv'
<1>1. mode = "kitty" /\ UNCHANGED <<mode, app, failed, tty, alt, stuck>>
  BY DEF Terminal, KittyTop, KittyReceive, KittyEnds, KittyResize, DisplayKeeps, appVars
<1>2. CASE KittyTop
  <2>1. loop = "top" /\ loop' = "recv"
    BY <1>2 DEF KittyTop, Top
  <2> QED BY <1>1, <2>1 DEF IInv, QuietAfterCleanup, ImagesShown, Restored, Guarded
<1>3. CASE KittyReceive
  <2>1. loop = "recv" /\ loop' = "top"
    BY <1>3 DEF KittyReceive, Receive
  <2> QED BY <1>1, <2>1 DEF IInv, QuietAfterCleanup, ImagesShown, Restored, Guarded
<1>4. CASE KittyEnds
  <2>1. loop' = "end" /\ placed' = {}
    BY <1>4 DEF KittyEnds, Leave
  <2> QED BY <1>1, <2>1 DEF IInv, QuietAfterCleanup, ImagesShown, Restored, Guarded
<1>5. CASE KittyResize
  <2>1. loop' = loop /\ placed' = placed
    BY <1>5 DEF KittyResize, Resize
  <2> QED BY <1>1, <2>1 DEF IInv, QuietAfterCleanup, ImagesShown, Restored, Guarded
<1> QED BY <1>2, <1>3, <1>4, <1>5 DEF Terminal

\* What the others do changes neither the terminal nor run_app.
LEMMA OtherIInv ==
  ASSUME IInv,
         \/ Quit \/ Threads \/ \E gallery \in Galleries : Show(gallery)
         \/ WindowTop \/ WindowReceive \/ WindowEnds
         \/ UNCHANGED vars
  PROVE  IInv'
<1>1. UNCHANGED <<mode, app, failed, tty, alt, stuck, placed>>
  BY DEF Quit, Threads, CompositorEnds, CaptureEnds, PipesEnd, Show, SendGallery, WindowTop,
         WindowReceive, WindowEnds, DisplayKeeps, vars, appVars, screenVars, drawVars
<1>2. loop' = loop \/ mode = "window"
  BY DEF Quit, Threads, CompositorEnds, CaptureEnds, PipesEnd, Show, SendGallery, WindowTop,
         WindowReceive, WindowEnds, DisplayKeeps, vars, appVars, screenVars, drawVars
<1> QED BY <1>1, <1>2 DEF IInv, QuietAfterCleanup, ImagesShown, Restored, Guarded

LEMMA NextIInv == IInv /\ [Next]_vars => IInv'
BY AppIInv, TerminalIInv, OtherIInv DEF Next

-------------------------------------------------------------------------------
(* The display in the terminal: what it remembers of the screen is what is there. *)

Tiles  == UNION {ToSet(gallery) : gallery \in Galleries}
Labels == {LabelOf(tile) : tile \in Tiles} \cup {DefaultLabel}

\* The images are in the slots that a gallery has.
PlacedFor(screen, gallery) ==
  \A id \in screen.placed : \E s \in 1..Len(gallery) : id \in {2 * s - 1, 2 * s}

\* The label that is remembered for a slot is that on the screen, but for those that were
\* wiped or skipped, and that of the slot's picture.
Remembers(screen) ==
  /\ screen.labels \in Seq(Labels)
  /\ \A s \in Slots :
       /\ \/ screen.texts[s] = Label(screen.labels, s)
          \/ screen.texts[s] = None /\ (screen.wiped \/ Label(screen.labels, s) = DefaultLabel)
       /\ screen.pictures[s] # None =>
            /\ screen.pictures[s] \in Tiles
            /\ Label(screen.labels, s) = LabelOf(screen.pictures[s])

ScreenInv ==
  /\ display \in Seq(Galleries) /\ last_gallery \in Galleries \cup {<<>>}
  /\ last_tile_count = Len(last_gallery)
  /\ PlacedFor(Current, last_gallery)
  /\ Remembers(Current)

LEMMA LeastNatural ==
  ASSUME NEW S \in SUBSET Nat, S # {}
  PROVE  \E least \in S : \A k \in S : least <= k
<1> DEFINE R == OpToRel(<, Nat)
<1>1. IsWellFoundedOn(R, Nat)
  BY NatLessThanWellFounded
<1>2. \A i, j \in Nat : i < j <=> <<i, j>> \in R
  BY DEF OpToRel
<1> HIDE DEF R
<1>3. PICK least \in S : \A k \in S : <<k, least>> \notin R
  BY <1>1, WFMin
<1>4. \A k \in S : ~(k < least) /\ k \in Nat /\ least \in Nat
  BY <1>2, <1>3
<1> QED BY <1>4

\* What Max chooses.
LEMMA MaxOfBounded ==
  ASSUME NEW S \in SUBSET Nat, S # {}, NEW bound \in Nat, \A k \in S : k <= bound
  PROVE  Max(S) \in S /\ \A k \in S : k <= Max(S)
<1> DEFINE T == {bound - k : k \in S}
<1>1. T \in SUBSET Nat /\ T # {}
  <2>1. \A k \in S : k \in Nat /\ bound - k \in Nat
    OBVIOUS
  <2> QED BY <2>1
<1>2. PICK least \in T : \A k \in T : least <= k
  BY <1>1, LeastNatural
<1>3. PICK max \in S : least = bound - max
  BY <1>2
<1>4. \A k \in S : max >= k
  <2> SUFFICES ASSUME NEW k \in S
               PROVE  max >= k
    OBVIOUS
  <2>1. bound - max <= bound - k
    BY <1>2, <1>3
  <2> QED BY <2>1
<1> QED BY <1>4 DEF Max

\* A tile has a label that tells its slot from one without.
LEMMA TileLabels == \A tile \in Tiles : LabelOf(tile) # None
BY ScreenAssumption DEF Tiles

LEMMA GalleryTiles ==
  ASSUME NEW gallery \in Galleries
  PROVE  /\ Len(gallery) \in Nat
         /\ \A s \in 1..Len(gallery) : gallery[s] \in Tiles /\ LabelOf(gallery[s]) # None
<1>1. gallery \in Seq(ToSet(gallery))
  BY ScreenAssumption
<1>2. \A s \in 1..Len(gallery) : gallery[s] \in ToSet(gallery)
  BY <1>1
<1> QED BY <1>1, <1>2, ScreenAssumption DEF Tiles

\* What is kept of a screen.
IsScreen(screen) ==
  DOMAIN screen = {"placed", "pictures", "texts", "labels", "status", "error", "wiped"}

LEMMA BlankRemembers ==
  ASSUME NEW gallery
  PROVE  IsScreen(Blank) /\ PlacedFor(Blank, gallery) /\ Remembers(Blank)
<1>1. Blank.labels = <<>> /\ Blank.labels \in Seq(Labels) /\ Len(Blank.labels) = 0
  BY DEF Blank
<1>2. \A s \in Slots : Label(Blank.labels, s) = None
  BY <1>1, ScreenAssumption DEF Label, Slots
<1> QED BY <1>1, <1>2 DEF Blank, IsScreen, PlacedFor, Remembers

\* The slots that are drawn are remembered as they are drawn, those that are not as they
\* are, also when a later one is drawn.
LEMMA DrawnRemembers ==
  ASSUME NEW gallery \in Galleries, NEW ok \in SUBSET (Slots \cap 1..Len(gallery)),
         NEW screen, IsScreen(screen), PlacedFor(screen, gallery), Remembers(screen)
  PROVE  PlacedFor(Drawn(screen, gallery, ok), gallery) /\ Remembers(Drawn(screen, gallery, ok))
<1> DEFINE p == screen.placed
           q == screen.pictures
           t == screen.texts
           l == screen.labels
           w == screen.wiped
           redrawn == {s \in ok : Label(l, s) # LabelOf(gallery[s])}
           known   == Max({Len(l)} \cup redrawn)
           drawn   == Drawn(screen, gallery, ok)
<1>1. /\ l \in Seq(Labels) /\ Len(l) \in Nat
      /\ \A s \in Slots :
           /\ t[s] = Label(l, s) \/ (t[s] = None /\ (w \/ Label(l, s) = DefaultLabel))
           /\ q[s] # None => q[s] \in Tiles /\ Label(l, s) = LabelOf(q[s])
  BY DEF Remembers
<1>2. /\ drawn.placed = p \cup {2 * s - (IF back_toggle[s] THEN 0 ELSE 1) : s \in ok}
      /\ drawn.pictures = [s \in Slots |-> IF s \in ok THEN gallery[s] ELSE q[s]]
      /\ drawn.texts = [s \in Slots |-> IF s \in redrawn THEN LabelOf(gallery[s]) ELSE t[s]]
      /\ drawn.labels = [s \in 1..known |-> IF s \in redrawn THEN LabelOf(gallery[s])
                                            ELSE IF s <= Len(l) THEN l[s] ELSE DefaultLabel]
      /\ drawn.wiped = w
  BY DEF Drawn, Redrawn, IsScreen
<1>3. /\ known \in Nat /\ Len(l) <= known /\ \A s \in redrawn : s <= known
      /\ redrawn \subseteq ok
  <2> DEFINE S == {Len(l)} \cup redrawn
             bound == Len(l) + MaxTiles
  <2>1. S \in SUBSET Nat /\ S # {} /\ bound \in Nat /\ \A k \in S : k <= bound
    <3>1. \A s \in redrawn : s \in Nat /\ s <= MaxTiles
      BY ScreenAssumption DEF Slots
    <3>2. MaxTiles \in Nat
      BY ScreenAssumption
    <3> HIDE DEF redrawn
    <3>3. \A k \in S : k \in Nat /\ k <= bound
      BY <1>1, <3>1, <3>2
    <3> QED BY <1>1, <3>2, <3>3
  <2> HIDE DEF S, bound
  <2>2. Max(S) \in S /\ \A k \in S : k <= Max(S)
    BY <2>1, MaxOfBounded
  <2> USE DEF S
  <2>3. Max(S) \in Nat
    BY <2>1, <2>2
  <2> QED BY <2>2, <2>3
<1>4. \A s \in ok : /\ s \in Slots /\ s \in 1..Len(gallery) /\ s \in Nat /\ s >= 1
                    /\ gallery[s] \in Tiles /\ LabelOf(gallery[s]) # None
  BY GalleryTiles, ScreenAssumption DEF Slots
<1>5. \A s \in ok \ redrawn : Label(l, s) = LabelOf(gallery[s]) /\ s <= Len(l)
  BY <1>4 DEF Label
<1> HIDE DEF redrawn, known, drawn
<1>6. PlacedFor(drawn, gallery)
  <2> SUFFICES ASSUME NEW id \in drawn.placed
               PROVE  \E s \in 1..Len(gallery) : id \in {2 * s - 1, 2 * s}
    BY DEF PlacedFor
  <2>1. CASE id \in p
    BY <2>1 DEF PlacedFor
  <2>2. ASSUME NEW s \in ok, id = 2 * s - (IF back_toggle[s] THEN 0 ELSE 1)
        PROVE  id \in {2 * s - 1, 2 * s}
    BY <1>4, <2>2
  <2> QED BY <1>2, <1>4, <2>1, <2>2
<1>7. drawn.labels \in Seq(Labels) /\ Len(drawn.labels) = known
  <2>1. \A s \in 1..known : drawn.labels[s] \in Labels
    <3> SUFFICES ASSUME NEW s \in 1..known
                 PROVE  drawn.labels[s] \in Labels
      OBVIOUS
    <3>1. CASE s \in redrawn
      BY <1>2, <1>3, <1>4, <3>1 DEF Labels
    <3>2. CASE s \notin redrawn /\ s <= Len(l)
      BY <1>1, <1>2, <1>3, <3>2
    <3>3. CASE s \notin redrawn /\ ~(s <= Len(l))
      BY <1>2, <3>3 DEF Labels
    <3> QED BY <3>1, <3>2, <3>3
  <2>2. drawn.labels = [s \in 1..known |-> drawn.labels[s]]
    BY <1>2
  <2> QED BY <1>3, <2>1, <2>2
<1>8. \A s \in Slots :
        Label(drawn.labels, s) = IF s \in redrawn THEN LabelOf(gallery[s])
                                 ELSE IF s <= Len(l) THEN Label(l, s)
                                 ELSE IF s <= known THEN DefaultLabel ELSE None
  <2> SUFFICES ASSUME NEW s \in Slots
               PROVE  Label(drawn.labels, s) = IF s \in redrawn THEN LabelOf(gallery[s])
                                 ELSE IF s <= Len(l) THEN Label(l, s)
                                 ELSE IF s <= known THEN DefaultLabel ELSE None
    OBVIOUS
  <2>1. s \in Nat /\ s >= 1
    BY ScreenAssumption DEF Slots
  <2>2. CASE s <= known
    BY <1>2, <1>3, <1>7, <2>1, <2>2 DEF Label
  <2>3. CASE ~(s <= known)
    <3>1. s \notin redrawn /\ ~(s <= Len(l))
      BY <1>1, <1>3, <2>1, <2>3
    <3> QED BY <1>7, <2>3, <3>1 DEF Label
  <2> QED BY <2>2, <2>3
<1>9. ASSUME NEW s \in Slots
      PROVE  /\ \/ drawn.texts[s] = Label(drawn.labels, s)
                \/ drawn.texts[s] = None
                     /\ (drawn.wiped \/ Label(drawn.labels, s) = DefaultLabel)
             /\ drawn.pictures[s] # None =>
                  /\ drawn.pictures[s] \in Tiles
                  /\ Label(drawn.labels, s) = LabelOf(drawn.pictures[s])
  <2>0. /\ drawn.texts[s] = IF s \in redrawn THEN LabelOf(gallery[s]) ELSE t[s]
        /\ drawn.pictures[s] = IF s \in ok THEN gallery[s] ELSE q[s]
        /\ drawn.wiped = w /\ redrawn \subseteq ok
    BY <1>2, <1>3
  <2>1. CASE s \in redrawn
    <3>1. /\ drawn.texts[s] = LabelOf(gallery[s]) /\ drawn.pictures[s] = gallery[s]
          /\ gallery[s] \in Tiles /\ Label(drawn.labels, s) = LabelOf(gallery[s])
      BY <1>4, <1>8, <2>0, <2>1
    <3> QED BY <3>1
  <2>2. CASE s \notin redrawn /\ s <= Len(l)
    <3>1. /\ drawn.texts[s] = t[s] /\ Label(drawn.labels, s) = Label(l, s)
          /\ s \in ok => drawn.pictures[s] \in Tiles
                           /\ Label(l, s) = LabelOf(drawn.pictures[s])
          /\ s \notin ok => drawn.pictures[s] = q[s]
      BY <1>4, <1>5, <1>8, <2>0, <2>2
    <3> QED BY <1>1, <2>0, <3>1
  <2>3. CASE s \notin redrawn /\ ~(s <= Len(l))
    <3>1. Label(l, s) = None /\ s \notin ok
      BY <1>5, <2>3 DEF Label
    <3>2. q[s] = None
      BY <1>1, <3>1, TileLabels
    <3>3. /\ drawn.texts[s] = t[s] /\ drawn.pictures[s] = None
          /\ Label(drawn.labels, s) \in {None, DefaultLabel}
      BY <1>8, <2>0, <2>3, <3>1, <3>2
    <3> QED BY <1>1, <2>0, <3>1, <3>3
  <2> QED BY <2>1, <2>2, <2>3
<1>10. Remembers(drawn)
  BY <1>7, <1>9 DEF Remembers
<1> QED BY <1>6, <1>10 DEF drawn

\* Two screens that are the same but for the lines of status and error.
SameTiles(a, b) ==
  /\ a.placed = b.placed /\ a.pictures = b.pictures /\ a.texts = b.texts
  /\ a.labels = b.labels /\ a.wiped = b.wiped

LEMMA SameRemembers ==
  ASSUME NEW a, NEW b, NEW gallery, SameTiles(a, b), PlacedFor(a, gallery), Remembers(a)
  PROVE  PlacedFor(b, gallery) /\ Remembers(b)
BY DEF SameTiles, PlacedFor, Remembers

LEMMA SetScreenRemembers ==
  ASSUME NEW screen, NEW gallery, SetScreen(screen), PlacedFor(screen, gallery),
         Remembers(screen)
  PROVE  PlacedFor(Current, gallery)' /\ Remembers(Current)'
<1>1. SameTiles(screen, Current')
  BY DEF SetScreen, Current, SameTiles
<1>2. PlacedFor(Current', gallery) /\ Remembers(Current')
  BY <1>1, SameRemembers
<1> QED BY <1>2 DEF PlacedFor, Remembers

LEMMA ErrorRemembers ==
  ASSUME NEW screen, IsScreen(screen), NEW gallery, PlacedFor(screen, gallery),
         Remembers(screen), NEW error
  PROVE  LET other == [screen EXCEPT !.error = error]
         IN  IsScreen(other) /\ PlacedFor(other, gallery) /\ Remembers(other)
<1> DEFINE other == [screen EXCEPT !.error = error]
<1>1. SameTiles(screen, other) /\ IsScreen(other)
  BY DEF IsScreen, SameTiles
<1> HIDE DEF other
<1>2. PlacedFor(other, gallery) /\ Remembers(other)
  BY <1>1, SameRemembers
<1> QED BY <1>1, <1>2 DEF other

LEMMA RenderRemembers ==
  ASSUME NEW gallery \in Galleries, NEW screen, IsScreen(screen),
         PlacedFor(screen, gallery), Remembers(screen), Render(screen, gallery)
  PROVE  PlacedFor(Current, gallery)' /\ Remembers(Current)'
<1>1. PICK failures \in SUBSET (Slots \cap 1..Len(gallery)) :
        SetScreen(Drawn(screen, gallery, (Slots \cap 1..Len(gallery)) \ failures))
  BY DEF Render
<1> DEFINE ok == (Slots \cap 1..Len(gallery)) \ failures
<1>2. /\ PlacedFor(Drawn(screen, gallery, ok), gallery)
      /\ Remembers(Drawn(screen, gallery, ok))
  BY DrawnRemembers
<1> QED BY <1>1, <1>2, SetScreenRemembers

-------------------------------------------------------------------------------

LEMMA CurrentIsScreen == IsScreen(Current)
BY DEF IsScreen, Current

\* A blank screen, whose labels are forgotten as well.
LEMMA ClearedRemembers ==
  ASSUME placed' = {}, pictures' = [s \in Slots |-> None], texts' = [s \in Slots |-> None],
         drawn_labels' = <<>>
  PROVE  PlacedFor(Current, last_gallery)' /\ Remembers(Current)'
<1>1. /\ Current'.placed = {} /\ Current'.labels = <<>>
      /\ \A s \in Slots : Current'.pictures[s] = None /\ Current'.texts[s] = None
  BY DEF Current
<1>2. <<>> \in Seq(Labels) /\ \A s \in Slots : Label(<<>>, s) = None
  BY ScreenAssumption DEF Label, Slots
<1> QED BY <1>1, <1>2 DEF PlacedFor, Remembers

LEMMA TopKeeps ==
  ASSUME ScreenInv, Top
  PROVE  ScreenInv'
<1> DEFINE screen == IF resized THEN Blank ELSE Current
<1>1. UNCHANGED <<display, last_gallery, last_tile_count>>
  BY DEF Top
<1>2. IsScreen(screen) /\ PlacedFor(screen, last_gallery) /\ Remembers(screen)
  BY BlankRemembers, CurrentIsScreen DEF ScreenInv
<1>3. \/ /\ last_gallery # <<>>
         /\ Render([screen EXCEPT !.error = camera_error], last_gallery)
      \/ SetScreen([screen EXCEPT !.error = @ \/ camera_error])
  BY DEF Top
<1> HIDE DEF screen
<1>4. PlacedFor(Current, last_gallery)' /\ Remembers(Current)'
  <2>1. CASE last_gallery # <<>> /\ Render([screen EXCEPT !.error = camera_error], last_gallery)
    <3> DEFINE other == [screen EXCEPT !.error = camera_error]
    <3>1. IsScreen(other) /\ PlacedFor(other, last_gallery) /\ Remembers(other)
      BY <1>2, ErrorRemembers
    <3>2. last_gallery \in Galleries /\ Render(other, last_gallery)
      BY <2>1 DEF ScreenInv
    <3> HIDE DEF other
    <3>3. PICK gallery \in Galleries : gallery = last_gallery
      BY <3>2
    <3>4. PlacedFor(Current, gallery)' /\ Remembers(Current)'
      BY <3>1, <3>2, <3>3, RenderRemembers
    <3> QED BY <1>1, <3>3, <3>4 DEF PlacedFor
  <2>2. CASE SetScreen([screen EXCEPT !.error = @ \/ camera_error])
    <3> DEFINE error == screen.error \/ camera_error
               other == [screen EXCEPT !.error = error]
    <3>1. [screen EXCEPT !.error = @ \/ camera_error] = other
      BY <1>2 DEF IsScreen
    <3> HIDE DEF error
    <3>2. IsScreen(other) /\ PlacedFor(other, last_gallery) /\ Remembers(other)
      BY <1>2, ErrorRemembers
    <3> HIDE DEF other
    <3>3. PICK gallery : gallery = last_gallery
      OBVIOUS
    <3>4. PlacedFor(Current, gallery)' /\ Remembers(Current)'
      BY <2>2, <3>1, <3>2, <3>3, SetScreenRemembers
    <3> QED BY <1>1, <3>3, <3>4 DEF PlacedFor
  <2> QED BY <1>3, <2>1, <2>2
<1> QED BY <1>1, <1>4 DEF ScreenInv

LEMMA ReceiveKeeps ==
  ASSUME ScreenInv, Receive
  PROVE  ScreenInv'
<1>1. /\ display # <<>> /\ display' = Tail(display)
      /\ last_gallery' = Head(display) /\ last_tile_count' = Len(Head(display))
  BY DEF Receive
<1>2. /\ Head(display) \in Galleries /\ display' \in Seq(Galleries)
  BY <1>1 DEF ScreenInv
<1>3. PICK gallery \in Galleries : gallery = Head(display)
  BY <1>2
<1> DEFINE screen == IF Stale(gallery) THEN Blank ELSE Current
<1>4. IsScreen(screen) /\ PlacedFor(screen, gallery) /\ Remembers(screen)
  <2>1. CASE Stale(gallery)
    BY <2>1, BlankRemembers
  <2>2. CASE ~Stale(gallery)
    <3>1. Len(gallery) = Len(last_gallery)
      BY <2>2 DEF Stale, ScreenInv
    <3> QED BY <2>2, <3>1, CurrentIsScreen DEF ScreenInv, PlacedFor
  <2> QED BY <2>1, <2>2
<1>5. \/ Render(screen, gallery)
      \/ SetScreen([screen EXCEPT !.status = StatusOn(screen)])
  BY <1>3 DEF Receive
<1> HIDE DEF screen
<1>6. PlacedFor(Current, gallery)' /\ Remembers(Current)'
  <2>1. CASE Render(screen, gallery)
    BY <1>4, <2>1, RenderRemembers
  <2>2. CASE SetScreen([screen EXCEPT !.status = StatusOn(screen)])
    <3> DEFINE other == [screen EXCEPT !.status = StatusOn(screen)]
    <3>1. SameTiles(screen, other)
      BY <1>4 DEF IsScreen, SameTiles
    <3> HIDE DEF other
    <3>2. PlacedFor(other, gallery) /\ Remembers(other)
      BY <1>4, <3>1, SameRemembers
    <3> QED BY <2>2, <3>2, SetScreenRemembers DEF other
  <2> QED BY <1>5, <2>1, <2>2
<1> QED BY <1>1, <1>2, <1>3, <1>6 DEF ScreenInv, PlacedFor

\* The screen is blank and what was remembered is forgotten.
LEMMA LeaveKeeps ==
  ASSUME ScreenInv, Leave
  PROVE  ScreenInv'
<1>1. PlacedFor(Current, last_gallery)' /\ Remembers(Current)'
  BY ClearedRemembers DEF Leave, Forget
<1>2. /\ display' = <<>> /\ last_gallery' = <<>> /\ last_tile_count' = 0
      /\ <<>> \in Seq(Galleries) /\ Len(<<>>) = 0
  BY DEF Leave, Forget
<1> QED BY <1>1, <1>2 DEF ScreenInv

\* The screen is blank and the labels are remembered.
LEMMA WipeKeeps ==
  ASSUME ScreenInv, Wipe, display' = display
  PROVE  ScreenInv'
<1>1. UNCHANGED <<last_gallery, last_tile_count>>
  BY DEF Wipe
<1>2. PlacedFor(Current, last_gallery)'
  BY DEF Wipe, PlacedFor, Current
<1>3. Remembers(Current)'
  <2>1. /\ Current'.labels = Current.labels /\ Current'.wiped
        /\ \A s \in Slots : Current'.pictures[s] = None /\ Current'.texts[s] = None
    BY DEF Wipe, Current
  <2> QED BY <2>1 DEF Remembers, ScreenInv
<1> QED BY <1>1, <1>2, <1>3 DEF ScreenInv

LEMMA KeptKeeps ==
  ASSUME ScreenInv, display' \in Seq(Galleries),
         UNCHANGED <<last_gallery, last_tile_count, drawn_labels, placed, pictures, texts, wiped,
                     last_status_drawn, error_drawn>>
  PROVE  ScreenInv'
<1>1. Current' = Current
  BY DEF Current
<1> QED BY <1>1 DEF ScreenInv, PlacedFor, Remembers

LEMMA InitScreenInv == Init => ScreenInv
<1> SUFFICES ASSUME Init
             PROVE  ScreenInv
  OBVIOUS
<1>1. Current = Blank
  BY DEF Init, ScreenInit, Current, Blank
<1>2. /\ display \in Seq(Galleries) /\ last_gallery = <<>>
      /\ last_tile_count = 0 /\ Len(<<>>) = 0
  BY DEF Init, ScreenInit
<1> QED BY <1>1, <1>2, BlankRemembers DEF ScreenInv

LEMMA NextScreenInv == ScreenInv /\ [Next]_vars => ScreenInv'
<1> SUFFICES ASSUME ScreenInv, [Next]_vars
             PROVE  ScreenInv'
  OBVIOUS
<1>1. CASE KittyTop \/ KittyReceive \/ KittyEnds
  BY <1>1, TopKeeps, ReceiveKeeps, LeaveKeeps DEF KittyTop, KittyReceive, KittyEnds
<1>2. CASE Setup /\ Wipe
  BY <1>2, WipeKeeps DEF Setup
<1>3. ASSUME NEW gallery \in Galleries, Show(gallery)
      PROVE  ScreenInv'
  <2>1. display' \in Seq(Galleries)
    BY <1>3 DEF Show, SendGallery, ScreenInv
  <2> QED BY <1>3, <2>1, KeptKeeps DEF Show, SendGallery, screenVars, drawVars
<1>4. CASE WindowReceive \/ WindowEnds
  <2>1. display' \in Seq(Galleries)
    <3>1. CASE WindowReceive
      BY <3>1 DEF WindowReceive, ScreenInv
    <3>2. CASE WindowEnds
      BY <3>2 DEF WindowEnds
    <3> QED BY <1>4, <3>1, <3>2
  <2> QED BY <1>4, <2>1, KeptKeeps DEF WindowReceive, WindowEnds, drawVars
<1>5. CASE \/ UNCHANGED vars \/ Quit \/ KittyResize \/ Threads \/ Handle \/ RunEnds \/ WindowTop
           \/ Bind \/ Online \/ (Setup /\ UNCHANGED screenVars) \/ Join \/ Handled
           \/ Cleanup \/ LeaveApp \/ RuntimeEnds
  <2>1. UNCHANGED <<display, last_gallery, last_tile_count, drawn_labels, placed, pictures, texts,
                    wiped, last_status_drawn, error_drawn>>
    BY <1>5 DEF vars, Quit, KittyResize, Resize, Threads, CompositorEnds, CaptureEnds, PipesEnd,
         Handle, RunEnds, Goto, WindowTop, Bind, Online, Setup, Join, Handled, Cleanup, LeaveApp,
         RuntimeEnds, screenVars, drawVars
  <2>2. display' \in Seq(Galleries)
    BY <2>1 DEF ScreenInv
  <2> QED BY <2>1, <2>2, KeptKeeps
<1>7. CASE Start
  <2>1. UNCHANGED <<display, last_gallery, last_tile_count, drawn_labels, placed, pictures, texts,
                    wiped, last_status_drawn, error_drawn>>
    BY <1>7 DEF Start, StartTerminal, StartWindow, Goto, screenVars, drawVars
  <2>2. display' \in Seq(Galleries)
    BY <2>1 DEF ScreenInv
  <2> QED BY <2>1, <2>2, KeptKeeps
<1>6. Setup => (Setup /\ Wipe) \/ (Setup /\ UNCHANGED screenVars)
  BY DEF Setup
<1> QED BY <1>1, <1>2, <1>3, <1>4, <1>5, <1>6, <1>7 DEF Next, App, Terminal

LEMMA ScreenInvariance == Spec => []ScreenInv
BY InitScreenInv, NextScreenInv, PTL DEF Spec

-------------------------------------------------------------------------------
(* The results. *)

\* The label below a picture is that of the one who is in it (render_gallery in
\* src/src/video_display_kitty.rs), or it was wiped by the main thread or skipped.
THEOREM LabelsRight == Spec => []LabelsMatch
<1>1. ScreenInv => LabelsMatch
  BY DEF ScreenInv, Remembers, Current, LabelsMatch
<1> QED BY <1>1, ScreenInvariance, PTL

\* No image is left in a slot that the gallery on the screen does not have.
THEOREM NoTileLeft == Spec => []NoStaleTile
<1>1. ScreenInv => NoStaleTile
  <2> SUFFICES ASSUME ScreenInv, NEW id \in placed
               PROVE  (id + 1) \div 2 <= last_tile_count
    BY DEF NoStaleTile
  <2>1. PICK s \in 1..Len(last_gallery) : id \in {2 * s - 1, 2 * s}
    BY DEF ScreenInv, PlacedFor, Current
  <2>2. Len(last_gallery) \in Nat /\ last_tile_count = Len(last_gallery)
    <3>1. Len(<<>>) = 0
      OBVIOUS
    <3> QED BY <3>1, GalleryTiles DEF ScreenInv
  <2>3. (id + 1) \div 2 = s
    BY <2>1, <2>2
  <2> QED BY <2>2, <2>3
<1> QED BY <1>1, ScreenInvariance, PTL

\* The main screen is restored only when the display in the terminal has written its last
\* (src/src/main.rs, the end of run_app).
THEOREM Quiet == Spec => []QuietAfterCleanup
<1>1. IInv => QuietAfterCleanup
  BY DEF IInv
<1> QED BY <1>1, InitIInv, NextIInv, PTL DEF Spec

\* The program leaves a terminal with no images on it, with its main screen unless run_app
\* failed, and out of raw mode unless setting it up failed or found it on (term.rs, the
\* guard of run_app, and its end).
THEOREM Clean == Spec => []LeftClean
<1>1. IInv => LeftClean
  BY DEF IInv, ImagesShown, Restored, Guarded, LeftClean, Ended
<1> QED BY <1>1, InitIInv, NextIInv, PTL DEF Spec
===============================================================================

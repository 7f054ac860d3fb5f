--------------------------------- MODULE Screen ---------------------------------
(***************************************************************************)
(* The Kitty display loop (src/src/video_display_kitty.rs): it draws the   *)
(* galleries that come from the compositor, and of a gallery only what it  *)
(* does not believe to be on the screen already.                           *)
(*                                                                         *)
(* A gallery is a sequence of tiles, see Compositor; a tile has the slot   *)
(* of its place in it.  Sizes and positions are left out.  The terminal    *)
(* shows of two images in a slot the one that was placed last.  The        *)
(* terminal's size is known.                                               *)
(***************************************************************************)
EXTENDS Integers, Sequences, FiniteSets, SequencesExt

CONSTANTS
  None,
  Unknown,       \* ConnectionKind::Unknown
  Galleries,     \* the galleries that may come
  DisplayCap,    \* capacity of the channel to the display (2)
  MaxTiles,      \* MAX_TILES (9)
  MaxExtras      \* bound: resizes and failed transfers

Slots == 1..MaxTiles

LabelOf(tile) == <<tile.name, tile.kind>>

\* A gallery is a sequence of tiles, and a label is no None.
ASSUME ScreenAssumption ==
  /\ MaxTiles \in Nat
  /\ \A gallery \in Galleries :
       /\ gallery \in Seq(ToSet(gallery))
       /\ \A tile \in ToSet(gallery) : LabelOf(tile) # None

VARIABLES
  display,       \* rx of display_loop
  loop,          \* where it is: at the "top", in "recv", or at its "end"
  resized,       \* RESIZED
  last_tile_count, last_gallery, drawn_labels, back_toggle,
  status_line, last_status_drawn, camera_error, error_drawn,
  placed,        \* the ids of images that the terminal shows, two to a slot
  pictures,      \* the tile whose image was placed in a slot last
  texts,         \* the label below the picture in a slot, as it is on the screen
  wiped,         \* history: others have cleared the screen since this loop last did
  extras         \* what is bounded by MaxExtras

statusVars == <<status_line, camera_error>>
drawVars   == <<drawn_labels, back_toggle, last_status_drawn, error_drawn, placed, pictures,
                texts, wiped, extras>>
screenVars == <<loop, resized, last_tile_count, last_gallery, drawVars>>

ScreenInit ==
  /\ display = <<>>
  /\ loop = "top" /\ resized = FALSE
  /\ last_tile_count = 0 /\ last_gallery = <<>> /\ drawn_labels = <<>>
  /\ back_toggle = [s \in Slots |-> FALSE]
  /\ last_status_drawn = None /\ error_drawn = FALSE
  /\ placed = {}
  /\ pictures = [s \in Slots |-> None] /\ texts = [s \in Slots |-> None]
  /\ wiped = FALSE
  /\ extras = 0

\* The compositor has a gallery, which is dropped while the channel is full, or closed.
SendGallery(gallery) ==
  /\ display' = IF Len(display) < DisplayCap /\ loop # "end" THEN Append(display, gallery)
                ELSE display
  /\ UNCHANGED <<statusVars, screenVars>>

\* SIGWINCH.
Resize ==
  /\ ~resized /\ loop # "end" /\ extras < MaxExtras
  /\ resized' = TRUE /\ extras' = extras + 1
  /\ UNCHANGED <<display, statusVars, loop, last_tile_count, last_gallery, drawn_labels,
                 back_toggle, last_status_drawn, error_drawn, placed, pictures, texts, wiped>>

-------------------------------------------------------------------------------
(* Drawing. *)

DefaultLabel  == <<None, Unknown>>
Label(labels, s) == IF s <= Len(labels) THEN labels[s] ELSE None

\* A screen with nothing on it, as clear_all_images leaves it and its callers note.
Blank == [placed |-> {}, pictures |-> [s \in Slots |-> None],
          texts  |-> [s \in Slots |-> None], labels |-> <<>>,
          status |-> None, error |-> FALSE, wiped |-> FALSE]

Current == [placed |-> placed, pictures |-> pictures, texts |-> texts,
            labels |-> drawn_labels, status |-> last_status_drawn, error |-> error_drawn,
            wiped |-> wiped]

\* Mutant: a label is compared with the one of the first slot.
Redrawn_FirstSlot(screen, gallery, ok) ==
  {s \in ok : Label(screen.labels, 1) # LabelOf(gallery[s])}

\* The slots whose label is not the one that is remembered.
Redrawn(screen, gallery, ok) ==
  {s \in ok : Label(screen.labels, s) # LabelOf(gallery[s])}

\* Mutant: the status is drawn once.
StatusOn_Once(screen) == IF screen.status = None THEN status_line ELSE screen.status

\* The status line that the screen has after drawing: the present one, redrawn if it is
\* not the one that is remembered.
StatusOn(screen) == status_line

\* The tiles in the slots ok are drawn, the image to the buffer whose turn it is, and
\* the label if it is another one.  A slot that is skipped is remembered with the default
\* label if a later one is drawn.
Drawn(screen, gallery, ok) ==
  LET redrawn == Redrawn(screen, gallery, ok)
      known   == Max({Len(screen.labels)} \cup redrawn)
  IN  [screen EXCEPT
         !.placed   = @ \cup {2 * s - (IF back_toggle[s] THEN 0 ELSE 1) : s \in ok},
         !.pictures = [s \in Slots |-> IF s \in ok THEN gallery[s] ELSE @[s]],
         !.texts    = [s \in Slots |-> IF s \in redrawn THEN LabelOf(gallery[s]) ELSE @[s]],
         !.labels   = [s \in 1..known |->
                         IF s \in redrawn THEN LabelOf(gallery[s])
                         ELSE IF s <= Len(@) THEN @[s] ELSE DefaultLabel],
         !.status   = StatusOn(screen)]

SetScreen(screen) ==
  /\ placed' = screen.placed /\ pictures' = screen.pictures /\ texts' = screen.texts
  /\ drawn_labels' = screen.labels
  /\ last_status_drawn' = screen.status /\ error_drawn' = screen.error
  /\ wiped' = screen.wiped

\* render_gallery: the transfer of a tile may fail, which leaves its slot as it is but
\* for the turn of its buffers.
Render(screen, gallery) ==
  LET shown == Slots \cap 1..Len(gallery)
  IN  /\ \E failed \in SUBSET shown :
           /\ extras' = extras + Cardinality(failed) /\ extras' <= MaxExtras
           /\ \E drawn \in {Drawn(screen, gallery, shown \ failed)} : SetScreen(drawn)
      /\ back_toggle' = [s \in Slots |-> IF s \in shown THEN ~back_toggle[s] ELSE back_toggle[s]]

\* What the loop knows goes with it.
Forget ==
  /\ last_tile_count' = 0 /\ last_gallery' = <<>> /\ drawn_labels' = <<>>
  /\ back_toggle' = [s \in Slots |-> FALSE]
  /\ last_status_drawn' = None /\ error_drawn' = FALSE

\* Mutant: the images stay.
Leave_KeepImages ==
  /\ loop' = "end" /\ display' = <<>>
  /\ Forget
  /\ UNCHANGED <<placed, pictures, texts, wiped, extras, resized, statusVars>>

\* The loop is left, with what it knows, and the images are deleted.
Leave ==
  /\ loop' = "end" /\ display' = <<>>
  /\ Forget
  /\ placed' = {}
  /\ pictures' = [s \in Slots |-> None] /\ texts' = [s \in Slots |-> None]
  /\ wiped' = FALSE
  /\ UNCHANGED <<extras, resized, statusVars>>

\* Back at the top: after a resize the last gallery is drawn again, and an error of the
\* camera if it has not been.
Top ==
  /\ loop = "top" /\ loop' = "recv"
  /\ resized' = FALSE
  /\ LET screen == IF resized THEN Blank ELSE Current
     IN  \/ /\ resized /\ last_gallery # <<>>
            /\ Render([screen EXCEPT !.error = camera_error], last_gallery)
         \/ /\ ~resized \/ last_gallery = <<>>
            /\ SetScreen([screen EXCEPT !.error = @ \/ camera_error])
            /\ UNCHANGED <<back_toggle, extras>>
  /\ UNCHANGED <<display, statusVars, last_tile_count, last_gallery>>

\* The main thread clears the screen, with its text and images, and tells nobody.
Wipe ==
  /\ placed' = {}
  /\ pictures' = [s \in Slots |-> None] /\ texts' = [s \in Slots |-> None]
  /\ wiped' = TRUE
  /\ UNCHANGED <<loop, resized, last_tile_count, last_gallery, drawn_labels, back_toggle,
                 last_status_drawn, error_drawn, extras>>

\* Mutant: only a gallery with more tiles clears the screen.
Stale_More(gallery) == Len(gallery) > last_tile_count

\* Whether the screen is cleared for a gallery: its layout is another one.
Stale(gallery) == Len(gallery) # last_tile_count

\* A gallery is received and drawn; of an empty one, the status.
Receive ==
  /\ loop = "recv" /\ loop' = "top"
  /\ display # <<>> /\ display' = Tail(display)
  /\ LET gallery == Head(display)
         screen  == IF Stale(gallery) THEN Blank ELSE Current
     IN  /\ last_gallery' = gallery /\ last_tile_count' = Len(gallery)
         /\ \/ /\ gallery # <<>> /\ Render(screen, gallery)
            \/ /\ gallery = <<>> /\ SetScreen([screen EXCEPT !.status = StatusOn(screen)])
               /\ UNCHANGED <<back_toggle, extras>>
  /\ UNCHANGED <<statusVars, resized>>

-------------------------------------------------------------------------------

\* The label below a picture is that of the one who is in it, although labels are kept
\* slot by slot while galleries in between are dropped, peers replace one another in a
\* slot, the screen is resized and transfers fail.  It can only be missing where the main
\* thread has cleared the screen, which the loop does not learn, and after a transfer that
\* failed, where nothing is known of the peer.
LabelsMatch ==
  \A s \in Slots : pictures[s] # None =>
    LET label == LabelOf(pictures[s])
    IN  texts[s] = label \/ (texts[s] = None /\ (wiped \/ label = DefaultLabel))

\* No image stays behind in a slot that the gallery on the screen does not have.
NoStaleTile == \A id \in placed : (id + 1) \div 2 <= last_tile_count
===============================================================================

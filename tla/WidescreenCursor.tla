-------------------------- MODULE WidescreenCursor --------------------------
(***************************************************************************)
(* The widescreen connector of civilization_input.c.  In the world map the *)
(* cursor may leave the guest's own screen: the host keeps how far, hides  *)
(* the directions that moved it, and while a button acts on the tile under *)
(* it shifts the guest's map words in WRAM, to put them back before the    *)
(* next input.  Distances are in tiles of 16 pixels; the nine words are    *)
(* one per axis.  The guest writes its words whenever it likes.            *)
(***************************************************************************)
EXTENDS Integers

CONSTANTS
  Inputs,        \* the sets of buttons a host passes in
  Reach,         \* 4: tiles beyond the screen, to either side
  Wrap,          \* 2^16: values of a map word
  Rows,          \* 40: rows of the world
  BottomRow,     \* 11: the screen row whose lower neighbour is off screen
  SavesShifted   \* does the host save snapshots while a shift is live?

Directions == {"left", "right", "up", "down"}
Buttons    == Directions \cup {"A", "B", "X", "YSelect", "LR"}

ASSUME WidescreenAssumption ==
  /\ Inputs \subseteq SUBSET Buttons /\ {} \in Inputs
  /\ Reach \in Nat /\ Wrap \in Nat \ {0} /\ Rows \in Nat /\ BottomRow \in Nat
  /\ SavesShifted \in BOOLEAN

VARIABLES
  enabled,    \* widescreen_enabled
  ext,        \* widescreen_cursor_extension_x, _y
  previous,   \* widescreen_previous_input
  consumed,   \* widescreen_consumed_direction
  rebased,    \* widescreen_input_rebased
  clearing,   \* widescreen_clear_after_release
  saved,      \* widescreen_rebase_words; the centre while they are not in use
  words,      \* the guest's map words in WRAM
  live,       \* controller_live
  file,       \* a snapshot
  \* History, read by no action:
  own,        \* the words without a shift: the guest's, and what was committed
  focus       \* did the last input find the cursor in the world map?

connector == <<ext, previous, consumed, rebased, clearing, saved>>
vars == <<enabled, connector, words, live, file, own, focus>>

Points == [x : 0 .. Wrap - 1, y : 0 .. Wrap - 1]
Centre == [x |-> 0, y |-> 0]
NoFile == [none |-> TRUE]

TypeOK ==
  /\ enabled \in BOOLEAN /\ rebased \in BOOLEAN /\ clearing \in BOOLEAN
  /\ ext \in [x : -Reach .. Reach, y : -1 .. 1]
  /\ previous \in Inputs /\ consumed \subseteq Directions /\ live \subseteq Buttons
  /\ words \in Points /\ saved \in Points /\ own \in Points /\ focus \in BOOLEAN
  /\ file \in [words : Points, own : Points] \cup {NoFile}

Init ==
  /\ enabled = FALSE /\ ext = Centre /\ previous = {} /\ consumed = {}
  /\ rebased = FALSE /\ clearing = FALSE /\ saved = Centre
  /\ words = Centre /\ own = Centre /\ live = {} /\ file = NoFile /\ focus = FALSE

-----------------------------------------------------------------------------
\* widescreen_rebase_delta: the words under a cursor that far away, 16 bits wide.
Shift(p, e) == [x |-> (p.x + e.x) % Wrap, y |-> (p.y + e.y) % Wrap]

\* widescreen_restore_rebase.
Restored == IF rebased THEN saved ELSE words

\* widescreen_vertical_target_valid, for the row above the screen or below it.
TargetValid(p, s) == p.y + (IF s < 0 THEN 0 ELSE BottomRow) + s \in 0 .. Rows - 1

\* The extension moves by s tiles, stopping at the screen's edge and at reach.
\* Mutant: a fast step from just inside the reach goes past it.
MovedPast(e, s, reach) == IF e \in -reach + 1 .. reach - 1 THEN e + s ELSE e
Moved(e, s, reach) ==
  LET t == e + s IN
  IF (e < 0 /\ t > 0) \/ (e > 0 /\ t < 0) THEN 0
  ELSE IF t > reach THEN reach ELSE IF t < -reach THEN -reach ELSE t

\* Which of an axis' two directions is taken, if any: one that was just pressed,
\* with the cursor at that edge or off the screen already.
Taken(edge, e, at, back, forth) ==
  LET goesBack  == back \in edge /\ (e # 0 \/ at = back)
      goesForth == forth \in edge /\ (e # 0 \/ at = forth)
  IN  IF goesBack /\ (e <= 0 \/ ~goesForth) THEN {back}
      ELSE IF goesForth THEN {forth} ELSE {}

\* widescreen_connect_input in the world map, the cursor being at an edge or not:
\* the new extension, and the directions it hides from the guest.
Extend(input, e, p, at) ==
  LET edge == input \ previous
      step == IF "X" \in input THEN 2 ELSE 1
      tx   == Taken(edge, e.x, at.x, "left", "right")
      ty   == Taken(edge, e.y, at.y, "up", "down")
      sy   == IF "up" \in ty THEN -1 ELSE 1
  IN  IF input \cap {"LR", "A"} # {} THEN [ext |-> e, taken |-> {}]
      ELSE [ext |-> [x |-> IF tx = {} THEN e.x
                           ELSE Moved(e.x, IF "left" \in tx THEN -step ELSE step, Reach),
                     y |-> IF ty = {} \/ (e.y = 0 /\ ~TargetValid(p, sy)) THEN e.y
                           ELSE Moved(e.y, sy, 1)],
            taken |-> tx \cup ty]

\* Mutant: a direction is hidden only for the input that took it.
ConsumedOnce(input, taken) == taken
Consumed(input, taken) == (consumed \cap input \cap Directions) \cup taken

\* After a selecting button the extension is dropped once all is released.
Released(input) == input = {} /\ clearing

\* Nothing under the cursor is off the screen, or no button acts.
PlainInput(e) ==
  /\ ext' = e /\ rebased' = FALSE /\ words' = Restored /\ saved' = Centre
  /\ UNCHANGED own

\* widescreen_commit_rebase: Y and Select move the map for good.
Commit(e) ==
  /\ words' = Shift(Restored, e) /\ own' = Shift(own, e)
  /\ ext' = Centre /\ rebased' = FALSE /\ saved' = Centre

\* widescreen_apply_rebase: A and B see the shifted map until the next input.
\* Mutant: a button that is held shifts the shifted words.
ApplyAgain(e) ==
  /\ words' = Shift(words, e) /\ saved' = words /\ rebased' = TRUE
  /\ ext' = e /\ UNCHANGED own
Apply(e) ==
  /\ words' = Shift(Restored, e) /\ saved' = Restored /\ rebased' = TRUE
  /\ ext' = e /\ UNCHANGED own

\* civ_set_controller_input outside the world map.
Unfocused(input) ==
  /\ PlainInput(Centre)
  /\ consumed' = {} /\ clearing' = FALSE /\ live' = input /\ focus' = FALSE

Focused(input, at) ==
  LET start == IF Released(input) THEN Centre ELSE ext
      moved == Extend(input, start, Restored, at)
      acts  == moved.ext # Centre /\ input \cap {"A", "B", "YSelect"} # {}
      keeps == clearing /\ ~Released(input)
  IN  /\ consumed' = Consumed(input, moved.taken)
      /\ live' = input \ consumed' /\ focus' = TRUE
      /\ IF ~acts THEN PlainInput(moved.ext) /\ clearing' = keeps
         ELSE IF "YSelect" \in input THEN Commit(moved.ext) /\ clearing' = FALSE
         ELSE Apply(moved.ext) /\ clearing' = TRUE

Connect(input) ==
  /\ previous' = input
  /\ \/ Unfocused(input)
     \/ \E x \in {"left", "no", "right"}, y \in {"up", "no", "down"} :
          Focused(input, [x |-> x, y |-> y])

-----------------------------------------------------------------------------
\* civ_set_controller_input for the first controller.
SetInput ==
  /\ \E input \in Inputs :
       IF enabled THEN Connect(input)
       ELSE live' = input /\ UNCHANGED <<connector, words, own, focus>>
  /\ UNCHANGED <<enabled, file>>

\* civ_set_widescreen_enabled: switching it off passes an empty input first, which
\* undoes a shift; then the connector forgets everything.
\* Mutant: it forgets without the empty input.
SwitchOffAtOnce == live' = {} /\ UNCHANGED <<words, own, focus>>
SwitchOff ==
  /\ words' = Restored /\ live' = {} /\ focus' \in BOOLEAN
  /\ UNCHANGED own

Cleared == /\ ext' = Centre /\ previous' = {} /\ consumed' = {}
           /\ rebased' = FALSE /\ clearing' = FALSE /\ saved' = Centre

SetWidescreen ==
  \/ /\ ~enabled /\ enabled' = TRUE
     /\ UNCHANGED <<connector, words, live, file, own, focus>>
  \/ /\ enabled /\ enabled' = FALSE /\ SwitchOff /\ Cleared /\ UNCHANGED file

\* The program moves the map or the cursor.  What it writes under a live shift the
\* restore undoes.
GuestWrite ==
  /\ words' \in Points /\ own' = IF rebased THEN own ELSE words'
  /\ UNCHANGED <<enabled, connector, live, file, focus>>

\* civ_snapshot_save writes WRAM, not the connector.
SnapshotSave ==
  /\ SavesShifted \/ ~rebased
  /\ file' = [words |-> words, own |-> own]
  /\ UNCHANGED <<enabled, connector, words, live, own, focus>>

\* civ_frontend_snapshot_load restores WRAM, clears the connector and passes an
\* empty input to it.
SnapshotLoad ==
  /\ file # NoFile /\ Cleared
  /\ words' = file.words /\ live' = {} /\ own' = file.own /\ focus' \in (IF enabled THEN BOOLEAN ELSE {focus})
  /\ UNCHANGED <<enabled, file>>

\* civ_reset: a cleared machine, WRAM included, with the widescreen switch as it was.
Reset ==
  /\ Cleared /\ words' = Centre /\ own' = Centre /\ live' = {}
  /\ UNCHANGED <<enabled, file, focus>>

Next == SetInput \/ SetWidescreen \/ GuestWrite \/ SnapshotSave \/ SnapshotLoad \/ Reset

Spec == Init /\ [][Next]_vars

-----------------------------------------------------------------------------
\* The map words are shifted only while the host still knows the shift and will
\* undo it: selecting under the extended cursor, switching widescreen off in the
\* middle of it, losing the map and committing leave no shift behind.  Hosts that save
\* under a live shift are excepted: see SnapshotHoldsGuest.
ShiftUndone == ~SavesShifted /\ ~rebased => words = own

\* A live shift can be undone: the saved words are the unshifted ones, also when
\* the button is held for many inputs and each of them shifts anew.
ShiftSaved == ~SavesShifted /\ rebased => saved = own /\ enabled /\ ext # Centre

\* A direction that moved the extended cursor stays hidden from the guest as long as
\* it is held in the world map, whatever other buttons come and go.
DirectionStaysHidden ==
  [][\A d \in Directions :
       d \in consumed /\ d \in previous' /\ focus' => d \in consumed' /\ d \notin live']_vars

\* widescreen_* is "host presentation/input state, deliberately excluded from the
\* canonical SNES snapshot schema": what a snapshot holds is the guest's own state.
SnapshotHoldsGuest == file # NoFile => file.words = file.own
=============================================================================

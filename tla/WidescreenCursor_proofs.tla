----------------------- MODULE WidescreenCursor_proofs -----------------------
(***************************************************************************)
(* What the connector of WidescreenCursor promises, for any inputs, reach  *)
(* and world: shifts of the guest's words are known, and undone.           *)
(***************************************************************************)
EXTENDS WidescreenCursor, TLAPS

\* A snapshot of a host that saves only unshifted words holds the guest's.
FileLaw == ~SavesShifted => SnapshotHoldsGuest

IInv == TypeOK /\ ShiftUndone /\ ShiftSaved /\ FileLaw

-----------------------------------------------------------------------------
\* Words stay 16 bits wide under any shift (widescreen_rebase_delta).
LEMMA ShiftType ==
  ASSUME NEW p \in Points, NEW e \in [x : Int, y : Int]
  PROVE  Shift(p, e) \in Points
<1>1. \A n \in Int : n % Wrap \in 0 .. Wrap - 1
  BY WidescreenAssumption
<1>2. p.x \in Int /\ p.y \in Int /\ e.x \in Int /\ e.y \in Int
  BY WidescreenAssumption DEF Points
<1>3. (p.x + e.x) % Wrap \in 0 .. Wrap - 1 /\ (p.y + e.y) % Wrap \in 0 .. Wrap - 1
  BY <1>1, <1>2
<1> QED BY <1>3 DEF Shift, Points

\* An extension never leaves the reach, whatever the step (widescreen_connect_input).
LEMMA MovedType ==
  ASSUME NEW reach \in Nat, NEW e \in -reach .. reach, NEW s \in Int
  PROVE  Moved(e, s, reach) \in -reach .. reach
  BY DEF Moved

\* What Extend returns is an extension, and directions of the input.
LEMMA ExtendType ==
  ASSUME NEW input, NEW e \in [x : -Reach .. Reach, y : -1 .. 1], NEW p, NEW at
  PROVE  /\ Extend(input, e, p, at).ext \in [x : -Reach .. Reach, y : -1 .. 1]
         /\ Extend(input, e, p, at).taken \subseteq Directions
<1> DEFINE edge == input \ previous
           step == IF "X" \in input THEN 2 ELSE 1
           tx   == Taken(edge, e.x, at.x, "left", "right")
           ty   == Taken(edge, e.y, at.y, "up", "down")
           sy   == IF "up" \in ty THEN -1 ELSE 1
           ex   == IF tx = {} THEN e.x
                   ELSE Moved(e.x, IF "left" \in tx THEN -step ELSE step, Reach)
           ey   == IF ty = {} \/ (e.y = 0 /\ ~TargetValid(p, sy)) THEN e.y ELSE Moved(e.y, sy, 1)
<1>1. Extend(input, e, p, at)
        = IF input \cap {"LR", "A"} # {} THEN [ext |-> e, taken |-> {}]
          ELSE [ext |-> [x |-> ex, y |-> ey], taken |-> tx \cup ty]
  BY DEF Extend
<1>2. tx \subseteq Directions /\ ty \subseteq Directions
  BY DEF Taken, Directions
<1>3. ex \in -Reach .. Reach
  <2>1. e.x \in -Reach .. Reach /\ step \in Int /\ -step \in Int
    OBVIOUS
  <2> HIDE DEF tx, step
  <2> QED BY <2>1, MovedType, WidescreenAssumption
<1>4. ey \in -1 .. 1
  <2>1. e.y \in -1 .. 1 /\ sy \in Int /\ 1 \in Nat
    OBVIOUS
  <2>2. Moved(e.y, sy, 1) \in -1 .. 1
    BY <2>1, MovedType
  <2> HIDE DEF ty, sy
  <2> QED BY <2>1, <2>2
<1> HIDE DEF tx, ty, ex, ey
<1> QED BY <1>1, <1>2, <1>3, <1>4

\* The words without a shift are words, and the guest's own.
LEMMA RestoredLaw ==
  ASSUME IInv
  PROVE  Restored \in Points /\ (~SavesShifted => Restored = own)
  BY DEF IInv, TypeOK, Restored, ShiftUndone, ShiftSaved

\* Points and the centre.
LEMMA CentreType ==
  /\ Centre \in Points
  /\ Centre \in [x : -Reach .. Reach, y : -1 .. 1]
  BY WidescreenAssumption DEF Centre, Points

-----------------------------------------------------------------------------
\* The words, the extension and the shift after an input; the rest is the caller's.
WordLaw ==
  /\ words' \in Points /\ saved' \in Points /\ own' \in Points /\ rebased' \in BOOLEAN
  /\ ext' \in [x : -Reach .. Reach, y : -1 .. 1]
  /\ ~SavesShifted /\ ~rebased' => words' = own'
  /\ ~SavesShifted /\ rebased' => saved' = own' /\ ext' # Centre

\* An input that shifts nothing undoes what was shifted.
LEMMA PlainInputLaw ==
  ASSUME IInv, NEW e \in [x : -Reach .. Reach, y : -1 .. 1], PlainInput(e)
  PROVE  WordLaw
  BY RestoredLaw, CentreType DEF PlainInput, WordLaw, IInv, TypeOK

\* A commit shifts the words for good, once.
LEMMA CommitLaw ==
  ASSUME IInv, NEW e \in [x : -Reach .. Reach, y : -1 .. 1], Commit(e)
  PROVE  WordLaw
<1>1. e \in [x : Int, y : Int] /\ own \in Points
  BY DEF IInv, TypeOK
<1>2. Shift(Restored, e) \in Points /\ Shift(own, e) \in Points
  BY <1>1, RestoredLaw, ShiftType
<1> QED BY <1>2, RestoredLaw, CentreType DEF Commit, WordLaw

\* A shift starts from the unshifted words, which it keeps.
LEMMA ApplyLaw ==
  ASSUME IInv, NEW e \in [x : -Reach .. Reach, y : -1 .. 1], e # Centre, Apply(e)
  PROVE  WordLaw
<1>1. e \in [x : Int, y : Int] /\ own \in Points
  BY DEF IInv, TypeOK
<1>2. Shift(Restored, e) \in Points
  BY <1>1, RestoredLaw, ShiftType
<1> QED BY <1>1, <1>2, RestoredLaw DEF Apply, WordLaw

\* An input in the world map.
LEMMA FocusedLaw ==
  ASSUME IInv, NEW input \in Inputs, NEW at, Focused(input, at)
  PROVE  /\ WordLaw /\ consumed' \subseteq Directions /\ live' \subseteq Buttons
         /\ clearing' \in BOOLEAN /\ focus' \in BOOLEAN
<1> DEFINE start == IF Released(input) THEN Centre ELSE ext
           moved == Extend(input, start, Restored, at)
<1>1. start \in [x : -Reach .. Reach, y : -1 .. 1]
  BY CentreType DEF IInv, TypeOK
<1>2. /\ moved.ext \in [x : -Reach .. Reach, y : -1 .. 1]
      /\ moved.taken \subseteq Directions
  BY <1>1, ExtendType
<1> HIDE DEF start
<1>3. /\ consumed' = Consumed(input, moved.taken)
      /\ live' = input \ consumed' /\ focus' = TRUE
      /\ \/ PlainInput(moved.ext) /\ clearing' = (clearing /\ ~Released(input))
         \/ Commit(moved.ext) /\ clearing' = FALSE
         \/ moved.ext # Centre /\ Apply(moved.ext) /\ clearing' = TRUE
  BY DEF Focused, start
<1> HIDE DEF moved
<1>4. consumed' \subseteq Directions /\ live' \subseteq Buttons
  BY <1>2, <1>3, WidescreenAssumption DEF Consumed
<1>5. WordLaw
  BY <1>2, <1>3, PlainInputLaw, CommitLaw, ApplyLaw
<1> QED BY <1>3, <1>4, <1>5

\* civ_set_controller_input: enabled or not, in the world map or not.
LEMMA SetInputStep ==
  ASSUME IInv, SetInput
  PROVE  IInv'
<1>1. PICK input \in Inputs :
        /\ IF enabled THEN Connect(input)
           ELSE live' = input /\ UNCHANGED <<connector, words, own, focus>>
        /\ enabled' = enabled /\ file' = file
  BY DEF SetInput
<1>2. CASE ~enabled
  BY <1>1, <1>2, WidescreenAssumption
  DEF connector, IInv, TypeOK, ShiftUndone, ShiftSaved, FileLaw, SnapshotHoldsGuest
<1>3. CASE enabled
  <2>1. /\ WordLaw /\ consumed' \subseteq Directions /\ live' \subseteq Buttons
        /\ clearing' \in BOOLEAN /\ focus' \in BOOLEAN /\ previous' = input
    <3>1. CASE Unfocused(input)
      <4>1. WordLaw
        BY <3>1, CentreType, PlainInputLaw DEF Unfocused
      <4>2. input \subseteq Buttons
        BY WidescreenAssumption
      <4> QED BY <1>1, <1>3, <3>1, <4>1, <4>2 DEF Unfocused, Connect
    <3>2. CASE \E x \in {"left", "no", "right"}, y \in {"up", "no", "down"} :
                 Focused(input, [x |-> x, y |-> y])
      BY <1>1, <1>3, <3>2, FocusedLaw DEF Connect
    <3> QED BY <1>1, <1>3, <3>1, <3>2 DEF Connect
  <2> QED BY <1>1, <1>3, <2>1
          DEF WordLaw, IInv, TypeOK, ShiftUndone, ShiftSaved, FileLaw, SnapshotHoldsGuest
<1> QED BY <1>2, <1>3

\* Switching off undoes a live shift before the connector forgets it.
LEMMA SetWidescreenStep ==
  ASSUME IInv, SetWidescreen
  PROVE  IInv'
<1>1. CASE /\ ~enabled /\ enabled' = TRUE
           /\ UNCHANGED <<connector, words, live, file, own, focus>>
  BY <1>1 DEF connector, IInv, TypeOK, ShiftUndone, ShiftSaved, FileLaw, SnapshotHoldsGuest
<1>2. CASE /\ enabled /\ enabled' = FALSE /\ SwitchOff /\ Cleared /\ UNCHANGED file
  BY <1>2, RestoredLaw, CentreType, WidescreenAssumption
  DEF SwitchOff, Cleared, IInv, TypeOK, ShiftUndone, ShiftSaved, FileLaw, SnapshotHoldsGuest
<1> QED BY <1>1, <1>2 DEF SetWidescreen

\* A guest write is the guest's own unless a shift is live, which will undo it.
LEMMA GuestWriteStep ==
  ASSUME IInv, GuestWrite
  PROVE  IInv'
  BY DEF GuestWrite, connector, IInv, TypeOK, ShiftUndone, ShiftSaved, FileLaw,
         SnapshotHoldsGuest

\* A snapshot takes the words as they are, shifted only if the host saves so.
LEMMA SnapshotSaveStep ==
  ASSUME IInv, SnapshotSave
  PROVE  IInv'
<1>1. /\ SavesShifted \/ ~rebased
      /\ file' = [words |-> words, own |-> own]
      /\ UNCHANGED <<enabled, ext, previous, consumed, rebased, clearing, saved, words, live, own, focus>>
  BY DEF SnapshotSave, connector
<1>2. file' \in [words : Points, own : Points]
  BY <1>1 DEF IInv, TypeOK
<1>3. FileLaw'
  BY <1>1 DEF FileLaw, SnapshotHoldsGuest, IInv, ShiftUndone
<1> QED BY <1>1, <1>2, <1>3 DEF IInv, TypeOK, ShiftUndone, ShiftSaved

\* A restored snapshot brings its words into a cleared connector.
LEMMA SnapshotLoadStep ==
  ASSUME IInv, SnapshotLoad
  PROVE  IInv'
<1>1. file \in [words : Points, own : Points]
  BY DEF SnapshotLoad, IInv, TypeOK
<1>2. ~SavesShifted => file.words = file.own
  BY DEF SnapshotLoad, IInv, FileLaw, SnapshotHoldsGuest
<1>3. focus' \in BOOLEAN
  BY DEF SnapshotLoad, IInv, TypeOK
<1>4. TypeOK'
  BY <1>1, <1>3, CentreType, WidescreenAssumption DEF SnapshotLoad, Cleared, IInv, TypeOK
<1> QED BY <1>2, <1>4
        DEF SnapshotLoad, Cleared, IInv, ShiftUndone, ShiftSaved, FileLaw, SnapshotHoldsGuest

\* A reset clears memory and connector together.
LEMMA ResetStep ==
  ASSUME IInv, Reset
  PROVE  IInv'
  BY CentreType, WidescreenAssumption
  DEF Reset, Cleared, IInv, TypeOK, ShiftUndone, ShiftSaved, FileLaw, SnapshotHoldsGuest

\* A created core has no shift.
LEMMA IInit == Init => IInv
  BY CentreType, WidescreenAssumption
  DEF Init, IInv, TypeOK, ShiftUndone, ShiftSaved, FileLaw, SnapshotHoldsGuest

\* Every call of host and guest keeps the invariant.
LEMMA IStep == IInv /\ [Next]_vars => IInv'
<1> SUFFICES ASSUME IInv, [Next]_vars PROVE IInv'
  OBVIOUS
<1>1. CASE UNCHANGED vars
  BY <1>1 DEF vars, connector, IInv, TypeOK, ShiftUndone, ShiftSaved, FileLaw,
              SnapshotHoldsGuest
<1>2. CASE Next
  BY <1>2, SetInputStep, SetWidescreenStep, GuestWriteStep, SnapshotSaveStep,
     SnapshotLoadStep, ResetStep DEF Next
<1> QED BY <1>1, <1>2

-----------------------------------------------------------------------------
\* The inductive invariant holds throughout.
THEOREM Invariance == Spec => []IInv
<1> QED BY IInit, IStep, PTL DEF Spec

\* Extensions stay within the reach, and words 16 bits wide.
THEOREM WidescreenTypes == Spec => []TypeOK
<1>1. IInv => TypeOK
  BY DEF IInv
<1> QED BY <1>1, Invariance, PTL

\* No order of inputs, switches, writes, resets and loads leaves a shift behind in
\* the guest's words (widescreen_restore_rebase).
THEOREM UndoneSafe == Spec => []ShiftUndone
<1>1. IInv => ShiftUndone
  BY DEF IInv
<1> QED BY <1>1, Invariance, PTL

\* Whatever is held for however long, the saved words are the unshifted ones.
THEOREM SavedSafe == Spec => []ShiftSaved
<1>1. IInv => ShiftSaved
  BY DEF IInv
<1> QED BY <1>1, Invariance, PTL

\* What one step may do to a hidden direction.
StaysHidden ==
  \A d \in Directions :
    d \in consumed /\ d \in previous' /\ focus' => d \in consumed' /\ d \notin live'

\* A direction that is hidden and held is not shown by any single step, provided it is
\* not shown now.
HiddenLaw == consumed \cap live = {} /\ (consumed # {} => enabled)

\* Hidden directions are not in the controller's state, in any reachable state.
LEMMA HiddenStep == HiddenLaw /\ [Next]_vars => HiddenLaw' /\ (StaysHidden \/ UNCHANGED vars)
<1> SUFFICES ASSUME HiddenLaw, [Next]_vars
             PROVE  HiddenLaw' /\ (StaysHidden \/ UNCHANGED vars)
  OBVIOUS
<1>1. CASE UNCHANGED vars
  BY <1>1 DEF vars, connector, HiddenLaw
<1>2. CASE SetInput
  <2>1. PICK input \in Inputs :
          /\ IF enabled THEN Connect(input)
             ELSE live' = input /\ UNCHANGED <<connector, words, own, focus>>
          /\ enabled' = enabled
    BY <1>2 DEF SetInput
  <2>2. CASE ~enabled
    BY <2>1, <2>2 DEF HiddenLaw, connector, StaysHidden
  <2>3. CASE enabled /\ Unfocused(input)
    BY <2>1, <2>3 DEF Unfocused, HiddenLaw, StaysHidden
  <2>4. ASSUME enabled, NEW at, Focused(input, at), previous' = input
        PROVE  HiddenLaw' /\ StaysHidden
    <3>1. PICK taken : consumed' = Consumed(input, taken) /\ live' = input \ consumed'
      BY <2>4 DEF Focused
    <3> QED BY <2>1, <2>4, <3>1 DEF Consumed, HiddenLaw, StaysHidden
  <2> QED BY <2>1, <2>2, <2>3, <2>4 DEF Connect
<1>3. CASE SetWidescreen
  BY <1>3 DEF SetWidescreen, connector, Cleared, SwitchOff, HiddenLaw, StaysHidden
<1>4. CASE GuestWrite
  BY <1>4 DEF GuestWrite, connector, HiddenLaw, StaysHidden
<1>5. CASE SnapshotSave
  BY <1>5 DEF SnapshotSave, connector, HiddenLaw, StaysHidden
<1>6. CASE SnapshotLoad \/ Reset
  BY <1>6 DEF SnapshotLoad, Reset, Cleared, HiddenLaw, StaysHidden
<1> QED BY <1>1, <1>2, <1>3, <1>4, <1>5, <1>6 DEF Next

\* No step shows the guest a direction that moved the extended cursor and is still
\* held (widescreen_consumed_direction).
THEOREM HiddenSafe == Spec => DirectionStaysHidden
<1>1. Init => HiddenLaw
  BY DEF Init, HiddenLaw
<1>2. HiddenLaw /\ [Next]_vars => HiddenLaw'
  BY HiddenStep
<1>3. HiddenLaw /\ [Next]_vars
        => [\A d \in Directions :
              d \in consumed /\ d \in previous' /\ focus' => d \in consumed' /\ d \notin live']_vars
  BY HiddenStep DEF StaysHidden
<1> QED BY <1>1, <1>2, <1>3, PTL DEF Spec, DirectionStaysHidden
=============================================================================

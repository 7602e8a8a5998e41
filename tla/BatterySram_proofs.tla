------------------------- MODULE BatterySram_proofs --------------------------
(***************************************************************************)
(* What the flag sram_dirty and the battery files of BatterySram promise,  *)
(* for any images, directories and intervals.                              *)
(***************************************************************************)
EXTENDS BatterySram, TLAPS

\* The image is one that a restart brings back.
Persisted == sram = Blank \/ \E d \in Dirs : battery[d] = sram

\* A complete temporary file has the image that is being flushed.
TempLaw == flush.at \in {"closed", "removed"} => temp[dir] = sram

\* A clean image is persisted, or a forced flush of it has just removed the file.
CleanLaw ==
  ~renameFails /\ up /\ ~dirty => Persisted \/ flush.at = "removed"

IInv ==
  /\ TypeOK /\ TempLaw /\ CleanLaw
  /\ flush.at # "none" => up

-----------------------------------------------------------------------------
\* Before the first start nothing is up, and files are as they were found.
LEMMA IInit == Init => IInv
<1> SUFFICES ASSUME Init PROVE IInv
  OBVIOUS
<1>1. /\ up = FALSE /\ dir \in Dirs /\ sram = Blank /\ dirty = FALSE /\ frame = 0
      /\ flushed = 0 /\ slot = [d \in Dirs |-> NoSlot] /\ temp = [d \in Dirs |-> Missing]
  BY DEF Init
<1>2. flush \in Flushes /\ flush.at = "none" /\ 0 \in Frames
  BY BatteryAssumption DEF Init, Idle, Flushes, Frames
<1>3. battery \in [Dirs -> Images \cup {Missing, Partial}]
  <2>1. battery \in [Dirs -> FirstFiles]
    BY DEF Init
  <2>2. \A d \in Dirs : battery[d] \in FirstFiles /\ battery[d] \in Images \cup {Missing, Partial}
    BY <2>1, BatteryAssumption
  <2>3. battery = [d \in Dirs |-> battery[d]]
    BY <2>1
  <2> QED BY <2>2, <2>3
<1>4. renameFails \in BOOLEAN
  BY BatteryAssumption DEF Init
<1> QED BY <1>1, <1>2, <1>3, <1>4, BatteryAssumption DEF IInv, TypeOK, TempLaw, CleanLaw

\* A started core has the image of its directory's battery file (main).
LEMMA StartStep ==
  ASSUME IInv, UNCHANGED renameFails, NEW d \in Dirs, Start(d)
  PROVE  IInv'
<1>1. /\ ~up /\ battery[d] \in Images \cup {Missing}
      /\ up' = TRUE /\ dir' = d /\ frame' = 0 /\ flushed' = 0 /\ dirty' = FALSE
      /\ sram' = IF battery[d] = Missing THEN Blank ELSE battery[d]
      /\ flush' = flush /\ battery' = battery /\ temp' = temp /\ slot' = slot
  BY DEF Start, IInv, TypeOK, disk
<1>2. flush.at = "none" /\ 0 \in Frames
  BY <1>1, BatteryAssumption DEF IInv, Frames
<1>3. sram' \in Images /\ (sram' = Blank \/ battery'[d] = sram')
  BY <1>1, BatteryAssumption
<1> QED BY <1>1, <1>2, <1>3 DEF IInv, TypeOK, TempLaw, CleanLaw, Persisted

\* A load replaces SRAM by the file or leaves it as it is (sram-load, state-dir).
LEMMA SwitchAndLoadStep ==
  ASSUME IInv, UNCHANGED renameFails, NEW d \in Dirs, SwitchAndLoad(d)
  PROVE  IInv'
<1>1. /\ up /\ flush.at = "none" /\ dir' = d /\ up' = up /\ frame' = frame
      /\ flush' = flush /\ battery' = battery /\ temp' = temp /\ slot' = slot
  BY DEF SwitchAndLoad, Ready, disk
<1>2. CASE LoadImage(d)
  <2>1. sram' \in Images /\ dirty' = FALSE /\ flushed' = frame /\ battery'[d] = sram'
    BY <1>1, <1>2 DEF LoadImage
  <2> QED BY <1>1, <2>1 DEF IInv, TypeOK, TempLaw, CleanLaw, Persisted
<1>3. CASE LoadNothing
  BY <1>1, <1>3 DEF LoadNothing, IInv, TypeOK, TempLaw, CleanLaw, Persisted
<1> QED BY <1>2, <1>3 DEF SwitchAndLoad

\* The program changes SRAM only with the flag (civ_cartridge_write).
LEMMA RunStep ==
  ASSUME IInv, UNCHANGED renameFails, Run
  PROVE  IInv'
<1>1. /\ up /\ flush.at = "none" /\ up' = up /\ flushed' = flushed /\ dir' = dir
      /\ battery' = battery /\ temp' = temp /\ slot' = slot
  BY DEF Run, Ready, disk
<1>2. PICK f \in frame .. MaxFrame, img \in Images, checked \in BOOLEAN :
        /\ frame' = f /\ sram' = img /\ dirty' \in DirtyAfter(img)
        /\ flush' = IF checked /\ dirty' /\ FlushDue(f)
                      THEN [at |-> "begin", then |-> "return"] ELSE flush
  BY DEF Run
<1>3. f \in Frames
  BY BatteryAssumption DEF Frames, IInv, TypeOK
<1>4. flush' \in Flushes /\ flush'.at \in {"none", "begin"}
  BY <1>1, <1>2 DEF IInv, TypeOK, Flushes
<1>5. dirty \in BOOLEAN /\ dirty' \in BOOLEAN
  BY <1>2 DEF DirtyAfter, IInv, TypeOK
<1>6. ~dirty' => ~dirty /\ sram' = sram
  BY <1>2, <1>5 DEF DirtyAfter
<1>7. TypeOK' /\ TempLaw' /\ up'
  BY <1>1, <1>2, <1>3, <1>4, <1>5 DEF IInv, TypeOK, TempLaw
<1>8. CleanLaw'
  BY <1>1, <1>4, <1>6 DEF IInv, CleanLaw, Persisted
<1> QED BY <1>7, <1>8 DEF IInv

\* What a caller does after a flush, or for want of one, keeps SRAM.
LEMMA ContinueTypes ==
  ASSUME IInv, NEW then \in {"return", "reset", "exit"}, Continue(then)
  PROVE  sram' = sram /\ frame' \in Frames /\ up' \in {up, FALSE}
<1>1. 0 \in Frames /\ frame \in Frames
  BY BatteryAssumption DEF IInv, TypeOK, Frames
<1> QED BY <1>1 DEF Continue, CivReset

\* A reset and an exit flush a dirty image first (civ_frontend_reset, main).
LEMMA FlushFirstStep ==
  ASSUME IInv, UNCHANGED renameFails, NEW then \in {"reset", "exit"}, FlushFirst(then)
  PROVE  IInv'
<1>1. up /\ flush.at = "none" /\ battery' = battery /\ temp' = temp /\ slot' = slot
  BY DEF FlushFirst, Ready, disk
<1>2. CASE dirty
  <2>1. /\ flush' = [at |-> "begin", then |-> then] /\ up' = up
        /\ sram' = sram /\ dirty' = dirty /\ frame' = frame /\ flushed' = flushed /\ dir' = dir
    BY <1>2 DEF FlushFirst, memory
  <2>2. flush' \in Flushes /\ flush'.at = "begin"
    BY <2>1 DEF Flushes
  <2> QED BY <1>1, <2>1, <2>2 DEF IInv, TypeOK, TempLaw, CleanLaw, Persisted
<1>3. CASE ~dirty
  <2>1. /\ Continue(then) /\ dirty' = dirty /\ flushed' = flushed /\ flush' = flush /\ dir' = dir
    BY <1>3 DEF FlushFirst, NothingToFlush
  <2>2. sram' = sram /\ frame' \in Frames /\ up' \in {up, FALSE}
    BY <2>1, ContinueTypes
  <2> QED BY <1>1, <2>1, <2>2 DEF IInv, TypeOK, TempLaw, CleanLaw, Persisted
<1> QED BY <1>2, <1>3

\* A forced flush begins with an image that is still persisted (sram-save).
LEMMA ForceFlushStep ==
  ASSUME IInv, UNCHANGED renameFails, ForceFlush
  PROVE  IInv'
<1>1. /\ up /\ flush.at = "none" /\ flush' = [at |-> "begin", then |-> "return"]
      /\ up' = up /\ sram' = sram /\ dirty' = dirty /\ frame' = frame
      /\ flushed' = flushed /\ dir' = dir
      /\ battery' = battery /\ temp' = temp /\ slot' = slot
  BY DEF ForceFlush, Ready, memory, disk
<1>2. flush' \in Flushes /\ flush'.at = "begin"
  BY <1>1 DEF Flushes
<1> QED BY <1>1, <1>2 DEF IInv, TypeOK, TempLaw, CleanLaw, Persisted

\* A flush that fails before the removal, or at a rename that may fail, keeps the
\* flag and the battery files.
LEMMA GiveUpStep ==
  ASSUME IInv, UNCHANGED renameFails, GiveUp, flush.at # "none",
         flush.at = "removed" => renameFails,
         temp' \in [Dirs -> Images \cup {Missing, Partial}],
         battery' = battery, slot' = slot
  PROVE  IInv'
<1>1. /\ flush' = Idle /\ up' \in {up, FALSE} /\ sram' = sram /\ dirty' = dirty
      /\ frame' = frame /\ flushed' = flushed /\ dir' = dir
  BY DEF GiveUp, memory, IInv, TypeOK
<1>2. flush' \in Flushes /\ flush'.at = "none"
  BY <1>1 DEF Flushes, Idle
<1> QED BY <1>1, <1>2 DEF IInv, TypeOK, TempLaw, CleanLaw, Persisted

\* The next stage of a flush keeps the memory.
LEMMA FlushStepTypes ==
  ASSUME IInv, NEW from, NEW to \in {"begin", "open", "closed", "removed"},
         FlushStep(from, to)
  PROVE  /\ flush' \in Flushes /\ flush'.at = to /\ flush.at = from /\ up /\ up' = up
         /\ sram' = sram /\ dirty' = dirty /\ frame' = frame /\ flushed' = flushed
         /\ dir' = dir
<1>1. flush \in Flushes /\ flush' = [flush EXCEPT !.at = to]
  BY DEF FlushStep, IInv, TypeOK
<1>2. flush' \in Flushes /\ flush'.at = to
  BY <1>1 DEF Flushes
<1> QED BY <1>2 DEF FlushStep, memory

\* Creating the temporary file (fopen).
LEMMA CreateTempStep ==
  ASSUME IInv, UNCHANGED renameFails, CreateTemp
  PROVE  IInv'
<1>1. CASE FlushStep("begin", "open") /\ temp' = [temp EXCEPT ![dir] = Partial]
           /\ UNCHANGED <<battery, slot>>
  <2>1. /\ flush' \in Flushes /\ flush'.at = "open" /\ flush.at = "begin" /\ up /\ up' = up
        /\ sram' = sram /\ dirty' = dirty /\ frame' = frame /\ flushed' = flushed
        /\ dir' = dir
    BY <1>1, FlushStepTypes
  <2> QED BY <1>1, <2>1 DEF IInv, TypeOK, TempLaw, CleanLaw, Persisted
<1>2. CASE up /\ flush.at = "begin" /\ GiveUp /\ UNCHANGED disk
  BY <1>2, GiveUpStep DEF disk, IInv, TypeOK
<1> QED BY <1>1, <1>2 DEF CreateTemp

\* Writing it: only a complete image goes on (fwrite, fclose).
LEMMA WriteTempStep ==
  ASSUME IInv, UNCHANGED renameFails, WriteTemp
  PROVE  IInv'
<1>0. temp \in [Dirs -> Images \cup {Missing, Partial}] /\ dir \in Dirs /\ sram \in Images
  BY DEF IInv, TypeOK
<1>1. CASE FlushStep("open", "closed") /\ temp' = [temp EXCEPT ![dir] = sram]
           /\ UNCHANGED <<battery, slot>>
  <2>1. /\ flush' \in Flushes /\ flush'.at = "closed" /\ flush.at = "open" /\ up /\ up' = up
        /\ sram' = sram /\ dirty' = dirty /\ frame' = frame /\ flushed' = flushed
        /\ dir' = dir
    BY <1>1, FlushStepTypes
  <2>2. temp'[dir] = sram /\ temp' \in [Dirs -> Images \cup {Missing, Partial}]
    BY <1>0, <1>1
  <2> QED BY <1>1, <2>1, <2>2 DEF IInv, TypeOK, TempLaw, CleanLaw, Persisted
<1>2. CASE /\ up /\ flush.at = "open" /\ GiveUp
           /\ temp' = [temp EXCEPT ![dir] = Missing] /\ UNCHANGED <<battery, slot>>
  BY <1>0, <1>2, GiveUpStep
<1> QED BY <1>1, <1>2 DEF WriteTemp, Written

\* Removing the battery file: the temporary one has the image (remove).
LEMMA RemoveBatteryStep ==
  ASSUME IInv, UNCHANGED renameFails, RemoveBattery
  PROVE  IInv'
<1>1. /\ flush' \in Flushes /\ flush'.at = "removed" /\ flush.at = "closed" /\ up /\ up' = up
      /\ sram' = sram /\ dirty' = dirty /\ frame' = frame /\ flushed' = flushed
      /\ dir' = dir
  BY FlushStepTypes DEF RemoveBattery
<1>2. /\ temp' = temp /\ slot' = slot
      /\ battery' \in [Dirs -> Images \cup {Missing, Partial}]
      /\ \A d \in Dirs : battery'[d] \in {battery[d], Missing}
  BY DEF RemoveBattery, IInv, TypeOK
<1> QED BY <1>1, <1>2 DEF IInv, TypeOK, TempLaw, CleanLaw

\* The rename publishes the image and only then is it clean (rename).
LEMMA RenameStep ==
  ASSUME IInv, UNCHANGED renameFails, Rename
  PROVE  IInv'
<1>0. /\ up /\ flush.at = "removed" /\ temp' = [temp EXCEPT ![dir] = Missing]
      /\ temp[dir] = sram /\ sram \in Images /\ dir \in Dirs
      /\ temp' \in [Dirs -> Images \cup {Missing, Partial}]
  BY DEF Rename, IInv, TypeOK, TempLaw
<1>1. CASE /\ battery' = [battery EXCEPT ![dir] = temp[dir]]
           /\ dirty' = FALSE /\ flushed' = frame /\ flush' = Idle
           /\ Continue(flush.then) /\ UNCHANGED <<dir, slot>>
  <2>1. flush.then \in {"return", "reset", "exit"}
    BY DEF IInv, TypeOK, Flushes
  <2>2. sram' = sram /\ frame' \in Frames /\ up' \in {up, FALSE}
    BY <1>1, <2>1, ContinueTypes
  <2>3. /\ battery' \in [Dirs -> Images \cup {Missing, Partial}] /\ battery'[dir] = sram
        /\ \A d \in Dirs : battery'[d] \in {battery[d], sram}
    BY <1>0, <1>1 DEF IInv, TypeOK
  <2>4. flush' \in Flushes /\ flush'.at = "none"
    BY <1>1 DEF Flushes, Idle
  <2>5. Persisted'
    BY <1>0, <2>2, <2>3 DEF Persisted
  <2>6. TypeOK'
    BY <1>0, <1>1, <2>2, <2>3, <2>4 DEF IInv, TypeOK
  <2> QED BY <2>4, <2>5, <2>6 DEF IInv, TempLaw, CleanLaw
<1>2. CASE renameFails /\ GiveUp /\ UNCHANGED <<battery, slot>>
  BY <1>0, <1>2, GiveUpStep
<1> QED BY <1>1, <1>2 DEF Rename

\* Saving a snapshot touches no battery; restoring one marks the image dirty.
LEMMA SnapshotStep ==
  ASSUME IInv, UNCHANGED renameFails, SnapshotSave \/ SnapshotLoad
  PROVE  IInv'
<1>1. CASE SnapshotSave
  <2>1. /\ up' = up /\ sram' = sram /\ dirty' = dirty /\ frame' = frame /\ flushed' = flushed
        /\ dir' = dir /\ flush' = flush /\ battery' = battery /\ temp' = temp
    BY <1>1 DEF SnapshotSave, memory
  <2>2. slot' \in [Dirs -> Slots \cup {NoSlot}]
    <3>1. [sram |-> sram, frame |-> frame] \in Slots
      BY DEF IInv, TypeOK, Slots
    <3> QED BY <1>1, <3>1 DEF SnapshotSave, IInv, TypeOK
  <2> QED BY <2>1, <2>2 DEF IInv, TypeOK, TempLaw, CleanLaw, Persisted
<1>2. CASE SnapshotLoad
  <2>1. /\ flush.at = "none" /\ up' = up /\ flushed' = flushed /\ dir' = dir /\ flush' = flush
        /\ battery' = battery /\ temp' = temp /\ slot' = slot
        /\ sram' = slot[dir].sram /\ frame' = slot[dir].frame /\ dirty' = TRUE
    BY <1>2 DEF SnapshotLoad, Ready, disk
  <2>2. slot[dir] \in Slots
    BY <1>2 DEF SnapshotLoad, IInv, TypeOK
  <2>3. sram' \in Images /\ frame' \in Frames
    BY <2>1, <2>2 DEF Slots
  <2> QED BY <2>1, <2>3 DEF IInv, TypeOK, TempLaw, CleanLaw
<1> QED BY <1>1, <1>2

\* A killed process leaves its files.
LEMMA CrashStep ==
  ASSUME IInv, UNCHANGED renameFails, Crash
  PROVE  IInv'
<1>1. /\ up' = FALSE /\ flush' = Idle /\ sram' = sram /\ dirty' = dirty /\ frame' = frame
      /\ flushed' = flushed /\ dir' = dir /\ battery' = battery /\ temp' = temp /\ slot' = slot
  BY DEF Crash, memory, disk
<1>2. flush' \in Flushes /\ flush'.at = "none"
  BY <1>1 DEF Flushes, Idle
<1> QED BY <1>1, <1>2 DEF IInv, TypeOK, TempLaw, CleanLaw

\* Every call on the frontend or the file system keeps the invariant.
LEMMA IStep == IInv /\ [Next]_vars => IInv'
<1> SUFFICES ASSUME IInv, [Next]_vars PROVE IInv'
  OBVIOUS
<1>1. CASE UNCHANGED vars
  BY <1>1 DEF vars, memory, disk, IInv, TypeOK, TempLaw, CleanLaw, Persisted
<1>2. CASE Next
  <2>0. renameFails' = renameFails
    BY <1>2 DEF Next
  <2>1. (Reset \/ Exit) => IInv'
    BY <2>0, FlushFirstStep DEF Reset, Exit
  <2> QED BY <1>2, <2>0, <2>1, StartStep, SwitchAndLoadStep, RunStep, ForceFlushStep,
             CreateTempStep, WriteTempStep, RemoveBatteryStep, RenameStep,
             SnapshotStep, CrashStep
          DEF Next
<1> QED BY <1>1, <1>2

\* The inductive invariant holds throughout.
THEOREM Invariance == Spec => []IInv
<1> QED BY IInit, IStep, PTL DEF Spec

\* SRAM always is an image, whatever is found in the files that are loaded.
THEOREM BatteryTypes == Spec => []TypeOK
<1>1. IInv => TypeOK
  BY DEF IInv
<1> QED BY <1>1, Invariance, PTL

\* Whatever fails but a rename, and whenever the process dies, a clean SRAM is blank
\* or in a battery file (civilization_frontend.c).
THEOREM CleanSafe == Spec => []CleanIsPersisted
<1>1. IInv => CleanIsPersisted
  BY DEF IInv, CleanLaw, Persisted, CleanIsPersisted, Ready
<1> QED BY <1>1, Invariance, PTL

\* No step of a flush puts a partial image in a battery's place: what is renamed is the
\* image itself.
LEMMA TearStep ==
  ASSUME IInv, [Next]_vars, NEW d \in Dirs, battery'[d] = Partial
  PROVE  battery[d] = Partial
<1>0. battery \in [Dirs -> Images \cup {Missing, Partial}] /\ dir \in Dirs
  BY DEF IInv, TypeOK
<1>1. CASE RemoveBattery
  BY <1>0, <1>1, BatteryAssumption DEF RemoveBattery
<1>2. CASE Rename
  <2>1. temp[dir] \in Images
    BY <1>2 DEF Rename, IInv, TypeOK, TempLaw
  <2> QED BY <1>0, <1>2, <2>1, BatteryAssumption DEF Rename
<1>3. CASE battery' = battery
  BY <1>3
<1>4. CASE Next /\ ~RemoveBattery /\ ~Rename
  <2>1. battery' = battery
    BY <1>4 DEF Next, Start, SwitchAndLoad, Run, Reset, Exit, FlushFirst, ForceFlush,
                CreateTemp, WriteTemp, SnapshotSave, SnapshotLoad, Crash, disk
  <2> QED BY <2>1
<1> QED BY <1>1, <1>2, <1>3, <1>4 DEF vars, disk

\* No sequence of failures and kills publishes a partial battery file.
THEOREM TornSafe == Spec => NeverTorn
<1>1. IInv /\ [Next]_vars => [\A d \in Dirs : battery'[d] = Partial => battery[d] = Partial]_vars
  BY TearStep
<1> QED BY <1>1, Invariance, PTL DEF Spec, NeverTorn
=============================================================================

---------------------------- MODULE BatterySram ----------------------------
(***************************************************************************)
(* The battery file: cartridge SRAM, its dirty flag and the shared         *)
(* frontend that loads, flushes, resets and restores it                    *)
(* (civilization_frontend.c, the command loop of civilization_headless.c). *)
(* A flush is split at its calls on the file system, any of which may fail *)
(* and between any two of which the process may be killed.  What a call    *)
(* did survives the process; loss of power is not modelled.                *)
(***************************************************************************)
EXTENDS Integers

CONSTANTS
  Images,       \* contents of the 32 KiB SRAM
  Blank,        \* the image of a created core
  Missing,      \* no such file
  Partial,      \* a file that is not an exact image
  Dirs,         \* state directories
  FirstFiles,   \* what the directories hold at first; Partial is a foreign file
  Volumes,      \* the volumes considered: may renames on them fail (TRUE or FALSE)?
  Interval,     \* 120: CIV_SRAM_FLUSH_INTERVAL_FRAMES
  Wrap,         \* 2^64: frame counts are uint64_t
  MaxFrame      \* bound on the frame count of a core

ASSUME BatteryAssumption ==
  /\ Blank \in Images /\ Missing \notin Images /\ Partial \notin Images \cup {Missing}
  /\ FirstFiles \subseteq Images \cup {Missing, Partial} /\ Volumes \subseteq BOOLEAN
  /\ Interval \in Nat /\ Wrap \in Nat \ {0} /\ MaxFrame \in Nat /\ MaxFrame < Wrap

VARIABLES
  up,       \* is the process running, with the ROM loaded?
  sram,     \* the core's SRAM
  dirty,    \* sram_dirty
  frame,    \* the core's frame_count
  flushed,  \* last_sram_flush_frame
  dir,      \* state_directory
  flush,    \* how far a flush has come, and what its caller does next
  battery,  \* Civilization.srm of every directory
  temp,     \* Civilization.srm.tmp of every directory
  slot,     \* a snapshot slot of every directory
  renameFails  \* may a rename on the volume fail?  It never changes.

memory == <<sram, dirty, frame, flushed, dir>>
disk   == <<battery, temp, slot>>
vars   == <<up, memory, flush, disk, renameFails>>

Frames  == 0 .. MaxFrame
NoSlot  == [none |-> TRUE]
Slots   == [sram : Images, frame : Frames]

\* at: nothing; about to create the temporary file; created; closed; the battery
\* file removed.  then: what the caller does after a successful flush.
Flushes == [at : {"none", "begin", "open", "closed", "removed"},
            then : {"return", "reset", "exit"}]
Idle    == [at |-> "none", then |-> "return"]

TypeOK ==
  /\ up \in BOOLEAN /\ dirty \in BOOLEAN /\ flush \in Flushes
  /\ sram \in Images /\ frame \in Frames /\ flushed \in Frames /\ dir \in Dirs
  /\ battery \in [Dirs -> Images \cup {Missing, Partial}]
  /\ temp \in [Dirs -> Images \cup {Missing, Partial}]
  /\ slot \in [Dirs -> Slots \cup {NoSlot}] /\ renameFails \in BOOLEAN

\* Before the first start nothing is loaded.
Init ==
  /\ up = FALSE /\ flush = Idle /\ dir \in Dirs
  /\ sram = Blank /\ dirty = FALSE /\ frame = 0 /\ flushed = 0
  /\ battery \in [Dirs -> FirstFiles] /\ temp = [d \in Dirs |-> Missing]
  /\ slot = [d \in Dirs |-> NoSlot] /\ renameFails \in Volumes

-----------------------------------------------------------------------------
\* civ_frontend_load_persistent_sram: an exact image replaces SRAM; a missing file
\* is no error and leaves SRAM, its flag and the flush frame as they are.
\* Mutant: the size of the file is not checked.
LoadAnything(d) ==
  /\ battery[d] # Missing
  /\ sram' = battery[d] /\ dirty' = FALSE /\ flushed' = frame
LoadImage(d) ==
  /\ battery[d] \in Images
  /\ sram' = battery[d] /\ dirty' = FALSE /\ flushed' = frame

LoadNothing == UNCHANGED <<sram, dirty, flushed>>

\* main of the headless host: a new core, the ROM, the directory and its battery.
Start(d) ==
  /\ ~up /\ battery[d] # Partial /\ up' = TRUE /\ dir' = d
  /\ frame' = 0 /\ flushed' = 0 /\ dirty' = FALSE
  /\ sram' = IF battery[d] = Missing THEN Blank ELSE battery[d]
  /\ UNCHANGED <<flush, disk>>

Ready == up /\ flush.at = "none"

\* sram-load, and state-dir followed by the load: a load that fails, for the file
\* cannot be read, leaves the core alone, and the new directory in place.
SwitchAndLoad(d) ==
  /\ Ready /\ dir' = d
  /\ LoadImage(d) \/ LoadNothing
  /\ UNCHANGED <<up, frame, flush, disk>>

-----------------------------------------------------------------------------
\* maybe_flush_sram: the difference of the frame counts is unsigned.
FlushDue(f) == (f - flushed) % Wrap >= Interval

\* The dirty flag after the program left img in SRAM: it is set by a byte that
\* changes, also when a later store restores the old value.
DirtyAfter(img) == IF img = sram THEN {dirty, TRUE} ELSE {TRUE}

\* civ_frontend_run, _run_to_frame: the program runs, stores to SRAM and reaches a
\* frame; unless the run returns early, a dirty image that is due is flushed.
Run ==
  /\ Ready
  /\ \E f \in frame .. MaxFrame, img \in Images, checked \in BOOLEAN :
       /\ frame' = f /\ sram' = img /\ dirty' \in DirtyAfter(img)
       /\ flush' = IF checked /\ dirty' /\ FlushDue(f)
                     THEN [at |-> "begin", then |-> "return"] ELSE flush
  /\ UNCHANGED <<up, flushed, dir, disk>>

\* What the caller of a flush does after its success.
CivReset == frame' = 0 /\ UNCHANGED sram

Continue(then) ==
  \/ then = "return" /\ UNCHANGED <<up, frame, sram>>
  \/ then = "reset" /\ CivReset /\ UNCHANGED up
  \/ then = "exit" /\ up' = FALSE /\ UNCHANGED <<frame, sram>>

\* civ_frontend_flush_persistent_sram of a clean image that is not forced.
NothingToFlush(then) ==
  /\ Continue(then) /\ UNCHANGED <<dirty, flushed, flush>>

\* civ_frontend_reset, and the end of the headless host.
FlushFirst(then) ==
  /\ Ready
  /\ IF dirty THEN flush' = [at |-> "begin", then |-> then] /\ UNCHANGED <<up, memory>>
     ELSE NothingToFlush(then) /\ UNCHANGED dir
  /\ UNCHANGED disk

Reset == FlushFirst("reset")
Exit  == FlushFirst("exit")

\* sram-save forces a flush.
ForceFlush ==
  /\ Ready /\ flush' = [at |-> "begin", then |-> "return"]
  /\ UNCHANGED <<up, memory, disk>>

-----------------------------------------------------------------------------
\* A flush that fails returns 0: a reset is refused, the host that exits exits.
\* Mutant: a failed flush marks the image clean.
GiveUpClean ==
  /\ flush' = Idle /\ up' = (flush.then # "exit") /\ dirty' = FALSE
  /\ UNCHANGED <<sram, frame, flushed, dir>>
GiveUp ==
  /\ flush' = Idle /\ up' = (flush.then # "exit") /\ UNCHANGED memory

FlushStep(from, to) ==
  /\ up /\ flush.at = from /\ flush' = [flush EXCEPT !.at = to]
  /\ UNCHANGED <<up, memory>>

\* The directory cannot be made or the temporary file not be created; or it is.
CreateTemp ==
  \/ FlushStep("begin", "open") /\ temp' = [temp EXCEPT ![dir] = Partial]
     /\ UNCHANGED <<battery, slot>>
  \/ up /\ flush.at = "begin" /\ GiveUp /\ UNCHANGED disk

\* fwrite and fclose.  A failure of either removes the temporary file.
\* Mutant: the result of fclose is ignored.
WrittenUnchecked == {sram, Partial}
Written == {sram}

WriteTemp ==
  \/ /\ FlushStep("open", "closed")
     /\ \E image \in Written : temp' = [temp EXCEPT ![dir] = image]
     /\ UNCHANGED <<battery, slot>>
  \/ /\ up /\ flush.at = "open" /\ GiveUp
     /\ temp' = [temp EXCEPT ![dir] = Missing] /\ UNCHANGED <<battery, slot>>

\* remove(path), whose result is ignored.
RemoveBattery ==
  /\ FlushStep("closed", "removed")
  /\ battery' \in {battery, [battery EXCEPT ![dir] = Missing]}
  /\ UNCHANGED <<temp, slot>>

\* rename(temp, path); the caller goes on with a clean image.  A failed rename
\* removes the temporary file.
Rename ==
  /\ up /\ flush.at = "removed" /\ temp' = [temp EXCEPT ![dir] = Missing]
  /\ \/ /\ battery' = [battery EXCEPT ![dir] = temp[dir]]
        /\ dirty' = FALSE /\ flushed' = frame /\ flush' = Idle
        /\ Continue(flush.then) /\ UNCHANGED <<dir, slot>>
     \/ renameFails /\ GiveUp /\ UNCHANGED <<battery, slot>>

-----------------------------------------------------------------------------
\* civ_frontend_snapshot_save, with the SRAM of the core.
SnapshotSave ==
  /\ Ready /\ slot' = [slot EXCEPT ![dir] = [sram |-> sram, frame |-> frame]]
  /\ UNCHANGED <<up, memory, flush, battery, temp>>

\* civ_frontend_snapshot_load: it rewinds SRAM and the frame count, not the frame
\* of the last flush, and marks the image dirty.
SnapshotLoad ==
  /\ Ready /\ slot[dir] # NoSlot
  /\ sram' = slot[dir].sram /\ frame' = slot[dir].frame /\ dirty' = TRUE
  /\ UNCHANGED <<up, flushed, dir, flush, disk>>

\* The process is killed.
Crash == up /\ up' = FALSE /\ flush' = Idle /\ UNCHANGED <<memory, disk>>

Next ==
  /\ \/ \E d \in Dirs : Start(d) \/ SwitchAndLoad(d)
     \/ Run \/ Reset \/ Exit \/ ForceFlush
     \/ CreateTemp \/ WriteTemp \/ RemoveBattery \/ Rename
     \/ SnapshotSave \/ SnapshotLoad \/ Crash
  /\ UNCHANGED renameFails

Spec == Init /\ [][Next]_vars

-----------------------------------------------------------------------------
\* A clean image is what a created core has or what some battery file holds, after
\* any failed, forced or refused flush, reset, restored snapshot and change of
\* directory: nothing forgets that SRAM still has to be written.  A rename that
\* fails after the removal breaks this for a forced flush of a clean image.
CleanIsPersisted ==
  ~renameFails /\ Ready /\ ~dirty => sram = Blank \/ \E d \in Dirs : battery[d] = sram

\* Whatever fails and whenever the process dies, nothing the frontend does turns a
\* missing or exact battery file into one that the next start refuses.
NeverTorn == [][\A d \in Dirs : battery'[d] = Partial => battery[d] = Partial]_vars

\* The frontend flushes atomically: directories that had a battery file have one
\* whenever no flush is under way, also after the process died in one.
BatterySurvives ==
  Missing \notin FirstFiles /\ flush.at = "none" => \A d \in Dirs : battery[d] # Missing
=============================================================================

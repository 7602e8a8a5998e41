# Civilization static recompilation: TLA+ models and proofs

This directory holds the formal models of the runtime that executes a statically
recompiled SNES game: the machine layer beneath the generated code, the audio
singleton it shares between cores, the widescreen cursor that edits the guest's memory,
the way of a key to the bit the guest reads, the battery file the hosts keep, and the
session of the Windows application with the sound it plays.  Paths below are relative to
the repository.

## 1. The system

The game's 65816 program is compiled ahead of time to C (about 150 000 generated
lines, `static-recomp/generated`).  The generated code calls a hand-written machine
layer for every CPU cycle; that layer is where time, interrupts, DMA and sound meet,
and it, not the generated code, is what these models are about.

| Component | Source | State | Operations | What makes it correct |
|---|---|---|---|---|
| Scheduler | `static-recomp/src/civilization_scheduler.c` | beam position, refresh, NMI flag and edge counter, timer IRQ line, HDMA requests | one master clock; an advance by n clocks | one refresh per line, RDNMI visible to pollers, IRQ line and timers agree |
| CPU timing | `.../civilization_cpu_timing.c` | sampled NMI, DMA lock | data access, begin instruction | no NMI edge is lost or invented, deferral is bounded |
| DMA/HDMA | `.../civilization_dma.c` | pending masks, one start-delay latch, HDMA progress | arbitration per CPU cycle, manual transfer, HDMA initialisation and lines, nesting | requests are served once, in order and in time |
| Bus registers | `.../civilization_bus.c`, `civilization_ppu_io.c` | `$4200`-`$420C`, `$4210`, `$4211`, `$2133` | reads and writes at a clock of an access | register effects race the beam correctly |
| Runtime | `.../civilization_runtime.c`, `civilization_cpu_support.c` | interrupt depths, frontier | accept, execute, retire, fail; entry and RTI | frames never nest, every entry is justified |
| Machine lifecycle | `.../civilization_machine.c` | all of a core | create, reset, run to a frame, read PCM | a frame ends; reset is creation |
| Audio lease | `.../civilization_audio.cpp` | `g_owner`, per-core flags | begin (may evict), sync, port access, release, save, restore | one owner; core and singleton agree |
| S-SMP/S-DSP | `static-recomp/static-audio` | clocks, remainder, FIFO | catch up by master clocks; push and drain PCM | no clock drift; every PCM frame accounted for |
| Snapshots | `.../civilization_snapshot.c` | file | save, load | all or nothing; ownership restored |
| Battery | `frontend/common/civilization_frontend.c`, `civilization_cartridge.c` | SRAM, dirty flag, last flush, `Civilization.srm`(`.tmp`) | load, timed and forced flush, reset, snapshot, exit | SRAM is never taken as saved when it is not; the file is never torn |
| Headless host | `frontend/linux/civilization_headless.c` | command script | start, run, sram-save, sram-load, state-dir, snapshots | drives the frontend |
| Windows session | `frontend/windows/civilization_app_win32.c`, `civilization_app_core.c` | game, pause, load flag, what the loader posted, open dialog and what it resumes, close request | start, load, pause, focus, reset, snapshots, dialogs, timer, failure, close | one core at a time; a pause is a pause; the window closes |
| Windows sound | `.../civilization_audio_output_dsound_win32.c` | PCM ring, looping buffer, cursors, priming, measured queue | open, pause, resume, flush, pump, recover | silence when paused, no sound of a former machine, sound when it runs |
| Widescreen connector | `civilization_input.c:1-236` | cursor extension, hidden directions, shift of nine guest words | each input of a frame, switch, reset, snapshot | the guest's memory is only ever lent |
| Input | `civilization_input.c:237-`, `frontend/common/civilization_input_latch.c` | latch, serial position, poll result | press, release, sample, latch, serial reads, polls | no press is lost, no key is stuck, no read is out of step |
| Renderer, diagnostics, settings, mapper, hashing, tools | | | data transformations or I/O | not modelled (section 8) |

How they interact: everything in a core is one C call chain.  A CPU access calls the
DMA arbiter, which may run whole transfers, each of which advances the scheduler;
the scheduler raises requests that the CPU or the arbiter sees only at their next
sampling point.  Concurrency is thus between *hardware units* whose interleaving is
produced by the order of calls.  Sound is shared between cores of a process through
one singleton.  Files outlive the process, which may die between two calls.

Hard behaviours, in the order they were attacked: (1) interrupts raised while DMA
locks the sampling cycle, and registers written while a latch is in transit; (2) three
DMA requesters with one delay latch and nesting; (3) two cores, one S-SMP, evictions
and snapshots; (4) partial file operations and kills; (5) host code that changes guest
memory for the length of a button press, with everything that may come in between;
(6) keys that arrive faster than frames, from a source that may change, read by a guest
in several ways at once; (7) a loader thread whose result arrives in whatever message loop
is running, under dialogs that remember what to resume; (8) a sound buffer that loops, is
stopped, primed and cleared by many paths, through calls that may fail.  `PROJECT.json` lists every
hazard with its line and the properties that watch it.

## 2. Modules and how they map to the code

`Scheduler` <- `Arbiter` <- `Machine` is one chain of EXTENDS, as the code is one
chain of calls.

* **Scheduler.tla**: `RawMaster` is `civ_timing_raw_master` (beam, `LatchTimerIrq`,
  `LatchNmi`, `ScheduleHdma`, all of one clock), `AdvanceMaster` one iteration of
  `civ_timing_advance_master`, inserted refresh clocks included.  `left` is the
  loop's remaining count.
* **Arbiter.tla**: `ProcessCpuCycle` is `civ_dma_process_cpu_cycle` with its
  precedence (HDMA transfer, HDMA initialisation, manual DMA) and the start delay;
  `NextByte`, `CheckNestedHdma`, `NestedDone`, `TransferDone` are the loop of
  `civ_dma_execute_pending`.  `pc` says where in that call chain the program is.
* **Machine.tla**: the actions of `civ_run_static`, register accesses, interrupt entry
  and RTI.  The generated program is arbitrary: at every access it picks any operation
  of `ProgramOps`; the fixed shape of an instruction is its number of fetch cycles,
  at most one store to `$420B` and acceptance of interrupts between instructions.
* **InterruptFrames.tla**: the abstract promise, five actions on two variables: one
  interrupt frame at a time, an NMI frame only for a requested edge, which it consumes.
* **MachineProperties.tla**: all properties of the chain and the refinement mapping.
* **AudioLease.tla**: `civ_v20_audio_*` over `sc_static_apu_*`, split where
  `civ_run_static` touches sound, so that whatever a host may do between two runs
  is interleaved: other cores, evictions, reset, save, load, PCM reads.
* **BatterySram.tla**: the frontend's battery code; a flush is four actions
  (`CreateTemp`, `WriteTemp`, `RemoveBattery`, `Rename`), each of which may fail, and
  `Crash` may come between any two.
* **WidescreenCursor.tla**: `SetInput` is `civ_set_controller_input` with the whole of
  `widescreen_connect_input` (undo the shift, extend the cursor, hide the directions that
  moved it, shift or commit); `SetWidescreen` is `civ_set_widescreen_enabled`, whose
  switching off passes an empty input first.  Between inputs the guest writes its words
  (`GuestWrite`), the host saves, loads and resets.  `own` is the history variable: the
  words as the guest would have them without any shift pending.
* **InputPath.tla**: `Press`, `Repeat`, `Release` are the window procedure's key messages
  with the latch function each calls; `Pause`, `Play`, `KillFocus`, `Reset`, `Fail` the
  places that reset the latch.  `Tick` is `service_host_timer` up to the call of
  `civ_run_frame`; the guest's accesses and the vertical blank happen within the frame,
  and `EndFrame` is the rest of `advance_one_frame`.  Masks are sets of bit numbers, so
  the two reversals of bit order are real.  `owed`, `orphans`, `strobed`, `burst`
  and `down` are what the properties compare with.
* **AudioOutput.tla**: the PCM ring of `civilization_app_core.c` and the DirectSound buffer.
  The functions of `civilization_audio_output_dsound_win32.c` are operators from a
  device to the set of devices it may leave, since any DirectSound call may fail
  (`Calls`); `DevicePlays` is the hardware.  A buffer's content is what the
  properties ask of it: silence, sound of the machine as it is, or also of a former one.
* **WindowsSession.tla** EXTENDS it: one action per message, dialog end, timer tick and
  loader step, each with every pause, flush, discard, open and resume of its handler.
  A dialog is two actions, its opening with the pause and its end with the resume;
  between them the modal loop delivers `LoadComplete` but runs no timer, while the
  modeless welcome window lets both through.  `g_loading`, the thread, its posted
  message and `g_resume_after_failed_load` are the fields of `load`.
* **MC\*.tla, MC\*.cfg**: instances for TLC.  Constants like `LinePeriod` carry the C
  value in their comment.  `MCTiming` adds to `MCMachine` the assumption `HdmaFits`, which
  two of its instances have to satisfy as the real numbers do.
* **\*_proofs.tla**: theorems; `MachineTiming_proofs` EXTENDS `Machine_proofs`.

Abstractions worth knowing when reading:

* Durations are in units of two master clocks and the geometry is scaled: a line of 20
  to 136 units instead of 682.  The order of events in a line is the code's.
* A failed core (`civ_fail_frontier`) in the code performs the remaining accesses of
  its instruction without clocks; the model stops after the access in progress.
* Channel configuration and bytes moved by DMA are data; only their count and clocks
  are kept.  DMA to `$2133`, A-bus reads of `$42xx`, "configuration not proved"
  frontiers are left out.
* `owed`, `deferred`, `mdmaWait`, `polls`, `stray` are history variables read by no action
  of the machine; `stray` remembers, until vertical blank, that the program changed HDMAEN
  inside the visible part of a frame, or the vertical size, which turns lines of vertical
  blank into visible ones: both may bring a line's HDMA to channels that the frame's
  initialisation has not seen, which the DMA code refuses to go on with.
* AudioLease: one PCM frame per S-SMP cycle, cycle ratio 2/3 instead of
  34176/715909, the S-SMP program's own frontiers folded into "frontier"; a load is
  refused before any change or succeeds (an altered audio payload with a recomputed
  hash, which would fail after the overwrite, is left out).
* BatterySram: kills of the process, not loss of power (there is no fsync to speak
  of); five equal snapshot slots are one; the host refuses to start on a file of the
  wrong size; actions that a paused frontend refuses are stutters.
* WidescreenCursor: the nine map words (x, y or x + 80 y) are two, one per axis, all shifted
  by one loop; positions are in tiles of 16 pixels; guest writes made under a live shift
  are undone by the restore, as in the code, and belong to the lent words, not to `own`;
  a load is the frontend's, which passes an empty input (the Windows host's leaves that to
  the next frame);
  the second controller and the mouse, which pass by the connector, are left out.
* InputPath: port 1, joypad; a serial read under a high strobe, which changes nothing, is
  left out; a restored snapshot, which may bring another port state, is left out; key
  bindings do not change while a key is held (the dialog pauses, which resets the latch).
  The frame is split at the vertical blank only: the finer timing is `Machine`'s.
* WindowsSession: the unit of sound is one frame's, so queue depth, cursor distances and
  latency are in that unit and each measurement may be any the cursor allows; resampler,
  volume, fades and rate control change samples, not this state.  A message box is
  answered inside its action.  A disabled main window receives no keys or menus, and what
  starts up goes first.  Switching widescreen on in a core just made cannot fail: it fails
  only in drawing a completed frame, and such a core has none.  Key bindings, full screen
  and what the dialogs edit are left out; the settings that pacing and sound depend on are
  changed by closing the dialogs.  Sound in the ring and in the buffer is marked as a
  former machine's where a snapshot overwrites the core and where a reset that fails has
  cleared it; the paths that succeed empty the ring themselves
  (`civilization_app_core.c:187-188` and 337-338).
* `driverFails` and `postFails` are chosen once: properties that promise something only
  of a working DirectSound, or of a queue that takes the loader's message, name them.

## 3. Runs

| Run | Question | Distinct states |
|---|---|---|
| `interrupts` | beam, refresh, timer IRQ, RDNMI, frames, refinement | 3.3 M |
| `dma` | three DMA requesters, one latch; the beam goes on | 1.8 M |
| `locks` | NMI edges under DMA locks, moving vertical blank | 4.2 M |
| `lease` | two cores share the S-SMP | 0.47 M |
| `battery` | clean means persisted, never a torn file, failing calls and kills | 2.9 M |
| `widescreen` | shifts of guest words are undone, hidden directions stay hidden | 85 k |
| `input` | taps reach the guest, no phantom keys, one sample per read | 0.25 M |
| `session` | one core, silence, sound, a window that closes | 0.26 M |
| `battery_flush` | (violation) a kill in a flush | |
| `widescreen_snapshot` | (violation) a snapshot under a live shift | |
| `throttle` | (violation) frames held back by a queue that nothing measures | |
| `windows_battery` | (violation) the Windows session leaves no battery file | |

Why the bounds are enough.  In the machine runs every relative order of the events of
a line (RDNMI rise, NMI edge, HDMA initialisation, refresh, HDMA, timer) against an
access of every modelled speed occurs because the beam is not synchronised with the
program: accesses start at every offset.  Three or four lines contain one visible, one
vertical blank and one wrapping line; `OverscanLine` differs from `VblankLine` in
`locks`, where `$2133` moves the blank line.  In `dma` and `locks` a manual transfer crosses a
whole HDMA block (`DmaSizes`), and the geometry satisfies `HdmaFits`, as the real one does:
room before `HdmaH` and after it for the longest wait and the longest block.  Without that
room two requests of a kind do meet, an artefact of scaling and not of the code.  `dma`
has CPU cycles of two speeds off the DMA's grid; `locks` has the tightest geometry there
is, a CPU cycle, a DMA byte and the refresh being one unit each, in which the bound of three locked cycles in a row is
reached (two is refuted) and a line of vertical blank can turn visible with RDNMI up.
The program of `locks` stays in emulation mode, where the code stops with an error when it
accepts an interrupt: interrupt entries are the subject of `interrupts`, which has no DMA, and edges
that mature during an entry under DMA are left to the theorem `EdgeSafe`.
Two cores and a clock of 5
steps give the lease an eviction, an overflow of a FIFO of 2 and a second acquisition;
two directories and three images make old, new and snapshot image differ.
`battery` lets renames fail too; `CleanIsPersisted` names the one such failure that it
does not survive.
`Wrap = 8` keeps the unsigned difference of frame counts an unsigned difference.
The cursor's reach of two tiles lets an extension grow, shrink and overshoot zero; words
modulo 3 are shifted by up to two tiles without meeting themselves; the twelve inputs
are every direction alone, the buttons that act, commit and speed up, and the
combinations in which a direction is held while another button is pressed.
`input` has two opposite directions on bits 0 and 1 of a mask of three, so that an order of bits
differs from its reverse, and a serial burst is long enough to be cut by a frame.
In `session` the ring holds one frame's sound, so that one left in it is one too many; a
buffer of six with a guard of one and a target of four has states below, at and above
half the target, an overtaken writer, and a queue that looks full after an underrun; an
averaging window of two reaches a recovery, and a frame before it.

## 4. Properties

Each is stated in words at its definition.  Machine: `EdgeAccounting`,
`DeferralBounded`, `TimerIrqConsistent`, `RdnmiWindow`, `FrameDiscipline`,
`ImplementsFrames`, `StartDelayJustified`, `NoDuplicateRequest`, `MdmaServed`,
`HdmaBeforeLatch`, `NoDmaFrontier`, `RefreshOncePerLine`, `OnePollPerFrame`,
`FramesGoOn`.  Sound of a core: `LeaseConsistent`, `PcmAccounted`, `NeverRefused`.
Windows session: `OneCore`, `NoStaleSound`, `DialogPauses`, `SilentWhenPaused`,
`Audible`, `NothingDropped`, `CloseHappens`, `SoundResumes`.
Battery: `CleanIsPersisted`, `NeverTorn`, `BatterySurvives`.
Input: `TapsReachGuest`, `NoPhantomKeys`, `SerialReadsOneSample`, `AutoReadsFrame`.
Widescreen: `ShiftUndone`, `ShiftSaved`, `DirectionStaysHidden`, `SnapshotHoldsGuest`.
Each passing property is broken by a named mutant operator of the module
(`...Sticky`, `...Early`, `GiveUpClean`, ...), kept beside what it mutates.

Assumptions inside properties: `RdnmiWindow` and `OnePollPerFrame` need a vertical size
that does not change in mid-frame (their run has no `"setini"`: a blank line that moves
from 225 to 240 between the two is polled twice); `NeverRefused` is about
hosts that do not resume evicted cores (none of this repository has two; a host that had
would find that the check at `civilization_runtime.c:46` looks at a flag an eviction
leaves set); `NoDmaFrontier` is about programs that leave HDMAEN alone in the visible part
of a frame and the vertical size throughout it; `CleanIsPersisted` assumes that a rename of a
complete temporary file succeeds, because after `remove(path)` a failing rename loses the
file of an image that is already clean (a forced `sram-save`); `NeverTorn` starts from
directories without foreign files; `ShiftUndone` and `ShiftSaved` are about hosts that
save only unshifted words (`SavesShifted = FALSE`), because a snapshot that
`SnapshotHoldsGuest` refutes brings the forgotten shift back when it is loaded;
`TapsReachGuest` is about frames in which the guest's automatic poll is on (the host
consumes a tap after any frame); `NoPhantomKeys` names the one way a key can stick: held
when a gamepad takes over and released before it leaves; `SilentWhenPaused`, `Audible`,
`SoundResumes` and the half of `NoStaleSound` about the buffer (not the one about the
ring) are about a DirectSound whose calls succeed, and `CloseHappens` about a loader whose message is posted.  `DialogPauses` and
`Audible` except the game that a load starts behind a window opened while it ran
(`behind`): no text says that it should wait.  `SoundResumes` holds for averaging
windows of two frames or more; with one frame, the least the dialog allows, and a latency
far above the recovery threshold, the recovery may follow every start of playback.

Fairness.  `FramesGoOn` needs `WF_vars(Next)` of the machine: the host calls
`civ_run_to_frame` again and again, and in a core nothing waits for anything outside.
No action has fairness of its own, so the property is about the code's progress and not
about a lucky scheduler.  The loop of `civ_run_static` has a budget of instructions, so a
beam that stood still would be a frame reported as failed and not a hang.  A failed core is
reset by its host; a host that leaves it failed stutters no clock, and `Reset` is then the
only step.
The session has weak fairness of `LoaderEnds` (verifying a file ends), `LoadComplete` (every
message loop, modal ones too, dispatches what is posted), `Tick` (the timer is waitable and
periodic) and `HardwarePlays`; none of any step of the user.  `SoundResumes` therefore
asks for sound only once the user lets the game be.

## 5. What the runs found

* **battery_flush** (`civilization_frontend.c:163`): the flush removes before it renames,
  so it is not atomic, which `civilization_snapshot.c:278-280` says it is.
* **widescreen_snapshot** (`civilization_input.c:53`): while a button acts under the
  extended cursor the guest's words are shifted in WRAM; a snapshot saves them so and
  leaves out what would undo the shift, which `civilization_static_recomp.h:273-274`
  calls host state excluded from the guest's.
* **throttle** (`civilization_app_win32.c:2344`): with the frame lock off, a queue longer than
  the throttle allows holds the next frame back, and only a frame measures the queue
  again; the game stops until the user does something that flushes the output, although
  the comment at 2342-2343 means a throttle.
* **windows_battery** (`civilization_app_win32.c:3131`): no battery path is ever set, the flush
  returns at once (459) and the function that would load the file has no caller, while
  `README-FIRST.txt:11-13` and `README.md:66-70` speak of battery SRAM that persists.

Notes that are not disagreements with any text: HDMAEN enabled in mid-frame after the
frame's initialisation fails closed as "uninitialized", and so does HDMAEN enabled in
vertical blank when `$2133` then makes that line visible again (without this case the
proof of `NoDmaFrontier` does not go through); the DMA lock can hold an NMI edge back for
three cycles in a row, an HDMA block, the manual DMA that it delayed and the block
requested in that DMA's last byte; an NMI edge that matures during
an NMI entry merges into it; a loader result that cannot be posted leaves `g_loading` set
and a window that cannot be closed; two `$420B` stores with only two cycles between could meet
the "second MDMAEN" frontier when an HDMA initialisation restarts the shared delay, so
the model keeps the operand fetch every real store has.

## 6. Proofs

For all values of the constants that satisfy the named ASSUMEs:

* `Machine_proofs`: type correctness first (`TypeOK /\ Shape`, where `Shape` ties `pc`,
  `left` and `speed`, because a step's types depend on where the call chain is);
  then each invariant on top of it.  `EdgeSafe`, `TimerIrqSafe`, `FramesSafe` and
  `StartDelaySafe` are inductive relative to the types; `RefreshSafe` needs
  `RefreshInv`, which adds how far the inserted clocks have come and that the refresh
  position lies within the shortest line.  `Implementation` maps every step to a
  step or stutter of `InterruptFrames` and uses `EdgeSafe` and `FramesSafe`: an NMI
  entry is an abstract entry only because its edge is still owed when the entry ends.
* `MachineTiming_proofs`: what depends on how long things take.  The hypothesis is
  `HdmaFits(S)`, S bounding a CPU cycle: the line has room for the longest wait and the
  longest block; the C code's numbers satisfy it with S = 12 by a wide margin (172 clocks
  of 1104, 1232 of 1360).  The prover cannot sum the clocks of a chain of calls, and need
  not: `LegEnd`, the position at which the leg under way ends with the refresh it may
  still have to insert, does not change while the beam moves along a line.  `Timely`
  says of a pending request that `LegEnd`, plus the `Backlog` that may delay its service,
  plus its block, stays before the next event of the line, and of a running block that the
  rest of it does.  A tick keeps `LegEnd`; every other step starts a leg that was
  part of the backlog.  `HdmaOnTime` reads the line's end off it.  The rest are
  invariants relative to `Timely`:
  `MdmaWaits` (an armed manual DMA has waited at most one cycle when a request can be
  raised, because the stretch after a service is `Quiet`) gives `MdmaInTime`;
  `StageReached` (the wait keeps up with the cycles of the instruction, so that a second
  `$420B` store would come after four) gives `NoRequestTwice`, which assumes
  `FetchCycles >= 2`, the cycles every instruction has before any store;
  `LocksBounded` (locked cycles counted plus `Locks`, the most that can follow, are three
  at most) gives `DeferralInTime`;
  `Warm` (past the initialisation of a visible frame channel 2 is initialised if HDMA is
  on and the program did not stray) and `ColdStart`, for the first frame, which has no
  initialisation, give `FrontierNeverMet`.
* `AudioLease_proofs`: `IInv` is the types, the law of every core (`CoreInv`: an acquired
  core is the owner and its clock is not behind the singleton), of the running core
  (`ActiveLaw`) and of the snapshot file (`FileLaw`: what was saved satisfies the law when
  it is loaded into either core).  The arithmetic is a lemma of its own,
  `AdvanceIsClosedForm`: for every ratio, advancing by remainder equals the closed form,
  so the accumulator check never fails.
* `BatterySram_proofs`: `IInv` adds `TempLaw` (a closed temporary file is the image being
  flushed) and `CleanLaw` (what is clean is persisted, also in the middle of a flush).
* `WidescreenCursor_proofs`: `IInv` joins the types, `ShiftUndone`, `ShiftSaved` (each
  needs the other: undoing needs saved words, saving needs undone ones) and `FileLaw`
  (a saved file holds the guest's words).  `WordLaw` is what the three kinds of input,
  plain, commit and shift, have in common.  `DirectionStaysHidden` is an action property: it follows
  from `HiddenLaw`, no hidden direction is in the controller's state.
* `InputPath_proofs`: `IInv` says what each stage is in terms of the one before it: pending
  is what is owed, held is down or orphaned (`LatchLaw`), a frame's sample is the whole latch
  (`SampleLaw`), the port's registers are serial orders of samples (`PortLaw`).
  `SerialTwice` is the lemma that two reversals of any width cancel.
* `AudioOutput_proofs` has what each device operation keeps: the law `Good` (types; a closed
  device is silent; and where the driver works a paused one does not play, an open and
  unpaused one either plays or primes, and none holds sound of a former machine), and
  whether it stays open and paused as it was.  They are lemmas about sets of outcomes,
  cited by the handlers that chain them.
* `WindowsSession_proofs`: `IInv` is the types, `Good` of the device, `Order` (which loads,
  dialogs, startup and games exclude each other), `Rest` (without a game there is neither
  ring nor output; a live machine's ring is empty), `InStep` (output and game are paused
  together, except behind a dialog) and `DialogPauses`.  `OneCore` alone is not inductive:
  that Run, Browse and the welcome window cannot start a load over a game follows only
  together with what dialogs and startup allow.
* `RdnmiSafe` and `OnePollSafe` assume of the program that it does not write SETINI, and of
  the geometry the order of the positions in a line (`SchedulerAssumption`).  `VblankInv`
  ties flag, poll count and beam for the whole frame, from one wrap to the next.

`PROJECT.json` names the theorem of each property.

Only model-checked: the liveness properties `FramesGoOn`, `CloseHappens` and
`SoundResumes`, since fairness is out of the prover's reach.  Every invariant and every
action property that a run checks is a theorem; `RdnmiSafe`, `OnePollSafe` and the
theorems of `MachineTiming_proofs` have hypotheses, named above, that their runs satisfy.
The violated properties are not theorems of anything.

## 7. Order of the work, and what is left

The modules were written in the order of the hard behaviours of section 1: the machine
chain, the lease, the battery, the connector, the input path, the Windows session with
its sound.  Left, in this order:

1. The mouse, port 2 and snapshots under a half-read burst, in `InputPath`.
2. Refusal of a snapshot at each of its header checks; the mapper's address decoding as
   operators with a reference definition.

## 8. Not modelled, and why

Instruction semantics and the generated code: values, not control, and verified by the
repository's own oracle traces.  They are about nine tenths of the repository's lines of
code, so the models stand for a small part of the lines and most of the control.
Renderer, S-DSP synthesis, resampler: numeric transformations of large arrays.  Hashing and ROM verification: arithmetic beyond TLC.
Diagnostics: read-only.  Settings, gamepad, presentation, full screen, dialog contents: platform
I/O and layout.  Tools: offline.

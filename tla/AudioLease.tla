----------------------------- MODULE AudioLease ----------------------------
(***************************************************************************)
(* One S-SMP/S-DSP per process, any number of cores: the lease of          *)
(* civilization_audio.cpp over the singleton of sc_static_apu.cpp, the     *)
(* runtime and the snapshots that take it, and the PCM FIFO behind it.     *)
(* The host is single threaded; civ_run_static is split at its accesses    *)
(* to the audio unit.  The S-DSP is reduced to one PCM frame per cycle.    *)
(***************************************************************************)
EXTENDS Integers

CONSTANTS
  Cores,        \* CivRecomp instances of the process
  NoCore,       \* a null CivRecomp pointer
  Num, Den,     \* 34176 / 715909: S-SMP cycles per master clock
  Fifo,         \* 8192: CIV_DSP_PCM_FIFO_FRAMES
  RunsEvicted,  \* does the host resume cores that another one evicted?
  MaxClock,     \* bound on the master clock of a core
  MaxStep       \* bound on the master clocks of an instruction

ASSUME AudioAssumption ==
  /\ NoCore \notin Cores /\ RunsEvicted \in BOOLEAN
  /\ Num \in Nat /\ Den \in Nat \ {0} /\ Fifo \in Nat
  /\ MaxClock \in Nat /\ MaxStep \in Nat

VARIABLES
  core,    \* the audio fields, clock and failure of every core
  owner,   \* g_owner
  apu,     \* the singleton: g_acquired, g_master, g_cycles, ... and its FIFO
  active,  \* the core whose civ_run_static is on the stack
  file     \* the snapshot file

vars == <<core, owner, apu, active, file>>

\* Why a core failed: frontier stands for the generated program's own frontiers.
Reasons == {"no", "frontier", "unowned", "unacquired", "backwards", "overflow",
            "accumulator"}

\* ran: instruction_count # 0; frames: v20_pcm_frame_count.
CoreStates == [ran : BOOLEAN, clock : 0 .. MaxClock, enabled : BOOLEAN,
               acquired : BOOLEAN, frames : Nat, failed : Reasons]

\* The part of the singleton that sc_static_apu_snapshot_save writes.
Sounds == [master : 0 .. MaxClock, cycles : Nat, remainder : 0 .. Den - 1,
           ring : 0 .. Fifo, produced : Nat, stopped : BOOLEAN]

NoAudio == [none |-> TRUE]
NoFile  == [none |-> FALSE]
Files   == [core : CoreStates, audio : Sounds \cup {NoAudio}]

TypeOK ==
  /\ core \in [Cores -> CoreStates]
  /\ owner \in Cores \cup {NoCore}
  /\ apu \in [on : BOOLEAN, sink : Cores \cup {NoCore}, sound : Sounds]
  /\ active \in Cores \cup {NoCore}
  /\ file \in Files \cup {NoFile}

ResetCore == [ran |-> FALSE, clock |-> 0, enabled |-> FALSE, acquired |-> FALSE,
              frames |-> 0, failed |-> "no"]

PowerOn == [master |-> 0, cycles |-> 0, remainder |-> 0, ring |-> 0,
            produced |-> 0, stopped |-> FALSE]

Released == [on |-> FALSE, sink |-> NoCore, sound |-> PowerOn]

Init ==
  /\ core = [c \in Cores |-> ResetCore]
  /\ owner = NoCore /\ apu = Released /\ active = NoCore /\ file = NoFile

-----------------------------------------------------------------------------
\* The clock relation of sc_audio_clock_profile.h.
Numerator(delta, remainder) == (delta % Den) * Num + remainder
AdvanceCycles(delta, remainder) ==
  (delta \div Den) * Num + Numerator(delta, remainder) \div Den
AdvanceRemainder(delta, remainder) == Numerator(delta, remainder) % Den
ClosedForm(master) == (master \div Den) * Num + ((master % Den) * Num) \div Den
ClosedRemainder(master) == ((master % Den) * Num) % Den

\* sync_impl: what it refuses, in the order of its tests.
Refusal(clock) ==
  LET s == apu.sound  delta == clock - s.master
  IN  IF ~apu.on THEN "unacquired"
      ELSE IF clock < s.master THEN "backwards"
      ELSE IF s.stopped THEN "overflow"
      ELSE IF s.cycles + AdvanceCycles(delta, s.remainder) # ClosedForm(clock)
              \/ AdvanceRemainder(delta, s.remainder) # ClosedRemainder(clock)
        THEN "accumulator"
      ELSE "no"

\* The S-DSP stops for good at the first frame that finds the FIFO full.
\* Mutant: the FIFO is tested after the frame is pushed.
FramesThatFitLate(wanted) ==
  IF wanted <= Fifo - apu.sound.ring THEN wanted ELSE Fifo - apu.sound.ring + 1
FramesThatFit(wanted) ==
  IF wanted <= Fifo - apu.sound.ring THEN wanted ELSE Fifo - apu.sound.ring

\* The singleton brought to a master clock that it does not refuse.
\* Mutant: a frame the FIFO refused counts as produced.
SyncedSoundCountingDropped(clock) ==
  LET s == apu.sound
      wanted == AdvanceCycles(clock - s.master, s.remainder)
      made == FramesThatFit(wanted)
  IN  [s EXCEPT !.master = clock, !.cycles = @ + wanted,
                !.remainder = AdvanceRemainder(clock - s.master, @),
                !.ring = @ + made, !.produced = @ + wanted,
                !.stopped = made < wanted]
SyncedSound(clock) ==
  LET s == apu.sound
      wanted == AdvanceCycles(clock - s.master, s.remainder)
      made == FramesThatFit(wanted)
  IN  [s EXCEPT !.master = clock, !.cycles = @ + wanted,
                !.remainder = AdvanceRemainder(clock - s.master, @),
                !.ring = @ + made, !.produced = @ + made,
                !.stopped = made < wanted]

\* civ_v20_audio_sync_internal and the APUIO accesses: none tests the owner.
Synchronize(c) ==
  IF Refusal(core[c].clock) = "no"
    THEN apu' = [apu EXCEPT !.sound = SyncedSound(core[c].clock)] /\ UNCHANGED core
    ELSE core' = [core EXCEPT ![c].failed = Refusal(core[c].clock)] /\ UNCHANGED apu

\* civ_v20_audio_begin, on the cores cs.
\* Mutant: the owner keeps the singleton it has, acquired or not.
HoldsAsOwner(cs, c) == owner = c
Holds(cs, c) == owner = c /\ cs[c].acquired
\* Mutant: the previous owner is not told.
EvictSilently(cs, c) == cs
Evict(cs, c) ==
  IF owner \in Cores \ {c} THEN [cs EXCEPT ![owner].acquired = FALSE] ELSE cs
Acquire(s) == [s EXCEPT !.enabled = TRUE, !.acquired = TRUE, !.frames = 0]

BeginCores(cs, c) ==
  IF Holds(cs, c) THEN cs ELSE [Evict(cs, c) EXCEPT ![c] = Acquire(@)]

BeginApu(cs, c) ==
  IF Holds(cs, c) THEN apu ELSE [on |-> TRUE, sink |-> c, sound |-> PowerOn]

\* civ_v20_audio_release_internal, the singleton's side.
Release(c) ==
  IF owner = c THEN owner' = NoCore /\ apu' = Released ELSE UNCHANGED <<owner, apu>>

-----------------------------------------------------------------------------
\* A host that does not resume evicted cores.
HostMayRun(c) == RunsEvicted \/ (core[c].ran /\ core[c].enabled => core[c].acquired)

\* civ_run_static up to its loop: the first run takes the lease, a later one only
\* asks whether the core ever took it.
RunStart(c) ==
  /\ active = NoCore /\ core[c].failed = "no" /\ HostMayRun(c)
  /\ IF ~core[c].ran
       THEN core' = BeginCores(core, c) /\ owner' = c /\ apu' = BeginApu(core, c)
       ELSE /\ core' = [core EXCEPT ![c].failed = IF core[c].enabled THEN @ ELSE "unowned"]
            /\ UNCHANGED <<owner, apu>>
  /\ active' = IF core[c].ran /\ ~core[c].enabled THEN NoCore ELSE c
  /\ UNCHANGED file

\* civ_generated_core_step: an instruction, or a frontier of the program.
Step(c) ==
  /\ active = c /\ core[c].failed = "no"
  /\ \/ \E clocks \in 1 .. MaxStep :
          /\ core[c].clock + clocks <= MaxClock
          /\ core' = [core EXCEPT ![c].clock = @ + clocks, ![c].ran = TRUE]
     \/ core' = [core EXCEPT ![c].failed = "frontier"]
  /\ UNCHANGED <<owner, apu, active, file>>

\* The program reads or writes $2140-$2143 (civ_v20_audio_cpu_read, _cpu_write).
PortAccess(c) ==
  /\ active = c /\ core[c].failed = "no"
  /\ IF core[c].enabled THEN Synchronize(c)
     ELSE core' = [core EXCEPT ![c].failed = "unacquired"] /\ UNCHANGED apu
  /\ UNCHANGED <<owner, active, file>>

\* The end of civ_run_static, synchronising a core that did not fail.
RunEnd(c) ==
  /\ active = c
  /\ IF core[c].failed = "no" /\ core[c].acquired
       THEN Synchronize(c) ELSE UNCHANGED <<core, apu>>
  /\ active' = NoCore /\ UNCHANGED <<owner, file>>

\* civ_v20_audio_sync, which the hosts call on a core whose audio is active.
HostSync(c) ==
  /\ active = NoCore /\ core[c].acquired /\ Synchronize(c)
  /\ UNCHANGED <<owner, active, file>>

\* civ_audio_read: the frames go to the sink of whoever acquired the singleton.
ReadPcm(c) ==
  /\ active = NoCore /\ Holds(core, c)
  /\ \E n \in 1 .. apu.sound.ring :
       /\ apu' = [apu EXCEPT !.sound.ring = @ - n]
       /\ core' = [core EXCEPT ![apu.sink].frames = @ + n]
  /\ UNCHANGED <<owner, active, file>>

\* civ_reset; civ_destroy followed by civ_create leaves the same state.
Reset(c) ==
  /\ active = NoCore /\ Release(c)
  /\ core' = [core EXCEPT ![c] = ResetCore]
  /\ UNCHANGED <<active, file>>

\* civ_snapshot_save: an acquired core must own what it saves.
Save(c) ==
  /\ active = NoCore /\ (core[c].acquired => owner = c)
  /\ file' = [core |-> core[c],
              audio |-> IF core[c].acquired THEN apu.sound ELSE NoAudio]
  /\ UNCHANGED <<core, owner, apu, active>>

\* civ_snapshot_load: the core is overwritten, acquired flag included, and a
\* snapshot with audio then begins the lease and replaces the singleton.
LoadedCores(c) == [core EXCEPT ![c] = file.core]

Load(c) ==
  /\ active = NoCore /\ file # NoFile
  /\ IF file.audio = NoAudio
       THEN core' = LoadedCores(c) /\ UNCHANGED <<owner, apu>>
       ELSE /\ core' = [BeginCores(LoadedCores(c), c) EXCEPT
                          ![c].frames = file.core.frames]
            /\ owner' = c
            /\ apu' = [BeginApu(LoadedCores(c), c) EXCEPT !.sound = file.audio]
  /\ UNCHANGED <<active, file>>

Next ==
  \E c \in Cores :
    \/ RunStart(c) \/ Step(c) \/ PortAccess(c) \/ RunEnd(c)
    \/ HostSync(c) \/ ReadPcm(c) \/ Reset(c) \/ Save(c) \/ Load(c)

Spec == Init /\ [][Next]_vars

-----------------------------------------------------------------------------
\* A core that believes it has audio (civ_audio_active) owns the singleton, which
\* is powered and plays to its sink and nobody else's; without an owner it is off.
LeaseConsistent ==
  /\ \A c \in Cores : core[c].acquired => owner = c
  /\ IF owner = NoCore THEN ~apu.on ELSE apu.on /\ apu.sink = owner

\* Every PCM frame of the owner's timeline was handed to its sink once or waits in
\* the FIFO, whatever reads, evictions and snapshots came between; and until the
\* FIFO overflowed the S-DSP made a frame for every cycle.
PcmAccounted ==
  \A c \in Cores : core[c].acquired =>
    /\ core[c].frames + apu.sound.ring = apu.sound.produced
    /\ ~apu.sound.stopped => apu.sound.produced = apu.sound.cycles

\* Among hosts that do not resume evicted cores, the singleton refuses nothing but
\* a synchronisation after an overflow: its clock never is ahead of the core's, its
\* accumulated cycles are those of the closed form, and no core runs without it.
NeverRefused ==
  ~RunsEvicted => \A c \in Cores : core[c].failed \in {"no", "frontier", "overflow"}
=============================================================================

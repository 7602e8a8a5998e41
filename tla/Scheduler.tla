----------------------------- MODULE Scheduler -----------------------------
(***************************************************************************)
(* The master-clock scheduler of civilization_scheduler.c: one raw master  *)
(* clock moves the beam, and at fixed beam positions latches the NMI flag, *)
(* the NMI edge, the H/V timer IRQ and the HDMA requests that the CPU and  *)
(* DMA code later sample.  Every duration in the C code is even, so the    *)
(* TLC instances count in units of two master clocks; the module itself    *)
(* only knows the constants.                                               *)
(***************************************************************************)
EXTENDS Integers

CONSTANTS
  LinePeriod,     \* 1364: master clocks of a scanline
  ShortPeriod,    \* 1360: the short line of field 1
  ShortLine,      \* 240
  Lines,          \* 262: CIV_NTSC_SCANLINES
  VblankLine,     \* 225: NMI line, first line without HDMA
  OverscanLine,   \* 240: the same line when $2133 bit 2 is set
  RaiseH,         \* 2: RDNMI goes high
  EdgeH,          \* 6: the NMI line drops
  InitH,          \* 12: HDMA frame initialisation, plus the clock phase
  RefreshH,       \* 538: DRAM refresh, minus the clock phase
  RefreshClocks,  \* 40
  HdmaH,          \* 1104: HDMA of a visible line
  Unit,           \* 8: clocks of a DMA byte, and modulus of the clock phase
  HoldClocks,     \* 4: clocks a fresh timer IRQ resists a TIMEUP read
  HtimeStep,      \* 4: master clocks of one HTIME step
  HTimes, VTimes  \* values the guest programs into HTIME and VTIME

ASSUME SchedulerAssumption ==
  /\ {LinePeriod, ShortPeriod, Lines, Unit, HoldClocks} \subseteq Nat \ {0}
  /\ {ShortLine, VblankLine, OverscanLine, RaiseH, EdgeH, InitH} \subseteq Nat
  /\ {RefreshH, RefreshClocks, HdmaH, HtimeStep} \subseteq Nat
  /\ ShortPeriod <= LinePeriod
  /\ Unit <= RefreshH /\ RefreshH + RefreshClocks < ShortPeriod
  /\ 0 < VblankLine /\ RaiseH < EdgeH /\ EdgeH < ShortPeriod
  /\ HTimes \subseteq Nat /\ VTimes \subseteq Nat
  /\ HTimes # {} /\ VTimes # {}

VARIABLES
  hcounter, vcounter, field,
  phase,                            \* master_clock & 7
  refreshDone, refreshAt,           \* dram_refresh_done, dram_refresh_hcounter
  refreshLeft,                      \* inserted refresh clocks still to run
  left,                             \* clocks left in civ_timing_advance_master
  initAt,                           \* hdma_init_hcounter
  io,                               \* the $4200/$4207-A/$420C/$2133 registers
  nmiFlag, nmiCounter, nmiPending,  \* nmi_flag, nmi_flag_counter, nmi_pending
  irqLine, irqTransition, irqHold,
  startDelay,                       \* dma_start_delay
  initPending, transferPending,     \* hdma_init_pending, hdma_transfer_pending
  polls,                            \* automatic joypad polls since the frame began
  failed                            \* why civ_fail_frontier was first called, or NoFailure

beam     == <<hcounter, vcounter, field, phase, refreshDone, refreshAt,
              refreshLeft, initAt, polls>>
irqVars  == <<irqLine, irqTransition, irqHold>>
nmiVars  == <<nmiFlag, nmiCounter, nmiPending>>
requests == <<startDelay, initPending, transferPending>>

NoFailure == "none"
Reasons == {NoFailure, "doubleInit", "doubleTransfer", "uninitialized",
            "doubleMdma", "emulation", "rti"}

IoType == [nmi : BOOLEAN, hirq : BOOLEAN, virq : BOOLEAN, joy : BOOLEAN,
           hdma : BOOLEAN, overscan : BOOLEAN, htime : HTimes, vtime : VTimes]

SchedulerTypeOK ==
  /\ hcounter \in 0 .. LinePeriod - 1 /\ vcounter \in 0 .. Lines - 1
  /\ field \in 0 .. 1 /\ phase \in 0 .. Unit - 1
  /\ refreshDone \in BOOLEAN /\ refreshAt \in Nat /\ refreshLeft \in Nat
  /\ left \in Nat /\ initAt \in Nat
  /\ io \in IoType
  /\ nmiFlag \in BOOLEAN /\ nmiCounter \in 0 .. 2 /\ nmiPending \in BOOLEAN
  /\ irqLine \in BOOLEAN /\ irqTransition \in BOOLEAN
  /\ irqHold \in 0 .. HoldClocks
  /\ startDelay \in BOOLEAN /\ initPending \in BOOLEAN
  /\ transferPending \in BOOLEAN
  /\ polls \in 0 .. 2
  /\ failed \in Reasons

ResetIo == [nmi |-> FALSE, hirq |-> FALSE, virq |-> FALSE, joy |-> FALSE,
            hdma |-> FALSE, overscan |-> FALSE,
            htime |-> CHOOSE t \in HTimes : TRUE,
            vtime |-> CHOOSE t \in VTimes : TRUE]

\* A machine of civ_create, and civ_reset on a used one: all of it is zeroed and
\* the refresh position preloaded.
SchedulerInit ==
  /\ hcounter = 0 /\ vcounter = 0 /\ field = 0 /\ phase = 0
  /\ refreshDone = FALSE /\ refreshAt = RefreshH /\ refreshLeft = 0
  /\ left = 0 /\ initAt = 0
  /\ io = ResetIo
  /\ nmiFlag = FALSE /\ nmiCounter = 0 /\ nmiPending = FALSE
  /\ irqLine = FALSE /\ irqTransition = FALSE /\ irqHold = 0
  /\ startDelay = FALSE /\ initPending = FALSE /\ transferPending = FALSE
  /\ polls = 0 /\ failed = NoFailure

SchedulerReset ==
  /\ hcounter' = 0 /\ vcounter' = 0 /\ field' = 0 /\ phase' = 0
  /\ refreshDone' = FALSE /\ refreshAt' = RefreshH /\ refreshLeft' = 0
  /\ left' = 0 /\ initAt' = 0
  /\ io' = ResetIo
  /\ nmiFlag' = FALSE /\ nmiCounter' = 0 /\ nmiPending' = FALSE
  /\ irqLine' = FALSE /\ irqTransition' = FALSE /\ irqHold' = 0
  /\ startDelay' = FALSE /\ initPending' = FALSE /\ transferPending' = FALSE
  /\ polls' = 0 /\ failed' = NoFailure

-----------------------------------------------------------------------------
\* Where the beam stands after one more raw clock.
Period    == IF field = 1 /\ vcounter = ShortLine THEN ShortPeriod ELSE LinePeriod
LineEnds  == hcounter + 1 >= Period
FrameEnds == LineEnds /\ vcounter + 1 >= Lines
NextH     == IF LineEnds THEN 0 ELSE hcounter + 1
\* Mutant: the line counter never wraps.
NextVUnwrapped == IF LineEnds THEN vcounter + 1 ELSE vcounter
NextV     == IF FrameEnds THEN 0 ELSE IF LineEnds THEN vcounter + 1 ELSE vcounter
NextPhase == (phase + 1) % Unit
NmiLine   == IF io.overscan THEN OverscanLine ELSE VblankLine

\* The V-only timer matches at a line's start, the H (and HV) timer at HTIME.
TimerMatch ==
  \/ LineEnds /\ io.virq /\ ~io.hirq /\ NextV = io.vtime
  \/ /\ io.hirq /\ NextH = (io.htime + 1) * HtimeStep
     /\ io.virq => NextV = io.vtime

LatchTimerIrq ==
  IF TimerMatch /\ ~irqLine
    THEN irqLine' = TRUE /\ irqTransition' = TRUE /\ irqHold' = HoldClocks
    ELSE /\ irqHold' = IF irqHold > 0 THEN irqHold - 1 ELSE 0
         /\ UNCHANGED <<irqLine, irqTransition>>

\* civ_hdma_schedule_init and civ_hdma_schedule_scanline, the beam's two calls.
NextInitAt == IF FrameEnds THEN InitH + NextPhase ELSE initAt
InitDue == failed = NoFailure /\ NextV = 0 /\ NextH = NextInitAt
TransferDue == failed = NoFailure /\ io.hdma /\ NextV < NmiLine /\ NextH = HdmaH

ScheduleHdma ==
  /\ initPending' = (initPending \/ InitDue)
  /\ transferPending' = (transferPending \/ TransferDue)
  /\ startDelay' = \/ startDelay
                   \/ InitDue /\ ~initPending
                   \/ TransferDue /\ ~transferPending
  /\ failed' = IF InitDue /\ initPending THEN "doubleInit"
               ELSE IF TransferDue /\ transferPending THEN "doubleTransfer"
               ELSE failed

\* RDNMI rises at RaiseH of the NMI line, the NMI edge follows at EdgeH, and
\* RDNMI falls when the next frame's first line begins.
NmiEdge == NextV = NmiLine /\ NextH = EdgeH /\ io.nmi

\* Mutant: the poll compares the position with <= instead of =.
PollDueLate == NextV = NmiLine /\ NextH <= RaiseH /\ io.joy
PollDue     == NextV = NmiLine /\ NextH = RaiseH /\ io.joy

LatchNmi ==
  /\ nmiFlag' = IF NextH # RaiseH THEN nmiFlag
                ELSE (NextV = NmiLine) \/ (nmiFlag /\ NextV # 0)
  /\ nmiCounter' = IF NmiEdge THEN 1 ELSE nmiCounter
  /\ polls' = IF FrameEnds THEN 0
              ELSE IF PollDue /\ polls < 2 THEN polls + 1 ELSE polls

MoveBeam ==
  /\ hcounter' = NextH /\ vcounter' = NextV /\ phase' = NextPhase
  /\ field' = IF FrameEnds THEN 1 - field ELSE field
  /\ initAt' = NextInitAt

\* civ_timing_raw_master: one clock, in the order the code latches things.  The
\* per-line PPU snapshots and the visible-frame certification only observe.
RawMaster ==
  /\ MoveBeam
  /\ LatchTimerIrq
  /\ ScheduleHdma
  /\ LatchNmi

\* civ_timing_advance_master: each requested clock is one raw clock; once per
\* line, RefreshClocks more are inserted when the beam reaches refreshAt.
NextRefreshAt == IF LineEnds THEN RefreshH - NextPhase ELSE refreshAt
RefreshStarts ==
  /\ refreshLeft = 0 /\ NextH = NextRefreshAt
  /\ LineEnds \/ ~refreshDone

\* Mutant: the new line forgets that its refresh is still to come.
RefreshDoneSticky == RefreshStarts \/ refreshDone
NextRefreshDone   == RefreshStarts \/ (refreshDone /\ ~LineEnds)

AdvanceMaster ==
  /\ left > 0 \/ refreshLeft > 0
  /\ RawMaster
  /\ refreshAt' = NextRefreshAt
  /\ refreshDone' = NextRefreshDone
  /\ refreshLeft' = IF RefreshStarts THEN RefreshClocks
                    ELSE IF refreshLeft > 0 THEN refreshLeft - 1 ELSE 0
  /\ left' = IF refreshLeft > 0 THEN left ELSE left - 1
  /\ UNCHANGED <<io, nmiPending>>

AdvanceDone == left = 0 /\ refreshLeft = 0
=============================================================================

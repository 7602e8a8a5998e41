------------------------------ MODULE Machine ------------------------------
(***************************************************************************)
(* The S-CPU side of the production runtime (civilization_runtime.c,       *)
(* _cpu_timing.c, _cpu_support.c and the $42xx registers of _bus.c)        *)
(* driving the scheduler and the DMA arbiter.  The generated program is    *)
(* abstracted to what the machine layer sees of it: instructions made of   *)
(* CPU cycles of any legal speed, register accesses, CLI/SEI/XCE/RTI.      *)
(* Interrupts are accepted between instructions only.  A failed machine    *)
(* finishes the access it was in and stops until civ_reset.                *)
(***************************************************************************)
EXTENDS Arbiter

CONSTANTS
  ProgramOps,      \* what the guest program of this instance does
  NmitimenValues,  \* the values it writes to $4200
  RegisterSpeed,   \* 6: the bus speed of $2100-$3FFF and $4200-$5FFF
  FetchCycles,     \* 2: the cycles every instruction has before any store
  EntryCycles      \* 8: CPU cycles of an interrupt entry

ASSUME MachineAssumption ==
  /\ NmitimenValues \subseteq
       [nmi : BOOLEAN, hirq : BOOLEAN, virq : BOOLEAN, joy : BOOLEAN]
  /\ RegisterSpeed \in Speeds
  /\ FetchCycles \in Nat \ {0} /\ EntryCycles \in Nat \ {0}

VARIABLES
  stage,      \* what the CPU is in: one of Stages
  cycles,     \* cycles of a fetch or an interrupt entry still to run
  cpu,        \* cpu.e, P.I, and the I bit saved by the live interrupt frame
  nmiDepth, irqDepth,
  \* History, read by no action:
  owed,       \* an NMI edge was raised and no NMI entry has answered it
  deferred,   \* CPU cycles in a row that held a mature NMI edge back
  mdmaWait,   \* CPU cycles an armed manual DMA has waited
  stray       \* in this frame HDMAEN was changed in its visible part, or what is visible

cpuVars == <<stage, cycles, cpu, nmiDepth, irqDepth>>
history == <<owed, deferred, mdmaWait, stray>>
vars == <<beam, left, io, nmiVars, irqVars, requests, failed, dmaVars, pc,
          speed, cpuVars, history>>

\* fetch: the cycles any instruction begins with; operand: it may be over, but a
\* store to a register still has a third byte to fetch; body: it may access the
\* registers; stored: so too, but it has had its one store to $420B; retired:
\* between the instruction and the interrupt test; nmi, irq: interrupt entry.
Stages == {"fetch", "operand", "body", "stored", "retired", "nmi", "irq"}

CoreTypeOK ==
  /\ SchedulerTypeOK
  /\ ArbiterTypeOK
  /\ stage \in Stages /\ cycles \in Nat
  /\ cpu \in [e : BOOLEAN, i : BOOLEAN, saved : BOOLEAN]
  /\ nmiDepth \in 0 .. 1 /\ irqDepth \in 0 .. 1
  /\ owed \in BOOLEAN /\ deferred \in Nat /\ mdmaWait \in Nat

TypeOK == CoreTypeOK /\ stray \in BOOLEAN

ResetCpu == [e |-> TRUE, i |-> TRUE, saved |-> TRUE]

Init ==
  /\ SchedulerInit
  /\ ArbiterInit
  /\ stage = "fetch" /\ cycles = FetchCycles
  /\ cpu = ResetCpu
  /\ nmiDepth = 0 /\ irqDepth = 0
  /\ owed = FALSE /\ deferred = 0 /\ mdmaWait = 0 /\ stray = FALSE

-----------------------------------------------------------------------------
\* One master clock of whatever advance is under way.
Tick ==
  /\ AdvanceMaster
  /\ owed' = (owed \/ NmiEdge)
  /\ UNCHANGED <<dmaVars, pc, speed, cpuVars, deferred, mdmaWait>>

\* The edge detector ran in this step, and held a mature edge back.
CountDeferral ==
  deferred' = IF pc' = "access" /\ nmiCounter = 1 /\ nmiCounter' = 1
              THEN deferred + 1
              ELSE IF pc' = "access" THEN 0 ELSE deferred

\* A CPU cycle begins: code fetch, data access, internal cycle, push or vector
\* read.  Its speed is the bus speed of the address, whatever that is.
CpuCycle ==
  /\ stage # "retired"
  /\ \E s \in Speeds : ProcessCpuCycle(s)
  /\ CountDeferral
  /\ mdmaWait' = IF mdma' THEN mdmaWait + 1 ELSE 0
  /\ UNCHANGED <<beam, io, nmiFlag, irqVars, cpuVars, owed>>

\* The arbiter's own steps, inside the CPU cycle that let a transfer run.
Transfer ==
  /\ IF failed # NoFailure THEN TransferFailed
     ELSE \/ (CheckNestedHdma \/ NestedDone) /\ UNCHANGED <<nmiCounter, nmiPending>>
          \/ TransferDone
  /\ CountDeferral
  /\ UNCHANGED <<beam, io, nmiFlag, irqVars, cpuVars, owed, mdmaWait>>

-----------------------------------------------------------------------------
\* The access of the cycle takes effect once its clocks are paid.
AccessDone(failure) ==
  /\ pc = "access" /\ AdvanceDone
  /\ failed' = failure
  /\ pc' = IF failure = NoFailure THEN "idle" ELSE "halted"
  /\ speed' = 0
  /\ UNCHANGED <<beam, left, hdma2, slots, dmaClock, deferred>>

\* A cycle that touches no register of this layer.
PlainAccess ==
  /\ stage \in {"operand", "body", "stored"} /\ AccessDone(failed)
  /\ stage' = IF stage = "operand" THEN "body" ELSE stage
  /\ UNCHANGED <<io, nmiVars, irqVars, requests, mdma, size, cycles, cpu,
                 nmiDepth, irqDepth, owed, mdmaWait>>

\* Opcode, operand and idle cycles every instruction begins with.
Fetch ==
  /\ stage = "fetch" /\ AccessDone(failed)
  /\ cycles' = cycles - 1
  /\ stage' = IF cycles = 1 THEN "operand" ELSE "fetch"
  /\ UNCHANGED <<io, nmiVars, irqVars, requests, mdma, size, cpu,
                 nmiDepth, irqDepth, owed, mdmaWait>>

\* A program access to one of this layer's registers.
Access(op, failure) ==
  /\ op \in ProgramOps
  /\ stage \in {"body", "stored"} /\ speed = RegisterSpeed
  /\ AccessDone(failure)
  /\ UNCHANGED <<cycles, cpu, nmiDepth, irqDepth>>

\* Mutant: disabling both timers leaves the line standing.
TimersKept(enabled) == UNCHANGED irqVars
TimersOff(enabled) ==
  IF enabled THEN UNCHANGED irqVars
  ELSE irqLine' = FALSE /\ irqTransition' = FALSE /\ irqHold' = 0

\* $4200.  Enabling NMI while RDNMI is high raises a two-sample delayed edge.
WriteNmitimen ==
  /\ Access("nmitimen", failed)
  /\ \E v \in NmitimenValues :
       LET edge == nmiFlag /\ v.nmi /\ ~io.nmi
       IN  /\ io' = [io EXCEPT !.nmi = v.nmi, !.hirq = v.hirq,
                               !.virq = v.virq, !.joy = v.joy]
           /\ nmiCounter' = IF edge THEN 2 ELSE nmiCounter
           /\ owed' = (owed \/ edge)
           /\ TimersOff(v.hirq \/ v.virq)
  /\ UNCHANGED <<stage, nmiFlag, nmiPending, requests, mdma, size, mdmaWait>>

\* $4207-$420A
WriteTimer ==
  /\ Access("timer", failed)
  /\ \E h \in HTimes, v \in VTimes : io' = [io EXCEPT !.htime = h, !.vtime = v]
  /\ UNCHANGED <<stage, nmiVars, irqVars, requests, mdma, size, owed, mdmaWait>>

\* $4210.  On the NMI line the CPU forces RDNMI high until EdgeH.
\* Mutant: every read clears the flag.
RdnmiForcedNever == FALSE
RdnmiForced == vcounter = NmiLine /\ hcounter < EdgeH

ReadRdnmi ==
  /\ Access("rdnmi", failed)
  /\ nmiFlag' = (nmiFlag /\ RdnmiForced)
  /\ UNCHANGED <<stage, io, nmiCounter, nmiPending, irqVars, requests,
                 mdma, size, owed, mdmaWait>>

\* $4211.  A line younger than HoldClocks survives the read.
ReadTimeup ==
  /\ Access("timeup", failed)
  /\ IF irqHold = 0 THEN irqLine' = FALSE /\ irqTransition' = FALSE
     ELSE UNCHANGED <<irqLine, irqTransition>>
  /\ UNCHANGED <<stage, irqHold, io, nmiVars, requests, mdma, size, owed, mdmaWait>>

\* $420B.  An instruction stores to it once: a wider store reaches $420C next.
WriteMdmaen ==
  /\ Access("mdmaen", IF mdma /\ failed = NoFailure THEN "doubleMdma" ELSE failed)
  /\ stage = "body" /\ stage' = "stored"
  /\ IF mdma THEN UNCHANGED <<mdma, size, startDelay>>
     ELSE mdma' = TRUE /\ size' \in DmaSizes /\ startDelay' = TRUE
  /\ mdmaWait' = 0
  /\ UNCHANGED <<io, nmiVars, irqVars, initPending, transferPending, owed>>

\* $420C
WriteHdmaen ==
  /\ Access("hdmaen", failed)
  /\ \E v \in BOOLEAN : io' = [io EXCEPT !.hdma = v]
  /\ UNCHANGED <<stage, nmiVars, irqVars, requests, mdma, size, owed, mdmaWait>>

\* The vertical size bit of $2133.
WriteSetini ==
  /\ Access("setini", failed)
  /\ \E v \in BOOLEAN : io' = [io EXCEPT !.overscan = v]
  /\ UNCHANGED <<stage, nmiVars, irqVars, requests, mdma, size, owed, mdmaWait>>

-----------------------------------------------------------------------------
\* civ_generated_core_step returns; its last act may be CLI, SEI, XCE or RTI.
Between == <<beam, left, io, nmiVars, irqVars, requests, dmaVars, speed,
             deferred, mdmaWait>>

\* Mutant: an instruction may be over before its first cycle.
ExecutedAtOnce ==
  pc = "idle" /\ stage \in {"fetch", "operand", "body", "stored"} /\ failed = NoFailure
Executed == pc = "idle" /\ stage \in {"operand", "body", "stored"} /\ failed = NoFailure

RetireWith(c) ==
  /\ Executed /\ stage' = "retired" /\ cpu' = c
  /\ UNCHANGED <<Between, pc, failed, cycles, nmiDepth, irqDepth, owed>>

Retire ==
  \/ RetireWith(cpu)
  \/ "mask" \in ProgramOps /\ \E i \in BOOLEAN : RetireWith([cpu EXCEPT !.i = i])
  \/ "native" \in ProgramOps /\ RetireWith([cpu EXCEPT !.e = FALSE])

\* civ_rti_native
Rti ==
  /\ "rti" \in ProgramOps /\ Executed
  /\ IF cpu.e \/ nmiDepth + irqDepth # 1
       THEN /\ failed' = IF cpu.e THEN "emulation" ELSE "rti"
            /\ pc' = "halted"
            /\ UNCHANGED <<stage, cpu, nmiDepth, irqDepth>>
       ELSE /\ stage' = "retired"
            /\ cpu' = [cpu EXCEPT !.i = cpu.saved]
            /\ nmiDepth' = IF irqDepth # 0 THEN nmiDepth ELSE nmiDepth - 1
            /\ irqDepth' = IF irqDepth # 0 THEN irqDepth - 1 ELSE irqDepth
            /\ UNCHANGED <<pc, failed>>
  /\ UNCHANGED <<Between, cycles, owed>>

\* civ_accept_sampled_interrupt: NMI first, and no interrupt inside another.
NoFrame    == nmiDepth = 0 /\ irqDepth = 0
\* Mutants: each test forgets the frame of the other kind.
NmiSampledOverIrq == nmiPending /\ io.nmi /\ nmiDepth = 0
IrqSampledOverNmi == irqLine /\ ~cpu.i /\ irqDepth = 0
NmiSampled == nmiPending /\ io.nmi /\ NoFrame
IrqSampled == irqLine /\ ~cpu.i /\ NoFrame

Accept(kind) ==
  /\ IF cpu.e THEN failed' = "emulation" /\ pc' = "halted" /\ UNCHANGED <<stage, cycles>>
     ELSE stage' = kind /\ cycles' = EntryCycles /\ UNCHANGED <<failed, pc>>
  /\ UNCHANGED <<Between, cpu, nmiDepth, irqDepth, owed>>

AcceptNmi == stage = "retired" /\ pc = "idle" /\ NmiSampled /\ Accept("nmi")
AcceptIrq == /\ stage = "retired" /\ pc = "idle" /\ ~NmiSampled /\ IrqSampled
             /\ Accept("irq")

NextInstruction ==
  /\ stage = "retired" /\ pc = "idle" /\ ~NmiSampled /\ ~IrqSampled
  /\ stage' = "fetch" /\ cycles' = FetchCycles
  /\ UNCHANGED <<Between, pc, failed, cpu, nmiDepth, irqDepth, owed>>

\* civ_nmi_enter_native and civ_irq_enter_native: the wasted cycles, the pushes
\* and the vector read run like any other cycle, then the frame is live.
EntryCycle ==
  /\ stage \in {"nmi", "irq"} /\ cycles > 1 /\ AccessDone(failed)
  /\ cycles' = cycles - 1
  /\ UNCHANGED <<io, nmiVars, irqVars, requests, mdma, size, stage, cpu,
                 nmiDepth, irqDepth, owed, mdmaWait>>

EnterHandler ==
  /\ cycles = 1 /\ AccessDone(failed)
  /\ stage' = "fetch" /\ cycles' = FetchCycles
  /\ cpu' = [cpu EXCEPT !.i = TRUE, !.saved = cpu.i]
  /\ UNCHANGED <<io, nmiFlag, nmiCounter, irqLine, irqHold, requests,
                 mdma, size, mdmaWait>>

EnterNmi ==
  /\ stage = "nmi" /\ EnterHandler
  /\ nmiPending' = FALSE /\ nmiDepth' = 1
  /\ owed' = (nmiCounter > 0)
  /\ UNCHANGED <<irqTransition, irqDepth>>

EnterIrq ==
  /\ stage = "irq" /\ EnterHandler
  /\ irqTransition' = FALSE /\ irqDepth' = 1
  /\ UNCHANGED <<nmiPending, nmiDepth, owed>>

\* civ_reset, which the host calls between instructions, or on a dead machine.
Reset ==
  /\ pc = "halted" \/ (pc = "idle" /\ stage = "fetch" /\ cycles = FetchCycles)
  /\ SchedulerReset
  /\ ArbiterReset
  /\ stage' = "fetch" /\ cycles' = FetchCycles
  /\ cpu' = ResetCpu
  /\ nmiDepth' = 0 /\ irqDepth' = 0
  /\ owed' = FALSE /\ deferred' = 0 /\ mdmaWait' = 0

\* A machine that failed keeps the memory of it; the others forget it in vertical blank,
\* once no line's transfer is left, and at the latest when a frame begins.
Strayed ==
  /\ failed' = NoFailure =>
       /\ vcounter' < NmiLine' \/ transferPending'
       /\ <<vcounter', hcounter'>> # <<0, 0>>
  /\ \/ stray
     \/ io'.hdma # io.hdma /\ vcounter < NmiLine
     \/ io'.overscan # io.overscan

Next ==
  /\ \/ Tick \/ CpuCycle \/ Transfer
     \/ Fetch \/ PlainAccess
     \/ WriteNmitimen \/ WriteTimer \/ ReadRdnmi \/ ReadTimeup
     \/ WriteMdmaen \/ WriteHdmaen \/ WriteSetini
     \/ Retire \/ Rti
     \/ AcceptNmi \/ AcceptIrq \/ NextInstruction
     \/ EntryCycle \/ EnterNmi \/ EnterIrq
     \/ Reset
  /\ stray' = Strayed

Spec == Init /\ [][Next]_vars
=============================================================================

--------------------------- MODULE Machine_proofs ---------------------------
(***************************************************************************)
(* Proofs about the machine for every value of the constants: its type     *)
(* invariant, the NMI edge accounting, the timer IRQ line, the interrupt   *)
(* frames, the shared start delay and the DRAM refresh, and that it        *)
(* implements InterruptFrames.                                             *)
(***************************************************************************)
EXTENDS MachineProperties, TLAPS

-----------------------------------------------------------------------------
\* What the clock arithmetic needs from %.
LEMMA ModRange ==
  ASSUME NEW a \in Nat, NEW b \in Nat \ {0}
  PROVE  a % b \in 0 .. b - 1
OBVIOUS

\* A resynchronisation always costs between one clock and a whole CPU cycle.
LEMMA SyncEndType ==
  ASSUME NEW s \in Nat \ {0}, NEW clk \in Nat
  PROVE  SyncEnd(s, clk) \in 1 .. s
BY ModRange DEF SyncEnd

\* An HDMA block lasts a natural number of clocks.
LEMMA HdmaClocksType ==
  ASSUME ArbiterTypeOK, Unit \in Nat
  PROVE  /\ \A fin \in BOOLEAN : InitClocks(fin) \in Nat
         /\ \A reload \in 0 .. 2 : ScanClocks(reload) \in Nat
<1>1. ASSUME NEW n \in Nat PROVE Unit * n \in Nat
  OBVIOUS
<1>2. \A fin \in BOOLEAN : InitClocks(fin) \in Nat
  BY <1>1 DEF InitClocks
<1>3. ASSUME NEW reload \in 0 .. 2 PROVE ScanClocks(reload) \in Nat
  <2>1. hdma2.doTransfer \in BOOLEAN
    BY DEF ArbiterTypeOK
  <2>2. (2 + reload + IF hdma2.doTransfer THEN 2 ELSE 0) \in Nat
    BY <2>1
  <2> QED BY <1>1, <2>2 DEF ScanClocks
<1> QED BY <1>2, <1>3

\* Where one raw clock takes the beam.
LEMMA BeamType ==
  ASSUME SchedulerTypeOK
  PROVE  /\ Period \in Nat /\ Period >= ShortPeriod /\ Period <= LinePeriod
         /\ NextH \in 0 .. LinePeriod - 1
         /\ NextV \in 0 .. Lines - 1
         /\ NextPhase \in 0 .. Unit - 1
         /\ NextInitAt \in Nat
         /\ NextRefreshAt \in Nat
<1> USE SchedulerAssumption DEF SchedulerTypeOK
<1>1. Period \in Nat /\ Period >= ShortPeriod /\ Period <= LinePeriod
  BY DEF Period
<1>2. NextH \in 0 .. LinePeriod - 1
  BY <1>1 DEF NextH, LineEnds
<1>3. NextV \in 0 .. Lines - 1
  BY <1>1 DEF NextV, FrameEnds, LineEnds
<1>4. NextPhase \in 0 .. Unit - 1
  <2>1. phase + 1 \in Nat /\ Unit \in Nat \ {0}
    OBVIOUS
  <2> QED BY <2>1, ModRange DEF NextPhase
<1>5. NextInitAt \in Nat
  BY <1>4 DEF NextInitAt
<1>6. NextRefreshAt \in Nat
  BY <1>4 DEF NextRefreshAt
<1> QED BY <1>1, <1>2, <1>3, <1>4, <1>5, <1>6

-----------------------------------------------------------------------------
\* What CoreTypeOK needs beside itself to be inductive: an instruction fetch has a
\* cycle left, and a CPU cycle under way has a speed.
Shape ==
  /\ stage = "fetch" => cycles > 0
  /\ pc \notin {"idle", "halted"} => speed \in Speeds

\* The initial state, and the state civ_reset leaves.
LEMMA InitTypes == Init => CoreTypeOK /\ Shape
<1> SUFFICES ASSUME Init PROVE CoreTypeOK /\ Shape
  OBVIOUS
<1>1. ResetIo \in IoType
  BY SchedulerAssumption DEF ResetIo, IoType
<1>2. SchedulerTypeOK
  <2>1. /\ LinePeriod \in Nat \ {0} /\ Lines \in Nat \ {0} /\ Unit \in Nat \ {0}
        /\ HoldClocks \in Nat /\ RefreshH \in Nat
    BY SchedulerAssumption
  <2>2. /\ refreshDone \in BOOLEAN /\ nmiFlag \in BOOLEAN /\ nmiPending \in BOOLEAN
        /\ irqLine \in BOOLEAN /\ irqTransition \in BOOLEAN /\ startDelay \in BOOLEAN
        /\ initPending \in BOOLEAN /\ transferPending \in BOOLEAN
    BY Zenon DEF Init, SchedulerInit
  <2>3. /\ hcounter = 0 /\ vcounter = 0 /\ field = 0 /\ phase = 0
        /\ refreshAt = RefreshH /\ refreshLeft = 0 /\ left = 0 /\ initAt = 0
        /\ io = ResetIo /\ nmiCounter = 0 /\ irqHold = 0 /\ polls = 0
        /\ failed \in Reasons
    BY DEF Init, SchedulerInit, Reasons, NoFailure
  <2> QED
    BY <1>1, <2>1, <2>2, <2>3 DEF SchedulerTypeOK
<1>3. ArbiterTypeOK
  <2>1. mdma \in BOOLEAN
    BY Zenon DEF Init, ArbiterInit
  <2>2. hdma2 \in [initialized : BOOLEAN, finished : BOOLEAN, doTransfer : BOOLEAN]
    BY DEF Init, ArbiterInit, HdmaCold
  <2>3. size = 0 /\ slots = 0 /\ pc = "idle" /\ speed = 0 /\ dmaClock = 0
    BY DEF Init, ArbiterInit
  <2>4. 0 \in 0 .. ClockMod - 1
    BY ArbiterAssumption
  <2> QED
    BY <2>1, <2>2, <2>3, <2>4 DEF ArbiterTypeOK
<1>4. /\ stage \in Stages /\ cycles \in Nat /\ cycles > 0
      /\ nmiDepth \in 0 .. 1 /\ irqDepth \in 0 .. 1
      /\ deferred \in Nat /\ mdmaWait \in Nat /\ owed \in BOOLEAN
  <2>1. owed \in BOOLEAN
    BY Zenon DEF Init
  <2> QED BY <2>1, MachineAssumption DEF Init, Stages
<1>5. cpu \in [e : BOOLEAN, i : BOOLEAN, saved : BOOLEAN] /\ pc = "idle"
  BY DEF Init, ResetCpu, ArbiterInit
<1> QED
  BY <1>2, <1>3, <1>4, <1>5 DEF CoreTypeOK, Shape

\* A raw clock keeps the scheduler in its types.
LEMMA TickTypes == CoreTypeOK /\ Shape /\ Tick => CoreTypeOK' /\ Shape'
<1> SUFFICES ASSUME CoreTypeOK, Shape, Tick PROVE CoreTypeOK' /\ Shape'
  OBVIOUS
<1> USE SchedulerAssumption DEF CoreTypeOK
<1>1. /\ Period \in Nat
      /\ NextH \in 0 .. LinePeriod - 1 /\ NextV \in 0 .. Lines - 1
      /\ NextPhase \in 0 .. Unit - 1 /\ NextInitAt \in Nat /\ NextRefreshAt \in Nat
  BY BeamType
<1>2. /\ hcounter' \in 0 .. LinePeriod - 1 /\ vcounter' \in 0 .. Lines - 1
      /\ field' \in 0 .. 1 /\ phase' \in 0 .. Unit - 1
      /\ initAt' \in Nat
  BY <1>1 DEF Tick, AdvanceMaster, RawMaster, MoveBeam, SchedulerTypeOK
<1>3. refreshDone' \in BOOLEAN /\ refreshAt' \in Nat /\ refreshLeft' \in Nat /\ left' \in Nat
  <2>1. refreshDone' \in BOOLEAN
    BY ZenonT(20) DEF Tick, AdvanceMaster, NextRefreshDone
  <2>2. refreshAt' \in Nat /\ refreshLeft' \in Nat /\ left' \in Nat
    BY <1>1 DEF Tick, AdvanceMaster, SchedulerTypeOK
  <2> QED BY <2>1, <2>2
<1>4. irqLine' \in BOOLEAN /\ irqTransition' \in BOOLEAN /\ irqHold' \in 0 .. HoldClocks
  <2>1. irqLine' \in BOOLEAN /\ irqTransition' \in BOOLEAN
    BY ZenonT(20) DEF Tick, AdvanceMaster, RawMaster, LatchTimerIrq, SchedulerTypeOK
  <2>2. irqHold' \in 0 .. HoldClocks
    BY DEF Tick, AdvanceMaster, RawMaster, LatchTimerIrq, SchedulerTypeOK
  <2> QED BY <2>1, <2>2
<1>5. nmiFlag' \in BOOLEAN /\ nmiCounter' \in 0 .. 2 /\ polls' \in 0 .. 2
  <2>1. nmiFlag' \in BOOLEAN
    BY ZenonT(20) DEF Tick, AdvanceMaster, RawMaster, LatchNmi, SchedulerTypeOK
  <2>2. nmiCounter' \in 0 .. 2 /\ polls' \in 0 .. 2
    BY DEF Tick, AdvanceMaster, RawMaster, LatchNmi, SchedulerTypeOK
  <2> QED BY <2>1, <2>2
<1>6. /\ startDelay' \in BOOLEAN /\ initPending' \in BOOLEAN /\ transferPending' \in BOOLEAN
      /\ failed' \in Reasons
  BY DEF Tick, AdvanceMaster, RawMaster, ScheduleHdma, SchedulerTypeOK, Reasons, NoFailure
<1>7. io' = io /\ nmiPending' = nmiPending
  BY DEF Tick, AdvanceMaster
<1>8. SchedulerTypeOK'
  BY <1>2, <1>3, <1>4, <1>5, <1>6, <1>7 DEF SchedulerTypeOK
<1>9. ArbiterTypeOK'
  BY DEF Tick, dmaVars, ArbiterTypeOK
<1> QED
  BY <1>8, <1>9 DEF Tick, dmaVars, cpuVars, Shape

-----------------------------------------------------------------------------
\* The variables the arbiter's steps write, and their types afterwards.
DmaTypesNext ==
  /\ left' \in Nat
  /\ nmiCounter' \in 0 .. 2 /\ nmiPending' \in BOOLEAN
  /\ startDelay' \in BOOLEAN /\ initPending' \in BOOLEAN /\ transferPending' \in BOOLEAN
  /\ failed' \in Reasons
  /\ ArbiterTypeOK'
  /\ pc' \notin {"idle", "halted"} /\ speed' \in Speeds

\* The edge detector stays within its two samples.
LEMMA SampleTypes ==
  ASSUME nmiCounter \in 0 .. 2, nmiPending \in BOOLEAN,
         NEW lock \in BOOLEAN, SampleInterrupts(lock)
  PROVE  nmiCounter' \in 0 .. 2 /\ nmiPending' \in BOOLEAN
<1>1. nmiCounter' \in 0 .. 2
  BY DEF SampleInterrupts
<1>2. nmiPending' \in BOOLEAN
  BY Zenon DEF SampleInterrupts
<1> QED BY <1>1, <1>2

\* What a table row makes of channel 2 is a channel state.
LEMMA OutcomeTypes ==
  ASSUME ArbiterTypeOK
  PROVE  /\ \A reload \in 0 .. 2 : ScanOutcomes(reload) \subseteq
              [initialized : BOOLEAN, finished : BOOLEAN, doTransfer : BOOLEAN]
         /\ \A fin \in BOOLEAN : InitOutcome(fin) \in
              [initialized : BOOLEAN, finished : BOOLEAN, doTransfer : BOOLEAN]
         /\ HdmaCold \in [initialized : BOOLEAN, finished : BOOLEAN, doTransfer : BOOLEAN]
BY DEF ArbiterTypeOK, ScanOutcomes, InitOutcome, HdmaCold

\* The start of a CPU cycle, whichever request the arbiter serves.
LEMMA ProcessTypes ==
  ASSUME CoreTypeOK, NEW s \in Speeds, ProcessCpuCycle(s)
  PROVE  DmaTypesNext
<1> USE DEF DmaTypesNext, CoreTypeOK
<1>1. s \in Nat \ {0} /\ s \in Speeds /\ speed' = s /\ Unit \in Nat \ {0}
      /\ phase \in 0 .. Unit - 1 /\ ClockMod \in Nat \ {0}
  BY ArbiterAssumption, SchedulerAssumption DEF ProcessCpuCycle, SchedulerTypeOK
<1>2. SyncStart \in Nat
  BY <1>1 DEF SyncStart
<1>3. ASSUME NEW lock \in BOOLEAN, StartAccess(s, lock)
      PROVE  /\ nmiCounter' \in 0 .. 2 /\ nmiPending' \in BOOLEAN
             /\ left' \in Nat /\ pc' = "access"
  BY <1>1, <1>3, SampleTypes DEF StartAccess, SchedulerTypeOK
<1>4. CASE NothingDue(s)
  BY <1>1, <1>3, <1>4 DEF NothingDue, dmaVars, requests, SchedulerTypeOK, ArbiterTypeOK
<1>5. CASE ClearStartDelay(s)
  BY <1>1, <1>3, <1>5 DEF ClearStartDelay, dmaVars, requests, SchedulerTypeOK, ArbiterTypeOK
<1>6. CASE RunTransfer(s)
  <2>1. /\ mdma' \in BOOLEAN /\ size' \in Nat /\ slots' \in 0 .. 1
        /\ dmaClock' \in 0 .. ClockMod - 1
        /\ startDelay' \in BOOLEAN /\ initPending' \in BOOLEAN /\ transferPending' \in BOOLEAN
    BY <1>6 DEF RunTransfer, SchedulerTypeOK, ArbiterTypeOK
  <2>2. CASE ~io.hdma
    BY <1>1, <1>3, <1>6, <2>1, <2>2 DEF RunTransfer, SchedulerTypeOK, ArbiterTypeOK
  <2>3. CASE io.hdma /\ ~hdma2.initialized
    BY <1>1, <1>6, <2>1, <2>3 DEF RunTransfer, Abort, SchedulerTypeOK, ArbiterTypeOK, Reasons
  <2>4. CASE io.hdma /\ hdma2.initialized /\ hdma2.finished
    BY <1>1, <1>3, <1>6, <2>1, <2>4 DEF RunTransfer, SchedulerTypeOK, ArbiterTypeOK
  <2>5. CASE io.hdma /\ hdma2.initialized /\ ~hdma2.finished
    <3>1. PICK reload \in 0 .. 2 :
            /\ hdma2' \in ScanOutcomes(reload)
            /\ left' = (SyncStart + ScanClocks(reload)) + SyncEnd(s, SyncStart + ScanClocks(reload))
            /\ pc' = "hdma" /\ UNCHANGED <<nmiCounter, nmiPending, failed>>
      BY <1>6, <2>5 DEF RunTransfer
    <3>2. SyncStart + ScanClocks(reload) \in Nat
      BY <1>1, <1>2, HdmaClocksType
    <3>3. left' \in Nat
      <4>1. SyncEnd(s, SyncStart + ScanClocks(reload)) \in Nat
        BY <1>1, <3>2, SyncEndType
      <4> QED BY <3>1, <3>2, <4>1
    <3>4. hdma2' \in [initialized : BOOLEAN, finished : BOOLEAN, doTransfer : BOOLEAN]
      BY <3>1, OutcomeTypes
    <3>5. nmiCounter' \in 0 .. 2 /\ nmiPending' \in BOOLEAN /\ failed' \in Reasons
      BY <2>1, <3>1 DEF SchedulerTypeOK
    <3> QED
      BY <1>1, <2>1, <3>1, <3>3, <3>4, <3>5 DEF ArbiterTypeOK
  <2> QED BY <2>2, <2>3, <2>4, <2>5
<1>7. CASE RunInit(s)
  <2>1. /\ mdma' \in BOOLEAN /\ size' \in Nat /\ slots' \in 0 .. 1
        /\ dmaClock' \in 0 .. ClockMod - 1 /\ failed' \in Reasons
        /\ startDelay' \in BOOLEAN /\ initPending' \in BOOLEAN /\ transferPending' \in BOOLEAN
    BY <1>7 DEF RunInit, InitServed, SchedulerTypeOK, ArbiterTypeOK
  <2>2. CASE ~io.hdma
    BY <1>1, <1>3, <1>7, <2>1, <2>2, OutcomeTypes DEF RunInit, ArbiterTypeOK
  <2>3. CASE io.hdma
    <3>1. PICK fin \in BOOLEAN :
            /\ hdma2' = InitOutcome(fin)
            /\ left' = (SyncStart + InitClocks(fin)) + SyncEnd(s, SyncStart + InitClocks(fin))
            /\ pc' = "hdma" /\ UNCHANGED <<nmiCounter, nmiPending>>
      BY <1>7, <2>3 DEF RunInit
    <3>2. SyncStart + InitClocks(fin) \in Nat
      BY <1>1, <1>2, HdmaClocksType
    <3>3. left' \in Nat
      <4>1. SyncEnd(s, SyncStart + InitClocks(fin)) \in Nat
        BY <1>1, <3>2, SyncEndType
      <4> QED BY <3>1, <3>2, <4>1
    <3>4. hdma2' \in [initialized : BOOLEAN, finished : BOOLEAN, doTransfer : BOOLEAN]
      BY <3>1, OutcomeTypes
    <3>5. nmiCounter' \in 0 .. 2 /\ nmiPending' \in BOOLEAN /\ failed' \in Reasons
      BY <2>1, <3>1 DEF SchedulerTypeOK
    <3> QED
      BY <1>1, <2>1, <3>1, <3>3, <3>4, <3>5 DEF ArbiterTypeOK
  <2> QED BY <2>2, <2>3
<1>8. CASE StartManualDma(s)
  <2>1. dmaClock' \in 0 .. ClockMod - 1
    <3>1. SyncStart + Unit \in Nat
      BY <1>1, <1>2
    <3> QED BY <1>1, <1>8, <3>1, ModRange DEF StartManualDma
  <2>2. mdma' \in BOOLEAN
    BY <1>8, Zenon DEF StartManualDma
  <2>3. left' \in Nat /\ slots' = 1 /\ pc' = "mdma"
    BY <1>1, <1>2, <1>8 DEF StartManualDma
  <2>4. UNCHANGED <<size, hdma2, requests, failed, nmiCounter, nmiPending>>
    BY <1>8 DEF StartManualDma
  <2> QED
    BY <1>1, <2>1, <2>2, <2>3, <2>4 DEF requests, SchedulerTypeOK, ArbiterTypeOK
<1> QED
  BY <1>4, <1>5, <1>6, <1>7, <1>8 DEF ProcessCpuCycle

\* The arbiter's steps inside a manual DMA or at the end of a transfer.
LEMMA NextByteTypes ==
  ASSUME CoreTypeOK, Shape, pc \in {"mdma", "nested"}, NEW clk \in 0 .. ClockMod - 1, NextByte(clk)
  PROVE  /\ left' \in Nat /\ size' \in Nat /\ slots' \in 0 .. 1
         /\ dmaClock' \in 0 .. ClockMod - 1 /\ pc' \in {"mdma", "mdmaEnd"}
<1>1. /\ Unit \in Nat \ {0} /\ ClockMod \in Nat \ {0} /\ speed \in Nat \ {0}
      /\ size \in Nat /\ slots \in 0 .. 1
  BY ArbiterAssumption, SchedulerAssumption DEF CoreTypeOK, Shape, ArbiterTypeOK
<1>2. CASE slots + size > 0
  <2>1. (clk + Unit) % ClockMod \in 0 .. ClockMod - 1
    BY <1>1, ModRange
  <2> QED BY <1>1, <1>2, <2>1 DEF NextByte
<1>3. CASE ~(slots + size > 0)
  <2>1. SyncEnd(speed, clk) \in Nat
    BY <1>1, SyncEndType
  <2> QED BY <1>1, <1>3, <2>1 DEF NextByte
<1> QED BY <1>2, <1>3

\* Entering nested HDMA time keeps the manual transfer's counters in range.
LEMMA NestTypes ==
  ASSUME CoreTypeOK, NEW clocks \in Nat, Nest(clocks)
  PROVE  /\ left' \in Nat /\ size' \in Nat /\ slots' \in 0 .. 1
         /\ dmaClock' \in 0 .. ClockMod - 1 /\ pc' = "nested"
<1>1. ClockMod \in Nat \ {0} /\ dmaClock \in Nat /\ size \in Nat /\ slots \in 0 .. 1
  BY ArbiterAssumption DEF CoreTypeOK, ArbiterTypeOK
<1>2. (dmaClock + clocks) % ClockMod \in 0 .. ClockMod - 1
  BY <1>1, ModRange
<1> QED BY <1>1, <1>2 DEF Nest

\* The steps of a transfer: arbitration inside a manual DMA, the return from a
\* nested block, and the end of the transfer.
LEMMA TransferTypes ==
  ASSUME CoreTypeOK, Shape, Transfer
  PROVE  DmaTypesNext
<1> USE DEF DmaTypesNext
<1> DEFINE HdmaType == [initialized : BOOLEAN, finished : BOOLEAN, doTransfer : BOOLEAN]
<1>1. /\ left \in Nat /\ nmiCounter \in 0 .. 2 /\ nmiPending \in BOOLEAN
      /\ startDelay \in BOOLEAN /\ initPending \in BOOLEAN /\ transferPending \in BOOLEAN
      /\ failed \in Reasons /\ mdma \in BOOLEAN /\ size \in Nat /\ slots \in 0 .. 1
      /\ hdma2 \in HdmaType /\ dmaClock \in 0 .. ClockMod - 1
  BY DEF CoreTypeOK, SchedulerTypeOK, ArbiterTypeOK
<1>2. CASE TransferFailed
  <2>1. pc # "idle" /\ pc # "halted" /\ speed \in Speeds
    BY <1>2 DEF TransferFailed, Shape
  <2> QED
    BY <1>1, <1>2, <2>1 DEF TransferFailed, Abort, dmaVars, requests, ArbiterTypeOK
<1>3. CASE TransferDone
  <2>1. speed \in Speeds /\ speed \in Nat /\ ClockMod \in Nat \ {0}
    BY <1>3, ArbiterAssumption DEF TransferDone, Shape
  <2>2. nmiCounter' \in 0 .. 2 /\ nmiPending' \in BOOLEAN /\ left' \in Nat /\ pc' = "access"
    BY <1>1, <1>3, <2>1, SampleTypes DEF TransferDone, StartAccess
  <2> QED
    BY <1>1, <1>3, <2>1, <2>2 DEF TransferDone, requests, ArbiterTypeOK
<1>4. CASE NestedDone /\ UNCHANGED <<nmiCounter, nmiPending>>
  <2>1. speed \in Speeds
    BY <1>4 DEF NestedDone, Shape
  <2>2. /\ left' \in Nat /\ size' \in Nat /\ slots' \in 0 .. 1
        /\ dmaClock' \in 0 .. ClockMod - 1 /\ pc' \in {"mdma", "mdmaEnd"}
    BY <1>1, <1>4, NextByteTypes DEF NestedDone
  <2> QED
    BY <1>1, <1>4, <2>1, <2>2 DEF NestedDone, requests, ArbiterTypeOK
<1>5. CASE CheckNestedHdma /\ UNCHANGED <<nmiCounter, nmiPending>>
  <2>1. speed \in Speeds /\ pc = "mdma" /\ speed' = speed /\ mdma' = mdma
    BY <1>5 DEF CheckNestedHdma, Shape
  <2>2. ASSUME NextByte(dmaClock)
        PROVE  /\ left' \in Nat /\ size' \in Nat /\ slots' \in 0 .. 1
               /\ dmaClock' \in 0 .. ClockMod - 1 /\ pc' \in {"mdma", "mdmaEnd"}
    BY <1>1, <2>1, <2>2, NextByteTypes
  <2>3. ASSUME NEW clocks \in Nat, Nest(clocks)
        PROVE  /\ left' \in Nat /\ size' \in Nat /\ slots' \in 0 .. 1
               /\ dmaClock' \in 0 .. ClockMod - 1 /\ pc' = "nested"
    BY <2>3, NestTypes
  <2>4. ASSUME Abort("uninitialized"), UNCHANGED <<slots, size, dmaClock>>
        PROVE  /\ left' \in Nat /\ size' \in Nat /\ slots' \in 0 .. 1 /\ failed' \in Reasons
               /\ dmaClock' \in 0 .. ClockMod - 1 /\ pc' = "access"
    BY <1>1, <2>4 DEF Abort, Reasons
  <2>5. /\ startDelay' \in BOOLEAN /\ initPending' \in BOOLEAN
        /\ transferPending' \in BOOLEAN
    BY <1>1, <1>5, Zenon DEF CheckNestedHdma, requests
  <2>6. /\ left' \in Nat /\ size' \in Nat /\ slots' \in 0 .. 1 /\ failed' \in Reasons
        /\ dmaClock' \in 0 .. ClockMod - 1 /\ pc' \in {"mdma", "mdmaEnd", "nested", "access"}
    <3>1. Unit \in Nat
      BY SchedulerAssumption
    <3>2. /\ \A fin \in BOOLEAN : InitClocks(fin) \in Nat
          /\ \A reload \in 0 .. 2 : ScanClocks(reload) \in Nat
      BY <3>1, HdmaClocksType DEF CoreTypeOK
    <3> QED BY <1>1, <1>5, <2>2, <2>3, <2>4, <3>2 DEF CheckNestedHdma, requests
  <2>7. hdma2' \in HdmaType
    <3>1. ArbiterTypeOK
      BY DEF CoreTypeOK
    <3>2. /\ \A reload \in 0 .. 2 : ScanOutcomes(reload) \subseteq HdmaType
          /\ \A fin \in BOOLEAN : InitOutcome(fin) \in HdmaType
          /\ HdmaCold \in HdmaType
      BY <3>1, OutcomeTypes
    <3> HIDE DEF HdmaType
    <3> QED BY <1>1, <1>5, <3>2 DEF CheckNestedHdma
  <2> QED
    BY <1>1, <1>5, <2>1, <2>5, <2>6, <2>7 DEF ArbiterTypeOK
<1> QED
  BY <1>2, <1>3, <1>4, <1>5 DEF Transfer

\* A CPU cycle, with all the arbiter does in it (civ_dma_process_cpu_cycle).
LEMMA CpuCycleTypes == CoreTypeOK /\ Shape /\ CpuCycle => CoreTypeOK' /\ Shape'
<1> SUFFICES ASSUME CoreTypeOK, Shape, CpuCycle PROVE CoreTypeOK' /\ Shape'
  OBVIOUS
<1>1. PICK s \in Speeds : ProcessCpuCycle(s)
  BY DEF CpuCycle
<1>2. DmaTypesNext
  BY <1>1, ProcessTypes
<1>3. SchedulerTypeOK'
  BY <1>2 DEF CpuCycle, beam, irqVars, DmaTypesNext, CoreTypeOK, SchedulerTypeOK
<1>4. deferred' \in Nat /\ mdmaWait' \in Nat
  BY DEF CpuCycle, CountDeferral, CoreTypeOK
<1> QED
  BY <1>2, <1>3, <1>4 DEF CpuCycle, cpuVars, DmaTypesNext, CoreTypeOK, Shape

\* A byte, an alignment or a nested HDMA of a manual transfer.
LEMMA TransferStepTypes == CoreTypeOK /\ Shape /\ Transfer => CoreTypeOK' /\ Shape'
<1> SUFFICES ASSUME CoreTypeOK, Shape, Transfer PROVE CoreTypeOK' /\ Shape'
  OBVIOUS
<1>1. DmaTypesNext
  BY TransferTypes
<1>2. SchedulerTypeOK'
  BY <1>1 DEF Transfer, beam, irqVars, DmaTypesNext, CoreTypeOK, SchedulerTypeOK
<1>3. deferred' \in Nat
  BY DEF Transfer, CountDeferral, CoreTypeOK
<1> QED
  BY <1>1, <1>2, <1>3 DEF Transfer, cpuVars, DmaTypesNext, CoreTypeOK, Shape

\* The end of an access keeps everything but failed, pc and speed.
LEMMA AccessDoneTypes ==
  ASSUME CoreTypeOK, NEW f \in Reasons, AccessDone(f),
         io' \in IoType, nmiFlag' \in BOOLEAN, nmiCounter' \in 0 .. 2, nmiPending' \in BOOLEAN,
         irqLine' \in BOOLEAN, irqTransition' \in BOOLEAN, irqHold' \in 0 .. HoldClocks,
         startDelay' \in BOOLEAN, UNCHANGED <<initPending, transferPending>>,
         mdma' \in BOOLEAN, size' \in Nat
  PROVE  SchedulerTypeOK' /\ ArbiterTypeOK' /\ pc' \in {"idle", "halted"} /\ deferred' \in Nat
<1>1. SchedulerTypeOK'
  BY DEF AccessDone, beam, CoreTypeOK, SchedulerTypeOK
<1>2. pc' \in {"idle", "halted"} /\ speed' = 0
  BY DEF AccessDone
<1>3. ArbiterTypeOK'
  BY <1>2 DEF AccessDone, CoreTypeOK, ArbiterTypeOK
<1>4. deferred' \in Nat
  BY DEF AccessDone, CoreTypeOK
<1> QED BY <1>1, <1>2, <1>3, <1>4

\* Accesses of the program or of an interrupt entry.
LEMMA FetchTypes == CoreTypeOK /\ Shape /\ (Fetch \/ PlainAccess) => CoreTypeOK' /\ Shape'
<1> SUFFICES ASSUME CoreTypeOK, Shape, Fetch \/ PlainAccess PROVE CoreTypeOK' /\ Shape'
  OBVIOUS
<1>1. /\ AccessDone(failed)
      /\ UNCHANGED <<io, nmiVars, irqVars, requests, mdma, size, cpu, nmiDepth,
                     irqDepth, owed, mdmaWait>>
  BY DEF Fetch, PlainAccess
<1>2. /\ io \in IoType /\ nmiFlag \in BOOLEAN /\ nmiCounter \in 0 .. 2 /\ nmiPending \in BOOLEAN
      /\ irqLine \in BOOLEAN /\ irqTransition \in BOOLEAN /\ irqHold \in 0 .. HoldClocks
      /\ startDelay \in BOOLEAN /\ mdma \in BOOLEAN /\ size \in Nat /\ failed \in Reasons
  BY DEF CoreTypeOK, SchedulerTypeOK, ArbiterTypeOK
<1>3. SchedulerTypeOK' /\ ArbiterTypeOK' /\ pc' \in {"idle", "halted"} /\ deferred' \in Nat
  BY <1>1, <1>2, AccessDoneTypes DEF nmiVars, irqVars, requests
<1>4. stage' \in Stages /\ cycles' \in Nat /\ (stage' = "fetch" => cycles' > 0)
  BY DEF Fetch, PlainAccess, CoreTypeOK, Shape, Stages
<1> QED
  BY <1>1, <1>3, <1>4 DEF CoreTypeOK, Shape

\* What every access of a control register has in common.
LEMMA RegisterTypes ==
  ASSUME CoreTypeOK, Shape, NEW op, NEW f \in Reasons, Access(op, f),
         io' \in IoType, nmiFlag' \in BOOLEAN, nmiCounter' \in 0 .. 2, UNCHANGED nmiPending,
         irqLine' \in BOOLEAN, irqTransition' \in BOOLEAN, irqHold' \in 0 .. HoldClocks,
         startDelay' \in BOOLEAN, UNCHANGED <<initPending, transferPending>>,
         mdma' \in BOOLEAN, size' \in Nat,
         stage' \in {"body", "stored"}, owed' \in BOOLEAN, mdmaWait' \in Nat
  PROVE  CoreTypeOK' /\ Shape'
<1>1. nmiPending' \in BOOLEAN
  BY DEF CoreTypeOK, SchedulerTypeOK
<1>2. AccessDone(f)
  BY DEF Access
<1>3. SchedulerTypeOK' /\ ArbiterTypeOK' /\ pc' \in {"idle", "halted"} /\ deferred' \in Nat
  BY <1>1, <1>2, AccessDoneTypes
<1> QED
  BY <1>3 DEF Access, CoreTypeOK, Shape, Stages

\* The stores and loads of $4200-$420C, $4210, $4211 and $2133.
LEMMA RegisterStepTypes ==
  CoreTypeOK /\ Shape /\ (\/ WriteNmitimen \/ WriteTimer \/ ReadRdnmi \/ ReadTimeup
                     \/ WriteMdmaen \/ WriteHdmaen \/ WriteSetini) => CoreTypeOK' /\ Shape'
<1> SUFFICES ASSUME CoreTypeOK, Shape,
                    \/ WriteNmitimen \/ WriteTimer \/ ReadRdnmi \/ ReadTimeup
                    \/ WriteMdmaen \/ WriteHdmaen \/ WriteSetini
             PROVE  CoreTypeOK' /\ Shape'
  OBVIOUS
<1>1. /\ io \in IoType /\ nmiFlag \in BOOLEAN /\ nmiCounter \in 0 .. 2 /\ nmiPending \in BOOLEAN
      /\ irqLine \in BOOLEAN /\ irqTransition \in BOOLEAN /\ irqHold \in 0 .. HoldClocks
      /\ startDelay \in BOOLEAN /\ mdma \in BOOLEAN /\ size \in Nat /\ failed \in Reasons
      /\ owed \in BOOLEAN /\ mdmaWait \in Nat /\ HoldClocks \in Nat
  BY SchedulerAssumption DEF CoreTypeOK, SchedulerTypeOK, ArbiterTypeOK
<1>2. CASE WriteNmitimen
  <2>1. Access("nmitimen", failed) /\ stage' \in {"body", "stored"}
    BY <1>2 DEF WriteNmitimen, Access
  <2>2. PICK v \in NmitimenValues :
          /\ io' = [io EXCEPT !.nmi = v.nmi, !.hirq = v.hirq, !.virq = v.virq, !.joy = v.joy]
          /\ nmiCounter' = IF nmiFlag /\ v.nmi /\ ~io.nmi THEN 2 ELSE nmiCounter
          /\ owed' = (owed \/ (nmiFlag /\ v.nmi /\ ~io.nmi))
          /\ TimersOff(v.hirq \/ v.virq)
    BY <1>2 DEF WriteNmitimen
  <2>3. v \in [nmi : BOOLEAN, hirq : BOOLEAN, virq : BOOLEAN, joy : BOOLEAN]
    BY <2>2, MachineAssumption
  <2>4. io' \in IoType
    BY <1>1, <2>2, <2>3 DEF IoType
  <2>5. nmiCounter' \in 0 .. 2 /\ irqHold' \in 0 .. HoldClocks
    BY <1>1, <2>2 DEF TimersOff, irqVars
  <2>6. owed' \in BOOLEAN /\ irqLine' \in BOOLEAN /\ irqTransition' \in BOOLEAN
    BY <1>1, <2>2, Zenon DEF TimersOff, irqVars
  <2>7. UNCHANGED <<nmiFlag, nmiPending, startDelay, initPending, transferPending,
                    mdma, size, mdmaWait>>
    BY <1>2 DEF WriteNmitimen, requests
  <2> QED
    BY <1>1, <2>1, <2>4, <2>5, <2>6, <2>7, RegisterTypes
<1>3. CASE WriteTimer \/ WriteHdmaen \/ WriteSetini
  <2>1. /\ \E op : Access(op, failed)
        /\ stage' \in {"body", "stored"}
    BY <1>3 DEF WriteTimer, WriteHdmaen, WriteSetini, Access
  <2>2. io' \in IoType
    BY <1>1, <1>3 DEF WriteTimer, WriteHdmaen, WriteSetini, IoType
  <2>3. UNCHANGED <<nmiVars, irqVars, requests, mdma, size, owed, mdmaWait>>
    BY <1>3 DEF WriteTimer, WriteHdmaen, WriteSetini
  <2> QED
    BY <1>1, <2>1, <2>2, <2>3, RegisterTypes DEF nmiVars, irqVars, requests
<1>4. CASE ReadRdnmi
  <2>1. Access("rdnmi", failed) /\ stage' \in {"body", "stored"}
    BY <1>4 DEF ReadRdnmi, Access
  <2>2. nmiFlag' \in BOOLEAN
    BY <1>4, Zenon DEF ReadRdnmi
  <2>3. UNCHANGED <<io, nmiCounter, nmiPending, irqVars, requests, mdma, size, owed, mdmaWait>>
    BY <1>4 DEF ReadRdnmi
  <2> QED
    BY <1>1, <2>1, <2>2, <2>3, RegisterTypes DEF irqVars, requests
<1>5. CASE ReadTimeup
  <2>1. Access("timeup", failed) /\ stage' \in {"body", "stored"}
    BY <1>5 DEF ReadTimeup, Access
  <2>2. irqLine' \in BOOLEAN /\ irqTransition' \in BOOLEAN
    BY <1>1, <1>5, Zenon DEF ReadTimeup
  <2>3. UNCHANGED <<irqHold, io, nmiVars, requests, mdma, size, owed, mdmaWait>>
    BY <1>5 DEF ReadTimeup
  <2> QED
    BY <1>1, <2>1, <2>2, <2>3, RegisterTypes DEF nmiVars, requests
<1>6. CASE WriteMdmaen
  <2> DEFINE f == IF mdma /\ failed = NoFailure THEN "doubleMdma" ELSE failed
  <2>1. Access("mdmaen", f) /\ stage' \in {"body", "stored"} /\ mdmaWait' \in Nat
    BY <1>6 DEF WriteMdmaen
  <2>2. f \in Reasons
    BY <1>1 DEF Reasons
  <2>3. startDelay' \in BOOLEAN /\ mdma' \in BOOLEAN
    BY <1>1, <1>6, Zenon DEF WriteMdmaen
  <2>4. size' \in Nat
    BY <1>1, <1>6, ArbiterAssumption DEF WriteMdmaen
  <2>5. UNCHANGED <<io, nmiVars, irqVars, initPending, transferPending, owed>>
    BY <1>6 DEF WriteMdmaen
  <2> HIDE DEF f
  <2> QED
    BY <1>1, <2>1, <2>2, <2>3, <2>4, <2>5, RegisterTypes DEF nmiVars, irqVars
<1> QED
  BY <1>2, <1>3, <1>4, <1>5, <1>6

\* Between instructions: retirement, RTI, the interrupt test.
LEMMA BetweenTypes ==
  ASSUME CoreTypeOK, UNCHANGED Between
  PROVE  /\ failed' \in Reasons => SchedulerTypeOK'
         /\ pc' \in {"idle", "halted"} => ArbiterTypeOK'
         /\ deferred' \in Nat /\ mdmaWait' \in Nat
<1>1. failed' \in Reasons => SchedulerTypeOK'
  BY DEF Between, beam, nmiVars, irqVars, requests, CoreTypeOK, SchedulerTypeOK
<1>2. pc' \in {"idle", "halted"} => ArbiterTypeOK'
  BY DEF Between, dmaVars, CoreTypeOK, ArbiterTypeOK
<1> QED BY <1>1, <1>2 DEF Between, CoreTypeOK

\* An instruction boundary: retirement, RTI and acceptance of an interrupt.
LEMMA BoundaryTypes ==
  CoreTypeOK /\ Shape /\ (Retire \/ Rti \/ AcceptNmi \/ AcceptIrq \/ NextInstruction)
    => CoreTypeOK' /\ Shape'
<1> SUFFICES ASSUME CoreTypeOK, Shape, Retire \/ Rti \/ AcceptNmi \/ AcceptIrq \/ NextInstruction
             PROVE  CoreTypeOK' /\ Shape'
  OBVIOUS
<1>1. /\ failed \in Reasons /\ cycles \in Nat /\ stage \in Stages
      /\ cpu \in [e : BOOLEAN, i : BOOLEAN, saved : BOOLEAN]
      /\ nmiDepth \in 0 .. 1 /\ irqDepth \in 0 .. 1 /\ owed \in BOOLEAN
  BY DEF CoreTypeOK, SchedulerTypeOK
<1>2. UNCHANGED Between
  BY DEF Retire, RetireWith, Rti, AcceptNmi, AcceptIrq, Accept, NextInstruction
<1>3. /\ failed' \in Reasons /\ pc' \in {"idle", "halted"} /\ stage' \in Stages
      /\ cpu' \in [e : BOOLEAN, i : BOOLEAN, saved : BOOLEAN]
      /\ cycles' \in Nat /\ (stage' = "fetch" => cycles' > 0)
      /\ nmiDepth' \in 0 .. 1 /\ irqDepth' \in 0 .. 1 /\ owed' \in BOOLEAN
  <2>1. CASE Retire
    BY <1>1, <2>1 DEF Retire, RetireWith, Executed, Stages
  <2>2. CASE Rti
    BY <1>1, <2>2 DEF Rti, Executed, Stages, Reasons
  <2>3. CASE AcceptNmi \/ AcceptIrq
    BY <1>1, <2>3, MachineAssumption DEF AcceptNmi, AcceptIrq, Accept, Stages, Reasons
  <2>4. CASE NextInstruction
    BY <1>1, <2>4, MachineAssumption DEF NextInstruction, Stages
  <2> QED BY <2>1, <2>2, <2>3, <2>4
<1> QED
  BY <1>2, <1>3, BetweenTypes DEF CoreTypeOK, Shape

\* The cycles of an interrupt entry and its jump to the handler.
LEMMA EntryTypes ==
  CoreTypeOK /\ Shape /\ (EntryCycle \/ EnterNmi \/ EnterIrq) => CoreTypeOK' /\ Shape'
<1> SUFFICES ASSUME CoreTypeOK, Shape, EntryCycle \/ EnterNmi \/ EnterIrq
             PROVE  CoreTypeOK' /\ Shape'
  OBVIOUS
<1>1. /\ io \in IoType /\ nmiFlag \in BOOLEAN /\ nmiCounter \in 0 .. 2 /\ nmiPending \in BOOLEAN
      /\ irqLine \in BOOLEAN /\ irqTransition \in BOOLEAN /\ irqHold \in 0 .. HoldClocks
      /\ startDelay \in BOOLEAN /\ mdma \in BOOLEAN /\ size \in Nat /\ failed \in Reasons
      /\ cycles \in Nat /\ stage \in Stages /\ nmiDepth \in 0 .. 1 /\ irqDepth \in 0 .. 1
      /\ cpu \in [e : BOOLEAN, i : BOOLEAN, saved : BOOLEAN]
      /\ owed \in BOOLEAN /\ mdmaWait \in Nat
  BY DEF CoreTypeOK, SchedulerTypeOK, ArbiterTypeOK
<1>2. AccessDone(failed) /\ UNCHANGED <<io, nmiFlag, nmiCounter, irqLine, irqHold, requests,
                                       mdma, size, mdmaWait>>
  BY DEF EntryCycle, EnterNmi, EnterIrq, EnterHandler, nmiVars, irqVars
<1>3. nmiPending' \in BOOLEAN /\ irqTransition' \in BOOLEAN /\ owed' \in BOOLEAN
  <2>1. CASE EntryCycle
    BY <1>1, <2>1 DEF EntryCycle, nmiVars, irqVars
  <2>2. CASE EnterNmi
    <3>1. UNCHANGED irqTransition
      BY <2>2 DEF EnterNmi
    <3>2. nmiPending' \in BOOLEAN
      BY <2>2, Zenon DEF EnterNmi
    <3>3. owed' = (nmiCounter > 0)
      BY <2>2 DEF EnterNmi
    <3>4. owed' \in BOOLEAN
      BY <3>3
    <3> QED BY <1>1, <3>1, <3>2, <3>4
  <2>3. CASE EnterIrq
    <3>1. UNCHANGED <<nmiPending, owed>>
      BY <2>3 DEF EnterIrq
    <3>2. irqTransition' \in BOOLEAN
      BY <2>3, Zenon DEF EnterIrq
    <3> QED BY <1>1, <3>1, <3>2
  <2> QED BY <2>1, <2>2, <2>3
<1>4. SchedulerTypeOK' /\ ArbiterTypeOK' /\ pc' \in {"idle", "halted"} /\ deferred' \in Nat
  BY <1>1, <1>2, <1>3, AccessDoneTypes DEF requests
<1>5. /\ stage' \in Stages /\ cycles' \in Nat /\ (stage' = "fetch" => cycles' > 0)
      /\ cpu' \in [e : BOOLEAN, i : BOOLEAN, saved : BOOLEAN]
      /\ nmiDepth' \in 0 .. 1 /\ irqDepth' \in 0 .. 1
  <2>1. CASE EntryCycle
    BY <1>1, <2>1 DEF EntryCycle
  <2>2. CASE EnterNmi \/ EnterIrq
    <3>1. /\ stage' = "fetch" /\ cycles' = FetchCycles
          /\ cpu' = [cpu EXCEPT !.i = TRUE, !.saved = cpu.i]
      BY <2>2 DEF EnterNmi, EnterIrq, EnterHandler
    <3>2. nmiDepth' \in 0 .. 1 /\ irqDepth' \in 0 .. 1
      BY <1>1, <2>2 DEF EnterNmi, EnterIrq
    <3>3. cpu' \in [e : BOOLEAN, i : BOOLEAN, saved : BOOLEAN]
      BY <1>1, <3>1
    <3>4. stage' \in Stages /\ cycles' \in Nat /\ cycles' > 0
      BY <3>1, MachineAssumption DEF Stages
    <3> QED BY <3>2, <3>3, <3>4
  <2> QED BY <2>1, <2>2
<1>6. mdmaWait' \in Nat
  BY <1>1, <1>2
<1> QED
  BY <1>3, <1>4, <1>5, <1>6 DEF CoreTypeOK, Shape

\* civ_reset leaves the initial state.
LEMMA ResetIsInit == Reset /\ stray' = Strayed => Init'
BY DEF Reset, SchedulerReset, ArbiterReset, Init, SchedulerInit, ArbiterInit, Strayed

\* A reset machine has the types of a created one.
LEMMA InitTypesNext == Init' => CoreTypeOK' /\ Shape'
BY InitTypes, PTL

\* Every step keeps the types and the shape of the variables.
LEMMA TypeStep == CoreTypeOK /\ Shape /\ [Next]_vars => CoreTypeOK' /\ Shape'
<1> SUFFICES ASSUME CoreTypeOK, Shape, [Next]_vars PROVE CoreTypeOK' /\ Shape'
  OBVIOUS
<1>1. CASE Reset /\ stray' = Strayed
  BY <1>1, ResetIsInit, InitTypesNext
<1>2. CASE UNCHANGED vars
  BY <1>2 DEF vars, beam, nmiVars, irqVars, requests, dmaVars, cpuVars, history,
              CoreTypeOK, SchedulerTypeOK, ArbiterTypeOK, Shape
<1> QED
  BY <1>1, <1>2, TickTypes, CpuCycleTypes, TransferStepTypes, FetchTypes, RegisterStepTypes,
     BoundaryTypes, EntryTypes DEF Next

\* The history of HDMAEN is a Boolean whatever the program writes.
LEMMA StrayStep == stray \in BOOLEAN /\ [Next]_vars => stray' \in BOOLEAN
<1> SUFFICES ASSUME stray \in BOOLEAN, [Next]_vars PROVE stray' \in BOOLEAN
  OBVIOUS
<1>1. CASE Next
  <2>1. stray' = Strayed
    BY <1>1 DEF Next
  <2> QED BY <2>1, Zenon DEF Strayed
<1>2. CASE UNCHANGED vars
  BY <1>2 DEF vars, history
<1> QED BY <1>1, <1>2

\* The machine's variables keep their types, for every program, clock geometry
\* and interleaving of clocks, DMA and interrupts.
THEOREM TypeCorrect == Spec => []TypeOK
<1>1. Init => TypeOK /\ Shape
  BY InitTypes DEF Init, TypeOK
<1>2. TypeOK /\ Shape /\ [Next]_vars => TypeOK' /\ Shape'
  BY TypeStep, StrayStep DEF TypeOK
<1> QED
  BY <1>1, <1>2, PTL DEF Spec

-----------------------------------------------------------------------------
\* The timer IRQ line.
LEMMA TimerIrqStep ==
  TypeOK /\ TimerIrqConsistent /\ [Next]_vars => TimerIrqConsistent'
<1> SUFFICES ASSUME TypeOK, TimerIrqConsistent, [Next]_vars PROVE TimerIrqConsistent'
  OBVIOUS
<1>1. io \in IoType /\ irqHold \in 0 .. HoldClocks /\ HoldClocks \in Nat
  BY SchedulerAssumption DEF TypeOK, CoreTypeOK, SchedulerTypeOK
<1>2. CASE Tick
  <2>1. io' = io
    BY <1>2 DEF Tick, AdvanceMaster
  <2>2. CASE TimerMatch /\ ~irqLine
    BY <1>2, <2>1, <2>2 DEF Tick, AdvanceMaster, RawMaster, LatchTimerIrq, TimerMatch,
                            TimerIrqConsistent
  <2>3. CASE ~(TimerMatch /\ ~irqLine)
    BY <1>1, <1>2, <2>1, <2>3 DEF Tick, AdvanceMaster, RawMaster, LatchTimerIrq,
                                  TimerIrqConsistent
  <2> QED BY <2>2, <2>3
<1>3. CASE WriteNmitimen
  <2>1. PICK v \in NmitimenValues :
          /\ io' = [io EXCEPT !.nmi = v.nmi, !.hirq = v.hirq, !.virq = v.virq, !.joy = v.joy]
          /\ TimersOff(v.hirq \/ v.virq)
    BY <1>3 DEF WriteNmitimen
  <2>2. io'.hirq = v.hirq /\ io'.virq = v.virq
    BY <1>1, <2>1 DEF IoType
  <2>3. CASE v.hirq \/ v.virq
    BY <2>1, <2>2, <2>3 DEF TimersOff, irqVars, TimerIrqConsistent
  <2>4. CASE ~(v.hirq \/ v.virq)
    BY <2>1, <2>4 DEF TimersOff, TimerIrqConsistent
  <2> QED BY <2>3, <2>4
<1>4. CASE WriteTimer \/ WriteHdmaen \/ WriteSetini
  <2>1. io'.hirq = io.hirq /\ io'.virq = io.virq
    <3>1. CASE WriteTimer
      BY <1>1, <3>1 DEF WriteTimer, IoType
    <3>2. CASE WriteHdmaen \/ WriteSetini
      BY <1>1, <3>2 DEF WriteHdmaen, WriteSetini, IoType
    <3> QED BY <1>4, <3>1, <3>2
  <2>2. UNCHANGED irqVars
    BY <1>4 DEF WriteTimer, WriteHdmaen, WriteSetini
  <2> QED BY <2>1, <2>2 DEF irqVars, TimerIrqConsistent
<1>5. CASE ReadTimeup
  BY <1>1, <1>5 DEF ReadTimeup, TimerIrqConsistent
<1>6. CASE EnterIrq
  BY <1>6 DEF EnterIrq, EnterHandler, TimerIrqConsistent
<1>7. CASE Reset
  BY <1>7 DEF Reset, SchedulerReset, TimerIrqConsistent
<1>8. CASE UNCHANGED <<io, irqVars>>
  BY <1>8 DEF irqVars, TimerIrqConsistent
<1>9. \/ Tick \/ WriteNmitimen \/ WriteTimer \/ WriteHdmaen \/ WriteSetini \/ ReadTimeup
      \/ EnterIrq \/ Reset \/ UNCHANGED <<io, irqVars>>
  BY DEF Next, CpuCycle, Transfer, Fetch, PlainAccess, ReadRdnmi, WriteMdmaen, Retire, RetireWith,
         Rti, AcceptNmi, AcceptIrq, Accept, NextInstruction, EntryCycle, EnterNmi, EnterHandler,
         Between, irqVars, vars
<1> QED
  BY <1>2, <1>3, <1>4, <1>5, <1>6, <1>7, <1>8, <1>9

\* A timer IRQ never stands with both timers off, whatever order the program
\* writes $4200, reads $4211 and takes the interrupt in.
THEOREM TimerIrqSafe == Spec => []TimerIrqConsistent
<1>1. Init => TimerIrqConsistent
  BY DEF Init, SchedulerInit, TimerIrqConsistent
<1>2. TypeOK /\ TimerIrqConsistent /\ [Next]_vars => TimerIrqConsistent'
  BY TimerIrqStep
<1> QED
  BY <1>1, <1>2, TypeCorrect, PTL DEF Spec

-----------------------------------------------------------------------------
\* The NMI edge.

\* The edge detector neither makes nor loses an edge.
LEMMA SampleKeepsEdge ==
  ASSUME TypeOK, NEW lock \in BOOLEAN, SampleInterrupts(lock)
  PROVE  (nmiCounter' > 0 \/ nmiPending') <=> (nmiCounter > 0 \/ nmiPending)
<1>1. nmiCounter \in 0 .. 2
  BY DEF TypeOK, CoreTypeOK, SchedulerTypeOK
<1>2. CASE nmiCounter = 0
  <2>1. nmiCounter' = 0 /\ nmiPending' = nmiPending
    BY <1>2 DEF SampleInterrupts
  <2> QED BY <1>2, <2>1
<1>3. CASE nmiCounter = 2
  <2>1. nmiCounter' = 1
    BY <1>3 DEF SampleInterrupts
  <2> QED BY <1>3, <2>1
<1>4. CASE nmiCounter = 1 /\ lock
  <2>1. nmiCounter' = 1
    BY <1>4 DEF SampleInterrupts
  <2> QED BY <1>4, <2>1
<1>5. CASE nmiCounter = 1 /\ ~lock
  <2>1. nmiPending'
    BY <1>5 DEF SampleInterrupts
  <2> QED BY <1>5, <2>1
<1> QED
  BY <1>1, <1>2, <1>3, <1>4, <1>5

\* In every step of the arbiter the detector runs at most once.
LEMMA ArbiterSamples ==
  ASSUME CpuCycle \/ Transfer
  PROVE  \/ \E lock \in BOOLEAN : SampleInterrupts(lock)
         \/ UNCHANGED <<nmiCounter, nmiPending>>
<1>1. CASE CpuCycle
  <2>1. PICK s \in Speeds : ProcessCpuCycle(s)
    BY <1>1 DEF CpuCycle
  <2>2. ASSUME NEW lock \in BOOLEAN, StartAccess(s, lock) PROVE SampleInterrupts(lock)
    BY <2>2 DEF StartAccess
  <2>3. CASE NothingDue(s) \/ ClearStartDelay(s)
    BY <2>2, <2>3 DEF NothingDue, ClearStartDelay
  <2>4. CASE RunTransfer(s)
    BY <2>2, <2>4 DEF RunTransfer
  <2>5. CASE RunInit(s) \/ StartManualDma(s)
    BY <2>2, <2>5 DEF RunInit, StartManualDma
  <2> QED BY <2>1, <2>3, <2>4, <2>5 DEF ProcessCpuCycle
<1>2. CASE Transfer
  BY <1>2 DEF Transfer, TransferFailed, TransferDone, StartAccess
<1> QED BY <1>1, <1>2

\* Every step keeps the count of the NMI edges.
LEMMA EdgeStep ==
  TypeOK /\ EdgeAccounting /\ [Next]_vars => EdgeAccounting'
<1> SUFFICES ASSUME TypeOK, EdgeAccounting, [Next]_vars PROVE EdgeAccounting'
  OBVIOUS
<1>1. nmiCounter \in 0 .. 2
  BY DEF TypeOK, CoreTypeOK, SchedulerTypeOK
<1>2. CASE Tick
  <2>1. /\ nmiCounter' = IF NmiEdge THEN 1 ELSE nmiCounter
        /\ nmiPending' = nmiPending /\ owed' = (owed \/ NmiEdge)
    BY <1>2 DEF Tick, AdvanceMaster, RawMaster, LatchNmi
  <2>2. CASE NmiEdge
    <3>1. owed'
      BY <2>1, <2>2, Zenon
    <3>2. nmiCounter' = 1
      BY <2>1, <2>2
    <3> QED BY <3>1, <3>2 DEF EdgeAccounting
  <2>3. CASE ~NmiEdge
    BY <2>1, <2>3 DEF EdgeAccounting
  <2> QED BY <2>2, <2>3
<1>3. CASE CpuCycle \/ Transfer
  <2>1. owed' = owed
    BY <1>3 DEF CpuCycle, Transfer
  <2>2. (nmiCounter' > 0 \/ nmiPending') <=> (nmiCounter > 0 \/ nmiPending)
    BY <1>3, ArbiterSamples, SampleKeepsEdge
  <2> QED BY <2>1, <2>2 DEF EdgeAccounting
<1>4. CASE WriteNmitimen
  <2>1. PICK v \in NmitimenValues :
          /\ nmiCounter' = IF nmiFlag /\ v.nmi /\ ~io.nmi THEN 2 ELSE nmiCounter
          /\ owed' = (owed \/ (nmiFlag /\ v.nmi /\ ~io.nmi))
    BY <1>4 DEF WriteNmitimen
  <2>2. nmiPending' = nmiPending
    BY <1>4 DEF WriteNmitimen
  <2>3. CASE nmiFlag /\ v.nmi /\ ~io.nmi
    <3>1. owed'
      BY <2>1, <2>3, Zenon
    <3>2. nmiCounter' = 2
      BY <2>1, <2>3
    <3> QED BY <3>1, <3>2 DEF EdgeAccounting
  <2>4. CASE ~(nmiFlag /\ v.nmi /\ ~io.nmi)
    BY <2>1, <2>2, <2>4 DEF EdgeAccounting
  <2> QED BY <2>3, <2>4
<1>5. CASE EnterNmi
  BY <1>1, <1>5 DEF EnterNmi, EnterHandler, EdgeAccounting
<1>6. CASE Reset
  BY <1>6 DEF Reset, SchedulerReset, EdgeAccounting
<1>7. CASE UNCHANGED <<owed, nmiCounter, nmiPending>>
  BY <1>7 DEF EdgeAccounting
<1>8. \/ Tick \/ CpuCycle \/ Transfer \/ WriteNmitimen \/ EnterNmi \/ Reset
      \/ UNCHANGED <<owed, nmiCounter, nmiPending>>
  BY DEF Next, Fetch, PlainAccess, WriteTimer, ReadRdnmi, ReadTimeup, WriteMdmaen, WriteHdmaen,
         WriteSetini, Retire, RetireWith, Rti, AcceptNmi, AcceptIrq, Accept, NextInstruction,
         EntryCycle, EnterIrq, EnterHandler, Between, nmiVars, vars, history
<1> QED
  BY <1>2, <1>3, <1>4, <1>5, <1>6, <1>7, <1>8

\* No NMI edge is lost or invented between the beam, the DMA lock, $4200 writes
\* and the interrupt entries.
THEOREM EdgeSafe == Spec => []EdgeAccounting
<1>1. Init => EdgeAccounting
  BY DEF Init, SchedulerInit, EdgeAccounting
<1>2. TypeOK /\ EdgeAccounting /\ [Next]_vars => EdgeAccounting'
  BY EdgeStep
<1> QED
  BY <1>1, <1>2, TypeCorrect, PTL DEF Spec

-----------------------------------------------------------------------------
\* Interrupt frames.
LEMMA FrameStep ==
  TypeOK /\ EdgeAccounting /\ FrameDiscipline /\ [Next]_vars => FrameDiscipline'
<1> SUFFICES ASSUME TypeOK, EdgeAccounting, FrameDiscipline, [Next]_vars
             PROVE  FrameDiscipline'
  OBVIOUS
<1>1. /\ nmiDepth \in 0 .. 1 /\ irqDepth \in 0 .. 1 /\ stage \in Stages
      /\ cpu \in [e : BOOLEAN, i : BOOLEAN, saved : BOOLEAN]
  BY DEF TypeOK, CoreTypeOK
<1>2. CASE Tick
  <2>1. irqLine => irqLine'
    BY <1>2 DEF Tick, AdvanceMaster, RawMaster, LatchTimerIrq
  <2>2. owed => owed'
    BY <1>2 DEF Tick
  <2> QED BY <1>2, <2>1, <2>2 DEF Tick, cpuVars, FrameDiscipline, NoFrame
<1>3. CASE CpuCycle \/ Transfer
  BY <1>3 DEF CpuCycle, Transfer, cpuVars, irqVars, FrameDiscipline, NoFrame
<1>4. CASE Fetch \/ PlainAccess \/ EntryCycle
  <2>1. UNCHANGED <<irqLine, cpu, nmiDepth, irqDepth, owed>>
    BY <1>4 DEF Fetch, PlainAccess, EntryCycle, irqVars
  <2>2. stage' \in {"nmi", "irq"} => stage' = stage
    BY <1>4 DEF Fetch, PlainAccess, EntryCycle
  <2> QED BY <2>1, <2>2 DEF FrameDiscipline, NoFrame
<1>5. CASE \/ WriteNmitimen \/ WriteTimer \/ ReadRdnmi \/ ReadTimeup
           \/ WriteMdmaen \/ WriteHdmaen \/ WriteSetini
  <2>1. stage' \in {"body", "stored"} /\ UNCHANGED <<cpu, nmiDepth, irqDepth>>
    BY <1>5 DEF WriteNmitimen, WriteTimer, ReadRdnmi, ReadTimeup, WriteMdmaen, WriteHdmaen,
                WriteSetini, Access
  <2> QED BY <2>1 DEF FrameDiscipline
<1>6. CASE Retire
  <2>1. stage' = "retired" /\ UNCHANGED <<nmiDepth, irqDepth>> /\ cpu'.saved = cpu.saved
    BY <1>1, <1>6 DEF Retire, RetireWith
  <2> QED BY <2>1 DEF FrameDiscipline
<1>7. CASE Rti
  <2>1. CASE cpu.e \/ nmiDepth + irqDepth # 1
    BY <1>7, <2>1 DEF Rti, Between, irqVars, Executed, FrameDiscipline
  <2>2. CASE ~(cpu.e \/ nmiDepth + irqDepth # 1)
    BY <1>1, <1>7, <2>2 DEF Rti, FrameDiscipline
  <2> QED BY <2>1, <2>2
<1>8. CASE AcceptNmi
  BY <1>8 DEF AcceptNmi, Accept, NmiSampled, NoFrame, Between, irqVars, EdgeAccounting,
              FrameDiscipline
<1>9. CASE AcceptIrq
  BY <1>9 DEF AcceptIrq, Accept, IrqSampled, NoFrame, Between, irqVars, FrameDiscipline
<1>10. CASE NextInstruction
  BY <1>10 DEF NextInstruction, Between, irqVars, FrameDiscipline
<1>11. CASE EnterNmi
  <2>1. stage' = "fetch" /\ nmiDepth' = 1 /\ irqDepth' = 0
    BY <1>11 DEF EnterNmi, EnterHandler, FrameDiscipline, NoFrame
  <2> QED BY <2>1 DEF FrameDiscipline
<1>12. CASE EnterIrq
  <2>1. stage' = "fetch" /\ nmiDepth' = 0 /\ irqDepth' = 1
    BY <1>12 DEF EnterIrq, EnterHandler, FrameDiscipline, NoFrame
  <2>2. cpu'.saved = cpu.i /\ ~cpu.i
    BY <1>1, <1>12 DEF EnterIrq, EnterHandler, FrameDiscipline
  <2> QED BY <2>1, <2>2 DEF FrameDiscipline
<1>13. CASE Reset
  BY <1>13 DEF Reset, FrameDiscipline
<1>14. CASE UNCHANGED vars
  BY <1>14 DEF vars, cpuVars, irqVars, history, FrameDiscipline, NoFrame
<1> QED
  BY <1>2, <1>3, <1>4, <1>5, <1>6, <1>7, <1>8, <1>9, <1>10, <1>11, <1>12, <1>13, <1>14 DEF Next

\* Interrupt frames never nest, an entry under way stays justified, and an IRQ
\* handler returns to a program that had interrupts enabled.
THEOREM FramesSafe == Spec => []FrameDiscipline
<1>1. Init => FrameDiscipline
  BY DEF Init, FrameDiscipline
<1>2. TypeOK /\ EdgeAccounting /\ FrameDiscipline /\ [Next]_vars => FrameDiscipline'
  BY FrameStep
<1> QED
  BY <1>1, <1>2, TypeCorrect, EdgeSafe, PTL DEF Spec

-----------------------------------------------------------------------------
\* The start-delay latch.
LEMMA StartDelayStep ==
  TypeOK /\ StartDelayJustified /\ [Next]_vars => StartDelayJustified'
<1> SUFFICES ASSUME TypeOK, StartDelayJustified, [Next]_vars PROVE StartDelayJustified'
  OBVIOUS
<1> USE DEF StartDelayJustified
<1>1. CASE Tick
  <2>1. /\ initPending' = (initPending \/ InitDue)
        /\ transferPending' = (transferPending \/ TransferDue)
        /\ startDelay' = (startDelay \/ (InitDue /\ ~initPending)
                                      \/ (TransferDue /\ ~transferPending))
        /\ mdma' = mdma
    BY <1>1 DEF Tick, AdvanceMaster, RawMaster, ScheduleHdma, dmaVars
  <2> QED BY <2>1, Zenon
<1>2. CASE CpuCycle
  <2>1. PICK s \in Speeds : ProcessCpuCycle(s)
    BY <1>2 DEF CpuCycle
  <2>2. CASE NothingDue(s) \/ ClearStartDelay(s) \/ RunTransfer(s) \/ RunInit(s)
    BY <2>2 DEF NothingDue, ClearStartDelay, RunTransfer, TransferTurn, RunInit, InitTurn,
                requests
  <2>3. CASE StartManualDma(s)
    BY <2>3 DEF StartManualDma, MdmaTurn, requests
  <2> QED BY <2>1, <2>2, <2>3 DEF ProcessCpuCycle
<1>3. CASE Transfer
  <2>1. mdma' = mdma
    BY <1>3 DEF Transfer, TransferFailed, CheckNestedHdma, NestedDone, TransferDone, dmaVars
  <2>2. UNCHANGED requests \/ ~startDelay'
    <3>1. CASE CheckNestedHdma
      BY <3>1 DEF CheckNestedHdma, TransferTurn, InitTurn
    <3>2. CASE TransferFailed \/ NestedDone \/ TransferDone
      BY <3>2 DEF TransferFailed, NestedDone, TransferDone
    <3> QED BY <1>3, <3>1, <3>2 DEF Transfer
  <2> QED BY <2>1, <2>2 DEF requests
<1>4. CASE WriteMdmaen
  <2>1. UNCHANGED <<initPending, transferPending>>
    BY <1>4 DEF WriteMdmaen
  <2>2. mdma' \/ UNCHANGED <<mdma, startDelay>>
    BY <1>4 DEF WriteMdmaen
  <2> QED BY <2>1, <2>2
<1>5. CASE Reset
  BY <1>5 DEF Reset, SchedulerReset
<1>6. CASE UNCHANGED <<requests, mdma>>
  BY <1>6 DEF requests
<1>7. \/ Tick \/ CpuCycle \/ Transfer \/ WriteMdmaen \/ Reset \/ UNCHANGED <<requests, mdma>>
  BY DEF Next, Fetch, PlainAccess, WriteNmitimen, WriteTimer, ReadRdnmi, ReadTimeup, WriteHdmaen,
         WriteSetini, Retire, RetireWith, Rti, AcceptNmi, AcceptIrq, Accept, NextInstruction,
         EntryCycle, EnterNmi, EnterIrq, EnterHandler, Between, dmaVars, vars
<1> QED
  BY <1>1, <1>2, <1>3, <1>4, <1>5, <1>6, <1>7

\* The shared start delay never outlives the requests it was set for.
THEOREM StartDelaySafe == Spec => []StartDelayJustified
<1>1. Init => StartDelayJustified
  BY DEF Init, SchedulerInit, StartDelayJustified
<1>2. TypeOK /\ StartDelayJustified /\ [Next]_vars => StartDelayJustified'
  BY StartDelayStep
<1> QED
  BY <1>1, <1>2, TypeCorrect, PTL DEF Spec

-----------------------------------------------------------------------------
\* The DRAM refresh.  RefreshOncePerLine is not inductive: it needs to know where
\* on the line the refresh stands, and that it fits before the line's end.
RefreshInv ==
  /\ refreshAt \in 1 .. RefreshH
  /\ refreshDone <=> hcounter >= refreshAt
  /\ refreshLeft > 0 => refreshDone /\ hcounter + refreshLeft = refreshAt + RefreshClocks

\* Every step keeps the refresh of the line in its place.
LEMMA RefreshStep == TypeOK /\ RefreshInv /\ [Next]_vars => RefreshInv'
<1> SUFFICES ASSUME TypeOK, RefreshInv, [Next]_vars PROVE RefreshInv'
  OBVIOUS
<1>1. /\ hcounter \in Nat /\ refreshAt \in 1 .. RefreshH /\ refreshLeft \in Nat
      /\ refreshDone \in BOOLEAN
      /\ RefreshH \in Nat /\ RefreshClocks \in Nat /\ Unit \in Nat \ {0} /\ Unit <= RefreshH
      /\ ShortPeriod \in Nat /\ RefreshH + RefreshClocks < ShortPeriod
  BY SchedulerAssumption DEF TypeOK, CoreTypeOK, SchedulerTypeOK, RefreshInv
<1>2. Period \in Nat /\ Period >= ShortPeriod /\ NextPhase \in 0 .. Unit - 1
  BY BeamType DEF TypeOK, CoreTypeOK
<1>3. CASE Tick
  <2>1. /\ hcounter' = NextH /\ refreshAt' = NextRefreshAt
        /\ refreshDone' = (RefreshStarts \/ (refreshDone /\ ~LineEnds))
        /\ refreshLeft' = IF RefreshStarts THEN RefreshClocks
                          ELSE IF refreshLeft > 0 THEN refreshLeft - 1 ELSE 0
    BY <1>3 DEF Tick, AdvanceMaster, RawMaster, MoveBeam, NextRefreshDone
  <2>2. CASE LineEnds
    <3>1. NextH = 0 /\ NextRefreshAt \in 1 .. RefreshH
      BY <1>1, <1>2, <2>2 DEF NextH, NextRefreshAt
    <3>2. hcounter + 1 >= ShortPeriod
      BY <1>1, <1>2, <2>2 DEF LineEnds
    <3>3. refreshLeft = 0
      BY <1>1, <3>2 DEF RefreshInv
    <3>4. ~RefreshStarts
      BY <1>1, <3>1 DEF RefreshStarts
    <3>5. ~refreshDone'
      BY <2>1, <2>2, <3>4, Zenon
    <3>6. refreshLeft' = 0
      BY <2>1, <3>3, <3>4
    <3> QED BY <1>1, <2>1, <3>1, <3>5, <3>6 DEF RefreshInv
  <2>3. CASE ~LineEnds
    <3>1. NextH = hcounter + 1 /\ NextRefreshAt = refreshAt
      BY <2>3 DEF NextH, NextRefreshAt
    <3>2. CASE RefreshStarts
      <4>1. hcounter + 1 = refreshAt
        BY <3>1, <3>2 DEF RefreshStarts
      <4>2. refreshDone' /\ refreshLeft' = RefreshClocks
        BY <2>1, <3>2
      <4> QED BY <1>1, <2>1, <3>1, <4>1, <4>2 DEF RefreshInv
    <3>3. CASE ~RefreshStarts
      <4>1. refreshDone' <=> refreshDone
        BY <2>1, <2>3, <3>3, Zenon
      <4>2. refreshLeft' = IF refreshLeft > 0 THEN refreshLeft - 1 ELSE 0
        BY <2>1, <3>3
      <4>3. hcounter + 1 = refreshAt => refreshDone
        <5>1. hcounter + 1 = refreshAt => refreshLeft = 0
          BY <1>1 DEF RefreshInv
        <5> QED BY <2>3, <3>1, <3>3, <5>1 DEF RefreshStarts
      <4> QED BY <1>1, <2>1, <3>1, <4>1, <4>2, <4>3 DEF RefreshInv
    <3> QED BY <3>2, <3>3
  <2> QED BY <2>2, <2>3
<1>4. CASE Reset
  <2>1. hcounter' = 0 /\ ~refreshDone' /\ refreshAt' = RefreshH /\ refreshLeft' = 0
    BY <1>4 DEF Reset, SchedulerReset
  <2> QED BY <1>1, <2>1 DEF RefreshInv
<1>5. CASE UNCHANGED beam
  BY <1>5 DEF beam, RefreshInv
<1>6. Tick \/ Reset \/ UNCHANGED beam
  BY DEF Next, CpuCycle, Transfer, Fetch, PlainAccess, WriteNmitimen, WriteTimer, ReadRdnmi,
         ReadTimeup, WriteMdmaen, WriteHdmaen, WriteSetini, Access, AccessDone, Retire, RetireWith,
         Rti, AcceptNmi, AcceptIrq, Accept, NextInstruction, EntryCycle, EnterNmi, EnterIrq,
         EnterHandler, Between, vars
<1> QED
  BY <1>3, <1>4, <1>5, <1>6

\* Every line has exactly one DRAM refresh, wherever the clock phase puts it.
THEOREM RefreshSafe == Spec => []RefreshOncePerLine
<1>1. Init => RefreshInv
  <2>1. RefreshH \in Nat /\ 0 < RefreshH
    BY SchedulerAssumption
  <2>2. Init => hcounter = 0 /\ ~refreshDone /\ refreshAt = RefreshH /\ refreshLeft = 0
    BY DEF Init, SchedulerInit
  <2> QED BY <2>1, <2>2 DEF RefreshInv
<1>2. TypeOK /\ RefreshInv /\ [Next]_vars => RefreshInv'
  BY RefreshStep
<1>3. TypeOK /\ RefreshInv => RefreshOncePerLine
  BY DEF TypeOK, CoreTypeOK, SchedulerTypeOK, RefreshInv, RefreshOncePerLine
<1> QED
  BY <1>1, <1>2, <1>3, TypeCorrect, PTL DEF Spec

-----------------------------------------------------------------------------
\* Vertical blank, for programs that leave the vertical size alone: RDNMI and the
\* automatic poll happen at one place of the frame, which the beam passes once.
VblankInv ==
  /\ ~io.overscan
  /\ RdnmiWindow
  /\ polls \in 0 .. 1
  /\ polls = 1 => vcounter > VblankLine \/ (vcounter = VblankLine /\ hcounter >= RaiseH)

\* Only a write of SETINI or a reset changes the vertical size.
LEMMA SizeStep ==
  ASSUME "setini" \notin ProgramOps, TypeOK, ~io.overscan, [Next]_vars
  PROVE  ~io'.overscan
<1>1. io \in IoType
  BY DEF TypeOK, CoreTypeOK, SchedulerTypeOK
<1>2. CASE WriteNmitimen
  <2>1. PICK v \in NmitimenValues :
          io' = [io EXCEPT !.nmi = v.nmi, !.hirq = v.hirq, !.virq = v.virq, !.joy = v.joy]
    BY <1>2 DEF WriteNmitimen
  <2> QED BY <1>1, <2>1 DEF IoType
<1>3. CASE WriteTimer
  <2>1. PICK h \in HTimes, v \in VTimes : io' = [io EXCEPT !.htime = h, !.vtime = v]
    BY <1>3 DEF WriteTimer
  <2> QED BY <1>1, <2>1 DEF IoType
<1>4. CASE WriteHdmaen
  <2>1. PICK v \in BOOLEAN : io' = [io EXCEPT !.hdma = v]
    BY <1>4 DEF WriteHdmaen
  <2> QED BY <1>1, <2>1 DEF IoType
<1>5. CASE Reset
  BY <1>5 DEF Reset, SchedulerReset, ResetIo
<1>6. CASE UNCHANGED io
  BY <1>6
<1>7. WriteNmitimen \/ WriteTimer \/ WriteHdmaen \/ Reset \/ UNCHANGED io
  BY DEF Next, Tick, AdvanceMaster, CpuCycle, Transfer, Fetch, PlainAccess, ReadRdnmi, ReadTimeup,
         WriteMdmaen, WriteSetini, Access, Retire, RetireWith, Rti, AcceptNmi, AcceptIrq, Accept,
         NextInstruction, EntryCycle, EnterNmi, EnterIrq, EnterHandler, Between, vars
<1> QED BY <1>2, <1>3, <1>4, <1>5, <1>6, <1>7

\* Every step keeps RDNMI and the poll at their place.
LEMMA VblankStep ==
  ASSUME "setini" \notin ProgramOps, TypeOK, VblankInv, [Next]_vars
  PROVE  VblankInv'
<1>1. /\ hcounter \in Nat /\ vcounter \in Nat /\ nmiFlag \in BOOLEAN /\ polls \in 0 .. 1
      /\ VblankLine \in Nat /\ 0 < VblankLine /\ RaiseH \in Nat /\ EdgeH \in Nat
      /\ RaiseH < EdgeH /\ EdgeH < ShortPeriod /\ ShortPeriod \in Nat /\ Lines \in Nat
  BY SchedulerAssumption DEF TypeOK, CoreTypeOK, SchedulerTypeOK, VblankInv
<1>2. ~io'.overscan
  BY SizeStep DEF VblankInv
<1>3. NmiLine = VblankLine /\ NmiLine' = VblankLine
  BY <1>2 DEF NmiLine, VblankInv
<1>4. CASE Tick
  <2>1. /\ hcounter' = NextH /\ vcounter' = NextV
        /\ nmiFlag' = IF NextH # RaiseH THEN nmiFlag
                      ELSE (NextV = NmiLine) \/ (nmiFlag /\ NextV # 0)
        /\ polls' = IF FrameEnds THEN 0
                    ELSE IF PollDue /\ polls < 2 THEN polls + 1 ELSE polls
    BY <1>4 DEF Tick, AdvanceMaster, RawMaster, MoveBeam, LatchNmi
  <2>2. Period \in Nat /\ Period >= ShortPeriod
    BY BeamType DEF TypeOK, CoreTypeOK
  <2>3. /\ FrameEnds => NextH = 0 /\ NextV = 0
        /\ LineEnds /\ ~FrameEnds => NextH = 0 /\ NextV = vcounter + 1
        /\ ~LineEnds => NextH = hcounter + 1 /\ NextV = vcounter /\ ~FrameEnds
        /\ LineEnds => hcounter >= EdgeH
    BY <1>1, <2>2 DEF NextH, NextV, FrameEnds, LineEnds
  <2>4. /\ vcounter = VblankLine /\ hcounter \in RaiseH .. EdgeH - 1 => nmiFlag
        /\ nmiFlag => vcounter >= VblankLine \/ (vcounter = 0 /\ hcounter < RaiseH)
    BY <1>3 DEF VblankInv, RdnmiWindow
  <2>5. ASSUME NextH # RaiseH PROVE RdnmiWindow'
    <3>1. nmiFlag' = nmiFlag
      BY <2>1, <2>5
    <3>2. NextV = VblankLine /\ NextH \in RaiseH .. EdgeH - 1 => nmiFlag
      BY <1>1, <2>3, <2>4, <2>5
    <3>3. nmiFlag => NextV >= VblankLine \/ (NextV = 0 /\ NextH < RaiseH)
      BY <1>1, <2>3, <2>4, <2>5
    <3> QED BY <1>3, <2>1, <3>1, <3>2, <3>3 DEF RdnmiWindow
  <2>6. ASSUME NextH = RaiseH PROVE RdnmiWindow'
    <3>1. nmiFlag' <=> (NextV = VblankLine \/ (nmiFlag /\ NextV # 0))
      BY <1>3, <2>1, <2>6, Zenon
    <3>2. nmiFlag /\ NextV # 0 => NextV >= VblankLine
      BY <1>1, <2>3, <2>4, <2>6
    <3>3. nmiFlag' => NextV >= VblankLine
      BY <1>1, <3>1, <3>2
    <3> QED BY <1>3, <2>1, <3>1, <3>3 DEF RdnmiWindow
  <2>7. polls' \in 0 .. 1 /\ (polls' = 1 =>
            NextV > VblankLine \/ (NextV = VblankLine /\ NextH >= RaiseH))
    <3>1. polls = 1 => vcounter > VblankLine \/ (vcounter = VblankLine /\ hcounter >= RaiseH)
      BY DEF VblankInv
    <3>2. PollDue => NextV = VblankLine /\ NextH = RaiseH
      BY <1>3 DEF PollDue
    <3>3. CASE FrameEnds
      BY <2>1, <3>3
    <3>4. CASE ~FrameEnds /\ PollDue
      <4>1. polls = 0
        BY <1>1, <2>3, <3>1, <3>2, <3>4
      <4>2. polls' = 1
        BY <2>1, <3>4, <4>1
      <4> QED BY <1>1, <3>2, <3>4, <4>2
    <3>5. CASE ~FrameEnds /\ ~PollDue
      <4>1. polls' = polls
        BY <2>1, <3>5
      <4> QED BY <1>1, <2>3, <3>1, <3>5, <4>1
    <3> QED BY <3>3, <3>4, <3>5
  <2>8. RdnmiWindow'
    BY <2>5, <2>6
  <2> QED BY <1>2, <2>1, <2>7, <2>8 DEF VblankInv
<1>5. CASE Reset
  <2>1. hcounter' = 0 /\ vcounter' = 0 /\ ~nmiFlag' /\ polls' = 0
    BY <1>5 DEF Reset, SchedulerReset
  <2> QED BY <1>1, <1>2, <1>3, <2>1 DEF VblankInv, RdnmiWindow
<1>6. CASE ReadRdnmi
  <2>1. UNCHANGED <<hcounter, vcounter, polls>> /\ nmiFlag' = (nmiFlag /\ RdnmiForced)
    BY <1>6 DEF ReadRdnmi, Access, AccessDone, beam
  <2>2. RdnmiForced <=> vcounter = VblankLine /\ hcounter < EdgeH
    BY <1>3 DEF RdnmiForced
  <2>3. nmiFlag' <=> nmiFlag /\ vcounter = VblankLine /\ hcounter < EdgeH
    BY <2>1, <2>2, Zenon
  <2> QED BY <1>1, <1>2, <1>3, <2>1, <2>3 DEF VblankInv, RdnmiWindow
<1>7. CASE UNCHANGED <<beam, nmiFlag>>
  <2>1. UNCHANGED <<hcounter, vcounter, polls, nmiFlag>>
    BY <1>7 DEF beam
  <2> QED BY <1>2, <1>3, <2>1 DEF VblankInv, RdnmiWindow
<1>8. Tick \/ Reset \/ ReadRdnmi \/ UNCHANGED <<beam, nmiFlag>>
  BY DEF Next, CpuCycle, Transfer, Fetch, PlainAccess, WriteNmitimen, WriteTimer, ReadTimeup,
         WriteMdmaen, WriteHdmaen, WriteSetini, Access, AccessDone, Retire, RetireWith, Rti,
         AcceptNmi, AcceptIrq, Accept, NextInstruction, EntryCycle, EnterNmi, EnterIrq,
         EnterHandler, Between, nmiVars, vars
<1> QED BY <1>4, <1>5, <1>6, <1>7, <1>8

\* A machine starts before vertical blank.
LEMMA VblankInit == Init => VblankInv
<1> SUFFICES ASSUME Init PROVE VblankInv
  OBVIOUS
<1>1. hcounter = 0 /\ vcounter = 0 /\ ~nmiFlag /\ polls = 0 /\ ~io.overscan
  BY DEF Init, SchedulerInit, ResetIo
<1>2. NmiLine = VblankLine /\ 0 < VblankLine
  BY <1>1, SchedulerAssumption DEF NmiLine
<1> QED BY <1>1, <1>2 DEF VblankInv, RdnmiWindow

\* While the program leaves the vertical size alone, RDNMI stands at its rise however
\* often $4210 is read, and never outside vertical blank.
THEOREM RdnmiSafe ==
  ASSUME "setini" \notin ProgramOps
  PROVE  Spec => []RdnmiWindow
<1>1. TypeOK /\ VblankInv /\ [Next]_vars => VblankInv'
  BY VblankStep
<1>2. VblankInv => RdnmiWindow
  BY DEF VblankInv
<1> QED
  BY <1>1, <1>2, VblankInit, TypeCorrect, PTL DEF Spec

\* While the program leaves the vertical size alone, the joypads are polled at most once
\* a frame, for every geometry of the frame.
THEOREM OnePollSafe ==
  ASSUME "setini" \notin ProgramOps
  PROVE  Spec => []OnePollPerFrame
<1>1. TypeOK /\ VblankInv /\ [Next]_vars => VblankInv'
  BY VblankStep
<1>2. VblankInv => OnePollPerFrame
  BY DEF VblankInv, OnePollPerFrame
<1> QED
  BY <1>1, <1>2, VblankInit, TypeCorrect, PTL DEF Spec


-----------------------------------------------------------------------------
\* The machine implements InterruptFrames: the initial state maps to its initial
\* state, and each step maps to one of its steps or to a stutter.
LEMMA RefinementInit == Init => Frames!Init
<1> SUFFICES ASSUME Init PROVE Frames!Init
  OBVIOUS
<1>1. nmiDepth = 0 /\ irqDepth = 0
  BY DEF Init
<1>2. owed = FALSE
  BY DEF Init
<1> QED BY <1>1, <1>2 DEF Frames!Init

\* Every step is one of InterruptFrames or leaves its variables alone.
LEMMA RefinementStep ==
  TypeOK /\ TypeOK' /\ FrameDiscipline /\ [Next]_vars => [Frames!Next]_(Frames!vars)
<1> SUFFICES ASSUME TypeOK, TypeOK', FrameDiscipline, [Next]_vars
             PROVE  [Frames!Next]_(Frames!vars)
  OBVIOUS
<1>1. nmiDepth \in 0 .. 1 /\ irqDepth \in 0 .. 1 /\ owed \in BOOLEAN /\ owed' \in BOOLEAN
  BY DEF TypeOK, CoreTypeOK
<1>2. ASSUME UNCHANGED <<nmiDepth, irqDepth>>, owed' = owed \/ owed' = TRUE
      PROVE  Frames!Edge \/ UNCHANGED Frames!vars
  BY <1>2 DEF Frames!Edge, Frames!vars
<1>3. CASE EnterNmi
  <2>1. nmiDepth = 0 /\ irqDepth = 0 /\ owed
    BY <1>3 DEF EnterNmi, FrameDiscipline, NoFrame
  <2>2. nmiDepth' = 1
    BY <1>3 DEF EnterNmi
  <2> QED BY <1>1, <2>1, <2>2 DEF Frames!Next, Frames!EnterNmi
<1>4. CASE EnterIrq
  <2>1. nmiDepth = 0 /\ irqDepth = 0
    BY <1>4 DEF EnterIrq, FrameDiscipline, NoFrame
  <2>2. nmiDepth' = nmiDepth /\ irqDepth' = 1 /\ owed' = owed
    BY <1>4 DEF EnterIrq
  <2> QED BY <2>1, <2>2 DEF Frames!Next, Frames!EnterIrq
<1>5. CASE Rti
  <2>1. owed' = owed
    BY <1>5 DEF Rti
  <2>2. CASE cpu.e \/ nmiDepth + irqDepth # 1
    BY <1>2, <1>5, <2>1, <2>2 DEF Rti, Frames!Next
  <2>3. CASE ~(cpu.e \/ nmiDepth + irqDepth # 1)
    <3>1. nmiDepth' = 0 /\ irqDepth' = 0 /\ (nmiDepth = 1 \/ irqDepth = 1)
      BY <1>1, <1>5, <2>3 DEF Rti
    <3> QED BY <2>1, <3>1 DEF Frames!Next, Frames!Return
  <2> QED BY <2>2, <2>3
<1>6. CASE Reset
  BY <1>6 DEF Reset, Frames!Next, Frames!Reset
<1>7. CASE UNCHANGED <<nmiDepth, irqDepth>> /\ (owed' = owed \/ owed' = TRUE)
  BY <1>2, <1>7 DEF Frames!Next
<1>8. CASE Tick
  <2>1. UNCHANGED <<nmiDepth, irqDepth>> /\ owed' = (owed \/ NmiEdge)
    BY <1>8 DEF Tick, cpuVars
  <2>2. owed' = owed \/ owed' = TRUE
    BY <1>1, <2>1, Zenon
  <2> QED BY <1>7, <2>1, <2>2
<1>9. CASE WriteNmitimen
  <2>1. PICK v \in NmitimenValues : owed' = (owed \/ (nmiFlag /\ v.nmi /\ ~io.nmi))
    BY <1>9 DEF WriteNmitimen
  <2>2. owed' = owed \/ owed' = TRUE
    BY <1>1, <2>1, Zenon
  <2>3. UNCHANGED <<nmiDepth, irqDepth>>
    BY <1>9 DEF WriteNmitimen, Access
  <2> QED BY <1>7, <2>2, <2>3
<1>10. \/ EnterNmi \/ EnterIrq \/ Rti \/ Reset \/ Tick \/ WriteNmitimen
       \/ UNCHANGED <<nmiDepth, irqDepth, owed>>
  BY DEF Next, CpuCycle, Transfer, Fetch, PlainAccess, WriteTimer, ReadRdnmi, ReadTimeup,
         WriteMdmaen, WriteHdmaen, WriteSetini, Access, Retire, RetireWith, AcceptNmi, AcceptIrq,
         Accept, NextInstruction, EntryCycle, cpuVars, history, vars
<1> QED
  BY <1>3, <1>4, <1>5, <1>6, <1>7, <1>8, <1>9, <1>10

\* No edge is dropped except by an NMI entry, no NMI is entered without one and
\* frames do not nest: what the guest program relies on.
THEOREM Implementation == Spec => ImplementsFrames
<1>1. Init => Frames!Init
  BY RefinementInit
<1>2. TypeOK /\ TypeOK' /\ FrameDiscipline /\ [Next]_vars => [Frames!Next]_(Frames!vars)
  BY RefinementStep
<1> QED
  BY <1>1, <1>2, TypeCorrect, FramesSafe, PTL DEF Spec, ImplementsFrames, Frames!Spec
=============================================================================

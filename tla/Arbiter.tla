------------------------------ MODULE Arbiter ------------------------------
(***************************************************************************)
(* DMA/HDMA arbitration of civilization_dma.c.  Every CPU cycle first asks *)
(* civ_dma_process_cpu_cycle what is due: one shared start-delay latch,    *)
(* then HDMA transfer, HDMA initialisation and manual DMA, in that order.  *)
(* A manual DMA asks again after its start-up and after every byte, so an  *)
(* HDMA request raised meanwhile runs nested in it.  What a transfer       *)
(* copies is abstracted; how long it takes and what it leaves behind is    *)
(* not.                                                                    *)
(***************************************************************************)
EXTENDS Scheduler

CONSTANTS
  Speeds,     \* {6, 8, 12}: clocks of a CPU cycle (civ_cpu_bus_speed)
  ClockMod,   \* a common multiple of Speeds and Unit: dma_clock_counter wraps there
  DmaSizes    \* byte counts the guest gives a manual DMA

ASSUME ArbiterAssumption ==
  /\ Speeds \subseteq Nat \ {0} /\ Speeds # {}
  /\ ClockMod \in Nat \ {0}
  /\ \A s \in Speeds : ClockMod % s = 0
  /\ DmaSizes \subseteq Nat \ {0}

VARIABLES
  mdma,       \* dma_pending_mask # 0
  size,       \* bytes the armed or running manual DMA still has to start
  slots,      \* start-up slots (global, channel) it still has to pay
  hdma2,      \* hdma2.initialized / finished / do_transfer
  pc,         \* where the one C call chain stands
  speed,      \* clocks of the current CPU cycle, 0 between cycles
  dmaClock    \* dma_clock_counter of the running manual DMA, mod ClockMod

dmaVars == <<mdma, size, slots, hdma2, dmaClock>>

ArbiterTypeOK ==
  /\ mdma \in BOOLEAN /\ size \in Nat /\ slots \in 0 .. 1
  /\ hdma2 \in [initialized : BOOLEAN, finished : BOOLEAN, doTransfer : BOOLEAN]
  /\ pc \in {"idle", "access", "hdma", "mdma", "nested", "mdmaEnd", "halted"}
  /\ speed \in Speeds \cup {0}
  /\ dmaClock \in 0 .. ClockMod - 1

HdmaCold == [initialized |-> FALSE, finished |-> FALSE, doTransfer |-> FALSE]

ArbiterInit ==
  /\ mdma = FALSE /\ size = 0 /\ slots = 0 /\ hdma2 = HdmaCold
  /\ pc = "idle" /\ speed = 0 /\ dmaClock = 0

ArbiterReset ==
  /\ mdma' = FALSE /\ size' = 0 /\ slots' = 0 /\ hdma2' = HdmaCold
  /\ pc' = "idle" /\ speed' = 0 /\ dmaClock' = 0

-----------------------------------------------------------------------------
\* Mutant: a locked cycle swallows the edge it should defer.
SampleLosingEdge(lock) ==
  /\ nmiCounter' = IF nmiCounter = 2 THEN 1 ELSE 0
  /\ nmiPending' = IF nmiCounter = 1 THEN ~lock ELSE nmiPending

\* civ_cpu_sample_interrupts: the edge detector, held back by the DMA lock.
SampleInterrupts(lock) ==
  /\ nmiCounter' = CASE nmiCounter = 2 -> 1
                     [] nmiCounter = 1 -> IF lock THEN 1 ELSE 0
                     [] OTHER          -> 0
  /\ nmiPending' = IF nmiCounter = 1 THEN ~lock ELSE nmiPending

\* The access itself, after arbitration: sample, then advance by the speed.
StartAccess(s, lock) ==
  /\ SampleInterrupts(lock)
  /\ left' = s /\ pc' = "access"

\* civ_fail_frontier: the cycle is abandoned, its access is still completed.
Abort(reason) ==
  /\ failed' = reason
  /\ left' = 0 /\ pc' = "access"

\* Clocks to the next Unit boundary, and back to the CPU cycle's own grid.
SyncStart       == Unit - phase
SyncEnd(s, clk) == s - (clk % s)

\* Clocks of an HDMA initialisation: overhead, line counter, pointer bytes.
InitClocks(fin) == Unit * (IF fin THEN 3 ELSE 4)

\* Clocks of one scanline: overhead, two data bytes if any, the speculative
\* counter read and up to two pointer bytes when the line counter ran out.
ScanClocks(reload) == Unit * (2 + reload + IF hdma2.doTransfer THEN 2 ELSE 0)

\* What the table makes of channel 2: at init an immediate terminator or a live
\* descriptor, on a line no reload (0), a terminator (1) or a new descriptor (2).
\* Mutant: a table that ends at once leaves the channel uninitialised.
InitOutcomeCold(fin) == [initialized |-> ~fin, finished |-> fin, doTransfer |-> TRUE]
InitOutcome(fin) == [initialized |-> TRUE, finished |-> fin, doTransfer |-> TRUE]
ScanOutcomes(reload) ==
  IF reload = 0 THEN {[hdma2 EXCEPT !.doTransfer = d] : d \in BOOLEAN}
  ELSE {[hdma2 EXCEPT !.doTransfer = TRUE, !.finished = (reload = 1)]}

-----------------------------------------------------------------------------
\* civ_dma_process_cpu_cycle, one action per outcome.

\* Mutant: the lock is reported although no transfer ran.
NothingDueLocked(s) ==
  /\ ~mdma /\ ~initPending /\ ~transferPending
  /\ StartAccess(s, TRUE)
  /\ UNCHANGED <<dmaVars, requests, failed>>

\* Mutant: the early return forgets dma_pending_mask.
NothingDueButMdma(s) ==
  /\ ~initPending /\ ~transferPending
  /\ StartAccess(s, FALSE)
  /\ UNCHANGED <<dmaVars, requests, failed>>

NothingDue(s) ==
  /\ ~mdma /\ ~initPending /\ ~transferPending
  /\ StartAccess(s, FALSE)
  /\ UNCHANGED <<dmaVars, requests, failed>>

ClearStartDelay(s) ==
  /\ mdma \/ initPending \/ transferPending
  /\ startDelay /\ startDelay' = FALSE
  /\ StartAccess(s, FALSE)
  /\ UNCHANGED <<dmaVars, initPending, transferPending, failed>>

\* Which of the three requests this cycle serves.
\* Mutant: HDMA does not wait for the shared start delay.
TransferTurnEarly == transferPending
TransferTurn == ~startDelay /\ transferPending
InitTurn     == ~startDelay /\ ~transferPending /\ initPending
MdmaTurn     == ~startDelay /\ ~transferPending /\ ~initPending /\ mdma

\* civ_hdma2_scanline outside a manual DMA.
RunTransfer(s) ==
  /\ TransferTurn /\ transferPending' = FALSE
  /\ UNCHANGED <<mdma, size, slots, dmaClock, startDelay, initPending>>
  /\ IF ~io.hdma THEN StartAccess(s, FALSE) /\ UNCHANGED <<hdma2, failed>>
     ELSE IF ~hdma2.initialized
       THEN Abort("uninitialized") /\ UNCHANGED <<hdma2, nmiCounter, nmiPending>>
     ELSE IF hdma2.finished THEN StartAccess(s, TRUE) /\ UNCHANGED <<hdma2, failed>>
     ELSE \E reload \in 0 .. 2 :
       LET clocks == SyncStart + ScanClocks(reload)
       IN  /\ hdma2' \in ScanOutcomes(reload)
           /\ left' = clocks + SyncEnd(s, clocks) /\ pc' = "hdma"
           /\ UNCHANGED <<nmiCounter, nmiPending, failed>>

\* Mutant: with HDMA off the request is not taken back.
InitServedUnlessOff == initPending' = ~io.hdma
InitServed == initPending' = FALSE

\* civ_hdma2_init outside a manual DMA; with HDMA off it only clears channel 2.
RunInit(s) ==
  /\ InitTurn /\ InitServed
  /\ UNCHANGED <<mdma, size, slots, dmaClock, startDelay, transferPending, failed>>
  /\ IF ~io.hdma THEN StartAccess(s, FALSE) /\ hdma2' = HdmaCold
     ELSE \E fin \in BOOLEAN :
       LET clocks == SyncStart + InitClocks(fin)
       IN  /\ hdma2' = InitOutcome(fin)
           /\ left' = clocks + SyncEnd(s, clocks) /\ pc' = "hdma"
           /\ UNCHANGED <<nmiCounter, nmiPending>>

\* civ_dma_execute_pending up to its first arbitration point.
StartManualDma(s) ==
  /\ MdmaTurn /\ mdma' = FALSE
  /\ left' = SyncStart + Unit /\ dmaClock' = (SyncStart + Unit) % ClockMod
  /\ slots' = 1 /\ pc' = "mdma"
  /\ UNCHANGED <<size, hdma2, requests, failed, nmiCounter, nmiPending>>

ProcessCpuCycle(s) ==
  /\ pc = "idle" /\ failed = NoFailure
  /\ speed' = s
  /\ \/ NothingDue(s)
     \/ ClearStartDelay(s)
     \/ RunTransfer(s)
     \/ RunInit(s)
     \/ StartManualDma(s)

-----------------------------------------------------------------------------
\* The next slot or byte of a manual DMA, or its resynchronisation.  clk is the
\* dma_clock_counter so far.
NextByte(clk) ==
  IF slots + size > 0
    THEN /\ left' = Unit /\ dmaClock' = (clk + Unit) % ClockMod /\ pc' = "mdma"
         /\ slots' = 0 /\ size' = IF slots > 0 THEN size ELSE size - 1
    ELSE /\ left' = SyncEnd(speed, clk) /\ dmaClock' = clk /\ pc' = "mdmaEnd"
         /\ UNCHANGED <<slots, size>>

\* An HDMA block nested in a manual DMA: no resynchronisation of its own.
Nest(clocks) ==
  /\ left' = clocks /\ dmaClock' = (dmaClock + clocks) % ClockMod
  /\ pc' = "nested" /\ UNCHANGED <<slots, size>>

\* Mutant: a manual DMA runs to its end without looking at HDMA.
CheckNoHdma ==
  /\ pc = "mdma" /\ AdvanceDone /\ NextByte(dmaClock)
  /\ UNCHANGED <<mdma, speed, hdma2, requests, failed>>

\* civ_dma_process_nested_hdma after a slot or byte of the manual DMA.
CheckNestedHdma ==
  /\ pc = "mdma" /\ AdvanceDone
  /\ UNCHANGED <<mdma, speed>>
  /\ \/ /\ startDelay /\ startDelay' = FALSE /\ NextByte(dmaClock)
        /\ UNCHANGED <<hdma2, initPending, transferPending, failed>>
     \/ /\ TransferTurn /\ transferPending' = FALSE
        /\ UNCHANGED <<startDelay, initPending>>
        /\ IF ~io.hdma \/ (hdma2.initialized /\ hdma2.finished)
             THEN NextByte(dmaClock) /\ UNCHANGED <<hdma2, failed>>
           ELSE IF ~hdma2.initialized
             THEN Abort("uninitialized") /\ UNCHANGED <<hdma2, slots, size, dmaClock>>
           ELSE \E reload \in 0 .. 2 :
             /\ hdma2' \in ScanOutcomes(reload) /\ Nest(ScanClocks(reload))
             /\ UNCHANGED failed
     \/ /\ InitTurn /\ initPending' = FALSE
        /\ UNCHANGED <<startDelay, transferPending, failed>>
        /\ IF ~io.hdma THEN NextByte(dmaClock) /\ hdma2' = HdmaCold
           ELSE \E fin \in BOOLEAN :
                  hdma2' = InitOutcome(fin) /\ Nest(InitClocks(fin))
     \/ /\ ~startDelay /\ ~transferPending /\ ~initPending /\ NextByte(dmaClock)
        /\ UNCHANGED <<hdma2, requests, failed>>

\* Back from the nested HDMA: no second arbitration before the next byte.
NestedDone ==
  /\ pc = "nested" /\ AdvanceDone
  /\ NextByte(dmaClock)
  /\ UNCHANGED <<mdma, speed, hdma2, requests, failed>>

\* The transfer is over: the cycle that ran it is locked for the edge detector.
TransferDone ==
  /\ pc \in {"hdma", "mdmaEnd"} /\ AdvanceDone
  /\ StartAccess(speed, TRUE) /\ dmaClock' = 0
  /\ UNCHANGED <<mdma, size, slots, speed, hdma2, requests, failed>>

\* The scheduler failed under a transfer, which gives up with the cycle.
TransferFailed ==
  /\ pc \in {"hdma", "mdma", "nested", "mdmaEnd"} /\ AdvanceDone
  /\ Abort(failed)
  /\ UNCHANGED <<dmaVars, speed, requests, nmiCounter, nmiPending>>
=============================================================================

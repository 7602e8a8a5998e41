------------------------- MODULE MachineProperties -------------------------
(***************************************************************************)
(* What the scheduler, the arbiter and the interrupt logic promise, for    *)
(* whatever the guest program does.                                        *)
(***************************************************************************)
EXTENDS Machine

CONSTANTS
  MdmaBound,     \* CPU cycles an armed manual DMA may wait
  DeferralBound  \* CPU cycles in a row that may hold a mature NMI edge back

\* Every NMI edge, from the beam or from enabling NMI under RDNMI, is either in
\* the two-sample detector or pending until an NMI entry answers it, whatever
\* DMA locks fall on the sampling cycles; and nothing else is ever pending
\* (civ_cpu_sample_interrupts, the $4200 write, civ_nmi_enter_native).
EdgeAccounting == owed <=> (nmiCounter > 0 \/ nmiPending)

\* The timer IRQ line stands only while a timer is enabled, and neither its
\* transition nor its hold time outlives it (civ_latch_timer_irq, $4200, $4211).
TimerIrqConsistent ==
  /\ irqLine => io.hirq \/ io.virq
  /\ irqTransition => irqLine
  /\ irqHold > 0 => irqLine

\* Interrupts as the guest sees them (InterruptFrames), implemented by depths,
\* the edge detector and the sampled lines.
Frames == INSTANCE InterruptFrames WITH
  frame   <- IF nmiDepth = 1 THEN "nmi" ELSE IF irqDepth = 1 THEN "irq" ELSE "main",
  request <- owed

\* The machine implements InterruptFrames: no edge is dropped except by an NMI
\* entry, no NMI is entered without one, and frames never nest.
ImplementsFrames == Frames!Spec

\* At most one interrupt frame is live, none is live while another is entered,
\* an entry under way is justified by an edge or a standing line that cannot be
\* withdrawn during the entry's cycles, and an IRQ only interrupts P.I = 0.
FrameDiscipline ==
  /\ nmiDepth + irqDepth <= 1
  /\ stage \in {"nmi", "irq"} => NoFrame
  /\ stage = "nmi" => owed
  /\ stage = "irq" => irqLine /\ ~cpu.i
  /\ irqDepth = 1 => ~cpu.saved

\* The start-delay latch shared by three requesters never outlives the requests
\* (dma_start_delay): a stale one would delay an unrelated later transfer.
StartDelayJustified == startDelay => mdma \/ initPending \/ transferPending

\* The DRAM refresh is inserted exactly once per line (civ_timing_advance_master
\* tests the position by equality, after every single clock).
RefreshOncePerLine ==
  /\ hcounter > refreshAt => refreshDone
  /\ refreshDone => hcounter >= refreshAt
  /\ refreshLeft > 0 => refreshDone /\ hcounter + refreshLeft = refreshAt + RefreshClocks

\* A program that polls $4210 cannot miss vertical blank: the flag stands from
\* RaiseH to EdgeH of the NMI line however often it is read, and it is never
\* seen outside vertical blank.
RdnmiWindow ==
  /\ vcounter = NmiLine /\ hcounter \in RaiseH .. EdgeH - 1 => nmiFlag
  /\ nmiFlag => vcounter >= VblankLine \/ (vcounter = 0 /\ hcounter < RaiseH)

\* The automatic joypad read runs at most once a frame.
OnePollPerFrame == polls <= 1

-----------------------------------------------------------------------------
\* Room for HDMA in the frame.  S bounds a CPU cycle.  A request is raised during a leg
\* of the chain civ_cpu_access makes and then waits: a last DMA byte, its resynchronisation
\* and access, a cycle that re-arms the shared delay and one that clears it, or three
\* bytes.  A block of at most 7 (a scanline) or 5 (an initialisation) Units, its
\* resynchronisation and its access follow.  With S = 12 and the C code's numbers:
\* 172 clocks against 1104 for the initialisation, 1232 against 1360 for a line.
HdmaFits(S) ==
  /\ \A s \in Speeds : s <= S
  /\ 0 < InitH /\ RefreshH + RefreshClocks < HdmaH
  /\ \A wait \in {4 * S, Unit + 3 * S, 3 * Unit} :
       /\ InitH + Unit + RefreshClocks + wait + 5 * Unit + 2 * S <= HdmaH
       /\ HdmaH + wait + 7 * Unit + 2 * S < ShortPeriod

\* HDMA is done with a line before the next one begins: civ_timing_raw_master
\* copies the PPU registers of a line at its first clock, so a transfer that is
\* still waiting or running there would land one line late.
HdmaBeforeLatch ==
  hcounter = 0 => ~transferPending /\ (pc \in {"hdma", "nested"} => failed # NoFailure)

\* No request is raised while the previous one of its kind still waits: the
\* code fails closed on each of the three.
NoDuplicateRequest == failed \notin {"doubleInit", "doubleTransfer", "doubleMdma"}

\* A line's HDMA without its frame's initialisation, on which the DMA code fails closed,
\* is only met by a program that changes HDMAEN in the visible part of that frame, or
\* what is visible: the vertical size bit turns lines of vertical blank into HDMA lines.
NoDmaFrontier == failed = "uninitialized" => stray

\* An armed manual DMA starts within MdmaBound CPU cycles, although HDMA takes
\* precedence over it and every new request restarts the shared delay.
MdmaServed == mdmaWait <= MdmaBound

\* DMA locks hold a mature NMI edge back for DeferralBound CPU cycles at most.
DeferralBounded == deferred <= DeferralBound

-----------------------------------------------------------------------------
\* The host keeps running the machine, and nothing else blocks it.
FairSpec == Spec /\ WF_vars(Next)

\* The beam always reaches another frame, which is what lets civ_run_to_frame
\* end: no chain of instructions, DMA or failures stops the master clock.
FramesGoOn == []<>(vcounter = 0 /\ hcounter = 0)
=============================================================================

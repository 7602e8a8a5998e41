-------------------------- MODULE InterruptFrames --------------------------
(***************************************************************************)
(* What the guest program is promised about interrupts: an NMI edge stays  *)
(* requested until an NMI entry answers it, an NMI is never entered        *)
(* without a request, and an interrupt frame is entered from the main      *)
(* program only and left only by returning to it.                          *)
(***************************************************************************)
VARIABLES
  frame,    \* "main", or the interrupt frame that is live
  request   \* an NMI edge is owed an entry

vars == <<frame, request>>

Init == frame = "main" /\ request = FALSE

\* The NMI line drops, or NMI is enabled while RDNMI is high.
Edge == request' = TRUE /\ UNCHANGED frame

\* An NMI entry answers every edge seen so far; one more may be in the making.
EnterNmi ==
  /\ frame = "main" /\ request
  /\ frame' = "nmi" /\ request' \in BOOLEAN

EnterIrq == frame = "main" /\ frame' = "irq" /\ UNCHANGED request

Return == frame # "main" /\ frame' = "main" /\ UNCHANGED request

\* The console is reset.
Reset == frame' = "main" /\ request' = FALSE

Next == Edge \/ EnterNmi \/ EnterIrq \/ Return \/ Reset

Spec == Init /\ [][Next]_vars
=============================================================================

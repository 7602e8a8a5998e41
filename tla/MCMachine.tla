---------------------------- MODULE MCMachine -------------------------------
EXTENDS MachineProperties

\* $4200: everything off, NMI with the H or the HV timer, the V timer.
Nmitimen == {
  [nmi |-> FALSE, hirq |-> FALSE, virq |-> FALSE, joy |-> FALSE],
  [nmi |-> TRUE,  hirq |-> TRUE,  virq |-> TRUE,  joy |-> TRUE],
  [nmi |-> TRUE,  hirq |-> TRUE,  virq |-> FALSE, joy |-> TRUE],
  [nmi |-> FALSE, hirq |-> FALSE, virq |-> TRUE,  joy |-> FALSE]}

\* $4200: NMI off or on, nothing else.
NmiOnly == {[nmi |-> n, hirq |-> FALSE, virq |-> FALSE, joy |-> FALSE] : n \in BOOLEAN}
=============================================================================

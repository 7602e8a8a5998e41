----------------------- MODULE MachineTiming_proofs -------------------------
(***************************************************************************)
(* Proofs about when things happen: HDMA is over before its line is, a     *)
(* request never meets an unserved one of its kind, an armed manual DMA    *)
(* and a mature NMI edge wait for three CPU cycles at most.  All of it     *)
(* rests on HdmaFits, the room the frame leaves for HDMA, and on one       *)
(* observation: the position at which the leg under way will end, the      *)
(* inserted refresh included, does not change while the beam moves along   *)
(* a line.                                                                 *)
(***************************************************************************)
EXTENDS Machine_proofs

\* The refresh clocks this line still owes, and where the leg under way ends.
RefreshDue == IF refreshDone THEN refreshLeft ELSE RefreshClocks
LegEnd     == hcounter + left + RefreshDue

\* Clocks from the end of the leg until the arbiter serves a pending HDMA request, at
\* most: the access of the cycle, one that stores to $420B and so re-arms the delay,
\* one that clears it.
Backlog(S) ==
  CASE pc = "mdma" /\ startDelay    -> IF slots + size > 0 THEN Unit ELSE 3 * S
    [] pc = "mdmaEnd"               -> IF startDelay THEN 3 * S ELSE 2 * S
    [] pc = "access" /\ startDelay  -> 2 * S
    [] pc = "access" /\ ~startDelay -> IF stage = "body" THEN S ELSE 0
    [] pc = "idle" /\ startDelay    -> IF stage = "body" THEN 2 * S ELSE S
    [] OTHER -> 0

\* No HDMA request is raised from here to position t of this line.
Quiet(t) == \/ vcounter = 0 /\ 0 < hcounter /\ initAt <= hcounter /\ t < HdmaH
            \/ HdmaH <= hcounter /\ t < ShortPeriod

\* A failed machine has no clock left to run, nor has one between two cycles.
Stopped ==
  /\ failed # NoFailure => pc = "halted" \/ (pc = "access" /\ AdvanceDone)
  /\ pc \in {"idle", "halted"} => AdvanceDone

LegsBounded(S) ==
  /\ initAt <= InitH + Unit - 1
  /\ pc \in {"access", "mdmaEnd"} => left <= S
  /\ pc = "mdma" => left <= (IF slots = 1 THEN 2 * Unit ELSE Unit)

InitInTime(S) ==
  initPending => /\ vcounter = 0 /\ 0 < hcounter /\ initAt <= hcounter
                 /\ LegEnd + Backlog(S) + 5 * Unit + 2 * S < HdmaH

TransferInTime(S) ==
  transferPending => /\ HdmaH <= hcounter
                     /\ LegEnd + Backlog(S) + 7 * Unit + 2 * S < ShortPeriod

\* A running block meets no request, nor does the access that follows it.
BlockInTime(S) ==
  pc \in {"hdma", "nested"} =>
    /\ ~initPending /\ ~transferPending
    /\ Quiet(LegEnd + IF pc = "hdma" THEN S ELSE 0)

Timely(S) == /\ Stopped /\ LegsBounded(S)
             /\ InitInTime(S) /\ TransferInTime(S) /\ BlockInTime(S)

\* What TypeOK and the other invariants give the proofs below.
Known == TypeOK /\ Shape /\ RefreshInv

-----------------------------------------------------------------------------
\* HdmaFits as inequalities between natural numbers.
LEMMA Room ==
  ASSUME NEW S \in Nat, HdmaFits(S)
  PROVE  /\ \A s \in Speeds : s \in Nat \ {0} /\ s <= S
         /\ S > 0
         /\ Unit \in Nat \ {0} /\ InitH \in Nat \ {0} /\ HdmaH \in Nat
         /\ RefreshH \in Nat /\ RefreshClocks \in Nat
         /\ ShortPeriod \in Nat /\ LinePeriod \in Nat /\ Lines \in Nat \ {0}
         /\ ShortPeriod <= LinePeriod /\ RefreshH + RefreshClocks < HdmaH
         /\ InitH + Unit + RefreshClocks + 4 * S + 5 * Unit + 2 * S <= HdmaH
         /\ InitH + Unit + RefreshClocks + Unit + 3 * S + 5 * Unit + 2 * S <= HdmaH
         /\ InitH + Unit + RefreshClocks + 3 * Unit + 5 * Unit + 2 * S <= HdmaH
         /\ HdmaH + 4 * S + 7 * Unit + 2 * S < ShortPeriod
         /\ HdmaH + Unit + 3 * S + 7 * Unit + 2 * S < ShortPeriod
         /\ HdmaH + 3 * Unit + 7 * Unit + 2 * S < ShortPeriod
<1>1. \A s \in Speeds : s \in Nat \ {0} /\ s <= S
  BY ArbiterAssumption DEF HdmaFits
<1>2. S > 0
  <2>1. PICK s : s \in Speeds
    BY ArbiterAssumption
  <2> QED BY <1>1, <2>1
<1>3. /\ Unit \in Nat \ {0} /\ InitH \in Nat \ {0} /\ HdmaH \in Nat
      /\ RefreshH \in Nat /\ RefreshClocks \in Nat
      /\ ShortPeriod \in Nat /\ LinePeriod \in Nat /\ Lines \in Nat \ {0}
      /\ ShortPeriod <= LinePeriod /\ RefreshH + RefreshClocks < HdmaH
  BY SchedulerAssumption DEF HdmaFits
<1>4. ASSUME NEW wait \in {4 * S, Unit + 3 * S, 3 * Unit}
      PROVE  /\ InitH + Unit + RefreshClocks + wait + 5 * Unit + 2 * S <= HdmaH
             /\ HdmaH + wait + 7 * Unit + 2 * S < ShortPeriod
  BY DEF HdmaFits
<1>5. /\ InitH + Unit + RefreshClocks + 4 * S + 5 * Unit + 2 * S <= HdmaH
      /\ HdmaH + 4 * S + 7 * Unit + 2 * S < ShortPeriod
  BY <1>4
<1>6. /\ InitH + Unit + RefreshClocks + (Unit + 3 * S) + 5 * Unit + 2 * S <= HdmaH
      /\ HdmaH + (Unit + 3 * S) + 7 * Unit + 2 * S < ShortPeriod
  BY <1>4
<1>7. /\ InitH + Unit + RefreshClocks + 3 * Unit + 5 * Unit + 2 * S <= HdmaH
      /\ HdmaH + 3 * Unit + 7 * Unit + 2 * S < ShortPeriod
  BY <1>4
<1> QED BY <1>1, <1>2, <1>3, <1>5, <1>6, <1>7

\* The HDMA blocks and the resynchronisations around them are as long as HdmaFits says.
LEMMA BlockLengths ==
  ASSUME TypeOK, NEW S \in Nat, HdmaFits(S)
  PROVE  /\ SyncStart \in 1 .. Unit
         /\ \A fin \in BOOLEAN : InitClocks(fin) \in 0 .. 4 * Unit
         /\ \A reload \in 0 .. 2 : ScanClocks(reload) \in 0 .. 6 * Unit
         /\ \A s \in Speeds, clk \in Nat : SyncEnd(s, clk) \in 1 .. S
<1>1. Unit \in Nat \ {0} /\ \A s \in Speeds : s \in Nat \ {0} /\ s <= S
  BY Room
<1>2. SyncStart \in 1 .. Unit
  BY <1>1 DEF SyncStart, TypeOK, CoreTypeOK, SchedulerTypeOK
<1>3. ASSUME NEW fin \in BOOLEAN PROVE InitClocks(fin) \in 0 .. 4 * Unit
  <2>1. CASE fin
    BY <1>1, <2>1 DEF InitClocks
  <2>2. CASE ~fin
    BY <1>1, <2>2 DEF InitClocks
  <2> QED BY <2>1, <2>2
<1>4. ASSUME NEW reload \in 0 .. 2 PROVE ScanClocks(reload) \in 0 .. 6 * Unit
  <2>1. PICK n \in 0 .. 6 : n = 2 + reload + IF hdma2.doTransfer THEN 2 ELSE 0
    OBVIOUS
  <2>2. n \in {0, 1, 2, 3, 4, 5, 6} /\ ScanClocks(reload) = Unit * n
    BY <2>1 DEF ScanClocks
  <2>3. Unit * 0 = 0 /\ Unit * 1 = Unit /\ Unit * 2 = 2 * Unit /\ Unit * 3 = 3 * Unit
        /\ Unit * 4 = 4 * Unit /\ Unit * 5 = 5 * Unit /\ Unit * 6 = 6 * Unit
    BY <1>1
  <2> QED BY <1>1, <2>2, <2>3
<1>5. ASSUME NEW s \in Speeds, NEW clk \in Nat PROVE SyncEnd(s, clk) \in 1 .. S
  <2>1. s \in Nat \ {0} /\ s <= S
    BY <1>1
  <2>2. SyncEnd(s, clk) \in 1 .. s
    BY <2>1, SyncEndType
  <2> QED BY <2>1, <2>2
<1> QED BY <1>2, <1>3, <1>4, <1>5

\* One clock along a line brings the end of the leg no nearer and no farther; once the
\* refresh is over only the leg's own clocks are left.
LEMMA LegEndStays ==
  ASSUME Known, RefreshInv', TypeOK', Tick
  PROVE  /\ RefreshDue \in 0 .. RefreshClocks /\ RefreshDue' \in 0 .. RefreshClocks
         /\ left > 0 \/ RefreshDue > 0
         /\ left' <= left
         /\ ~LineEnds => LegEnd' = LegEnd
         /\ hcounter >= RefreshH + RefreshClocks => RefreshDue = 0
         /\ hcounter' >= RefreshH + RefreshClocks => RefreshDue' = 0
<1>1. /\ hcounter \in Nat /\ hcounter' \in Nat /\ left \in Nat /\ left' \in Nat
      /\ refreshLeft \in Nat /\ refreshLeft' \in Nat
      /\ refreshDone \in BOOLEAN /\ refreshDone' \in BOOLEAN
      /\ RefreshH \in Nat /\ RefreshClocks \in Nat
  BY SchedulerAssumption DEF Known, TypeOK, CoreTypeOK, SchedulerTypeOK
<1>2. RefreshDue \in 0 .. RefreshClocks
  BY <1>1 DEF Known, RefreshInv, RefreshDue
<1>3. RefreshDue' \in 0 .. RefreshClocks
  BY <1>1 DEF RefreshInv, RefreshDue
<1>4. /\ left > 0 \/ refreshLeft > 0
      /\ left' = IF refreshLeft > 0 THEN left ELSE left - 1
      /\ refreshLeft' = IF RefreshStarts THEN RefreshClocks
                        ELSE IF refreshLeft > 0 THEN refreshLeft - 1 ELSE 0
      /\ refreshDone' = (RefreshStarts \/ (refreshDone /\ ~LineEnds))
      /\ hcounter' = NextH
  BY DEF Tick, AdvanceMaster, RawMaster, MoveBeam, NextRefreshDone
<1>5. left > 0 \/ RefreshDue > 0
  BY <1>1, <1>4 DEF Known, RefreshInv, RefreshDue
<1>6. left' <= left
  BY <1>1, <1>4
<1>7. ASSUME ~LineEnds PROVE LegEnd' = LegEnd
  <2>1. hcounter' = hcounter + 1
    BY <1>4, <1>7 DEF NextH
  <2>2. CASE RefreshStarts
    <3>1. refreshLeft = 0 /\ ~refreshDone
      BY <1>7, <2>2 DEF RefreshStarts
    <3>2. refreshDone' /\ refreshLeft' = RefreshClocks
      BY <1>4, <2>2, Zenon
    <3> QED BY <1>1, <1>4, <2>1, <3>1, <3>2 DEF LegEnd, RefreshDue
  <2>3. CASE ~RefreshStarts
    <3>1. refreshDone' = refreshDone
      <4>1. refreshDone' <=> refreshDone
        BY <1>4, <1>7, <2>3, Zenon
      <4> QED BY <1>1, <4>1
    <3>2. refreshLeft' = IF refreshLeft > 0 THEN refreshLeft - 1 ELSE 0
      BY <1>4, <2>3
    <3>3. refreshLeft > 0 => refreshDone
      BY DEF Known, RefreshInv
    <3> QED BY <1>1, <1>4, <2>1, <3>1, <3>2, <3>3 DEF LegEnd, RefreshDue
  <2> QED BY <2>2, <2>3
<1>8. hcounter >= RefreshH + RefreshClocks => RefreshDue = 0
  BY <1>1 DEF Known, RefreshInv, RefreshDue
<1>9. hcounter' >= RefreshH + RefreshClocks => RefreshDue' = 0
  BY <1>1 DEF RefreshInv, RefreshDue
<1> QED BY <1>2, <1>3, <1>5, <1>6, <1>7, <1>8, <1>9

-----------------------------------------------------------------------------
\* What one clock does to the requests and to what surrounds them.
LEMMA TickEffect ==
  ASSUME Tick
  PROVE  /\ hcounter' = NextH /\ vcounter' = NextV /\ initAt' = NextInitAt
         /\ initPending' = (initPending \/ InitDue)
         /\ transferPending' = (transferPending \/ TransferDue)
         /\ startDelay' = \/ startDelay
                          \/ InitDue /\ ~initPending
                          \/ TransferDue /\ ~transferPending
         /\ failed' = IF InitDue /\ initPending THEN "doubleInit"
                      ELSE IF TransferDue /\ transferPending THEN "doubleTransfer"
                      ELSE failed
         /\ UNCHANGED <<pc, slots, size, stage, mdma, hdma2, io, cycles, deferred, mdmaWait>>
BY DEF Tick, AdvanceMaster, RawMaster, MoveBeam, ScheduleHdma, dmaVars, cpuVars

\* While the clock runs the machine has not failed and stands in one of five places.
LEMMA Running ==
  ASSUME Known, RefreshInv', TypeOK', Stopped, Tick
  PROVE  failed = NoFailure /\ pc \in {"access", "mdma", "mdmaEnd", "hdma", "nested"}
<1>1. ~AdvanceDone
  BY DEF Known, TypeOK, CoreTypeOK, SchedulerTypeOK, Tick, AdvanceMaster, AdvanceDone
<1>2. pc \notin {"idle", "halted"}
  BY <1>1 DEF Stopped
<1>3. pc \in {"idle", "access", "hdma", "mdma", "nested", "mdmaEnd", "halted"}
  BY DEF Known, TypeOK, CoreTypeOK, ArbiterTypeOK
<1> QED BY <1>1, <1>2, <1>3 DEF Stopped

\* A line ends with no request waiting and no block running, so a new line begins
\* with none; nothing is raised at its very first position.
LEMMA LineTurns ==
  ASSUME NEW S \in Nat, HdmaFits(S), Known, RefreshInv', TypeOK', Timely(S), Tick, LineEnds
  PROVE  /\ ~initPending /\ ~transferPending /\ pc \notin {"hdma", "nested"}
         /\ ~InitDue /\ ~TransferDue
<1>1. /\ Unit \in Nat \ {0} /\ HdmaH \in Nat /\ InitH \in Nat \ {0} /\ ShortPeriod \in Nat
      /\ S > 0 /\ HdmaH + Unit + 3 * S + 7 * Unit + 2 * S < ShortPeriod
      /\ InitH + Unit + RefreshClocks + 4 * S + 5 * Unit + 2 * S <= HdmaH
      /\ RefreshClocks \in Nat
  BY Room
<1>2. /\ hcounter \in Nat /\ vcounter \in Nat /\ left \in Nat /\ RefreshDue \in Nat
      /\ initPending \in BOOLEAN /\ transferPending \in BOOLEAN
  BY LegEndStays DEF Known, TypeOK, CoreTypeOK, SchedulerTypeOK
<1>3. Period \in Nat /\ Period >= ShortPeriod /\ NextPhase \in Nat
  BY BeamType DEF Known, TypeOK, CoreTypeOK
<1>4. hcounter + 1 >= ShortPeriod /\ NextH = 0
  BY <1>1, <1>2, <1>3 DEF LineEnds, NextH
<1>5. left > 0 \/ RefreshDue > 0
  BY LegEndStays
<1>6. LegEnd \in Nat /\ LegEnd >= ShortPeriod
  BY <1>1, <1>2, <1>4, <1>5 DEF LegEnd
<1>7. Backlog(S) \in Nat
  BY <1>1 DEF Backlog
<1>8. ~initPending
  BY <1>1, <1>6, <1>7 DEF Timely, InitInTime
<1>9. ~transferPending
  BY <1>1, <1>6, <1>7 DEF Timely, TransferInTime
<1>10. pc \notin {"hdma", "nested"}
  BY <1>1, <1>2, <1>6 DEF Timely, BlockInTime, Quiet
<1>11. ~TransferDue
  BY <1>1, <1>4 DEF TransferDue
<1>12. ~InitDue
  <2>1. CASE FrameEnds
    BY <1>1, <1>3, <1>4, <2>1 DEF InitDue, NextInitAt
  <2>2. CASE ~FrameEnds
    BY <1>2, <2>2 DEF InitDue, NextV, LineEnds
  <2> QED BY <2>1, <2>2
<1> QED BY <1>8, <1>9, <1>10, <1>11, <1>12

\* Along a line no request is raised while one is waiting or a block is running.
LEMMA LineRuns ==
  ASSUME NEW S \in Nat, HdmaFits(S), Known, RefreshInv', TypeOK', Timely(S), Tick, ~LineEnds
  PROVE  /\ hcounter' = hcounter + 1 /\ vcounter' = vcounter /\ initAt' = initAt
         /\ InitDue => /\ ~initPending /\ ~transferPending /\ ~TransferDue
                       /\ pc \notin {"hdma", "nested"}
                       /\ vcounter = 0 /\ hcounter' = initAt
         /\ TransferDue => /\ ~initPending /\ ~transferPending
                           /\ pc \notin {"hdma", "nested"} /\ hcounter' = HdmaH
         /\ ~(initPending /\ transferPending)
<1>1. /\ Unit \in Nat \ {0} /\ HdmaH \in Nat /\ InitH \in Nat \ {0} /\ ShortPeriod \in Nat
      /\ S > 0
      /\ InitH + Unit + RefreshClocks + 4 * S + 5 * Unit + 2 * S <= HdmaH
      /\ RefreshClocks \in Nat
  BY Room
<1>2. /\ hcounter \in Nat /\ vcounter \in Nat /\ left \in Nat /\ RefreshDue \in Nat
      /\ initAt \in Nat /\ initAt <= InitH + Unit - 1
      /\ initPending \in BOOLEAN /\ transferPending \in BOOLEAN
  BY LegEndStays DEF Known, TypeOK, CoreTypeOK, SchedulerTypeOK, Timely, LegsBounded
<1>3. hcounter' = hcounter + 1 /\ vcounter' = vcounter /\ initAt' = initAt
  BY TickEffect DEF NextH, NextV, NextInitAt, FrameEnds
<1>4. hcounter + 1 <= LegEnd /\ LegEnd \in Nat
  <2>1. left > 0 \/ RefreshDue > 0
    BY LegEndStays
  <2> QED BY <1>2, <2>1 DEF LegEnd
<1>5. Backlog(S) \in Nat
  BY <1>1 DEF Backlog
<1>6. initPending => vcounter = 0 /\ initAt <= hcounter /\ hcounter + 1 < HdmaH
  BY <1>1, <1>2, <1>4, <1>5 DEF Timely, InitInTime
<1>7. transferPending => HdmaH <= hcounter
  BY DEF Timely, TransferInTime
<1>8. pc \in {"hdma", "nested"} =>
        \/ vcounter = 0 /\ initAt <= hcounter /\ hcounter + 1 < HdmaH
        \/ HdmaH <= hcounter
  BY <1>1, <1>2, <1>4 DEF Timely, BlockInTime, Quiet
<1>9. InitDue => vcounter = 0 /\ hcounter + 1 = initAt /\ hcounter + 1 < HdmaH
  BY <1>1, <1>2, <1>3, TickEffect DEF InitDue
<1>10. TransferDue => hcounter + 1 = HdmaH
  BY <1>3, TickEffect DEF TransferDue
<1> QED BY <1>1, <1>2, <1>3, <1>6, <1>7, <1>8, <1>9, <1>10

\* One clock keeps every request and every block in time.
LEMMA TimelyTick ==
  ASSUME NEW S \in Nat, HdmaFits(S), Known, RefreshInv', TypeOK', Timely(S), Tick
  PROVE  Timely(S)'
<1>1. /\ Unit \in Nat \ {0} /\ HdmaH \in Nat /\ InitH \in Nat \ {0} /\ ShortPeriod \in Nat
      /\ S > 0 /\ RefreshH \in Nat /\ RefreshClocks \in Nat
      /\ RefreshH + RefreshClocks < HdmaH
      /\ InitH + Unit + RefreshClocks + 4 * S + 5 * Unit + 2 * S <= HdmaH
      /\ InitH + Unit + RefreshClocks + Unit + 3 * S + 5 * Unit + 2 * S <= HdmaH
      /\ InitH + Unit + RefreshClocks + 3 * Unit + 5 * Unit + 2 * S <= HdmaH
      /\ HdmaH + 4 * S + 7 * Unit + 2 * S < ShortPeriod
      /\ HdmaH + Unit + 3 * S + 7 * Unit + 2 * S < ShortPeriod
      /\ HdmaH + 3 * Unit + 7 * Unit + 2 * S < ShortPeriod
  BY Room
<1>2. /\ hcounter \in Nat /\ left \in Nat /\ left' \in Nat /\ left' <= left
      /\ RefreshDue \in Nat /\ RefreshDue' \in 0 .. RefreshClocks
      /\ initAt <= InitH + Unit - 1 /\ initAt \in Nat
      /\ startDelay \in BOOLEAN /\ initPending \in BOOLEAN /\ transferPending \in BOOLEAN
  BY LegEndStays DEF Known, TypeOK, CoreTypeOK, SchedulerTypeOK, Timely, LegsBounded
<1>3. failed = NoFailure /\ pc \in {"access", "mdma", "mdmaEnd", "hdma", "nested"}
  BY Running DEF Timely
<1>4. UNCHANGED <<pc, slots, size, stage>>
  BY TickEffect
<1>5. ~(InitDue /\ initPending) /\ ~(TransferDue /\ transferPending)
  BY LineTurns, LineRuns
<1>6. Stopped'
  BY <1>3, <1>4, <1>5, TickEffect DEF Stopped
<1>7. LegsBounded(S)'
  <2>1. initAt' <= InitH + Unit - 1
    <3>1. NextPhase \in 0 .. Unit - 1
      BY BeamType DEF Known, TypeOK, CoreTypeOK
    <3> QED BY <1>1, <1>2, <3>1, TickEffect DEF NextInitAt
  <2>2. /\ pc \in {"access", "mdmaEnd"} => left <= S
        /\ pc = "mdma" => left <= (IF slots = 1 THEN 2 * Unit ELSE Unit)
    BY DEF Timely, LegsBounded
  <2>3. 2 * Unit \in Nat
    BY <1>1
  <2> QED BY <1>1, <1>2, <1>4, <2>1, <2>2, <2>3 DEF LegsBounded
<1>8. CASE LineEnds
  <2>1. ~initPending' /\ ~transferPending' /\ pc' \notin {"hdma", "nested"}
    BY <1>4, <1>8, LineTurns, TickEffect
  <2> QED BY <1>6, <1>7, <2>1 DEF Timely, InitInTime, TransferInTime, BlockInTime
<1>9. CASE ~LineEnds
  <2>1. /\ hcounter' = hcounter + 1 /\ vcounter' = vcounter /\ initAt' = initAt
        /\ LegEnd' = LegEnd
    BY <1>9, LineRuns, LegEndStays
  <2>2. LegEnd \in Nat /\ LegEnd' = hcounter' + left' + RefreshDue'
    BY <1>2 DEF LegEnd
  <2>3. CASE ~InitDue /\ ~TransferDue
    <3>1. UNCHANGED <<initPending, transferPending, startDelay>>
      BY <1>2, <2>3, TickEffect
    <3>2. Backlog(S)' = Backlog(S)
      BY <1>4, <3>1 DEF Backlog
    <3>3. InitInTime(S)' /\ TransferInTime(S)'
      BY <1>1, <1>2, <2>1, <3>1, <3>2 DEF Timely, InitInTime, TransferInTime
    <3>4. BlockInTime(S)'
      BY <1>1, <1>2, <1>4, <2>1, <3>1 DEF Timely, BlockInTime, Quiet
    <3> QED BY <1>6, <1>7, <3>3, <3>4 DEF Timely
  <2>4. ASSUME InitDue \/ TransferDue
        PROVE  /\ left' + Backlog(S)' <= 4 * S \/ left' + Backlog(S)' <= Unit + 3 * S
                  \/ left' + Backlog(S)' <= 3 * Unit
               /\ Backlog(S)' \in Nat
    <3>1. pc \in {"access", "mdma", "mdmaEnd"}
      BY <1>3, <1>9, <2>4, LineRuns
    <3>2. startDelay'
      BY <1>9, <2>4, LineRuns, TickEffect
    <3>3. /\ pc \in {"access", "mdmaEnd"} => left' <= S
          /\ pc = "mdma" => left' <= (IF slots = 1 THEN 2 * Unit ELSE Unit)
      BY <1>4, <1>7 DEF LegsBounded
    <3>4. slots \in 0 .. 1 /\ size \in Nat
      BY DEF Known, TypeOK, CoreTypeOK, ArbiterTypeOK
    <3>5. PICK l \in Nat : l = left'
      BY <1>2
    <3>6. PICK b \in Nat : b = Backlog(S)'
      BY <1>1 DEF Backlog
    <3>7. l + b <= 4 * S \/ l + b <= Unit + 3 * S \/ l + b <= 3 * Unit
      <4>1. CASE pc = "access"
        <5>1. b = 2 * S
          BY <1>4, <3>2, <3>6, <4>1 DEF Backlog
        <5>2. l <= S
          BY <3>3, <3>5, <4>1
        <5> QED BY <5>1, <5>2
      <4>2. CASE pc = "mdmaEnd"
        <5>1. b = 3 * S
          BY <1>4, <3>2, <3>6, <4>2 DEF Backlog
        <5>2. l <= S
          BY <3>3, <3>5, <4>2
        <5> QED BY <5>1, <5>2
      <4>3. CASE pc = "mdma"
        <5>1. b = IF slots + size > 0 THEN Unit ELSE 3 * S
          BY <1>4, <3>2, <3>6, <4>3 DEF Backlog
        <5>2. l <= IF slots = 1 THEN 2 * Unit ELSE Unit
          BY <3>3, <3>5, <4>3
        <5>3. Unit \in Nat
          BY <1>1
        <5> QED BY <3>4, <5>1, <5>2, <5>3
      <4> QED BY <3>1, <4>1, <4>2, <4>3
    <3> QED BY <3>5, <3>6, <3>7
  <2>5. CASE InitDue
    <3>1. /\ initPending' /\ ~transferPending' /\ vcounter' = 0 /\ hcounter' = initAt'
          /\ pc' \notin {"hdma", "nested"}
      BY <1>4, <1>9, <2>1, <2>5, LineRuns, TickEffect
    <3>2. LegEnd' + Backlog(S)' + 5 * Unit + 2 * S < HdmaH
      BY <1>1, <1>2, <2>1, <2>2, <2>4, <2>5, <3>1
    <3>3. InitInTime(S)' /\ TransferInTime(S)' /\ BlockInTime(S)'
      BY <1>1, <1>2, <2>1, <3>1, <3>2 DEF InitInTime, TransferInTime, BlockInTime
    <3> QED BY <1>6, <1>7, <3>3 DEF Timely
  <2>6. CASE TransferDue
    <3>1. /\ ~InitDue /\ ~initPending' /\ transferPending' /\ hcounter' = HdmaH
          /\ pc' \notin {"hdma", "nested"}
      BY <1>4, <1>9, <2>1, <2>6, LineRuns, TickEffect
    <3>2. RefreshDue' = 0
      BY <1>1, <3>1, LegEndStays
    <3>3. LegEnd' + Backlog(S)' + 7 * Unit + 2 * S < ShortPeriod
      BY <1>1, <1>2, <2>1, <2>2, <2>4, <2>6, <3>1, <3>2
    <3>4. InitInTime(S)' /\ TransferInTime(S)' /\ BlockInTime(S)'
      BY <1>1, <3>1, <3>3 DEF InitInTime, TransferInTime, BlockInTime
    <3> QED BY <1>6, <1>7, <3>4 DEF Timely
  <2> QED BY <2>3, <2>5, <2>6
<1> QED BY <1>8, <1>9

-----------------------------------------------------------------------------
\* Between two legs the beam stands still.
LEMMA LegEndMoves ==
  ASSUME NEW S \in Nat, HdmaFits(S), Known, TypeOK', AdvanceDone, UNCHANGED beam
  PROVE  /\ LegEnd \in Nat /\ LegEnd' = LegEnd + left' /\ left' \in Nat
         /\ UNCHANGED <<hcounter, vcounter, initAt, refreshLeft>>
<1>1. /\ hcounter \in Nat /\ left = 0 /\ left' \in Nat /\ refreshLeft \in Nat
      /\ refreshDone \in BOOLEAN /\ RefreshClocks \in Nat
  BY Room DEF Known, TypeOK, CoreTypeOK, SchedulerTypeOK, AdvanceDone
<1>2. UNCHANGED <<hcounter, vcounter, initAt, refreshDone, refreshLeft>>
  BY DEF beam
<1>3. RefreshDue \in Nat /\ RefreshDue' = RefreshDue
  BY <1>1, <1>2 DEF RefreshDue
<1>4. PICK l \in Nat : l = left'
  BY <1>1
<1>5. LegEnd = hcounter + RefreshDue /\ LegEnd' = hcounter + l + RefreshDue
  BY <1>1, <1>2, <1>3, <1>4 DEF LegEnd
<1> QED BY <1>1, <1>2, <1>3, <1>4, <1>5

\* A leg that is no block keeps the requests in time when it is part of their backlog.
LEMMA LegStarts ==
  ASSUME NEW S \in Nat, HdmaFits(S), Known, TypeOK', Timely(S), AdvanceDone, UNCHANGED beam,
         NEW l \in Nat, l = left', NEW b \in Nat, b = Backlog(S)',
         Stopped', LegsBounded(S)', pc' \notin {"hdma", "nested"},
         initPending' => initPending, transferPending' => transferPending,
         initPending' \/ transferPending' => l + b <= Backlog(S)
  PROVE  Timely(S)'
<1>1. /\ LegEnd \in Nat /\ LegEnd' = LegEnd + l
      /\ UNCHANGED <<hcounter, vcounter, initAt>>
  BY LegEndMoves
<1>2. Unit \in Nat /\ HdmaH \in Nat /\ ShortPeriod \in Nat
  BY Room
<1>3. Backlog(S) \in Nat
  BY <1>2 DEF Backlog
<1>4. InitInTime(S)'
  BY <1>1, <1>2, <1>3 DEF Timely, InitInTime
<1>5. TransferInTime(S)'
  BY <1>1, <1>2, <1>3 DEF Timely, TransferInTime
<1>6. BlockInTime(S)'
  BY DEF BlockInTime
<1> QED BY <1>4, <1>5, <1>6 DEF Timely

\* The step starts a leg of l clocks.
LegIs(l) == left' = l

\* A block starts in time when it serves a request that was.
LEMMA BlockStarts ==
  ASSUME NEW S \in Nat, HdmaFits(S), Known, TypeOK', Timely(S), AdvanceDone, UNCHANGED beam,
         failed' = NoFailure, pc' \in {"hdma", "nested"},
         NEW l \in Nat, LegIs(l), NEW b \in Nat, Backlog(S) = 0,
         b = l + IF pc' = "hdma" THEN S ELSE 0,
         \/ initPending /\ ~transferPending /\ b <= 5 * Unit + 2 * S
         \/ ~initPending /\ transferPending /\ b <= 7 * Unit + 2 * S,
         ~initPending', ~transferPending'
  PROVE  Timely(S)'
<1>1. /\ LegEnd \in Nat /\ LegEnd' = LegEnd + l
      /\ UNCHANGED <<hcounter, vcounter, initAt>>
  BY LegEndMoves DEF LegIs
<1>2. /\ Unit \in Nat /\ HdmaH \in Nat /\ ShortPeriod \in Nat
      /\ hcounter \in Nat /\ initAt \in Nat
  BY Room DEF Known, TypeOK, CoreTypeOK, SchedulerTypeOK
<1>0. PICK e \in Nat : e = LegEnd
  BY <1>1
<1>3. Quiet(e + b)
  <2>1. CASE initPending
    <3>1. vcounter = 0 /\ 0 < hcounter /\ initAt <= hcounter /\ e + 0 + 5 * Unit + 2 * S < HdmaH
      BY <1>0, <2>1 DEF Timely, InitInTime
    <3>2. b <= 5 * Unit + 2 * S
      BY <2>1
    <3> QED BY <1>2, <3>1, <3>2 DEF Quiet
  <2>2. CASE transferPending
    <3>1. HdmaH <= hcounter /\ e + 0 + 7 * Unit + 2 * S < ShortPeriod
      BY <1>0, <2>2 DEF Timely, TransferInTime
    <3>2. b <= 7 * Unit + 2 * S
      BY <2>2
    <3> QED BY <1>2, <3>1, <3>2 DEF Quiet
  <2> QED BY <2>1, <2>2
<1>4. (LegEnd + IF pc = "hdma" THEN S ELSE 0)' = e + b
  <2>1. LegEnd' = e + l
    BY <1>0, <1>1
  <2>2. PICK r \in Nat : r = IF pc' = "hdma" THEN S ELSE 0
    OBVIOUS
  <2>3. (LegEnd + IF pc = "hdma" THEN S ELSE 0)' = (e + l) + r
    BY <2>1, <2>2
  <2> QED BY <2>2, <2>3
<1>5. BlockInTime(S)'
  BY <1>1, <1>3, <1>4 DEF BlockInTime, Quiet
<1>6. Stopped' /\ LegsBounded(S)'
  BY <1>1 DEF Timely, LegsBounded, Stopped
<1> QED BY <1>5, <1>6 DEF Timely, InitInTime, TransferInTime

\* At most one HDMA request waits at a time.
LEMMA OneRequest ==
  ASSUME NEW S \in Nat, HdmaFits(S), Known, Timely(S)
  PROVE  ~(initPending /\ transferPending)
<1>1. /\ Unit \in Nat /\ HdmaH \in Nat /\ hcounter \in Nat /\ left \in Nat
      /\ RefreshDue \in Nat
  BY Room DEF Known, TypeOK, CoreTypeOK, SchedulerTypeOK, RefreshDue
<1>2. LegEnd \in Nat /\ hcounter <= LegEnd
  BY <1>1 DEF LegEnd
<1>3. Backlog(S) \in Nat
  BY <1>1 DEF Backlog
<1>4. initPending => hcounter < HdmaH
  BY <1>1, <1>2, <1>3 DEF Timely, InitInTime
<1>5. transferPending => HdmaH <= hcounter
  BY DEF Timely, TransferInTime
<1> QED BY <1>1, <1>4, <1>5

\* A CPU cycle begins: an access, an HDMA block or a manual DMA.
LEMMA TimelyCpuCycle ==
  ASSUME NEW S \in Nat, HdmaFits(S), Known, TypeOK', Timely(S), CpuCycle
  PROVE  Timely(S)'
<1>1. PICK s \in Speeds : ProcessCpuCycle(s)
  BY DEF CpuCycle
<1>2. /\ s \in Nat /\ s <= S /\ S > 0 /\ Unit \in Nat \ {0} /\ 2 * Unit \in Nat
  BY Room
<1>3. /\ pc = "idle" /\ failed = NoFailure /\ UNCHANGED beam /\ UNCHANGED stage
      /\ pc # "access" /\ pc # "mdma" /\ pc # "mdmaEnd"
  BY <1>1 DEF ProcessCpuCycle, CpuCycle, cpuVars
<1>4. AdvanceDone
  BY <1>3 DEF Timely, Stopped
<1>5. /\ left = 0 /\ refreshLeft' = 0 /\ UNCHANGED initAt /\ initAt <= InitH + Unit - 1
      /\ startDelay \in BOOLEAN /\ startDelay' \in BOOLEAN
  BY <1>3, <1>4 DEF AdvanceDone, beam, Timely, LegsBounded, Known, TypeOK, CoreTypeOK, SchedulerTypeOK
<1>6. Backlog(S) = IF startDelay THEN IF stage = "body" THEN 2 * S ELSE S ELSE 0
  BY <1>3 DEF Backlog
<1>7. ASSUME pc' = "access", NEW l \in 0 .. s, LegIs(l),
             failed' # NoFailure => l = 0,
             initPending' => initPending, transferPending' => transferPending,
             initPending' \/ transferPending' => startDelay /\ ~startDelay'
      PROVE  Timely(S)'
  <2>1. Stopped' /\ LegsBounded(S)'
    BY <1>2, <1>5, <1>7 DEF Stopped, LegsBounded, AdvanceDone, LegIs
  <2>2. PICK b \in Nat : b = Backlog(S)'
    BY <1>2 DEF Backlog
  <2>3. l \in Nat /\ l <= S
    BY <1>2
  <2>4. ASSUME startDelay, ~startDelay' PROVE l + b <= Backlog(S)
    <3>1. b = IF stage = "body" THEN S ELSE 0
      BY <1>3, <1>7, <2>2, <2>4 DEF Backlog
    <3> QED BY <1>2, <1>6, <2>3, <2>4, <3>1
  <2> QED BY <1>3, <1>4, <1>7, <2>1, <2>2, <2>3, <2>4, LegStarts DEF LegIs
<1>8. CASE NothingDue(s)
  <2>1. /\ pc' = "access" /\ LegIs(s) /\ failed' = NoFailure
        /\ ~initPending' /\ ~transferPending'
    BY <1>3, <1>8 DEF NothingDue, StartAccess, requests, LegIs
  <2> QED BY <1>2, <1>7, <2>1
<1>9. CASE ClearStartDelay(s)
  <2>1. /\ pc' = "access" /\ LegIs(s) /\ failed' = NoFailure
        /\ UNCHANGED <<initPending, transferPending>> /\ startDelay /\ ~startDelay'
    BY <1>3, <1>9 DEF ClearStartDelay, StartAccess, LegIs
  <2> QED BY <1>2, <1>7, <2>1
<1>10. CASE RunTransfer(s)
  <2>1. /\ transferPending /\ ~startDelay /\ ~transferPending' /\ UNCHANGED initPending
    BY <1>10 DEF RunTransfer, TransferTurn
  <2>2. ~initPending /\ ~initPending'
    BY <2>1, OneRequest
  <2>3. CASE pc' = "access"
    <3>1. (LegIs(s) /\ failed' = NoFailure) \/ LegIs(0)
      BY <1>3, <1>10, <2>3 DEF RunTransfer, StartAccess, Abort, LegIs
    <3>2. s \in 0 .. s /\ 0 \in 0 .. s
      BY <1>2
    <3> QED BY <1>7, <2>1, <2>2, <2>3, <3>1, <3>2
  <2>4. CASE pc' # "access"
    <3>1. PICK reload \in 0 .. 2 :
            /\ LegIs(SyncStart + ScanClocks(reload) + SyncEnd(s, SyncStart + ScanClocks(reload)))
            /\ pc' = "hdma" /\ failed' = NoFailure
      BY <1>3, <1>10, <2>4 DEF RunTransfer, StartAccess, Abort, LegIs
    <3>2. PICK m \in 0 .. 7 * Unit : m = SyncStart + ScanClocks(reload)
      BY <1>2, BlockLengths DEF Known
    <3>3. PICK n \in 0 .. S : n = SyncEnd(s, m)
      BY <3>2, BlockLengths DEF Known
    <3>4. LegIs(m + n)
      BY <3>1, <3>2, <3>3
    <3>5. m + n \in Nat /\ m + n + S \in Nat /\ m + n + S <= 7 * Unit + 2 * S
      BY <1>2, <3>2, <3>3
    <3>6. Backlog(S) = 0 /\ m + n + S = (m + n) + IF pc' = "hdma" THEN S ELSE 0
      BY <1>6, <2>1, <3>1
    <3> QED BY <1>3, <1>4, <2>1, <2>2, <3>1, <3>4, <3>5, <3>6, BlockStarts
  <2> QED BY <2>3, <2>4
<1>11. CASE RunInit(s)
  <2>1. /\ initPending /\ ~startDelay /\ ~initPending' /\ ~transferPending /\ ~transferPending'
        /\ failed' = NoFailure
    BY <1>3, <1>11 DEF RunInit, InitTurn, InitServed
  <2>2. CASE pc' = "access"
    <3>1. LegIs(s)
      BY <1>3, <1>11, <2>2 DEF RunInit, StartAccess, LegIs
    <3>2. s \in 0 .. s
      BY <1>2
    <3> QED BY <1>7, <2>1, <2>2, <3>1, <3>2
  <2>3. CASE pc' # "access"
    <3>1. PICK fin \in BOOLEAN :
            /\ LegIs(SyncStart + InitClocks(fin) + SyncEnd(s, SyncStart + InitClocks(fin)))
            /\ pc' = "hdma"
      BY <1>3, <1>11, <2>3 DEF RunInit, StartAccess, LegIs
    <3>2. PICK m \in 0 .. 5 * Unit : m = SyncStart + InitClocks(fin)
      BY <1>2, BlockLengths DEF Known
    <3>3. PICK n \in 0 .. S : n = SyncEnd(s, m)
      BY <3>2, BlockLengths DEF Known
    <3>4. LegIs(m + n)
      BY <3>1, <3>2, <3>3
    <3>5. m + n \in Nat /\ m + n + S \in Nat /\ m + n + S <= 5 * Unit + 2 * S
      BY <1>2, <3>2, <3>3
    <3>6. Backlog(S) = 0 /\ m + n + S = (m + n) + IF pc' = "hdma" THEN S ELSE 0
      BY <1>6, <2>1, <3>1
    <3> QED BY <1>3, <1>4, <2>1, <3>1, <3>4, <3>5, <3>6, BlockStarts
  <2> QED BY <2>2, <2>3
<1>12. CASE StartManualDma(s)
  <2>1. /\ pc' = "mdma" /\ slots' = 1 /\ LegIs(SyncStart + Unit) /\ failed' = NoFailure
        /\ ~initPending' /\ ~transferPending'
    BY <1>3, <1>12 DEF StartManualDma, MdmaTurn, requests, LegIs
  <2>2. PICK l \in 0 .. 2 * Unit : l = SyncStart + Unit
    BY <1>2, BlockLengths DEF Known
  <2>3. Stopped' /\ LegsBounded(S)'
    BY <1>2, <1>5, <2>1, <2>2 DEF Stopped, LegsBounded, LegIs
  <2>4. PICK b \in Nat : b = Backlog(S)'
    BY <1>2 DEF Backlog
  <2> QED BY <1>2, <1>3, <1>4, <2>1, <2>2, <2>3, <2>4, LegStarts DEF LegIs
<1> QED BY <1>1, <1>8, <1>9, <1>10, <1>11, <1>12 DEF ProcessCpuCycle

\* The next byte of a manual DMA, or its resynchronisation.
LEMMA TimelyNextByte ==
  ASSUME NEW S \in Nat, HdmaFits(S), Known, TypeOK', Timely(S),
         AdvanceDone, UNCHANGED beam, pc \in {"mdma", "nested"}, NextByte(dmaClock),
         failed' = NoFailure, initPending' => initPending, transferPending' => transferPending,
         initPending' \/ transferPending' => pc = "mdma" /\ startDelay /\ ~startDelay'
  PROVE  Timely(S)'
<1>1. /\ S > 0 /\ Unit \in Nat \ {0} /\ 2 * Unit \in Nat
  BY Room
<1>2. /\ UNCHANGED initAt /\ initAt <= InitH + Unit - 1
      /\ slots \in 0 .. 1 /\ size \in Nat /\ dmaClock \in Nat
  BY DEF beam, Timely, LegsBounded, Known, TypeOK, CoreTypeOK, ArbiterTypeOK
<1>3. speed \in Speeds
  BY DEF Known, Shape
<1>4. PICK b \in Nat : b = Backlog(S)'
  BY <1>1 DEF Backlog
<1>5. CASE slots + size > 0
  <2>1. LegIs(Unit) /\ pc' = "mdma" /\ slots' = 0
    BY <1>5 DEF NextByte, LegIs
  <2>2. Stopped' /\ LegsBounded(S)'
    BY <1>1, <1>2, <2>1 DEF Stopped, LegsBounded, LegIs
  <2>3. ASSUME pc = "mdma", startDelay, ~startDelay' PROVE Unit + b <= Backlog(S)
    <3>1. b = 0
      BY <1>4, <2>1, <2>3 DEF Backlog
    <3>2. Backlog(S) = Unit
      BY <1>5, <2>3 DEF Backlog
    <3> QED BY <1>1, <3>1, <3>2
  <2> QED BY <1>1, <1>4, <2>1, <2>2, <2>3, LegStarts DEF LegIs
<1>6. CASE ~(slots + size > 0)
  <2>1. PICK l \in 0 .. S : l = SyncEnd(speed, dmaClock)
    BY <1>2, <1>3, BlockLengths DEF Known
  <2>2. LegIs(l) /\ pc' = "mdmaEnd"
    BY <1>6, <2>1 DEF NextByte, LegIs
  <2>3. Stopped' /\ LegsBounded(S)'
    BY <1>1, <1>2, <2>1, <2>2 DEF Stopped, LegsBounded, LegIs
  <2>4. ASSUME pc = "mdma", startDelay, ~startDelay' PROVE l + b <= Backlog(S)
    <3>1. b = 2 * S
      BY <1>4, <2>2, <2>4 DEF Backlog
    <3>2. Backlog(S) = 3 * S
      BY <1>6, <2>4 DEF Backlog
    <3> QED BY <2>1, <3>1, <3>2
  <2> QED BY <1>1, <1>4, <2>1, <2>2, <2>3, <2>4, LegStarts DEF LegIs
<1> QED BY <1>5, <1>6

\* The arbiter's steps inside a cycle.
LEMMA TimelyTransfer ==
  ASSUME NEW S \in Nat, HdmaFits(S), Known, TypeOK', Timely(S), Transfer
  PROVE  Timely(S)'
<1>1. /\ S > 0 /\ Unit \in Nat \ {0} /\ 2 * Unit \in Nat
  BY Room
<1>2. /\ pc \in {"hdma", "mdma", "nested", "mdmaEnd"} /\ AdvanceDone /\ UNCHANGED beam
      /\ UNCHANGED stage
  BY DEF Transfer, TransferFailed, CheckNestedHdma, NestedDone, TransferDone, cpuVars
<1>3. failed = NoFailure
  BY <1>2 DEF Timely, Stopped
<1>4. /\ left = 0 /\ refreshLeft' = 0 /\ UNCHANGED initAt /\ initAt <= InitH + Unit - 1
      /\ startDelay \in BOOLEAN /\ startDelay' \in BOOLEAN
      /\ initPending \in BOOLEAN /\ transferPending \in BOOLEAN
  BY <1>2 DEF AdvanceDone, beam, Timely, LegsBounded, Known, TypeOK, CoreTypeOK, SchedulerTypeOK
<1>5. speed \in Speeds /\ speed \in 0 .. S
  <2>1. speed \in Speeds
    BY <1>2 DEF Known, Shape
  <2> QED BY <2>1, Room
<1>6. CASE NestedDone
  <2>1. /\ pc = "nested" /\ NextByte(dmaClock) /\ failed' = NoFailure
        /\ ~initPending' /\ ~transferPending'
    BY <1>3, <1>6 DEF NestedDone, requests, Timely, BlockInTime
  <2> QED BY <1>2, <2>1, TimelyNextByte
<1>7. CASE CheckNestedHdma
  <2>1. pc = "mdma"
    BY <1>7 DEF CheckNestedHdma
  <2>2. CASE NextByte(dmaClock) /\ failed' = NoFailure
    <3>1. /\ initPending' => initPending
          /\ transferPending' => transferPending
          /\ initPending' \/ transferPending' => startDelay /\ ~startDelay'
      BY <1>7, OneRequest DEF CheckNestedHdma, TransferTurn, InitTurn, requests
    <3> QED BY <1>2, <2>1, <2>2, <3>1, TimelyNextByte
  <2>3. CASE ~(NextByte(dmaClock) /\ failed' = NoFailure)
    <3>1. /\ ~startDelay /\ ~initPending' /\ ~transferPending'
      BY <1>3, <1>7, <2>3, OneRequest DEF CheckNestedHdma, TransferTurn, InitTurn
    <3>2. CASE failed' # NoFailure
      <4>1. LegIs(0) /\ pc' = "access"
        BY <1>3, <1>7, <3>2 DEF CheckNestedHdma, Abort, LegIs
      <4>2. Stopped' /\ LegsBounded(S)'
        BY <1>1, <1>4, <4>1 DEF Stopped, LegsBounded, AdvanceDone, LegIs
      <4>3. PICK b \in Nat : b = Backlog(S)'
        BY <1>1 DEF Backlog
      <4>4. 0 \in Nat
        OBVIOUS
      <4> QED BY <1>2, <3>1, <4>1, <4>2, <4>3, <4>4, LegStarts DEF LegIs
    <3>3. CASE failed' = NoFailure
      <4>1. Backlog(S) = 0
        BY <2>1, <3>1 DEF Backlog
      <4>2. \/ /\ transferPending
               /\ \E reload \in 0 .. 2 : Nest(ScanClocks(reload))
            \/ /\ initPending /\ ~transferPending
               /\ \E fin \in BOOLEAN : Nest(InitClocks(fin))
        BY <1>3, <1>7, <2>3, <3>3 DEF CheckNestedHdma, TransferTurn, InitTurn, Abort, NoFailure
      <4>3. CASE transferPending
        <5>1. ~initPending
          BY <4>3, OneRequest
        <5>2. PICK reload \in 0 .. 2 : Nest(ScanClocks(reload))
          BY <4>2, <4>3
        <5>3. PICK l \in 0 .. 6 * Unit : l = ScanClocks(reload)
          BY BlockLengths DEF Known
        <5>4. LegIs(l) /\ pc' = "nested"
          BY <5>2, <5>3 DEF Nest, LegIs
        <5>5. /\ l \in Nat /\ l <= 7 * Unit + 2 * S /\ l = l + IF pc' = "hdma" THEN S ELSE 0
          BY <1>1, <5>3, <5>4
        <5> QED BY <1>2, <3>1, <3>3, <4>1, <4>3, <5>1, <5>4, <5>5, BlockStarts
      <4>4. CASE ~transferPending
        <5>1. PICK fin \in BOOLEAN : Nest(InitClocks(fin))
          BY <4>2, <4>4
        <5>2. PICK l \in 0 .. 4 * Unit : l = InitClocks(fin)
          BY BlockLengths DEF Known
        <5>3. LegIs(l) /\ pc' = "nested"
          BY <5>1, <5>2 DEF Nest, LegIs
        <5>4. /\ l \in Nat /\ l <= 5 * Unit + 2 * S /\ l = l + IF pc' = "hdma" THEN S ELSE 0
          BY <1>1, <5>2, <5>3
        <5> QED BY <1>2, <3>1, <3>3, <4>1, <4>2, <4>4, <5>3, <5>4, BlockStarts
      <4> QED BY <4>3, <4>4
    <3> QED BY <3>2, <3>3
  <2> QED BY <2>2, <2>3
<1>8. CASE TransferDone
  <2>1. /\ pc \in {"hdma", "mdmaEnd"} /\ LegIs(speed) /\ pc' = "access" /\ failed' = NoFailure
        /\ UNCHANGED <<startDelay, initPending, transferPending>>
    BY <1>3, <1>8 DEF TransferDone, StartAccess, requests, LegIs
  <2>2. Stopped' /\ LegsBounded(S)'
    BY <1>1, <1>4, <1>5, <2>1 DEF Stopped, LegsBounded, LegIs
  <2>3. PICK b \in Nat : b = Backlog(S)'
    BY <1>1 DEF Backlog
  <2>4. initPending \/ transferPending => pc = "mdmaEnd"
    BY <2>1 DEF Timely, BlockInTime
  <2>5. ASSUME pc = "mdmaEnd" PROVE speed + b <= Backlog(S)
    <3>1. b = IF startDelay THEN 2 * S ELSE IF stage = "body" THEN S ELSE 0
      BY <1>2, <1>4, <2>1, <2>3 DEF Backlog
    <3>2. Backlog(S) = IF startDelay THEN 3 * S ELSE 2 * S
      BY <2>5 DEF Backlog
    <3> QED BY <1>5, <3>1, <3>2
  <2>6. speed \in Nat
    BY <1>5
  <2> QED BY <1>2, <2>1, <2>2, <2>3, <2>4, <2>5, <2>6, LegStarts DEF LegIs
<1> QED BY <1>3, <1>6, <1>7, <1>8 DEF Transfer

-----------------------------------------------------------------------------
\* Every other step ends an access or stands between two cycles: the clock does not
\* move, no request is served, and only a store to $420B re-arms the shared delay.
Settles ==
  /\ AdvanceDone /\ UNCHANGED <<beam, left, initPending, transferPending, hdma2>>
  /\ pc \in {"idle", "access"} /\ pc' \in {"idle", "halted"}
  /\ pc' = "idle" => failed' = NoFailure
  /\ pc = "idle" => failed = NoFailure /\ (stage' # "body" \/ pc' = "halted")
  /\ pc = "idle" \/ ~WriteMdmaen => UNCHANGED <<startDelay, mdma, size, mdmaWait>>
  /\ failed' \in {failed, "doubleMdma", "emulation", "rti"}
  /\ UNCHANGED deferred

\* Between instructions.
LEMMA BoundarySettles ==
  ASSUME TypeOK, Stopped, Retire \/ Rti \/ AcceptNmi \/ AcceptIrq \/ NextInstruction
  PROVE  Settles
<1>1. /\ pc = "idle" /\ pc' \in {"idle", "halted"}
      /\ UNCHANGED <<beam, left, requests, dmaVars, mdmaWait, deferred>>
      /\ failed' \in {failed, "emulation", "rti"}
      /\ pc' = "idle" => failed' = failed
  BY DEF Retire, RetireWith, Executed, Rti, AcceptNmi, AcceptIrq, Accept, NextInstruction, Between
<1>2. stage' # "body" \/ pc' = "halted"
  BY DEF Retire, RetireWith, Rti, AcceptNmi, AcceptIrq, Accept, NextInstruction
<1>3. AdvanceDone /\ failed = NoFailure
  BY <1>1 DEF Stopped
<1> QED BY <1>1, <1>2, <1>3 DEF Settles, requests, dmaVars

\* At the end of an access.
LEMMA AccessSettles ==
  ASSUME TypeOK, Stopped,
         \/ Fetch \/ PlainAccess \/ WriteNmitimen \/ WriteTimer \/ ReadRdnmi \/ ReadTimeup
         \/ WriteMdmaen \/ WriteHdmaen \/ WriteSetini \/ EntryCycle \/ EnterNmi \/ EnterIrq
  PROVE  Settles
<1>1. \E f \in {failed, "doubleMdma"} : AccessDone(f)
  BY DEF Fetch, PlainAccess, WriteNmitimen, WriteTimer, ReadRdnmi, ReadTimeup, WriteMdmaen,
         WriteHdmaen, WriteSetini, Access, EntryCycle, EnterNmi, EnterIrq, EnterHandler
<1>2. /\ AdvanceDone /\ UNCHANGED <<beam, left, hdma2, deferred>>
      /\ pc = "access" /\ pc' \in {"idle", "halted"}
      /\ pc' = "idle" => failed' = NoFailure
      /\ failed' \in {failed, "doubleMdma"}
  BY <1>1 DEF AccessDone
<1>3. UNCHANGED <<initPending, transferPending>>
  BY DEF Fetch, PlainAccess, WriteNmitimen, WriteTimer, ReadRdnmi, ReadTimeup, WriteMdmaen,
         WriteHdmaen, WriteSetini, EntryCycle, EnterNmi, EnterIrq, EnterHandler, requests
<1>4. ~WriteMdmaen => UNCHANGED <<startDelay, mdma, size, mdmaWait>>
  BY DEF Fetch, PlainAccess, WriteNmitimen, WriteTimer, ReadRdnmi, ReadTimeup,
         WriteHdmaen, WriteSetini, EntryCycle, EnterNmi, EnterIrq, EnterHandler, requests
<1> QED BY <1>2, <1>3, <1>4 DEF Settles

\* What the steps of the machine are, seen from here.
LEMMA StepKinds ==
  ASSUME TypeOK, Stopped, [Next]_vars
  PROVE  \/ Tick \/ CpuCycle \/ Transfer \/ Settles \/ (Reset /\ stray' = Strayed)
         \/ UNCHANGED vars
BY BoundarySettles, AccessSettles DEF Next

\* Steps at which the clock stands still leave the room of HdmaFits as it is: at most the
\* one store to $420B turns the access of a body into the wait for the shared delay.
LEMMA TimelySettles ==
  ASSUME NEW S \in Nat, HdmaFits(S), Known, TypeOK', Timely(S), Settles
  PROVE  Timely(S)'
<1>1. /\ S > 0 /\ Unit \in Nat \ {0} /\ 2 * Unit \in Nat
  BY Room
<1>2. /\ UNCHANGED <<initAt, left, refreshLeft>> /\ initAt <= InitH + Unit - 1 /\ left = 0
      /\ refreshLeft = 0
      /\ startDelay \in BOOLEAN /\ startDelay' \in BOOLEAN
  BY DEF Settles, AdvanceDone, beam, Timely, LegsBounded, Known, TypeOK, CoreTypeOK, SchedulerTypeOK
<1>3. Stopped' /\ LegsBounded(S)'
  BY <1>1, <1>2 DEF Settles, Stopped, LegsBounded, AdvanceDone
<1>4. PICK b \in Nat : b = Backlog(S)'
  BY <1>1 DEF Backlog
<1>5. b <= Backlog(S)
  <2>1. CASE pc' = "halted"
    <3>1. b = 0
      BY <1>4, <2>1 DEF Backlog
    <3>2. Backlog(S) \in Nat
      BY <1>1 DEF Backlog
    <3> QED BY <3>1, <3>2
  <2>2. CASE pc' = "idle" /\ pc = "idle"
    <3>1. UNCHANGED startDelay /\ stage' # "body"
      BY <2>2 DEF Settles
    <3>2. b = IF startDelay THEN S ELSE 0
      BY <1>2, <1>4, <2>2, <3>1 DEF Backlog
    <3>3. Backlog(S) = IF startDelay THEN IF stage = "body" THEN 2 * S ELSE S ELSE 0
      BY <1>2, <2>2 DEF Backlog
    <3> QED BY <1>1, <3>2, <3>3
  <2>3. CASE pc' = "idle" /\ pc = "access" /\ ~WriteMdmaen
    <3>1. UNCHANGED startDelay
      BY <2>3 DEF Settles
    <3>2. b \in {0, S, 2 * S} /\ (~startDelay => b = 0)
      BY <1>2, <1>4, <2>3, <3>1 DEF Backlog
    <3>3. Backlog(S) = IF startDelay THEN 2 * S ELSE IF stage = "body" THEN S ELSE 0
      BY <1>2, <2>3 DEF Backlog
    <3> QED BY <1>1, <1>2, <3>2, <3>3
  <2>4. CASE pc' = "idle" /\ pc = "access" /\ WriteMdmaen
    <3>1. stage = "body" /\ stage' # "body"
      BY <2>4 DEF WriteMdmaen
    <3>2. b \in {0, S}
      BY <1>2, <1>4, <2>4, <3>1 DEF Backlog
    <3>3. Backlog(S) = IF startDelay THEN 2 * S ELSE S
      BY <1>2, <2>4, <3>1 DEF Backlog
    <3> QED BY <1>1, <3>2, <3>3
  <2> QED BY <2>1, <2>2, <2>3, <2>4 DEF Settles
<1>6. LegIs(0) /\ 0 \in Nat /\ 0 + b <= Backlog(S)
  BY <1>2, <1>4, <1>5 DEF LegIs
<1> QED BY <1>3, <1>4, <1>6, LegStarts DEF Settles, LegIs

\* A machine fresh from civ_create or civ_reset.
LEMMA TimelyInit ==
  ASSUME NEW S \in Nat, HdmaFits(S), Init
  PROVE  Timely(S)
<1>1. InitH \in Nat \ {0} /\ Unit \in Nat \ {0} /\ 0 <= InitH + Unit - 1
  BY Room
<1>2. /\ failed = NoFailure /\ pc = "idle" /\ left = 0 /\ refreshLeft = 0 /\ initAt = 0
      /\ ~initPending /\ ~transferPending
  BY DEF Init, SchedulerInit, ArbiterInit
<1> QED BY <1>1, <1>2 DEF Timely, Stopped, LegsBounded, AdvanceDone, InitInTime, TransferInTime,
                          BlockInTime

\* The same of the machine civ_reset leaves behind.
LEMMA TimelyInitNext ==
  ASSUME NEW S \in Nat, HdmaFits(S), Init'
  PROVE  Timely(S)'
<1>1. InitH \in Nat \ {0} /\ Unit \in Nat \ {0} /\ 0 <= InitH + Unit - 1
  BY Room
<1>2. /\ failed' = NoFailure /\ pc' = "idle" /\ left' = 0 /\ refreshLeft' = 0 /\ initAt' = 0
      /\ ~initPending' /\ ~transferPending'
  BY DEF Init, SchedulerInit, ArbiterInit
<1> QED BY <1>1, <1>2 DEF Timely, Stopped, LegsBounded, AdvanceDone, InitInTime, TransferInTime,
                          BlockInTime

\* Timely is inductive.
LEMMA TimelyStep ==
  ASSUME NEW S \in Nat, HdmaFits(S), Known, Known', Timely(S), [Next]_vars
  PROVE  Timely(S)'
<1>1. TypeOK /\ TypeOK' /\ RefreshInv' /\ Stopped
  BY DEF Known, Timely
<1>2. CASE Tick
  BY <1>1, <1>2, TimelyTick
<1>3. CASE CpuCycle
  BY <1>1, <1>3, TimelyCpuCycle
<1>4. CASE Transfer
  BY <1>1, <1>4, TimelyTransfer
<1>5. CASE Settles
  BY <1>1, <1>5, TimelySettles
<1>6. CASE Reset /\ stray' = Strayed
  BY <1>6, ResetIsInit, TimelyInitNext
<1>7. CASE UNCHANGED vars
  BY <1>7 DEF vars, beam, requests, dmaVars, cpuVars, Timely, Stopped, LegsBounded, AdvanceDone,
              InitInTime, TransferInTime, BlockInTime, Backlog, LegEnd, RefreshDue, Quiet
<1> QED BY <1>1, <1>2, <1>3, <1>4, <1>5, <1>6, <1>7, StepKinds

-----------------------------------------------------------------------------
\* Types, shape and refresh hold throughout.
LEMMA AlwaysKnown == Spec => []Known
<1>1. Init => Known
  <2> SUFFICES ASSUME Init PROVE Known
    OBVIOUS
  <2>1. TypeOK /\ Shape
    BY InitTypes DEF Init, TypeOK
  <2>2. RefreshInv
    <3>1. hcounter = 0 /\ refreshDone = FALSE /\ refreshAt = RefreshH /\ refreshLeft = 0
      BY DEF Init, SchedulerInit
    <3> QED BY <3>1, SchedulerAssumption DEF RefreshInv
  <2> QED BY <2>1, <2>2 DEF Known
<1>2. Known /\ [Next]_vars => Known'
  BY TypeStep, StrayStep, RefreshStep DEF Known, TypeOK
<1> QED
  BY <1>1, <1>2, PTL DEF Spec

\* The HDMA requests are in time throughout.
LEMMA AlwaysTimely ==
  ASSUME NEW S \in Nat, HdmaFits(S)
  PROVE  Spec => [](Known /\ Timely(S))
<1>1. Init => Timely(S)
  BY TimelyInit
<1>2. Known /\ Known' /\ Timely(S) /\ [Next]_vars => Timely(S)'
  BY TimelyStep
<1> QED
  BY <1>1, <1>2, AlwaysKnown, PTL DEF Spec

\* When the first clock of a line copies its PPU registers, no HDMA of an earlier line is
\* waiting or running, whatever the program stores where and however long its manual
\* DMAs are (civ_timing_raw_master, civ_hdma2_scanline).
THEOREM HdmaOnTime ==
  ASSUME NEW S \in Nat, HdmaFits(S)
  PROVE  Spec => []HdmaBeforeLatch
<1>1. Known /\ Timely(S) => HdmaBeforeLatch
  <2> SUFFICES ASSUME Known, Timely(S), hcounter = 0
               PROVE  ~transferPending /\ pc \notin {"hdma", "nested"}
    BY DEF HdmaBeforeLatch
  <2>1. HdmaH \in Nat /\ HdmaH > 0
    BY Room
  <2>2. ~transferPending
    BY <2>1 DEF Timely, TransferInTime
  <2>3. pc \notin {"hdma", "nested"}
    BY <2>1 DEF Timely, BlockInTime, Quiet
  <2> QED BY <2>2, <2>3
<1> QED
  BY <1>1, AlwaysTimely, PTL

-----------------------------------------------------------------------------
\* An armed manual DMA.  One CPU cycle clears the shared delay.  A request raised in it
\* restarts the delay and takes two more, one to clear it and one to be served; another
\* request cannot be raised before the access of the second is over, because that access
\* still fits in the room of HdmaFits.
Requested == initPending \/ transferPending

MdmaWaits(S) ==
  /\ ~mdma => mdmaWait = 0
  /\ mdma =>
       /\ pc \in {"idle", "access", "hdma", "halted"}
       /\ Requested /\ startDelay => mdmaWait <= 1
       /\ Requested /\ ~startDelay => mdmaWait <= 2
       /\ ~Requested /\ startDelay => mdmaWait = 0
       /\ ~Requested /\ ~startDelay =>
            \/ mdmaWait <= 1
            \/ mdmaWait <= 3 /\ Quiet(LegEnd + IF pc = "hdma" THEN S ELSE 0)

\* A stretch of a line without requests is not left by the clock.
LEMMA QuietHolds ==
  ASSUME NEW S \in Nat, HdmaFits(S), Known, RefreshInv', TypeOK', Timely(S), Tick,
         NEW n \in Nat, Quiet(LegEnd + n)
  PROVE  ~LineEnds /\ ~InitDue /\ ~TransferDue /\ Quiet(LegEnd + n)'
<1>1. /\ Unit \in Nat \ {0} /\ HdmaH \in Nat /\ InitH \in Nat /\ ShortPeriod \in Nat
      /\ RefreshClocks \in Nat /\ S > 0
      /\ InitH + Unit + RefreshClocks + 4 * S + 5 * Unit + 2 * S <= HdmaH
      /\ HdmaH + 4 * S + 7 * Unit + 2 * S < ShortPeriod
  BY Room
<1>2. /\ hcounter \in Nat /\ left \in Nat /\ RefreshDue \in Nat
      /\ initAt <= InitH + Unit - 1 /\ initAt \in Nat
  BY LegEndStays DEF Known, TypeOK, CoreTypeOK, SchedulerTypeOK, Timely, LegsBounded
<1>3. left > 0 \/ RefreshDue > 0
  BY LegEndStays
<1>4. PICK e \in Nat : e = LegEnd /\ hcounter + 1 <= e
  BY <1>2, <1>3 DEF LegEnd
<1>5. \/ 0 < hcounter /\ initAt <= hcounter /\ e + n < HdmaH
      \/ HdmaH <= hcounter /\ e + n < ShortPeriod
  BY <1>4 DEF Quiet
<1>6. hcounter + 1 < ShortPeriod
  BY <1>1, <1>2, <1>4, <1>5
<1>7. ~LineEnds
  BY <1>1, <1>2, <1>6, BeamType DEF LineEnds, Known, TypeOK, CoreTypeOK
<1>8. /\ hcounter' = hcounter + 1 /\ vcounter' = vcounter /\ initAt' = initAt
      /\ LegEnd' = LegEnd
      /\ InitDue => hcounter + 1 = initAt
      /\ TransferDue => hcounter + 1 = HdmaH
  BY <1>7, LineRuns, LegEndStays
<1>9. ~InitDue /\ ~TransferDue
  BY <1>1, <1>2, <1>4, <1>5, <1>8
<1>10. Quiet(LegEnd + n)'
  <2>1. Quiet(e + n)
    BY <1>4
  <2>2. Quiet(e + n)'
    BY <1>1, <1>2, <1>8, <2>1 DEF Quiet
  <2> QED BY <1>4, <1>8, <2>2
<1> QED BY <1>7, <1>9, <1>10

\* A clock that raises a request does so where the manual DMA has waited one cycle at most.
LEMMA MdmaTick ==
  ASSUME NEW S \in Nat, HdmaFits(S), Known, RefreshInv', TypeOK', Timely(S), MdmaWaits(S), Tick
  PROVE  MdmaWaits(S)'
<1>1. UNCHANGED <<mdma, mdmaWait, pc>> /\ mdmaWait \in Nat
  BY TickEffect DEF Known, TypeOK, CoreTypeOK
<1>2. CASE ~mdma
  BY <1>1, <1>2 DEF MdmaWaits
<1>3. CASE mdma /\ ~InitDue /\ ~TransferDue
  <2>1. UNCHANGED <<startDelay, initPending, transferPending>>
    BY <1>3, TickEffect DEF Known, TypeOK, CoreTypeOK, SchedulerTypeOK
  <2>2. PICK n \in Nat : n = IF pc = "hdma" THEN S ELSE 0
    OBVIOUS
  <2>3. Quiet(LegEnd + n) => Quiet(LegEnd + n)'
    BY QuietHolds
  <2>4. Quiet(LegEnd + IF pc = "hdma" THEN S ELSE 0) => Quiet(LegEnd + IF pc = "hdma" THEN S ELSE 0)'
    BY <1>1, <2>2, <2>3
  <2> QED BY <1>1, <1>3, <2>1, <2>4 DEF MdmaWaits, Requested
<1>4. CASE mdma /\ (InitDue \/ TransferDue)
  <2>1. ~LineEnds
    BY <1>4, LineTurns
  <2>2. ~Requested /\ Requested' /\ startDelay'
    BY <1>4, <2>1, LineRuns, TickEffect DEF Requested
  <2>3. PICK n \in Nat : n = IF pc = "hdma" THEN S ELSE 0
    OBVIOUS
  <2>4. ~Quiet(LegEnd + IF pc = "hdma" THEN S ELSE 0)
    BY <1>4, <2>3, QuietHolds
  <2>5. mdmaWait <= 1
    <3>1. CASE startDelay
      BY <1>4, <2>2, <3>1 DEF MdmaWaits
    <3>2. CASE ~startDelay
      BY <1>4, <2>2, <2>4, <3>2 DEF MdmaWaits
    <3> QED BY <3>1, <3>2
  <2> QED BY <1>1, <1>4, <2>2, <2>5 DEF MdmaWaits
<1> QED BY <1>2, <1>3, <1>4

\* A cycle that fits in a stretch without requests leaves the rest of it.
LEMMA QuietMoves ==
  ASSUME NEW S \in Nat, HdmaFits(S), Known, TypeOK', AdvanceDone, UNCHANGED beam,
         NEW n \in Nat, Quiet(LegEnd + n), NEW l \in 0 .. n, LegIs(l), pc' # "hdma"
  PROVE  Quiet(LegEnd + IF pc = "hdma" THEN S ELSE 0)'
<1>1. PICK e \in Nat : e = LegEnd
  BY LegEndMoves
<1>2. LegEnd' = e + l /\ UNCHANGED <<hcounter, vcounter, initAt>>
  BY <1>1, LegEndMoves DEF LegIs
<1>3. HdmaH \in Nat /\ ShortPeriod \in Nat
  BY Room
<1>4. Quiet(e + n)
  BY <1>1
<1>5. Quiet(e + l)
  BY <1>3, <1>4 DEF Quiet
<1>6. Quiet(e + l)'
  BY <1>2, <1>5 DEF Quiet
<1>7. (LegEnd + IF pc = "hdma" THEN S ELSE 0)' = e + l
  BY <1>2
<1> QED BY <1>6, <1>7 DEF Quiet

\* A request that is served now was raised in a stretch with room for another access.
LEMMA QuietAtService ==
  ASSUME NEW S \in Nat, HdmaFits(S), Known, Timely(S), Requested, pc = "idle", ~startDelay
  PROVE  Quiet(LegEnd + S)
<1>1. /\ Unit \in Nat /\ HdmaH \in Nat /\ ShortPeriod \in Nat
      /\ left \in Nat /\ hcounter \in Nat /\ RefreshDue \in Nat
  BY Room DEF Known, TypeOK, CoreTypeOK, SchedulerTypeOK, RefreshDue
<1>2. PICK e \in Nat : e = LegEnd
  BY <1>1 DEF LegEnd
<1>3. Backlog(S) = 0
  BY DEF Backlog
<1>4. CASE initPending
  <2>1. vcounter = 0 /\ 0 < hcounter /\ initAt <= hcounter /\ e + 0 + 5 * Unit + 2 * S < HdmaH
    BY <1>2, <1>3, <1>4 DEF Timely, InitInTime
  <2>2. e + S < HdmaH
    BY <1>1, <2>1
  <2> QED BY <1>2, <2>1, <2>2 DEF Quiet
<1>5. CASE transferPending
  <2>1. HdmaH <= hcounter /\ e + 0 + 7 * Unit + 2 * S < ShortPeriod
    BY <1>2, <1>3, <1>5 DEF Timely, TransferInTime
  <2>2. e + S < ShortPeriod
    BY <1>1, <2>1
  <2> QED BY <1>2, <2>1, <2>2 DEF Quiet
<1> QED BY <1>4, <1>5 DEF Requested

\* A cycle that does not start the armed manual DMA clears the shared delay or serves the
\* request before it (civ_dma_process_cpu_cycle).
LEMMA MdmaCpuCycle ==
  ASSUME NEW S \in Nat, HdmaFits(S), Known, TypeOK', Timely(S), MdmaWaits(S), CpuCycle
  PROVE  MdmaWaits(S)'
<1>1. PICK s \in Speeds : ProcessCpuCycle(s)
  BY DEF CpuCycle
<1>2. s \in 0 .. S /\ 0 \in 0 .. S
  BY Room
<1>3. /\ pc = "idle" /\ UNCHANGED beam /\ AdvanceDone /\ mdmaWait \in Nat
      /\ mdmaWait' = IF mdma' THEN mdmaWait + 1 ELSE 0
      /\ mdma \in BOOLEAN
  BY <1>1 DEF ProcessCpuCycle, CpuCycle, Timely, Stopped, Known, TypeOK, CoreTypeOK, ArbiterTypeOK
<1>4. CASE ~mdma'
  BY <1>3, <1>4 DEF MdmaWaits
<1>5. CASE mdma' /\ startDelay
  <2>1. ClearStartDelay(s) \/ NothingDue(s)
    BY <1>1, <1>5 DEF ProcessCpuCycle, RunTransfer, RunInit, StartManualDma, TransferTurn,
                      InitTurn, MdmaTurn
  <2>2. /\ mdma /\ ~startDelay' /\ pc' = "access" /\ UNCHANGED <<initPending, transferPending>>
    BY <1>5, <2>1 DEF ClearStartDelay, NothingDue, StartAccess, dmaVars, requests
  <2>3. mdmaWait' = mdmaWait + 1
    BY <1>3, <1>5
  <2>4. CASE Requested
    <3>1. mdmaWait <= 1
      BY <1>5, <2>2, <2>4 DEF MdmaWaits
    <3> QED BY <1>3, <1>5, <2>2, <2>3, <2>4, <3>1 DEF MdmaWaits, Requested
  <2>5. CASE ~Requested
    <3>1. mdmaWait = 0
      BY <1>5, <2>2, <2>5 DEF MdmaWaits
    <3>2. mdmaWait' <= 1
      BY <2>3, <3>1
    <3> QED BY <1>5, <2>2, <2>5, <3>2 DEF MdmaWaits, Requested
  <2> QED BY <2>4, <2>5
<1>6. CASE mdma' /\ ~startDelay
  <2>1. RunTransfer(s) \/ RunInit(s)
    BY <1>1, <1>6 DEF ProcessCpuCycle, NothingDue, ClearStartDelay, StartManualDma, dmaVars
  <2>2. /\ Requested /\ mdma /\ ~Requested' /\ ~startDelay'
    <3>1. ~(initPending /\ transferPending)
      BY OneRequest
    <3>2. /\ UNCHANGED <<mdma, startDelay>>
          /\ \/ transferPending /\ transferPending' = FALSE /\ initPending' = initPending
             \/ initPending /\ initPending' = FALSE /\ ~transferPending
                /\ transferPending' = transferPending
      BY <2>1 DEF RunTransfer, RunInit, TransferTurn, InitTurn, InitServed
    <3> QED BY <1>6, <3>1, <3>2 DEF Requested
  <2>3. pc' \in {"access", "hdma"}
    BY <2>1 DEF RunTransfer, RunInit, StartAccess, Abort
  <2>4. mdmaWait <= 2
    BY <1>6, <2>2 DEF MdmaWaits
  <2>5. mdmaWait' <= 3
    BY <1>3, <1>6, <2>4
  <2>6. Quiet(LegEnd + IF pc = "hdma" THEN S ELSE 0)'
    <3>1. CASE pc' = "hdma"
      BY <3>1, TimelyCpuCycle DEF Timely, BlockInTime
    <3>2. CASE pc' = "access"
      <4>1. LegIs(s) \/ LegIs(0)
        BY <2>1, <3>2 DEF RunTransfer, RunInit, StartAccess, Abort, LegIs
      <4>2. Quiet(LegEnd + S)
        BY <1>3, <1>6, <2>2, QuietAtService
      <4> QED BY <1>2, <1>3, <3>2, <4>1, <4>2, QuietMoves
    <3> QED BY <2>3, <3>1, <3>2
  <2> QED BY <1>6, <2>2, <2>3, <2>5, <2>6 DEF MdmaWaits
<1> QED BY <1>4, <1>5, <1>6

\* An armed manual DMA waits outside one that runs, so only the access after an HDMA
\* block is left.
LEMMA MdmaTransfer ==
  ASSUME NEW S \in Nat, HdmaFits(S), Known, TypeOK', Timely(S), MdmaWaits(S), Transfer
  PROVE  MdmaWaits(S)'
<1>1. /\ pc \in {"hdma", "mdma", "nested", "mdmaEnd"} /\ AdvanceDone /\ UNCHANGED beam
      /\ UNCHANGED <<mdma, mdmaWait>>
  BY DEF Transfer, TransferFailed, CheckNestedHdma, NestedDone, TransferDone, dmaVars
<1>2. CASE ~mdma
  BY <1>1, <1>2 DEF MdmaWaits
<1>3. CASE mdma
  <2>1. pc = "hdma" /\ failed = NoFailure /\ ~Requested
    BY <1>1, <1>3 DEF MdmaWaits, Timely, Stopped, BlockInTime, Requested
  <2>2. TransferDone
    BY <2>1 DEF Transfer, CheckNestedHdma, NestedDone
  <2>3. LegIs(speed) /\ pc' = "access" /\ UNCHANGED <<startDelay, initPending, transferPending>>
    BY <2>2 DEF TransferDone, StartAccess, requests, LegIs
  <2>4. speed \in 0 .. S
    <3>1. speed \in Speeds
      BY <1>1 DEF Known, Shape
    <3> QED BY <3>1, Room
  <2>5. Quiet(LegEnd + S)
    BY <2>1 DEF Timely, BlockInTime
  <2>6. Quiet(LegEnd + IF pc = "hdma" THEN S ELSE 0)'
    BY <1>1, <2>3, <2>4, <2>5, QuietMoves
  <2>7. mdmaWait \in Nat
    BY DEF Known, TypeOK, CoreTypeOK
  <2>8. startDelay => mdmaWait = 0
    BY <1>3, <2>1 DEF MdmaWaits
  <2>9. ~startDelay => mdmaWait <= 1 \/ mdmaWait <= 3
    BY <1>3, <2>1 DEF MdmaWaits
  <2> QED BY <1>1, <1>3, <2>1, <2>3, <2>6, <2>7, <2>8, <2>9 DEF MdmaWaits, Requested
<1> QED BY <1>2, <1>3

\* Between cycles the wait changes by a store to $420B alone.
LEMMA MdmaSettles ==
  ASSUME NEW S \in Nat, HdmaFits(S), Known, TypeOK', Timely(S), MdmaWaits(S), Settles
  PROVE  MdmaWaits(S)'
<1>1. /\ pc \in {"idle", "access"} /\ pc' \in {"idle", "halted"} /\ AdvanceDone
      /\ UNCHANGED <<beam, left, initPending, transferPending>>
  BY DEF Settles
<1>2. CASE WriteMdmaen /\ pc # "idle"
  <2>1. mdmaWait' = 0 /\ (mdma' => startDelay' \/ UNCHANGED <<mdma, startDelay>>)
    BY <1>2 DEF WriteMdmaen
  <2> QED BY <1>1, <2>1 DEF MdmaWaits, Requested
<1>3. CASE ~WriteMdmaen \/ pc = "idle"
  <2>1. UNCHANGED <<startDelay, mdma, mdmaWait>>
    BY <1>3 DEF Settles
  <2>2. Quiet(LegEnd + IF pc = "hdma" THEN S ELSE 0) => Quiet(LegEnd + IF pc = "hdma" THEN S ELSE 0)'
    <3>1. LegIs(0) /\ 0 \in 0 .. 0 /\ 0 \in Nat
      BY <1>1 DEF AdvanceDone, LegIs
    <3>2. (LegEnd + IF pc = "hdma" THEN S ELSE 0) = LegEnd + 0
      BY <1>1
    <3> QED BY <1>1, <3>1, <3>2, QuietMoves
  <2> QED BY <1>1, <2>1, <2>2 DEF MdmaWaits, Requested
<1> QED BY <1>2, <1>3

\* MdmaWaits is inductive.
LEMMA MdmaStep ==
  ASSUME NEW S \in Nat, HdmaFits(S), Known, Known', Timely(S), MdmaWaits(S), [Next]_vars
  PROVE  MdmaWaits(S)'
<1>1. TypeOK /\ TypeOK' /\ RefreshInv' /\ Stopped
  BY DEF Known, Timely
<1>2. CASE Tick
  BY <1>1, <1>2, MdmaTick
<1>3. CASE CpuCycle
  BY <1>1, <1>3, MdmaCpuCycle
<1>4. CASE Transfer
  BY <1>1, <1>4, MdmaTransfer
<1>5. CASE Settles
  BY <1>1, <1>5, MdmaSettles
<1>6. CASE Reset /\ stray' = Strayed
  BY <1>6 DEF Reset, ArbiterReset, MdmaWaits
<1>7. CASE UNCHANGED vars
  BY <1>7 DEF vars, beam, requests, dmaVars, history, MdmaWaits, Requested, LegEnd, RefreshDue, Quiet
<1> QED BY <1>1, <1>2, <1>3, <1>4, <1>5, <1>6, <1>7, StepKinds

\* An armed manual DMA starts within three CPU cycles (civ_dma_process_cpu_cycle).
THEOREM MdmaInTime ==
  ASSUME NEW S \in Nat, HdmaFits(S), MdmaBound \in Nat, MdmaBound >= 3
  PROVE  Spec => []MdmaServed
<1>1. Init => MdmaWaits(S)
  BY DEF Init, ArbiterInit, MdmaWaits
<1>2. Known /\ Known' /\ Timely(S) /\ MdmaWaits(S) /\ [Next]_vars => MdmaWaits(S)'
  BY MdmaStep
<1>3. Known /\ MdmaWaits(S) => MdmaServed
  <2> SUFFICES ASSUME Known, MdmaWaits(S) PROVE MdmaServed
    OBVIOUS
  <2>1. mdmaWait \in Nat
    BY DEF Known, TypeOK, CoreTypeOK
  <2>2. mdmaWait <= 3
    BY <2>1 DEF MdmaWaits
  <2> QED BY <2>1, <2>2 DEF MdmaServed
<1> QED
  BY <1>1, <1>2, <1>3, AlwaysTimely, PTL DEF Spec

-----------------------------------------------------------------------------
\* A second store to $420B.  An instruction stores to it once, so the next store is in a
\* later instruction, after its fetch cycles and the fetch of its operand: by then the
\* armed manual DMA has waited longer than it can.
InCycle == IF pc \in {"access", "hdma"} THEN 1 ELSE 0

StageReached ==
  mdma => /\ stage = "fetch" => mdmaWait + cycles >= FetchCycles + InCycle
          /\ stage = "operand" => mdmaWait >= FetchCycles + InCycle
          /\ stage = "body" => mdmaWait >= FetchCycles + 1 + InCycle

\* What a step between two legs does to the stage: it stays, or a fetch cycle or the
\* operand is over, or another instruction begins, or the instruction is past its body.
StageMoves ==
  \/ UNCHANGED <<stage, cycles>>
  \/ pc = "access" /\ stage = "fetch" /\ cycles > 0 /\ cycles' = cycles - 1
     /\ stage' = IF cycles = 1 THEN "operand" ELSE "fetch"
  \/ pc = "access" /\ stage = "operand" /\ stage' = "body"
  \/ stage' = "fetch" /\ cycles' = FetchCycles
  \/ stage' \notin {"fetch", "operand", "body"}

\* Every step of the CPU, the interrupt logic included, is one of these.
LEMMA StageStep ==
  ASSUME TypeOK, Shape, Stopped,
         \/ Fetch \/ PlainAccess \/ WriteNmitimen \/ WriteTimer \/ ReadRdnmi \/ ReadTimeup
         \/ WriteMdmaen \/ WriteHdmaen \/ WriteSetini \/ EntryCycle \/ EnterNmi \/ EnterIrq
         \/ Retire \/ Rti \/ AcceptNmi \/ AcceptIrq \/ NextInstruction
  PROVE  /\ StageMoves /\ (WriteMdmaen => stage = "body" /\ stage' = "stored")
         /\ pc = "idle" => stage # "fetch"
<1>1. CASE Fetch
  <2>1. cycles > 0
    BY <1>1 DEF Fetch, Shape, TypeOK, CoreTypeOK
  <2> QED BY <1>1, <2>1 DEF Fetch, AccessDone, StageMoves, WriteMdmaen
<1>2. CASE PlainAccess
  BY <1>2 DEF PlainAccess, AccessDone, StageMoves, WriteMdmaen
<1>3. CASE WriteNmitimen \/ WriteTimer \/ ReadRdnmi \/ ReadTimeup \/ WriteHdmaen \/ WriteSetini
  BY <1>3 DEF WriteNmitimen, WriteTimer, ReadRdnmi, ReadTimeup, WriteHdmaen, WriteSetini,
              Access, AccessDone, StageMoves, WriteMdmaen
<1>4. CASE WriteMdmaen
  BY <1>4 DEF WriteMdmaen, Access, AccessDone, StageMoves
<1>5. CASE EntryCycle \/ EnterNmi \/ EnterIrq
  BY <1>5 DEF EntryCycle, EnterNmi, EnterIrq, EnterHandler, AccessDone, StageMoves, WriteMdmaen
<1>6. CASE Retire \/ Rti \/ AcceptNmi \/ AcceptIrq \/ NextInstruction
  <2>1. pc = "idle"
    BY <1>6 DEF Retire, RetireWith, Executed, Rti, AcceptNmi, AcceptIrq, NextInstruction
  <2>2. ~WriteMdmaen
    BY <2>1 DEF WriteMdmaen, Access, AccessDone
  <2>3. stage # "fetch"
    BY <1>6 DEF Retire, RetireWith, Executed, Rti, AcceptNmi, AcceptIrq, NextInstruction
  <2> QED BY <1>6, <2>2, <2>3 DEF Retire, RetireWith, Rti, AcceptNmi, AcceptIrq, Accept,
                                  NextInstruction, StageMoves
<1> QED BY <1>1, <1>2, <1>3, <1>4, <1>5, <1>6

\* StepKinds, with the stages, and with the one store that may find a DMA already armed.
LEMMA StageKinds ==
  ASSUME TypeOK, Shape, Stopped, [Next]_vars
  PROVE  \/ Tick \/ CpuCycle \/ Transfer \/ (Reset /\ stray' = Strayed) \/ UNCHANGED vars
         \/ /\ Settles /\ StageMoves
            /\ failed' = "doubleMdma" => failed = "doubleMdma" \/ (WriteMdmaen /\ mdma)
            /\ WriteMdmaen => stage = "body" /\ stage' = "stored" /\ pc = "access"
            /\ pc = "idle" => stage # "fetch"
<1>1. CASE \/ Fetch \/ PlainAccess \/ WriteNmitimen \/ WriteTimer \/ ReadRdnmi \/ ReadTimeup
           \/ WriteMdmaen \/ WriteHdmaen \/ WriteSetini \/ EntryCycle \/ EnterNmi \/ EnterIrq
  <2>1. Settles
    BY <1>1, AccessSettles
  <2>2. /\ StageMoves /\ (WriteMdmaen => stage = "body" /\ stage' = "stored")
        /\ pc = "idle" => stage # "fetch"
    BY <1>1, StageStep
  <2>3. WriteMdmaen => pc = "access"
    BY DEF WriteMdmaen, Access, AccessDone
  <2>4. failed' = "doubleMdma" => failed = "doubleMdma" \/ (WriteMdmaen /\ mdma)
    <3>1. CASE WriteMdmaen
      BY <3>1 DEF WriteMdmaen, Access, AccessDone, NoFailure
    <3>2. CASE ~WriteMdmaen
      <4>1. AccessDone(failed)
        BY <1>1, <3>2 DEF Fetch, PlainAccess, WriteNmitimen, WriteTimer, ReadRdnmi, ReadTimeup,
             WriteHdmaen, WriteSetini, Access, EntryCycle, EnterNmi, EnterIrq, EnterHandler
      <4> QED BY <4>1 DEF AccessDone, NoFailure
    <3> QED BY <3>1, <3>2
  <2> QED BY <2>1, <2>2, <2>3, <2>4
<1>2. CASE Retire \/ Rti \/ AcceptNmi \/ AcceptIrq \/ NextInstruction
  <2>1. Settles
    BY <1>2, BoundarySettles
  <2>2. /\ StageMoves /\ (WriteMdmaen => stage = "body" /\ stage' = "stored")
        /\ pc = "idle" => stage # "fetch"
    BY <1>2, StageStep
  <2>3. WriteMdmaen => pc = "access"
    BY DEF WriteMdmaen, Access, AccessDone
  <2>4. failed' \in {failed, "emulation", "rti"}
    BY <1>2 DEF Retire, RetireWith, Rti, AcceptNmi, AcceptIrq, Accept, NextInstruction
  <2> QED BY <2>1, <2>2, <2>3, <2>4 DEF NoFailure
<1> QED BY <1>1, <1>2 DEF Next

\* The wait of an armed manual DMA keeps up with the cycles of the instructions.
LEMMA StageReachedStep ==
  ASSUME NEW S \in Nat, HdmaFits(S), Known, Known', Timely(S), MdmaWaits(S), StageReached,
         [Next]_vars
  PROVE  StageReached'
<1>1. /\ TypeOK /\ Shape /\ Stopped /\ cycles \in Nat /\ cycles' \in Nat
      /\ mdmaWait \in Nat /\ mdmaWait' \in Nat /\ FetchCycles \in Nat
  BY MachineAssumption DEF Known, Timely, TypeOK, CoreTypeOK
<1>2. CASE Tick
  BY <1>2, TickEffect DEF StageReached, InCycle
<1>3. CASE CpuCycle
  <2>1. PICK s \in Speeds : ProcessCpuCycle(s)
    BY <1>3 DEF CpuCycle
  <2>2. pc = "idle" /\ UNCHANGED <<stage, cycles>> /\ (mdma' => mdmaWait' = mdmaWait + 1)
    BY <1>3, <2>1 DEF CpuCycle, ProcessCpuCycle, cpuVars
  <2>3. mdma' => mdma
    BY <2>1 DEF ProcessCpuCycle, NothingDue, ClearStartDelay, RunTransfer, RunInit, StartManualDma,
                dmaVars
  <2> QED BY <1>1, <2>2, <2>3 DEF StageReached, InCycle
<1>4. CASE Transfer
  <2>1. UNCHANGED <<stage, cycles, mdma, mdmaWait>>
    BY <1>4 DEF Transfer, TransferFailed, CheckNestedHdma, NestedDone, TransferDone, dmaVars, cpuVars
  <2>2. pc # "idle" /\ (mdma => pc = "hdma")
    BY <1>4 DEF MdmaWaits, Transfer, TransferFailed, CheckNestedHdma, NestedDone, TransferDone
  <2> QED BY <1>1, <2>1, <2>2 DEF StageReached, InCycle
<1>5. ASSUME Settles, StageMoves,
             WriteMdmaen => stage = "body" /\ stage' = "stored" /\ pc = "access"
      PROVE  StageReached'
  <2>1. InCycle' = 0 /\ InCycle \in {0, 1} /\ (pc = "access" => InCycle = 1)
    BY <1>5 DEF Settles, InCycle
  <2>2. CASE WriteMdmaen
    BY <1>5, <2>2 DEF StageReached
  <2>3. CASE ~WriteMdmaen
    <3>1. UNCHANGED <<mdma, mdmaWait>>
      BY <1>5, <2>3 DEF Settles
    <3>2. PICK w \in Nat, c \in Nat, i \in {0, 1}, f \in Nat :
            w = mdmaWait /\ c = cycles /\ i = InCycle /\ f = FetchCycles
      BY <1>1, <2>1
    <3>3. CASE ~mdma
      BY <3>1, <3>3 DEF StageReached
    <3>4. CASE mdma
      <4>1. /\ stage = "fetch" => w + c >= f + i
            /\ stage = "operand" => w >= f + i
            /\ stage = "body" => w >= f + 1 + i
        BY <3>2, <3>4 DEF StageReached
      <4>2. /\ stage' = "fetch" => w + cycles' >= f
            /\ stage' = "operand" => w >= f
            /\ stage' = "body" => w >= f + 1
        <5>1. CASE UNCHANGED <<stage, cycles>>
          BY <3>2, <4>1, <5>1
        <5>2. CASE pc = "access" /\ stage = "fetch" /\ cycles > 0 /\ cycles' = cycles - 1
                   /\ stage' = IF cycles = 1 THEN "operand" ELSE "fetch"
          <6>1. i = 1 /\ cycles' = c - 1 /\ c > 0 /\ w + c >= f + 1
            BY <2>1, <3>2, <4>1, <5>2
          <6>2. stage' = "operand" => c = 1
            BY <3>2, <5>2
          <6>3. stage' # "body"
            BY <5>2
          <6> QED BY <6>1, <6>2, <6>3
        <5>3. CASE pc = "access" /\ stage = "operand" /\ stage' = "body"
          BY <2>1, <3>2, <4>1, <5>3
        <5>4. CASE stage' = "fetch" /\ cycles' = FetchCycles
          BY <3>2, <5>4
        <5>5. CASE stage' \notin {"fetch", "operand", "body"}
          BY <5>5
        <5> QED BY <1>5, <5>1, <5>2, <5>3, <5>4, <5>5 DEF StageMoves
      <4> QED BY <2>1, <3>1, <3>2, <4>2 DEF StageReached
    <3> QED BY <3>3, <3>4
  <2> QED BY <2>2, <2>3
<1>6. CASE Reset /\ stray' = Strayed
  BY <1>6 DEF Reset, ArbiterReset, StageReached
<1>7. CASE UNCHANGED vars
  BY <1>7 DEF vars, dmaVars, cpuVars, history, StageReached, InCycle
<1> QED BY <1>1, <1>2, <1>3, <1>4, <1>5, <1>6, <1>7, StageKinds

\* The C code fails closed when a request meets an unserved one of its kind; with room in
\* the frame, and with two cycles before any store, it never does (civ_hdma_schedule_init,
\* civ_hdma_schedule_scanline, the $420B write).
THEOREM NoRequestTwice ==
  ASSUME NEW S \in Nat, HdmaFits(S), FetchCycles >= 2
  PROVE  Spec => []NoDuplicateRequest
<1> DEFINE Known2 == Known /\ Timely(S)
<1> DEFINE IInv == MdmaWaits(S) /\ StageReached /\ NoDuplicateRequest
<1>1. Init => IInv
  BY DEF Init, SchedulerInit, ArbiterInit, MdmaWaits, StageReached, NoDuplicateRequest, NoFailure
<1>2. Known2 /\ Known2' /\ IInv /\ [Next]_vars => IInv'
  <2> SUFFICES ASSUME Known, Known', Timely(S), MdmaWaits(S), StageReached, NoDuplicateRequest,
                      [Next]_vars
               PROVE  IInv'
    OBVIOUS
  <2>1. MdmaWaits(S)' /\ StageReached'
    BY MdmaStep, StageReachedStep
  <2>2. TypeOK /\ TypeOK' /\ Shape /\ RefreshInv' /\ Stopped
    BY DEF Known, Timely
  <2>3. CASE Tick
    <3>1. ~(InitDue /\ initPending) /\ ~(TransferDue /\ transferPending)
      BY <2>2, <2>3, LineTurns, LineRuns
    <3> QED BY <2>1, <2>3, <3>1, TickEffect DEF NoDuplicateRequest
  <2>4. CASE CpuCycle
    <3>1. failed' \in {failed, "uninitialized"}
      BY <2>4 DEF CpuCycle, ProcessCpuCycle, NothingDue, ClearStartDelay, RunTransfer, RunInit,
                  StartManualDma, Abort
    <3> QED BY <2>1, <3>1 DEF NoDuplicateRequest
  <2>5. CASE Transfer
    <3>1. failed' \in {failed, "uninitialized"}
      BY <2>5 DEF Transfer, TransferFailed, CheckNestedHdma, NestedDone, TransferDone, Abort
    <3> QED BY <2>1, <3>1 DEF NoDuplicateRequest
  <2>6. ASSUME Settles, failed' = "doubleMdma" => failed = "doubleMdma" \/ (WriteMdmaen /\ mdma),
               WriteMdmaen => stage = "body" /\ stage' = "stored" /\ pc = "access"
        PROVE  NoDuplicateRequest'
    <3>1. ~(WriteMdmaen /\ mdma)
      <4> SUFFICES ASSUME WriteMdmaen, mdma PROVE FALSE
        OBVIOUS
      <4>1. stage = "body" /\ InCycle = 1
        BY <2>6 DEF InCycle
      <4>2. mdmaWait \in Nat /\ FetchCycles \in Nat /\ FetchCycles >= 2
        BY MachineAssumption DEF Known, TypeOK, CoreTypeOK
      <4>3. mdmaWait >= FetchCycles + 1 + 1
        BY <4>1 DEF StageReached
      <4>4. mdmaWait <= 3
        BY <4>2 DEF MdmaWaits
      <4> QED BY <4>2, <4>3, <4>4
    <3> QED BY <2>6, <3>1 DEF NoDuplicateRequest, Settles
  <2>7. CASE Reset /\ stray' = Strayed
    BY <2>1, <2>7 DEF Reset, SchedulerReset, NoDuplicateRequest, NoFailure
  <2>8. CASE UNCHANGED vars
    BY <2>1, <2>8 DEF vars, NoDuplicateRequest
  <2> QED BY <2>1, <2>2, <2>3, <2>4, <2>5, <2>6, <2>7, <2>8, StageKinds
<1>3. IInv => NoDuplicateRequest
  OBVIOUS
<1> QED
  BY <1>1, <1>2, <1>3, AlwaysTimely, PTL DEF Spec

-----------------------------------------------------------------------------
\* A mature NMI edge.  Locks counts the locked cycles that can still follow before an
\* unlocked one samples the edge: a manual DMA ends in one, and so does the HDMA block
\* that runs before or after it; a set delay stands for a cycle that clears it, unlocked.
Locks ==
  CASE pc \in {"mdma", "nested"} -> 2
    [] pc = "mdmaEnd" -> IF Requested /\ ~startDelay THEN 2 ELSE 1
    [] pc = "hdma" -> IF mdma THEN 3 ELSE 1
    [] pc \in {"idle", "access"} ->
         IF startDelay THEN 0 ELSE (IF Requested THEN 1 ELSE 0) + IF mdma THEN 2 ELSE 0
    [] OTHER -> 0

LocksBounded ==
  /\ deferred <= 3
  /\ failed = NoFailure => deferred + Locks <= 3

\* The pieces a proof about Locks computes with.
LEMMA LocksType ==
  ASSUME TypeOK
  PROVE  Locks \in 0 .. 3 /\ deferred \in Nat
         /\ mdma \in BOOLEAN /\ startDelay \in BOOLEAN /\ Requested \in BOOLEAN
BY DEF Locks, Requested, TypeOK, CoreTypeOK, ArbiterTypeOK, SchedulerTypeOK

\* The same after a step.
LEMMA LocksTypeNext ==
  ASSUME TypeOK'
  PROVE  Locks' \in 0 .. 3 /\ deferred' \in Nat
BY DEF Locks, Requested, TypeOK, CoreTypeOK, ArbiterTypeOK, SchedulerTypeOK

\* The step leaves d locked cycles counted and k to come.
DeferredIs(d) == deferred' = d
LocksAre(k)   == Locks' = k

\* The bound, with the numbers named.
LEMMA LocksAdd ==
  ASSUME NEW d \in Nat, NEW k \in Nat, DeferredIs(d), LocksAre(k),
         d <= 3, failed' = NoFailure => d + k <= 3
  PROVE  LocksBounded'
<1>1. deferred' + Locks' = d + k /\ deferred' = d
  BY DEF DeferredIs, LocksAre
<1>2. deferred' <= 3
  BY <1>1
<1>3. failed' = NoFailure => deferred' + Locks' <= 3
  BY <1>1
<1> QED BY <1>2, <1>3 DEF LocksBounded

\* The edge detector counts at most one more cycle, and none when the cycle is unlocked.
LEMMA DeferralCounted ==
  ASSUME TypeOK, CountDeferral
  PROVE  /\ deferred' \in {0, deferred, deferred + 1}
         /\ pc' # "access" => deferred' = deferred
         /\ SampleInterrupts(FALSE) /\ pc' = "access" => deferred' = 0
BY DEF CountDeferral, SampleInterrupts, TypeOK, CoreTypeOK

\* The numbers of a step: d locked cycles counted and at most k to come.
LEMMA LocksNamed ==
  ASSUME TypeOK, TypeOK', LocksBounded, failed = NoFailure
  PROVE  \E d, d1 \in Nat, k, k1 \in 0 .. 3 :
           /\ d = deferred /\ d1 = deferred' /\ k = Locks /\ k1 = Locks' /\ d + k <= 3
<1>1. PICK d \in Nat, k \in 0 .. 3 : d = deferred /\ k = Locks
  BY LocksType
<1>2. PICK d1 \in Nat, k1 \in 0 .. 3 : d1 = deferred' /\ k1 = Locks'
  BY LocksTypeNext
<1>3. deferred + Locks <= 3
  BY DEF LocksBounded
<1>4. d + k <= 3
  BY <1>1, <1>3
<1> QED BY <1>1, <1>2, <1>4

\* A cycle begins: a lock that is spent was counted.
LEMMA LocksCpuCycle ==
  ASSUME NEW S \in Nat, HdmaFits(S), Known, TypeOK', Timely(S), LocksBounded, CpuCycle
  PROVE  LocksBounded'
<1>1. PICK s \in Speeds : ProcessCpuCycle(s)
  BY DEF CpuCycle
<1>2. /\ pc = "idle" /\ failed = NoFailure /\ CountDeferral /\ TypeOK
      /\ ~(initPending /\ transferPending)
  BY <1>1, OneRequest DEF CpuCycle, ProcessCpuCycle, Known
<1>3. PICK d \in Nat, d1 \in Nat, k \in 0 .. 3, k1 \in 0 .. 3 :
        d = deferred /\ d1 = deferred' /\ k = Locks /\ k1 = Locks' /\ d + k <= 3
  BY <1>2, LocksNamed
<1>4. /\ d1 \in {0, d, d + 1} /\ (pc' # "access" => d1 = d)
      /\ k = IF startDelay THEN 0 ELSE (IF Requested THEN 1 ELSE 0) + IF mdma THEN 2 ELSE 0
  BY <1>2, <1>3, DeferralCounted DEF Locks
<1>5. d + k <= 3
  BY <1>3
<1>6. DeferredIs(d1) /\ LocksAre(k1)
  BY <1>3 DEF DeferredIs, LocksAre
<1>7. SUFFICES d1 + k1 <= 3
  BY <1>6, LocksAdd
<1>8. CASE NothingDue(s) \/ ClearStartDelay(s)
  <2>1. d1 = 0
    BY <1>2, <1>3, <1>8, DeferralCounted DEF NothingDue, ClearStartDelay, StartAccess
  <2> QED BY <2>1
<1>9. CASE RunTransfer(s) \/ RunInit(s)
  <2>1. /\ ~startDelay /\ ~startDelay' /\ Requested /\ ~Requested' /\ UNCHANGED mdma
    <3>1. /\ UNCHANGED <<mdma, startDelay>> /\ ~startDelay
          /\ \/ transferPending /\ transferPending' = FALSE /\ initPending' = initPending
             \/ initPending /\ initPending' = FALSE /\ ~transferPending
                /\ transferPending' = transferPending
      BY <1>9 DEF RunTransfer, RunInit, TransferTurn, InitTurn, InitServed
    <3> QED BY <1>2, <3>1 DEF Requested
  <2>2. PICK m \in {0, 2} : m = IF mdma THEN 2 ELSE 0
    OBVIOUS
  <2>3. k = 1 + m
    BY <1>4, <2>1, <2>2
  <2>4. CASE pc' = "access"
    <3>1. k1 = m
      BY <1>3, <2>1, <2>2, <2>4 DEF Locks
    <3> QED BY <1>5, <1>4, <2>3, <3>1
  <2>5. CASE pc' = "hdma"
    <3>1. k1 = 1 + m
      BY <1>3, <2>1, <2>2, <2>5 DEF Locks
    <3> QED BY <1>5, <1>4, <2>3, <2>5, <3>1
  <2> QED BY <1>9, <2>4, <2>5 DEF RunTransfer, RunInit, StartAccess, Abort
<1>10. CASE StartManualDma(s)
  <2>1. pc' = "mdma" /\ mdma /\ ~startDelay /\ ~Requested
    BY <1>10 DEF StartManualDma, MdmaTurn, Requested
  <2>2. k = 2 /\ k1 = 2 /\ d1 = d
    BY <1>3, <1>4, <2>1 DEF Locks
  <2> QED BY <1>5, <2>2
<1> QED BY <1>1, <1>8, <1>9, <1>10 DEF ProcessCpuCycle

\* So was the one that ends a block or a manual DMA.
LEMMA LocksTransfer ==
  ASSUME NEW S \in Nat, HdmaFits(S), Known, TypeOK', Timely(S), MdmaWaits(S), LocksBounded,
         Transfer
  PROVE  LocksBounded'
<1>1. /\ pc \in {"hdma", "mdma", "nested", "mdmaEnd"} /\ AdvanceDone /\ CountDeferral /\ TypeOK
      /\ UNCHANGED mdma
  BY DEF Known, Transfer, TransferFailed, CheckNestedHdma, NestedDone, TransferDone, dmaVars
<1>2. failed = NoFailure
  BY <1>1 DEF Timely, Stopped
<1>3. PICK d \in Nat, d1 \in Nat, k \in 0 .. 3, k1 \in 0 .. 3 :
        d = deferred /\ d1 = deferred' /\ k = Locks /\ k1 = Locks' /\ d + k <= 3
  BY <1>1, <1>2, LocksNamed
<1>4. d1 \in {0, d, d + 1} /\ (pc' # "access" => d1 = d)
  BY <1>1, <1>3, DeferralCounted
<1>5. d + k <= 3
  BY <1>3
<1>6. DeferredIs(d1) /\ LocksAre(k1)
  BY <1>3 DEF DeferredIs, LocksAre
<1>7. SUFFICES d1 <= 3 /\ (failed' = NoFailure => d1 + k1 <= 3)
  BY <1>6, LocksAdd
<1>8. CASE NestedDone
  <2>1. /\ pc = "nested" /\ UNCHANGED requests /\ ~Requested
        /\ pc' \in {"mdma", "mdmaEnd"}
    BY <1>8 DEF NestedDone, NextByte, Timely, BlockInTime, Requested
  <2>2. k = 2
    BY <1>3, <2>1 DEF Locks
  <2>3. k1 <= 2
    BY <1>3, <2>1 DEF Locks, Requested, requests
  <2> QED BY <1>5, <1>4, <2>1, <2>2, <2>3
<1>9. CASE CheckNestedHdma
  <2>1. pc = "mdma" /\ pc' \in {"mdma", "mdmaEnd", "nested", "access"}
        /\ (pc' = "access" => failed' = "uninitialized")
    BY <1>9 DEF CheckNestedHdma, NextByte, Nest, Abort
  <2>2. k = 2
    BY <1>3, <2>1 DEF Locks
  <2>3. CASE pc' = "access"
    BY <1>5, <1>4, <2>1, <2>2, <2>3 DEF NoFailure
  <2>4. CASE pc' # "access"
    <3>1. k1 <= 2
      BY <1>3, <2>1, <2>4 DEF Locks
    <3> QED BY <1>5, <1>4, <2>2, <2>4, <3>1
  <2> QED BY <2>3, <2>4
<1>10. CASE TransferDone
  <2>1. pc \in {"hdma", "mdmaEnd"} /\ pc' = "access" /\ UNCHANGED requests
    BY <1>10 DEF TransferDone, StartAccess
  <2>2. UNCHANGED startDelay /\ Requested' = Requested
    BY <2>1 DEF requests, Requested
  <2>3. k1 = IF startDelay THEN 0 ELSE (IF Requested THEN 1 ELSE 0) + IF mdma THEN 2 ELSE 0
    BY <1>1, <1>3, <2>1, <2>2 DEF Locks
  <2>4. k1 + 1 <= k
    <3>1. CASE pc = "hdma"
      <4>1. ~Requested
        BY <3>1 DEF Timely, BlockInTime, Requested
      <4>2. k = IF mdma THEN 3 ELSE 1
        BY <1>3, <3>1 DEF Locks
      <4> QED BY <2>3, <4>1, <4>2
    <3>2. CASE pc = "mdmaEnd"
      <4>1. ~mdma
        BY <3>2 DEF MdmaWaits
      <4>2. k = IF Requested /\ ~startDelay THEN 2 ELSE 1
        BY <1>3, <3>2 DEF Locks
      <4> QED BY <2>3, <4>1, <4>2
    <3> QED BY <2>1, <3>1, <3>2
  <2> QED BY <1>5, <1>4, <2>4
<1> QED BY <1>2, <1>8, <1>9, <1>10 DEF Transfer

\* No other step adds a lock: a clock that raises a request sets the delay as well.
LEMMA LocksStep ==
  ASSUME NEW S \in Nat, HdmaFits(S), Known, Known', Timely(S), MdmaWaits(S), LocksBounded,
         [Next]_vars
  PROVE  LocksBounded'
<1>1. TypeOK /\ TypeOK' /\ RefreshInv' /\ Stopped
  BY DEF Known, Timely
<1>2. PICK d \in Nat, d1 \in Nat, k \in 0 .. 3, k1 \in 0 .. 3 :
        d = deferred /\ d1 = deferred' /\ k = Locks /\ k1 = Locks'
  <2>1. PICK d \in Nat, k \in 0 .. 3 : d = deferred /\ k = Locks
    BY <1>1, LocksType
  <2>2. PICK d1 \in Nat, k1 \in 0 .. 3 : d1 = deferred' /\ k1 = Locks'
    BY <1>1, LocksTypeNext
  <2> QED BY <2>1, <2>2
<1>3. d <= 3 /\ (failed = NoFailure => d + k <= 3)
  <2>1. deferred <= 3 /\ (failed = NoFailure => deferred + Locks <= 3)
    BY DEF LocksBounded
  <2> QED BY <1>2, <2>1
<1>4. ASSUME deferred' = deferred, failed' = NoFailure => failed = NoFailure /\ k1 <= k
      PROVE  LocksBounded'
  <2>1. d1 = d
    BY <1>2, <1>4
  <2>2. d1 <= 3 /\ (failed' = NoFailure => d1 + k1 <= 3)
    BY <1>3, <1>4, <2>1
  <2>3. DeferredIs(d1) /\ LocksAre(k1)
    BY <1>2 DEF DeferredIs, LocksAre
  <2> QED BY <2>2, <2>3, LocksAdd
<1>5. CASE Tick
  <2>1. /\ UNCHANGED <<pc, mdma, deferred>>
        /\ \/ UNCHANGED <<startDelay, initPending, transferPending>>
           \/ startDelay' /\ Requested'
    <3>1. startDelay \in BOOLEAN /\ initPending \in BOOLEAN /\ transferPending \in BOOLEAN
      BY <1>1 DEF TypeOK, CoreTypeOK, SchedulerTypeOK
    <3>2. /\ UNCHANGED <<pc, mdma, deferred>>
          /\ initPending' = (initPending \/ InitDue)
          /\ transferPending' = (transferPending \/ TransferDue)
          /\ startDelay' = \/ startDelay
                           \/ InitDue /\ ~initPending
                           \/ TransferDue /\ ~transferPending
      BY <1>5, TickEffect
    <3>3. ~(InitDue /\ initPending) /\ ~(TransferDue /\ transferPending)
      BY <1>1, <1>5, LineTurns, LineRuns
    <3> QED BY <3>1, <3>2, <3>3 DEF Requested
  <2>2. failed = NoFailure
    BY <1>1, <1>5, Running
  <2>3. k1 <= k
    <3>1. CASE UNCHANGED <<startDelay, initPending, transferPending>>
      <4>1. k1 = k
        BY <1>2, <2>1, <3>1 DEF Locks, Requested
      <4> QED BY <4>1
    <3>2. CASE startDelay' /\ Requested'
      BY <1>2, <2>1, <3>2 DEF Locks
    <3> QED BY <2>1, <3>1, <3>2
  <2> QED BY <1>4, <2>1, <2>2, <2>3
<1>6. CASE Settles
  <2>1. deferred' = deferred /\ (failed' = NoFailure => failed = NoFailure)
    BY <1>6 DEF Settles, NoFailure
  <2>2. k1 <= k
    <3>1. CASE pc' = "halted"
      <4>1. k1 = 0
        BY <1>2, <3>1 DEF Locks
      <4> QED BY <4>1
    <3>2. CASE pc' = "idle" /\ UNCHANGED <<startDelay, mdma>>
      <4>1. k1 = k
        BY <1>2, <1>6, <3>2 DEF Settles, Locks, Requested
      <4> QED BY <4>1
    <3>3. CASE pc' = "idle" /\ startDelay'
      <4>1. k1 = 0
        BY <1>2, <3>3 DEF Locks
      <4> QED BY <4>1
    <3> QED BY <1>6, <3>1, <3>2, <3>3 DEF Settles, WriteMdmaen
  <2> QED BY <1>4, <2>1, <2>2
<1>7. CASE CpuCycle
  BY <1>1, <1>7, LocksCpuCycle
<1>8. CASE Transfer
  BY <1>1, <1>8, LocksTransfer
<1>9. CASE Reset /\ stray' = Strayed
  <2>1. d1 = 0 /\ pc' = "idle" /\ mdma' = FALSE /\ initPending' = FALSE /\ transferPending' = FALSE
    BY <1>2, <1>9 DEF Reset, ArbiterReset, SchedulerReset
  <2>2. k1 = 0
    BY <1>2, <2>1 DEF Locks, Requested
  <2>3. DeferredIs(d1) /\ LocksAre(k1)
    BY <1>2 DEF DeferredIs, LocksAre
  <2> QED BY <2>1, <2>2, <2>3, LocksAdd
<1>10. CASE UNCHANGED vars
  <2>1. k1 = k /\ UNCHANGED <<deferred, failed>>
    BY <1>2, <1>10 DEF vars, dmaVars, requests, history, Locks, Requested
  <2> QED BY <1>4, <2>1
<1> QED BY <1>1, <1>5, <1>6, <1>7, <1>8, <1>9, <1>10, StepKinds

\* DMA locks hold a mature NMI edge back for three cycles in a row at most: an HDMA block,
\* the manual DMA it delayed, and a block raised in that DMA's last byte
\* (civ_cpu_sample_interrupts under dma_locks).
THEOREM DeferralInTime ==
  ASSUME NEW S \in Nat, HdmaFits(S), DeferralBound \in Nat, DeferralBound >= 3
  PROVE  Spec => []DeferralBounded
<1> DEFINE Known2 == Known /\ Timely(S)
<1> DEFINE IInv == MdmaWaits(S) /\ LocksBounded
<1>1. Init => IInv
  BY DEF Init, SchedulerInit, ArbiterInit, MdmaWaits, LocksBounded, Locks, Requested
<1>2. Known2 /\ Known2' /\ IInv /\ [Next]_vars => IInv'
  BY MdmaStep, LocksStep
<1>3. Known2 /\ IInv => DeferralBounded
  BY DEF Known, TypeOK, CoreTypeOK, LocksBounded, DeferralBounded
<1> QED
  BY <1>1, <1>2, <1>3, AlwaysTimely, PTL DEF Spec

-----------------------------------------------------------------------------
\* A line's HDMA without its frame's initialisation.  From the position of the
\* initialisation on, in the visible part of a frame, channel 2 is initialised if HDMA is
\* on and was not switched in that part.
PastInit == ~initPending /\ (vcounter > 0 \/ hcounter >= initAt)

\* The very first frame has no initialisation, but HDMA is off in it, and no store can
\* be made before the clock has moved.
ColdStart ==
  initAt = 0 /\ vcounter = 0 /\ hcounter = 0 =>
    ~io.hdma /\ stage = "fetch" /\ (pc = "idle" \/ left > 0)

Warm ==
  ~stray /\ failed = NoFailure =>
    /\ transferPending => vcounter < NmiLine
    /\ io.hdma /\ vcounter < NmiLine /\ PastInit => hdma2.initialized

\* A scanline's HDMA leaves the channel as initialised as it was.
LEMMA OutcomesKeep ==
  ASSUME ArbiterTypeOK, NEW reload \in 0 .. 2, NEW h \in ScanOutcomes(reload)
  PROVE  h.initialized = hdma2.initialized
BY DEF ArbiterTypeOK, ScanOutcomes

\* What the arbiter's steps do to channel 2, and when they fail.
LEMMA ArbiterWarms ==
  ASSUME TypeOK, CpuCycle \/ Transfer
  PROVE  /\ UNCHANGED <<beam, io, stage>>
         /\ transferPending' => transferPending
         /\ failed' \in {failed, "uninitialized"}
         /\ failed' = "uninitialized" /\ failed = NoFailure =>
              transferPending /\ io.hdma /\ ~hdma2.initialized
         /\ io.hdma => \/ hdma2'.initialized
                       \/ hdma2'.initialized = hdma2.initialized /\ initPending' = initPending
<1>1. ArbiterTypeOK
  BY DEF TypeOK, CoreTypeOK
<1>2. \A fin : InitOutcome(fin).initialized
  BY DEF InitOutcome
<1>3. UNCHANGED <<beam, io, stage>>
  BY DEF CpuCycle, Transfer, cpuVars
<1>4. ASSUME NEW s \in Speeds, ProcessCpuCycle(s)
      PROVE  /\ transferPending' => transferPending
             /\ failed' \in {failed, "uninitialized"}
             /\ failed' = "uninitialized" /\ failed = NoFailure =>
                  transferPending /\ io.hdma /\ ~hdma2.initialized
             /\ io.hdma => \/ hdma2'.initialized
                           \/ hdma2'.initialized = hdma2.initialized /\ initPending' = initPending
  <2>1. CASE NothingDue(s) \/ ClearStartDelay(s) \/ StartManualDma(s)
    <3>1. UNCHANGED <<hdma2, transferPending, initPending, failed>>
      BY <2>1 DEF NothingDue, ClearStartDelay, StartManualDma, dmaVars, requests
    <3> QED BY <3>1 DEF NoFailure
  <2>2. CASE RunTransfer(s)
    <3>1. /\ transferPending /\ ~transferPending' /\ initPending' = initPending
          /\ \/ failed' = failed
             \/ failed' = "uninitialized" /\ io.hdma /\ ~hdma2.initialized
          /\ hdma2' = hdma2 \/ \E reload \in 0 .. 2 : hdma2' \in ScanOutcomes(reload)
      BY <2>2 DEF RunTransfer, TransferTurn, Abort
    <3>2. hdma2'.initialized = hdma2.initialized
      BY <1>1, <3>1, OutcomesKeep
    <3> QED BY <3>1, <3>2 DEF NoFailure
  <2>3. CASE RunInit(s)
    BY <1>2, <2>3 DEF RunInit, NoFailure
  <2> QED BY <1>4, <2>1, <2>2, <2>3 DEF ProcessCpuCycle
<1>5. CASE CpuCycle
  BY <1>3, <1>4, <1>5 DEF CpuCycle
<1>6. CASE Transfer
  <2>1. CASE TransferFailed \/ NestedDone \/ TransferDone
    <3>1. UNCHANGED <<hdma2, transferPending, initPending, failed>>
      BY <2>1 DEF TransferFailed, NestedDone, TransferDone, Abort, dmaVars, requests
    <3> QED BY <1>3, <3>1 DEF NoFailure
  <2>2. CASE CheckNestedHdma
    <3>1. /\ transferPending' => transferPending
          /\ \/ failed' = failed
             \/ failed' = "uninitialized" /\ transferPending /\ io.hdma /\ ~hdma2.initialized
          /\ \/ hdma2' = hdma2 /\ (io.hdma => initPending' = initPending)
             \/ initPending' = initPending /\ \E reload \in 0 .. 2 : hdma2' \in ScanOutcomes(reload)
             \/ io.hdma /\ \E fin : hdma2' = InitOutcome(fin)
             \/ ~io.hdma
      BY <2>2 DEF CheckNestedHdma, TransferTurn, InitTurn, Abort, requests
    <3>2. io.hdma => \/ hdma2'.initialized
                     \/ hdma2'.initialized = hdma2.initialized /\ initPending' = initPending
      BY <1>1, <1>2, <3>1, OutcomesKeep
    <3> QED BY <1>3, <3>1, <3>2 DEF NoFailure
  <2> QED BY <1>6, <2>1, <2>2 DEF Transfer
<1> QED BY <1>5, <1>6

\* Where the history variable forgets nothing, it stays false only if HDMAEN and the
\* vertical size were left alone.
LEMMA StrayKept ==
  ASSUME stray' = Strayed, ~stray', <<vcounter', hcounter'>> # <<0, 0>>,
         vcounter' < NmiLine' \/ transferPending'
  PROVE  ~stray /\ (vcounter < NmiLine => io'.hdma = io.hdma) /\ NmiLine' = NmiLine
BY DEF Strayed, NmiLine

\* The first frame stays cold until the clock moves.
LEMMA ColdStep ==
  ASSUME NEW S \in Nat, HdmaFits(S), Known, Known', Timely(S), ColdStart, [Next]_vars
  PROVE  ColdStart'
<1>1. /\ TypeOK /\ TypeOK' /\ Shape /\ Stopped
      /\ HdmaH \in Nat /\ HdmaH > 0 /\ InitH \in Nat \ {0} /\ Unit \in Nat \ {0}
      /\ \A s \in Speeds : s \in Nat \ {0}
  BY Room DEF Known, Timely
<1>2. SUFFICES ASSUME initAt' = 0, vcounter' = 0, hcounter' = 0
               PROVE  ~io'.hdma /\ stage' = "fetch" /\ (pc' = "idle" \/ left' > 0)
  BY DEF ColdStart
<1>3. CASE Tick
  <2>1. hcounter' = NextH /\ vcounter' = NextV /\ initAt' = NextInitAt
    BY <1>3, TickEffect
  <2>2. hcounter \in Nat /\ vcounter \in Nat /\ NextPhase \in Nat
    BY <1>1, BeamType DEF TypeOK, CoreTypeOK, SchedulerTypeOK
  <2>3. LineEnds
    BY <1>2, <2>1, <2>2 DEF NextH
  <2>4. FrameEnds
    BY <1>2, <2>1, <2>2, <2>3 DEF NextV
  <2>5. initAt' > 0
    BY <1>1, <2>1, <2>2, <2>4 DEF NextInitAt
  <2> QED BY <1>2, <2>5
<1>4. ASSUME UNCHANGED beam PROVE ~io.hdma /\ stage = "fetch" /\ (pc = "idle" \/ left > 0)
  BY <1>2, <1>4 DEF beam, ColdStart
<1>5. CASE CpuCycle
  <2>1. PICK s \in Speeds : ProcessCpuCycle(s)
    BY <1>5 DEF CpuCycle
  <2>2. UNCHANGED <<beam, io, stage>>
    BY <1>1, <1>5, ArbiterWarms
  <2>3. hcounter = 0
    BY <1>2, <2>2 DEF beam
  <2>4. ~transferPending /\ ~initPending
    BY <1>1, <2>3 DEF Timely, TransferInTime, InitInTime
  <2>5. CASE NothingDue(s) \/ ClearStartDelay(s)
    <3>1. left' = s
      BY <2>5 DEF NothingDue, ClearStartDelay, StartAccess
    <3> QED BY <1>1, <1>4, <2>2, <3>1
  <2>6. CASE StartManualDma(s)
    <3>1. PICK n \in 1 .. Unit : n = SyncStart
      BY <1>1, BlockLengths
    <3>2. left' = n + Unit
      BY <2>6, <3>1 DEF StartManualDma
    <3> QED BY <1>1, <1>4, <2>2, <3>1, <3>2
  <2> QED BY <2>1, <2>4, <2>5, <2>6 DEF ProcessCpuCycle, RunTransfer, RunInit, TransferTurn, InitTurn
<1>6. CASE Transfer
  <2>1. UNCHANGED beam
    BY <1>1, <1>6, ArbiterWarms
  <2>2. pc # "idle" /\ AdvanceDone
    BY <1>6 DEF Transfer, TransferFailed, CheckNestedHdma, NestedDone, TransferDone
  <2> QED BY <1>4, <2>1, <2>2 DEF AdvanceDone
<1>7. ASSUME Settles, pc = "idle" => stage # "fetch" PROVE FALSE
  <2>1. UNCHANGED beam /\ AdvanceDone
    BY <1>7 DEF Settles
  <2> QED BY <1>4, <1>7, <2>1 DEF AdvanceDone
<1>8. CASE Reset /\ stray' = Strayed
  BY <1>8, ResetIsInit DEF Init, SchedulerInit, ArbiterInit, ResetIo
<1>9. CASE UNCHANGED vars
  BY <1>2, <1>9 DEF vars, beam, cpuVars, ColdStart
<1> QED BY <1>1, <1>3, <1>5, <1>6, <1>7, <1>8, <1>9, StageKinds

\* The channel is warm when a line needs it: the one step that could leave it cold, turning
\* HDMA on past the initialisation of a visible frame, makes the program stray.
LEMMA WarmStep ==
  ASSUME NEW S \in Nat, HdmaFits(S), Known, Known', Timely(S), Timely(S)', ColdStart', Warm,
         [Next]_vars
  PROVE  Warm'
<1>1. /\ TypeOK /\ TypeOK' /\ Shape /\ RefreshInv' /\ Stopped
      /\ HdmaH \in Nat /\ HdmaH > 0 /\ InitH \in Nat \ {0} /\ Unit \in Nat \ {0}
  BY Room DEF Known, Timely
<1>2. CASE UNCHANGED vars
  BY <1>2 DEF vars, beam, requests, dmaVars, history, Warm, PastInit, NmiLine
<1>3. CASE Reset /\ stray' = Strayed
  BY <1>3, ResetIsInit DEF Init, SchedulerInit, ArbiterInit, ResetIo, Warm
<1>4. CASE hcounter' = 0 /\ vcounter' = 0
  <2>1. ~transferPending'
    BY <1>1, <1>4 DEF Timely, TransferInTime
  <2>2. PastInit' => initAt' = 0
    <3>1. initAt' \in Nat
      BY <1>1 DEF TypeOK, CoreTypeOK, SchedulerTypeOK
    <3> QED BY <1>4, <3>1 DEF PastInit
  <2> QED BY <1>4, <2>1, <2>2 DEF Warm, ColdStart
<1>5. ASSUME ~UNCHANGED vars, ~(Reset /\ stray' = Strayed), ~(hcounter' = 0 /\ vcounter' = 0),
             ~stray', failed' = NoFailure, vcounter' < NmiLine' \/ transferPending'
      PROVE  /\ transferPending' => vcounter' < NmiLine'
             /\ io'.hdma /\ vcounter' < NmiLine' /\ PastInit' => hdma2'.initialized
  <2>1. ~stray /\ (vcounter < NmiLine => io'.hdma = io.hdma) /\ NmiLine' = NmiLine
    <3>1. stray' = Strayed
      BY <1>5 DEF Next
    <3> QED BY <1>5, <3>1, StrayKept
  <2>2. CASE Tick
    <3>1. failed = NoFailure /\ UNCHANGED <<io, hdma2>>
      BY <1>1, <2>2, Running, TickEffect
    <3>2. /\ transferPending => vcounter < NmiLine
          /\ io.hdma /\ vcounter < NmiLine /\ PastInit => hdma2.initialized
      BY <2>1, <3>1 DEF Warm
    <3>3. /\ hcounter' = NextH /\ vcounter' = NextV /\ initAt' = NextInitAt
          /\ initPending' = (initPending \/ InitDue)
          /\ transferPending' = (transferPending \/ TransferDue)
      BY <2>2, TickEffect
    <3>4. /\ hcounter \in Nat /\ vcounter \in Nat /\ initAt \in Nat /\ NextPhase \in Nat
          /\ Lines \in Nat \ {0} /\ ShortPeriod \in Nat /\ Period \in Nat /\ Period >= ShortPeriod
          /\ vcounter <= Lines - 1 /\ InitH + Unit <= HdmaH /\ HdmaH < ShortPeriod
          /\ initAt <= InitH + Unit - 1 /\ NmiLine \in Nat
      <4>1. HdmaH < ShortPeriod /\ InitH + Unit <= HdmaH
        BY Room
      <4>2. NmiLine \in Nat
        BY SchedulerAssumption DEF NmiLine
      <4> QED BY <1>1, <4>1, <4>2, BeamType, Room
                DEF TypeOK, CoreTypeOK, SchedulerTypeOK, Timely, LegsBounded
    <3>5. ~FrameEnds
      BY <1>5, <3>3, <3>4 DEF FrameEnds, NextH, NextV
    <3>6. CASE LineEnds
      <4>1. /\ ~transferPending /\ ~initPending /\ ~transferPending' /\ ~initPending'
            /\ vcounter' = vcounter + 1
        BY <1>1, <2>2, <3>3, <3>5, <3>6, LineTurns DEF NextV
      <4>2. PastInit
        <5>1. hcounter >= initAt
          BY <1>1, <3>4, <3>6 DEF LineEnds
        <5> QED BY <4>1, <5>1 DEF PastInit
      <4>3. vcounter' < NmiLine' => vcounter < NmiLine
        BY <2>1, <3>4, <4>1
      <4> QED BY <3>1, <3>2, <4>1, <4>2, <4>3
    <3>7. CASE ~LineEnds
      <4>1. hcounter' = hcounter + 1 /\ vcounter' = vcounter /\ initAt' = initAt
        BY <3>3, <3>5, <3>7 DEF NextH, NextV, NextInitAt
      <4>2. TransferDue => vcounter < NmiLine
        BY <3>3, <4>1 DEF TransferDue
      <4>3. PastInit' => PastInit
        <5>1. InitDue <=> vcounter = 0 /\ hcounter + 1 = initAt
          BY <3>1, <3>3, <4>1 DEF InitDue
        <5>2. PastInit' => ~initPending /\ ~InitDue
          BY <3>3 DEF PastInit
        <5> QED BY <3>4, <4>1, <5>1, <5>2 DEF PastInit
      <4> QED BY <2>1, <3>1, <3>2, <3>3, <4>1, <4>2, <4>3
    <3> QED BY <3>6, <3>7
  <2>3. CASE CpuCycle \/ Transfer
    <3>1. /\ UNCHANGED <<beam, io>>
          /\ transferPending' => transferPending
          /\ failed' \in {failed, "uninitialized"}
          /\ io.hdma => \/ hdma2'.initialized
                        \/ hdma2'.initialized = hdma2.initialized /\ initPending' = initPending
      BY <1>1, <2>3, ArbiterWarms
    <3>2. failed = NoFailure
      BY <1>5, <3>1 DEF NoFailure
    <3>3. UNCHANGED <<hcounter, vcounter, initAt>>
      <4>1. UNCHANGED beam
        BY <3>1
      <4> QED BY <4>1 DEF beam
    <3>4. transferPending => vcounter < NmiLine
      BY <2>1, <3>2 DEF Warm
    <3>5. io.hdma /\ vcounter < NmiLine /\ PastInit => hdma2.initialized
      BY <2>1, <3>2 DEF Warm
    <3>6. ASSUME io.hdma, vcounter < NmiLine, PastInit' PROVE hdma2'.initialized
      <4>1. CASE initPending' = initPending /\ hdma2'.initialized = hdma2.initialized
        BY <3>3, <3>5, <3>6, <4>1 DEF PastInit
      <4> QED BY <3>1, <3>6, <4>1
    <3> QED BY <2>1, <3>1, <3>3, <3>4, <3>6
  <2>4. CASE Settles
    <3>1. /\ UNCHANGED <<hcounter, vcounter, initAt, initPending, transferPending, hdma2>>
          /\ failed = NoFailure
      BY <1>5, <2>4 DEF Settles, beam, NoFailure
    <3>2. transferPending => vcounter < NmiLine
      BY <2>1, <3>1 DEF Warm
    <3> QED BY <2>1, <3>1, <3>2 DEF Warm, PastInit
  <2> QED BY <1>1, <1>5, <2>2, <2>3, <2>4, StepKinds
<1> QED BY <1>2, <1>3, <1>4, <1>5 DEF Warm

\* The DMA code fails closed on a line whose frame was not initialised; only a program that
\* strayed meets that failure (civ_hdma2_scanline).
LEMMA FrontierStep ==
  ASSUME NEW S \in Nat, HdmaFits(S), Known, Known', Timely(S), Warm, NoDmaFrontier, [Next]_vars
  PROVE  NoDmaFrontier'
<1>1. /\ TypeOK /\ TypeOK' /\ RefreshInv' /\ Stopped
      /\ HdmaH \in Nat /\ InitH \in Nat \ {0} /\ Unit \in Nat \ {0} /\ InitH + Unit <= HdmaH
  BY Room DEF Known, Timely
<1>2. CASE UNCHANGED vars
  BY <1>2 DEF vars, history, NoDmaFrontier
<1>3. CASE Reset /\ stray' = Strayed
  BY <1>3 DEF Reset, SchedulerReset, NoDmaFrontier, NoFailure
<1>4. ASSUME ~UNCHANGED vars, ~(Reset /\ stray' = Strayed), failed' = "uninitialized"
      PROVE  stray'
  <2>1. stray' = Strayed
    BY <1>4 DEF Next
  <2>2. SUFFICES stray
    BY <1>4, <2>1 DEF Strayed, NoFailure
  <2>3. CASE failed = "uninitialized"
    BY <2>3 DEF NoDmaFrontier
  <2>4. CASE failed # "uninitialized"
    <3>1. CpuCycle \/ Transfer
      <4>1. CASE Tick
        BY <1>1, <1>4, <2>4, <4>1, TickEffect
      <4>2. CASE Settles
        BY <1>4, <2>4, <4>2 DEF Settles
      <4> QED BY <1>1, <1>4, <4>1, <4>2, StepKinds
    <3>2. failed = NoFailure /\ transferPending /\ io.hdma /\ ~hdma2.initialized
      <4>1. failed = NoFailure
        <5>1. pc \notin {"access", "halted"}
          BY <3>1 DEF CpuCycle, ProcessCpuCycle, Transfer, TransferFailed, CheckNestedHdma,
                      NestedDone, TransferDone
        <5> QED BY <1>1, <5>1 DEF Stopped
      <4> QED BY <1>1, <1>4, <3>1, <4>1, ArbiterWarms
    <3>3. ~initPending /\ HdmaH <= hcounter
      BY <3>2, OneRequest DEF Timely, TransferInTime
    <3>4. PastInit
      <4>1. hcounter \in Nat /\ initAt \in Nat /\ initAt <= InitH + Unit - 1
        BY <1>1 DEF TypeOK, CoreTypeOK, SchedulerTypeOK, Timely, LegsBounded
      <4>2. hcounter >= initAt
        BY <1>1, <3>3, <4>1
      <4> QED BY <3>3, <4>2 DEF PastInit
    <3> QED BY <3>2, <3>4 DEF Warm
  <2> QED BY <2>3, <2>4
<1> QED BY <1>2, <1>3, <1>4 DEF NoDmaFrontier

\* No program that leaves HDMAEN alone in the visible part of a frame, and the vertical
\* size throughout it, makes the DMA code fail closed on an uninitialised channel.
THEOREM FrontierNeverMet ==
  ASSUME NEW S \in Nat, HdmaFits(S)
  PROVE  Spec => []NoDmaFrontier
<1> DEFINE Known2 == Known /\ Timely(S)
<1> DEFINE IInv == ColdStart /\ Warm /\ NoDmaFrontier
<1>1. Init => IInv
  BY DEF Init, SchedulerInit, ArbiterInit, ResetIo, ColdStart, Warm, NoDmaFrontier, NoFailure
<1>2. Known2 /\ Known2' /\ IInv /\ [Next]_vars => IInv'
  BY ColdStep, WarmStep, FrontierStep
<1>3. IInv => NoDmaFrontier
  OBVIOUS
<1> QED
  BY <1>1, <1>2, <1>3, AlwaysTimely, PTL DEF Spec

=============================================================================

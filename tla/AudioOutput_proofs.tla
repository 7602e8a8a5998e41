------------------------- MODULE AudioOutput_proofs -------------------------
(***************************************************************************)
(* What the operations of the sound output return and preserve, for every  *)
(* buffer, latency and averaging: lemmas for the proofs about the Windows  *)
(* session that uses them.                                                 *)
(***************************************************************************)
EXTENDS AudioOutput, TLAPS

\* What every operation preserves of a buffer.  The last three parts need a driver that
\* does as it is told: a paused buffer does not play, one that is neither paused nor
\* closed plays or is primed, and nothing of a former machine is left in it.
Good(d) ==
  /\ d \in Devices
  /\ ~d.open => ~d.playing /\ d.sound = "silence"
  /\ ~driverFails => /\ d.paused => ~d.playing
                     /\ d.open /\ ~d.paused => (d.playing <=> ~d.priming)
                     /\ d.sound # "former"

\* It is open, and paused, as the other is.
Alike(d, e) == d.open = e.open /\ d.paused = e.paused

-----------------------------------------------------------------------------
\* A call has the outcome that was wanted, or one of a failure.
LEMMA CallOutcomes ==
  ASSUME NEW wanted, NEW failures, NEW x \in Calls(wanted, failures)
  PROVE  x = wanted \/ (driverFails /\ x \in failures)
BY DEF Calls

\* The samples of a raised position wrap around within the buffer.
LEMMA Wrapped ==
  ASSUME NEW n \in Nat
  PROVE  n % DevCap \in 0 .. DevCap - 1
BY AudioAssumption

\* Zero is a position of the buffer, zero and the averaging are counts of a history.
LEMMA Bounds == 0 \in 0 .. DevCap - 1 /\ 0 \in 0 .. Averaging /\ Averaging \in 0 .. Averaging
BY AudioAssumption

\* A ring takes a frame's sound within its capacity, and none of a former machine.
LEMMA SunkType ==
  ASSUME NEW r \in Rings
  PROVE  /\ Sunk(r) \in Rings
         /\ r.sound # "former" => Sunk(r).sound # "former"
BY AudioAssumption DEF Sunk, Rings, Sounds

\* An empty ring is one.
LEMMA EmptyType == EmptyRing \in Rings
BY AudioAssumption DEF EmptyRing, Rings, Sounds

\* An output that is not open.
LEMMA ClosedGood == Good(Closed)
BY Bounds DEF Good, Closed, Devices, Sounds

\* A fresh output is paused, if it could be opened.
LEMMA OpenedGood ==
  ASSUME NEW x \in Opened
  PROVE  Good(x) /\ (x.open => x.paused)
<1>1. CASE x = Closed
  BY <1>1, ClosedGood DEF Closed
<1>2. CASE x = [Closed EXCEPT !.open = TRUE, !.paused = TRUE, !.priming = TRUE]
  BY <1>2, Bounds DEF Good, Closed, Devices, Sounds
<1> QED
  <2>1. x = [Closed EXCEPT !.open = TRUE, !.paused = TRUE, !.priming = TRUE] \/ x = Closed
    BY CallOutcomes DEF Opened
  <2> QED BY <2>1, <1>1, <1>2

\* A pause keeps a buffer open, and pauses it unless the driver refuses.
LEMMA PausedGood ==
  ASSUME NEW d, Good(d), NEW x \in Paused(d)
  PROVE  /\ Good(x)
         /\ x.open = d.open
         /\ ~driverFails /\ x.open => x.paused
         /\ d.paused => x.paused
<1>1. CASE x = d /\ (~d.open \/ d.paused \/ driverFails)
  BY <1>1
<1>2. CASE x = [d EXCEPT !.playing = FALSE, !.paused = TRUE] /\ d.open
  BY <1>2 DEF Good, Devices
<1> QED
  <2>1. CASE ~d.open \/ d.paused
    BY <1>1, <2>1 DEF Paused
  <2>2. CASE ~(~d.open \/ d.paused)
    <3>1. x \in Calls([d EXCEPT !.playing = FALSE, !.paused = TRUE], {d})
      BY <2>2 DEF Paused
    <3>2. \/ x = [d EXCEPT !.playing = FALSE, !.paused = TRUE]
          \/ driverFails /\ x \in {d}
      BY <3>1, CallOutcomes
    <3> QED BY <3>2, <1>1, <1>2, <2>2
  <2> QED BY <2>1, <2>2

\* Playback starts, or the driver refuses.
LEMMA StartedOutcomes ==
  ASSUME NEW d, NEW x \in Started(d)
  PROVE  x = [d EXCEPT !.playing = TRUE] \/ (driverFails /\ x = d)
<1>1. x \in Calls([d EXCEPT !.playing = TRUE], {d})
  BY DEF Started
<1>2. x = [d EXCEPT !.playing = TRUE] \/ (driverFails /\ x \in {d})
  BY <1>1, CallOutcomes
<1> QED BY <1>2

\* An open output is not paused after a resume, whatever the driver does.
LEMMA ResumedGood ==
  ASSUME NEW d, Good(d), NEW x \in Resumed(d)
  PROVE  Good(x) /\ x.open = d.open /\ ~(x.open /\ x.paused)
<1>1. CASE ~d.open \/ ~d.paused
  BY <1>1 DEF Resumed
<1>2. CASE d.open /\ d.paused
  <2> DEFINE R(q) == [d EXCEPT !.paused = FALSE, !.priming = (q < Target \div 2)]
  <2>1. PICK q \in Calls(d.lead, {0}) : x \in (IF R(q).priming THEN {R(q)} ELSE Started(R(q)))
    BY <1>2 DEF Resumed
  <2>2. /\ d \in Devices
        /\ ~driverFails => ~d.playing /\ d.sound # "former"
    BY <1>2 DEF Good
  <2>3. (q < Target \div 2) \in BOOLEAN
    OBVIOUS
  <2> DEFINE p == (q < Target \div 2)
  <2>4. p \in BOOLEAN /\ R(q) = [d EXCEPT !.paused = FALSE, !.priming = p]
    BY <2>3
  <2> HIDE DEF p
  <2>5. /\ R(q) \in Devices /\ R(q).open /\ ~R(q).paused /\ R(q).priming = p
        /\ R(q).playing = d.playing /\ R(q).sound = d.sound
    BY <1>2, <2>2, <2>4 DEF Devices
  <2> HIDE DEF R
  <2>6. CASE R(q).priming
    BY <2>1, <2>2, <2>5, <2>6, <1>2 DEF Good
  <2>7. CASE ~R(q).priming
    <3>1. x \in Started(R(q))
      BY <2>1, <2>7
    <3>2. x = [R(q) EXCEPT !.playing = TRUE] \/ (driverFails /\ x = R(q))
      BY <3>1, StartedOutcomes
    <3>3. CASE x = [R(q) EXCEPT !.playing = TRUE]
      BY <1>2, <2>2, <2>5, <2>7, <3>3 DEF Good, Devices
    <3>4. CASE driverFails /\ x = R(q)
      BY <1>2, <2>2, <2>5, <2>7, <3>4 DEF Good
    <3> QED BY <3>2, <3>3, <3>4
  <2> QED BY <2>6, <2>7
<1> QED BY <1>1, <1>2

\* A cleared buffer holds silence.
LEMMA ClearedType ==
  ASSUME NEW d \in Devices
  PROVE  /\ Cleared(d) \in Devices /\ Alike(Cleared(d), d)
         /\ Cleared(d).sound = "silence"
BY Bounds DEF Cleared, Devices, Sounds, Alike

\* A flush stops and primes; what a driver that does as told cleared is silent.
LEMMA FlushedGood ==
  ASSUME NEW d, Good(d), NEW x \in Flushed(d)
  PROVE  /\ Good(x) /\ Alike(x, d)
         /\ ~driverFails => x.sound = "silence"
<1>1. CASE ~d.open
  BY <1>1 DEF Flushed, Good, Alike
<1>2. CASE d.open
  <2>1. PICK c \in Calls(Cleared(d), {d}) :
          x = [c EXCEPT !.playing = FALSE, !.priming = TRUE, !.depth = 0, !.history = 0]
    BY <1>2 DEF Flushed
  <2>2. c = Cleared(d) \/ (driverFails /\ c \in {d})
    BY <2>1, CallOutcomes
  <2>3. c \in Devices /\ Alike(c, d) /\ (~driverFails => c.sound = "silence")
    BY <2>2, ClearedType DEF Good, Alike
  <2> QED
    BY <1>2, <2>1, <2>3, Bounds DEF Good, Devices, Alike
<1> QED BY <1>1, <1>2

\* A silent buffer stays one when its machine is replaced.
LEMMA OutlivedGood ==
  ASSUME NEW d, Good(d), ~driverFails => d.sound = "silence"
  PROVE  /\ Good(Outlived(d)) /\ Alike(Outlived(d), d)
         /\ ~driverFails => Outlived(d).sound = "silence"
BY DEF Good, Outlived, Devices, Sounds, Alike

\* An empty ring has no sound that could outlive its machine.
LEMMA OutlivedEmpty == Outlived(EmptyRing) = EmptyRing
BY DEF Outlived, EmptyRing

-----------------------------------------------------------------------------
\* The steps of a pump, on an open output: each keeps the buffer sound.
LEMMA ValidatedGood ==
  ASSUME NEW d, Good(d), NEW x \in Validated(d)
  PROVE  Good(x) /\ Alike(x, d)
<1>1. x = d \/ x = [d EXCEPT !.lead = Guard]
  BY DEF Validated
<1>2. Guard \in 0 .. DevCap - 1
  BY AudioAssumption
<1> QED BY <1>1, <1>2 DEF Good, Devices, Alike

LEMMA WrittenGood ==
  ASSUME NEW d, Good(d), d.open, NEW r \in Rings, r.sound # "former",
         NEW x \in Written(d, r)
  PROVE  Good(x) /\ Alike(x, d)
<1>1. PICK v \in Validated(d) :
        x \in {Put(v, r, k) : k \in IF driverFails THEN 0 .. r.count ELSE {r.count}}
  BY DEF Written
<1> PICK n \in (IF driverFails THEN 0 .. r.count ELSE {r.count}) : x = Put(v, r, n)
  BY <1>1
<1>2. Good(v) /\ Alike(v, d) /\ v \in Devices /\ v.open
  BY ValidatedGood DEF Good, Alike
<1>3. r.count \in Nat /\ n \in Nat
  BY DEF Rings
<1>4. v.lead + n \in Nat
  BY <1>2, <1>3, AudioAssumption DEF Devices
<1> DEFINE l == (v.lead + n) % DevCap
           s == IF n = 0 \/ r.sound = "silence" \/ v.sound = "former" THEN v.sound ELSE r.sound
<1>5. l \in 0 .. DevCap - 1
  BY <1>4, Wrapped
<1>6. s \in Sounds /\ (v.sound # "former" => s # "former")
  BY <1>2 DEF Devices, Rings
<1>7. x = [v EXCEPT !.lead = l, !.sound = s]
  BY DEF Put
<1> HIDE DEF l, s
<1> QED BY <1>2, <1>5, <1>6, <1>7 DEF Good, Devices, Alike

LEMMA MeasuredGood ==
  ASSUME NEW d, Good(d), NEW x \in Measured(d)
  PROVE  Good(x) /\ Alike(x, d)
<1>1. PICK q \in Calls(d.lead, {0}) : x = [d EXCEPT !.depth = q]
  BY DEF Measured
<1>2. q = d.lead \/ q = 0
  BY <1>1, CallOutcomes
<1>3. q \in 0 .. DevCap - 1
  BY <1>2, AudioAssumption DEF Good, Devices
<1> QED BY <1>1, <1>3 DEF Good, Devices, Alike

LEMMA BegunGood ==
  ASSUME NEW d, Good(d), d.open, NEW x \in Begun(d)
  PROVE  Good(x) /\ Alike(x, d)
<1>1. CASE x = d
  BY <1>1 DEF Alike
<1>2. CASE d.priming /\ ~d.paused /\ x # d
  <2>1. PICK s \in Started(d) : x = IF s.playing THEN [s EXCEPT !.priming = FALSE] ELSE s
    BY <1>2 DEF Begun
  <2>2. s = [d EXCEPT !.playing = TRUE] \/ (driverFails /\ s = d)
    BY StartedOutcomes
  <2> QED BY <1>2, <2>1, <2>2 DEF Good, Devices, Alike
<1> QED BY <1>1, <1>2 DEF Begun

LEMMA EndedGood ==
  ASSUME NEW d, Good(d), d.open, NEW x \in Ended(d)
  PROVE  Good(x) /\ Alike(x, d)
<1>1. CASE x = d
  BY <1>1 DEF Alike
<1>2. CASE x = [d EXCEPT !.history = @ + 1] /\ d.history + 1 < Averaging
  <2>1. d.history + 1 \in 0 .. Averaging
    BY <1>2, AudioAssumption DEF Good, Devices
  <2> QED BY <1>2, <2>1 DEF Good, Devices, Alike
<1> DEFINE full == [d EXCEPT !.history = Averaging]
<1>3. /\ full \in Devices /\ Alike(full, d) /\ full.sound = d.sound
      /\ full.playing = d.playing /\ full.priming = d.priming /\ Good(full)
  BY Bounds DEF Good, Devices, Alike
<1>4. CASE x \in Recovered(full)
  <2>1. /\ Cleared(full) \in Devices /\ Alike(Cleared(full), d)
        /\ Cleared(full).sound = "silence"
    BY <1>3, ClearedType DEF Alike
  <2> DEFINE stopped == [Cleared(full) EXCEPT !.playing = FALSE, !.priming = TRUE, !.depth = 0,
                                              !.history = 0]
             kept    == [full EXCEPT !.playing = FALSE]
  <2>2. x \in Calls(stopped, {kept})
    BY <1>4 DEF Recovered
  <2>3. x = stopped \/ (driverFails /\ x \in {kept})
    BY <2>2, CallOutcomes
  <2> HIDE DEF full
  <2>4. CASE x = stopped
    BY <2>1, <2>4, Bounds DEF Good, Devices, Alike
  <2>5. CASE driverFails /\ x = kept
    BY <1>3, <2>5 DEF Good, Devices, Alike
  <2> QED BY <2>3, <2>4, <2>5
<1>5. \/ x = d
      \/ x = [d EXCEPT !.history = @ + 1] /\ d.history + 1 < Averaging
      \/ x = full \/ x \in Recovered(full)
  BY DEF Ended
<1> QED BY <1>1, <1>2, <1>3, <1>4, <1>5

\* One frame's pumps leave a sound buffer, open and paused as it was.
LEMMA PumpedGood ==
  ASSUME NEW d, Good(d), NEW r \in Rings, r.sound # "former", NEW x \in Pumped(d, r)
  PROVE  Good(x) /\ Alike(x, d)
<1>1. CASE ~d.open
  <2>1. PumpedDuring(d, r) = {d} /\ PumpedAtEnd(d) = {d}
    BY <1>1 DEF PumpedDuring, PumpedAtEnd
  <2> QED BY <2>1 DEF Pumped, Alike
<1>2. CASE d.open
  <2>1. PICK p \in PumpedDuring(d, r) : x \in PumpedAtEnd(p)
    BY DEF Pumped
  <2>2. PICK m \in UNION {Measured(w) : w \in Written(d, r)} : p \in Begun(m)
    BY <1>2, <2>1 DEF PumpedDuring
  <2>3. PICK w \in Written(d, r) : m \in Measured(w)
    BY <2>2
  <2>4. Good(w) /\ Alike(w, d)
    BY <1>2, <2>3, WrittenGood
  <2>5. Good(m) /\ Alike(m, d) /\ m.open
    BY <1>2, <2>3, <2>4, MeasuredGood DEF Alike
  <2>6. Good(p) /\ Alike(p, d) /\ p.open
    BY <1>2, <2>2, <2>5, BegunGood DEF Alike
  <2>7. PICK b \in UNION {Begun(n) : n \in UNION {Measured(v) : v \in Validated(p)}} :
          x \in Ended(b)
    BY <2>1, <2>6 DEF PumpedAtEnd
  <2>8. PICK n \in UNION {Measured(v) : v \in Validated(p)} : b \in Begun(n)
    BY <2>7
  <2>9. PICK v \in Validated(p) : n \in Measured(v)
    BY <2>8
  <2>10. Good(v) /\ Alike(v, p)
    BY <2>6, <2>9, ValidatedGood
  <2>11. Good(n) /\ Alike(n, p) /\ n.open
    BY <2>6, <2>9, <2>10, MeasuredGood DEF Alike
  <2>12. Good(b) /\ Alike(b, p) /\ b.open
    BY <2>6, <2>8, <2>11, BegunGood DEF Alike
  <2>13. Good(x) /\ Alike(x, b)
    BY <2>7, <2>12, EndedGood
  <2> QED BY <2>6, <2>12, <2>13 DEF Alike
<1> QED BY <1>1, <1>2

\* The hardware moves the play cursor and nothing else.
LEMMA PlaysGood ==
  ASSUME Good(device), driverFails' = driverFails, DevicePlays
  PROVE  Good(device)' /\ Alike(device', device)
<1>1. device' = [device EXCEPT !.lead = IF @ = 0 THEN DevCap - 1 ELSE @ - 1]
  BY DEF DevicePlays
<1>2. device.lead \in 0 .. DevCap - 1 /\ DevCap \in Nat \ {0}
  BY AudioAssumption DEF Good, Devices
<1>3. (IF device.lead = 0 THEN DevCap - 1 ELSE device.lead - 1) \in 0 .. DevCap - 1
  BY <1>2
<1> QED BY <1>1, <1>3 DEF Good, Devices, Alike
=============================================================================

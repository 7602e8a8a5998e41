------------------------- MODULE AudioLease_proofs --------------------------
(***************************************************************************)
(* The lease, the PCM accounting and the clock relation of AudioLease, for *)
(* any number of cores, any clock ratio and any FIFO.                      *)
(***************************************************************************)
EXTENDS AudioLease, TLAPS

\* The accumulated cycles are those of the closed form, and a frame was made for
\* each of them as long as the FIFO never overflowed.
SoundLaw(s) ==
  /\ s.cycles = ClosedForm(s.master) /\ s.remainder = ClosedRemainder(s.master)
  /\ ~s.stopped => s.produced = s.cycles

\* What a core that has acquired the sound s knows about it.
CoreLaw(k, s) ==
  /\ k.frames + s.ring = s.produced
  /\ ~RunsEvicted => s.master <= k.clock

\* A core that ran or has audio took the lease, and fails for no fault of the lease.
KeptCore(k) ==
  /\ k.ran \/ k.acquired => k.enabled
  /\ ~RunsEvicted => k.failed \in {"no", "frontier", "overflow"}

FileLaw ==
  file # NoFile =>
    /\ KeptCore(file.core)
    /\ file.audio = NoAudio <=> ~file.core.acquired
    /\ file.core.acquired => SoundLaw(file.audio) /\ CoreLaw(file.core, file.audio)

ActiveLaw ==
  active # NoCore =>
    core[active].enabled /\ (~RunsEvicted => core[active].acquired)

\* Everything about the cores and the singleton; the rest is about a run under way
\* and the snapshot file.
CoreTypes ==
  /\ core \in [Cores -> CoreStates] /\ owner \in Cores \cup {NoCore}
  /\ apu \in [on : BOOLEAN, sink : Cores \cup {NoCore}, sound : Sounds]

CoreInv ==
  /\ CoreTypes
  /\ LeaseConsistent
  /\ SoundLaw(apu.sound)
  /\ \A c \in Cores : KeptCore(core[c])
  /\ \A c \in Cores : core[c].acquired => CoreLaw(core[c], apu.sound)

IInv ==
  /\ CoreInv
  /\ active \in Cores \cup {NoCore} /\ ActiveLaw
  /\ file \in Files \cup {NoFile} /\ FileLaw

-----------------------------------------------------------------------------
\* Division of a multiple of the divisor plus a rest (integer arithmetic).
LEMMA DivisionOfSum ==
  ASSUME NEW d \in Nat \ {0}, NEW a \in Int, NEW b \in Int
  PROVE  (a * d + b) \div d = a + b \div d /\ (a * d + b) % d = b % d
<1> DEFINE q == b \div d  r == b % d  k == (a * d + b) \div d  s == (a * d + b) % d
<1>1. q \in Int /\ r \in 0 .. d - 1 /\ b = d * q + r
  BY Z3
<1>2. a * d + b \in Int
  OBVIOUS
<1>3. k \in Int /\ s \in 0 .. d - 1 /\ a * d + b = d * k + s
  BY <1>2, Z3
<1> HIDE DEF q, r, k, s
<1>4. d * (k - a - q) = r - s
  BY <1>1, <1>3
<1>5. k - a - q = 0
  <2> DEFINE z == k - a - q
  <2>1. z \in Int /\ d * z < d /\ d * z > -d
    BY <1>1, <1>3, <1>4
  <2> HIDE DEF z
  <2>2. CASE z >= 1
    <3>1. d * z >= d
      BY <2>1, <2>2
    <3> QED BY <3>1, <2>1
  <2>3. CASE z <= -1
    <3>1. d * z <= -d
      BY <2>1, <2>3
    <3> QED BY <3>1, <2>1
  <2>4. z = 0
    BY <2>1, <2>2, <2>3
  <2> QED BY <2>4 DEF z
<1>6. r = s
  BY <1>1, <1>3, <1>4, <1>5
<1> QED BY <1>1, <1>3, <1>5, <1>6 DEF q, r, k, s

\* The closed form is the floor of the ratio, its remainder the rest.
LEMMA ClosedFormIsFloor ==
  ASSUME NEW t \in Nat
  PROVE  /\ ClosedForm(t) = (t * Num) \div Den
         /\ ClosedRemainder(t) = (t * Num) % Den
<1> DEFINE q == t \div Den  r == t % Den
<1>1. q \in Int /\ r \in Int /\ t = Den * q + r
  BY AudioAssumption, Z3
<1> HIDE DEF q, r
<1>2. q * Num \in Int /\ r * Num \in Int /\ t * Num = (q * Num) * Den + r * Num
  BY <1>1, AudioAssumption
<1>3. /\ ((q * Num) * Den + r * Num) \div Den = q * Num + (r * Num) \div Den
      /\ ((q * Num) * Den + r * Num) % Den = (r * Num) % Den
  <2> DEFINE qn == q * Num  rn == r * Num
  <2>1. qn \in Int /\ rn \in Int
    BY <1>2
  <2> HIDE DEF qn, rn
  <2>2. (qn * Den + rn) \div Den = qn + rn \div Den /\ (qn * Den + rn) % Den = rn % Den
    BY <2>1, DivisionOfSum, AudioAssumption
  <2> QED BY <2>2 DEF qn, rn
<1> QED BY <1>2, <1>3 DEF ClosedForm, ClosedRemainder, q, r

\* Advancing by a delta from the closed form of a clock is the closed form of the
\* later clock, however the deltas are cut (sc_audio_clock_advance).
LEMMA AdvanceIsClosedForm ==
  ASSUME NEW t \in Nat, NEW delta \in Nat
  PROVE  /\ ClosedForm(t) + AdvanceCycles(delta, ClosedRemainder(t)) = ClosedForm(t + delta)
         /\ AdvanceRemainder(delta, ClosedRemainder(t)) = ClosedRemainder(t + delta)
<1> DEFINE x == t * Num  y == delta * Num  cf == x \div Den  cr == x % Den
           q == delta \div Den  r == delta % Den
<1>1. x \in Int /\ y \in Int /\ (t + delta) * Num = x + y
  BY AudioAssumption
<1>2. /\ ClosedForm(t) = cf /\ ClosedRemainder(t) = cr
      /\ ClosedForm(t + delta) = (x + y) \div Den
      /\ ClosedRemainder(t + delta) = (x + y) % Den
  <2>1. ClosedForm(t) = cf /\ ClosedRemainder(t) = cr
    BY ClosedFormIsFloor
  <2>2. t + delta \in Nat
    OBVIOUS
  <2>3. /\ ClosedForm(t + delta) = ((t + delta) * Num) \div Den
        /\ ClosedRemainder(t + delta) = ((t + delta) * Num) % Den
    BY <2>2, ClosedFormIsFloor
  <2> QED BY <1>1, <2>1, <2>3
<1> HIDE DEF x
<1>3. cf \in Int /\ cr \in Int /\ x = Den * cf + cr
  BY <1>1, AudioAssumption, Z3
<1>4. q \in Int /\ r \in Int /\ delta = Den * q + r
  BY AudioAssumption, Z3
<1> HIDE DEF cf, cr, q, r
<1>5. q * Num \in Int /\ r * Num \in Int /\ y = (q * Num) * Den + r * Num
  BY <1>4, AudioAssumption
<1> DEFINE a == cf + q * Num  b == r * Num + cr
<1>6. a \in Int /\ b \in Int /\ x + y = a * Den + b
  BY <1>3, <1>5, AudioAssumption
<1> HIDE DEF a, b
<1>7. (a * Den + b) \div Den = a + b \div Den /\ (a * Den + b) % Den = b % Den
  BY <1>6, DivisionOfSum, AudioAssumption
<1>8. AdvanceCycles(delta, cr) = q * Num + b \div Den /\ AdvanceRemainder(delta, cr) = b % Den
  BY DEF AdvanceCycles, AdvanceRemainder, Numerator, q, r, b
<1>9. b \div Den \in Int
  BY <1>6, AudioAssumption, Z3
<1>10. cf + (q * Num + b \div Den) = a + b \div Den
  BY <1>3, <1>5, <1>9 DEF a
<1> QED BY <1>2, <1>6, <1>7, <1>8, <1>10

\* Advancing yields cycles and a proper remainder.
LEMMA AdvanceTypes ==
  ASSUME NEW delta \in Nat, NEW remainder \in 0 .. Den - 1
  PROVE  AdvanceCycles(delta, remainder) \in Nat /\ AdvanceRemainder(delta, remainder) \in 0 .. Den - 1
<1> DEFINE q == delta \div Den  r == delta % Den  n == r * Num + remainder
<1>1. q \in Nat /\ r \in Nat
  BY AudioAssumption, Z3
<1> HIDE DEF q, r
<1>2. q * Num \in Nat /\ r * Num \in Nat /\ n \in Nat
  BY <1>1, AudioAssumption
<1> HIDE DEF n
<1>3. n \div Den \in Nat /\ n % Den \in 0 .. Den - 1
  BY <1>2, AudioAssumption, Z3
<1>4. AdvanceCycles(delta, remainder) = q * Num + n \div Den /\ AdvanceRemainder(delta, remainder) = n % Den
  BY DEF AdvanceCycles, AdvanceRemainder, Numerator, q, r, n
<1> QED BY <1>2, <1>3, <1>4

\* A powered-on singleton obeys the laws of its clock.
LEMMA PowerOnLaw == PowerOn \in Sounds /\ SoundLaw(PowerOn)
<1>1. 0 \div Den = 0 /\ 0 % Den = 0
  BY AudioAssumption, Z3
<1>2. ClosedForm(0) = 0 /\ ClosedRemainder(0) = 0
  BY <1>1, AudioAssumption DEF ClosedForm, ClosedRemainder
<1> QED BY <1>2, AudioAssumption DEF PowerOn, Sounds, SoundLaw

\* A core that has read nothing agrees with it.
LEMMA PowerOnCore ==
  ASSUME NEW k, k.frames = 0, k.clock \in 0 .. MaxClock
  PROVE  CoreLaw(k, PowerOn)
<1>1. PowerOn.ring = 0 /\ PowerOn.produced = 0 /\ PowerOn.master = 0
  BY DEF PowerOn
<1>2. 0 <= k.clock
  BY AudioAssumption
<1> QED BY <1>1, <1>2 DEF CoreLaw

\* No sound is the absence of one, no snapshot the absence of a file.
LEMMA Distinct == (\A s \in Sounds : s # NoAudio) /\ (\A f \in Files : f # NoFile)
  BY DEF Sounds, NoAudio, Files, NoFile

\* Bringing the singleton to a clock it does not refuse (sync_impl).
LEMMA SyncedLaw ==
  ASSUME CoreTypes, SoundLaw(apu.sound), NEW clock \in 0 .. MaxClock,
         Refusal(clock) = "no"
  PROVE  LET s == apu.sound  t == SyncedSound(clock)
         IN  /\ t \in Sounds /\ SoundLaw(t) /\ t.master = clock
             /\ t.ring - s.ring = t.produced - s.produced
<1> DEFINE s == apu.sound  delta == clock - s.master
           wanted == AdvanceCycles(delta, s.remainder)
           rest == AdvanceRemainder(delta, s.remainder)
           made == FramesThatFit(wanted)
<1>1. s \in Sounds /\ SoundLaw(s)
  BY DEF CoreTypes
<1>2. delta \in Nat /\ s.master + delta = clock /\ ~s.stopped
  BY <1>1, AudioAssumption DEF Refusal, Sounds
<1>3. wanted \in Nat /\ rest \in 0 .. Den - 1
  BY <1>1, <1>2, AdvanceTypes DEF Sounds
<1>4. s.cycles + wanted = ClosedForm(clock) /\ rest = ClosedRemainder(clock)
  <2>1. s.master \in Nat /\ s.cycles = ClosedForm(s.master) /\ s.remainder = ClosedRemainder(s.master)
    BY <1>1, AudioAssumption DEF Sounds, SoundLaw
  <2>2. /\ ClosedForm(s.master) + AdvanceCycles(delta, ClosedRemainder(s.master))
             = ClosedForm(s.master + delta)
        /\ AdvanceRemainder(delta, ClosedRemainder(s.master)) = ClosedRemainder(s.master + delta)
    BY <1>2, <2>1, AdvanceIsClosedForm
  <2> QED BY <1>2, <2>1, <2>2
<1>5. made \in 0 .. wanted /\ s.ring + made \in 0 .. Fifo
  BY <1>1, <1>3, AudioAssumption DEF FramesThatFit, Sounds
<1> DEFINE full == made < wanted
<1>6. full \in BOOLEAN /\ (~full => made = wanted)
  BY <1>3, <1>5
<1>7. SyncedSound(clock) = [s EXCEPT !.master = clock, !.cycles = @ + wanted,
        !.remainder = rest, !.ring = @ + made, !.produced = @ + made,
        !.stopped = full]
  BY Zenon DEF SyncedSound
<1> DEFINE t == SyncedSound(clock)
<1> HIDE DEF wanted, rest, made, full
<1>8. /\ s.cycles \in Nat /\ s.ring \in 0 .. Fifo /\ s.produced \in Nat
      /\ ~full => s.produced = s.cycles
  BY <1>1, <1>2 DEF Sounds, SoundLaw
<1>9. /\ t.master = clock /\ t.cycles = s.cycles + wanted /\ t.remainder = rest
      /\ t.ring = s.ring + made /\ t.produced = s.produced + made /\ t.stopped = full
  BY <1>1, <1>7, Zenon DEF Sounds
<1>10. t \in Sounds
  <2>1. s.cycles + wanted \in Nat /\ s.produced + made \in Nat
    BY <1>3, <1>5, <1>8
  <2> QED BY <1>1, <1>3, <1>5, <1>6, <1>7, <2>1 DEF Sounds
<1>11. SoundLaw(t)
  <2>1. ~full => s.produced + made = s.cycles + wanted
    BY <1>6, <1>8
  <2> QED BY <1>4, <1>9, <2>1 DEF SoundLaw
<1>12. t.ring - s.ring = t.produced - s.produced
  BY <1>3, <1>5, <1>8, <1>9, AudioAssumption
<1> QED BY <1>9, <1>10, <1>11, <1>12

\* A core in step with the singleton is refused only after an overflow.
LEMMA RefusedLaw ==
  ASSUME CoreTypes, SoundLaw(apu.sound), apu.on, NEW clock \in 0 .. MaxClock,
         apu.sound.master <= clock
  PROVE  Refusal(clock) \in {"no", "overflow"}
<1> DEFINE s == apu.sound  delta == clock - s.master
<1>1. delta \in Nat /\ s.master \in Nat /\ s.master + delta = clock /\ ~(clock < s.master)
  BY AudioAssumption DEF CoreTypes, Sounds
<1>2. s.cycles = ClosedForm(s.master) /\ s.remainder = ClosedRemainder(s.master)
  BY DEF SoundLaw
<1>3. /\ s.cycles + AdvanceCycles(delta, s.remainder) = ClosedForm(clock)
      /\ AdvanceRemainder(delta, s.remainder) = ClosedRemainder(clock)
  <2>1. /\ ClosedForm(s.master) + AdvanceCycles(delta, ClosedRemainder(s.master))
             = ClosedForm(s.master + delta)
        /\ AdvanceRemainder(delta, ClosedRemainder(s.master)) = ClosedRemainder(s.master + delta)
    BY <1>1, AdvanceIsClosedForm
  <2> QED BY <1>1, <1>2, <2>1
<1> QED BY <1>1, <1>3 DEF Refusal

-----------------------------------------------------------------------------
\* Synchronising a core that may synchronise keeps everything about the cores, and
\* moves no lease (civ_v20_audio_sync_internal).
LEMMA SyncStep ==
  ASSUME CoreInv, NEW c \in Cores, ~RunsEvicted => core[c].acquired,
         Synchronize(c), owner' = owner
  PROVE  /\ CoreInv'
         /\ \A d \in Cores : core'[d].enabled = core[d].enabled /\ core'[d].acquired = core[d].acquired
<1> DEFINE clock == core[c].clock
<1>1. core[c] \in CoreStates /\ clock \in 0 .. MaxClock /\ apu.sound \in Sounds
  BY DEF CoreInv, CoreTypes, CoreStates
<1>2. CASE Refusal(clock) = "no"
  <2> DEFINE t == SyncedSound(clock)
  <2>1. core' = core /\ apu' = [apu EXCEPT !.sound = t]
    BY <1>2 DEF Synchronize
  <2>2. t \in Sounds /\ SoundLaw(t) /\ t.master = clock
        /\ t.ring - apu.sound.ring = t.produced - apu.sound.produced
    BY <1>1, <1>2, SyncedLaw DEF CoreInv
  <2> HIDE DEF t
  <2>3. apu'.sound = t /\ apu'.on = apu.on /\ apu'.sink = apu.sink /\ CoreTypes'
    BY <2>1, <2>2 DEF CoreInv, CoreTypes
  <2>4. LeaseConsistent'
    BY <2>1, <2>3 DEF CoreInv, LeaseConsistent
  <2>5. ASSUME NEW d \in Cores, core[d].acquired
        PROVE  CoreLaw(core[d], t)
    <3>1. CoreLaw(core[d], apu.sound) /\ core[d] \in CoreStates
      BY <2>5 DEF CoreInv, CoreTypes
    <3>2. core[d].frames + t.ring = t.produced
      BY <3>1, <2>2, <1>1, AudioAssumption DEF CoreLaw, CoreStates, Sounds
    <3>3. ~RunsEvicted => d = c
      BY <2>5 DEF CoreInv, LeaseConsistent
    <3>4. ~RunsEvicted => t.master <= core[d].clock
      BY <3>3, <2>2, <1>1, AudioAssumption
    <3> QED BY <3>2, <3>4 DEF CoreLaw
  <2> QED BY <2>1, <2>2, <2>3, <2>4, <2>5 DEF CoreInv
<1>3. CASE Refusal(clock) # "no"
  <2>1. core' = [core EXCEPT ![c].failed = Refusal(clock)] /\ apu' = apu
    BY <1>3 DEF Synchronize
  <2>2. Refusal(clock) \in Reasons
    BY DEF Refusal, Reasons
  <2>3. ~RunsEvicted => Refusal(clock) \in {"no", "overflow"}
    <3>1. ~RunsEvicted => apu.on /\ apu.sound.master <= clock
      BY AudioAssumption DEF CoreInv, LeaseConsistent, CoreLaw
    <3> QED BY <3>1, <1>1, RefusedLaw DEF CoreInv
  <2> DEFINE why == Refusal(clock)
  <2> HIDE DEF why
  <2>4. core' = [core EXCEPT ![c] = [core[c] EXCEPT !.failed = why]]
    BY <2>1 DEF why
  <2>5. why \in Reasons /\ (~RunsEvicted => why \in {"no", "overflow"})
    BY <2>2, <2>3 DEF why
  <2>6. /\ core'[c] = [core[c] EXCEPT !.failed = why]
        /\ \A d \in Cores \ {c} : core'[d] = core[d]
        /\ core' \in [Cores -> CoreStates]
    BY <2>4, <2>5, <1>1 DEF CoreInv, CoreTypes, CoreStates
  <2>7. \A d \in Cores :
          /\ core'[d].enabled = core[d].enabled /\ core'[d].acquired = core[d].acquired
          /\ core'[d].ran = core[d].ran /\ core'[d].frames = core[d].frames
          /\ core'[d].clock = core[d].clock
          /\ core'[d].failed \in {core[d].failed, why}
    BY <2>6, <1>1 DEF CoreStates
  <2>8. CoreTypes' /\ LeaseConsistent'
    BY <2>1, <2>6, <2>7 DEF CoreInv, CoreTypes, LeaseConsistent
  <2>9. \A d \in Cores : KeptCore(core'[d])
    BY <2>5, <2>7 DEF CoreInv, KeptCore
  <2>10. \A d \in Cores : core'[d].acquired => CoreLaw(core'[d], apu'.sound)
    BY <2>1, <2>7 DEF CoreInv, CoreLaw
  <2> QED BY <2>1, <2>7, <2>8, <2>9, <2>10 DEF CoreInv
<1> QED BY <1>2, <1>3

\* Beginning the lease for c among cores that differ from the present ones at most
\* in c itself (civ_v20_audio_begin): c owns a powered singleton, nobody else does.
LEMMA BeginLaw ==
  ASSUME CoreInv, NEW c \in Cores, NEW cs \in [Cores -> CoreStates],
         \A d \in Cores \ {c} : cs[d] = core[d], KeptCore(cs[c])
  PROVE  LET bs == BeginCores(cs, c)  a == BeginApu(cs, c)
         IN  /\ bs \in [Cores -> CoreStates]
             /\ bs[c].acquired /\ bs[c].enabled
             /\ \A d \in Cores \ {c} : ~bs[d].acquired
             /\ \A d \in Cores : KeptCore(bs[d])
             /\ bs[c].clock = cs[c].clock
             /\ a \in [on : BOOLEAN, sink : Cores \cup {NoCore}, sound : Sounds]
             /\ a.on /\ a.sink = c
             /\ IF Holds(cs, c) THEN bs = cs /\ a = apu
                ELSE a.sound = PowerOn /\ bs[c].frames = 0
<1> DEFINE bs == BeginCores(cs, c)  a == BeginApu(cs, c)
<1>1. CASE Holds(cs, c)
  <2>1. bs = cs /\ a = apu /\ cs[c].acquired /\ owner = c
    BY <1>1 DEF BeginCores, BeginApu, Holds
  <2>2. \A d \in Cores \ {c} : ~cs[d].acquired
    BY <2>1 DEF CoreInv, LeaseConsistent
  <2>3. apu.on /\ apu.sink = c
    BY <2>1, AudioAssumption DEF CoreInv, LeaseConsistent
  <2> QED BY <1>1, <2>1, <2>2, <2>3 DEF CoreInv, CoreTypes, KeptCore
<1>2. CASE ~Holds(cs, c)
  <2>1. /\ bs = [Evict(cs, c) EXCEPT ![c] = Acquire(Evict(cs, c)[c])]
        /\ a = [on |-> TRUE, sink |-> c, sound |-> PowerOn]
    BY <1>2 DEF BeginCores, BeginApu
  <2> DEFINE es == Evict(cs, c)
  <2>2. /\ es \in [Cores -> CoreStates] /\ es[c] = cs[c]
        /\ \A d \in Cores \ {c} : ~es[d].acquired
        /\ \A d \in Cores : es[d].ran = cs[d].ran /\ es[d].enabled = cs[d].enabled
             /\ es[d].failed = cs[d].failed /\ (es[d].acquired => cs[d].acquired)
    <3>1. CASE owner \in Cores \ {c}
      <4>1. es = [cs EXCEPT ![owner] = [cs[owner] EXCEPT !.acquired = FALSE]]
        BY <3>1 DEF Evict
      <4>2. \A d \in Cores \ {c, owner} : ~cs[d].acquired
        BY <3>1 DEF CoreInv, LeaseConsistent
      <4>3. cs[owner] \in CoreStates
        BY <3>1
      <4> HIDE DEF es
      <4>4. /\ es[owner] = [cs[owner] EXCEPT !.acquired = FALSE]
            /\ \A d \in Cores \ {owner} : es[d] = cs[d]
            /\ es \in [Cores -> CoreStates]
        BY <3>1, <4>1, <4>3 DEF CoreStates
      <4>5. /\ ~es[owner].acquired /\ es[owner].ran = cs[owner].ran
            /\ es[owner].enabled = cs[owner].enabled /\ es[owner].failed = cs[owner].failed
        BY <4>3, <4>4 DEF CoreStates
      <4> QED BY <3>1, <4>2, <4>4, <4>5
    <3>2. CASE owner \notin Cores \ {c}
      <4>1. es = cs
        BY <3>2 DEF Evict
      <4>2. \A d \in Cores \ {c} : ~cs[d].acquired
        BY <3>2 DEF CoreInv, LeaseConsistent
      <4> QED BY <4>1, <4>2
    <3> QED BY <3>1, <3>2
  <2> DEFINE k == [cs[c] EXCEPT !.enabled = TRUE, !.acquired = TRUE, !.frames = 0]
  <2> HIDE DEF es
  <2>3. bs = [es EXCEPT ![c] = k]
    BY <2>1, <2>2 DEF es, Acquire
  <2>4. /\ k \in CoreStates /\ k.acquired /\ k.enabled /\ k.frames = 0
        /\ k.clock = cs[c].clock /\ k.failed = cs[c].failed
    BY DEF CoreStates
  <2> HIDE DEF k, bs
  <2>5. /\ bs[c] = k /\ bs \in [Cores -> CoreStates]
        /\ \A d \in Cores \ {c} : bs[d] = es[d]
    BY <2>2, <2>3, <2>4
  <2>6. ASSUME NEW d \in Cores
        PROVE  KeptCore(bs[d])
    <3>1. CASE d = c
      BY <2>4, <2>5, <3>1 DEF KeptCore
    <3>2. CASE d # c
      <4>1. KeptCore(cs[d])
        BY <3>2 DEF CoreInv
      <4> QED BY <2>2, <2>5, <3>2, <4>1 DEF KeptCore
    <3> QED BY <3>1, <3>2
  <2>7. /\ bs[c].acquired /\ bs[c].enabled /\ bs[c].frames = 0 /\ bs[c].clock = cs[c].clock
        /\ \A d \in Cores \ {c} : ~bs[d].acquired
    BY <2>2, <2>4, <2>5
  <2>8. /\ a \in [on : BOOLEAN, sink : Cores \cup {NoCore}, sound : Sounds]
        /\ a.on /\ a.sink = c /\ a.sound = PowerOn
    BY <2>1, PowerOnLaw
  <2> QED BY <1>2, <2>5, <2>6, <2>7, <2>8 DEF bs
<1> QED BY <1>1, <1>2

\* A core with its own lease and an agreeing sound re-establishes everything about
\* the cores: what beginning a run and loading a snapshot have in common.
LEMMA OwnerStep ==
  ASSUME NEW c \in Cores, core' \in [Cores -> CoreStates], owner' = c,
         apu' \in [on : BOOLEAN, sink : Cores \cup {NoCore}, sound : Sounds],
         apu'.on, apu'.sink = c, SoundLaw(apu'.sound),
         \A d \in Cores : KeptCore(core'[d]),
         \A d \in Cores \ {c} : ~core'[d].acquired,
         CoreLaw(core'[c], apu'.sound)
  PROVE  CoreInv'
<1>1. CoreTypes' /\ LeaseConsistent'
  BY AudioAssumption DEF CoreTypes, LeaseConsistent
<1>2. \A d \in Cores : core'[d].acquired => CoreLaw(core'[d], apu'.sound)
  OBVIOUS
<1> QED BY <1>1, <1>2 DEF CoreInv

\* Changing the fields of one core that the lease is not about keeps everything
\* about the cores.
LEMMA OwnCoreStep ==
  ASSUME CoreInv, NEW c \in Cores, NEW k \in CoreStates,
         core' = [core EXCEPT ![c] = k], owner' = owner, apu' = apu,
         k.acquired = core[c].acquired, k.frames = core[c].frames,
         k.clock >= core[c].clock, KeptCore(k)
  PROVE  CoreInv' /\ \A d \in Cores \ {c} : core'[d] = core[d]
<1>1. /\ core'[c] = k /\ core' \in [Cores -> CoreStates]
      /\ \A d \in Cores \ {c} : core'[d] = core[d]
  BY DEF CoreInv, CoreTypes
<1>2. CoreTypes' /\ LeaseConsistent'
  BY <1>1 DEF CoreInv, CoreTypes, LeaseConsistent
<1>3. k.acquired => CoreLaw(k, apu.sound)
  <2>1. core[c] \in CoreStates /\ apu.sound \in Sounds
    BY DEF CoreInv, CoreTypes
  <2>2. k.acquired => CoreLaw(core[c], apu.sound)
    BY DEF CoreInv
  <2> QED BY <2>1, <2>2, AudioAssumption DEF CoreLaw, CoreStates, Sounds
<1>4. \A d \in Cores : KeptCore(core'[d]) /\ (core'[d].acquired => CoreLaw(core'[d], apu.sound))
  BY <1>1, <1>3 DEF CoreInv
<1> QED BY <1>1, <1>2, <1>4 DEF CoreInv

\* The beginning of a run takes the lease or goes on with it.
LEMMA RunStartStep ==
  ASSUME IInv, NEW c \in Cores, RunStart(c)
  PROVE  IInv'
<1>1. core[c] \in CoreStates /\ core \in [Cores -> CoreStates] /\ KeptCore(core[c])
  BY DEF IInv, CoreInv, CoreTypes
<1>2. CASE ~core[c].ran
  <2>1. core' = BeginCores(core, c) /\ owner' = c /\ apu' = BeginApu(core, c) /\ active' = c
    BY <1>2 DEF RunStart
  <2>2. /\ core' \in [Cores -> CoreStates] /\ core'[c].acquired /\ core'[c].enabled
        /\ \A d \in Cores \ {c} : ~core'[d].acquired
        /\ \A d \in Cores : KeptCore(core'[d])
        /\ apu' \in [on : BOOLEAN, sink : Cores \cup {NoCore}, sound : Sounds]
        /\ apu'.on /\ apu'.sink = c
        /\ IF Holds(core, c) THEN core' = core /\ apu' = apu
           ELSE apu'.sound = PowerOn /\ core'[c].frames = 0
    BY <1>1, <2>1, BeginLaw DEF IInv
  <2>3. SoundLaw(apu'.sound) /\ CoreLaw(core'[c], apu'.sound)
    <3>1. CASE Holds(core, c)
      BY <2>2, <3>1 DEF IInv, CoreInv, Holds
    <3>2. CASE ~Holds(core, c)
      <4>1. core'[c].clock \in 0 .. MaxClock /\ core'[c].frames = 0 /\ apu'.sound = PowerOn
        BY <2>2, <3>2 DEF CoreStates
      <4> QED BY <4>1, PowerOnLaw, PowerOnCore
    <3> QED BY <3>1, <3>2
  <2>4. CoreInv'
    BY <2>1, <2>2, <2>3, OwnerStep
  <2> QED BY <2>1, <2>2, <2>4 DEF IInv, ActiveLaw, FileLaw, RunStart
<1>3. CASE core[c].ran
  <2>1. core[c].enabled
    BY <1>1, <1>3 DEF KeptCore
  <2>2. core' = core /\ owner' = owner /\ apu' = apu /\ active' = c
    BY <1>1, <1>3, <2>1 DEF RunStart, CoreStates
  <2>3. ~RunsEvicted => core[c].acquired
    BY <1>3, <2>1 DEF RunStart, HostMayRun
  <2> QED BY <2>1, <2>2, <2>3 DEF IInv, CoreInv, CoreTypes, LeaseConsistent, ActiveLaw, FileLaw, RunStart
<1> QED BY <1>2, <1>3

\* An instruction of the program.
LEMMA InstructionStep ==
  ASSUME IInv, NEW c \in Cores, Step(c)
  PROVE  IInv'
<1>1. core[c] \in CoreStates /\ KeptCore(core[c]) /\ active = c /\ core[c].enabled
  BY AudioAssumption DEF IInv, CoreInv, CoreTypes, Step, ActiveLaw
<1>2. PICK k \in CoreStates :
        /\ core' = [core EXCEPT ![c] = k]
        /\ k.acquired = core[c].acquired /\ k.enabled = core[c].enabled
        /\ k.frames = core[c].frames /\ k.clock >= core[c].clock /\ KeptCore(k)
  <2>1. CASE \E clocks \in 1 .. MaxStep :
               /\ core[c].clock + clocks <= MaxClock
               /\ core' = [core EXCEPT ![c].clock = @ + clocks, ![c].ran = TRUE]
    <3>1. PICK clocks \in 1 .. MaxStep :
               /\ core[c].clock + clocks <= MaxClock
               /\ core' = [core EXCEPT ![c].clock = @ + clocks, ![c].ran = TRUE]
      BY <2>1
    <3> DEFINE later == core[c].clock + clocks
               k == [core[c] EXCEPT !.clock = later, !.ran = TRUE]
    <3>2. core' = [core EXCEPT ![c] = k]
      BY <3>1 DEF IInv, CoreInv, CoreTypes
    <3>3. later \in 0 .. MaxClock /\ later >= core[c].clock
      BY <1>1, <3>1, AudioAssumption DEF CoreStates
    <3> HIDE DEF later
    <3>4. /\ k \in CoreStates /\ k.acquired = core[c].acquired /\ k.enabled = core[c].enabled
          /\ k.frames = core[c].frames /\ k.clock = later /\ k.failed = core[c].failed
      BY <1>1, <3>3 DEF CoreStates
    <3> QED BY <1>1, <3>2, <3>3, <3>4 DEF KeptCore
  <2>2. CASE core' = [core EXCEPT ![c].failed = "frontier"]
    <3> DEFINE k == [core[c] EXCEPT !.failed = "frontier"]
    <3>1. core' = [core EXCEPT ![c] = k]
      BY <2>2
    <3>2. /\ k \in CoreStates /\ k.acquired = core[c].acquired /\ k.enabled = core[c].enabled
          /\ k.frames = core[c].frames /\ k.clock = core[c].clock /\ k.ran = core[c].ran
          /\ k.failed = "frontier" /\ core[c].clock \in 0 .. MaxClock
      BY <1>1 DEF CoreStates, Reasons
    <3>3. k.clock >= core[c].clock
      BY <3>2, AudioAssumption
    <3> QED BY <1>1, <3>1, <3>2, <3>3 DEF KeptCore
  <2> QED BY <2>1, <2>2 DEF Step
<1>3. CoreInv' /\ core'[c] = k
  BY <1>2, OwnCoreStep DEF IInv, CoreInv, CoreTypes, Step
<1> QED BY <1>1, <1>2, <1>3 DEF IInv, ActiveLaw, FileLaw, Step

\* Every synchronisation, of the program, at the end of a run or of the host.
LEMMA SynchronizingStep ==
  ASSUME IInv, NEW c \in Cores, PortAccess(c) \/ RunEnd(c) \/ HostSync(c)
  PROVE  IInv'
<1>1. file' = file /\ owner' = owner /\ active' \in {active, NoCore}
  BY DEF PortAccess, RunEnd, HostSync
<1>2. CASE Synchronize(c) /\ (~RunsEvicted => core[c].acquired)
  <2>1. /\ CoreInv'
        /\ \A d \in Cores : core'[d].enabled = core[d].enabled /\ core'[d].acquired = core[d].acquired
    BY <1>1, <1>2, SyncStep DEF IInv
  <2> QED BY <1>1, <2>1 DEF IInv, ActiveLaw, FileLaw
<1>3. CASE UNCHANGED <<core, apu>>
  BY <1>1, <1>3 DEF IInv, CoreInv, CoreTypes, LeaseConsistent, ActiveLaw, FileLaw
<1>4. PortAccess(c) => core[c].enabled /\ (~RunsEvicted => core[c].acquired)
  BY AudioAssumption DEF PortAccess, IInv, ActiveLaw
<1> QED BY <1>2, <1>3, <1>4 DEF PortAccess, RunEnd, HostSync

\* Reading moves frames from the FIFO to the owner's count (civ_audio_read).
LEMMA ReadPcmStep ==
  ASSUME IInv, NEW c \in Cores, ReadPcm(c)
  PROVE  IInv'
<1>1. /\ active' = active /\ file' = file /\ owner' = owner /\ active = NoCore
      /\ owner = c /\ core[c].acquired /\ apu.sink = c
  BY AudioAssumption DEF ReadPcm, Holds, IInv, CoreInv, LeaseConsistent
<1>2. PICK n \in 1 .. apu.sound.ring :
        /\ apu' = [apu EXCEPT !.sound.ring = @ - n]
        /\ core' = [core EXCEPT ![c].frames = @ + n]
  BY <1>1 DEF ReadPcm
<1>3. /\ core[c] \in CoreStates /\ apu.sound \in Sounds /\ core \in [Cores -> CoreStates]
      /\ apu \in [on : BOOLEAN, sink : Cores \cup {NoCore}, sound : Sounds]
  BY DEF IInv, CoreInv, CoreTypes
<1> DEFINE left == apu.sound.ring - n  read == core[c].frames + n
<1>4. left \in 0 .. Fifo /\ read \in Nat /\ read + left = core[c].frames + apu.sound.ring
  BY <1>3, AudioAssumption DEF Sounds, CoreStates
<1> DEFINE t == [apu.sound EXCEPT !.ring = left]  k == [core[c] EXCEPT !.frames = read]
<1>5. apu' = [apu EXCEPT !.sound = t] /\ core' = [core EXCEPT ![c] = k]
  BY <1>2
<1> HIDE DEF left, read
<1>6. /\ t \in Sounds /\ t.ring = left /\ t.produced = apu.sound.produced
      /\ t.cycles = apu.sound.cycles /\ t.master = apu.sound.master
      /\ t.remainder = apu.sound.remainder /\ t.stopped = apu.sound.stopped
  BY <1>3, <1>4 DEF Sounds
<1>7. /\ k \in CoreStates /\ k.frames = read /\ k.acquired = core[c].acquired
      /\ k.ran = core[c].ran /\ k.enabled = core[c].enabled
      /\ k.clock = core[c].clock /\ k.failed = core[c].failed
  BY <1>3, <1>4 DEF CoreStates
<1> HIDE DEF t, k
<1>8. /\ core' \in [Cores -> CoreStates] /\ core'[c] = k
      /\ \A d \in Cores \ {c} : core'[d] = core[d] /\ ~core'[d].acquired
      /\ apu'.sound = t /\ apu'.on = apu.on /\ apu'.sink = c
      /\ apu' \in [on : BOOLEAN, sink : Cores \cup {NoCore}, sound : Sounds]
  BY <1>1, <1>3, <1>5, <1>6, <1>7 DEF IInv, CoreInv, LeaseConsistent
<1>9. SoundLaw(t)
  BY <1>6 DEF IInv, CoreInv, SoundLaw
<1>10. CoreLaw(k, t)
  BY <1>1, <1>4, <1>6, <1>7 DEF IInv, CoreInv, CoreLaw
<1>11. \A d \in Cores : KeptCore(core'[d])
  BY <1>7, <1>8 DEF IInv, CoreInv, KeptCore
<1>12. apu'.on
  BY <1>1, <1>8, AudioAssumption DEF IInv, CoreInv, LeaseConsistent
<1>13. CoreInv'
  BY <1>1, <1>8, <1>9, <1>10, <1>11, <1>12, OwnerStep
<1> QED BY <1>1, <1>13, AudioAssumption DEF IInv, ActiveLaw, FileLaw

\* A reset core gives its lease back (civ_reset).
LEMMA ResetStep ==
  ASSUME IInv, NEW c \in Cores, Reset(c)
  PROVE  IInv'
<1>1. /\ active = NoCore /\ active' = active /\ file' = file
      /\ core' = [core EXCEPT ![c] = ResetCore] /\ Release(c)
      /\ core \in [Cores -> CoreStates]
  BY DEF Reset, IInv, CoreInv, CoreTypes
<1>2. /\ ResetCore \in CoreStates /\ ~ResetCore.acquired /\ KeptCore(ResetCore)
  BY AudioAssumption DEF ResetCore, CoreStates, Reasons, KeptCore
<1>3. /\ core' \in [Cores -> CoreStates] /\ core'[c] = ResetCore
      /\ \A d \in Cores \ {c} : core'[d] = core[d]
  BY <1>1, <1>2
<1>4. \A d \in Cores : KeptCore(core'[d])
  BY <1>2, <1>3 DEF IInv, CoreInv
<1>5. CASE owner = c
  <2>1. owner' = NoCore /\ apu' = Released
    BY <1>1, <1>5 DEF Release
  <2>2. \A d \in Cores : ~core'[d].acquired
    BY <1>2, <1>3, <1>5 DEF IInv, CoreInv, LeaseConsistent
  <2>3. /\ apu' \in [on : BOOLEAN, sink : Cores \cup {NoCore}, sound : Sounds]
        /\ ~apu'.on /\ apu'.sound = PowerOn
    BY <2>1, PowerOnLaw DEF Released
  <2>4. SoundLaw(apu'.sound)
    BY <2>3, PowerOnLaw
  <2>5. CoreInv'
    BY <1>3, <1>4, <2>1, <2>2, <2>3, <2>4 DEF CoreInv, CoreTypes, LeaseConsistent
  <2> QED BY <1>1, <2>5, AudioAssumption DEF IInv, ActiveLaw, FileLaw
<1>6. CASE owner # c
  <2>1. owner' = owner /\ apu' = apu
    BY <1>1, <1>6 DEF Release
  <2>2. CoreTypes' /\ LeaseConsistent'
    BY <1>2, <1>3, <2>1 DEF IInv, CoreInv, CoreTypes, LeaseConsistent
  <2>3. \A d \in Cores : core'[d].acquired => CoreLaw(core'[d], apu'.sound)
    BY <1>2, <1>3, <2>1 DEF IInv, CoreInv
  <2>4. SoundLaw(apu'.sound)
    BY <2>1 DEF IInv, CoreInv
  <2>5. CoreInv'
    BY <1>4, <2>2, <2>3, <2>4 DEF CoreInv
  <2> QED BY <1>1, <2>5, AudioAssumption DEF IInv, ActiveLaw, FileLaw
<1> QED BY <1>5, <1>6

\* A snapshot of a core and of the singleton it owns agrees (civ_snapshot_save).
LEMMA SaveStep ==
  ASSUME IInv, NEW c \in Cores, Save(c)
  PROVE  IInv'
<1>1. UNCHANGED <<core, owner, apu, active>>
  BY DEF Save
<1>2. CoreInv' /\ active' \in Cores \cup {NoCore} /\ ActiveLaw'
  BY <1>1 DEF IInv, CoreInv, CoreTypes, LeaseConsistent, ActiveLaw
<1>3. /\ core[c] \in CoreStates /\ KeptCore(core[c]) /\ apu.sound \in Sounds
      /\ SoundLaw(apu.sound) /\ (core[c].acquired => CoreLaw(core[c], apu.sound))
  BY DEF IInv, CoreInv, CoreTypes
<1> DEFINE audio == IF core[c].acquired THEN apu.sound ELSE NoAudio
<1>4. /\ file' = [core |-> core[c], audio |-> audio]
      /\ file'.core = core[c] /\ file'.audio = audio
  BY DEF Save
<1>5. /\ audio \in Sounds \cup {NoAudio}
      /\ core[c].acquired => audio = apu.sound /\ audio # NoAudio
      /\ ~core[c].acquired => audio = NoAudio
  BY <1>3, Distinct
<1> HIDE DEF audio
<1>6. file' \in Files
  BY <1>3, <1>4, <1>5 DEF Files
<1>7. FileLaw'
  <2>1. KeptCore(file'.core)
    BY <1>3, <1>4
  <2>2. file'.audio = NoAudio <=> ~file'.core.acquired
    BY <1>3, <1>4, <1>5 DEF CoreStates
  <2>3. file'.core.acquired => SoundLaw(file'.audio) /\ CoreLaw(file'.core, file'.audio)
    BY <1>3, <1>4, <1>5
  <2> QED BY <2>1, <2>2, <2>3 DEF FileLaw
<1> QED BY <1>2, <1>6, <1>7 DEF IInv

\* Loading a snapshot leaves the loaded core and the singleton agreed: a silent
\* one leaves the lease alone, one with audio takes it (civ_snapshot_load).
LEMMA LoadStep ==
  ASSUME IInv, NEW c \in Cores, Load(c)
  PROVE  IInv'
<1>1. /\ active = NoCore /\ active' = active /\ file' = file
      /\ file \in Files /\ file # NoFile /\ FileLaw
  BY DEF IInv, Load
<1> DEFINE saved == file.core  sound == file.audio  cs == LoadedCores(c)
<1>2. /\ saved \in CoreStates /\ sound \in Sounds \cup {NoAudio} /\ KeptCore(saved)
      /\ (sound = NoAudio <=> ~saved.acquired)
      /\ saved.acquired => SoundLaw(sound) /\ CoreLaw(saved, sound)
  BY <1>1 DEF FileLaw, Files
<1>3. core \in [Cores -> CoreStates] /\ cs = [core EXCEPT ![c] = saved]
  BY DEF IInv, CoreInv, CoreTypes, LoadedCores
<1> HIDE DEF saved, sound, cs
<1>4. /\ cs \in [Cores -> CoreStates] /\ cs[c] = saved
      /\ \A d \in Cores \ {c} : cs[d] = core[d]
  BY <1>2, <1>3
<1>5. CASE sound = NoAudio
  <2>1. core' = cs /\ owner' = owner /\ apu' = apu
    BY <1>5 DEF Load, sound, cs
  <2>2. \A d \in Cores : KeptCore(core'[d])
    BY <1>2, <1>4, <2>1 DEF IInv, CoreInv
  <2>3. \A d \in Cores : core'[d].acquired => core[d].acquired /\ core'[d] = core[d]
    BY <1>2, <1>4, <1>5, <2>1
  <2>4. CoreTypes' /\ LeaseConsistent'
    BY <1>4, <2>1, <2>3 DEF IInv, CoreInv, CoreTypes, LeaseConsistent
  <2>5. \A d \in Cores : core'[d].acquired => CoreLaw(core'[d], apu'.sound)
    BY <2>1, <2>3 DEF IInv, CoreInv
  <2>6. CoreInv'
    BY <2>1, <2>2, <2>4, <2>5 DEF IInv, CoreInv
  <2> QED BY <1>1, <2>6, AudioAssumption DEF IInv, ActiveLaw, FileLaw
<1>6. CASE sound # NoAudio
  <2> DEFINE bs == BeginCores(cs, c)  a == BeginApu(cs, c)
  <2>1. /\ core' = [bs EXCEPT ![c].frames = saved.frames]
        /\ owner' = c /\ apu' = [a EXCEPT !.sound = sound]
    BY <1>6 DEF Load, sound, saved, cs
  <2>2. KeptCore(cs[c])
    BY <1>2, <1>4
  <2>3. /\ bs \in [Cores -> CoreStates] /\ bs[c].acquired /\ bs[c].enabled
        /\ \A d \in Cores \ {c} : ~bs[d].acquired
        /\ \A d \in Cores : KeptCore(bs[d])
        /\ bs[c].clock = saved.clock
        /\ a \in [on : BOOLEAN, sink : Cores \cup {NoCore}, sound : Sounds]
        /\ a.on /\ a.sink = c
    BY <1>4, <2>2, BeginLaw DEF IInv
  <2> HIDE DEF bs, a
  <2> DEFINE k == [bs[c] EXCEPT !.frames = saved.frames]
  <2>4. core' = [bs EXCEPT ![c] = k]
    BY <2>1
  <2>5. saved.acquired /\ sound \in Sounds /\ SoundLaw(sound) /\ CoreLaw(saved, sound)
    BY <1>2, <1>6 DEF CoreStates
  <2>6. /\ k \in CoreStates /\ k.frames = saved.frames /\ k.clock = saved.clock
        /\ k.ran = bs[c].ran /\ k.acquired = bs[c].acquired
        /\ k.enabled = bs[c].enabled /\ k.failed = bs[c].failed
    BY <1>2, <2>3 DEF CoreStates
  <2> HIDE DEF k
  <2>7. /\ core' \in [Cores -> CoreStates] /\ core'[c] = k
        /\ \A d \in Cores \ {c} : core'[d] = bs[d]
    BY <2>3, <2>4, <2>6
  <2>8. /\ apu' \in [on : BOOLEAN, sink : Cores \cup {NoCore}, sound : Sounds]
        /\ apu'.on /\ apu'.sink = c /\ apu'.sound = sound
    BY <2>1, <2>3, <2>5
  <2>9. \A d \in Cores : KeptCore(core'[d])
    BY <2>3, <2>6, <2>7 DEF KeptCore
  <2>10. CoreLaw(k, sound)
    BY <2>5, <2>6 DEF CoreLaw
  <2>11. CoreInv'
    <3>1. /\ SoundLaw(apu'.sound) /\ CoreLaw(core'[c], apu'.sound)
          /\ \A d \in Cores \ {c} : ~core'[d].acquired
      BY <2>3, <2>5, <2>7, <2>8, <2>10
    <3> QED BY <2>1, <2>7, <2>8, <2>9, <3>1, OwnerStep
  <2> QED BY <1>1, <2>11, AudioAssumption DEF IInv, ActiveLaw, FileLaw
<1> QED BY <1>5, <1>6

-----------------------------------------------------------------------------
\* Nothing is acquired, powered or saved at first.
LEMMA IInit == Init => IInv
<1> SUFFICES ASSUME Init PROVE IInv
  OBVIOUS
<1>1. ResetCore \in CoreStates /\ ~ResetCore.acquired /\ KeptCore(ResetCore)
  BY AudioAssumption DEF ResetCore, CoreStates, Reasons, KeptCore
<1>2. core = [c \in Cores |-> ResetCore] /\ owner = NoCore /\ active = NoCore /\ file = NoFile
  BY DEF Init
<1>3. /\ apu \in [on : BOOLEAN, sink : Cores \cup {NoCore}, sound : Sounds]
      /\ ~apu.on /\ apu.sound = PowerOn /\ SoundLaw(apu.sound)
  BY PowerOnLaw DEF Init, Released
<1>4. \A c \in Cores : core[c] = ResetCore
  BY <1>2
<1>5. CoreInv
  BY <1>1, <1>2, <1>3, <1>4 DEF CoreInv, CoreTypes, LeaseConsistent
<1> QED BY <1>2, <1>5 DEF IInv, ActiveLaw, FileLaw

\* Every operation of every core keeps the invariant.
LEMMA IStep == IInv /\ [Next]_vars => IInv'
<1> SUFFICES ASSUME IInv, [Next]_vars PROVE IInv'
  OBVIOUS
<1>1. CASE UNCHANGED vars
  BY <1>1 DEF vars, IInv, CoreInv, CoreTypes, LeaseConsistent, ActiveLaw, FileLaw
<1>2. CASE Next
  <2>1. PICK c \in Cores :
          \/ RunStart(c) \/ Step(c) \/ PortAccess(c) \/ RunEnd(c)
          \/ HostSync(c) \/ ReadPcm(c) \/ Reset(c) \/ Save(c) \/ Load(c)
    BY <1>2 DEF Next
  <2> QED BY <2>1, RunStartStep, InstructionStep, SynchronizingStep, ReadPcmStep,
             ResetStep, SaveStep, LoadStep
<1> QED BY <1>1, <1>2

\* The inductive invariant holds throughout.
THEOREM Invariance == Spec => []IInv
<1> QED BY IInit, IStep, PTL DEF Spec

\* Every variable keeps its type, the singleton's FIFO and clock bounds included.
THEOREM AudioTypes == Spec => []TypeOK
<1>1. IInv => TypeOK
  BY DEF IInv, CoreInv, CoreTypes, TypeOK
<1> QED BY <1>1, Invariance, PTL

\* However runs, evictions, resets and snapshots interleave, who believes to have
\* audio owns the one powered S-SMP and its PCM sink (civilization_audio.cpp).
THEOREM LeaseSafe == Spec => []LeaseConsistent
<1>1. IInv => LeaseConsistent
  BY DEF IInv, CoreInv
<1> QED BY <1>1, Invariance, PTL

\* No PCM frame is lost, duplicated or handed to another core's count.
THEOREM PcmSafe == Spec => []PcmAccounted
<1>1. IInv => PcmAccounted
  BY DEF IInv, CoreInv, PcmAccounted, CoreLaw, SoundLaw
<1> QED BY <1>1, Invariance, PTL

\* For every clock ratio, however the synchronisations cut the timeline, none is
\* refused by a host that does not resume evicted cores, but for an overflow.
THEOREM RefusesNothing == Spec => []NeverRefused
<1>1. IInv => NeverRefused
  BY DEF IInv, CoreInv, KeptCore, NeverRefused
<1> QED BY <1>1, Invariance, PTL
=============================================================================

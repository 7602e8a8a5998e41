-------------------------- MODULE InputPath_proofs --------------------------
(***************************************************************************)
(* What InputPath promises for any width of the mask, any keys and any     *)
(* opposites.                                                              *)
(***************************************************************************)
EXTENDS InputPath, TLAPS

\* The latch: what is pending is what is owed, what is held is down or orphaned, and
\* nothing is held without the keyboard focus.
LatchLaw ==
  /\ pending = owed
  /\ held \subseteq down \cup orphans
  /\ mode # "playing" => held = {} /\ pending = {}

\* The frame: it shows what the latch would give, for no key arrives during it.
SampleLaw == phase # "host" /\ ~padOn => sample = held \cup pending

\* The port: every register of it is the serial order of some sample.
PortLaw ==
  /\ live = Serial(sample)
  /\ latched = Serial(strobed)

IInv == TypeOK /\ LatchLaw /\ SampleLaw /\ PortLaw /\ SerialReadsOneSample /\ AutoReadsFrame

-----------------------------------------------------------------------------
\* Reversing the order of the bits keeps a mask within its width.
LEMMA SerialType ==
  ASSUME NEW mask \in Masks
  PROVE  Serial(mask) \in Masks
<1>1. ASSUME NEW b \in mask PROVE Bits - 1 - b \in 0 .. Bits - 1
  BY InputAssumption DEF Masks, Buttons
<1> QED BY <1>1 DEF Serial, Masks, Buttons

\* Reversing twice changes nothing (snes_mask_to_serial, then civ_auto_joypad_poll).
LEMMA SerialTwice ==
  ASSUME NEW mask \in Masks
  PROVE  Serial(Serial(mask)) = mask
<1>1. ASSUME NEW b \in mask PROVE Bits - 1 - (Bits - 1 - b) = b
  BY InputAssumption DEF Masks, Buttons
<1>2. Serial(mask) = {Bits - 1 - b : b \in mask}
  BY DEF Serial
<1>3. Serial(Serial(mask)) = {Bits - 1 - p : p \in Serial(mask)}
  BY DEF Serial
<1>4. Serial(Serial(mask)) \subseteq mask
  <2> SUFFICES ASSUME NEW c \in Serial(Serial(mask)) PROVE c \in mask
    OBVIOUS
  <2>1. PICK p \in Serial(mask) : c = Bits - 1 - p
    BY <1>3
  <2>2. PICK b \in mask : p = Bits - 1 - b
    BY <1>2
  <2> QED BY <1>1, <2>1, <2>2
<1>5. mask \subseteq Serial(Serial(mask))
  <2> SUFFICES ASSUME NEW b \in mask PROVE b \in Serial(Serial(mask))
    OBVIOUS
  <2>1. Bits - 1 - b \in Serial(mask)
    BY <1>2
  <2> QED BY <1>1, <1>3, <2>1
<1> QED BY <1>4, <1>5

\* No mask is pressed at positions it has not.
LEMMA SerialEmpty == Serial({}) = {}
  BY DEF Serial

-----------------------------------------------------------------------------
\* Init establishes the invariant.
LEMMA IInit == Init => IInv
<1> SUFFICES ASSUME Init PROVE IInv
  OBVIOUS
<1>1. 0 \in 0 .. Bits
  BY InputAssumption
<1> QED BY <1>1, SerialEmpty
        DEF Init, IInv, TypeOK, Masks, LatchLaw, SampleLaw, PortLaw, SerialReadsOneSample, AutoReadsFrame

\* The port's part of the invariant is kept by every step that leaves the port and the
\* sample alone and does not move the frame to "polled".
LEMMA PortKept ==
  ASSUME IInv, UNCHANGED <<sample, port>>, phase' = phase \/ phase' # "polled"
  PROVE  /\ PortLaw' /\ SerialReadsOneSample' /\ AutoReadsFrame'
         /\ sample' \in Masks /\ live' \in Masks /\ latched' \in Masks /\ data' \in Masks
         /\ index' \in 0 .. Bits /\ strobe' \in BOOLEAN /\ auto' \in BOOLEAN
         /\ strobed' \in Masks /\ burst' \in Masks
  BY DEF IInv, TypeOK, port, PortLaw, SerialReadsOneSample, AutoReadsFrame, Serial

\* A key event.
LEMMA KeyStep ==
  ASSUME IInv, Key
  PROVE  IInv'
<1>1. PICK k \in Keys : Press(k) \/ Repeat(k) \/ Release(k)
  BY DEF Key
<1>2. k \in Buttons /\ Opposite[k] \in Masks
  BY InputAssumption DEF Masks
<1>3. /\ phase = "host" /\ UNCHANGED <<mode, padOn, phase, sample, port>>
  BY <1>1 DEF Press, Repeat, Release
<1>4. /\ PortLaw' /\ SerialReadsOneSample' /\ AutoReadsFrame'
      /\ sample' \in Masks /\ live' \in Masks /\ latched' \in Masks /\ data' \in Masks
      /\ index' \in 0 .. Bits /\ strobe' \in BOOLEAN /\ auto' \in BOOLEAN
      /\ strobed' \in Masks /\ burst' \in Masks
  BY <1>3, PortKept
<1>5. /\ held' \in Masks /\ pending' \in Masks /\ down' \in Masks
      /\ owed' \in Masks /\ orphans' \in Masks /\ LatchLaw'
  <2>1. CASE Press(k)
    BY <1>2, <2>1 DEF Press, Listening, IInv, TypeOK, Masks, LatchLaw
  <2>2. CASE Repeat(k)
    BY <1>2, <2>2 DEF Repeat, Listening, IInv, TypeOK, Masks, LatchLaw
  <2>3. CASE Release(k)
    BY <1>2, <2>3 DEF Release, KeptTap, Listening, IInv, TypeOK, Masks, LatchLaw
  <2> QED BY <1>1, <2>1, <2>2, <2>3
<1> QED BY <1>3, <1>4, <1>5 DEF IInv, TypeOK, SampleLaw

\* Pausing, playing, losing the focus, and failing reset the latch; regaining the
\* focus finds it as the loss left it.
LEMMA FocusStep ==
  ASSUME IInv, Focus \/ Fail
  PROVE  IInv'
<1>1. /\ phase' = "host" /\ mode' \in {"playing", "paused", "away"}
      /\ UNCHANGED <<padOn, down, sample, port>>
  BY DEF Focus, Fail, Pause, Play, KillFocus, SetFocus
<1>2. \/ ResetLatch
      \/ UNCHANGED <<held, pending, owed, orphans>> /\ mode = "away" /\ mode' = "playing"
  BY DEF Focus, Fail, Pause, Play, KillFocus, SetFocus
<1>3. /\ PortLaw' /\ SerialReadsOneSample' /\ AutoReadsFrame'
      /\ sample' \in Masks /\ live' \in Masks /\ latched' \in Masks /\ data' \in Masks
      /\ index' \in 0 .. Bits /\ strobe' \in BOOLEAN /\ auto' \in BOOLEAN
      /\ strobed' \in Masks /\ burst' \in Masks
  BY <1>1, PortKept
<1>4. /\ held' \in Masks /\ pending' \in Masks /\ down' \in Masks
      /\ owed' \in Masks /\ orphans' \in Masks /\ LatchLaw'
  BY <1>1, <1>2 DEF ResetLatch, IInv, TypeOK, Masks, LatchLaw
<1> QED BY <1>1, <1>3, <1>4 DEF IInv, TypeOK, SampleLaw

\* The frame takes its sample from the gamepad or from the whole latch.
LEMMA TickStep ==
  ASSUME IInv, Tick
  PROVE  IInv'
<1>1. CASE UNCHANGED <<phase, sample, live>>
  BY <1>1 DEF Tick, IInv, TypeOK, LatchLaw, SampleLaw, PortLaw, SerialReadsOneSample,
              AutoReadsFrame, Serial
<1>2. CASE /\ sample' \in (IF padOn' THEN SUBSET Keys ELSE {held \cup pending})
           /\ live' = Serial(sample') /\ phase' = "visible"
  <2>1. sample' \in Masks
    BY <1>2, InputAssumption DEF IInv, TypeOK, Masks
  <2>2. live' \in Masks
    BY <1>2, <2>1, SerialType
  <2>3. PortLaw'
    BY <1>2 DEF Tick, IInv, PortLaw, Serial
  <2>4. LatchLaw' /\ SerialReadsOneSample' /\ AutoReadsFrame' /\ SampleLaw'
    BY <1>2 DEF Tick, IInv, LatchLaw, SerialReadsOneSample, AutoReadsFrame, SampleLaw, Serial
  <2>5. TypeOK'
    BY <1>2, <2>1, <2>2 DEF Tick, IInv, TypeOK
  <2> QED BY <2>3, <2>4, <2>5 DEF IInv
<1> QED BY <1>1, <1>2 DEF Tick

\* A latch takes the sample of the frame, in serial order.
LEMMA LatchStep ==
  ASSUME IInv, Latch, UNCHANGED <<host, phase, sample, live, auto, data>>, strobe' \in BOOLEAN
  PROVE  IInv'
<1>1. TypeOK'
  BY InputAssumption DEF Latch, host, IInv, TypeOK, Masks
<1>2. LatchLaw' /\ SampleLaw' /\ AutoReadsFrame'
  BY DEF host, IInv, LatchLaw, SampleLaw, AutoReadsFrame
<1>3. PortLaw'
  BY DEF Latch, IInv, PortLaw, Serial
<1>4. SerialReadsOneSample'
  <2>1. strobed' \in Masks /\ Serial(strobed') \in Masks
    BY SerialType DEF Latch, IInv, TypeOK
  <2>2. \A p \in Serial(strobed') : p \in Nat
    BY <2>1, InputAssumption DEF Masks, Buttons
  <2>3. {p \in Serial(strobed') : p < 0} = {}
    BY <2>2
  <2> QED BY <2>3 DEF Latch, SerialReadsOneSample, Serial
<1> QED BY <1>1, <1>2, <1>3, <1>4 DEF IInv

\* One more bit of the latched sample is read.
LEMMA SerialReadStep ==
  ASSUME IInv, SerialRead
  PROVE  IInv'
<1>1. /\ index \in 0 .. Bits /\ index' = NextIndex
      /\ burst' = IF index < Bits /\ index \in latched THEN burst \cup {index} ELSE burst
      /\ UNCHANGED <<host, phase, sample, live, latched, strobe, auto, data, strobed>>
  BY DEF SerialRead, SerialBit, IInv, TypeOK
<1>2. index' \in 0 .. Bits
  BY <1>1, InputAssumption DEF NextIndex
<1>3. burst' \in Masks
  BY <1>1, InputAssumption DEF IInv, TypeOK, Masks, Buttons
<1>4. burst' = {p \in latched : p < index'}
  <2>1. burst = {p \in latched : p < index} /\ \A p \in latched : p \in 0 .. Bits - 1
    BY DEF IInv, PortLaw, SerialReadsOneSample, TypeOK, Masks, Buttons
  <2>2. CASE index < Bits
    <3>1. index' = index + 1
      BY <1>1, <2>2 DEF NextIndex
    <3>2. \A p \in latched : p < index + 1 <=> p < index \/ p = index
      BY <1>1, <2>1, InputAssumption
    <3> QED BY <1>1, <2>1, <2>2, <3>1, <3>2
  <2>3. CASE ~(index < Bits)
    BY <1>1, <2>1, <2>3 DEF NextIndex
  <2> QED BY <2>2, <2>3
<1>5. TypeOK'
  BY <1>1, <1>2, <1>3 DEF host, IInv, TypeOK
<1>6. LatchLaw' /\ SampleLaw' /\ AutoReadsFrame' /\ PortLaw'
  BY <1>1 DEF host, IInv, LatchLaw, SampleLaw, AutoReadsFrame, PortLaw, Serial
<1>7. SerialReadsOneSample'
  <2>1. latched' = latched /\ latched = Serial(strobed)
    BY <1>1 DEF IInv, PortLaw
  <2>2. Serial(strobed)' = Serial(strobed)
    BY <1>1 DEF Serial
  <2> QED BY <1>4, <2>1, <2>2 DEF SerialReadsOneSample
<1> QED BY <1>5, <1>6, <1>7 DEF IInv

\* What the guest does to the port.
LEMMA GuestStep ==
  ASSUME IInv, Guest
  PROVE  IInv'
<1>1. CASE SerialRead
  BY <1>1, SerialReadStep
<1>2. ASSUME NEW b \in BOOLEAN, WriteStrobe(b)
      PROVE  IInv'
  <2>1. CASE b \/ strobe
    BY <1>2, <2>1, LatchStep DEF WriteStrobe
  <2>2. CASE ~(b \/ strobe)
    BY <1>2, <2>2 DEF WriteStrobe, host, IInv, TypeOK, LatchLaw, SampleLaw, PortLaw,
                      SerialReadsOneSample, AutoReadsFrame, Serial
  <2> QED BY <2>1, <2>2
<1>3. ASSUME NEW b \in BOOLEAN, WriteAuto(b)
      PROVE  IInv'
  BY <1>3 DEF WriteAuto, host, IInv, TypeOK, LatchLaw, SampleLaw, PortLaw,
              SerialReadsOneSample, AutoReadsFrame, Serial
<1> QED BY <1>1, <1>2, <1>3 DEF Guest

\* The automatic poll delivers the frame's sample.
LEMMA VerticalBlankStep ==
  ASSUME IInv, VerticalBlank
  PROVE  IInv'
<1>1. CASE auto
  <2>1. /\ phase' = "polled" /\ data' = Serial(live) /\ latched' = live
        /\ index' = Bits /\ strobed' = sample /\ burst' = live
        /\ UNCHANGED <<host, sample, live, strobe, auto>>
    BY <1>1 DEF VerticalBlank, PollLatched
  <2>2. sample \in Masks /\ live \in Masks /\ live = Serial(sample)
    BY DEF IInv, TypeOK, PortLaw
  <2>3. data' = sample
    BY <2>1, <2>2, SerialTwice
  <2>4. SerialReadsOneSample'
    <3>1. \A p \in live : p < Bits
      BY <2>2, InputAssumption DEF Masks, Buttons
    <3>2. {p \in live : p < Bits} = live
      BY <3>1
    <3>3. Serial(strobed)' = live
      BY <2>1, <2>2 DEF Serial
    <3> QED BY <2>1, <3>2, <3>3 DEF SerialReadsOneSample
  <2>5. TypeOK'
    BY <2>1, <2>2, <2>3, InputAssumption DEF host, IInv, TypeOK
  <2>6. LatchLaw' /\ AutoReadsFrame' /\ PortLaw'
    BY <2>1, <2>2, <2>3 DEF host, IInv, LatchLaw, AutoReadsFrame, PortLaw, Serial
  <2>7. SampleLaw'
    BY <2>1 DEF VerticalBlank, host, IInv, SampleLaw
  <2> QED BY <2>4, <2>5, <2>6, <2>7 DEF IInv
<1>2. CASE ~auto
  BY <1>2 DEF VerticalBlank, host, IInv, TypeOK, LatchLaw, SampleLaw, PortLaw,
              SerialReadsOneSample, AutoReadsFrame, Serial
<1> QED BY <1>1, <1>2

\* The end of a frame on the keyboard takes every pending tap, for the frame showed
\* every one.
LEMMA EndFrameStep ==
  ASSUME IInv, EndFrame
  PROVE  IInv'
<1>1. /\ phase # "host" /\ phase' = "host"
      /\ UNCHANGED <<mode, padOn, held, down, orphans, sample, port>>
  BY DEF EndFrame
<1>2. /\ PortLaw' /\ SerialReadsOneSample' /\ AutoReadsFrame'
      /\ sample' \in Masks /\ live' \in Masks /\ latched' \in Masks /\ data' \in Masks
      /\ index' \in 0 .. Bits /\ strobe' \in BOOLEAN /\ auto' \in BOOLEAN
      /\ strobed' \in Masks /\ burst' \in Masks
  BY <1>1, PortKept
<1>3. pending' \in Masks /\ owed' \in Masks /\ LatchLaw'
  <2>1. CASE padOn
    BY <1>1, <2>1 DEF EndFrame, IInv, TypeOK, LatchLaw
  <2>2. CASE ~padOn
    <3>1. pending' = {} /\ owed' = {}
      BY <1>1, <2>2 DEF EndFrame, IInv, SampleLaw
    <3> QED BY <1>1, <3>1 DEF IInv, TypeOK, Masks, LatchLaw
  <2> QED BY <2>1, <2>2
<1> QED BY <1>1, <1>2, <1>3 DEF IInv, TypeOK, SampleLaw

\* A reset clears latch and port together.
LEMMA ResetStep ==
  ASSUME IInv, Reset
  PROVE  IInv'
<1>1. TypeOK'
  <2>1. {} \in Masks /\ 0 \in 0 .. Bits
    BY InputAssumption DEF Masks
  <2> QED BY <2>1 DEF Reset, ResetLatch, IInv, TypeOK
<1>2. LatchLaw' /\ SampleLaw' /\ AutoReadsFrame'
  BY DEF Reset, ResetLatch, LatchLaw, SampleLaw, AutoReadsFrame
<1>3. PortLaw' /\ SerialReadsOneSample'
  BY SerialEmpty DEF Reset, PortLaw, SerialReadsOneSample, Serial
<1> QED BY <1>1, <1>2, <1>3 DEF IInv

\* Every step of host and guest keeps the invariant.
LEMMA IStep == IInv /\ [Next]_vars => IInv'
<1> SUFFICES ASSUME IInv, [Next]_vars PROVE IInv'
  OBVIOUS
<1>1. CASE UNCHANGED vars
  BY <1>1 DEF vars, host, port, IInv, TypeOK, LatchLaw, SampleLaw, PortLaw,
              SerialReadsOneSample, AutoReadsFrame, Serial
<1>2. CASE Next
  BY <1>2, KeyStep, FocusStep, GuestStep, TickStep, VerticalBlankStep, EndFrameStep, ResetStep
     DEF Next, Frame
<1> QED BY <1>1, <1>2

-----------------------------------------------------------------------------
\* The inductive invariant holds throughout.
THEOREM Invariance == Spec => []IInv
<1> QED BY IInit, IStep, PTL DEF Spec

\* Masks stay within their width and the serial index within its range.
THEOREM InputTypes == Spec => []TypeOK
<1>1. IInv => TypeOK
  BY DEF IInv
<1> QED BY <1>1, Invariance, PTL

\* A polled frame of the keyboard delivers every tap since the last one.
THEOREM TapsSafe == Spec => []TapsReachGuest
<1>1. IInv => TapsReachGuest
  BY DEF IInv, TapsReachGuest, AutoReadsFrame, SampleLaw, LatchLaw
<1> QED BY <1>1, Invariance, PTL

\* A keyboard frame shows no key that is neither down, nor tapped, nor orphaned by a
\* gamepad.
THEOREM PhantomSafe == Spec => []NoPhantomKeys
<1>1. IInv => NoPhantomKeys
  BY DEF IInv, NoPhantomKeys, SampleLaw, LatchLaw
<1> QED BY <1>1, Invariance, PTL

\* Serial reads tell one sample, however they are spread over frames.
THEOREM SerialSafe == Spec => []SerialReadsOneSample
<1>1. IInv => SerialReadsOneSample
  BY DEF IInv
<1> QED BY <1>1, Invariance, PTL

\* An automatic poll tells the sample of its frame, bit by bit in SNES order.
THEOREM AutoSafe == Spec => []AutoReadsFrame
<1>1. IInv => AutoReadsFrame
  BY DEF IInv
<1> QED BY <1>1, Invariance, PTL
=============================================================================

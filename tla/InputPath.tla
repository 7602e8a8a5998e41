------------------------------ MODULE InputPath ------------------------------
(***************************************************************************)
(* From a key to a bit the guest reads: the Windows host's keyboard latch  *)
(* (civilization_input_latch.c and the window procedure that feeds it),    *)
(* the frame that samples it, and controller port 1 of the machine: strobe,*)
(* serial reads and the automatic poll (civilization_input.c).  One thread *)
(* runs all of it: keys arrive only between two frames, the guest reads    *)
(* only within one.  A button is the number of its bit in the SNES mask.   *)
(***************************************************************************)
EXTENDS Integers

CONSTANTS
  Bits,       \* 16: bits of a mask, and of a serial read
  Keys,       \* the buttons bound to a key: 12 of the 16
  Opposite    \* [button -> buttons]: opposite_direction

Buttons == 0 .. Bits - 1

ASSUME InputAssumption ==
  /\ Bits \in Nat \ {0} /\ Keys \subseteq Buttons
  /\ Opposite \in [Buttons -> SUBSET Buttons]

VARIABLES
  mode,       \* "playing", "paused" (g_paused), "away": running without keyboard focus
  padOn,      \* the gamepad is the source and connected: keyboard_gameplay_active() is false
  held,       \* CivInputLatch.held
  pending,    \* CivInputLatch.pending_press
  phase,      \* "host", or within a frame: "visible", then "polled" or "unpolled"
  sample,     \* advance_one_frame's input_mask
  live,       \* controller_live[0], in serial order
  latched,    \* controller_latched[0]
  index,      \* controller_shift_index[0]; every value from Bits on reads 1
  strobe,     \* controller_strobe
  auto,       \* auto_joypad_enable
  data,       \* auto_joypad_data[0]
  \* Keys that are physically down, and history, which no other variable reads:
  down,
  owed,       \* taps the guest must still get to see
  orphans,    \* held keys whose release was ignored under an active gamepad
  strobed,    \* the sample at the last latch of the port
  burst       \* serial positions read as pressed since then

host    == <<mode, padOn, held, pending, down, owed, orphans>>
port    == <<live, latched, index, strobe, auto, data, strobed, burst>>
vars    == <<host, phase, sample, port>>

Masks == SUBSET Buttons

TypeOK ==
  /\ mode \in {"playing", "paused", "away"} /\ padOn \in BOOLEAN
  /\ phase \in {"host", "visible", "polled", "unpolled"}
  /\ held \in Masks /\ pending \in Masks /\ down \in Masks /\ owed \in Masks /\ orphans \in Masks
  /\ sample \in Masks /\ live \in Masks /\ latched \in Masks /\ data \in Masks
  /\ index \in 0 .. Bits /\ strobe \in BOOLEAN /\ auto \in BOOLEAN
  /\ strobed \in Masks /\ burst \in Masks

Init ==
  /\ mode = "paused" /\ padOn = FALSE /\ held = {} /\ pending = {}
  /\ phase = "host" /\ sample = {}
  /\ live = {} /\ latched = {} /\ index = 0 /\ strobe = FALSE /\ auto = FALSE /\ data = {}
  /\ down = {} /\ owed = {} /\ orphans = {} /\ strobed = {} /\ burst = {}

-----------------------------------------------------------------------------
\* WM_KEYDOWN and WM_KEYUP reach the latch.
Listening == mode = "playing" /\ ~padOn

\* civ_input_latch_reset.
\* Mutant: it forgets the taps but not the held keys.
ResetTaps == pending' = {} /\ UNCHANGED held /\ owed' = {} /\ orphans' = {}
ResetLatch == held' = {} /\ pending' = {} /\ owed' = {} /\ orphans' = {}

\* civ_input_latch_press, not repeated: a newer direction replaces the opposite
\* tap that no frame has sampled.
Press(k) ==
  /\ phase = "host" /\ k \notin down /\ down' = down \cup {k}
  /\ IF Listening
     THEN /\ held' = held \cup {k} /\ orphans' = orphans \ {k}
          /\ pending' = (pending \ Opposite[k]) \cup {k}
          /\ owed' = (owed \ Opposite[k]) \cup {k}
     ELSE UNCHANGED <<held, pending, owed, orphans>>
  /\ UNCHANGED <<mode, padOn, phase, sample, port>>

\* Windows repeats a key that stays down: held, but no new tap.
Repeat(k) ==
  /\ phase = "host" /\ k \in down /\ Listening
  /\ held' = held \cup {k}
  /\ UNCHANGED <<mode, padOn, pending, down, owed, orphans, phase, sample, port>>

\* civ_input_latch_release leaves the tap to the next frame.
\* Mutant: the release takes the tap with it.
ReleasedTap(k) == pending \ {k}
KeptTap(k) == pending

Release(k) ==
  /\ phase = "host" /\ k \in down /\ down' = down \ {k}
  /\ IF Listening
     THEN held' = held \ {k} /\ pending' = KeptTap(k) /\ orphans' = orphans \ {k}
     ELSE /\ orphans' = orphans \cup ({k} \cap held)
          /\ UNCHANGED <<held, pending>>
  /\ UNCHANGED <<mode, padOn, owed, phase, sample, port>>

\* pause_game, by Escape, a dialog or a lost focus.
Pause ==
  /\ phase = "host" /\ mode # "paused" /\ mode' = "paused" /\ ResetLatch
  /\ UNCHANGED <<padOn, down, phase, sample, port>>

\* play_game, which asks for the focus and may not get it.
Play ==
  /\ phase = "host" /\ mode = "paused" /\ mode' \in {"playing", "away"} /\ ResetLatch
  /\ UNCHANGED <<padOn, down, phase, sample, port>>

\* WM_KILLFOCUS without pause_on_focus_loss.
KillFocus ==
  /\ phase = "host" /\ mode = "playing" /\ mode' = "away" /\ ResetLatch
  /\ UNCHANGED <<padOn, down, phase, sample, port>>

SetFocus ==
  /\ phase = "host" /\ mode = "away" /\ mode' = "playing"
  /\ UNCHANGED <<padOn, held, pending, down, owed, orphans, phase, sample, port>>

-----------------------------------------------------------------------------
\* snes_mask_to_serial: serial order is the SNES mask from its highest bit down.
Serial(mask) == {Bits - 1 - b : b \in mask}

\* service_host_timer: the gamepad is polled, and may come or go; then, unless
\* paused or kept back by audio, advance_one_frame samples the active source and
\* civ_run_frame hands the sample to the port.
Tick ==
  /\ phase = "host" /\ padOn' \in BOOLEAN
  /\ \/ /\ mode # "paused"
        /\ sample' \in (IF padOn' THEN SUBSET Keys ELSE {held \cup pending})
        /\ live' = Serial(sample') /\ phase' = "visible"
     \/ UNCHANGED <<phase, sample, live>>
  /\ UNCHANGED <<mode, held, pending, down, owed, orphans,
                 latched, index, strobe, auto, data, strobed, burst>>

\* civ_controller_latch.
Latch ==
  /\ latched' = live /\ index' = 0 /\ strobed' = sample /\ burst' = {}

\* A write of $4016: while the strobe is high the port follows the live buttons,
\* when it falls they are latched.
WriteStrobe(high) ==
  /\ phase # "host" /\ strobe' = high
  /\ IF high \/ strobe THEN Latch ELSE UNCHANGED <<latched, index, strobed, burst>>
  /\ UNCHANGED <<host, phase, sample, live, auto, data>>

\* civ_controller_serial_read, strobe low.  (Under a high strobe nothing shifts.)
\* Mutants: the bit is taken from the live buttons; the index has no last value.
LiveBit == index \in live
SerialBit == index \in latched
Unsaturated == index + 1
NextIndex == IF index < Bits THEN index + 1 ELSE index

SerialRead ==
  /\ phase # "host" /\ ~strobe
  /\ index' = NextIndex
  /\ burst' = IF index < Bits /\ SerialBit THEN burst \cup {index} ELSE burst
  /\ UNCHANGED <<host, phase, sample, live, latched, strobe, auto, data, strobed>>

\* $4200, bit 0.
WriteAuto(on) ==
  /\ phase # "host" /\ auto' = on
  /\ UNCHANGED <<host, phase, sample, live, latched, index, strobe, data, strobed, burst>>

\* civ_auto_joypad_poll: latch, then shift all bits, the first into the highest.
\* Mutant: the poll shifts what some earlier strobe latched.
PollStale == data' = Serial(latched) /\ latched' = latched
PollLatched == data' = Serial(live) /\ latched' = live

\* The vertical blank line, once in a frame, with the poll if it is enabled.
VerticalBlank ==
  /\ phase = "visible"
  /\ IF auto
     THEN /\ phase' = "polled" /\ PollLatched
          /\ index' = Bits /\ strobed' = sample /\ burst' = live
     ELSE phase' = "unpolled" /\ UNCHANGED <<latched, index, data, strobed, burst>>
  /\ UNCHANGED <<host, sample, live, strobe, auto>>

\* The frame is complete: civ_input_latch_consume, if the keyboard was sampled.
EndFrame ==
  /\ phase \in {"polled", "unpolled"} /\ phase' = "host"
  /\ IF padOn THEN UNCHANGED <<pending, owed>>
     ELSE pending' = pending \ sample /\ owed' = {}
  /\ UNCHANGED <<mode, padOn, held, down, orphans, sample, port>>

\* stop_game_on_core_failure, at any point of a frame.
Fail ==
  /\ phase # "host" /\ phase' = "host" /\ mode' = "paused" /\ ResetLatch
  /\ UNCHANGED <<padOn, down, sample, port>>

\* reset_game: pause, civ_reset, and play unless the ROM is refused.
Reset ==
  /\ phase = "host" /\ mode' \in {"playing", "away", "paused"} /\ ResetLatch
  /\ sample' = {} /\ live' = {} /\ latched' = {} /\ index' = 0 /\ strobe' = FALSE
  /\ auto' = FALSE /\ data' = {} /\ strobed' = {} /\ burst' = {}
  /\ UNCHANGED <<padOn, down, phase>>

Key   == \E k \in Keys : Press(k) \/ Repeat(k) \/ Release(k)
Focus == Pause \/ Play \/ KillFocus \/ SetFocus
Guest == \/ \E b \in BOOLEAN : WriteStrobe(b) \/ WriteAuto(b)
         \/ SerialRead
Frame == Tick \/ VerticalBlank \/ EndFrame \/ Fail

Next == Key \/ Focus \/ Guest \/ Frame \/ Reset

Spec == Init /\ [][Next]_vars

-----------------------------------------------------------------------------
\* "A complete tap between host frames must survive for one guest sample": when a
\* frame on the keyboard has polled, what it delivered holds every tap since the last
\* one, whatever was released, repeated or strobed meanwhile and however long a
\* gamepad was in between.
TapsReachGuest == phase = "polled" /\ ~padOn => owed \subseteq data

\* No phantom keys: a button a keyboard frame shows is down, or was tapped since the
\* last frame, or was released while a gamepad kept the keyboard from being heard.
NoPhantomKeys ==
  phase # "host" /\ ~padOn => sample \subseteq down \cup owed \cup orphans

\* A burst of serial reads tells one sample, in its order, from one latch to the
\* next, also when frames end and new samples arrive in the middle of it.
SerialReadsOneSample == burst = {p \in Serial(strobed) : p < index}

\* An automatic poll tells the sample of its own frame, and the two reversals of
\* bit order cancel.
AutoReadsFrame == phase = "polled" => data = sample
=============================================================================

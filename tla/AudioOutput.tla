---------------------------- MODULE AudioOutput ----------------------------
(***************************************************************************)
(* Where the sound of the Windows application goes: the PCM ring of its    *)
(* core (civilization_app_core.c) and the looping DirectSound buffer that  *)
(* is filled from it (civilization_audio_output_dsound_win32.c).           *)
(* The unit is the sound of one emulated frame.  A DirectSound call may    *)
(* fail, and an operation is the set of its outcomes.                      *)
(***************************************************************************)
EXTENDS Integers

CONSTANTS
  RingCap,  \* APP_PCM_CAPACITY_FRAMES
  DevCap,   \* buffer_size_bytes
  Guard,    \* from the play cursor to the first byte that may be written
  Target,   \* target_latency_frames
  Slack,    \* what the unlocked pacing adds to it
  Averaging \* averaging_frames

ASSUME AudioAssumption ==
  /\ RingCap \in Nat \ {0} /\ DevCap \in Nat \ {0} /\ Guard \in 0 .. DevCap - 1
  /\ Target \in Nat /\ Slack \in Nat /\ Averaging \in Nat \ {0}

VARIABLES
  ring,        \* pcm_count and what the ring holds
  device,      \* CivilizationAudioOutput
  driverFails  \* may a DirectSound call fail?  It never changes.

\* What a buffer holds: nothing but silence, sound of the machine as it is, or also
\* sound of a machine that was since reset, restored or replaced.
Sounds == {"silence", "machine", "former"}

Rings   == [count : 0 .. RingCap, sound : Sounds]
\* lead: from the play cursor to write_offset; depth: queue_depth_frames as last seen;
\* history: queue_history_count.
Devices == [open : BOOLEAN, paused : BOOLEAN, playing : BOOLEAN, priming : BOOLEAN,
            lead : 0 .. DevCap - 1, depth : 0 .. DevCap - 1, history : 0 .. Averaging,
            sound : Sounds]

EmptyRing == [count |-> 0, sound |-> "silence"]
Closed    == [open |-> FALSE, paused |-> FALSE, playing |-> FALSE, priming |-> FALSE,
              lead |-> 0, depth |-> 0, history |-> 0, sound |-> "silence"]

AudioTypeOK == ring \in Rings /\ device \in Devices /\ driverFails \in BOOLEAN

\* The outcomes of a call: the one wanted, or those of a failure.
Calls(wanted, failures) == {wanted} \cup (IF driverFails THEN failures ELSE {})

\* The machine is not the one any longer whose sound this is.
Outlived(buffer) ==
  [buffer EXCEPT !.sound = IF buffer.sound = "machine" THEN "former" ELSE buffer.sound]

-----------------------------------------------------------------------------
\* pcm_sink, once a frame: a full ring loses its oldest sound.
\* Mutant: it takes more than it holds.
SunkOverfull(r) ==
  [count |-> r.count + 1, sound |-> IF r.sound = "former" THEN "former" ELSE "machine"]
Sunk(r) ==
  [count |-> IF r.count = RingCap THEN RingCap ELSE r.count + 1,
   sound |-> IF r.sound = "former" THEN "former" ELSE "machine"]

\* civilization_recomp_audio_discard, and what reading all of the ring leaves.
\* Mutant: what the ring holds survives.
Kept(r)      == r
Discarded(r) == EmptyRing

-----------------------------------------------------------------------------
\* clear_secondary_buffer, with its result.
Cleared(d) == [d EXCEPT !.lead = 0, !.sound = "silence"]

\* civilization_audio_output_open of enabled settings.
Opened == Calls([Closed EXCEPT !.open = TRUE, !.paused = TRUE, !.priming = TRUE],
                {Closed})

\* civilization_audio_output_pause keeps what is queued.
Paused(d) ==
  IF ~d.open \/ d.paused THEN {d}
  ELSE Calls([d EXCEPT !.playing = FALSE, !.paused = TRUE], {d})

\* start_playback, with its result
Started(d) == Calls([d EXCEPT !.playing = TRUE], {d})

\* civilization_audio_output_resume: an unknown queue counts as empty.
\* Mutant: playback waits for a pump that will not start it.
ResumeWaits(d) ==
  IF ~d.open \/ ~d.paused THEN {d}
  ELSE {[d EXCEPT !.paused = FALSE, !.priming = (d.lead < Target \div 2)]}
Resumed(d) ==
  IF ~d.open \/ ~d.paused THEN {d}
  ELSE UNION {LET r == [d EXCEPT !.paused = FALSE, !.priming = (q < Target \div 2)]
              IN  IF r.priming THEN {r} ELSE Started(r) : q \in Calls(d.lead, {0})}

\* civilization_audio_output_flush: primed again even if nothing could be cleared.
Flushed(d) ==
  IF ~d.open THEN {d}
  ELSE {[c EXCEPT !.playing = FALSE, !.priming = TRUE, !.depth = 0, !.history = 0] :
          c \in Calls(Cleared(d), {d})}

-----------------------------------------------------------------------------
\* validate_write_cursor: a writer the protected cursor has overtaken is moved to
\* it, unless it is told not to or the overtaking crossed the end of the buffer.
Overtaken(lead) == lead < Guard \/ lead = DevCap - 1

Validated(d) ==
  IF Overtaken(d.lead) THEN {d, [d EXCEPT !.lead = Guard]} ELSE {d}

\* The loop of pump_audio: everything in the ring is read, and written as far as the
\* driver allows.
Put(v, r, n) ==
  [v EXCEPT !.lead = (v.lead + n) % DevCap,
            !.sound = IF n = 0 \/ r.sound = "silence" \/ v.sound = "former"
                        THEN v.sound ELSE r.sound]

Written(d, r) ==
  UNION {{Put(v, r, n) : n \in IF driverFails THEN 0 .. r.count ELSE {r.count}} :
           v \in Validated(d)}

\* The queue is measured.
Measured(d) == {[d EXCEPT !.depth = q] : q \in Calls(d.lead, {0})}

\* Playback begins with half of the latency queued.
Begun(d) ==
  IF d.priming /\ ~d.paused /\ d.depth >= Target \div 2
    THEN {IF s.playing THEN [s EXCEPT !.priming = FALSE] ELSE s : s \in Started(d)}
    ELSE {d}

\* process_end_of_frame: an average far from the target stops and primes again; a
\* buffer that cannot be cleared is not primed.
\* Mutant: it never is.
RecoveredUnprimed(d) == {[Cleared(d) EXCEPT !.playing = FALSE, !.depth = 0, !.history = 0]}
Recovered(d) ==
  Calls([Cleared(d) EXCEPT !.playing = FALSE, !.priming = TRUE, !.depth = 0, !.history = 0],
        {[d EXCEPT !.playing = FALSE]})

Ended(d) ==
  IF ~d.playing \/ d.paused \/ d.priming THEN {d}
  ELSE IF d.history + 1 < Averaging THEN {[d EXCEPT !.history = @ + 1]}
  ELSE LET full == [d EXCEPT !.history = Averaging] IN {full} \cup Recovered(full)

\* pump_audio during and at the end of a frame.
PumpedDuring(d, r) ==
  IF ~d.open THEN {d}
  ELSE UNION {Begun(m) : m \in UNION {Measured(w) : w \in Written(d, r)}}

PumpedAtEnd(d) ==
  IF ~d.open THEN {d}
  ELSE UNION {Ended(b) :
         b \in UNION {Begun(m) : m \in UNION {Measured(v) : v \in Validated(d)}}}

\* One frame's two pumps.  The ring is empty afterwards.
Pumped(d, r) == UNION {PumpedAtEnd(p) : p \in PumpedDuring(d, r)}

-----------------------------------------------------------------------------
\* The hardware plays: the buffer loops, so the cursor overtakes a late writer and
\* the queue then looks full.
DevicePlays ==
  /\ device.playing
  /\ device' = [device EXCEPT !.lead = IF @ = 0 THEN DevCap - 1 ELSE @ - 1]
=============================================================================

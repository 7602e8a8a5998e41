--------------------------- MODULE WindowsSession ---------------------------
(***************************************************************************)
(* The Windows application (civilization_app_win32.c): one thread that     *)
(* answers messages and runs a frame whenever its timer is due, a second   *)
(* one that loads the ROM and posts its result, and the dialogs, the modal *)
(* ones with a message loop in which what is posted still arrives.  An     *)
(* action is one message with all it calls, a tick of the timer, or a step *)
(* of the loader or of the sound hardware.                                 *)
(***************************************************************************)
EXTENDS AudioOutput

VARIABLES
  startup,   \* g_startup_pending
  romKnown,  \* rom_path_known()
  game,      \* g_game; a "dead" machine fails every frame
  paused,    \* g_paused
  load,      \* g_loading, the loader thread, what it posted, g_resume_after_failed_load
  window,    \* the main window; "closing" is g_close_requested
  dialog,    \* the open dialog and its resume_after
  locked,    \* ntsc_frame_lock
  audioOn,   \* g_audio_settings.enabled
  unsaved,   \* has the guest saved to SRAM what no battery file holds?
  behind,    \* did a load start the game behind an open dialog? (a history variable)
  postFails  \* may PostMessageW fail?  It never changes.

sound   == <<ring, device>>
machine == <<game, paused, behind, unsaved>>
options == <<romKnown, locked, audioOn>>
nature  == <<driverFails, postFails>>
vars    == <<sound, machine, options, nature, startup, load, window, dialog>>

Modal      == {"settings", "audio", "snapshot", "file"}
NoDialog   == [kind |-> "none", resume |-> FALSE]
NotLoading == [flag |-> FALSE, thread |-> FALSE, mail |-> "none", resume |-> FALSE]

TypeOK ==
  /\ AudioTypeOK
  /\ startup \in BOOLEAN /\ paused \in BOOLEAN /\ behind \in BOOLEAN
  /\ romKnown \in BOOLEAN /\ locked \in BOOLEAN /\ audioOn \in BOOLEAN
  /\ unsaved \in BOOLEAN /\ postFails \in BOOLEAN
  /\ game \in {"none", "alive", "dead"} /\ window \in {"open", "closing", "gone"}
  /\ load \in [flag : BOOLEAN, thread : BOOLEAN,
               mail : {"none", "null", "failed", "core"}, resume : BOOLEAN]
  /\ dialog \in [kind : Modal \cup {"none", "welcome"}, resume : BOOLEAN]

\* The first launch opens Welcome before anything else.
Init ==
  /\ startup = TRUE /\ romKnown \in BOOLEAN /\ game = "none" /\ paused = TRUE
  /\ load = NotLoading /\ window = "open" /\ unsaved = FALSE /\ behind = FALSE
  /\ dialog \in {NoDialog, [kind |-> "welcome", resume |-> FALSE]}
  /\ ring = EmptyRing /\ device = Closed
  /\ locked \in BOOLEAN /\ audioOn \in BOOLEAN
  /\ driverFails \in BOOLEAN /\ postFails \in BOOLEAN

Running == game # "none" /\ ~paused /\ window # "gone"

\* The main window takes input: a dialog disables it, and what starts up goes first.
TakesInput == window # "gone" /\ dialog = NoDialog /\ ~startup

-----------------------------------------------------------------------------
\* g_sram_path is set to nothing, and to nothing else.
SramPath == "none"

\* flush_battery_sram_win32, which may fail
SramFlushed(s) == IF SramPath = "none" THEN {s} ELSE {s, FALSE}

\* pause_game
PauseGame == paused' = TRUE /\ behind' = FALSE /\ device' \in Paused(device)

\* play_game, with the device as the handler left it
PlayGame(devices) == paused' = FALSE /\ device' \in UNION {Resumed(d) : d \in devices}

\* open_audio
AudioOpened(enabled) == IF game = "none" \/ ~enabled THEN {Closed} ELSE Opened

\* What a pause and a play leave of the device
OutputInterrupted == UNION {Resumed(d) : d \in Paused(device)}

-----------------------------------------------------------------------------
\* start_rom_load: without a thread what it closed is opened again.  That it may give
\* up for want of memory is left to its callers.
StartRomLoad ==
  /\ ~load.flag
  /\ ring' = Discarded(ring) /\ behind' = FALSE /\ unsaved' \in SramFlushed(unsaved)
  /\ LET resume == game # "none" /\ ~paused
     IN  \/ /\ load' = [NotLoading EXCEPT !.flag = TRUE, !.thread = TRUE, !.resume = resume]
            /\ paused' = TRUE /\ device' = Closed
         \/ /\ load' = [load EXCEPT !.resume = resume]
            /\ IF resume THEN PlayGame(AudioOpened(audioOn))
                         ELSE paused' = TRUE /\ device' \in AudioOpened(audioOn)

\* continue_startup_after_welcome, with Auto-Run or without
ContinueStartup ==
  /\ startup /\ dialog = NoDialog /\ startup' = FALSE
  /\ (romKnown /\ StartRomLoad) \/ UNCHANGED <<sound, paused, behind, unsaved, load>>
  /\ UNCHANGED <<options, nature, game, window, dialog>>

\* The Browse button as Run, the menu, F7.  Mutant: over a machine too.
RunOverGame ==
  /\ TakesInput /\ romKnown /\ StartRomLoad
  /\ UNCHANGED <<options, nature, game, startup, window, dialog>>
Run ==
  /\ TakesInput /\ game = "none" /\ romKnown /\ StartRomLoad
  /\ UNCHANGED <<options, nature, game, startup, window, dialog>>

\* loader_thread_proc: a result that cannot be posted is lost.
LoaderEnds ==
  /\ load.thread
  /\ \E mail \in {"null", "failed", "core"} \cup (IF postFails THEN {"none"} ELSE {}) :
       load' = [load EXCEPT !.thread = FALSE, !.mail = mail]
  /\ UNCHANGED <<sound, machine, options, nature, startup, window, dialog>>

\* WM_DESTROY
Gone ==
  /\ window' = "gone" /\ game' = "none" /\ ring' = EmptyRing /\ device' = Closed
  /\ dialog' = NoDialog /\ behind' = FALSE /\ unsaved' \in SramFlushed(unsaved)

\* WM_APP_LOAD_COMPLETE: the window that was to close does, or the machine is started,
\* or nothing came of the load.
\* Mutant: the game is started whatever happened meanwhile.
LoadedIgnoresClose ==
  /\ load.mail # "none" /\ load' = [load EXCEPT !.flag = FALSE, !.mail = "none"]
  /\ game' = "alive" /\ ring' = EmptyRing /\ paused' = FALSE /\ device' = Closed
  /\ UNCHANGED <<options, nature, startup, window, dialog, unsaved, behind>>
LoadComplete ==
  /\ load.mail # "none"
  /\ load' = [load EXCEPT !.flag = FALSE, !.mail = "none"]
  /\ \/ window = "closing" /\ Gone /\ UNCHANGED paused
     \/ /\ window = "open" /\ load.mail = "core"
        /\ game' = "alive" /\ ring' = EmptyRing /\ unsaved' \in SramFlushed(unsaved)
        /\ PlayGame(IF audioOn THEN Opened ELSE {Closed})
        /\ behind' = (dialog # NoDialog)
        /\ UNCHANGED <<window, dialog>>
     \/ /\ window = "open" /\ load.mail # "core"
        /\ IF load.resume THEN PlayGame(AudioOpened(audioOn))
                          ELSE device' \in AudioOpened(audioOn) /\ UNCHANGED paused
        /\ ring' = Discarded(ring)
        /\ UNCHANGED <<game, behind, unsaved, window, dialog>>
  /\ UNCHANGED <<options, nature, startup>>

\* WM_CLOSE
Close ==
  /\ TakesInput
  /\ \/ load.flag /\ window' = "closing" /\ UNCHANGED <<sound, machine, dialog>>
     \/ ~load.flag /\ Gone /\ UNCHANGED paused
  /\ UNCHANGED <<options, nature, startup, load>>

-----------------------------------------------------------------------------
\* toggle_pause_play, and WM_KILLFOCUS with pause_on_focus_loss
TogglePause ==
  /\ TakesInput /\ game # "none"
  /\ IF paused THEN PlayGame({device}) /\ UNCHANGED behind ELSE PauseGame
  /\ UNCHANGED <<options, nature, ring, game, unsaved, startup, load, window, dialog>>

LoseFocus ==
  /\ Running /\ PauseGame
  /\ UNCHANGED <<options, nature, ring, game, unsaved, startup, load, window, dialog>>

\* reset_game: a core that was reset and got no ROM cannot run.
Reset ==
  /\ TakesInput /\ game # "none" /\ ~load.flag
  /\ unsaved' \in SramFlushed(unsaved) /\ behind' = FALSE
  /\ \/ game' = "alive" /\ ring' = EmptyRing /\ PlayGame(AudioOpened(audioOn))
     \/ /\ game' = "dead" /\ ring' = Discarded(Outlived(Discarded(ring)))
        /\ paused' = TRUE /\ device' \in AudioOpened(audioOn)
  /\ UNCHANGED <<options, nature, startup, load, window, dialog>>

\* save_current_snapshot: the game is paused for it and played again.
QuickSave ==
  /\ TakesInput /\ Running
  /\ behind' = FALSE /\ device' \in OutputInterrupted
  /\ UNCHANGED <<options, nature, ring, game, paused, unsaved, startup, load, window,
                 dialog>>

\* capture_core_screenshot
Screenshot ==
  /\ TakesInput /\ Running /\ device.open
  /\ device' \in OutputInterrupted
  /\ UNCHANGED <<machine, options, nature, ring, startup, load, window, dialog>>

\* load_snapshot_slot: there is no such file; it is rejected; it fails when the core
\* is already overwritten; it is loaded.  It may hold a machine that had failed.
\* Mutant: sound is flushed and discarded only once the load has succeeded.
SlotLoadsThenFlushed(d) ==
  LET replaced == {Outlived(p) : p \in Paused(d)}
      loaded   == UNION {Paused(f) : f \in UNION {Flushed(r) : r \in replaced}}
  IN  [device : {d} \cup Paused(d), ring : {ring}, game : {game}, done : {FALSE}] \cup
      [device : replaced, ring : {Outlived(ring)}, game : {"alive", "dead"},
       done : {FALSE}] \cup
      [device : loaded, ring : {EmptyRing}, game : {"alive", "dead"}, done : {TRUE}]
SlotLoads(d) ==
  LET halted   == UNION {Flushed(p) : p \in Paused(d)}
      restored == {Outlived(h) : h \in halted}
      loaded   == UNION {Paused(f) : f \in UNION {Flushed(r) : r \in restored}}
  IN  [device : {d}, ring : {ring}, game : {game}, done : {FALSE}] \cup
      [device : halted, ring : {Discarded(ring)}, game : {game}, done : {FALSE}] \cup
      [device : restored, ring : {Outlived(Discarded(ring))}, game : {"alive", "dead"},
       done : {FALSE}] \cup
      [device : loaded, ring : {EmptyRing}, game : {"alive", "dead"}, done : {TRUE}]

\* load_current_snapshot
QuickLoad ==
  /\ TakesInput /\ game # "none" /\ behind' = FALSE
  /\ \E d \in IF paused THEN {device} ELSE Paused(device) : \E slot \in SlotLoads(d) :
       /\ game' = slot.game /\ ring' = slot.ring
       /\ IF paused THEN device' = slot.device /\ UNCHANGED paused
                    ELSE PlayGame({slot.device})
  /\ UNCHANGED <<options, nature, unsaved, startup, load, window, dialog>>

-----------------------------------------------------------------------------
\* F1 to F6 and the menus.  A load that runs does not keep F1, F4, F5 and F6 from
\* opening their windows.
\* Mutant: a running game is not paused for it.
OpenOver(kind) ==
  /\ TakesInput /\ (kind = "snapshot" => game # "none")
  /\ dialog' = [kind |-> kind, resume |-> Running]
  /\ UNCHANGED <<sound, machine, options, nature, startup, load, window>>
OpenDialog(kind) ==
  /\ TakesInput /\ (kind = "snapshot" => game # "none")
  /\ dialog' = [kind |-> kind, resume |-> Running]
  /\ IF Running THEN PauseGame ELSE UNCHANGED <<device, paused, behind>>
  /\ UNCHANGED <<options, nature, ring, game, unsaved, startup, load, window>>

\* browse_for_rom
Browse ==
  /\ TakesInput /\ game = "none" /\ ~load.flag
  /\ dialog' = [kind |-> "file", resume |-> FALSE]
  /\ UNCHANGED <<sound, machine, options, nature, startup, load, window>>

\* What every dialog ends with
ResumeAfter(devices) ==
  IF dialog.resume /\ game # "none" THEN PlayGame(devices)
                                    ELSE device' \in devices /\ UNCHANGED paused

CloseSettings ==
  /\ dialog.kind = "settings" /\ dialog' = NoDialog /\ ResumeAfter({device})
  /\ locked' \in BOOLEAN
  /\ UNCHANGED <<nature, ring, game, behind, unsaved, romKnown, audioOn, startup, load,
                 window>>

\* Nothing applied, or what was applied is in force from here.
CloseAudio ==
  /\ dialog.kind = "audio" /\ dialog' = NoDialog
  /\ \/ ResumeAfter({device}) /\ UNCHANGED <<ring, audioOn>>
     \/ /\ audioOn' \in BOOLEAN
        /\ ResumeAfter(IF game = "none" THEN {device} ELSE AudioOpened(audioOn'))
        /\ ring' = Discarded(ring)
  /\ UNCHANGED <<nature, game, behind, unsaved, romKnown, locked, startup, load, window>>

CloseWelcome ==
  /\ dialog.kind = "welcome" /\ dialog' = NoDialog /\ ResumeAfter({device})
  /\ UNCHANGED <<options, nature, ring, game, behind, unsaved, startup, load, window>>

\* The snapshot window closes for one who wants that, or has saved.
CloseSnapshot ==
  /\ dialog.kind = "snapshot" /\ dialog' = NoDialog /\ ResumeAfter({device})
  /\ UNCHANGED <<options, nature, ring, game, behind, unsaved, startup, load, window>>

\* It stays when a load fails; after one that succeeds the game runs.
LoadInDialog ==
  /\ dialog.kind = "snapshot"
  /\ \E slot \in SlotLoads(device) :
       /\ game' = slot.game /\ ring' = slot.ring
       /\ IF slot.done THEN dialog' = NoDialog /\ PlayGame({slot.device})
                       ELSE device' = slot.device /\ UNCHANGED <<dialog, paused>>
  /\ UNCHANGED <<options, nature, behind, unsaved, startup, load, window>>

CancelBrowse ==
  /\ dialog.kind = "file" /\ dialog' = NoDialog
  /\ UNCHANGED <<sound, machine, options, nature, startup, load, window>>

\* The ROM is chosen, with Auto-Run or without.
ChooseRom ==
  /\ dialog.kind = "file" /\ dialog' = NoDialog /\ romKnown' = TRUE
  /\ StartRomLoad \/ UNCHANGED <<sound, paused, behind, unsaved, load>>
  /\ UNCHANGED <<nature, game, locked, audioOn, startup, window>>

-----------------------------------------------------------------------------
\* With the frame rate unlocked the queue as last measured holds the next frame back.
Throttled == ~locked /\ device.open /\ device.depth > Target + Slack

\* advance_one_frame, with all of its pumps
RunFrame ==
  /\ game = "alive"
  /\ ring' = Discarded(Sunk(ring)) /\ device' \in Pumped(device, Sunk(ring))
  /\ \E s \in {unsaved, TRUE} : unsaved' \in SramFlushed(s)
  /\ UNCHANGED <<game, paused, behind>>

\* stop_game_on_core_failure: what the frame had made of sound stays in the ring.
\* Mutant: the machine is stopped, its sound is not.
StopSilently ==
  /\ game' = "dead" /\ ring' \in {ring, Sunk(ring)} /\ unsaved' \in {unsaved, TRUE}
  /\ paused' = TRUE /\ behind' = FALSE /\ UNCHANGED device
StopGame ==
  /\ game' = "dead" /\ ring' \in {ring, Sunk(ring)} /\ unsaved' \in {unsaved, TRUE}
  /\ PauseGame

\* service_host_timer, which the loop of a modal dialog does not call
Tick ==
  /\ Running /\ dialog.kind \notin Modal /\ ~Throttled
  /\ RunFrame \/ StopGame
  /\ UNCHANGED <<options, nature, startup, load, window, dialog>>

HardwarePlays ==
  /\ DevicePlays
  /\ UNCHANGED <<machine, options, nature, ring, startup, load, window, dialog>>

User ==
  \/ Run \/ Close \/ TogglePause \/ LoseFocus \/ Reset \/ QuickSave \/ Screenshot
  \/ QuickLoad \/ Browse \/ CloseSettings \/ CloseAudio \/ CloseWelcome \/ CloseSnapshot
  \/ LoadInDialog \/ CancelBrowse \/ ChooseRom
  \/ \E kind \in {"settings", "audio", "snapshot", "welcome"} : OpenDialog(kind)

Next == ContinueStartup \/ LoaderEnds \/ LoadComplete \/ Tick \/ HardwarePlays \/ User

Spec == Init /\ [][Next]_vars

\* The loader ends, the thread of the window answers what is posted and the timer when
\* it is due, and the hardware plays.  The user need do nothing.
FairSpec ==
  /\ Spec
  /\ WF_vars(LoaderEnds) /\ WF_vars(LoadComplete) /\ WF_vars(Tick)
  /\ WF_vars(HardwarePlays)

-----------------------------------------------------------------------------
\* While a core is made there is no other: no way to start a load is open to a user
\* who has a machine, and none to get one is while a load runs.
OneCore == load.flag => game = "none"

\* No sound of a machine that was since reset or restored is left to be heard when the
\* game runs: every way there, a load or a reset that fails half-way among them, empties
\* the ring before it loses the machine, and clears the buffer if the driver does.
NoStaleSound ==
  Running => /\ ring.sound # "former"
             /\ ~driverFails => device.sound # "former"

\* A window that announces the game paused has it paused, unless a load that was
\* running when it opened has started the game behind it.
DialogPauses == dialog # NoDialog /\ Running => behind

\* A game that does not run is not heard: every one of the ways that stop it stops
\* the buffer, and none that opens or restores the output starts it.
SilentWhenPaused == ~driverFails /\ ~Running => ~device.playing

\* An output that is open under a running game plays, or is about to once it is primed:
\* neither a recovery nor a resume in the middle of priming leaves it in between.
\* (Settings applied under a game a load has started behind them leave it paused.)
Audible ==
  ~driverFails /\ Running /\ device.open =>
    IF device.paused THEN behind ELSE device.playing # device.priming

\* A machine that can run finds its ring empty, with room for a frame's sound, whatever
\* machine failed before it: no sound is dropped.
NothingDropped == game = "alive" => ring.count = 0

\* A window told to close during a load does, if what the loader posts arrives.
CloseHappens == window = "closing" /\ ~postFails ~> window = "gone"

\* A game that runs at its natural speed and is left alone is heard: after a pause, a
\* recovery, a reset or new settings the buffer is primed and does play.
Waiting ==
  /\ ~driverFails /\ Running /\ locked /\ dialog.kind \notin Modal
  /\ device.open /\ ~device.paused /\ ~device.playing
SoundResumes == <>[][~User]_vars => (Waiting ~> ~Waiting)

\* What the comment on the unlocked pacing promises ("retain audio as the safety
\* throttle"): a throttle holds frames back until the queue has drained.
HeldBack == Running /\ dialog.kind \notin Modal /\ Throttled
ThrottleReleases == HeldBack ~> ~HeldBack

\* What README-FIRST.txt says of the Windows application: what the guest saved is in a
\* file once the window is gone.
BatteryPersists == window = "gone" => ~unsaved
=============================================================================

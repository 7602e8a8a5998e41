------------------------ MODULE WindowsSession_proofs ------------------------
(***************************************************************************)
(* Proofs about the Windows session for every buffer, latency and          *)
(* averaging: its types, one core at a time, no sound of a former machine, *)
(* dialogs that pause, silence when nothing runs, an output that is not    *)
(* left in between, and a ring that is empty when a machine can run.       *)
(***************************************************************************)
EXTENDS WindowsSession, AudioOutput_proofs

-----------------------------------------------------------------------------
\* Where loads, dialogs and the window stand to each other: what is posted or loading
\* is flagged, nothing that starts a load is open to one who has a machine, and nothing
\* outlives the window.
Order ==
  /\ load.thread \/ load.mail # "none" => load.flag
  /\ load.mail # "none" => ~load.thread
  /\ load.flag => game = "none"
  /\ ~load.resume
  /\ window = "gone" => ~load.flag /\ dialog = NoDialog /\ game = "none"
  /\ startup => ~load.flag /\ game = "none" /\ window = "open"
                /\ dialog.kind \in {"none", "welcome"}
  /\ dialog.kind = "file" => ~load.flag /\ game = "none"
  /\ dialog.kind = "snapshot" => game # "none"
  /\ dialog.kind = "none" => dialog = NoDialog

\* Without a machine there is no sound and no output, and the next one starts paused.
Rest ==
  /\ game = "none" => ring = EmptyRing /\ device = Closed /\ (window # "gone" => paused)
  /\ game = "alive" => ring.count = 0
  /\ ring.sound # "former"

\* With a driver that does as told, an open output is paused when the game is, and when
\* the game is not, except behind a dialog.
InStep ==
  ~driverFails /\ device.open =>
    /\ paused => device.paused
    /\ device.paused => paused \/ behind

IInv == TypeOK /\ Good(device) /\ Order /\ Rest /\ InStep /\ DialogPauses

-----------------------------------------------------------------------------
\* What the session's own helpers do to the device.

\* A pause leaves a sound buffer that is paused with the game.
LEMMA PauseStep ==
  ASSUME Good(device), PauseGame, driverFails' = driverFails
  PROVE  /\ paused' = TRUE /\ behind' = FALSE /\ Good(device)'
         /\ device'.open = device.open
         /\ ~driverFails /\ device'.open => device'.paused
<1>1. paused' = TRUE /\ behind' = FALSE /\ device' \in Paused(device)
  BY DEF PauseGame
<1>2. /\ Good(device') /\ device'.open = device.open
      /\ ~driverFails /\ device'.open => device'.paused
  BY <1>1, PausedGood
<1> QED BY <1>1, <1>2 DEF Good, Devices

\* A game that is played has an output that is not paused.
LEMMA PlayStep ==
  ASSUME NEW devices, \A d \in devices : Good(d), PlayGame(devices),
         driverFails' = driverFails
  PROVE  paused' = FALSE /\ Good(device)' /\ ~(device'.open /\ device'.paused)
<1>1. paused' = FALSE /\ device' \in UNION {Resumed(d) : d \in devices}
  BY DEF PlayGame
<1>2. PICK d \in devices : device' \in Resumed(d)
  BY <1>1
<1>3. Good(device') /\ ~(device'.open /\ device'.paused)
  BY <1>2, ResumedGood
<1> QED BY <1>1, <1>3 DEF Good, Devices

\* A buffer that was sound for one state of the world is sound for the next.
LEMMA GoodNext ==
  ASSUME Good(device'), driverFails' = driverFails
  PROVE  Good(device)'
BY DEF Good, Devices

\* Flushing to a battery file leaves a flag.
LEMMA FlushedFlag ==
  ASSUME NEW s \in BOOLEAN, NEW t \in SramFlushed(s)
  PROVE  t \in BOOLEAN
BY Zenon DEF SramFlushed

\* Outputs opened or not, all of them paused if open.
LEMMA AudioOpenedGood ==
  ASSUME NEW enabled, NEW x \in AudioOpened(enabled)
  PROVE  /\ Good(x) /\ (x.open => x.paused)
         /\ game = "none" => x = Closed
<1>1. CASE x = Closed
  BY <1>1, ClosedGood DEF Closed
<1>2. CASE game # "none" /\ x \in Opened
  BY <1>2, OpenedGood
<1> QED BY <1>1, <1>2 DEF AudioOpened

\* Every outcome of a load from a slot leaves a sound buffer, an empty ring for a machine
\* that can run, and paused what was.
LEMMA SlotGood ==
  ASSUME IInv, NEW d, Good(d), game # "none", NEW slot \in SlotLoads(d)
  PROVE  /\ Good(slot.device) /\ slot.device.open = d.open
         /\ d.paused => slot.device.paused
         /\ slot.game \in {"alive", "dead"} /\ slot.ring \in Rings
         /\ slot.ring.sound # "former"
         /\ slot.game = "alive" => slot.ring.count = 0
<1> DEFINE halted   == UNION {Flushed(p) : p \in Paused(d)}
           restored == {Outlived(h) : h \in halted}
           loaded   == UNION {Paused(f) : f \in UNION {Flushed(r) : r \in restored}}
           Kept1(x) == /\ Good(x) /\ x.open = d.open /\ (d.paused => x.paused)
                       /\ ~driverFails /\ x.open => x.paused
           Still(x) == Kept1(x) /\ (~driverFails => x.sound = "silence")
<1>1. ASSUME NEW h \in halted PROVE Still(h)
  <2>1. PICK p \in Paused(d) : h \in Flushed(p)
    OBVIOUS
  <2>2. Kept1(p)
    BY <2>1, PausedGood
  <2>3. Good(h) /\ Alike(h, p) /\ (~driverFails => h.sound = "silence")
    BY <2>1, <2>2, FlushedGood
  <2> QED BY <2>2, <2>3 DEF Alike
<1>2. ASSUME NEW r \in restored PROVE Still(r)
  <2>1. PICK h \in halted : r = Outlived(h)
    OBVIOUS
  <2>2. Still(h)
    BY <2>1, <1>1
  <2>3. Good(r) /\ Alike(r, h) /\ (~driverFails => r.sound = "silence")
    BY <2>1, <2>2, OutlivedGood
  <2> QED BY <2>2, <2>3 DEF Alike
<1>3. ASSUME NEW l \in loaded PROVE Kept1(l)
  <2>1. PICK f \in UNION {Flushed(r) : r \in restored} : l \in Paused(f)
    OBVIOUS
  <2>2. PICK r \in restored : f \in Flushed(r)
    BY <2>1
  <2>3. Still(r)
    BY <2>2, <1>2
  <2>4. Good(f) /\ Alike(f, r)
    BY <2>2, <2>3, FlushedGood
  <2>5. /\ Good(l) /\ l.open = f.open /\ (f.paused => l.paused)
        /\ ~driverFails /\ l.open => l.paused
    BY <2>1, <2>4, PausedGood
  <2> QED BY <2>3, <2>4, <2>5 DEF Alike
<1>4. slot \in [device : {d}, ring : {ring}, game : {game}, done : {FALSE}] \cup
               [device : halted, ring : {Discarded(ring)}, game : {game}, done : {FALSE}] \cup
               [device : restored, ring : {Outlived(Discarded(ring))},
                game : {"alive", "dead"}, done : {FALSE}] \cup
               [device : loaded, ring : {EmptyRing}, game : {"alive", "dead"}, done : {TRUE}]
  BY DEF SlotLoads
<1> HIDE DEF halted, restored, loaded, Kept1
<1>5. game \in {"alive", "dead"} /\ ring \in Rings /\ ring.sound # "former"
      /\ (game = "alive" => ring.count = 0)
  BY DEF IInv, TypeOK, AudioTypeOK, Rest
<1>6. /\ EmptyRing \in Rings /\ EmptyRing.count = 0 /\ EmptyRing.sound # "former"
      /\ Discarded(ring) = EmptyRing /\ Outlived(Discarded(ring)) = EmptyRing
  BY EmptyType, OutlivedEmpty DEF EmptyRing, Discarded
<1>7. CASE slot \in [device : {d}, ring : {ring}, game : {game}, done : {FALSE}]
  BY <1>5, <1>7
<1>8. CASE slot \in [device : halted, ring : {Discarded(ring)}, game : {game}, done : {FALSE}]
  BY <1>1, <1>5, <1>6, <1>8 DEF Kept1
<1>9. CASE slot \in [device : restored, ring : {Outlived(Discarded(ring))},
                     game : {"alive", "dead"}, done : {FALSE}]
  BY <1>2, <1>6, <1>9 DEF Kept1
<1>10. CASE slot \in [device : loaded, ring : {EmptyRing}, game : {"alive", "dead"},
                      done : {TRUE}]
  BY <1>3, <1>6, <1>10 DEF Kept1
<1> QED BY <1>4, <1>7, <1>8, <1>9, <1>10

\* A load that is asked for without a machine leaves silence, loading or not.
LEMMA LoadStarts ==
  ASSUME IInv, StartRomLoad, game = "none"
  PROVE  /\ paused' = TRUE /\ behind' = FALSE /\ unsaved' \in BOOLEAN
         /\ ring' = EmptyRing /\ device' = Closed
         /\ ~load'.resume /\ (load'.thread \/ load'.mail # "none" => load'.flag)
         /\ load'.mail # "none" => ~load'.thread
         /\ load' \in [flag : BOOLEAN, thread : BOOLEAN,
                       mail : {"none", "null", "failed", "core"}, resume : BOOLEAN]
<1>1. unsaved' \in BOOLEAN
  BY FlushedFlag DEF StartRomLoad, IInv, TypeOK
<1>2. ring' = EmptyRing /\ behind' = FALSE
  BY DEF StartRomLoad, Discarded
<1>3. /\ load \in [flag : BOOLEAN, thread : BOOLEAN,
                   mail : {"none", "null", "failed", "core"}, resume : BOOLEAN]
      /\ ~load.resume /\ (load.thread \/ load.mail # "none" => load.flag)
      /\ load.mail # "none" => ~load.thread
  BY DEF IInv, TypeOK, Order
<1>4. CASE /\ load' = [NotLoading EXCEPT !.flag = TRUE, !.thread = TRUE,
                                         !.resume = (game # "none" /\ ~paused)]
           /\ paused' = TRUE /\ device' = Closed
  BY <1>1, <1>2, <1>4 DEF NotLoading
<1>5. CASE /\ load' = [load EXCEPT !.resume = (game # "none" /\ ~paused)]
           /\ paused' = TRUE /\ device' \in AudioOpened(audioOn)
  <2>1. device' = Closed
    BY <1>5, AudioOpenedGood
  <2>2. load' = [load EXCEPT !.resume = FALSE]
    BY <1>5
  <2>3. /\ load' \in [flag : BOOLEAN, thread : BOOLEAN,
                      mail : {"none", "null", "failed", "core"}, resume : BOOLEAN]
        /\ load'.flag = load.flag /\ load'.thread = load.thread /\ load'.mail = load.mail
        /\ ~load'.resume
    BY <1>3, <2>2
  <2>4. paused' = TRUE
    BY <1>5
  <2> QED BY <1>1, <1>2, <1>3, <2>1, <2>3, <2>4
<1> QED BY <1>4, <1>5 DEF StartRomLoad

\* What the end of the window leaves.
LEMMA GoneStep ==
  ASSUME IInv, Gone
  PROVE  /\ window' = "gone" /\ game' = "none" /\ ring' = EmptyRing /\ device' = Closed
         /\ dialog' = NoDialog /\ behind' = FALSE /\ unsaved' \in BOOLEAN
BY FlushedFlag DEF Gone, IInv, TypeOK

\* The invariant is about these variables only.
LEMMA Assembled ==
  ASSUME Good(device'), driverFails' \in BOOLEAN, driverFails' = driverFails,
         ring' \in Rings, ring'.sound # "former",
         startup' \in BOOLEAN, paused' \in BOOLEAN, behind' \in BOOLEAN,
         romKnown' \in BOOLEAN, locked' \in BOOLEAN, audioOn' \in BOOLEAN,
         unsaved' \in BOOLEAN, postFails' \in BOOLEAN,
         game' \in {"none", "alive", "dead"}, window' \in {"open", "closing", "gone"},
         load' \in [flag : BOOLEAN, thread : BOOLEAN,
                    mail : {"none", "null", "failed", "core"}, resume : BOOLEAN],
         dialog' \in [kind : Modal \cup {"none", "welcome"}, resume : BOOLEAN],
         Order', InStep', DialogPauses',
         game' = "none" => ring' = EmptyRing /\ device' = Closed
                           /\ (window' # "gone" => paused'),
         game' = "alive" => ring'.count = 0
  PROVE  IInv'
<1>1. device' \in Devices /\ Good(device)'
  BY GoodNext DEF Good
<1>2. Rest'
  BY DEF Rest
<1>3. AudioTypeOK'
  BY <1>1 DEF AudioTypeOK, Devices, Rings
<1>4. TypeOK'
  BY <1>3 DEF TypeOK, Modal
<1> QED BY <1>1, <1>2, <1>4 DEF IInv

-----------------------------------------------------------------------------
\* The steps, each against the whole invariant.

\* Nothing that counts changes when nothing changes.
LEMMA StutterStep == IInv /\ UNCHANGED vars => IInv'
<1> SUFFICES ASSUME IInv, UNCHANGED vars PROVE IInv'
  OBVIOUS
<1> USE DEF vars, sound, machine, options, nature, IInv, TypeOK, AudioTypeOK
<1>1. Good(device') /\ driverFails' = driverFails /\ ring' = ring
  BY DEF Rest
<1>2. Order' /\ InStep' /\ DialogPauses'
  BY DEF Order, InStep, DialogPauses, Running
<1> QED BY <1>1, <1>2, Assembled DEF Rest

\* The ways to start a load: at the start, from Browse as Run, and with a ROM chosen.
LEMMA LoadSteps == IInv /\ (ContinueStartup \/ Run \/ ChooseRom) => IInv'
<1> SUFFICES ASSUME IInv, ContinueStartup \/ Run \/ ChooseRom PROVE IInv'
  OBVIOUS
<1>1. /\ UNCHANGED <<nature, game, locked, audioOn, window>>
      /\ romKnown' \in BOOLEAN /\ startup' = FALSE
  BY DEF ContinueStartup, Run, ChooseRom, TakesInput, options, nature, IInv, TypeOK, Order
<1>2. game = "none" /\ window # "gone" /\ dialog' = NoDialog
  BY DEF ContinueStartup, Run, ChooseRom, TakesInput, IInv, Order, NoDialog
<1>3. Good(Closed) /\ EmptyRing \in Rings
  BY ClosedGood, EmptyType
<1>4. /\ Good(device) /\ ring \in Rings /\ ring = EmptyRing /\ device = Closed /\ paused
      /\ driverFails \in BOOLEAN /\ postFails \in BOOLEAN /\ behind \in BOOLEAN
      /\ unsaved \in BOOLEAN /\ romKnown \in BOOLEAN /\ locked \in BOOLEAN
      /\ audioOn \in BOOLEAN /\ game \in {"none", "alive", "dead"}
      /\ window \in {"open", "closing", "gone"}
      /\ load \in [flag : BOOLEAN, thread : BOOLEAN,
                   mail : {"none", "null", "failed", "core"}, resume : BOOLEAN]
      /\ ~load.resume /\ (load.thread \/ load.mail # "none" => load.flag)
      /\ load.mail # "none" => ~load.thread
  BY <1>2 DEF IInv, TypeOK, AudioTypeOK, Rest, Order
<1>5. /\ paused' = TRUE /\ behind' \in BOOLEAN /\ unsaved' \in BOOLEAN
      /\ ring' = EmptyRing /\ device' = Closed
      /\ ~load'.resume /\ (load'.thread \/ load'.mail # "none" => load'.flag)
      /\ load'.mail # "none" => ~load'.thread
      /\ load' \in [flag : BOOLEAN, thread : BOOLEAN,
                    mail : {"none", "null", "failed", "core"}, resume : BOOLEAN]
  <2>1. CASE StartRomLoad
    BY <1>2, <2>1, LoadStarts
  <2>2. CASE ~StartRomLoad
    BY <1>4, <2>2 DEF ContinueStartup, Run, ChooseRom, sound
  <2> QED BY <2>1, <2>2
<1>6. EmptyRing.sound # "former" /\ EmptyRing.count = 0 /\ Closed.open = FALSE
      /\ NoDialog.kind = "none"
      /\ NoDialog \in [kind : Modal \cup {"none", "welcome"}, resume : BOOLEAN]
  BY DEF EmptyRing, Closed, NoDialog, Modal
<1>7. Order'
  BY <1>1, <1>2, <1>5, <1>6 DEF Order
<1>8. InStep' /\ DialogPauses'
  BY <1>2, <1>5, <1>6 DEF InStep, DialogPauses, Running
<1> QED
  BY <1>1, <1>2, <1>3, <1>4, <1>5, <1>6, <1>7, <1>8, Assembled DEF nature

\* The loader ends, with or without a result that arrives.
LEMMA LoaderStep == IInv /\ LoaderEnds => IInv'
<1> SUFFICES ASSUME IInv, LoaderEnds PROVE IInv'
  OBVIOUS
<1> USE DEF sound, machine, options, nature, IInv, TypeOK, AudioTypeOK
<1>1. PICK mail \in {"null", "failed", "core", "none"} :
        load' = [load EXCEPT !.thread = FALSE, !.mail = mail]
  BY DEF LoaderEnds
<1>2. UNCHANGED <<sound, machine, options, nature, startup, window, dialog>>
  BY DEF LoaderEnds
<1>3. load.thread /\ load.flag /\ load'.flag /\ ~load'.resume /\ ~startup
  BY <1>1 DEF LoaderEnds, Order
<1>4. Order' /\ InStep' /\ DialogPauses'
  BY <1>1, <1>2, <1>3 DEF Order, InStep, DialogPauses, Running
<1>5. load' \in [flag : BOOLEAN, thread : BOOLEAN,
                 mail : {"none", "null", "failed", "core"}, resume : BOOLEAN]
  BY <1>1
<1> QED BY <1>2, <1>4, <1>5, Assembled DEF Rest

\* The result of a load arrives: the window closes, a machine starts, or nothing came of it.
LEMMA LoadCompleteStep == IInv /\ LoadComplete => IInv'
<1> SUFFICES ASSUME IInv, LoadComplete PROVE IInv'
  OBVIOUS
<1> DEFINE LoadType == [flag : BOOLEAN, thread : BOOLEAN,
                        mail : {"none", "null", "failed", "core"}, resume : BOOLEAN]
<1>1. /\ load.flag /\ game = "none" /\ ~load.resume /\ ~startup
      /\ load' = [load EXCEPT !.flag = FALSE, !.mail = "none"] /\ load \in LoadType
      /\ UNCHANGED <<options, nature, startup>>
  BY DEF LoadComplete, IInv, TypeOK, Order
<1>2. load' \in LoadType /\ ~load'.flag /\ load'.mail = "none" /\ ~load'.resume
      /\ load'.thread = load.thread
  BY <1>1
<1>3. /\ romKnown' \in BOOLEAN /\ locked' \in BOOLEAN /\ audioOn' \in BOOLEAN
      /\ startup' = FALSE /\ driverFails' = driverFails /\ driverFails' \in BOOLEAN
      /\ postFails' \in BOOLEAN
      /\ unsaved \in BOOLEAN /\ paused \in BOOLEAN /\ behind \in BOOLEAN
      /\ dialog \in [kind : Modal \cup {"none", "welcome"}, resume : BOOLEAN]
      /\ dialog.kind # "snapshot" /\ dialog.kind # "file"
      /\ (dialog.kind = "none" => dialog = NoDialog)
      /\ device = Closed /\ ring = EmptyRing /\ (window # "gone" => paused)
  BY <1>1 DEF options, nature, IInv, TypeOK, AudioTypeOK, Order, Rest
<1>4. EmptyRing \in Rings /\ EmptyRing.sound # "former" /\ EmptyRing.count = 0
      /\ Good(Closed) /\ Closed.open = FALSE /\ NoDialog.kind = "none"
      /\ NoDialog \in [kind : Modal \cup {"none", "welcome"}, resume : BOOLEAN]
  BY EmptyType, ClosedGood DEF EmptyRing, Closed, NoDialog, Modal
<1>5. ~load.thread
  BY DEF LoadComplete, IInv, Order
<1>6. CASE window = "closing" /\ Gone /\ UNCHANGED paused
  <2>1. /\ window' = "gone" /\ game' = "none" /\ ring' = EmptyRing /\ device' = Closed
        /\ dialog' = NoDialog /\ behind' = FALSE /\ unsaved' \in BOOLEAN /\ paused' = paused
    BY <1>6, GoneStep
  <2>2. Order' /\ InStep' /\ DialogPauses'
    BY <1>2, <1>3, <1>4, <1>5, <2>1 DEF Order, InStep, DialogPauses, Running
  <2> QED BY <1>2, <1>3, <1>4, <2>1, <2>2, Assembled
<1>7. CASE /\ window = "open" /\ load.mail = "core"
           /\ game' = "alive" /\ ring' = EmptyRing /\ unsaved' \in SramFlushed(unsaved)
           /\ PlayGame(IF audioOn THEN Opened ELSE {Closed})
           /\ behind' = (dialog # NoDialog)
           /\ UNCHANGED <<window, dialog>>
  <2>1. \A d \in (IF audioOn THEN Opened ELSE {Closed}) : Good(d)
    BY <1>4, OpenedGood
  <2>2. paused' = FALSE /\ Good(device)' /\ ~(device'.open /\ device'.paused)
    BY <1>3, <1>7, <2>1, PlayStep
  <2>3. Good(device')
    BY <1>3, <2>2 DEF Good, Devices
  <2>4. unsaved' \in BOOLEAN /\ behind' \in BOOLEAN
    BY <1>3, <1>7, FlushedFlag
  <2>5. Order' /\ InStep' /\ DialogPauses'
    BY <1>2, <1>3, <1>4, <1>5, <1>7, <2>2 DEF Order, InStep, DialogPauses, Running
  <2> QED BY <1>2, <1>3, <1>4, <1>7, <2>2, <2>3, <2>4, <2>5, Assembled
<1>8. CASE /\ window = "open" /\ load.mail # "core"
           /\ device' \in AudioOpened(audioOn) /\ UNCHANGED paused
           /\ ring' = Discarded(ring)
           /\ UNCHANGED <<game, behind, unsaved, window, dialog>>
  <2>1. device' = Closed /\ ring' = EmptyRing
    BY <1>1, <1>8, AudioOpenedGood DEF Discarded
  <2>2. Order' /\ InStep' /\ DialogPauses'
    BY <1>1, <1>2, <1>3, <1>4, <1>5, <1>8, <2>1 DEF Order, InStep, DialogPauses, Running
  <2> QED BY <1>1, <1>2, <1>3, <1>4, <1>8, <2>1, <2>2, Assembled
<1> QED BY <1>1, <1>6, <1>7, <1>8 DEF LoadComplete

-----------------------------------------------------------------------------
\* The steps that leave loads, start and window alone, and make no first machine.

\* What there is to check of such a step.
LEMMA UserAssembled ==
  ASSUME IInv, UNCHANGED <<nature, startup, load, window>>,
         Good(device'), ring' \in Rings, ring'.sound # "former",
         paused' \in BOOLEAN, behind' \in BOOLEAN, unsaved' \in BOOLEAN,
         romKnown' \in BOOLEAN, locked' \in BOOLEAN, audioOn' \in BOOLEAN,
         game' \in {"none", "alive", "dead"}, game' = "none" <=> game = "none",
         game' = "alive" => ring'.count = 0,
         game = "none" => ring' = EmptyRing /\ device' = Closed /\ paused' = paused,
         dialog' \in [kind : Modal \cup {"none", "welcome"}, resume : BOOLEAN],
         dialog'.kind = "none" => dialog' = NoDialog,
         dialog'.kind = "file" => ~load.flag /\ game = "none",
         dialog'.kind = "snapshot" => game # "none",
         window = "gone" => dialog' = NoDialog,
         startup => dialog'.kind \in {"none", "welcome"},
         InStep', DialogPauses'
  PROVE  IInv'
<1>1. /\ driverFails' = driverFails /\ driverFails' \in BOOLEAN /\ postFails' \in BOOLEAN
      /\ startup' = startup /\ load' = load /\ window' = window
      /\ startup' \in BOOLEAN /\ window' \in {"open", "closing", "gone"}
      /\ load' \in [flag : BOOLEAN, thread : BOOLEAN,
                    mail : {"none", "null", "failed", "core"}, resume : BOOLEAN]
  BY DEF nature, IInv, TypeOK, AudioTypeOK
<1>2. Order'
  BY <1>1 DEF IInv, Order
<1>3. game' = "none" => ring' = EmptyRing /\ device' = Closed /\ (window' # "gone" => paused')
  BY <1>1 DEF IInv, Rest
<1> QED BY <1>1, <1>2, <1>3, Assembled

\* What such a step starts from.
LEMMA Facts ==
  ASSUME IInv
  PROVE  /\ Good(device) /\ ring \in Rings /\ ring.sound # "former"
         /\ paused \in BOOLEAN /\ behind \in BOOLEAN /\ unsaved \in BOOLEAN
         /\ romKnown \in BOOLEAN /\ locked \in BOOLEAN /\ audioOn \in BOOLEAN
         /\ driverFails \in BOOLEAN
         /\ game \in {"none", "alive", "dead"}
         /\ game = "alive" => ring.count = 0
         /\ game = "none" => ring = EmptyRing /\ device = Closed
         /\ dialog \in [kind : Modal \cup {"none", "welcome"}, resume : BOOLEAN]
         /\ dialog.kind = "none" => dialog = NoDialog
         /\ dialog.kind = "file" => ~load.flag /\ game = "none"
         /\ dialog.kind = "snapshot" => game # "none"
         /\ window = "gone" => dialog = NoDialog /\ game = "none"
         /\ startup => dialog.kind \in {"none", "welcome"} /\ game = "none"
         /\ NoDialog.kind = "none"
         /\ NoDialog \in [kind : Modal \cup {"none", "welcome"}, resume : BOOLEAN]
         /\ EmptyRing \in Rings /\ EmptyRing.count = 0 /\ EmptyRing.sound # "former"
         /\ Closed.open = FALSE
         /\ load.flag => game = "none"
BY EmptyType DEF IInv, TypeOK, AudioTypeOK, Order, Rest, NoDialog, Modal, EmptyRing, Closed

\* The key and the loss of focus.
LEMMA PauseSteps == IInv /\ (TogglePause \/ LoseFocus) => IInv'
<1> SUFFICES ASSUME IInv, TogglePause \/ LoseFocus PROVE IInv'
  OBVIOUS
<1> USE Facts
<1>1. /\ UNCHANGED <<options, nature, ring, game, unsaved, startup, load, window, dialog>>
      /\ driverFails' = driverFails /\ game # "none"
      /\ romKnown' = romKnown /\ locked' = locked /\ audioOn' = audioOn
  BY DEF TogglePause, LoseFocus, Running, options, nature
<1>2. CASE paused /\ PlayGame({device}) /\ UNCHANGED behind /\ dialog = NoDialog
  <2>1. paused' = FALSE /\ Good(device)' /\ ~(device'.open /\ device'.paused)
    BY <1>1, <1>2, PlayStep
  <2>2. Good(device')
    BY <1>1, <2>1 DEF Good, Devices
  <2>3. InStep' /\ DialogPauses'
    BY <1>1, <1>2, <2>1 DEF InStep, DialogPauses
  <2> QED BY <1>1, <1>2, <2>1, <2>2, <2>3, UserAssembled
<1>3. CASE PauseGame
  <2>1. /\ paused' = TRUE /\ behind' = FALSE /\ Good(device)'
        /\ ~driverFails /\ device'.open => device'.paused
    BY <1>1, <1>3, PauseStep
  <2>2. Good(device')
    BY <1>1, <2>1 DEF Good, Devices
  <2>3. InStep' /\ DialogPauses'
    BY <1>1, <2>1 DEF InStep, DialogPauses, Running
  <2> QED BY <1>1, <2>1, <2>2, <2>3, UserAssembled
<1> QED BY <1>2, <1>3 DEF TogglePause, LoseFocus, TakesInput

\* A dialog is opened, over a game that is then paused.
LEMMA OpenSteps ==
  IInv /\ (Browse \/ \E kind \in {"settings", "audio", "snapshot", "welcome"} : OpenDialog(kind))
    => IInv'
<1> SUFFICES ASSUME IInv,
                    Browse \/ \E kind \in {"settings", "audio", "snapshot", "welcome"} :
                                OpenDialog(kind)
             PROVE  IInv'
  OBVIOUS
<1> USE Facts
<1>1. /\ TakesInput /\ window # "gone" /\ ~startup
      /\ UNCHANGED <<options, nature, ring, game, unsaved, startup, load, window>>
      /\ driverFails' = driverFails
      /\ romKnown' = romKnown /\ locked' = locked /\ audioOn' = audioOn
  BY DEF Browse, OpenDialog, TakesInput, options, nature, sound, machine
<1>2. PICK kind \in {"settings", "audio", "snapshot", "welcome", "file"},
           resume \in BOOLEAN :
        /\ dialog' = [kind |-> kind, resume |-> resume]
        /\ (kind = "snapshot" => game # "none")
        /\ (kind = "file" => game = "none" /\ ~load.flag)
  <2>1. CASE Browse
    BY <2>1 DEF Browse
  <2>2. CASE \E kind \in {"settings", "audio", "snapshot", "welcome"} : OpenDialog(kind)
    <3>1. PICK kind \in {"settings", "audio", "snapshot", "welcome"} : OpenDialog(kind)
      BY <2>2
    <3>2. Running \in BOOLEAN
      BY DEF Running
    <3> QED BY <3>1, <3>2, Zenon DEF OpenDialog
  <2> QED BY <2>1, <2>2
<1>3. /\ dialog' \in [kind : Modal \cup {"none", "welcome"}, resume : BOOLEAN]
      /\ dialog'.kind = kind
  BY <1>2 DEF Modal
<1>4. CASE Running /\ PauseGame
  <2>1. /\ paused' = TRUE /\ behind' = FALSE /\ Good(device)'
        /\ ~driverFails /\ device'.open => device'.paused
    BY <1>1, <1>4, PauseStep
  <2>2. Good(device')
    BY <1>1, <2>1 DEF Good, Devices
  <2>3. InStep' /\ DialogPauses'
    BY <1>1, <2>1 DEF InStep, DialogPauses, Running
  <2> QED BY <1>1, <1>2, <1>3, <1>4, <2>1, <2>2, <2>3, UserAssembled DEF Running
<1>5. CASE ~Running /\ UNCHANGED <<device, paused, behind>>
  <2>1. InStep' /\ DialogPauses'
    BY <1>1, <1>5 DEF InStep, DialogPauses, Running, IInv
  <2> QED BY <1>1, <1>2, <1>3, <1>5, <2>1, UserAssembled
<1> QED BY <1>4, <1>5 DEF Browse, OpenDialog, Running, sound, machine

\* The game is paused for a moment, the sound plays, or the file dialog is closed.
LEMMA BriefSteps == IInv /\ (QuickSave \/ Screenshot \/ HardwarePlays \/ CancelBrowse) => IInv'
<1> SUFFICES ASSUME IInv, QuickSave \/ Screenshot \/ HardwarePlays \/ CancelBrowse PROVE IInv'
  OBVIOUS
<1> USE Facts
<1>1. /\ UNCHANGED <<options, nature, ring, game, paused, unsaved, startup, load, window>>
      /\ driverFails' = driverFails /\ dialog' \in {dialog, NoDialog}
      /\ romKnown' = romKnown /\ locked' = locked /\ audioOn' = audioOn
  BY DEF QuickSave, Screenshot, HardwarePlays, CancelBrowse, options, nature, sound, machine
<1>2. CASE QuickSave \/ Screenshot
  <2>1. device' \in OutputInterrupted /\ dialog' = NoDialog /\ dialog = NoDialog
        /\ Running /\ behind' \in {behind, FALSE}
    BY <1>2 DEF QuickSave, Screenshot, TakesInput, machine
  <2>2. PICK d \in Paused(device) : device' \in Resumed(d)
    BY <2>1 DEF OutputInterrupted
  <2>3. Good(d)
    BY <2>2, PausedGood
  <2>4. Good(device') /\ ~(device'.open /\ device'.paused)
    BY <2>2, <2>3, ResumedGood
  <2>5. ~paused /\ game # "none"
    BY <2>1 DEF Running
  <2>6. InStep' /\ DialogPauses'
    BY <1>1, <2>1, <2>4, <2>5 DEF InStep, DialogPauses
  <2> QED BY <1>1, <2>1, <2>4, <2>5, <2>6, UserAssembled
<1>3. CASE HardwarePlays
  <2>1. DevicePlays /\ dialog' = dialog /\ behind' = behind
    BY <1>3 DEF HardwarePlays, machine
  <2>2. Good(device)' /\ Alike(device', device)
    BY <1>1, <2>1, PlaysGood
  <2>3. Good(device')
    BY <1>1, <2>2 DEF Good, Devices
  <2>4. game # "none"
    BY <2>1 DEF DevicePlays, Closed
  <2>5. InStep' /\ DialogPauses'
    BY <1>1, <2>1, <2>2 DEF InStep, DialogPauses, Running, Alike, IInv
  <2> QED BY <1>1, <2>1, <2>3, <2>4, <2>5, UserAssembled
<1>4. CASE CancelBrowse
  <2>1. device' = device /\ dialog' = NoDialog /\ behind' = behind
    BY <1>4 DEF CancelBrowse, sound, machine
  <2>2. InStep' /\ DialogPauses'
    BY <1>1, <2>1 DEF InStep, DialogPauses, IInv
  <2> QED BY <1>1, <2>1, <2>2, UserAssembled
<1> QED BY <1>2, <1>3, <1>4

\* A reset opens the output anew, over an empty ring.
LEMMA ResetStep == IInv /\ Reset => IInv'
<1> SUFFICES ASSUME IInv, Reset PROVE IInv'
  OBVIOUS
<1> USE Facts
<1>1. /\ UNCHANGED <<options, nature, startup, load, window, dialog>>
      /\ driverFails' = driverFails /\ game # "none" /\ dialog = NoDialog
      /\ romKnown' = romKnown /\ locked' = locked /\ audioOn' = audioOn
      /\ ring' = EmptyRing /\ behind' = FALSE /\ unsaved' \in SramFlushed(unsaved)
  BY OutlivedEmpty DEF Reset, TakesInput, options, nature, Discarded
<1>2. unsaved' \in BOOLEAN
  BY <1>1, FlushedFlag
<1>3. CASE game' = "alive" /\ PlayGame(AudioOpened(audioOn))
  <2>1. paused' = FALSE /\ Good(device)' /\ ~(device'.open /\ device'.paused)
    BY <1>1, <1>3, AudioOpenedGood, PlayStep
  <2>2. Good(device')
    BY <1>1, <2>1 DEF Good, Devices
  <2>3. InStep' /\ DialogPauses'
    BY <1>1, <2>1 DEF InStep, DialogPauses
  <2> QED BY <1>1, <1>2, <1>3, <2>1, <2>2, <2>3, UserAssembled
<1>4. CASE game' = "dead" /\ paused' = TRUE /\ device' \in AudioOpened(audioOn)
  <2>1. Good(device') /\ (device'.open => device'.paused)
    BY <1>4, AudioOpenedGood
  <2>2. InStep' /\ DialogPauses'
    BY <1>1, <1>4, <2>1 DEF InStep, DialogPauses
  <2> QED BY <1>1, <1>2, <1>4, <2>1, <2>2, UserAssembled
<1> QED BY <1>3, <1>4 DEF Reset

\* A slot is loaded by key: the game pauses for it if it runs.
LEMMA QuickLoadStep == IInv /\ QuickLoad => IInv'
<1> SUFFICES ASSUME IInv, QuickLoad PROVE IInv'
  OBVIOUS
<1> USE Facts
<1>1. /\ UNCHANGED <<options, nature, unsaved, startup, load, window, dialog>>
      /\ driverFails' = driverFails /\ game # "none" /\ dialog = NoDialog /\ behind' = FALSE
      /\ romKnown' = romKnown /\ locked' = locked /\ audioOn' = audioOn
  BY DEF QuickLoad, TakesInput, options, nature
<1>2. PICK d \in (IF paused THEN {device} ELSE Paused(device)) : \E slot \in SlotLoads(d) :
        /\ game' = slot.game /\ ring' = slot.ring
        /\ IF paused THEN device' = slot.device /\ UNCHANGED paused
                     ELSE PlayGame({slot.device})
  BY DEF QuickLoad
<1>3. PICK slot \in SlotLoads(d) :
        /\ game' = slot.game /\ ring' = slot.ring
        /\ IF paused THEN device' = slot.device /\ UNCHANGED paused
                     ELSE PlayGame({slot.device})
  BY <1>2
<1>4. Good(d)
  BY <1>2, PausedGood
<1>5. /\ Good(slot.device) /\ slot.device.open = d.open
      /\ d.paused => slot.device.paused
      /\ slot.game \in {"alive", "dead"} /\ slot.ring \in Rings
      /\ slot.ring.sound # "former"
      /\ slot.game = "alive" => slot.ring.count = 0
  BY <1>1, <1>3, <1>4, SlotGood
<1>6. CASE paused
  <2>1. d = device /\ device' = slot.device /\ paused' = paused
    BY <1>2, <1>3, <1>6
  <2>2. InStep' /\ DialogPauses'
    BY <1>1, <1>5, <1>6, <2>1 DEF InStep, DialogPauses, IInv
  <2> QED BY <1>1, <1>3, <1>5, <2>1, <2>2, UserAssembled
<1>7. CASE ~paused
  <2>1. PlayGame({slot.device})
    BY <1>3, <1>7
  <2>2. paused' = FALSE /\ Good(device)' /\ ~(device'.open /\ device'.paused)
    BY <1>1, <1>5, <2>1, PlayStep
  <2>3. Good(device')
    BY <1>1, <2>2 DEF Good, Devices
  <2>4. InStep' /\ DialogPauses'
    BY <1>1, <2>2 DEF InStep, DialogPauses
  <2> QED BY <1>1, <1>3, <1>5, <2>2, <2>3, <2>4, UserAssembled
<1> QED BY <1>6, <1>7

\* A slot is loaded from the snapshot window, which stays unless that succeeds.
LEMMA LoadInDialogStep == IInv /\ LoadInDialog => IInv'
<1> SUFFICES ASSUME IInv, LoadInDialog PROVE IInv'
  OBVIOUS
<1> USE Facts
<1>1. /\ UNCHANGED <<options, nature, behind, unsaved, startup, load, window>>
      /\ driverFails' = driverFails /\ game # "none" /\ dialog.kind = "snapshot"
      /\ romKnown' = romKnown /\ locked' = locked /\ audioOn' = audioOn
      /\ dialog # NoDialog /\ window # "gone" /\ ~startup
  BY DEF LoadInDialog, options, nature
<1>2. PICK slot \in SlotLoads(device) :
        /\ game' = slot.game /\ ring' = slot.ring
        /\ IF slot.done THEN dialog' = NoDialog /\ PlayGame({slot.device})
                        ELSE device' = slot.device /\ UNCHANGED <<dialog, paused>>
  BY DEF LoadInDialog
<1>3. /\ Good(slot.device) /\ slot.device.open = device.open
      /\ device.paused => slot.device.paused
      /\ slot.game \in {"alive", "dead"} /\ slot.ring \in Rings
      /\ slot.ring.sound # "former"
      /\ slot.game = "alive" => slot.ring.count = 0
  BY <1>1, <1>2, SlotGood
<1>4. ~paused => behind
  BY <1>1 DEF IInv, DialogPauses, Running
<1>5. CASE slot.done
  <2>1. dialog' = NoDialog /\ PlayGame({slot.device})
    BY <1>2, <1>5
  <2>2. paused' = FALSE /\ Good(device)' /\ ~(device'.open /\ device'.paused)
    BY <1>1, <1>3, <2>1, PlayStep
  <2>3. Good(device')
    BY <1>1, <2>2 DEF Good, Devices
  <2>4. InStep' /\ DialogPauses'
    BY <1>1, <2>1, <2>2 DEF InStep, DialogPauses
  <2> QED BY <1>1, <1>2, <1>3, <2>1, <2>2, <2>3, <2>4, UserAssembled
<1>6. CASE ~slot.done
  <2>1. device' = slot.device /\ dialog' = dialog /\ paused' = paused
    BY <1>2, <1>6
  <2>2. InStep' /\ DialogPauses'
    BY <1>1, <1>3, <1>4, <2>1 DEF InStep, DialogPauses, Running, IInv
  <2> QED BY <1>1, <1>2, <1>3, <2>1, <2>2, UserAssembled
<1> QED BY <1>5, <1>6

\* The window is told to close, and does unless a load is under way.
LEMMA CloseStep == IInv /\ Close => IInv'
<1> SUFFICES ASSUME IInv, Close PROVE IInv'
  OBVIOUS
<1> DEFINE LoadType == [flag : BOOLEAN, thread : BOOLEAN,
                        mail : {"none", "null", "failed", "core"}, resume : BOOLEAN]
<1>1. /\ UNCHANGED <<options, nature, startup, load>> /\ startup' = FALSE
      /\ driverFails' = driverFails /\ driverFails' \in BOOLEAN /\ postFails' \in BOOLEAN
      /\ romKnown' \in BOOLEAN /\ locked' \in BOOLEAN /\ audioOn' \in BOOLEAN
      /\ load' = load /\ load \in LoadType /\ dialog = NoDialog /\ window # "gone"
  BY DEF Close, TakesInput, options, nature, IInv, TypeOK, AudioTypeOK
<1>2. CASE load.flag /\ window' = "closing" /\ UNCHANGED <<sound, machine, dialog>>
  <2>1. UNCHANGED <<ring, device, game, paused, behind, unsaved, dialog>>
    BY <1>2 DEF sound, machine
  <2>2. Order' /\ InStep' /\ DialogPauses'
    BY <1>1, <1>2, <2>1 DEF Order, InStep, DialogPauses, IInv
  <2>3. game = "none" => paused
    BY <1>1 DEF IInv, Rest
  <2> QED BY <1>1, <1>2, <2>1, <2>2, <2>3, Facts, Assembled
<1>3. CASE ~load.flag /\ Gone /\ UNCHANGED paused
  <2>1. /\ window' = "gone" /\ game' = "none" /\ ring' = EmptyRing /\ device' = Closed
        /\ dialog' = NoDialog /\ behind' = FALSE /\ unsaved' \in BOOLEAN /\ paused' = paused
    BY <1>3, GoneStep
  <2>2. Order' /\ InStep' /\ DialogPauses'
    BY <1>1, <1>3, <2>1, Facts DEF Order, InStep, DialogPauses, Running, IInv
  <2> QED BY <1>1, <2>1, <2>2, Facts, ClosedGood, Assembled
<1> QED BY <1>2, <1>3 DEF Close

\* What every dialog ends with, over devices that are paused or as they were.
LEMMA ResumeStep ==
  ASSUME IInv, NEW devices, ResumeAfter(devices), UNCHANGED <<driverFails, game, behind>>,
         dialog # NoDialog, dialog' = NoDialog,
         \A d \in devices : Good(d) /\ (d = device \/ (d.open => d.paused))
  PROVE  /\ Good(device') /\ paused' \in BOOLEAN
         /\ InStep' /\ DialogPauses'
         /\ game = "none" => device' \in devices /\ paused' = paused
<1>1. DialogPauses' /\ window # "gone" /\ paused \in BOOLEAN
  BY DEF DialogPauses, IInv, Order, TypeOK
<1>2. CASE dialog.resume /\ game # "none"
  <2>1. PlayGame(devices)
    BY <1>2 DEF ResumeAfter
  <2>2. paused' = FALSE /\ Good(device)' /\ ~(device'.open /\ device'.paused)
    BY <2>1, PlayStep
  <2>3. Good(device')
    BY <2>2 DEF Good, Devices
  <2>4. InStep'
    BY <2>2 DEF InStep
  <2> QED BY <1>1, <1>2, <2>2, <2>3, <2>4
<1>3. CASE ~(dialog.resume /\ game # "none")
  <2>1. device' \in devices /\ paused' = paused
    BY <1>3 DEF ResumeAfter
  <2>2. Good(device') /\ (device' = device \/ (device'.open => device'.paused))
    BY <2>1
  <2>3. game # "none" => paused \/ behind
    BY <1>1 DEF IInv, DialogPauses, Running
  <2>4. game = "none" => paused
    BY <1>1 DEF IInv, Rest
  <2>5. InStep'
    BY <2>1, <2>2, <2>3, <2>4 DEF InStep, IInv
  <2> QED BY <1>1, <2>1, <2>2, <2>5
<1> QED BY <1>2, <1>3

\* A dialog is closed.
LEMMA CloseDialogSteps ==
  IInv /\ (CloseSettings \/ CloseAudio \/ CloseWelcome \/ CloseSnapshot) => IInv'
<1> SUFFICES ASSUME IInv, CloseSettings \/ CloseAudio \/ CloseWelcome \/ CloseSnapshot
             PROVE  IInv'
  OBVIOUS
<1> USE Facts
<1>1. /\ UNCHANGED <<nature, game, behind, unsaved, startup, load, window>>
      /\ driverFails' = driverFails /\ dialog # NoDialog /\ dialog' = NoDialog
      /\ romKnown' = romKnown /\ locked' \in BOOLEAN /\ audioOn' \in BOOLEAN
  BY DEF CloseSettings, CloseAudio, CloseWelcome, CloseSnapshot, options, nature
<1>2. CASE ResumeAfter({device}) /\ ring' = ring
  <2>1. /\ Good(device') /\ paused' \in BOOLEAN /\ InStep' /\ DialogPauses'
        /\ game = "none" => device' \in {device} /\ paused' = paused
    BY <1>1, <1>2, ResumeStep
  <2> QED BY <1>1, <1>2, <2>1, UserAssembled
<1>3. CASE /\ ResumeAfter(IF game = "none" THEN {device} ELSE AudioOpened(audioOn'))
           /\ ring' = Discarded(ring)
  <2> DEFINE devices == IF game = "none" THEN {device} ELSE AudioOpened(audioOn')
  <2>1. \A d \in devices : Good(d) /\ (d = device \/ (d.open => d.paused))
    BY AudioOpenedGood
  <2>2. ResumeAfter(devices)
    BY <1>3
  <2>3. game = "none" => devices = {device}
    OBVIOUS
  <2> HIDE DEF devices
  <2>4. /\ Good(device') /\ paused' \in BOOLEAN /\ InStep' /\ DialogPauses'
        /\ game = "none" => device' \in devices /\ paused' = paused
    BY <1>1, <2>1, <2>2, ResumeStep
  <2>5. ring' = EmptyRing
    BY <1>3 DEF Discarded
  <2> QED BY <1>1, <2>3, <2>4, <2>5, UserAssembled
<1> QED BY <1>2, <1>3 DEF CloseSettings, CloseAudio, CloseWelcome, CloseSnapshot

\* A frame runs, or the machine fails in it.
LEMMA TickStep == IInv /\ Tick => IInv'
<1> SUFFICES ASSUME IInv, Tick PROVE IInv'
  OBVIOUS
<1> USE Facts
<1>1. /\ UNCHANGED <<options, nature, startup, load, window, dialog>>
      /\ driverFails' = driverFails /\ Running /\ game # "none" /\ ~paused
      /\ romKnown' = romKnown /\ locked' = locked /\ audioOn' = audioOn
  BY DEF Tick, Running, options, nature
<1>2. Sunk(ring) \in Rings /\ Sunk(ring).sound # "former"
  BY SunkType
<1>3. CASE RunFrame
  <2>1. /\ ring' = EmptyRing /\ device' \in Pumped(device, Sunk(ring))
        /\ UNCHANGED <<game, paused, behind>>
        /\ \E s \in {unsaved, TRUE} : unsaved' \in SramFlushed(s)
    BY <1>3 DEF RunFrame, Discarded
  <2>2. Good(device') /\ Alike(device', device)
    BY <1>2, <2>1, PumpedGood
  <2>3. unsaved' \in BOOLEAN
    BY <2>1, FlushedFlag
  <2>4. InStep' /\ DialogPauses'
    BY <1>1, <2>1, <2>2 DEF InStep, DialogPauses, Running, Alike, IInv
  <2> QED BY <1>1, <2>1, <2>2, <2>3, <2>4, UserAssembled
<1>4. CASE StopGame
  <2>1. /\ game' = "dead" /\ ring' \in {ring, Sunk(ring)} /\ unsaved' \in {unsaved, TRUE}
        /\ PauseGame
    BY <1>4 DEF StopGame
  <2>2. /\ paused' = TRUE /\ behind' = FALSE /\ Good(device)'
        /\ ~driverFails /\ device'.open => device'.paused
    BY <1>1, <2>1, PauseStep
  <2>3. Good(device')
    BY <1>1, <2>2 DEF Good, Devices
  <2>4. InStep' /\ DialogPauses'
    BY <1>1, <2>2 DEF InStep, DialogPauses, Running
  <2>5. ring' \in Rings /\ ring'.sound # "former" /\ unsaved' \in BOOLEAN
    BY <1>2, <2>1
  <2> QED BY <1>1, <2>1, <2>2, <2>3, <2>4, <2>5, UserAssembled
<1> QED BY <1>3, <1>4 DEF Tick

-----------------------------------------------------------------------------
\* The invariant, and what follows from it.

\* A session starts in it.
LEMMA InitInv == Init => IInv
<1> SUFFICES ASSUME Init PROVE IInv
  OBVIOUS
<1>1. EmptyRing \in Rings /\ EmptyRing.sound # "former" /\ Closed.open = FALSE
      /\ Good(Closed) /\ Closed \in Devices
  BY EmptyType, ClosedGood DEF EmptyRing, Closed, Good
<1>2. TypeOK
  <2>1. /\ load \in [flag : BOOLEAN, thread : BOOLEAN,
                   mail : {"none", "null", "failed", "core"}, resume : BOOLEAN]
        /\ dialog \in [kind : Modal \cup {"none", "welcome"}, resume : BOOLEAN]
    <3>1. load = NotLoading /\ dialog \in {NoDialog, [kind |-> "welcome", resume |-> FALSE]}
      BY DEF Init
    <3>2. NotLoading \in [flag : BOOLEAN, thread : BOOLEAN,
                          mail : {"none", "null", "failed", "core"}, resume : BOOLEAN]
      BY DEF NotLoading
    <3>3. NoDialog \in [kind : Modal \cup {"none", "welcome"}, resume : BOOLEAN]
      BY DEF NoDialog
    <3>4. [kind |-> "welcome", resume |-> FALSE]
            \in [kind : Modal \cup {"none", "welcome"}, resume : BOOLEAN]
      OBVIOUS
    <3> QED BY <3>1, <3>2, <3>3, <3>4
  <2>2. /\ startup \in BOOLEAN /\ paused \in BOOLEAN /\ behind \in BOOLEAN
        /\ unsaved \in BOOLEAN
    BY Zenon DEF Init
  <2> QED BY <1>1, <2>1, <2>2 DEF Init, TypeOK, AudioTypeOK
<1>3. Order
  BY DEF Init, Order, NotLoading, NoDialog
<1> QED BY <1>1, <1>2, <1>3 DEF Init, IInv, Rest, InStep, DialogPauses, Running

\* Every step keeps it.
LEMMA StepInv == IInv /\ [Next]_vars => IInv'
BY StutterStep, LoadSteps, LoaderStep, LoadCompleteStep, PauseSteps, OpenSteps, BriefSteps,
   ResetStep, QuickLoadStep, LoadInDialogStep, CloseStep, CloseDialogSteps, TickStep
   DEF Next, User

\* So every session stays in it.
LEMMA InvHolds == Spec => []IInv
BY InitInv, StepInv, PTL DEF Spec

\* Every variable of the session keeps its type, for any buffer, latency and averaging.
THEOREM SessionTypes == Spec => []TypeOK
<1>1. IInv => TypeOK
  BY DEF IInv
<1> QED BY <1>1, InvHolds, PTL

\* The loader never builds a core while the window has one, in whatever order messages,
\* dialogs and the loader's result come.
THEOREM OneCoreSafe == Spec => []OneCore
<1>1. IInv => OneCore
  BY DEF IInv, Order, OneCore
<1> QED BY <1>1, InvHolds, PTL

\* A running game never finds sound of a machine that was since reset, restored or replaced
\* in its ring, whatever DirectSound call fails, nor in a buffer that clears when told to.
THEOREM NoStaleSafe == Spec => []NoStaleSound
<1>1. IInv => NoStaleSound
  BY DEF IInv, Rest, Good, NoStaleSound
<1> QED BY <1>1, InvHolds, PTL

\* Behind an open dialog the game is paused, unless a load has started it there.
THEOREM DialogSafe == Spec => []DialogPauses
<1>1. IInv => DialogPauses
  BY DEF IInv
<1> QED BY <1>1, InvHolds, PTL

\* With a driver that stops when told, a game that does not run is not heard.
THEOREM SilentSafe == Spec => []SilentWhenPaused
<1>1. ASSUME IInv PROVE SilentWhenPaused
  <2>1. CASE game = "none"
    BY <1>1, <2>1 DEF IInv, Rest, Closed, SilentWhenPaused
  <2>2. CASE paused
    BY <1>1, <2>2 DEF IInv, InStep, Good, SilentWhenPaused
  <2>3. window = "gone" => game = "none"
    BY <1>1 DEF IInv, Order
  <2> QED BY <2>1, <2>2, <2>3 DEF SilentWhenPaused, Running
<1> QED BY <1>1, InvHolds, PTL

\* An open output under a running game plays or is primed, never neither.
THEOREM AudibleSafe == Spec => []Audible
<1>1. ASSUME IInv PROVE Audible
  <2>1. Running /\ device.open /\ ~driverFails /\ device.paused => behind
    BY <1>1 DEF IInv, InStep, Running
  <2>2. /\ device.playing \in BOOLEAN /\ device.priming \in BOOLEAN
        /\ ~driverFails /\ device.open /\ ~device.paused => (device.playing <=> ~device.priming)
    BY <1>1 DEF IInv, Good, Devices
  <2> QED BY <2>1, <2>2 DEF Audible
<1> QED BY <1>1, InvHolds, PTL

\* The ring of a machine that can run is empty, so a frame's sound finds room.
THEOREM DroppedSafe == Spec => []NothingDropped
<1>1. IInv => NothingDropped
  BY DEF IInv, Rest, NothingDropped
<1> QED BY <1>1, InvHolds, PTL
=============================================================================

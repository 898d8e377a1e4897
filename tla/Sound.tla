--------------------------------- MODULE Sound ---------------------------------
(***************************************************************************)
(* Audio settings: what is saved, what the engine was told, and what the    *)
(* settings dialog shows.  The dialog may try a device or a ringtone on the *)
(* engine before anything is saved, and devices and files come and go.      *)
(***************************************************************************)
EXTENDS Integers

CONSTANTS
    Devices,        \* the devices for output, the one the engine chooses for itself among them
    NoDevice,       \* the engine found none to choose
    SystemDefault,  \* the empty id, "Padrao do sistema"
    Tones,          \* the ringtone files a user can choose
    AppTone,        \* the ringtone that ships with the program
    NoTone,         \* the empty path, "Padrao do aplicativo"
    Processings     \* bound: the microphone and jitter settings a user chooses from

\* The sizes are those the dialog's list offers; the last conjunct is what a first launch has.
ASSUME SoundAssumption ==
    /\ {NoDevice, SystemDefault} \cap Devices = {} /\ NoDevice # SystemDefault
    /\ {AppTone, NoTone} \cap Tones = {} /\ AppTone # NoTone
    /\ Processings \subseteq [noise : BOOLEAN, echo : BOOLEAN, jitter : {60, 200, 300}]
    /\ [noise |-> FALSE, echo |-> TRUE, jitter |-> 300] \in Processings

VARIABLES
    soundOn,        \* the process and its engine run
    chosen,         \* the audio part of SettingsStore
    engine,         \* devices, ringtone and processing of the engine, and the playback device it
                    \* began with (m_engineDefaultPlaybackId)
    widgets,        \* the widgets of the settings dialog
    settingsOpen,   \* the dialog is open
    listed,         \* the devices its lists offer
    plugged,        \* the devices that are there
    present         \* the ringtone files that are there, whatever is in them

dialogVars == << widgets, settingsOpen, listed >>
soundVars == << soundOn, chosen, engine, dialogVars, plugged, present >>

\* The capture device is set, saved and shown just as the playback device.
SoundChoices == [playback : Devices \cup {SystemDefault}, ringer : Devices \cup {SystemDefault},
            tone : Tones \cup {NoTone}, processing : Processings]

\* loadAudioProcessing() and loadAudioRouting() with nothing saved.
NothingChosen == [playback |-> SystemDefault, ringer |-> SystemDefault, tone |-> NoTone,
                  processing |-> [noise |-> FALSE, echo |-> TRUE, jitter |-> 300]]

-------------------------------------------------------------------------------
(* SipCoreManager's setters, on a state e of the engine. *)

\* Fault: the id is looked up as it is given, and the empty one is never found.
SetPlaybackAsGiven(e, id) == IF id \in plugged THEN [e EXCEPT !.playback = id] ELSE e

\* setPlaybackDevice(): the empty id is the device of the start; one that is not there, the
\* device of the start too, changes nothing.
SetPlayback(e, id) ==
    LET wanted == IF id = SystemDefault THEN e.default ELSE id
    IN  IF wanted \in plugged THEN [e EXCEPT !.playback = wanted] ELSE e

\* setRingerDevice(): the empty id changes nothing, and the id is handed on unseen.
SetRinger(e, id) == IF id = SystemDefault THEN e ELSE [e EXCEPT !.ringer = id]

\* configureSounds(): the shipped ringtone, and with it the start's own processing.
ConfigureSounds(e) ==
    [e EXCEPT !.tone = AppTone, !.processing.noise = FALSE, !.processing.echo = TRUE]

\* Fault: a file that is not there is handed to the engine all the same.
SetRingtoneUnseen(e, path) ==
    IF path = NoTone THEN ConfigureSounds(e) ELSE [e EXCEPT !.tone = path]

\* setRingtoneFile(): a file that is not there is refused.
SetRingtone(e, path) ==
    IF path = NoTone THEN ConfigureSounds(e)
    ELSE IF path \in present THEN [e EXCEPT !.tone = path] ELSE e

Accepted(path) == path = NoTone \/ path \in present

\* Fault: the floor is kept whatever the size.
JitterFloorFixed(ms) == 80

\* The floor of the jitter buffer that goes with a size.
JitterFloor(ms) == IF ms <= 60 THEN 40 ELSE (ms * 3) \div 4

\* setAudioProcessing().
SetProcessing(e, p) ==
    LET size == IF p.jitter > 0 THEN p.jitter ELSE 300
    IN  [e EXCEPT !.processing = [noise |-> p.noise, echo |-> p.echo, jitter |-> size],
                  !.floor = JitterFloor(size)]

\* Fault: the processing is applied before the ringtone, whose default resets it.
AppliesProcessingFirst(e, c) ==
    SetRingtone(SetRinger(SetPlayback(SetProcessing(e, c.processing), c.playback), c.ringer), c.tone)

\* The order of the constructor and of onSettingsApplied().
Applies(e, c) ==
    SetProcessing(SetRingtone(SetRinger(SetPlayback(e, c.playback), c.ringer), c.tone), c.processing)

\* The engine after start(): the device it chose for itself, which is remembered, and the
\* shipped ringtone.
Fresh(device) ==
    ConfigureSounds([playback |-> device, ringer |-> device, default |-> device, tone |-> AppTone,
                     processing |-> [noise |-> FALSE, echo |-> TRUE, jitter |-> 60], floor |-> 40])

-------------------------------------------------------------------------------
(* The window and its dialog. *)

\* setAudioDevices(): the devices that are there now; a saved one that is not shows as the
\* system's default.
OpensSettings ==
    /\ soundOn /\ ~settingsOpen /\ settingsOpen' = TRUE /\ listed' = plugged
    /\ LET there(id) == IF id \in plugged THEN id ELSE SystemDefault
       IN  widgets' = [chosen EXCEPT !.playback = there(@), !.ringer = there(@)]
    /\ UNCHANGED << soundOn, chosen, engine, plugged, present >>

\* A file dialog only gives a file that is there.
Chooses(c) ==
    /\ soundOn /\ settingsOpen /\ widgets' = c
    /\ {c.playback, c.ringer} \subseteq listed \cup {SystemDefault}
    /\ c.tone \in present \cup {NoTone, widgets.tone}
    /\ UNCHANGED << soundOn, chosen, engine, settingsOpen, listed, plugged, present >>

\* "Ouvir": the ringer and the ringtone of the dialog, played if the file is there.
Previews ==
    /\ soundOn /\ settingsOpen
    /\ engine' = SetRingtone(SetRinger(engine, widgets.ringer), widgets.tone)
    /\ UNCHANGED << soundOn, chosen, dialogVars, plugged, present >>

\* "Testar som".
TestsSound ==
    /\ soundOn /\ settingsOpen /\ engine' = SetPlayback(engine, widgets.playback)
    /\ UNCHANGED << soundOn, chosen, dialogVars, plugged, present >>

\* The dialog goes with its widgets.
Closes == settingsOpen' = FALSE /\ listed' = {} /\ widgets' = NothingChosen

CancelsSettings ==
    /\ soundOn /\ settingsOpen /\ Closes
    /\ UNCHANGED << soundOn, chosen, engine, plugged, present >>

\* saveAudioRouting() and saveAudioProcessing(); a ringtone that was refused is not saved.
SavesChoices(c) == chosen' = [c EXCEPT !.tone = IF Accepted(@) THEN @ ELSE NoTone]

\* onSettingsApplied(), from Save, which closes the dialog, or from an import, which does not.
SavesSettings ==
    /\ soundOn /\ settingsOpen /\ (Closes \/ UNCHANGED dialogVars)
    /\ engine' = Applies(engine, widgets)
    /\ SavesChoices(widgets)
    /\ UNCHANGED << soundOn, plugged, present >>

-------------------------------------------------------------------------------
(* The process and its surroundings. *)

SoundStops ==
    /\ soundOn /\ soundOn' = FALSE /\ Closes /\ engine' = Fresh(NoDevice)
    /\ UNCHANGED << chosen, plugged, present >>

\* The constructor: start(), on a device that is there if any is, then the saved settings; a
\* ringtone that is refused passes unsaid.
SoundStarts(device) ==
    /\ ~soundOn /\ soundOn' = TRUE /\ engine' = Applies(Fresh(device), chosen)
    /\ UNCHANGED << chosen, dialogVars, plugged, present >>

\* Devices are plugged in and pulled out, files come and go.
Surroundings ==
    /\ \/ \E d \in Devices : plugged' \in {plugged \cup {d}, plugged \ {d}} /\ UNCHANGED present
       \/ \E t \in Tones : present' \in {present \cup {t}, present \ {t}} /\ UNCHANGED plugged
    /\ UNCHANGED << soundOn, chosen, engine, dialogVars >>

\* Nothing saved yet.
SoundInit ==
    /\ soundOn = FALSE /\ engine = Fresh(NoDevice) /\ settingsOpen = FALSE /\ listed = {}
    /\ chosen = NothingChosen /\ widgets = NothingChosen /\ plugged = Devices /\ present = Tones

SoundNext ==
    \/ OpensSettings \/ Previews \/ TestsSound \/ CancelsSettings \/ SavesSettings
    \/ \E c \in SoundChoices : Chooses(c)
    \/ SoundStops \/ Surroundings
    \/ \E device \in IF plugged = {} THEN {NoDevice} ELSE plugged : SoundStarts(device)

SoundSpec == SoundInit /\ [][SoundNext]_soundVars

-------------------------------------------------------------------------------
(* Properties. *)

\* The settings are choices, and the engine has a device and a ringtone that is a file.
SoundTypeOK ==
    /\ soundOn \in BOOLEAN /\ settingsOpen \in BOOLEAN /\ (settingsOpen => soundOn) /\ listed \subseteq Devices
    /\ chosen \in SoundChoices /\ widgets \in SoundChoices
    /\ {engine.playback, engine.ringer, engine.default} \subseteq Devices \cup {NoDevice}
    /\ engine.tone \in Tones \cup {AppTone} /\ engine.floor <= engine.processing.jitter
    /\ plugged \subseteq Devices /\ present \subseteq Tones

\* After every save, one that changes nothing included, and after a start, the engine is what is
\* saved: every device that is there, the ringtone and the processing, whatever the dialog tried
\* before.  Left out by name: an empty ringer, which leaves the one in use; and a ringtone refused
\* while saving, where the program says "o padrao foi mantido" and the engine keeps whatever it had.
SavedIsInForce ==
    [][SavesSettings \/ (soundOn' /\ ~soundOn) =>
          /\ engine'.processing = chosen'.processing
          /\ chosen'.playback \in plugged => engine'.playback = chosen'.playback
          /\ chosen'.playback = SystemDefault /\ engine'.default \in plugged =>
                 engine'.playback = engine'.default
          /\ chosen'.ringer # SystemDefault => engine'.ringer = chosen'.ringer
          /\ chosen'.tone \in present => engine'.tone = chosen'.tone
          /\ chosen'.tone = NoTone /\ widgets.tone = NoTone => engine'.tone = AppTone]_soundVars

\* A ringtone that is not there is not left saved "to come back on every launch and leave incoming
\* calls silent", though it was saved before and has gone since, and none is given to the engine.  A file that is
\* there and cannot be read or decoded is another matter: the code does not look into it.
RefusedToneIsForgotten ==
    [][/\ SavesSettings => chosen'.tone \in present \cup {NoTone}
       /\ engine'.tone # engine.tone => engine'.tone \in present \cup {AppTone}]_soundVars

=============================================================================

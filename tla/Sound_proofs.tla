----------------------------- MODULE Sound_proofs ------------------------------
(***************************************************************************)
(* Proofs about Sound, for every set of devices, of ringtones and of the    *)
(* processing the dialog offers.  Each setter is described once, by the     *)
(* fields it sets and those it leaves; a save and a start are then read off *)
(* from the four setters they call.                                         *)
(***************************************************************************)
EXTENDS Sound, TLAPS

Sizes == {60, 200, 300}
EngineProcessings == [noise : BOOLEAN, echo : BOOLEAN, jitter : Sizes]

Heard == Devices \cup {NoDevice}

Engines ==
    [playback : Heard, ringer : Heard, default : Heard,
     tone : Tones \cup {AppTone}, processing : EngineProcessings, floor : Nat]

\* The strengthening of the engine's part: it is a record, and the jitter buffer has room above
\* its floor.
EngineOK(e) == e \in Engines /\ e.floor <= e.processing.jitter

SInv ==
    /\ soundOn \in BOOLEAN /\ settingsOpen \in BOOLEAN /\ (settingsOpen => soundOn)
    /\ listed \subseteq Devices /\ plugged \subseteq Devices /\ present \subseteq Tones
    /\ chosen \in SoundChoices /\ widgets \in SoundChoices
    /\ EngineOK(engine)

-------------------------------------------------------------------------------
(* The setters. *)

\* The playback device after one was asked for: it, or that of the start for the empty id, if it
\* is there, and otherwise the one in use.
Sought(e, id) ==
    LET wanted == IF id = SystemDefault THEN e.default ELSE id
    IN  IF wanted \in plugged THEN wanted ELSE e.playback

\* setPlaybackDevice() sets the playback device alone.
LEMMA PlaybackSet ==
    ASSUME NEW e, EngineOK(e), NEW id \in Devices \cup {SystemDefault}, plugged \subseteq Devices
    PROVE  LET new == SetPlayback(e, id) IN
           /\ EngineOK(new) /\ new.default = e.default
           /\ new.ringer = e.ringer /\ new.tone = e.tone /\ new.processing = e.processing
           /\ new.playback = Sought(e, id)
<1> DEFINE wanted == IF id = SystemDefault THEN e.default ELSE id
<1>1. SetPlayback(e, id) = IF wanted \in plugged THEN [e EXCEPT !.playback = wanted] ELSE e
    BY DEF SetPlayback
<1> HIDE DEF wanted
<1>2. CASE wanted \in plugged
    <2>1. wanted \in Heard
        BY <1>2 DEF Heard
    <2>2. SetPlayback(e, id) = [e EXCEPT !.playback = wanted]
        BY <1>1, <1>2
    <2>3. Sought(e, id) = wanted
        BY <1>2 DEF Sought, wanted
    <2> QED BY <2>1, <2>2, <2>3 DEF EngineOK, Engines
<1>3. CASE wanted \notin plugged
    <2>1. Sought(e, id) = e.playback
        BY <1>3 DEF Sought, wanted
    <2> QED BY <1>1, <1>3, <2>1
<1> QED BY <1>2, <1>3

\* setRingerDevice() sets the ringer alone.
LEMMA RingerSet ==
    ASSUME NEW e, EngineOK(e), NEW id \in Devices \cup {SystemDefault}
    PROVE  LET new == SetRinger(e, id) IN
           /\ EngineOK(new) /\ new.default = e.default
           /\ new.playback = e.playback /\ new.tone = e.tone /\ new.processing = e.processing
           /\ new.ringer = IF id = SystemDefault THEN e.ringer ELSE id
BY DEF SetRinger, EngineOK, Engines, Heard

\* configureSounds() sets the shipped ringtone and, with it, the processing of the start.
LEMMA SoundsConfigured ==
    ASSUME NEW e, EngineOK(e)
    PROVE  LET new == ConfigureSounds(e) IN
           /\ EngineOK(new) /\ new.default = e.default
           /\ new.playback = e.playback /\ new.ringer = e.ringer /\ new.tone = AppTone
<1> DEFINE p == [e.processing EXCEPT !.noise = FALSE, !.echo = TRUE]
<1>1. e.processing \in EngineProcessings
    BY DEF EngineOK, Engines
<1>2. p \in EngineProcessings /\ p.jitter = e.processing.jitter
    BY <1>1 DEF EngineProcessings
<1>3. ConfigureSounds(e) = [e EXCEPT !.tone = AppTone, !.processing = p]
    BY DEF ConfigureSounds, EngineOK, Engines, EngineProcessings
<1> HIDE DEF p
<1> QED BY <1>2, <1>3 DEF EngineOK, Engines

\* setRingtoneFile() sets the file if it is there, the shipped ringtone for the empty path, and
\* refuses any other.
LEMMA RingtoneSet ==
    ASSUME NEW e, EngineOK(e), NEW path \in Tones \cup {NoTone}, present \subseteq Tones
    PROVE  LET new == SetRingtone(e, path) IN
           /\ EngineOK(new) /\ new.default = e.default
           /\ new.playback = e.playback /\ new.ringer = e.ringer
           /\ new.tone = IF path = NoTone THEN AppTone ELSE IF path \in present THEN path ELSE e.tone
<1>1. CASE path = NoTone
    BY <1>1, SoundsConfigured DEF SetRingtone
<1>2. CASE path # NoTone
    BY <1>2 DEF SetRingtone, EngineOK, Engines
<1> QED BY <1>1, <1>2

\* setAudioProcessing() puts what it is given in force, with a floor below the size.
LEMMA ProcessingSet ==
    ASSUME NEW e, EngineOK(e), NEW p \in Processings
    PROVE  LET new == SetProcessing(e, p) IN
           /\ EngineOK(new) /\ new.default = e.default
           /\ new.playback = e.playback /\ new.ringer = e.ringer /\ new.tone = e.tone
           /\ new.processing = p
<1> DEFINE given == [noise |-> p.noise, echo |-> p.echo, jitter |-> p.jitter]
<1>1. p \in EngineProcessings /\ p.jitter \in Sizes
    BY SoundAssumption DEF EngineProcessings, Sizes
<1>2. given = p
    BY <1>1 DEF EngineProcessings
<1>3. p.jitter > 0 /\ JitterFloor(p.jitter) \in Nat /\ JitterFloor(p.jitter) <= p.jitter
    BY <1>1 DEF Sizes, JitterFloor
<1>4. SetProcessing(e, p) = [e EXCEPT !.processing = given, !.floor = JitterFloor(p.jitter)]
    BY <1>3 DEF SetProcessing
<1> HIDE DEF given
<1> QED BY <1>1, <1>2, <1>3, <1>4 DEF EngineOK, Engines

\* What the four setters leave, called in the order of the constructor and of a save: the
\* processing comes last because a default ringtone resets it.
LEMMA AppliedInOrder ==
    ASSUME NEW e, EngineOK(e), NEW c \in SoundChoices, plugged \subseteq Devices, present \subseteq Tones
    PROVE  LET new == Applies(e, c) IN
           /\ EngineOK(new) /\ new.default = e.default
           /\ new.processing = c.processing /\ new.playback = Sought(e, c.playback)
           /\ new.ringer = IF c.ringer = SystemDefault THEN e.ringer ELSE c.ringer
           /\ new.tone = IF c.tone = NoTone THEN AppTone
                         ELSE IF c.tone \in present THEN c.tone ELSE e.tone
<1> DEFINE e1 == SetPlayback(e, c.playback)
           e2 == SetRinger(e1, c.ringer)
           e3 == SetRingtone(e2, c.tone)
           e4 == SetProcessing(e3, c.processing)
<1>0. /\ c.playback \in Devices \cup {SystemDefault} /\ c.ringer \in Devices \cup {SystemDefault}
      /\ c.tone \in Tones \cup {NoTone} /\ c.processing \in Processings
    BY DEF SoundChoices
<1>1. /\ EngineOK(e1) /\ e1.default = e.default /\ e1.ringer = e.ringer /\ e1.tone = e.tone
      /\ e1.playback = Sought(e, c.playback)
    BY <1>0, PlaybackSet
<1> HIDE DEF e1
<1>2. /\ EngineOK(e2) /\ e2.default = e1.default /\ e2.playback = e1.playback /\ e2.tone = e1.tone
      /\ e2.ringer = IF c.ringer = SystemDefault THEN e1.ringer ELSE c.ringer
    BY <1>0, <1>1, RingerSet
<1> HIDE DEF e2
<1>3. /\ EngineOK(e3) /\ e3.default = e2.default /\ e3.playback = e2.playback /\ e3.ringer = e2.ringer
      /\ e3.tone = IF c.tone = NoTone THEN AppTone ELSE IF c.tone \in present THEN c.tone ELSE e2.tone
    BY <1>0, <1>2, RingtoneSet
<1> HIDE DEF e3
<1>4. /\ EngineOK(e4) /\ e4.default = e3.default /\ e4.playback = e3.playback /\ e4.ringer = e3.ringer /\ e4.tone = e3.tone
      /\ e4.processing = c.processing
    BY <1>0, <1>3, ProcessingSet
<1>5. Applies(e, c) = e4
    BY DEF Applies, e1, e2, e3
<1> HIDE DEF e4
<1> QED BY <1>1, <1>2, <1>3, <1>4, <1>5

\* The engine after start() is one, with the device it chose.
LEMMA FreshIsOK ==
    ASSUME NEW device \in Heard
    PROVE  EngineOK(Fresh(device)) /\ Fresh(device).tone = AppTone
<1> DEFINE p == [noise |-> FALSE, echo |-> TRUE, jitter |-> 60]
           raw == [playback |-> device, ringer |-> device, default |-> device, tone |-> AppTone,
                   processing |-> p, floor |-> 40]
<1>1. p \in EngineProcessings /\ p.jitter = 60
    BY DEF EngineProcessings, Sizes
<1> HIDE DEF p
<1>2. EngineOK(raw)
    BY <1>1 DEF EngineOK, Engines
<1>3. Fresh(device) = ConfigureSounds(raw)
    BY DEF Fresh, p
<1> HIDE DEF raw
<1> QED BY <1>2, <1>3, SoundsConfigured

-------------------------------------------------------------------------------
(* The invariant. *)

\* What a first launch has is a choice.
LEMMA NothingIsChosen == NothingChosen \in SoundChoices
BY SoundAssumption DEF NothingChosen, SoundChoices

\* A first launch: nothing saved yet, a fresh engine, all devices and files there.
LEMMA SInvInit == SoundInit => SInv
<1> SUFFICES ASSUME SoundInit PROVE SInv
    OBVIOUS
<1>1. chosen \in SoundChoices /\ widgets \in SoundChoices
    BY NothingIsChosen DEF SoundInit
<1>2. EngineOK(engine)
    BY FreshIsOK DEF SoundInit, Heard
<1> QED BY <1>1, <1>2, Zenon DEF SoundInit, SInv

\* The choices on the dialog when it opens, and those that are saved, are choices: what is not
\* there any more is replaced by the default.
LEMMA ShownAndSaved ==
    ASSUME SInv
    PROVE  /\ OpensSettings => widgets' \in SoundChoices
           /\ SavesChoices(widgets) => chosen' \in SoundChoices
<1> DEFINE there(id) == IF id \in plugged THEN id ELSE SystemDefault
           kept == IF Accepted(widgets.tone) THEN widgets.tone ELSE NoTone
<1>1. /\ there(chosen.playback) \in Devices \cup {SystemDefault}
      /\ there(chosen.ringer) \in Devices \cup {SystemDefault}
    BY DEF SInv
<1>2. OpensSettings =>
          widgets' = [chosen EXCEPT !.playback = there(chosen.playback), !.ringer = there(chosen.ringer)]
    BY DEF OpensSettings, SInv, SoundChoices
<1>3. SavesChoices(widgets) => chosen' = [widgets EXCEPT !.tone = kept]
    BY DEF SavesChoices, SInv, SoundChoices
<1>4. kept \in Tones \cup {NoTone}
    BY DEF SInv, SoundChoices
<1> HIDE DEF there, kept
<1> QED BY <1>1, <1>2, <1>3, <1>4 DEF SInv, SoundChoices

\* Previews and tests, saves and starts leave an engine with its types.
LEMMA SInvStep == SInv /\ [SoundNext]_soundVars => SInv'
<1> SUFFICES ASSUME SInv, [SoundNext]_soundVars PROVE SInv'
    OBVIOUS
<1> USE DEF dialogVars
<1>0. /\ widgets.playback \in Devices \cup {SystemDefault} /\ widgets.ringer \in Devices \cup {SystemDefault}
      /\ widgets.tone \in Tones \cup {NoTone}
    BY DEF SInv, SoundChoices
<1>1. CASE OpensSettings
    <2>1. widgets' \in SoundChoices
        BY <1>1, ShownAndSaved
    <2> QED BY <1>1, <2>1, Zenon DEF OpensSettings, SInv, EngineOK
<1>2. ASSUME NEW c \in SoundChoices, Chooses(c) PROVE SInv'
    BY <1>2, Zenon DEF Chooses, SInv, EngineOK
<1>3. CASE Previews
    <2>1. EngineOK(SetRinger(engine, widgets.ringer))
        BY <1>0, RingerSet DEF SInv
    <2>2. EngineOK(engine')
        BY <1>0, <1>3, <2>1, RingtoneSet DEF Previews, SInv
    <2> QED BY <1>3, <2>2, Zenon DEF Previews, SInv, EngineOK
<1>4. CASE TestsSound
    <2>1. EngineOK(engine')
        BY <1>0, <1>4, PlaybackSet DEF TestsSound, SInv
    <2> QED BY <1>4, <2>1, Zenon DEF TestsSound, SInv, EngineOK
<1>5. CASE CancelsSettings
    <2>1. settingsOpen' = FALSE /\ listed' \subseteq Devices /\ widgets' \in SoundChoices
        BY <1>5, NothingIsChosen DEF CancelsSettings, Closes
    <2> QED BY <1>5, <2>1, Zenon DEF CancelsSettings, SInv, EngineOK
<1>6. CASE SavesSettings
    <2>1. EngineOK(engine')
        BY <1>6, AppliedInOrder DEF SavesSettings, SInv
    <2>2. chosen' \in SoundChoices
        BY <1>6, ShownAndSaved DEF SavesSettings
    <2>3. settingsOpen' \in BOOLEAN /\ listed' \subseteq Devices /\ widgets' \in SoundChoices
        <3>1. {} \subseteq Devices /\ FALSE \in BOOLEAN
            OBVIOUS
        <3> QED BY <1>6, <3>1, NothingIsChosen, Zenon DEF SavesSettings, Closes, SInv
    <2> QED BY <1>6, <2>1, <2>2, <2>3, Zenon DEF SavesSettings, SInv, EngineOK
<1>7. CASE SoundStops
    <2>1. EngineOK(engine')
        BY <1>7, FreshIsOK DEF SoundStops, Heard
    <2>2. settingsOpen' = FALSE /\ listed' \subseteq Devices /\ widgets' \in SoundChoices
        BY <1>7, NothingIsChosen DEF SoundStops, Closes
    <2> QED BY <1>7, <2>1, <2>2, Zenon DEF SoundStops, SInv, EngineOK
<1>8. ASSUME NEW device \in IF plugged = {} THEN {NoDevice} ELSE plugged, SoundStarts(device)
      PROVE  SInv'
    <2>1. device \in Heard
        BY DEF SInv, Heard
    <2>2. EngineOK(engine')
        BY <1>8, <2>1, FreshIsOK, AppliedInOrder DEF SoundStarts, SInv
    <2> QED BY <1>8, <2>2, Zenon DEF SoundStarts, SInv, EngineOK
<1>9. CASE Surroundings
    <2>1. plugged' \subseteq Devices /\ present' \subseteq Tones
        BY <1>9 DEF Surroundings, SInv
    <2> QED BY <1>9, <2>1, Zenon DEF Surroundings, SInv, EngineOK
<1>10. CASE UNCHANGED soundVars
    BY <1>10, Zenon DEF soundVars, SInv, EngineOK
<1> QED BY <1>1, <1>2, <1>3, <1>4, <1>5, <1>6, <1>7, <1>8, <1>9, <1>10, Zenon DEF SoundNext

\* The inductive invariant of the audio settings.
THEOREM SoundSound == SoundSpec => []SInv
BY SInvInit, SInvStep, PTL DEF SoundSpec

\* The settings are choices, the engine has a device and a ringtone that is a file, and the jitter
\* buffer is never smaller than its floor.
THEOREM SoundTypeCorrect == SoundSpec => []SoundTypeOK
<1>1. SInv => SoundTypeOK
    BY DEF SInv, SoundTypeOK, EngineOK, Engines, Heard
<1> QED BY <1>1, SoundSound, PTL

-------------------------------------------------------------------------------
(* The action properties. *)

\* What a save leaves saved: the choices of the dialog, but for a ringtone that is refused.
LEMMA SavedAre ==
    ASSUME SInv, SavesSettings
    PROVE  /\ chosen'.processing = widgets.processing /\ chosen'.playback = widgets.playback
           /\ chosen'.ringer = widgets.ringer
           /\ chosen'.tone = IF Accepted(widgets.tone) THEN widgets.tone ELSE NoTone
<1> DEFINE kept == IF Accepted(widgets.tone) THEN widgets.tone ELSE NoTone
<1>1. chosen' = [widgets EXCEPT !.tone = kept]
    BY DEF SavesSettings, SavesChoices, SInv, SoundChoices
<1> HIDE DEF kept
<1>2. /\ chosen'.processing = widgets.processing /\ chosen'.playback = widgets.playback
      /\ chosen'.ringer = widgets.ringer /\ chosen'.tone = kept
    BY <1>1 DEF SInv, SoundChoices
<1> QED BY <1>2 DEF kept

\* The steps that start the engine.
LEMMA OnlyStarts ==
    ASSUME [SoundNext]_soundVars, soundOn', ~soundOn
    PROVE  \E device \in IF plugged = {} THEN {NoDevice} ELSE plugged : SoundStarts(device)
BY Zenon DEF SoundNext, soundVars, OpensSettings, Chooses, Previews, TestsSound, CancelsSettings,
    SavesSettings, SoundStops, Surroundings

\* After every save and every start the engine is what is saved, but for what the property leaves
\* out, whatever the dialog tried on it before.
THEOREM SavedInForce == SoundSpec => SavedIsInForce
<1> DEFINE InForce ==
          /\ engine'.processing = chosen'.processing
          /\ chosen'.playback \in plugged => engine'.playback = chosen'.playback
          /\ chosen'.playback = SystemDefault /\ engine'.default \in plugged =>
                 engine'.playback = engine'.default
          /\ chosen'.ringer # SystemDefault => engine'.ringer = chosen'.ringer
          /\ chosen'.tone \in present => engine'.tone = chosen'.tone
          /\ chosen'.tone = NoTone /\ widgets.tone = NoTone => engine'.tone = AppTone
           After == SavesSettings \/ (soundOn' /\ ~soundOn) => InForce
<1>1. ASSUME SInv, [SoundNext]_soundVars PROVE [After]_soundVars
    <2>0. SystemDefault \notin plugged /\ NoTone \notin present
        BY <1>1, SoundAssumption DEF SInv
    <2>1. ASSUME NEW e, EngineOK(e), engine' = Applies(e, widgets), SavesSettings PROVE InForce
        <3>1. /\ engine'.processing = widgets.processing /\ engine'.default = e.default
              /\ engine'.playback = Sought(e, widgets.playback)
              /\ engine'.ringer = IF widgets.ringer = SystemDefault THEN e.ringer ELSE widgets.ringer
              /\ engine'.tone = IF widgets.tone = NoTone THEN AppTone
                                ELSE IF widgets.tone \in present THEN widgets.tone ELSE e.tone
            BY <1>1, <2>1, AppliedInOrder DEF SInv
        <3> QED BY <1>1, <2>0, <2>1, <3>1, SavedAre DEF Sought, Accepted
    <2>2. ASSUME NEW device \in Heard, SoundStarts(device) PROVE InForce
        <3> DEFINE e == Fresh(device)
        <3>0. EngineOK(e) /\ e.tone = AppTone
            BY FreshIsOK
        <3>1. engine' = Applies(e, chosen) /\ chosen' = chosen
            BY <2>2 DEF SoundStarts
        <3> HIDE DEF e
        <3>2. /\ engine'.processing = chosen.processing /\ engine'.default = e.default
              /\ engine'.playback = Sought(e, chosen.playback)
              /\ engine'.ringer = IF chosen.ringer = SystemDefault THEN e.ringer ELSE chosen.ringer
              /\ engine'.tone = IF chosen.tone = NoTone THEN AppTone
                                ELSE IF chosen.tone \in present THEN chosen.tone ELSE e.tone
            BY <1>1, <3>0, <3>1, AppliedInOrder DEF SInv
        <3> QED BY <2>0, <3>1, <3>2 DEF Sought
    <2>3. SavesSettings => engine' = Applies(engine, widgets) /\ EngineOK(engine)
        BY <1>1 DEF SavesSettings, SInv
    <2>4. soundOn' /\ ~soundOn => \E device \in Heard : SoundStarts(device)
        <3>1. \A device \in IF plugged = {} THEN {NoDevice} ELSE plugged : device \in Heard
            BY <1>1 DEF SInv, Heard
        <3> QED BY <1>1, <3>1, OnlyStarts, Zenon
    <2> HIDE DEF InForce
    <2> QED BY <2>1, <2>2, <2>3, <2>4, Zenon
<1> HIDE DEF After
<1>2. SoundSpec => [][After]_soundVars
    BY <1>1, SoundSound, PTL DEF SoundSpec
<1> QED BY <1>2, Zenon DEF SavedIsInForce, After, InForce

\* No ringtone that is not there is left saved by a save, and none is given to the engine.
THEOREM RefusedToneForgotten == SoundSpec => RefusedToneIsForgotten
<1> DEFINE Forgotten ==
        /\ SavesSettings => chosen'.tone \in present \cup {NoTone}
        /\ engine'.tone # engine.tone => engine'.tone \in present \cup {AppTone}
<1>1. ASSUME SInv, [SoundNext]_soundVars PROVE [Forgotten]_soundVars
    <2>0. widgets.tone \in Tones \cup {NoTone} /\ widgets.ringer \in Devices \cup {SystemDefault}
          /\ widgets.playback \in Devices \cup {SystemDefault}
        BY <1>1 DEF SInv, SoundChoices
    <2>1. SavesSettings => chosen'.tone \in present \cup {NoTone}
        BY <1>1, SavedAre DEF Accepted
    <2>2. engine'.tone # engine.tone => engine'.tone \in present \cup {AppTone}
        <3>1. ASSUME Previews PROVE engine'.tone \in present \cup {AppTone, engine.tone}
            <4> DEFINE e == SetRinger(engine, widgets.ringer)
            <4>1. EngineOK(e) /\ e.tone = engine.tone
                BY <1>1, <2>0, RingerSet DEF SInv
            <4>2. engine' = SetRingtone(e, widgets.tone)
                BY <3>1 DEF Previews
            <4> HIDE DEF e
            <4> QED BY <1>1, <2>0, <4>1, <4>2, RingtoneSet DEF SInv
        <3>2. ASSUME TestsSound PROVE engine'.tone = engine.tone
            BY <1>1, <2>0, <3>2, PlaybackSet DEF TestsSound, SInv
        <3>3. ASSUME SavesSettings PROVE engine'.tone \in present \cup {AppTone, engine.tone}
            BY <1>1, <3>3, AppliedInOrder DEF SavesSettings, SInv
        <3>4. ASSUME SoundStops PROVE engine'.tone = AppTone
            BY <3>4, FreshIsOK DEF SoundStops, Heard
        <3>5. ASSUME NEW device \in IF plugged = {} THEN {NoDevice} ELSE plugged, SoundStarts(device)
              PROVE  engine'.tone \in present \cup {AppTone}
            <4>1. device \in Heard
                BY <1>1 DEF SInv, Heard
            <4> QED BY <1>1, <3>5, <4>1, FreshIsOK, AppliedInOrder DEF SoundStarts, SInv
        <3>6. \/ engine' = engine \/ Previews \/ TestsSound \/ SavesSettings \/ SoundStops
              \/ \E device \in IF plugged = {} THEN {NoDevice} ELSE plugged : SoundStarts(device)
            BY <1>1, Zenon DEF SoundNext, soundVars, OpensSettings, Chooses, CancelsSettings, Surroundings
        <3> QED BY <3>1, <3>2, <3>3, <3>4, <3>5, <3>6
    <2> QED BY <2>1, <2>2
<1> HIDE DEF Forgotten
<1>2. SoundSpec => [][Forgotten]_soundVars
    BY <1>1, SoundSound, PTL DEF SoundSpec
<1> QED BY <1>2 DEF RefusedToneIsForgotten, Forgotten

=============================================================================

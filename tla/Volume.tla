--------------------------------- MODULE Volume --------------------------------
(***************************************************************************)
(* A volume slider and the engine's gain behind it.  The speaker and the    *)
(* microphone have one each, alike in everything but the gain they set.     *)
(* Gains are in hundredths of a dB.                                         *)
(***************************************************************************)
EXTENDS Integers

VARIABLES
    volumeOn,   \* the window and its engine
    slider,     \* the value of the QSlider
    gain,       \* linphone_core_get_playback_gain_db()
    volume      \* audio/speakerVolume in the settings

volumeVars == << volumeOn, slider, gain, volume >>

Unity == 75
MinGain == -1800
MaxGain == 600
SilentGain == -6000

Bounded(low, n, high) == IF n < low THEN low ELSE IF n > high THEN high ELSE n

\* Fault: the bottom of the travel is the lowest gain and no silence.
NeverSilent(percent) == MinGain + ((MaxGain - MinGain) \div 100) * Bounded(0, percent, 100)

PercentToGainDb(percent) ==
    IF Bounded(0, percent, 100) = 0 THEN SilentGain
    ELSE MinGain + ((MaxGain - MinGain) \div 100) * Bounded(0, percent, 100)

\* speakerVolume(), rounded to a percent.
GainDbToPercent(g) ==
    IF g <= SilentGain THEN 0
    ELSE Bounded(1, (100 * (g - MinGain) + (MaxGain - MinGain) \div 2) \div (MaxGain - MinGain), 100)

\* setValue(): valueChanged comes, and sets the gain, only when the value is another.
SetsSlider(from, g, value) ==
    /\ slider' = Bounded(0, value, 100)
    /\ gain' = IF slider' = from THEN g ELSE PercentToGainDb(slider')

\* A drag, the wheel or a key: one or several steps, of one or of a page.
Moves(n) == volumeOn /\ SetsSlider(slider, gain, slider + n) /\ UNCHANGED << volumeOn, volume >>

\* sliderReleased() saves; the wheel and the keys never release.
Releases == volumeOn /\ volume' = slider /\ UNCHANGED << volumeOn, slider, gain >>

\* The buttons beside the slider.
StepsBy(n) ==
    /\ volumeOn /\ SetsSlider(slider, gain, slider + n)
    /\ volume' = slider' /\ UNCHANGED volumeOn

VolumeStops == volumeOn /\ volumeOn' = FALSE /\ UNCHANGED << slider, gain, volume >>

\* The constructor: the slider stands at unity before it is connected, the engine starts with
\* the sound untouched, and the saved value is put on the slider.
VolumeStarts ==
    /\ ~volumeOn /\ volumeOn' = TRUE /\ SetsSlider(Unity, 0, volume) /\ UNCHANGED volume

VolumeInit == volumeOn = FALSE /\ slider = Unity /\ gain = 0 /\ volume = Unity

VolumeNext ==
    \/ \E n \in {-10, -1, 1, 10} : Moves(n)
    \/ \E n \in {-5, 5} : StepsBy(n)
    \/ Releases \/ VolumeStops \/ VolumeStarts

VolumeSpec == VolumeInit /\ [][VolumeNext]_volumeVars

-------------------------------------------------------------------------------
(* Properties. *)

\* What the engine plays is what the slider shows, read back through the inverse mapping, after
\* any moves and restarts: silence at zero and nowhere else, and the sound untouched at 75.
GainFollowsSlider ==
    volumeOn =>
        /\ GainDbToPercent(gain) = slider
        /\ slider = 0 <=> gain = SilentGain
        /\ slider = Unity <=> gain = 0

=============================================================================

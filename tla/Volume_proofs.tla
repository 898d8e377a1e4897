---------------------------- MODULE Volume_proofs ------------------------------
(***************************************************************************)
(* Proof that the engine's gain follows the slider, for every position of   *)
(* the slider and every history of moves, saves and restarts.               *)
(***************************************************************************)
EXTENDS Volume, TLAPS

Percents == 0 .. 100

\* The inductive invariant: while the window is on, the gain is that of the slider, although the
\* slot that sets it runs only for a value that is another.
VInv ==
    /\ volumeOn \in BOOLEAN /\ slider \in Percents /\ volume \in Percents
    /\ volumeOn => gain = PercentToGainDb(slider)

\* The slider and the gain read back are inverse over the whole travel of the slider:
\* gainDbToPercent() rounds to the percent that percentToGainDb() came from.
LEMMA GainReadsBack ==
    ASSUME NEW n \in Percents
    PROVE  GainDbToPercent(PercentToGainDb(n)) = n
<1>1. CASE n = 0
    <2>1. PercentToGainDb(0) = -6000
        BY DEF PercentToGainDb, Bounded, SilentGain
    <2> QED BY <1>1, <2>1 DEF GainDbToPercent, SilentGain
<1>2. CASE n # 0
    <2>1. (MaxGain - MinGain) \div 100 = 24
        BY DEF MaxGain, MinGain
    <2>2. n \in 1 .. 100
        BY <1>2 DEF Percents
    <2>3. PercentToGainDb(n) = 24 * n - 1800
        BY <2>1, <2>2 DEF PercentToGainDb, Bounded, MinGain
    <2>4. (100 * ((24 * n - 1800) - MinGain) + (MaxGain - MinGain) \div 2) = 2400 * n + 1200
        BY <2>2 DEF MaxGain, MinGain
    <2>5. (2400 * n + 1200) \div 2400 = n
        BY <2>2
    <2>6. MaxGain - MinGain = 2400
        BY DEF MaxGain, MinGain
    <2>7. Bounded(1, n, 100) = n
        BY <2>2 DEF Bounded
    <2>8. ~(24 * n - 1800 <= SilentGain)
        BY <2>2 DEF SilentGain
    <2>9. GainDbToPercent(24 * n - 1800) = n
        BY <2>4, <2>5, <2>6, <2>7, <2>8 DEF GainDbToPercent
    <2> QED BY <2>3, <2>9
<1> QED BY <1>1, <1>2

\* Silence belongs to the bottom of the travel alone, and the untouched sound to unity alone.
LEMMA GainIsOneToOne ==
    ASSUME NEW n \in Percents
    PROVE  /\ n = 0 <=> PercentToGainDb(n) = SilentGain
           /\ n = Unity <=> PercentToGainDb(n) = 0
<1>1. (MaxGain - MinGain) \div 100 = 24
    BY DEF MaxGain, MinGain
<1> QED BY <1>1 DEF Percents, PercentToGainDb, Bounded, MinGain, SilentGain, Unity

\* setValue() keeps the slider within its travel and the gain in step with it, whatever the value.
LEMMA SetsKeepsStep ==
    ASSUME NEW from \in Percents, NEW value \in Int, NEW g,
           g = PercentToGainDb(from), SetsSlider(from, g, value)
    PROVE  slider' \in Percents /\ gain' = PercentToGainDb(slider')
<1>1. slider' \in Percents
    BY DEF SetsSlider, Bounded, Percents
<1>2. gain' = PercentToGainDb(slider')
    BY DEF SetsSlider
<1> QED BY <1>1, <1>2

\* The window starts off, with the slider and the saved volume at unity.
LEMMA VInvInit == VolumeInit => VInv
<1>1. Unity \in Percents
    BY DEF Percents, Unity
<1> QED BY <1>1, Zenon DEF VolumeInit, VInv

\* Every move, save, stop and start keeps the gain in step with the slider.
LEMMA VInvStep == VInv /\ [VolumeNext]_volumeVars => VInv'
<1> SUFFICES ASSUME VInv, [VolumeNext]_volumeVars PROVE VInv'
    OBVIOUS
<1> USE DEF VInv
<1>1. ASSUME NEW n \in {-10, -1, 1, 10}, Moves(n) PROVE VInv'
    <2>1. slider + n \in Int
        BY <1>1 DEF Percents
    <2>2. slider' \in Percents /\ gain' = PercentToGainDb(slider')
        BY <1>1, <2>1, SetsKeepsStep DEF Moves
    <2> QED BY <1>1, <2>2 DEF Moves
<1>2. ASSUME NEW n \in {-5, 5}, StepsBy(n) PROVE VInv'
    <2>1. slider + n \in Int
        BY <1>2 DEF Percents
    <2>2. slider' \in Percents /\ gain' = PercentToGainDb(slider')
        BY <1>2, <2>1, SetsKeepsStep DEF StepsBy
    <2> QED BY <1>2, <2>2 DEF StepsBy
<1>3. CASE Releases
    BY <1>3 DEF Releases
<1>4. CASE VolumeStops
    BY <1>4 DEF VolumeStops
<1>5. CASE VolumeStarts
    <2>1. PercentToGainDb(Unity) = 0
        BY GainIsOneToOne DEF Unity, Percents
    <2>2. Unity \in Percents /\ volume \in Int
        BY DEF Unity, Percents
    <2>3. slider' \in Percents /\ gain' = PercentToGainDb(slider')
        BY <1>5, <2>1, <2>2, SetsKeepsStep DEF VolumeStarts
    <2> QED BY <1>5, <2>3 DEF VolumeStarts
<1>6. CASE UNCHANGED volumeVars
    BY <1>6 DEF volumeVars
<1> QED BY <1>1, <1>2, <1>3, <1>4, <1>5, <1>6 DEF VolumeNext

\* What the engine plays is what the slider shows, after any moves and restarts.
THEOREM GainFollows == VolumeSpec => []GainFollowsSlider
<1>1. VInv => GainFollowsSlider
    BY GainReadsBack, GainIsOneToOne DEF VInv, GainFollowsSlider
<1> QED BY <1>1, VInvInit, VInvStep, PTL DEF VolumeSpec

=============================================================================

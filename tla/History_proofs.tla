----------------------------- MODULE History_proofs -----------------------------
(***************************************************************************)
(* Proofs about History, for every capacity of the file and any number of   *)
(* calls.  The file is the log of CallLog because no record carries a later *)
(* place than `calls' counts; everything else follows from what one append  *)
(* does to a list.                                                          *)
(***************************************************************************)
EXTENDS History, TLAPS

\* A file with no records.
LEMMA NoRecords == << >> \in Seq(CallRecords) /\ Len(<< >>) = 0
OBVIOUS

\* What append() makes of a list: the record first, then the list without what no longer fits.
LEMMA Prepended ==
    ASSUME NEW list \in Seq(CallRecords), NEW r \in CallRecords
    PROVE  LET new == Trimmed(<< r >> \o list)
           IN  /\ new \in Seq(CallRecords)
               /\ Len(new) \in 1 .. MaxRecords
               /\ new[1] = r
               /\ \A i \in 2 .. Len(new) : i - 1 \in 1 .. Len(list) /\ new[i] = list[i - 1]
<1> DEFINE whole == << r >> \o list
<1>1. /\ whole \in Seq(CallRecords) /\ Len(whole) = Len(list) + 1 /\ whole[1] = r
      /\ \A i \in 2 .. Len(whole) : i - 1 \in 1 .. Len(list) /\ whole[i] = list[i - 1]
  OBVIOUS
<1>2. MaxRecords \in Nat /\ MaxRecords >= 1
  BY HistoryAssumption
<1> HIDE DEF whole
<1>3. CASE Len(whole) > MaxRecords
  <2>1. /\ SubSeq(whole, 1, MaxRecords) \in Seq(CallRecords)
        /\ Len(SubSeq(whole, 1, MaxRecords)) = MaxRecords
        /\ \A i \in 1 .. MaxRecords : SubSeq(whole, 1, MaxRecords)[i] = whole[i]
    BY <1>1, <1>2, <1>3
  <2> QED  BY <1>1, <1>2, <1>3, <2>1 DEF Trimmed, whole
<1>4. CASE ~(Len(whole) > MaxRecords)
  BY <1>1, <1>2, <1>4 DEF Trimmed, whole
<1> QED  BY <1>3, <1>4

\* The file against the calls so far: nothing in it is dated later, and it is the ordered,
\* bounded list that CallLog promises.
Dated == \A i \in DOMAIN history : history[i].at <= calls

HistoryInv == HistoryTypeOK /\ Dated /\ Log!NewestFirstBounded

\* What a writer does to the file, whoever calls it: a step of the log, or none.
LEMMA WriterKeeps ==
    ASSUME HistoryInv, NEW d \in BOOLEAN, up = TRUE, calls < MaxCalls,
           calls' = calls + 1, AppendToFile([at |-> calls + 1, dialled |-> d])
    PROVE  /\ history' \in Seq(CallRecords) /\ Len(history') <= MaxRecords /\ up' \in BOOLEAN
           /\ calls' \in 0 .. MaxCalls
           /\ Dated' /\ Log!NewestFirstBounded'
           /\ Log!LogNext \/ UNCHANGED history
<1> DEFINE r == [at |-> calls + 1, dialled |-> d]
<1>1. /\ calls \in 0 .. MaxCalls /\ MaxCalls \in Nat /\ MaxRecords \in Nat \ {0}
      /\ history \in Seq(CallRecords) /\ Len(history) <= MaxRecords
  BY HistoryAssumption DEF HistoryInv, HistoryTypeOK
<1>2. r \in CallRecords /\ r.at = calls + 1
  BY <1>1 DEF CallRecords
<1>3. \A i \in 1 .. Len(history) : history[i] \in CallRecords /\ history[i].at \in 1 .. MaxCalls
  <2>1. \A i \in 1 .. Len(history) : history[i] \in CallRecords  BY <1>1
  <2>2. \A x \in CallRecords : x.at \in 1 .. MaxCalls  BY DEF CallRecords
  <2> QED  BY <2>1, <2>2
<1>4. \A i \in 1 .. Len(history) : history[i].at <= calls
  BY <1>1 DEF HistoryInv, Dated
<1>5. \A i, j \in 1 .. Len(history) : i < j => history[i].at > history[j].at
  BY <1>1 DEF HistoryInv, Log!NewestFirstBounded
<1> HIDE DEF r
<1>7. ASSUME NEW loaded \in {history, << >>}, history' = Trimmed(<< r >> \o loaded), up' = up
      PROVE  /\ history' \in Seq(CallRecords) /\ Len(history') <= MaxRecords /\ up' \in BOOLEAN
             /\ calls' \in 0 .. MaxCalls
             /\ Dated' /\ Log!NewestFirstBounded' /\ Log!LogNext
  <2> DEFINE new == Trimmed(<< r >> \o loaded)
  <2>a. loaded = history \/ (loaded = << >> /\ Len(loaded) = 0)
    OBVIOUS
  <2>b. /\ loaded \in Seq(CallRecords)
        /\ \A i \in 1 .. Len(loaded) : /\ loaded[i] \in CallRecords
                                       /\ loaded[i].at \in 1 .. MaxCalls /\ loaded[i].at <= calls
        /\ \A i, j \in 1 .. Len(loaded) : i < j => loaded[i].at > loaded[j].at
    <3>1. CASE loaded = history  BY <3>1, <1>1, <1>3, <1>4, <1>5
    <3>2. CASE loaded = << >> /\ Len(loaded) = 0
      <4>1. 1 .. Len(loaded) = {}  BY <3>2
      <4> QED  BY <3>2, <4>1, NoRecords
    <3> QED  BY <2>a, <3>1, <3>2
  <2>c. /\ new \in Seq(CallRecords) /\ Len(new) \in 1 .. MaxRecords /\ new[1] = r
        /\ \A i \in 2 .. Len(new) : i - 1 \in 1 .. Len(loaded) /\ new[i] = loaded[i - 1]
    BY <1>2, <2>b, Prepended
  <2>d. history' = new  BY <1>7
  <2>n. history' = Log!Latest(<< r >> \o loaded)
    BY <1>7 DEF Trimmed, Log!Latest
  <2> HIDE DEF new
  <2>1. \A i \in 1 .. Len(new) : new[i].at <= calls + 1
    <3> SUFFICES ASSUME NEW i \in 1 .. Len(new)  PROVE new[i].at <= calls + 1
      OBVIOUS
    <3>1. CASE i = 1  BY <1>1, <1>2, <2>c, <3>1
    <3>2. CASE i # 1
      <4>1. i \in 2 .. Len(new)  BY <2>c, <3>2
      <4> QED  BY <1>1, <2>b, <2>c, <4>1
    <3> QED  BY <3>1, <3>2
  <2>2. \A i, j \in 1 .. Len(new) : i < j => new[i].at > new[j].at
    <3> SUFFICES ASSUME NEW i \in 1 .. Len(new), NEW j \in 1 .. Len(new), i < j
                 PROVE  new[i].at > new[j].at
      OBVIOUS
    <3>1. j \in 2 .. Len(new)  BY <2>c
    <3>2. j - 1 \in 1 .. Len(loaded) /\ new[j] = loaded[j - 1]  BY <2>c, <3>1
    <3>3. CASE i = 1  BY <1>1, <1>2, <2>b, <2>c, <3>2, <3>3
    <3>4. CASE i # 1
      <4>1. i \in 2 .. Len(new)  BY <2>c, <3>4
      <4>2. i - 1 \in 1 .. Len(loaded) /\ new[i] = loaded[i - 1] /\ i - 1 < j - 1
        BY <2>c, <4>1, <3>1
      <4> QED  BY <2>b, <3>2, <4>2
    <3> QED  BY <3>3, <3>4
  <2>3. Log!Recorded(r)
    <3>1. \A i \in DOMAIN history : history[i].at < r.at
      BY <1>1, <1>2, <1>3, <1>4
    <3> QED  BY <3>1, <2>n DEF Log!Recorded
  <2>4. DOMAIN new = 1 .. Len(new) /\ Len(new) <= MaxRecords
    BY <1>1, <2>c
  <2>5. up' \in BOOLEAN  BY <1>7
  <2>6. Log!LogNext  BY <1>2, <2>3 DEF Log!LogNext
  <2>7. Dated'  BY <2>d, <2>1, <2>4 DEF Dated
  <2>8. Log!NewestFirstBounded'  BY <2>d, <2>2, <2>4 DEF Log!NewestFirstBounded
  <2> QED  BY <1>1, <2>c, <2>d, <2>4, <2>5, <2>6, <2>7, <2>8
<1>8. CASE history' = history /\ up' = up
  <2>1. Dated'
    BY <1>1, <1>3, <1>4, <1>8 DEF Dated
  <2>2. Log!NewestFirstBounded'
    BY <1>8 DEF HistoryInv, Log!NewestFirstBounded
  <2> QED  BY <1>1, <1>8, <2>1, <2>2
<1>9. CASE history' = << >> /\ up' \in {up, FALSE}
  <2>1. Dated' /\ Log!NewestFirstBounded'
    BY <1>1, <1>9 DEF Dated, Log!NewestFirstBounded
  <2>2. Log!LogNext
    BY <1>9 DEF Log!LogNext, Log!Emptied
  <2>3. calls' \in 0 .. MaxCalls  BY <1>1
  <2>4. history' \in Seq(CallRecords) /\ Len(history') <= MaxRecords
    <3>1. history' = << >>  BY <1>9
    <3>2. 0 <= MaxRecords  BY <1>1
    <3> QED  BY <3>1, <3>2, NoRecords
  <2>5. up' \in BOOLEAN  BY <1>9
  <2> QED  BY <2>1, <2>2, <2>3, <2>4, <2>5
<1> QED  BY <1>7, <1>8, <1>9 DEF AppendToFile, r

\* The steps that leave the file and the count of calls alone.
LEMMA FileUntouched ==
    ASSUME HistoryInv, UNCHANGED << history, calls >>
    PROVE  Dated' /\ Log!NewestFirstBounded'
BY DEF HistoryInv, Dated, Log!NewestFirstBounded

\* A page that was just read, or failed to be, is well typed, and so is a key just refreshed.
LEMMA ShownIsTyped ==
    /\ \A list \in Seq(CallRecords) : PagesOf(list) \subseteq Listings
    /\ \A list : \A t \in BOOLEAN : CallKey(t, list) \subseteq KeyStates
<1>1. ASSUME NEW list \in Seq(CallRecords)  PROVE PagesOf(list) \subseteq Listings
  BY NoRecords DEF PagesOf, Listings
<1>2. ASSUME NEW list, NEW t \in BOOLEAN  PROVE CallKey(t, list) \subseteq KeyStates
  BY DEF CallKey, KeyStates
<1> QED  BY <1>1, <1>2

\* The same facts about a step of the window or of the process.
StepKeeps ==
    /\ HistoryInv'
    /\ Log!LogNext \/ UNCHANGED history

LEMMA HistoryStep ==
    ASSUME HistoryInv, [HistoryNext]_historyVars
    PROVE  StepKeeps
<1> USE DEF HistoryTypeOK
<1> HistoryTypeOK  BY DEF HistoryInv
<1>1. CASE UNCHANGED historyVars
  BY <1>1, FileUntouched DEF historyVars, StepKeeps, HistoryInv
<1>2. ASSUME NEW p \in Pages, ShowsPage(p)  PROVE StepKeeps
  <2>1. panel' \in Listings  BY <1>2, ShownIsTyped DEF ShowsPage
  <2> QED  BY <1>2, <2>1, FileUntouched DEF ShowsPage, StepKeeps, HistoryInv
<1>3. ASSUME NEW t \in BOOLEAN, Types(t)  PROVE StepKeeps
  <2>1. callKey' \in KeyStates  BY <1>3, ShownIsTyped DEF Types
  <2> QED  BY <1>3, <2>1, FileUntouched DEF Types, StepKeeps, HistoryInv
<1>4. ASSUME NEW t \in BOOLEAN, AnswersClear(t)  PROVE StepKeeps
  <2>1. CASE UNCHANGED history
    <3>1. panel' \in Listings  BY <1>4, <2>1, ShownIsTyped DEF AnswersClear
    <3> QED  BY <1>4, <2>1, <3>1, FileUntouched DEF AnswersClear, StepKeeps, HistoryInv
  <2>2. CASE history' = << >>
    <3>1. MaxRecords \in Nat  BY HistoryAssumption
    <3>2. history' \in Seq(CallRecords) /\ Len(history') <= MaxRecords
      BY <2>2, <3>1, NoRecords
    <3>3. panel' \in Listings  BY <1>4, <3>2, ShownIsTyped DEF AnswersClear
    <3>4. Dated' /\ Log!NewestFirstBounded'
      BY <2>2, <3>1 DEF Dated, Log!NewestFirstBounded
    <3>5. Log!LogNext  BY <2>2 DEF Log!LogNext, Log!Emptied
    <3>6. asking /\ ~asking' /\ up' = up  BY <1>4 DEF AnswersClear
    <3>7. asking' \in BOOLEAN /\ UNCHANGED << up, page, line, typed, callKey, calls >>
      BY <1>4 DEF AnswersClear
    <3>8. HistoryTypeOK'
      BY <3>2, <3>3, <3>6, <3>7
    <3> QED  BY <3>4, <3>5, <3>6, <3>8 DEF StepKeeps, HistoryInv
  <2> QED  BY <1>4, <2>1, <2>2 DEF AnswersClear
<1>5. CASE PressesCallKey
  BY <1>5, FileUntouched DEF PressesCallKey, Lines, StepKeeps, HistoryInv
<1>6. CASE CallsARow
  BY <1>6, FileUntouched DEF CallsARow, Lines, Pages, KeyStates, StepKeeps, HistoryInv
<1>7. CASE Rings
  BY <1>7, FileUntouched DEF Rings, Lines, StepKeeps, HistoryInv
<1>8. CASE CallEnds
  <2>1. PICK d \in BOOLEAN : Records([at |-> calls + 1, dialled |-> d])
    BY <1>8 DEF CallEnds
  <2>2. /\ history' \in Seq(CallRecords) /\ Len(history') <= MaxRecords /\ up' \in BOOLEAN
        /\ calls' \in 0 .. MaxCalls /\ Dated' /\ Log!NewestFirstBounded'
        /\ Log!LogNext \/ UNCHANGED history
    BY <1>8, <2>1, WriterKeeps DEF CallEnds, Records
  <2>3. panel' \in Listings  BY <2>1, <2>2, ShownIsTyped DEF Records, Reload
  <2>4. callKey' \in KeyStates /\ typed' \in BOOLEAN /\ line' \in Lines /\ page' \in Pages
    BY <1>8, ShownIsTyped DEF CallEnds, Lines
  <2>5. asking' \in BOOLEAN /\ (asking' => up')
    BY <1>8, <2>2 DEF CallEnds
  <2> QED  BY <2>2, <2>3, <2>4, <2>5 DEF StepKeeps, HistoryInv
<1>9. CASE AutoHandled
  <2>1. Records([at |-> calls + 1, dialled |-> FALSE]) /\ up = TRUE
    BY <1>9 DEF AutoHandled
  <2>2. /\ history' \in Seq(CallRecords) /\ Len(history') <= MaxRecords /\ up' \in BOOLEAN
        /\ calls' \in 0 .. MaxCalls /\ Dated' /\ Log!NewestFirstBounded'
        /\ Log!LogNext \/ UNCHANGED history
    BY <2>1, WriterKeeps DEF Records
  <2>3. panel' \in Listings  BY <2>1, <2>2, ShownIsTyped DEF Records, Reload
  <2>4. asking' \in BOOLEAN /\ (asking' => up')
    BY <1>9, <2>2 DEF AutoHandled
  <2> QED  BY <1>9, <2>2, <2>3, <2>4 DEF AutoHandled, StepKeeps, HistoryInv
<1>10. CASE AsksToClear
  BY <1>10, FileUntouched DEF AsksToClear, StepKeeps, HistoryInv
<1>11. CASE Stops
  BY <1>11, FileUntouched DEF Stops, StepKeeps, HistoryInv
<1>12. CASE Starts
  <2>1. callKey' \in KeyStates /\ panel' \in Listings
    BY <1>12, ShownIsTyped DEF Starts
  <2> QED  BY <1>12, <2>1, FileUntouched DEF Starts, Lines, Pages, StepKeeps, HistoryInv
<1> QED
  BY <1>1, <1>2, <1>3, <1>4, <1>5, <1>6, <1>7, <1>8, <1>9, <1>10, <1>11, <1>12 DEF HistoryNext

LEMMA HistoryStart == HistoryInit => HistoryInv
<1> SUFFICES ASSUME HistoryInit  PROVE HistoryInv
  OBVIOUS
<1>1. MaxRecords \in Nat /\ MaxCalls \in Nat  BY HistoryAssumption
<1>2. history = << >> /\ calls = 0  BY DEF HistoryInit
<1>3. /\ history \in Seq(CallRecords) /\ Len(history) <= MaxRecords
      /\ panel \in Listings /\ calls \in 0 .. MaxCalls
  <2>1. panel \in PagesOf(<< >>)  BY DEF HistoryInit
  <2>2. panel \in Listings  BY <2>1, NoRecords, ShownIsTyped
  <2> QED  BY <1>1, <1>2, <2>2, NoRecords
<1>4. HistoryTypeOK
  BY <1>3 DEF HistoryInit, HistoryTypeOK, Pages, Lines, KeyStates
<1>5. Dated /\ Log!NewestFirstBounded
  BY <1>1, <1>2 DEF Dated, Log!NewestFirstBounded
<1> QED  BY <1>4, <1>5 DEF HistoryInv

\* The inductive invariant: types, no record dated after the last call, and the log's order and
\* bound, "newest first" and at most kMaxRecords, through failed writes, kills and restarts.
THEOREM HistorySound == HistorySpec => []HistoryInv
<1>1. HistoryInv /\ [HistoryNext]_historyVars => HistoryInv'
  BY HistoryStep DEF StepKeeps
<1> QED  BY <1>1, HistoryStart, PTL DEF HistorySpec

\* The file and the members of the window keep their types and the file its bound.
THEOREM HistoryTypeCorrect == HistorySpec => []HistoryTypeOK
<1>1. HistoryInv => HistoryTypeOK  BY DEF HistoryInv
<1> QED  BY <1>1, HistorySound, PTL

\* The file implements the abstract log: it starts empty and every step of the program is one of
\* the log's or leaves it alone.
THEOREM HistoryKeepsTheLog == HistorySpec => KeepsTheLog
<1>1. HistoryInit => Log!Empty
  BY DEF HistoryInit, Log!Empty
<1>2. HistoryInv /\ [HistoryNext]_historyVars => [Log!LogNext]_history
  BY HistoryStep DEF StepKeeps
<1> QED  BY <1>1, <1>2, HistorySound, PTL DEF HistorySpec, KeepsTheLog, Log!LogSpec

\* The rows of the history page are the file, whoever wrote to it last.
THEOREM PageIsCurrent == HistorySpec => []HistoryPageIsCurrent
<1>1. HistoryInit => HistoryPageIsCurrent
  BY DEF HistoryInit, HistoryPageIsCurrent, PagesOf
<1>2. ASSUME HistoryPageIsCurrent, [HistoryNext]_historyVars  PROVE HistoryPageIsCurrent'
  <2> USE DEF HistoryPageIsCurrent
  <2>1. \A list : \A p \in PagesOf(list) : p.read => p.rows = list
    BY DEF PagesOf
  <2>2. CASE \E p \in Pages : ShowsPage(p)
    BY <1>2, <2>1, <2>2 DEF ShowsPage
  <2>3. CASE \E yes \in BOOLEAN : AnswersClear(yes)
    BY <1>2, <2>1, <2>3 DEF AnswersClear
  <2>4. CASE CallEnds \/ AutoHandled
    <3>1. Reload /\ page' = page  BY <2>4 DEF CallEnds, AutoHandled, Records
    <3> QED  BY <2>1, <3>1 DEF Reload
  <2>5. CASE Starts
    BY <2>5 DEF Starts
  <2>6. CASE (\E t \in BOOLEAN : Types(t)) \/ UNCHANGED historyVars
    BY <1>2, <2>6 DEF Types, historyVars
  <2>7. CASE PressesCallKey \/ CallsARow \/ Rings \/ AsksToClear \/ Stops
    BY <1>2, <2>7 DEF PressesCallKey, CallsARow, Rings, AsksToClear, Stops
  <2> QED  BY <1>2, <2>2, <2>3, <2>4, <2>5, <2>6, <2>7 DEF HistoryNext
<1> QED  BY <1>1, <1>2, PTL DEF HistorySpec

\* A dialled call on record can be dialled again as soon as the line is idle.
THEOREM RedialAlwaysComesBack == HistorySpec => []RedialComesBack
<1>1. HistoryInit => RedialComesBack
  BY DEF HistoryInit, RedialComesBack, HasDialled
<1>2. ASSUME HistoryInv, RedialComesBack, [HistoryNext]_historyVars
      PROVE  RedialComesBack'
  <2>1. CASE AutoHandled
    <3> SUFFICES ASSUME up', line' = "idle", HasDialled(history')  PROVE callKey' # "off"
      BY DEF RedialComesBack
    <3> DEFINE r == [at |-> calls + 1, dialled |-> FALSE]
    <3>1. /\ up = TRUE /\ calls < MaxCalls /\ AppendToFile(r)
          /\ line' = line /\ callKey' = callKey
      BY <2>1 DEF AutoHandled, Records
    <3>2. history \in Seq(CallRecords) /\ calls \in 0 .. MaxCalls /\ MaxCalls \in Nat
      BY <1>2, HistoryAssumption DEF HistoryInv, HistoryTypeOK
    <3>3. r \in CallRecords  BY <3>1, <3>2 DEF CallRecords
    <3>r. PICK loaded \in {history, << >>} :
            \/ history' = Trimmed(<< r >> \o loaded)
            \/ history' = history
            \/ history' = << >>
      BY <3>1 DEF AppendToFile
    <3>s. loaded \in Seq(CallRecords)  BY <3>2, NoRecords
    <3>4. CASE history' = Trimmed(<< r >> \o loaded)
      <4>1. /\ history' \in Seq(CallRecords) /\ history'[1] = r
            /\ \A i \in 2 .. Len(history') :
                   i - 1 \in 1 .. Len(loaded) /\ history'[i] = loaded[i - 1]
        BY <3>s, <3>3, <3>4, Prepended
      <4>2. PICK i \in 1 .. Len(history') : history'[i].dialled
        BY <4>1 DEF HasDialled
      <4>3. i # 1  BY <4>1, <4>2
      <4>4. i - 1 \in DOMAIN loaded /\ loaded[i - 1].dialled
        BY <3>s, <4>1, <4>2, <4>3
      <4>5. loaded # << >>  BY <3>s, <4>4
      <4> QED  BY <4>5, <1>2, <3>1, <4>4 DEF RedialComesBack, HasDialled
    <3>5. CASE history' = history
      BY <1>2, <3>1, <3>5 DEF RedialComesBack
    <3>6. CASE history' = << >>
      BY <3>6 DEF HasDialled
    <3> QED  BY <3>r, <3>4, <3>5, <3>6
  <2>2. CASE \E t \in BOOLEAN : AnswersClear(t)
    <3>1. history' = << >> \/ history' = history  BY <2>2 DEF AnswersClear
    <3>2. up' = up /\ line' = line /\ callKey' = callKey  BY <2>2 DEF AnswersClear
    <3> QED  BY <1>2, <3>1, <3>2 DEF RedialComesBack, HasDialled
  <2>3. CASE \E t \in BOOLEAN : Types(t)
    BY <2>3 DEF Types, CallKey, HasDialled, RedialComesBack
  <2>4. CASE CallEnds
    BY <2>4 DEF CallEnds, CallKey, HasDialled, RedialComesBack
  <2>5. CASE Starts
    BY <2>5 DEF Starts, CallKey, HasDialled, RedialComesBack
  <2>6. CASE PressesCallKey \/ CallsARow \/ Rings \/ Stops
    BY <1>2, <2>6 DEF PressesCallKey, CallsARow, Rings, Stops, RedialComesBack
  <2>7. CASE AsksToClear \/ (\E p \in Pages : ShowsPage(p)) \/ UNCHANGED historyVars
    BY <1>2, <2>7 DEF AsksToClear, ShowsPage, historyVars, RedialComesBack
  <2> QED
    BY <1>2, <2>1, <2>2, <2>3, <2>4, <2>5, <2>6, <2>7 DEF HistoryNext
<1> QED  BY <1>1, <1>2, HistorySound, PTL DEF HistorySpec

=============================================================================

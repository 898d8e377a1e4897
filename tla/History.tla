-------------------------------- MODULE History --------------------------------
(***************************************************************************)
(* The call history: CallHistoryStore's file, the page that shows it, and  *)
(* the window that writes to it and offers its last number for redial.     *)
(* Every append reads the file, prepends, trims, truncates and writes, and *)
(* each of these may fail without the program taking notice.               *)
(***************************************************************************)
EXTENDS Integers, Sequences

CONSTANTS
    MaxRecords, \* kMaxRecords
    MaxCalls    \* bound: the calls of a behaviour

ASSUME HistoryAssumption == MaxRecords \in Nat \ {0} /\ MaxCalls \in Nat

VARIABLES
    up,         \* the process runs
    history,    \* call_history.json, as load() reads it when it opens
    panel,      \* the history page: its rows, and whether load() could open the file for them
    page,       \* the page of m_mainStack
    asking,     \* the "Apagar todas" question is open, in a nested loop
    line,       \* idle, or whose call m_currentCallPeer is
    typed,      \* the display holds a number
    callKey,    \* the call key of an idle line: "on", "off", or "unread", which is off for
                \* want of a file that opens
    calls       \* calls recorded so far, which dates them

historyVars == << up, history, panel, page, asking, line, typed, callKey, calls >>

Pages == {"dialer", "contacts", "history"}
Lines == {"idle", "dialled", "received"}
KeyStates == {"on", "off", "unread"}
CallRecords == [at : 1 .. MaxCalls, dialled : BOOLEAN]

\* What the page may show: a page whose file did not open has no rows.
Listings == {p \in [read : BOOLEAN, rows : Seq(CallRecords)] : p.read \/ p.rows = << >>}

Log == INSTANCE CallLog WITH log <- history, Records <- CallRecords, Capacity <- MaxRecords

-------------------------------------------------------------------------------
(* Building blocks. *)

\* Fault: the list is trimmed to one more than fits.
TrimmedLate(list) == IF Len(list) > MaxRecords + 1 THEN SubSeq(list, 1, MaxRecords + 1) ELSE list

\* The while loop of append(): removeLast() until the list fits.
Trimmed(list) == IF Len(list) > MaxRecords THEN SubSeq(list, 1, MaxRecords) ELSE list

\* lastDialedNumber() finds one.
HasDialled(list) == \E i \in DOMAIN list : list[i].dialled

\* The values refreshIdleActionButton() may give the key: "Ligar" with a number typed, "Rediscar"
\* with one to bring back.  The file may not open.
CallKey(t, list) == IF t THEN {"on"} ELSE {IF HasDialled(list) THEN "on" ELSE "off", "unread"}

\* The pages reload() may show: the file, or no rows when it does not open.
PagesOf(list) == {[read |-> TRUE, rows |-> list], [read |-> FALSE, rows |-> << >>]}

\* Fault: the record goes to the end of the list.
AppendAtEnd(r) ==
    \/ \E loaded \in {history, << >>} : history' = Trimmed(loaded \o << r >>) /\ up' = up
    \/ history' = history /\ up' = up
    \/ history' = << >> /\ up' \in {up, FALSE}

\* CallHistoryStore::append().  Its load() may not open the file, which reads as no records; it
\* may not open for writing; and once it is truncated, the write may fail, unnoticed, or the
\* process be killed before it: what is left then reads as no records.
AppendToFile(r) ==
    \/ \E loaded \in {history, << >>} : history' = Trimmed(<< r >> \o loaded) /\ up' = up
    \/ history' = history /\ up' = up
    \/ history' = << >> /\ up' \in {up, FALSE}

\* What both writers do after the append.
Reload == IF page = "history" THEN panel' \in PagesOf(history') ELSE panel' = panel

Records(r) ==
    /\ calls < MaxCalls /\ calls' = calls + 1
    /\ AppendToFile(r) /\ Reload

-------------------------------------------------------------------------------
(* The window. *)

\* showPage().
ShowsPage(p) ==
    /\ up /\ ~asking /\ page' = p
    /\ IF p = "history" THEN panel' \in PagesOf(history) ELSE panel' = panel
    /\ UNCHANGED << up, history, asking, line, typed, callKey, calls >>

\* The display changes; textChanged refreshes the key while the line is idle.
Types(t) ==
    /\ up /\ ~asking /\ line = "idle"
    /\ typed' = t /\ callKey' \in CallKey(t, history)
    /\ UNCHANGED << up, history, panel, page, asking, line, calls >>

\* The call key on an idle line: a first press brings the last number back, a second dials.
PressesCallKey ==
    /\ up /\ ~asking /\ line = "idle" /\ callKey = "on"
    /\ IF typed
       THEN line' = "dialled" /\ UNCHANGED << typed, callKey >>
       ELSE /\ HasDialled(history) /\ typed' = TRUE /\ UNCHANGED << callKey, line >>
    /\ UNCHANGED << up, history, panel, page, asking, calls >>

\* startCallTo() from a row of either list.
CallsARow ==
    /\ up /\ ~asking /\ line = "idle"
    /\ page = "contacts" \/ (page = "history" /\ panel.rows # << >>)
    /\ page' = "dialer" /\ typed' = TRUE /\ callKey' = "on" /\ line' = "dialled"
    /\ UNCHANGED << up, history, panel, asking, calls >>

Rings ==
    /\ up /\ line = "idle" /\ line' = "received"
    /\ UNCHANGED << up, history, panel, page, asking, typed, callKey, calls >>

\* Fault: the screen goes idle, and its key with it, before the call is recorded.
CallEndsKeyFirst ==
    /\ up /\ line # "idle"
    /\ Records([at |-> calls + 1, dialled |-> line = "dialled"])
    /\ line' = "idle" /\ typed' = FALSE /\ callKey' \in CallKey(FALSE, history)
    /\ asking' = (asking /\ up') /\ UNCHANGED page

\* onCallEnded(): recordCallInHistory, then the display is cleared and the key refreshed.
CallEnds ==
    /\ up /\ line # "idle"
    /\ Records([at |-> calls + 1, dialled |-> line = "dialled"])
    /\ line' = "idle" /\ typed' = FALSE /\ callKey' \in CallKey(FALSE, history')
    /\ asking' = (asking /\ up') /\ UNCHANGED page

\* onCallAutoHandled(): a call declined by do-not-disturb or diverted never had the line.
AutoHandled ==
    /\ up /\ Records([at |-> calls + 1, dialled |-> FALSE])
    /\ asking' = (asking /\ up') /\ UNCHANGED << page, line, typed, callKey >>

AsksToClear ==
    /\ up /\ ~asking /\ page = "history" /\ asking' = TRUE
    /\ UNCHANGED << up, history, panel, page, line, typed, callKey, calls >>

\* Fault: the rows are taken away and the file is left to the next append.
AnswersWithoutFile(yes) ==
    /\ up /\ asking /\ asking' = FALSE
    /\ panel' = IF yes THEN [read |-> TRUE, rows |-> << >>] ELSE panel
    /\ UNCHANGED << up, history, page, line, typed, callKey, calls >>

\* The answer: clear() removes the file, unless another program holds it.
AnswersClear(yes) ==
    /\ up /\ asking /\ asking' = FALSE
    /\ \/ yes /\ history' \in {<< >>, history} /\ panel' \in PagesOf(history')
       \/ ~yes /\ UNCHANGED << history, panel >>
    /\ UNCHANGED << up, page, line, typed, callKey, calls >>

-------------------------------------------------------------------------------
(* The process. *)

\* Quit from the tray closes the question unanswered; a kill does the same.
Stops ==
    /\ up /\ up' = FALSE /\ asking' = FALSE
    /\ UNCHANGED << history, panel, page, line, typed, callKey, calls >>

\* The constructor: the page loads the file, the screen is idle and the key refreshed.
Starts ==
    /\ ~up /\ up' = TRUE /\ page' = "dialer" /\ panel' \in PagesOf(history)
    /\ line' = "idle" /\ typed' = FALSE /\ callKey' \in CallKey(FALSE, history)
    /\ UNCHANGED << history, asking, calls >>

HistoryInit ==
    /\ up = TRUE /\ history = << >> /\ panel \in PagesOf(<< >>) /\ page = "dialer" /\ asking = FALSE
    /\ line = "idle" /\ typed = FALSE /\ callKey = "off" /\ calls = 0

HistoryNext ==
    \/ \E p \in Pages : ShowsPage(p)
    \/ \E t \in BOOLEAN : Types(t) \/ AnswersClear(t)
    \/ PressesCallKey \/ CallsARow \/ Rings \/ CallEnds \/ AutoHandled \/ AsksToClear
    \/ Stops \/ Starts

HistorySpec == HistoryInit /\ [][HistoryNext]_historyVars

-------------------------------------------------------------------------------
(* Properties. *)

\* The file is a list of at most kMaxRecords call records ("a softphone can run for years"), and
\* only a running window asks a question.
HistoryTypeOK ==
    /\ up \in BOOLEAN /\ page \in Pages /\ line \in Lines /\ calls \in 0 .. MaxCalls
    /\ history \in Seq(CallRecords) /\ Len(history) <= MaxRecords
    /\ panel \in Listings
    /\ asking \in BOOLEAN /\ typed \in BOOLEAN /\ callKey \in KeyStates /\ (asking => up)

\* The file, through failed reads and writes, kills and restarts, is the log CallLog describes: a
\* record that is written comes first, before the latest ones kept or alone, only the oldest make
\* way for it, and nothing that went comes back.
KeepsTheLog == Log!LogSpec

\* "never show a stale list": while the history page is up, its rows are the file, whoever
\* recorded last and whatever dialog was open meanwhile; but for a file that did not open.
HistoryPageIsCurrent == up /\ page = "history" /\ panel.read => panel.rows = history

\* Whenever the line is idle and some dialled call is on record, the call key is enabled, so that
\* the number just used can be dialled again: across restarts, received calls and failed writes,
\* but for a file that did not open when the key was last refreshed.
RedialComesBack == up /\ line = "idle" /\ HasDialled(history) => callKey # "off"

=============================================================================

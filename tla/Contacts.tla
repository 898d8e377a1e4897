------------------------------- MODULE Contacts --------------------------------
(***************************************************************************)
(* The contacts page: the contacts the user keeps (LocalContactsStore), the *)
(* list downloaded from a server (ContactsXmlFetcher), the panel that shows *)
(* both, and the settings that choose the server and whether its list       *)
(* replaces the user's own.  Replies come from the event loop, so they also *)
(* come while a dialog spins a loop of its own.                             *)
(***************************************************************************)
EXTENDS Integers, Sequences, SequencesExt

CONSTANTS
    People,         \* the contacts a user can type, each with a number
    Urls,           \* the servers' addresses
    NoUrl,          \* a blank address
    Refresh,        \* the refresh attribute of the lists, in minutes
    MaxContacts,    \* bound: contacts on the list
    MaxRequests     \* bound: requests in flight

ASSUME ContactsAssumption ==
    NoUrl \notin Urls /\ Refresh \subseteq Nat /\ MaxContacts \in Nat /\ MaxRequests \in Nat

VARIABLES
    running,        \* the process
    contactsFile,   \* contacts_local.json, as load() reads it
    localContacts,  \* m_localContacts
    remoteContacts, \* m_remoteContacts: none yet, a whole list, the part before an error, or what
                    \* a page that is no list comes to
    asked,          \* the refresh attribute that came with it, in minutes
    message,        \* m_messageLabel: nothing yet, the count of a list, or why it failed
    refreshTimer,   \* the interval m_autoRefreshTimer runs with, in 32 ms, or 0
    replaceLocal,   \* contacts/replaceLocal in the settings
    savedUrl,       \* contacts/url in the settings
    url,            \* m_url
    flying,         \* requests not answered yet, whatever address they went to
    dialog          \* the modal dialog that is open

store == << contactsFile, localContacts >>
server == << remoteContacts, asked, message, refreshTimer >>
options == << replaceLocal, savedUrl, url >>
contactsVars == << running, store, server, options, flying, dialog >>

Lists == UNION {[1 .. n -> People] : n \in 0 .. MaxContacts}

\* An edit or a removal keeps its row over a nested loop; `shown' is the contact the user sees in
\* it, and `inStep' says that the list was the file when it opened.  The warning about a ringtone
\* holds back the choice to replace.
Dialogs ==
    [kind : {"none", "settings", "add"}]
    \cup [kind : {"edit", "remove"}, at : 1 .. MaxContacts, shown : People, inStep : BOOLEAN]
    \cup [kind : {"warning"}, replaces : BOOLEAN, under : {"none", "settings"}]

Closed == [kind |-> "none"]

\* What an answer without an error may bring.
Replies == {"whole", "part", "page"}

-------------------------------------------------------------------------------
(* Building blocks. *)

\* m_networkManager->get(): what is in flight stays in flight.
Requests == flying < MaxRequests /\ flying' = flying + 1

\* fetch(): without an address, only a message.
Fetch ==
    \/ url # NoUrl /\ Requests /\ UNCHANGED message
    \/ url = NoUrl /\ message' = "failed" /\ UNCHANGED flying

\* minutes * 60 * 1000 in a 32-bit int, in units of 32 ms: from 35792 minutes on it wraps.
Interval(minutes) ==
    LET wide == (minutes * 1875) % 2^27 IN IF wide >= 2^26 THEN wide - 2^27 ELSE wide

\* What m_autoRefreshTimer may run with after scheduleAutoRefresh().  It is stopped for 0; of an
\* interval that wrapped, QTimer makes no timer or one that fires at once, as its version has it.
AutoRefresh(minutes) ==
    IF minutes > 0 THEN IF Interval(minutes) > 0 THEN {Interval(minutes)} ELSE {0, 1} ELSE {0}

\* load(): a file that does not open reads as no contacts.
Loads == localContacts' \in {contactsFile', << >>}

\* save(): the file is written, or does not open, or is truncated and the write fails unnoticed.
Saves(list) == localContacts' = list /\ contactsFile' \in {list, contactsFile, << >>}

\* The memory of the process is gone.
Ends ==
    /\ running' = FALSE /\ localContacts' = << >> /\ url' = NoUrl
    /\ remoteContacts' = "none" /\ asked' = 0 /\ message' = "none" /\ refreshTimer' = 0
    /\ flying' = 0 /\ dialog' = Closed

-------------------------------------------------------------------------------
(* The server's answers, out of the event loop. *)

\* Fault: an answer is taken for a request there is no more, of a process that has gone.
AnsweredLate == running /\ flying' = flying - 1

Answered == running /\ flying > 0 /\ flying' = flying - 1

\* Fault: a list that cannot be had is no reason to ask again.
ReplyFailsStopping ==
    /\ Answered /\ message' = "failed" /\ refreshTimer' = 0
    /\ UNCHANGED << running, store, remoteContacts, asked, options, dialog >>

\* onReplyFinished() with a network error: only the message, the timer keeps its pace.
ReplyFails ==
    /\ Answered /\ message' = "failed"
    /\ UNCHANGED << running, store, remoteContacts, asked, refreshTimer, options, dialog >>

\* Fault: the file is cleared and the panel keeps its copy.
OnContactsUpdatedNoReload(list) ==
    /\ IF replaceLocal
       THEN contactsFile' \in {<< >>, contactsFile} /\ UNCHANGED localContacts
       ELSE UNCHANGED store
    /\ remoteContacts' = list /\ message' = "listed"

\* Fault: the user's contacts go with every list.
OnContactsUpdatedAlways(list) ==
    /\ contactsFile' \in {<< >>, contactsFile} /\ Loads
    /\ remoteContacts' = list /\ message' = "listed"

\* onContactsUpdated(): the option is read now; a file that cannot be removed is read again.
OnContactsUpdated(list) ==
    /\ IF replaceLocal
       THEN contactsFile' \in {<< >>, contactsFile} /\ Loads
       ELSE UNCHANGED store
    /\ remoteContacts' = list /\ message' = "listed"

\* onReplyFinished() without one.  Parsing stops at an error and keeps what it has: a cut list
\* and a page that is no list at all are lists too, the latter empty and with refresh 0.
ReplyArrives(list, minutes) ==
    /\ Answered /\ (list = "page" => minutes = 0)
    /\ asked' = minutes /\ refreshTimer' \in AutoRefresh(minutes)
    /\ OnContactsUpdated(list)
    /\ UNCHANGED << running, options, dialog >>


\* m_autoRefreshTimer, which is not single-shot.
TimerFires ==
    /\ running /\ refreshTimer > 0 /\ Fetch
    /\ UNCHANGED << running, store, remoteContacts, asked, refreshTimer, options, dialog >>

-------------------------------------------------------------------------------
(* The user on the contacts page. *)

Idle == running /\ dialog.kind = "none"

PressesRefresh ==
    /\ Idle /\ Fetch
    /\ UNCHANGED << running, store, remoteContacts, asked, refreshTimer, options, dialog >>

Opens(d) == Idle /\ dialog' = d /\ UNCHANGED << running, store, server, options, flying >>

\* editSelected() and removeSelected() up to exec(): a row of the user's own.
OpensRow(kind, i) ==
    /\ i \in DOMAIN localContacts
    /\ Opens([kind |-> kind, at |-> i, shown |-> localContacts[i],
              inStep |-> localContacts = contactsFile])

OpensSettingsOrAdd == \E kind \in {"settings", "add"} : Opens([kind |-> kind])

\* A dialog that was not accepted.
Cancels ==
    /\ running /\ dialog.kind \in {"settings", "add", "edit", "remove"} /\ dialog' = Closed
    /\ UNCHANGED << running, store, server, options, flying >>

Accepts(list) ==
    /\ Saves(list) /\ dialog' = Closed
    /\ UNCHANGED << running, server, options, flying >>

AcceptsAdd(c) ==
    /\ running /\ dialog.kind = "add" /\ Len(localContacts) < MaxContacts
    /\ Accepts(Append(localContacts, c))

\* The row of the dialog is still a row of the list.
RowStays == dialog.kind \in {"edit", "remove"} /\ dialog.at \in DOMAIN localContacts

\* Fault: the row is the one that is last when the dialog closes.
AcceptsEditLast(c) ==
    /\ running /\ RowStays /\ dialog.kind = "edit"
    /\ Accepts([localContacts EXCEPT ![Len(localContacts)] = c])

AcceptsEdit(c) ==
    /\ running /\ RowStays /\ dialog.kind = "edit"
    /\ Accepts([localContacts EXCEPT ![dialog.at] = c])

AcceptsRemove ==
    /\ running /\ RowStays /\ dialog.kind = "remove"
    /\ Accepts(RemoveAt(localContacts, dialog.at))

\* A download has cleared the list under the dialog and the index is past its end.  The access is
\* undefined: the process does not survive it, or goes on to save the list as it is.
AcceptsGoneRow ==
    /\ running /\ dialog.kind \in {"edit", "remove"} /\ ~RowStays
    /\ \/ Ends /\ UNCHANGED << contactsFile, replaceLocal, savedUrl >>
       \/ Accepts(localContacts)

\* The process is killed between the truncation and the write: no contacts are left to read.
KilledWhileSaving ==
    /\ running /\ dialog.kind \in {"add", "edit", "remove"}
    /\ contactsFile' = << >> /\ Ends /\ UNCHANGED << replaceLocal, savedUrl >>

-------------------------------------------------------------------------------
(* The settings. *)

\* Fault: the address is used only if none was.
AppliesUrlOnce(u) ==
    \/ u # NoUrl /\ Requests /\ url' = IF url = NoUrl THEN u ELSE url
    \/ u = NoUrl /\ UNCHANGED << url, flying >>

\* The end of applyProfile(): a blank address leaves the one in use alone.
AppliesUrl(u) ==
    \/ u # NoUrl /\ Requests /\ url' = u
    \/ u = NoUrl /\ UNCHANGED << url, flying >>

\* onSettingsApplied(), from Save, which closes the dialog, or from an import, which does not.
\* A ringtone that cannot be read stops it at a warning; replaceLocal is saved last of all.
AppliesSettings(u, replaces, badRingtone, under) ==
    /\ running /\ dialog.kind = "settings"
    /\ AppliesUrl(u) /\ savedUrl' = u
    /\ IF badRingtone
       THEN /\ dialog' = [kind |-> "warning", replaces |-> replaces, under |-> under]
            /\ UNCHANGED replaceLocal
       ELSE dialog' = [kind |-> under] /\ replaceLocal' = replaces
    /\ UNCHANGED << running, store, server >>

DismissesWarning ==
    /\ running /\ dialog.kind = "warning"
    /\ replaceLocal' = dialog.replaces /\ dialog' = [kind |-> dialog.under]
    /\ UNCHANGED << running, store, server, savedUrl, url, flying >>

-------------------------------------------------------------------------------
(* The process. *)

\* Quit from the tray ends every nested loop: a dialog counts as cancelled, and a handler that
\* waited for a warning runs to its end.
Quits ==
    /\ running /\ Ends
    /\ replaceLocal' = IF dialog.kind = "warning" THEN dialog.replaces ELSE replaceLocal
    /\ UNCHANGED << contactsFile, savedUrl >>

Dies == running /\ Ends /\ UNCHANGED << contactsFile, replaceLocal, savedUrl >>

\* The constructor: the panel loads the file, the saved profile is applied.
Launches ==
    /\ ~running /\ running' = TRUE
    /\ UNCHANGED contactsFile /\ Loads
    /\ AppliesUrl(savedUrl)
    /\ UNCHANGED << server, replaceLocal, savedUrl, dialog >>

ContactsInit ==
    /\ running = FALSE /\ contactsFile = << >> /\ localContacts = << >>
    /\ remoteContacts = "none" /\ asked = 0 /\ message = "none" /\ refreshTimer = 0
    /\ replaceLocal = FALSE /\ savedUrl = NoUrl /\ url = NoUrl
    /\ flying = 0 /\ dialog = Closed

Server ==
    \/ ReplyFails
    \/ \E list \in Replies, minutes \in Refresh : ReplyArrives(list, minutes)
    \/ TimerFires

Page ==
    \/ PressesRefresh \/ OpensSettingsOrAdd \/ Cancels \/ AcceptsRemove \/ AcceptsGoneRow
    \/ \E kind \in {"edit", "remove"}, i \in 1 .. MaxContacts : OpensRow(kind, i)
    \/ \E c \in People : AcceptsAdd(c) \/ AcceptsEdit(c)

Settings ==
    \/ \E u \in Urls \cup {NoUrl}, replaces, bad \in BOOLEAN, under \in {"none", "settings"} :
           AppliesSettings(u, replaces, bad, under)
    \/ DismissesWarning

ContactsNext ==
    \/ Server \/ Page \/ Settings
    \/ KilledWhileSaving \/ Quits \/ Dies \/ Launches

ContactsSpec == ContactsInit /\ [][ContactsNext]_contactsVars

\* The timer is Qt's and the event loop runs, in dialogs too.  A reply may never come: requests
\* have no timeout.
ContactsFairSpec == ContactsSpec /\ WF_contactsVars(TimerFires)

-------------------------------------------------------------------------------
(* Properties. *)

\* The members have their types, and nothing is in flight or open without a process.
ContactsTypeOK ==
    /\ running \in BOOLEAN /\ contactsFile \in Lists /\ localContacts \in Lists
    /\ remoteContacts \in Replies \cup {"none"} /\ message \in {"none", "listed", "failed"}
    /\ asked \in Nat /\ refreshTimer \in Nat /\ replaceLocal \in BOOLEAN
    /\ savedUrl \in Urls \cup {NoUrl} /\ url \in Urls \cup {NoUrl}
    /\ flying \in 0 .. MaxRequests /\ dialog \in Dialogs
    /\ ~running => flying = 0 /\ dialog = Closed

\* The panel and the file part only when an accepted change could not be written, which leaves the
\* file as it was or empty, or when the file could not be read after a list that replaces it.  A
\* list cleared by a download would otherwise come back with the next contact that is saved.
PanelFollowsFile ==
    [][running /\ running' /\ localContacts = contactsFile =>
          \/ localContacts' = contactsFile'
          \/ /\ dialog.kind \in {"add", "edit", "remove"} /\ dialog' = Closed
             /\ contactsFile' \in {contactsFile, << >>}
          \/ replaceLocal /\ flying' < flying /\ localContacts' = << >>]_contactsVars

\* A contact of the user's own leaves the file only (i) when the dialog over its row is accepted;
\* (ii) with a write that an accepted dialog cut short, or of a list that an earlier read or write
\* that failed had parted from the file; (iii) with all others, with a list that arrives while the
\* stored option says that the server's list replaces them.
ContactsGoOnlyWhenAsked ==
    [][\A i \in DOMAIN contactsFile : contactsFile[i] \notin ToSet(contactsFile') =>
          \/ /\ dialog.kind \in {"add", "edit", "remove"} /\ dialog' = Closed
             /\ \/ dialog.kind # "add" /\ i = dialog.at
                \/ contactsFile' = << >> \/ localContacts # contactsFile
          \/ replaceLocal /\ message' = "listed" /\ flying' < flying /\ contactsFile' = << >>]_contactsVars

\* An edit or removal that is accepted, and that the process survives, changes the row whose
\* contact the dialog shows and no other, whatever was downloaded meanwhile; or a download has
\* cleared the list under the dialog, and then nothing of it comes back.  Left out: a dialog
\* opened on a list that an earlier failed read or write had parted from the file.
DialogHitsItsRow ==
    [][running' /\ dialog.kind \in {"edit", "remove"} /\ dialog.inStep /\ dialog' = Closed
          /\ (localContacts' # localContacts \/ contactsFile' # contactsFile) =>
          \/ localContacts = << >> /\ localContacts' = << >>
          \/ /\ dialog.at \in DOMAIN localContacts /\ localContacts[dialog.at] = dialog.shown
             /\ \A i \in DOMAIN localContacts \ {dialog.at} :
                    localContacts[i] = localContacts'[IF Len(localContacts') < Len(localContacts)
                                                         /\ i > dialog.at THEN i - 1 ELSE i]]_contactsVars

\* Automatic refresh keeps the pace the last list read asked for, whatever failed since and
\* whatever was saved or opened: a server that was away is asked again.  Left out by name: a page
\* that is no list, which ends it, and an interval that does not fit an int of milliseconds.
RefreshSurvivesFailure ==
    remoteContacts \in {"whole", "part"} /\ asked * 1875 < 2^26 =>
        refreshTimer = asked * 1875

\* The address in use is the one saved last.  Left out by name: a blank one, which does not take
\* the place of the one in use before the next launch, although it says "Deixe em branco para
\* nao usar".
SavedUrlIsUsed == running => savedUrl \in {url, NoUrl}


\* "Only on success - a failed fetch must never destroy the user's own contacts": a reply that
\* does not bring a whole list leaves the file as it is.
FailedDownloadKeepsContacts ==
    [][flying' < flying /\ running' /\ remoteContacts' # "whole" =>
          contactsFile' = contactsFile]_contactsVars

=============================================================================

---------------------------- MODULE Contacts_proofs ----------------------------
(***************************************************************************)
(* Proofs about Contacts, for every set of people and addresses, any size   *)
(* of the list and any number of requests in flight.  That a failed answer  *)
(* leaves the file alone is refuted by a run; that refreshing goes on is a  *)
(* liveness property and is model-checked only.                             *)
(***************************************************************************)
EXTENDS Contacts, SequenceTheorems, TLAPS

-------------------------------------------------------------------------------
(* Lists of contacts. *)

\* A list is a sequence of contacts that is not too long.
LEMMA ListsAreSeqs ==
    ASSUME NEW s
    PROVE  s \in Lists <=> s \in Seq(People) /\ Len(s) <= MaxContacts
<1>1. ASSUME s \in Lists PROVE s \in Seq(People) /\ Len(s) <= MaxContacts
    <2>1. PICK n \in 0 .. MaxContacts : s \in [1 .. n -> People]
        BY <1>1, Zenon DEF Lists
    <2>2. n \in Nat /\ n <= MaxContacts
        BY ContactsAssumption
    <2>3. s \in Seq(People)
        BY <2>1, <2>2
    <2>4. DOMAIN s = 1 .. n /\ DOMAIN s = 1 .. Len(s) /\ Len(s) \in Nat
        BY <2>1, <2>3, LenProperties
    <2>5. Len(s) = n
        BY <2>2, <2>4
    <2> QED BY <2>2, <2>3, <2>5
<1>2. ASSUME s \in Seq(People), Len(s) <= MaxContacts PROVE s \in Lists
    <2>1. Len(s) \in Nat /\ s \in [1 .. Len(s) -> People]
        BY <1>2, LenProperties
    <2>2. Len(s) \in 0 .. MaxContacts
        BY <1>2, <2>1, ContactsAssumption
    <2> QED BY <2>1, <2>2, Zenon DEF Lists
<1> QED BY <1>1, <1>2

\* An empty file, or one that is gone, is a list.
LEMMA EmptyIsList == << >> \in Lists
<1>1. << >> \in Seq(People) /\ Len(<< >>) = 0
    BY EmptySeq
<1>2. Len(<< >>) <= MaxContacts
    BY <1>1, ContactsAssumption
<1> QED BY <1>1, <1>2, ListsAreSeqs, Zenon

\* The rows of a list are 1 to its length, which is at most the bound.
LEMMA RowsOfList ==
    ASSUME NEW s \in Lists
    PROVE  /\ s \in Seq(People) /\ Len(s) \in 0 .. MaxContacts /\ DOMAIN s = 1 .. Len(s)
           /\ \A i \in DOMAIN s : s[i] \in People /\ i \in 1 .. MaxContacts
<1>1. s \in Seq(People) /\ Len(s) <= MaxContacts
    BY ListsAreSeqs
<1>2. Len(s) \in Nat /\ DOMAIN s = 1 .. Len(s)
    BY <1>1, LenProperties
<1>3. \A i \in 1 .. Len(s) : s[i] \in People
    BY <1>1, ElementOfSeq
<1> QED BY <1>1, <1>2, <1>3, ContactsAssumption

\* A contact added to a list with room for it makes a list.
LEMMA AddKeepsList ==
    ASSUME NEW s \in Lists, NEW c \in People, Len(s) < MaxContacts
    PROVE  Append(s, c) \in Lists
<1>1. s \in Seq(People) /\ Len(s) \in Nat
    BY RowsOfList
<1>2. Append(s, c) \in Seq(People) /\ Len(Append(s, c)) = Len(s) + 1
    BY <1>1, AppendProperties
<1>3. Len(Append(s, c)) <= MaxContacts
    BY <1>1, <1>2, ContactsAssumption
<1> QED BY <1>2, <1>3, ListsAreSeqs, Zenon

\* A contact edited in its row: the list stays as long, and every other row is as it was.
LEMMA EditKeepsList ==
    ASSUME NEW s \in Lists, NEW i \in DOMAIN s, NEW c \in People
    PROVE  /\ [s EXCEPT ![i] = c] \in Lists
           /\ Len([s EXCEPT ![i] = c]) = Len(s)
           /\ \A j \in DOMAIN s \ {i} : [s EXCEPT ![i] = c][j] = s[j]
<1>1. s \in Seq(People) /\ i \in 1 .. Len(s) /\ DOMAIN s = 1 .. Len(s)
    BY RowsOfList
<1>2. /\ [s EXCEPT ![i] = c] \in Seq(People)
      /\ Len([s EXCEPT ![i] = c]) = Len(s)
    BY <1>1, ExceptSeq
<1>3. Len(s) <= MaxContacts
    BY ListsAreSeqs
<1>4. [s EXCEPT ![i] = c] \in Lists
    BY <1>2, <1>3, ListsAreSeqs
<1> QED BY <1>2, <1>4

\* A contact removed from its row: the rows before it stay, those after it move up by one.
LEMMA RemoveKeepsList ==
    ASSUME NEW s \in Lists, NEW i \in DOMAIN s
    PROVE  /\ RemoveAt(s, i) \in Lists
           /\ Len(RemoveAt(s, i)) = Len(s) - 1
           /\ \A j \in DOMAIN s \ {i} : RemoveAt(s, i)[IF i < j THEN j - 1 ELSE j] = s[j]
<1> DEFINE before == SubSeq(s, 1, i - 1)
           after == SubSeq(s, i + 1, Len(s))
<1>1. /\ Len(s) \in Nat /\ Len(s) <= MaxContacts
      /\ i \in 1 .. Len(s) /\ DOMAIN s = 1 .. Len(s)
      /\ \A j \in 1 .. Len(s) : s[j] \in People
    BY RowsOfList, ContactsAssumption
<1>2. /\ before \in Seq(People) /\ Len(before) = i - 1
      /\ \A j \in 1 .. i - 1 : before[j] = s[j]
    <2>1. 1 \in Int /\ i - 1 \in Int /\ \A j \in 1 .. i - 1 : s[j] \in People
        BY <1>1
    <2>2. /\ before \in Seq(People)
          /\ Len(before) = IF 1 <= i - 1 THEN (i - 1) - 1 + 1 ELSE 0
          /\ \A j \in 1 .. (i - 1) - 1 + 1 : before[j] = s[1 + j - 1]
        BY <2>1, SubSeqProperties
    <2> QED BY <1>1, <2>2
<1>3. /\ after \in Seq(People) /\ Len(after) = Len(s) - i
      /\ \A j \in 1 .. Len(s) - i : after[j] = s[i + j]
    <2>1. i + 1 \in Int /\ Len(s) \in Int /\ \A j \in i + 1 .. Len(s) : s[j] \in People
        BY <1>1
    <2>2. /\ after \in Seq(People)
          /\ Len(after) = IF i + 1 <= Len(s) THEN Len(s) - (i + 1) + 1 ELSE 0
          /\ \A j \in 1 .. Len(s) - (i + 1) + 1 : after[j] = s[(i + 1) + j - 1]
        BY <2>1, SubSeqProperties
    <2> QED BY <1>1, <2>2
<1> HIDE DEF before, after
<1>4. /\ before \o after \in Seq(People)
      /\ Len(before \o after) = Len(before) + Len(after)
      /\ \A j \in 1 .. Len(before) + Len(after) :
             (before \o after)[j] = IF j <= Len(before) THEN before[j] ELSE after[j - Len(before)]
    BY <1>2, <1>3, ConcatProperties
<1>5. Len(before \o after) = Len(s) - 1 /\ Len(s) - 1 <= MaxContacts
    BY <1>1, <1>2, <1>3, <1>4, ContactsAssumption
<1>6. ASSUME NEW j \in DOMAIN s \ {i}
      PROVE  (before \o after)[IF i < j THEN j - 1 ELSE j] = s[j]
    <2>1. CASE i < j
        <3>1. j - 1 \in 1 .. Len(before) + Len(after) /\ ~(j - 1 <= Len(before))
            BY <1>1, <1>2, <1>3, <2>1
        <3>2. (before \o after)[j - 1] = after[j - 1 - Len(before)]
            BY <1>4, <3>1
        <3>3. j - 1 - Len(before) = j - i /\ j - i \in 1 .. Len(s) - i /\ i + (j - i) = j
            BY <1>1, <1>2, <2>1
        <3>4. after[j - i] = s[j]
            BY <1>3, <3>3
        <3> QED BY <2>1, <3>2, <3>3, <3>4
    <2>2. CASE ~(i < j)
        <3>1. j \in 1 .. Len(before) + Len(after) /\ j <= Len(before) /\ j \in 1 .. i - 1
            BY <1>1, <1>2, <1>3, <2>2
        <3> QED BY <1>2, <1>4, <2>2, <3>1
    <2> QED BY <2>1, <2>2
<1>7. RemoveAt(s, i) = before \o after
    BY DEF RemoveAt, before, after
<1>8. before \o after \in Lists
    BY <1>4, <1>5, ListsAreSeqs
<1> QED BY <1>5, <1>6, <1>7, <1>8

\* The interval of the timer is a number, and never a negative one.
LEMMA IntervalIsNat ==
    ASSUME NEW minutes \in Refresh
    PROVE  AutoRefresh(minutes) \subseteq Nat
<1>1. minutes \in Nat
    BY ContactsAssumption
<1>2. 2^26 \in Int /\ 2^27 \in Int
    OBVIOUS
<1>3. 2^27 > 0
    OBVIOUS
<1>4. (minutes * 1875) % 2^27 \in Int
    BY <1>1, <1>2, <1>3
<1>5. Interval(minutes) \in Int
    BY <1>2, <1>4 DEF Interval
<1> QED BY <1>5 DEF AutoRefresh

-------------------------------------------------------------------------------
(* The types. *)

\* The dialogs of one name only are dialogs, and a warning holds back a choice and a way back.
LEMMA DialogForms ==
    /\ Closed \in Dialogs /\ Closed.kind = "none"
    /\ \A kind \in {"none", "settings", "add"} : [kind |-> kind] \in Dialogs
    /\ \A d \in Dialogs : d.kind = "warning" => d.replaces \in BOOLEAN /\ d.under \in {"none", "settings"}
<1>1. \A kind \in {"none", "settings", "add"} : [kind |-> kind] \in Dialogs
    BY DEF Dialogs
<1>2. Closed \in Dialogs /\ Closed.kind = "none"
    BY <1>1 DEF Closed
<1>3. \A d \in Dialogs : d.kind = "warning" => d.replaces \in BOOLEAN /\ d.under \in {"none", "settings"}
    BY DEF Dialogs
<1> QED BY <1>1, <1>2, <1>3

\* A request keeps within the bound, and a fetch that has no address sends none.
LEMMA FetchTyped ==
    ASSUME ContactsTypeOK, Fetch
    PROVE  flying' \in 0 .. MaxRequests /\ message' \in {"none", "listed", "failed"}
BY ContactsAssumption DEF ContactsTypeOK, Fetch, Requests

\* The end of the process leaves every member of the window as it was before the first launch.
LEMMA EndsTyped ==
    ASSUME Ends
    PROVE  /\ running' = FALSE /\ localContacts' \in Lists /\ url' = NoUrl
           /\ remoteContacts' = "none" /\ asked' \in Nat
           /\ message' \in {"none", "listed", "failed"} /\ refreshTimer' \in Nat
           /\ flying' = 0 /\ flying' \in 0 .. MaxRequests
           /\ dialog' = Closed /\ dialog' \in Dialogs
BY EmptyIsList, DialogForms, ContactsAssumption DEF Ends

\* A list that replaces the user's own leaves the file empty or as it was.
LEMMA UpdatedTyped ==
    ASSUME ContactsTypeOK, NEW list \in Replies, OnContactsUpdated(list)
    PROVE  /\ contactsFile' \in Lists /\ localContacts' \in Lists
           /\ remoteContacts' \in Replies \cup {"none"} /\ message' \in {"none", "listed", "failed"}
BY EmptyIsList DEF ContactsTypeOK, OnContactsUpdated, Loads, store

\* The contacts page starts with its types.
LEMMA TypeInit == ContactsInit => ContactsTypeOK
<1>1. 0 \in Nat /\ 0 \in 0 .. MaxRequests
    BY ContactsAssumption
<1> QED BY <1>1, EmptyIsList, DialogForms, Zenon DEF ContactsInit, ContactsTypeOK

\* The answers of the server, and the timer, keep the types.
LEMMA ServerTyped ==
    ASSUME ContactsTypeOK, Server
    PROVE  ContactsTypeOK'
<1> USE DEF store, server, options
<1>1. CASE ReplyFails
    BY <1>1, ContactsAssumption DEF ReplyFails, Answered, ContactsTypeOK
<1>2. ASSUME NEW list \in Replies, NEW minutes \in Refresh, ReplyArrives(list, minutes)
      PROVE  ContactsTypeOK'
    <2>1. OnContactsUpdated(list) /\ refreshTimer' \in Nat /\ asked' \in Nat
        BY <1>2, IntervalIsNat, ContactsAssumption DEF ReplyArrives
    <2>2. /\ contactsFile' \in Lists /\ localContacts' \in Lists
          /\ remoteContacts' \in Replies \cup {"none"} /\ message' \in {"none", "listed", "failed"}
        BY <2>1, UpdatedTyped
    <2> QED BY <1>2, <2>1, <2>2, ContactsAssumption DEF ReplyArrives, Answered, ContactsTypeOK
<1>3. CASE TimerFires
    <2>1. flying' \in 0 .. MaxRequests /\ message' \in {"none", "listed", "failed"}
        BY <1>3, FetchTyped DEF TimerFires
    <2> QED BY <1>3, <2>1 DEF TimerFires, ContactsTypeOK
<1> QED BY <1>1, <1>2, <1>3 DEF Server

\* What the user does on the page keeps the types: a row that is edited or removed is a row of
\* the list, or the process does not survive.
LEMMA PageTyped ==
    ASSUME ContactsTypeOK, Page
    PROVE  ContactsTypeOK'
<1> USE DEF store, server, options
<1>1. CASE PressesRefresh
    <2>1. flying' \in 0 .. MaxRequests /\ message' \in {"none", "listed", "failed"}
        BY <1>1, FetchTyped DEF PressesRefresh
    <2> QED BY <1>1, <2>1 DEF PressesRefresh, Idle, ContactsTypeOK
<1>2. CASE OpensSettingsOrAdd
    BY <1>2, DialogForms DEF OpensSettingsOrAdd, Opens, Idle, ContactsTypeOK
<1>3. CASE Cancels
    BY <1>3, DialogForms DEF Cancels, ContactsTypeOK
<1>4. ASSUME NEW list \in Lists, running, Accepts(list)
      PROVE  ContactsTypeOK'
    BY <1>4, DialogForms, EmptyIsList DEF Accepts, Saves, ContactsTypeOK
<1>5. CASE AcceptsRemove
    <2>1. RemoveAt(localContacts, dialog.at) \in Lists
        BY <1>5, RemoveKeepsList DEF AcceptsRemove, RowStays, ContactsTypeOK
    <2> QED BY <1>4, <1>5, <2>1 DEF AcceptsRemove
<1>6. CASE AcceptsGoneRow
    <2>1. CASE Accepts(localContacts)
        BY <1>4, <1>6, <2>1 DEF AcceptsGoneRow, ContactsTypeOK
    <2>2. CASE Ends /\ UNCHANGED << contactsFile, replaceLocal, savedUrl >>
        BY <2>2, EndsTyped DEF ContactsTypeOK
    <2> QED BY <1>6, <2>1, <2>2 DEF AcceptsGoneRow
<1>7. ASSUME NEW kind \in {"edit", "remove"}, NEW i \in 1 .. MaxContacts, OpensRow(kind, i)
      PROVE  ContactsTypeOK'
    <2>1. localContacts[i] \in People
        BY <1>7, RowsOfList DEF OpensRow, ContactsTypeOK
    <2>2. (localContacts = contactsFile) \in BOOLEAN
        OBVIOUS
    <2>3. dialog' \in Dialogs
        BY <1>7, <2>1, <2>2 DEF OpensRow, Opens, Dialogs
    <2> QED BY <1>7, <2>3 DEF OpensRow, Opens, Idle, ContactsTypeOK
<1>8. ASSUME NEW c \in People, AcceptsAdd(c) PROVE ContactsTypeOK'
    <2>1. Append(localContacts, c) \in Lists
        BY <1>8, AddKeepsList DEF AcceptsAdd, ContactsTypeOK
    <2> QED BY <1>4, <1>8, <2>1 DEF AcceptsAdd
<1>9. ASSUME NEW c \in People, AcceptsEdit(c) PROVE ContactsTypeOK'
    <2>1. [localContacts EXCEPT ![dialog.at] = c] \in Lists
        BY <1>9, EditKeepsList DEF AcceptsEdit, RowStays, ContactsTypeOK
    <2> QED BY <1>4, <1>9, <2>1 DEF AcceptsEdit
<1> QED BY <1>1, <1>2, <1>3, <1>5, <1>6, <1>7, <1>8, <1>9 DEF Page

\* Saving, importing and the warning in between keep the types.
LEMMA SettingsTyped ==
    ASSUME ContactsTypeOK, Settings
    PROVE  ContactsTypeOK'
<1> USE DEF store, server, options
<1>1. ASSUME NEW u \in Urls \cup {NoUrl}, NEW replaces \in BOOLEAN, NEW bad \in BOOLEAN,
             NEW under \in {"none", "settings"}, AppliesSettings(u, replaces, bad, under)
      PROVE  ContactsTypeOK'
    <2>1. url' \in Urls \cup {NoUrl} /\ flying' \in 0 .. MaxRequests
        BY <1>1, ContactsAssumption DEF AppliesSettings, AppliesUrl, Requests, ContactsTypeOK
    <2>2. dialog' \in Dialogs /\ replaceLocal' \in BOOLEAN
        <3>1. CASE bad
            <4>1. dialog' = [kind |-> "warning", replaces |-> replaces, under |-> under]
                BY <1>1, <3>1, Zenon DEF AppliesSettings
            <4>2. [kind |-> "warning", replaces |-> replaces, under |-> under] \in Dialogs
                BY DEF Dialogs
            <4> QED BY <1>1, <3>1, <4>1, <4>2, Zenon DEF AppliesSettings, ContactsTypeOK
        <3>2. CASE ~bad
            <4>1. [kind |-> under] \in Dialogs
                BY DialogForms
            <4> QED BY <1>1, <3>2, <4>1, Zenon DEF AppliesSettings
        <3> QED BY <3>1, <3>2
    <2> QED BY <1>1, <2>1, <2>2 DEF AppliesSettings, ContactsTypeOK
<1>2. CASE DismissesWarning
    <2>1. dialog' \in Dialogs /\ replaceLocal' \in BOOLEAN
        <3>1. dialog.replaces \in BOOLEAN /\ dialog.under \in {"none", "settings"}
            BY <1>2, DialogForms DEF DismissesWarning, ContactsTypeOK
        <3>2. [kind |-> dialog.under] \in Dialogs
            BY <3>1, DialogForms
        <3> QED BY <1>2, <3>1, <3>2 DEF DismissesWarning
    <2> QED BY <1>2, <2>1 DEF DismissesWarning, ContactsTypeOK
<1> QED BY <1>1, <1>2 DEF Settings

\* Every step of the contacts page keeps the types.
LEMMA TypeStep == ContactsTypeOK /\ [ContactsNext]_contactsVars => ContactsTypeOK'
<1> SUFFICES ASSUME ContactsTypeOK, [ContactsNext]_contactsVars PROVE ContactsTypeOK'
    OBVIOUS
<1> USE DEF store, server, options
<1>1. CASE Server
    BY <1>1, ServerTyped
<1>2. CASE Page
    BY <1>2, PageTyped
<1>3. CASE Settings
    BY <1>3, SettingsTyped
<1>4. CASE KilledWhileSaving
    BY <1>4, EndsTyped, EmptyIsList DEF KilledWhileSaving, ContactsTypeOK
<1>5. CASE Quits
    <2>1. replaceLocal' \in BOOLEAN
        <3>1. CASE dialog.kind = "warning"
            <4>1. dialog.replaces \in BOOLEAN
                BY <3>1, DialogForms DEF ContactsTypeOK
            <4> QED BY <1>5, <3>1, <4>1 DEF Quits
        <3>2. CASE dialog.kind # "warning"
            BY <1>5, <3>2 DEF Quits, ContactsTypeOK
        <3> QED BY <3>1, <3>2
    <2>2. contactsFile' = contactsFile /\ savedUrl' = savedUrl /\ Ends
        BY <1>5 DEF Quits
    <2> QED BY <2>1, <2>2, EndsTyped DEF ContactsTypeOK
<1>6. CASE Dies
    BY <1>6, EndsTyped DEF Dies, ContactsTypeOK
<1>7. CASE Launches
    <2>1. url' \in Urls \cup {NoUrl} /\ flying' \in 0 .. MaxRequests
        BY <1>7, ContactsAssumption DEF Launches, AppliesUrl, Requests, ContactsTypeOK
    <2>2. localContacts' \in Lists
        BY <1>7, EmptyIsList DEF Launches, Loads, ContactsTypeOK
    <2> QED BY <1>7, <2>1, <2>2 DEF Launches, ContactsTypeOK
<1>8. CASE UNCHANGED contactsVars
    BY <1>8 DEF contactsVars, ContactsTypeOK
<1> QED BY <1>1, <1>2, <1>3, <1>4, <1>5, <1>6, <1>7, <1>8 DEF ContactsNext

\* The members keep their types, and nothing is in flight or open without a process.
THEOREM ContactsTypeCorrect == ContactsSpec => []ContactsTypeOK
BY TypeInit, TypeStep, PTL DEF ContactsSpec

-------------------------------------------------------------------------------
(* The address. *)

\* Every step leaves the saved address the one in use, or blank.
LEMMA SavedUrlStep == SavedUrlIsUsed /\ [ContactsNext]_contactsVars => SavedUrlIsUsed'
<1> SUFFICES ASSUME SavedUrlIsUsed, [ContactsNext]_contactsVars PROVE SavedUrlIsUsed'
    OBVIOUS
<1> USE DEF options
<1>1. CASE Server \/ Page \/ DismissesWarning \/ KilledWhileSaving \/ Quits \/ Dies
    <2>1. running' = FALSE \/ (running' = running /\ savedUrl' = savedUrl /\ url' = url)
        BY <1>1, Zenon DEF Server, ReplyFails, ReplyArrives, TimerFires, Page, PressesRefresh,
            OpensSettingsOrAdd, OpensRow, Opens, Cancels, Accepts, AcceptsAdd, AcceptsEdit, AcceptsRemove,
            AcceptsGoneRow, Ends, DismissesWarning, KilledWhileSaving, Quits, Dies
    <2> QED BY <2>1 DEF SavedUrlIsUsed
<1>2. ASSUME NEW u \in Urls \cup {NoUrl}, NEW replaces \in BOOLEAN, NEW bad \in BOOLEAN,
             NEW under \in {"none", "settings"}, AppliesSettings(u, replaces, bad, under)
      PROVE  SavedUrlIsUsed'
    BY <1>2 DEF AppliesSettings, AppliesUrl, SavedUrlIsUsed
<1>3. CASE Launches
    BY <1>3 DEF Launches, AppliesUrl, SavedUrlIsUsed
<1>4. CASE UNCHANGED contactsVars
    BY <1>4 DEF contactsVars, SavedUrlIsUsed
<1> QED BY <1>1, <1>2, <1>3, <1>4, Zenon DEF ContactsNext, Settings

\* The address in use is the one saved last, whatever is imported, saved or relaunched; a blank
\* one leaves the one in use.
THEOREM SavedUrlUsed == ContactsSpec => []SavedUrlIsUsed
<1>1. ContactsInit => SavedUrlIsUsed
    BY DEF ContactsInit, SavedUrlIsUsed
<1> QED BY <1>1, SavedUrlStep, PTL DEF ContactsSpec

-------------------------------------------------------------------------------
(* The lists. *)

\* What a step can do to the lists and the dialog over them: nothing ...
ListsStay ==
    /\ contactsFile' = contactsFile /\ localContacts' = localContacts
    /\ \/ dialog' = dialog
       \/ dialog'.kind \notin {"edit", "remove"}
       \/ \E kind \in {"edit", "remove"}, i \in 1 .. MaxContacts : OpensRow(kind, i)

\* ... let the server's list replace the user's own, if the option says so ...
ServerReplaces ==
    /\ replaceLocal /\ message' = "listed" /\ flying' = flying - 1 /\ dialog' = dialog
    /\ contactsFile' \in {<< >>, contactsFile} /\ Loads

\* ... write what a dialog leaves behind ...
DialogWrites ==
    /\ dialog.kind \in {"add", "edit", "remove"} /\ dialog' = Closed
    /\ \E list : Saves(list)
    /\ \/ \E c \in People : AcceptsAdd(c) \/ AcceptsEdit(c)
       \/ AcceptsRemove
       \/ dialog.kind # "add" /\ ~RowStays /\ Saves(localContacts)

\* ... end the process, which may lose the file if a dialog was being saved ...
ProcessEnds ==
    /\ running' = FALSE /\ dialog' = Closed
    /\ contactsFile' = contactsFile
       \/ (contactsFile' = << >> /\ dialog.kind \in {"add", "edit", "remove"})

\* ... or load the file.
PanelLoads == ~running /\ contactsFile' = contactsFile /\ Loads /\ dialog' = dialog

\* There is no other way to the lists.
LEMMA WaysToTheLists ==
    ASSUME ContactsTypeOK, [ContactsNext]_contactsVars
    PROVE  ListsStay \/ ServerReplaces \/ DialogWrites \/ ProcessEnds \/ PanelLoads
<1> USE DEF store, server, options
<1>1. ASSUME ReplyFails \/ TimerFires \/ PressesRefresh PROVE ListsStay
    BY <1>1, Zenon DEF ReplyFails, TimerFires, PressesRefresh, ListsStay
<1>2. ASSUME NEW list \in Replies, NEW minutes \in Refresh, ReplyArrives(list, minutes)
      PROVE  ListsStay \/ ServerReplaces
    BY <1>2, Zenon DEF ReplyArrives, Answered, OnContactsUpdated, ListsStay, ServerReplaces
<1>3. ASSUME OpensSettingsOrAdd \/ Cancels PROVE ListsStay
    BY <1>3, DialogForms DEF OpensSettingsOrAdd, Opens, Cancels, ListsStay
<1>4. ASSUME NEW kind \in {"edit", "remove"}, NEW i \in 1 .. MaxContacts, OpensRow(kind, i)
      PROVE  ListsStay
    BY <1>4, Zenon DEF OpensRow, Opens, ListsStay
<1>5. ASSUME NEW c \in People, AcceptsAdd(c) \/ AcceptsEdit(c) PROVE DialogWrites
    BY <1>5 DEF AcceptsAdd, AcceptsEdit, RowStays, Accepts, DialogWrites
<1>6. CASE AcceptsRemove
    BY <1>6 DEF AcceptsRemove, RowStays, Accepts, DialogWrites
<1>7. ASSUME Quits \/ Dies PROVE ProcessEnds
    BY <1>7, Zenon DEF Quits, Dies, Ends, ProcessEnds
<1>g. ASSUME AcceptsGoneRow PROVE ProcessEnds \/ DialogWrites
    BY <1>g DEF AcceptsGoneRow, Accepts, Ends, ProcessEnds, DialogWrites
<1>8. ASSUME KilledWhileSaving PROVE ProcessEnds
    BY <1>8 DEF KilledWhileSaving, Ends, ProcessEnds
<1>9. ASSUME NEW u \in Urls \cup {NoUrl}, NEW replaces \in BOOLEAN, NEW bad \in BOOLEAN,
             NEW under \in {"none", "settings"}, AppliesSettings(u, replaces, bad, under)
      PROVE  ListsStay
    <2>1. dialog' = [kind |-> "warning", replaces |-> replaces, under |-> under] \/ dialog' = [kind |-> under]
        BY <1>9, Zenon DEF AppliesSettings
    <2>2. dialog'.kind \notin {"edit", "remove"}
        BY <2>1
    <2> QED BY <1>9, <2>2, Zenon DEF AppliesSettings, ListsStay
<1>10. CASE DismissesWarning
    <2>1. dialog.under \in {"none", "settings"} /\ dialog' = [kind |-> dialog.under]
        BY <1>10, DialogForms DEF DismissesWarning, ContactsTypeOK
    <2>2. dialog'.kind \notin {"edit", "remove"}
        BY <2>1
    <2>3. ListsStay
        BY <1>10, <2>2, Zenon DEF DismissesWarning, ListsStay
    <2> QED BY <2>3
<1>11. CASE Launches
    BY <1>11, Zenon DEF Launches, PanelLoads
<1>12. CASE UNCHANGED contactsVars
    BY <1>12, Zenon DEF contactsVars, ListsStay
<1> QED
    BY <1>1, <1>2, <1>3, <1>4, <1>5, <1>6, <1>7, <1>g, <1>8, <1>9, <1>10, <1>11, <1>12, Zenon
    DEF ContactsNext, Server, Page, Settings

\* The panel and the file part only when an accepted change could not be written, or the file not
\* be read after a list that replaces it.
THEOREM PanelIsTheFile == ContactsSpec => PanelFollowsFile
<1> DEFINE InStep ==
        running /\ running' /\ localContacts = contactsFile =>
            \/ localContacts' = contactsFile'
            \/ /\ dialog.kind \in {"add", "edit", "remove"} /\ dialog' = Closed
               /\ contactsFile' \in {contactsFile, << >>}
            \/ replaceLocal /\ flying' < flying /\ localContacts' = << >>
<1>1. ASSUME ContactsTypeOK, [ContactsNext]_contactsVars PROVE [InStep]_contactsVars
    <2>1. ASSUME contactsFile' = contactsFile, localContacts' = localContacts PROVE InStep
        BY <2>1, Zenon
    <2>2. ASSUME ServerReplaces PROVE InStep
        <3>1. flying' < flying
            BY <1>1, <2>2, ContactsAssumption DEF ServerReplaces, ContactsTypeOK
        <3>2. localContacts' = contactsFile' \/ localContacts' = << >>
            BY <2>2 DEF ServerReplaces, Loads
        <3> QED BY <2>2, <3>1, <3>2, Zenon DEF ServerReplaces
    <2>3. ASSUME DialogWrites PROVE InStep
        <3>1. PICK list : localContacts' = list /\ contactsFile' \in {list, contactsFile, << >>}
            BY <2>3, Zenon DEF DialogWrites, Saves
        <3>2. localContacts' = contactsFile' \/ contactsFile' \in {contactsFile, << >>}
            BY <3>1
        <3> QED BY <2>3, <3>2, Zenon DEF DialogWrites
    <2>4. ASSUME ~running \/ running' = FALSE PROVE InStep
        BY <2>4, Zenon
    <2> HIDE DEF InStep
    <2> QED BY <1>1, <2>1, <2>2, <2>3, <2>4, WaysToTheLists, Zenon
        DEF ListsStay, ProcessEnds, PanelLoads
<1> HIDE DEF InStep
<1>2. ContactsSpec => [][InStep]_contactsVars
    BY <1>1, ContactsTypeCorrect, PTL DEF ContactsSpec
<1> QED BY <1>2 DEF PanelFollowsFile, InStep

\* Saving what an accepted dialog makes of a list that is the file leaves every contact in the file
\* but that of the dialog's row, unless the write is cut short.
LEMMA DialogSparesTheOthers ==
    ASSUME ContactsTypeOK, DialogWrites, localContacts = contactsFile, contactsFile' # << >>,
           NEW i \in DOMAIN contactsFile, dialog.kind = "add" \/ i # dialog.at
    PROVE  \E j \in DOMAIN contactsFile' : contactsFile'[j] = contactsFile[i]
<1>1. localContacts \in Lists /\ i \in DOMAIN localContacts
    BY DEF ContactsTypeOK
<1>2. /\ DOMAIN localContacts = 1 .. Len(localContacts) /\ Len(localContacts) \in Nat
      /\ localContacts \in Seq(People)
    BY <1>1, RowsOfList
<1>3. ASSUME contactsFile' = contactsFile
      PROVE  \E j \in DOMAIN contactsFile' : contactsFile'[j] = contactsFile[i]
    BY <1>3
<1>4. ASSUME NEW list, Saves(list), NEW j \in DOMAIN list, list[j] = localContacts[i]
      PROVE  \E k \in DOMAIN contactsFile' : contactsFile'[k] = contactsFile[i]
    BY <1>3, <1>4 DEF Saves
<1>5. ASSUME NEW c \in People, AcceptsAdd(c)
      PROVE  \E j \in DOMAIN contactsFile' : contactsFile'[j] = contactsFile[i]
    <2>1. /\ Append(localContacts, c) \in Seq(People)
          /\ Len(Append(localContacts, c)) = Len(localContacts) + 1
          /\ Append(localContacts, c)[i] = localContacts[i]
        BY <1>1, <1>2, AppendProperties
    <2>2. i \in DOMAIN Append(localContacts, c)
        BY <1>1, <1>2, <2>1, LenProperties
    <2>3. Saves(Append(localContacts, c))
        BY <1>5 DEF AcceptsAdd, Accepts
    <2> QED BY <1>4, <2>1, <2>2, <2>3
<1>6. ASSUME NEW c \in People, AcceptsEdit(c)
      PROVE  \E j \in DOMAIN contactsFile' : contactsFile'[j] = contactsFile[i]
    <2>1. Saves([localContacts EXCEPT ![dialog.at] = c]) /\ i # dialog.at
        BY <1>6 DEF AcceptsEdit, Accepts
    <2>2. i \in DOMAIN [localContacts EXCEPT ![dialog.at] = c]
        BY <1>1
    <2>3. [localContacts EXCEPT ![dialog.at] = c][i] = localContacts[i]
        BY <1>1, <2>1
    <2> QED BY <1>4, <2>1, <2>2, <2>3
<1>7. ASSUME AcceptsRemove
      PROVE  \E j \in DOMAIN contactsFile' : contactsFile'[j] = contactsFile[i]
    <2> DEFINE list == RemoveAt(localContacts, dialog.at)
               k == IF dialog.at < i THEN i - 1 ELSE i
    <2>1. Saves(list) /\ i # dialog.at /\ dialog.at \in DOMAIN localContacts
        BY <1>7 DEF AcceptsRemove, Accepts, RowStays
    <2>2. /\ list \in Lists /\ Len(list) = Len(localContacts) - 1 /\ list[k] = localContacts[i]
        BY <1>1, <2>1, RemoveKeepsList
    <2> HIDE DEF list
    <2>3. k \in 1 .. Len(list)
        BY <1>1, <1>2, <2>1, <2>2
    <2>4. k \in DOMAIN list
        BY <2>2, <2>3, RowsOfList
    <2> QED BY <1>4, <2>1, <2>2, <2>4
<1>8. ASSUME Saves(localContacts)
      PROVE  \E j \in DOMAIN contactsFile' : contactsFile'[j] = contactsFile[i]
    BY <1>1, <1>4, <1>8
<1> QED BY <1>5, <1>6, <1>7, <1>8 DEF DialogWrites

\* A contact leaves the file only through the dialog over its row, with a write that failed or a
\* list that had parted from the file, or with a list that arrives while the stored option says
\* that it replaces them all.
THEOREM ContactsGoWhenAsked == ContactsSpec => ContactsGoOnlyWhenAsked
<1> DEFINE Asked ==
        \A i \in DOMAIN contactsFile : contactsFile[i] \notin ToSet(contactsFile') =>
            \/ /\ dialog.kind \in {"add", "edit", "remove"} /\ dialog' = Closed
               /\ \/ dialog.kind # "add" /\ i = dialog.at
                  \/ contactsFile' = << >> \/ localContacts # contactsFile
            \/ replaceLocal /\ message' = "listed" /\ flying' < flying /\ contactsFile' = << >>
<1>1. ASSUME ContactsTypeOK, [ContactsNext]_contactsVars PROVE [Asked]_contactsVars
    <2>1. ASSUME contactsFile' = contactsFile PROVE Asked
        BY <2>1, Zenon DEF ToSet
    <2>2. ASSUME ServerReplaces PROVE Asked
        <3>1. flying' < flying
            BY <1>1, <2>2, ContactsAssumption DEF ServerReplaces, ContactsTypeOK
        <3> HIDE DEF Asked
        <3>2. CASE contactsFile' = contactsFile
            BY <2>1, <3>2
        <3>3. CASE contactsFile' = << >>
            BY <2>2, <3>1, <3>3, Zenon DEF ServerReplaces, Asked
        <3> QED BY <2>2, <3>2, <3>3 DEF ServerReplaces
    <2>3. ASSUME dialog.kind \in {"add", "edit", "remove"}, dialog' = Closed, contactsFile' = << >>
          PROVE  Asked
        BY <2>3, Zenon
    <2>4. ASSUME DialogWrites PROVE Asked
        <3>1. dialog.kind \in {"add", "edit", "remove"} /\ dialog' = Closed
            BY <2>4 DEF DialogWrites
        <3>2. \A i \in DOMAIN contactsFile :
                  \/ dialog.kind # "add" /\ i = dialog.at
                  \/ contactsFile' = << >> \/ localContacts # contactsFile
                  \/ \E j \in DOMAIN contactsFile' : contactsFile'[j] = contactsFile[i]
            BY <1>1, <2>4, DialogSparesTheOthers, Zenon
        <3>3. \A i \in DOMAIN contactsFile :
                  (\E j \in DOMAIN contactsFile' : contactsFile'[j] = contactsFile[i])
                      => contactsFile[i] \in ToSet(contactsFile')
            BY Zenon DEF ToSet
        <3> QED BY <3>1, <3>2, <3>3, Zenon
    <2> HIDE DEF Asked
    <2> QED BY <1>1, <2>1, <2>2, <2>3, <2>4, WaysToTheLists, Zenon
        DEF ListsStay, ProcessEnds, PanelLoads
<1> HIDE DEF Asked
<1>2. ContactsSpec => [][Asked]_contactsVars
    BY <1>1, ContactsTypeCorrect, PTL DEF ContactsSpec
<1> QED BY <1>2 DEF ContactsGoOnlyWhenAsked, Asked

-------------------------------------------------------------------------------
(* The dialog and its row. *)

\* The strengthening: while an edit or a removal is open over a list that was the file, the list
\* still is the file or has been cleared, and the file, if it has any contacts left, has that of the
\* dialog in its row.
DialogKnowsItsRow ==
    dialog.kind \in {"edit", "remove"} /\ dialog.inStep =>
        /\ localContacts = contactsFile \/ localContacts = << >>
        /\ contactsFile # << >> =>
               dialog.at \in DOMAIN contactsFile /\ contactsFile[dialog.at] = dialog.shown

\* A dialog that is open learns of a list that a download has cleared, and of no other change.
LEMMA DialogRowStep ==
    ContactsTypeOK /\ DialogKnowsItsRow /\ [ContactsNext]_contactsVars => DialogKnowsItsRow'
<1> SUFFICES ASSUME ContactsTypeOK, DialogKnowsItsRow, [ContactsNext]_contactsVars
             PROVE  DialogKnowsItsRow'
    OBVIOUS
<1>1. ASSUME dialog'.kind \notin {"edit", "remove"} PROVE DialogKnowsItsRow'
    BY <1>1 DEF DialogKnowsItsRow
<1>2. CASE ListsStay
    <2>1. CASE dialog' = dialog
        BY <1>2, <2>1, Zenon DEF ListsStay, DialogKnowsItsRow
    <2>2. ASSUME NEW kind \in {"edit", "remove"}, NEW i \in 1 .. MaxContacts, OpensRow(kind, i)
          PROVE  DialogKnowsItsRow'
        <3>1. /\ dialog' = [kind |-> kind, at |-> i, shown |-> localContacts[i],
                            inStep |-> localContacts = contactsFile]
              /\ i \in DOMAIN localContacts
            BY <2>2, Zenon DEF OpensRow, Opens
        <3>2. /\ dialog'.at = i /\ dialog'.shown = localContacts[i]
              /\ dialog'.inStep = (localContacts = contactsFile)
            BY <3>1
        <3> QED BY <1>2, <3>1, <3>2 DEF ListsStay, DialogKnowsItsRow
    <2> QED BY <1>1, <1>2, <2>1, <2>2, Zenon DEF ListsStay
<1>3. CASE ServerReplaces
    <2>1. /\ dialog' = dialog /\ contactsFile' \in {<< >>, contactsFile}
          /\ localContacts' = contactsFile' \/ localContacts' = << >>
        BY <1>3 DEF ServerReplaces, Loads
    <2> QED BY <2>1, Zenon DEF DialogKnowsItsRow
<1>4. CASE DialogWrites \/ ProcessEnds
    BY <1>1, <1>4, DialogForms DEF DialogWrites, ProcessEnds
<1>5. CASE PanelLoads
    BY <1>1, <1>5, DialogForms DEF PanelLoads, ContactsTypeOK
<1> QED BY <1>2, <1>3, <1>4, <1>5, WaysToTheLists

\* The inductive invariant of the contacts page.
THEOREM ContactsSound == ContactsSpec => [](ContactsTypeOK /\ DialogKnowsItsRow)
<1>1. ContactsInit => DialogKnowsItsRow
    BY DialogForms DEF ContactsInit, DialogKnowsItsRow
<1> QED BY <1>1, TypeInit, TypeStep, DialogRowStep, PTL DEF ContactsSpec

\* A survived edit or removal changes the row whose contact the dialog shows and no other; and of a
\* list that a download has cleared under it, nothing comes back.
THEOREM RowIsHit == ContactsSpec => DialogHitsItsRow
<1> DEFINE Row(i) == IF Len(localContacts') < Len(localContacts) /\ i > dialog.at THEN i - 1 ELSE i
           HitRow ==
               /\ dialog.at \in DOMAIN localContacts /\ localContacts[dialog.at] = dialog.shown
               /\ \A i \in DOMAIN localContacts \ {dialog.at} :
                      localContacts[i] = localContacts'[Row(i)]
           Hit ==
               running' /\ dialog.kind \in {"edit", "remove"} /\ dialog.inStep /\ dialog' = Closed
                  /\ (localContacts' # localContacts \/ contactsFile' # contactsFile) =>
                  \/ localContacts = << >> /\ localContacts' = << >>
                  \/ /\ dialog.at \in DOMAIN localContacts /\ localContacts[dialog.at] = dialog.shown
                     /\ \A i \in DOMAIN localContacts \ {dialog.at} :
                            localContacts[i] = localContacts'[Row(i)]
<1>1. ASSUME ContactsTypeOK, DialogKnowsItsRow, [ContactsNext]_contactsVars
      PROVE  [Hit]_contactsVars
    <2> SUFFICES ASSUME running', dialog.kind \in {"edit", "remove"}, dialog.inStep,
                        dialog' = Closed,
                        localContacts' # localContacts \/ contactsFile' # contactsFile
                 PROVE  (localContacts = << >> /\ localContacts' = << >>) \/ HitRow
        BY Zenon
    <2>1. DialogWrites
        <3>1. ~ListsStay /\ ~ProcessEnds
            BY DEF ListsStay, ProcessEnds
        <3>2. ~ServerReplaces
            BY DialogForms DEF ServerReplaces
        <3>3. ~PanelLoads
            BY <1>1, DialogForms DEF PanelLoads, ContactsTypeOK
        <3> QED BY <1>1, <3>1, <3>2, <3>3, WaysToTheLists
    <2>2. localContacts \in Lists /\ contactsFile \in Lists
        BY <1>1 DEF ContactsTypeOK
    <2>3. DOMAIN localContacts = 1 .. Len(localContacts) /\ Len(localContacts) \in Nat
        BY <2>2, RowsOfList
    <2>4. dialog.at \in DOMAIN localContacts => localContacts[dialog.at] = dialog.shown
        <3>1. dialog.at \in DOMAIN localContacts => localContacts # << >>
            BY <2>2, EmptySeq, RowsOfList
        <3> QED BY <1>1, <3>1 DEF DialogKnowsItsRow
    <2>5. ASSUME NEW c \in People, AcceptsEdit(c)  PROVE HitRow
        <3>1. localContacts' = [localContacts EXCEPT ![dialog.at] = c] /\ dialog.at \in DOMAIN localContacts
            BY <2>5 DEF AcceptsEdit, Accepts, Saves, RowStays
        <3>2. /\ Len(localContacts') = Len(localContacts)
              /\ \A i \in DOMAIN localContacts \ {dialog.at} : localContacts'[i] = localContacts[i]
            BY <2>2, <3>1, EditKeepsList
        <3> QED BY <2>3, <2>4, <3>1, <3>2
    <2>6. ASSUME AcceptsRemove  PROVE HitRow
        <3>1. localContacts' = RemoveAt(localContacts, dialog.at) /\ dialog.at \in DOMAIN localContacts
            BY <2>6 DEF AcceptsRemove, Accepts, Saves, RowStays
        <3>2. /\ Len(localContacts') = Len(localContacts) - 1
              /\ \A i \in DOMAIN localContacts \ {dialog.at} :
                     localContacts'[IF dialog.at < i THEN i - 1 ELSE i] = localContacts[i]
            BY <2>2, <3>1, RemoveKeepsList
        <3>3. dialog.at \in 1 .. Len(localContacts)
            BY <2>3, <3>1
        <3>4. ASSUME NEW i \in DOMAIN localContacts \ {dialog.at}
              PROVE  localContacts[i] = localContacts'[Row(i)]
            BY <2>3, <3>2, <3>3
        <3> QED BY <2>4, <3>1, <3>4
    <2>7. ASSUME ~RowStays, Saves(localContacts)
          PROVE  localContacts = << >> /\ localContacts' = << >>
        <3>1. localContacts' = localContacts /\ dialog.at \notin DOMAIN localContacts
            BY <2>7 DEF Saves, RowStays
        <3>2. localContacts = << >>
            BY <1>1, <3>1 DEF DialogKnowsItsRow
        <3> QED BY <3>1, <3>2
    <2>8. ~ \E c \in People : AcceptsAdd(c)
        BY DEF AcceptsAdd
    <2> HIDE DEF HitRow
    <2> QED BY <2>1, <2>5, <2>6, <2>7, <2>8, Zenon DEF DialogWrites
<1> HIDE DEF Hit
<1>2. ContactsSpec => [][Hit]_contactsVars
    BY <1>1, ContactsSound, PTL DEF ContactsSpec
<1> QED BY <1>2 DEF DialogHitsItsRow, Hit

-------------------------------------------------------------------------------
(* The timer. *)

\* An interval that fits is the one asked for.
LEMMA IntervalFits ==
    ASSUME NEW minutes \in Nat, minutes * 1875 < 2^26, NEW interval \in AutoRefresh(minutes)
    PROVE  interval = minutes * 1875
<1>1. 2^26 = 67108864 /\ 2^27 = 134217728
    OBVIOUS
<1>2. minutes * 1875 \in Nat /\ (minutes * 1875) % 134217728 = minutes * 1875
    BY <1>1
<1>3. Interval(minutes) = minutes * 1875
    BY <1>1, <1>2 DEF Interval
<1> QED BY <1>3 DEF AutoRefresh

\* Only a list that was read sets the timer; the end of the process takes list and timer away.
LEMMA RefreshStep ==
    ContactsTypeOK /\ RefreshSurvivesFailure /\ [ContactsNext]_contactsVars => RefreshSurvivesFailure'
<1> SUFFICES ASSUME ContactsTypeOK, RefreshSurvivesFailure, [ContactsNext]_contactsVars
             PROVE  RefreshSurvivesFailure'
    OBVIOUS
<1> USE DEF server
<1> DEFINE Same == UNCHANGED << remoteContacts, asked, refreshTimer >>
<1>1. ASSUME NEW list \in Replies, NEW minutes \in Refresh, ReplyArrives(list, minutes)
      PROVE  RefreshSurvivesFailure'
    <2>1. minutes \in Nat /\ asked' = minutes /\ refreshTimer' \in AutoRefresh(minutes)
        BY <1>1, ContactsAssumption DEF ReplyArrives
    <2> QED BY <2>1, IntervalFits DEF RefreshSurvivesFailure
<1>2. ASSUME ReplyFails \/ TimerFires \/ Settings \/ Launches \/ UNCHANGED contactsVars  PROVE Same
    BY <1>2, Zenon DEF ReplyFails, TimerFires, Settings, AppliesSettings, DismissesWarning,
        Launches, contactsVars
<1>3. ASSUME Page  PROVE Same \/ Ends
    BY <1>3, Zenon DEF Page, PressesRefresh, OpensSettingsOrAdd, OpensRow, Opens, Cancels, Accepts,
        AcceptsAdd, AcceptsEdit, AcceptsRemove, AcceptsGoneRow
<1>4. ASSUME KilledWhileSaving \/ Quits \/ Dies  PROVE Ends
    BY <1>4, Zenon DEF KilledWhileSaving, Quits, Dies
<1>5. ASSUME Ends  PROVE RefreshSurvivesFailure'
    BY <1>5, EndsTyped DEF RefreshSurvivesFailure
<1>6. ASSUME Same  PROVE RefreshSurvivesFailure'
    BY <1>6 DEF RefreshSurvivesFailure
<1> HIDE DEF Same
<1> QED BY <1>1, <1>2, <1>3, <1>4, <1>5, <1>6, Zenon DEF ContactsNext, Server

\* Automatic refresh keeps the pace the last list read asked for, whatever failed since.
THEOREM RefreshGoesOnAfterFailure == ContactsSpec => []RefreshSurvivesFailure
<1>1. ContactsInit => RefreshSurvivesFailure
    BY DEF ContactsInit, RefreshSurvivesFailure
<1> QED BY <1>1, RefreshStep, ContactsTypeCorrect, PTL DEF ContactsSpec

=============================================================================

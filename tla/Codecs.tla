-------------------------------- MODULE Codecs ---------------------------------
(***************************************************************************)
(* Codecs and DTMF: the lists of the engine, of the profile in force, of    *)
(* the settings screen and of profile files, and how they are derived from  *)
(* one another.  The engine's list only ever shrinks while it runs: a codec *)
(* that setAudioCodecsOrder() is not given is not there to be found again.  *)
(***************************************************************************)
EXTENDS Integers, Sequences, SequencesExt, Functions

CONSTANTS
    Supported,  \* Codecs::supported(), the names in their default order
    Others,     \* names a profile file may hold that this program does not offer
    Methods,    \* the DTMF methods a user chooses from
    MaxEntries  \* bound: the codecs of an imported file

ASSUME CodecsAssumption ==
    /\ Supported \in Seq(Range(Supported)) /\ IsInjective(Supported)
    /\ Range(Supported) \cap Others = {} /\ MaxEntries \in Nat
    /\ "rfc2833" \in Methods /\ Methods \subseteq {"rfc2833", "info", "inband"}

VARIABLES
    engineOn,   \* the process and its engine run
    sdk,        \* the codecs the SDK it runs on was built with: the official one has no G.729
    payloads,   \* the engine's payload types, in order
    inForce,    \* m_currentProfile: its codecs and its DTMF method
    onDisk,     \* the profile in SettingsStore
    screen,     \* m_codecList, Closed while the dialog is not open
    dtmfFlags   \* what the engine was told: RFC 2833, SIP INFO

codecsVars == << engineOn, sdk, payloads, inForce, onDisk, screen, dtmfFlags >>

ClosedScreen == [open |-> FALSE, rows |-> << >>]

Names == Range(Supported)
Rows == [name : Names, on : BOOLEAN]
Transports == {"UDP", "TCP", "TLS"}

-------------------------------------------------------------------------------
(* Lists. *)

NamesOf(list) == [i \in DOMAIN list |-> list[i].name]

\* The entries of a list that are among the given ones, in their order.
Filtered(list, rows) ==
    FoldLeft(LAMBDA kept, r : IF r \in rows THEN Append(kept, r) ELSE kept, << >>, list)

On(list) == Filtered(list, {r \in Range(list) : r.on})
Enabled(list) == NamesOf(On(list))
WithNamesIn(list, names) == Filtered(list, {r \in Range(list) : r.name \in names})

\* supported(): every codec, enabled.
Default == [i \in DOMAIN Supported |-> [name |-> Supported[i], on |-> TRUE]]

\* Fault: the codecs a profile does not list are left out.
ShownAsListed(list) == WithNamesIn(list, Names)

\* setAvailableCodecs(): the given ones first, then any missing one, unchecked.
Shown(list) ==
    LET given == WithNamesIn(list, Names)
        missing == WithNamesIn(Default, Names \ Range(NamesOf(given)))
    IN  given \o [i \in DOMAIN missing |-> [missing[i] EXCEPT !.on = FALSE]]

\* Fault: the engine's order is kept and only the marks are taken over.
OrderedAsEngine(list, engineList) ==
    [i \in DOMAIN engineList |->
        [engineList[i] EXCEPT !.on = [name |-> engineList[i].name, on |-> TRUE] \in Range(list)]]

\* setAudioCodecsOrder(): the payload types the engine has, in the order given.  A name given
\* twice is one payload type, twice in the list, with the mark given last.
Ordered(list, engineList) ==
    LET found == WithNamesIn(list, Range(NamesOf(engineList)))
        last(i) == CHOOSE j \in DOMAIN found :
                       /\ found[j].name = found[i].name
                       /\ \A k \in DOMAIN found : found[k].name = found[i].name => k <= j
    IN  [i \in DOMAIN found |-> found[last(i)]]

\* setDtmfMethod(): neither flag is in-band.
Flags(method) == [rfc2833 |-> method = "rfc2833", info |-> method = "info"]

-------------------------------------------------------------------------------
(* Profile files.  A file without a codec list, or of names this program does not know, brings
   no codecs at all; format 1 also lists disabled ones. *)

\* Fault: a name this program does not know is kept.
CodecsFromJsonAll(entries) == entries

\* codecsFromJson(): the entries this program offers, a mere name enabled.
CodecsFromJson(entries) == WithNamesIn(entries, Names)

\* Fault: every codec of the screen is written, as format 1 did, but without its mark.
ExportedWithDisabled(profile) ==
    [codecs |-> [i \in DOMAIN profile.codecs |-> [profile.codecs[i] EXCEPT !.on = TRUE]],
     dtmf |-> profile.dtmf, transport |-> profile.transport, proxy |-> profile.proxy, push |-> FALSE]

\* exportProfile(): the enabled codecs by name, in order.
Exported(profile) ==
    [codecs |-> On(profile.codecs),
     dtmf |-> profile.dtmf, transport |-> profile.transport, proxy |-> profile.proxy, push |-> FALSE]

\* importProfile(), of a file that could be read and opened: a push gateway is not for a PC, and
\* TCP is the transport of a file that has none.
Imported(file) ==
    [codecs |-> CodecsFromJson(file.codecs), dtmf |-> file.dtmf,
     transport |-> IF file.transport = "" THEN "TCP" ELSE file.transport,
     proxy |-> IF file.push THEN "" ELSE file.proxy]

\* The codec lists of files: format 2 and 3 entries are enabled, format 1 entries carry a mark.
FileLists == UNION {[1 .. n -> Rows \cup [name : Others, on : {TRUE}]] : n \in 0 .. MaxEntries}

-------------------------------------------------------------------------------
(* The settings screen. *)

\* onSettingsRequested(): the engine's codecs, then those of the profile on top.  Profiles here
\* have a user and a server: loadProfile() reads back no other.
OpensScreen ==
    /\ engineOn /\ ~screen.open
    /\ screen' = [open |-> TRUE,
                  rows |-> Shown(IF inForce.codecs = << >> THEN payloads ELSE inForce.codecs)]
    /\ UNCHANGED << engineOn, sdk, payloads, inForce, onDisk, dtmfFlags >>

Edits(list) ==
    /\ engineOn /\ screen.open /\ screen' = [screen EXCEPT !.rows = list]
    /\ UNCHANGED << engineOn, sdk, payloads, inForce, onDisk, dtmfFlags >>

\* A click on a check box, and a row dragged past its neighbour.
Toggles(i) == i \in DOMAIN screen.rows /\ Edits([screen.rows EXCEPT ![i].on = ~@])
Drags(i) ==
    /\ i \in DOMAIN screen.rows /\ i + 1 \in DOMAIN screen.rows
    /\ Edits([screen.rows EXCEPT ![i] = screen.rows[i + 1], ![i + 1] = screen.rows[i]])

ClosesScreen ==
    /\ engineOn /\ screen.open /\ screen' = ClosedScreen
    /\ UNCHANGED << engineOn, sdk, payloads, inForce, onDisk, dtmfFlags >>

\* applyProfile(), as far as codecs and DTMF go: no codecs, no change.
AppliesCodecs(profile) ==
    /\ inForce' = profile
    /\ payloads' = IF profile.codecs = << >> THEN payloads ELSE Ordered(profile.codecs, payloads)
    /\ dtmfFlags' = Flags(profile.dtmf)

\* saveProfile(): the list, marks and order.
SavesProfile(profile) == onDisk' = profile

\* onSave(): the rows as they are on screen, all of them.
SavesScreen(method) ==
    LET profile == [codecs |-> screen.rows, dtmf |-> method]
    IN  /\ engineOn /\ screen.open /\ screen' = ClosedScreen
        /\ AppliesCodecs(profile) /\ SavesProfile(profile) /\ UNCHANGED << engineOn, sdk >>

\* onImportClicked(): the rows follow a file that has any, and the profile is applied and saved
\* as the file has it; the screen stays open.
Imports(list, method) ==
    LET profile == [codecs |-> CodecsFromJson(list), dtmf |-> method]
    IN  /\ engineOn /\ screen.open
        /\ screen' = IF profile.codecs = << >> THEN screen ELSE [screen EXCEPT !.rows = Shown(profile.codecs)]
        /\ AppliesCodecs(profile) /\ SavesProfile(profile) /\ UNCHANGED << engineOn, sdk >>

-------------------------------------------------------------------------------
(* The process. *)

EngineStops ==
    /\ engineOn /\ engineOn' = FALSE /\ screen' = ClosedScreen
    /\ payloads' = << >> /\ sdk' = {} /\ UNCHANGED << inForce, onDisk, dtmfFlags >>

\* Fault: the saved profile is applied before start() prunes the list.
EngineStartsUnordered(built) ==
    /\ ~engineOn /\ engineOn' = TRUE /\ sdk' = built
    /\ inForce' = onDisk /\ payloads' = WithNamesIn(Default, built)
    /\ dtmfFlags' = Flags(onDisk.dtmf)
    /\ UNCHANGED << onDisk, screen >>

\* start() leaves the supported codecs the engine has, then the saved profile is applied.
EngineStarts(built) ==
    /\ ~engineOn /\ engineOn' = TRUE /\ sdk' = built
    /\ inForce' = onDisk
    /\ LET pruned == WithNamesIn(Default, built)
       IN  payloads' = IF onDisk.codecs = << >> THEN pruned ELSE Ordered(onDisk.codecs, pruned)
    /\ dtmfFlags' = Flags(onDisk.dtmf)
    /\ UNCHANGED << onDisk, screen >>

CodecsInit ==
    /\ engineOn = FALSE /\ sdk = {} /\ payloads = << >> /\ screen = ClosedScreen
    /\ onDisk = [codecs |-> << >>, dtmf |-> "rfc2833"] /\ inForce = onDisk
    /\ dtmfFlags = Flags("rfc2833")

CodecsNext ==
    \/ OpensScreen \/ ClosesScreen \/ EngineStops
    \/ \E built \in SUBSET Names : EngineStarts(built)
    \/ \E i \in DOMAIN screen.rows : Toggles(i) \/ Drags(i)
    \/ \E method \in Methods : SavesScreen(method) \/ \E list \in FileLists : Imports(list, method)

CodecsSpec == CodecsInit /\ [][CodecsNext]_codecsVars

-------------------------------------------------------------------------------
(* Properties. *)

\* The lists hold codecs of this program only: nothing else is negotiated or shown.
CodecsTypeOK ==
    /\ engineOn \in BOOLEAN /\ sdk \subseteq Names /\ dtmfFlags \in [rfc2833 : BOOLEAN, info : BOOLEAN]
    /\ payloads \in Seq(Rows) /\ screen.rows \in Seq(Rows)
    /\ inForce \in [codecs : Seq(Rows), dtmf : Methods] /\ onDisk \in [codecs : Seq(Rows), dtmf : Methods]

\* What is offered in a call is what the profile enables, in its order of priority, as far as the
\* engine still has it.  Left out: a file that names a codec twice.
OfferFollowsProfile ==
    engineOn /\ inForce.codecs # << >> /\ IsInjective(NamesOf(inForce.codecs)) =>
        Enabled(payloads) = Enabled(WithNamesIn(inForce.codecs, Range(NamesOf(payloads))))

\* "A codec switched off once would vanish from the screen and could never be switched back on":
\* while the screen is open every supported codec has a row, whatever was imported.
ScreenListsEveryCodec == screen.open => Names \subseteq Range(NamesOf(screen.rows))

\* A profile exported from the screen and imported again offers the same codecs in the same order
\* and reaches the server the same way.
RoundTrip ==
    screen.open => \A transport \in Transports, proxy \in {"", "proxy"} :
        LET profile == [codecs |-> screen.rows, dtmf |-> "info", transport |-> transport, proxy |-> proxy]
        IN  LET back == Imported(Exported(profile))
            IN  /\ Enabled(back.codecs) = Enabled(profile.codecs)
                /\ back = [profile EXCEPT !.codecs = back.codecs]

\* A start offers what the saved profile enables, or everything without one, as far as the engine
\* was built with it and whatever it had forgotten before.  Left out: a file that names a codec twice.
RestartKeepsOffer ==
    [][~engineOn /\ engineOn' /\ IsInjective(NamesOf(onDisk.codecs)) =>
          LET saved == IF onDisk.codecs = << >> THEN Default ELSE onDisk.codecs
          IN  Enabled(payloads') = Enabled(WithNamesIn(saved, sdk'))]_codecsVars

\* "a codec switched off once would vanish from the screen and could never be switched back on":
\* the screen exists so that it can, so a codec that the profile in force enables and the engine was
\* built with is offered.  Left out: a file that names a codec twice.
EnabledCodecIsOffered ==
    engineOn /\ IsInjective(NamesOf(inForce.codecs)) =>
        Range(Enabled(inForce.codecs)) \cap sdk \subseteq Range(Enabled(payloads))

=============================================================================

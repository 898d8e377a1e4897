------------------------------- MODULE Softphone -------------------------------
(***************************************************************************)
(* The window (src/ui/MainWindow.cpp) on top of the call control of        *)
(* SipCoreManager.  The window keeps a screen state, and who it believes   *)
(* is on each line, of its own: it changes them in the slots the core's    *)
(* signals call and around the operations it asks of the core.  Slots run  *)
(* inside the operation that emits, so a button handler may assign before, *)
(* during and after the core moved its pointers.                           *)
(*                                                                         *)
(* A step of the composition is a button, or a callback of the engine, with *)
(* all the slots it runs.                                                  *)
(***************************************************************************)
EXTENDS CallControl, SequencesExt

VARIABLE ui     \* the members of MainWindow about calls

UiCallStates == {"Idle", "Incoming", "Active", "CallWaiting", "TwoCalls", "TransferDialing",
                 "TransferConsulting", "ForwardDialing", "Conference"}

\* What the screen offers: mute, hold and transfer; the row of round buttons; a duration.
InCall == {"Active", "CallWaiting", "TwoCalls"}
ActionsShown == InCall \cup {"TransferDialing", "TransferConsulting", "Conference"}
ClockShown == InCall \cup {"TransferConsulting", "Conference"}

\* A number: that of a call, a dialled one no call came of, or none.
Numbers == CallOrNone \cup {"dialled"}

Notes == {"none", "elsewhere", "unanswered", "byOther", "autoHandled"}
Records == [peer : Numbers, incoming : BOOLEAN, answered : BOOLEAN, note : Notes]

UiStates == [state            : UiCallStates,    \* m_uiCallState
             peer             : Numbers,         \* m_currentCallPeer
             connected        : CallOrNone,      \* m_currentCallConnectedPeer
             incoming         : BOOLEAN,         \* m_currentCallIncoming
             answered         : BOOLEAN,         \* m_currentCallAnswered
             heldPeer         : Numbers,         \* m_heldPeer
             waitingPeer      : CallOrNone,      \* m_waitingPeer
             conferenceButton : BOOLEAN,         \* m_conferenceButton is visible
             holdButton       : BOOLEAN,         \* m_holdButton is checked
             clock            : BOOLEAN,         \* m_callDurationTimer is active
             menu             : {<< >>} \cup (CallOrNone \X CallOrNone),  \* the open menu's parties
             log              : Seq(Records)]    \* appended to the history in this step

\* applyUiCallState(): can is what canStartConference() answers meanwhile.
Apply(u, state, can) ==
    [u EXCEPT !.state = state,
              !.conferenceButton = (state = "Conference") \/ can,
              !.holdButton = @ /\ state \in ActionsShown,
              !.clock = @ /\ state \in ClockShown]

InForeground(u) == IF u.connected = NoCall THEN u.peer ELSE u.connected

\* recordCallInHistory(): elsewhere is whether lastCallEndNote() has something to say.
RecordNote(u, elsewhere) ==
    CASE ~u.answered /\ u.incoming /\ elsewhere     -> "elsewhere"
      [] ~u.answered /\ ~(u.incoming /\ elsewhere)  -> "unanswered"
      [] OTHER -> IF InForeground(u) # u.peer THEN "byOther" ELSE "none"

\* Fault: only calls that reached somebody are recorded.
RecordConnectedOnly(u, elsewhere) ==
    LET record == [peer |-> u.peer, incoming |-> u.incoming, answered |-> u.answered,
                   note |-> RecordNote(u, elsewhere)]
    IN  IF u.connected = NoCall THEN u
        ELSE [u EXCEPT !.log = Append(@, record), !.peer = NoCall, !.connected = NoCall,
                       !.answered = FALSE]

RecordCallInHistory(u, elsewhere) ==
    LET record == [peer |-> u.peer, incoming |-> u.incoming, answered |-> u.answered,
                   note |-> RecordNote(u, elsewhere)]
    IN  IF u.peer = NoCall THEN u
        ELSE [u EXCEPT !.log = Append(@, record), !.peer = NoCall, !.connected = NoCall,
                       !.answered = FALSE]

-------------------------------------------------------------------------------
(* The slots. *)

OnRemotePartyChanged(u, s) == [u EXCEPT !.connected = s.who]

OnCallConnected(u) == [u EXCEPT !.answered = TRUE, !.clock = TRUE]

OnIncomingCall(u, s) ==
    Apply([u EXCEPT !.peer = s.who, !.incoming = TRUE, !.answered = FALSE], "Incoming", s.conf)

OnCallEnded(u, s) == Apply(RecordCallInHistory(u, s.note), "Idle", s.conf)

OnCallWaiting(u, s) == Apply([u EXCEPT !.waitingPeer = s.who], "CallWaiting", s.conf)

\* Fault: the screen is not taken back to the conversation.
OnWaitingCallEndedStays(u, s) == [u EXCEPT !.waitingPeer = NoCall]

OnWaitingCallEnded(u, s) ==
    LET v == [u EXCEPT !.waitingPeer = NoCall]
    IN  IF u.state = "CallWaiting" THEN Apply(v, IF s.held THEN "TwoCalls" ELSE "Active", s.conf)
                                   ELSE v

OnHeldCallEnded(u, s) ==
    LET v == [u EXCEPT !.heldPeer = NoCall]
    IN  IF u.state = "TwoCalls" THEN Apply(v, "Active", s.conf) ELSE v

\* Fault: the numbers of the two lines are not exchanged.
OnHeldCallPromotedKeepsPeer(u, s) ==
    Apply([u EXCEPT !.connected = NoCall, !.heldPeer = NoCall], "Active", s.conf)

OnHeldCallPromoted(u, s) ==
    Apply([u EXCEPT !.peer = u.heldPeer, !.connected = NoCall, !.heldPeer = NoCall],
          "Active", s.conf)

OnConsultationConnected(u, s) == Apply(u, u.state, s.conf)

OnConferenceStarted(u, s) ==
    Apply([u EXCEPT !.heldPeer = NoCall, !.holdButton = FALSE], "Conference", s.conf)

OnConferenceEnded(u, s) == Apply(u, "Active", s.conf)

OnCallAutoHandled(u, s) ==
    [u EXCEPT !.log = Append(@, [peer |-> s.who, incoming |-> TRUE, answered |-> FALSE,
                                 note |-> "autoHandled"])]

\* The connections of the constructor; onErrorOccurred only writes the hook line.
Slot(u, s) ==
    CASE s.name = "remotePartyChanged"        -> OnRemotePartyChanged(u, s)
      [] s.name = "callConnected"             -> OnCallConnected(u)
      [] s.name = "incomingCall"              -> OnIncomingCall(u, s)
      [] s.name = "callEnded"                 -> OnCallEnded(u, s)
      [] s.name = "callWaiting"               -> OnCallWaiting(u, s)
      [] s.name = "waitingCallEnded"          -> OnWaitingCallEnded(u, s)
      [] s.name = "heldCallEnded"             -> OnHeldCallEnded(u, s)
      [] s.name = "heldCallPromoted"          -> OnHeldCallPromoted(u, s)
      [] s.name = "consultationCallConnected" -> OnConsultationConnected(u, s)
      [] s.name = "conferenceStarted"         -> OnConferenceStarted(u, s)
      [] s.name = "conferenceEnded"           -> OnConferenceEnded(u, s)
      [] s.name = "callAutoHandled"           -> OnCallAutoHandled(u, s)
      [] s.name = "errorOccurred"             -> u

Deliver(u, signals) == FoldLeft(Slot, u, signals)

-------------------------------------------------------------------------------
(* The buttons.  An open menu keeps the input; a click does nothing after the core is down. *)

Screen(states) == ui.state \in states /\ ui.menu = << >> /\ ~core.down

Fresh == [ui EXCEPT !.log = << >>]

\* The core ran, with its slots, on the window as before: then the handler goes on to state.
Then(before, state) == ui' = Apply(Deliver(before, core'.sig), state, CanStartConference(core'))
Settles == ui' = Deliver(Fresh, core'.sig)
Shows(state) == UNCHANGED core /\ ui' = Apply(Fresh, state, CanStartConference(core))

\* Fault: the number dialled is taken for the party reached.
DialledIsConnected(number) ==
    ui' = Apply([Deliver(Fresh, core'.sig) EXCEPT !.peer = number, !.connected = number,
                                                  !.incoming = FALSE, !.answered = FALSE],
                "Active", CanStartConference(core'))

\* onActionButtonClicked, Idle: the dial key.  The line is marked busy whatever call() did.
Dialled(number) ==
    ui' = Apply([Deliver(Fresh, core'.sig) EXCEPT !.peer = number, !.incoming = FALSE,
                                                  !.answered = FALSE],
                "Active", CanStartConference(core'))

\* Fault: a number can be dialled from the contacts in the middle of a call.
DialsDuringCall(c) ==
    /\ Screen({"Idle", "Active"}) /\ Invitable(c)
    /\ Step(Call(Now, c))
    /\ Dialled(IF c = NoCall THEN "dialled" ELSE c)

Dials(c) ==
    /\ Screen({"Idle"}) /\ Invitable(c)
    /\ Step(Call(Now, c))
    /\ Dialled(IF c = NoCall THEN "dialled" ELSE c)
DialsBadTarget == Screen({"Idle"}) /\ Step(CallBadTarget(Now)) /\ Dialled("dialled")

Answers == Screen({"Incoming"}) /\ Step(Answer(Now)) /\ Then(Fresh, "Active")

HangsUp == Screen({"Active", "TwoCalls", "Conference"}) /\ Step(Hangup(Now)) /\ Settles

AnswersWaiting ==
    LET taken == [Fresh EXCEPT !.heldPeer = InForeground(ui), !.peer = ui.waitingPeer,
                               !.connected = NoCall, !.incoming = TRUE, !.answered = TRUE,
                               !.waitingPeer = NoCall]
    IN  Screen({"CallWaiting"}) /\ Step(AnswerWaitingCall(Now)) /\ Then(taken, "TwoCalls")

CallsTransferTarget(c) ==
    /\ Screen({"TransferDialing"}) /\ Invitable(c)
    /\ Step(BeginAttendedTransfer(Now, c))
    /\ Then(Fresh, "TransferConsulting")
CallsBadTransferTarget ==
    Screen({"TransferDialing"}) /\ Step(BeginTransferBadTarget(Now)) /\ Then(Fresh, "TransferConsulting")

Transfers == Screen({"TransferConsulting"}) /\ Step(CompleteAttendedTransfer(Now)) /\ Settles

SetsForward(forward) ==
    /\ Screen({"ForwardDialing"})
    /\ Step([Now EXCEPT !.forward = forward])
    /\ Then(Fresh, "Idle")

\* onSecondaryButtonClicked.
Declines == Screen({"Incoming"}) /\ Step(Hangup(Now)) /\ Then(Fresh, "Idle")

DeclinesWaiting == Screen({"CallWaiting"}) /\ Step(DeclineWaitingCall(Now)) /\ Settles

Swaps ==
    LET after == Deliver(Fresh, core'.sig)
    IN  /\ Screen({"TwoCalls"})
        /\ Step(SwapCalls(Now))
        /\ ui' = [after EXCEPT !.peer = after.heldPeer, !.connected = NoCall,
                               !.heldPeer = InForeground(after)]

GivesUpDialing == Screen({"TransferDialing"}) /\ Step(SetHeld(Now, FALSE)) /\ Then(Fresh, "Active")

CancelsTransfer ==
    Screen({"TransferConsulting"}) /\ Step(CancelAttendedTransfer(Now)) /\ Then(Fresh, "Active")

CancelsForward == Screen({"ForwardDialing"}) /\ Shows("Idle")

\* The round buttons.
TogglesHold ==
    /\ Screen(InCall)
    /\ Step(SetHeld(Now, ~ui.holdButton))
    /\ ui' = Deliver([Fresh EXCEPT !.holdButton = ~@], core'.sig)

ClicksTransfer ==
    LET parked == [Deliver(Fresh, core'.sig) EXCEPT !.holdButton = TRUE]
    IN  /\ Screen(InCall) /\ core.active # NoCall
        /\ Step(SetHeld(Now, TRUE))
        /\ ui' = Apply(parked, "TransferDialing", CanStartConference(core'))

ClicksConference(created) ==
    /\ Screen(ActionsShown) /\ ui.conferenceButton /\ ~core.conference
    /\ Step(StartConference(Now, created))
    /\ Settles

\* The menu names the parties of this moment; the calls go on while it is open.
OpensMenu ==
    /\ Screen(ActionsShown) /\ ui.conferenceButton /\ core.conference
    /\ UNCHANGED core
    /\ ui' = [Fresh EXCEPT !.menu = << core.active, core.held >>]

MenuDrops(index) ==
    /\ ui.menu # << >>
    /\ Step(DropConferenceParticipant(Now, index))
    /\ ui' = Deliver([Fresh EXCEPT !.menu = << >>], core'.sig)

ClosesMenu == ui.menu # << >> /\ ~core.down /\ UNCHANGED core /\ ui' = [Fresh EXCEPT !.menu = << >>]

\* Do-not-disturb, the forward key, and the forward target of the settings dialog.
TogglesDnd == Screen(UiCallStates) /\ Step([Now EXCEPT !.dnd = ~@]) /\ Settles

ClicksForward == core.forward = "off" /\ Screen({"Idle"}) /\ Shows("ForwardDialing")

AppliesForward(forward) == Screen(UiCallStates) /\ Step([Now EXCEPT !.forward = forward]) /\ Settles

Quits == Step(Shutdown(Now)) /\ Settles

WindowNext ==
    \/ \E c \in CallOrNone : Dials(c) \/ CallsTransferTarget(c)
    \/ DialsBadTarget \/ CallsBadTransferTarget
    \/ Answers \/ HangsUp \/ AnswersWaiting \/ Declines \/ DeclinesWaiting \/ Swaps
    \/ GivesUpDialing \/ CancelsTransfer \/ CancelsForward \/ Transfers
    \/ TogglesHold \/ ClicksTransfer \/ OpensMenu \/ ClosesMenu
    \/ \E created \in BOOLEAN : ClicksConference(created)
    \/ \E index \in {0, 1} : MenuDrops(index)
    \/ \E forward \in Forwards : SetsForward(forward)
    \/ \E forward \in Forwards \cup {"off"} : AppliesForward(forward)
    \/ TogglesDnd \/ ClicksForward \/ Quits

\* The engine calls back: the core moves, then the slots have run.
CallsBack == EngineNext /\ Settles

Init ==
    /\ CoreInit
    /\ ui = [state |-> "Idle", peer |-> NoCall, connected |-> NoCall, incoming |-> FALSE,
             answered |-> FALSE, heldPeer |-> NoCall, waitingPeer |-> NoCall,
             conferenceButton |-> FALSE, holdButton |-> FALSE, clock |-> FALSE,
             menu |-> << >>, log |-> << >>]

Next == WindowNext \/ CallsBack

Spec == Init /\ [][Next]_<<core, ui>>

-------------------------------------------------------------------------------
(* Properties. *)

\* The members have the types of MainWindow.h.
UiTypeOK == ui \in UiStates

\* The idle screen, or the forward target being typed, hides no call: that screen has no
\* key to hang up with.
IdleHidesNoCall ==
    ui.state \in {"Idle", "ForwardDialing"} => core.active = NoCall /\ core.held = NoCall
                                               /\ core.waiting = NoCall

\* The screen offers the keys of the situation the line is in: "Atender" and "Recusar" on an
\* incoming screen act on a call that rings, alone and under its own number; those of the
\* waiting screen on a waiting call; "Alternar" on a parked one; and the conference screen is
\* there exactly while there is a conference.
ScreenShowsLine ==
    /\ ui.state = "Incoming" => /\ core.active # NoCall /\ core.st[core.active] = "incoming"
                                /\ ui.peer = core.active
                                /\ core.held = NoCall /\ core.waiting = NoCall
    /\ ui.state = "CallWaiting" => core.waiting # NoCall /\ ui.waitingPeer = core.waiting
    /\ ui.state = "TwoCalls" => core.held # NoCall
    /\ ui.state = "Conference" <=> core.conference

\* The menu of a conference hangs up on the party it named or on nobody, whatever the parties
\* did while it was open.
DropHitsNamedParty ==
    [][ \A index \in {0, 1} : MenuDrops(index) =>
            \A c \in Calls : Live(core, c) /\ ~Live(core', c) => c = ui.menu[index + 1] ]_<<core, ui>>

\* What the window believes of the line: m_currentCallPeer is the foreground call, nobody else is
\* connected to it, and m_heldPeer is the parked one.
NamesRight(p, u) ==
    /\ p.active # NoCall => u.peer = p.active /\ u.connected \in {NoCall, p.active}
    /\ p.held # NoCall /\ ~p.conference => u.heldPeer = p.held

\* Through promotions, parked and waiting calls, transfers and menus the window goes on naming the
\* right parties.  Three steps can mislead it, until the line is free again: "Alternar"; the end of
\* a conference that leaves the party that was not in the foreground; and the end of a call with
\* another one ringing, which is named but keeps the connected party of the call before it.
NamesStayRight ==
    [][ NamesRight(core, ui) =>
            \/ NamesRight(core', ui') \/ Swaps
            \/ core.conference /\ ~core'.conference /\ core'.active = core.held
            \/ core.waiting # NoCall /\ core'.active = core.waiting /\ ui'.state = "Incoming" ]_<<core, ui>>

\* When the line goes back on hook, the history gets the call that ended, under its own number,
\* whichever slot or operation ended it and whatever became of the calls beside it, as long as the
\* window had the right number for it.
EndedCallIsRecorded ==
    [][ core'.active = NoCall /\ core.active # NoCall /\ ui.peer = core.active =>
            \E i \in DOMAIN ui'.log : ui'.log[i].peer = core.active ]_<<core, ui>>

-------------------------------------------------------------------------------
(* What the comments and the README claim, and the code does not do. *)

\* README.md:350-353 counts an idle screen over a live call, "sem meio de desligá-la", among the
\* traps this code avoids: no screen is idle while the user talks to a transfer target.
IdleHidesNoConsultation ==
    ui.state \in {"Idle", "ForwardDialing"} /\ core.consultation # NoCall
        => core.st[core.consultation] # "running"

\* MainWindow.cpp:981-983: with two calls the user has to know who is parked: the badge names
\* the parked call.
BadgeNamesParkedCall == ui.state = "TwoCalls" => ui.heldPeer = core.held

\* SipCoreManager.cpp:1342-1343: of a call that rings here the user decides: while the foreground
\* call rings, the screen has a key to answer with.
RingingCanBeAnswered ==
    core.active # NoCall /\ core.st[core.active] = "incoming"
        => ui.state \in {"Incoming", "CallWaiting"}

\* SipCoreManager.cpp:844-845: once there is a conference "the two calls are the conference: no
\* consultation, no parked call": nobody who was parked is left outside it on a live call.
ConferenceLeavesNobodyParked ==
    [][ ~core.conference /\ core'.conference /\ core.held # NoCall /\ core'.st[core.held] = "paused"
            => core.held \in Legs(core') ]_<<core, ui>>

\* SipCoreManager.cpp:34-35: "Every leg, not just the foreground one: a parked or ringing call left
\* behind would keep a dialog open on the PBX after we're gone": a transfer that is begun leaves
\* every living call among the legs shutdown() goes through.
TransferKeepsEveryLeg ==
    [][ \A new \in CallOrNone : CallsTransferTarget(new) =>
            \A c \in Legs(core) : core'.st[c] \in LiveStates => c \in Legs(core') ]_<<core, ui>>

===============================================================================

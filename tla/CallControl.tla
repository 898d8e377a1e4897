------------------------------ MODULE CallControl ------------------------------
(***************************************************************************)
(* Call control of SipCoreManager (src/core/SipCoreManager.cpp): the call  *)
(* legs the program keeps pointers to, the operations the window calls and *)
(* the callbacks liblinphone makes.                                        *)
(*                                                                         *)
(* Everything runs on one thread, but an operation is not a single         *)
(* assignment: terminating a call makes the engine call back               *)
(* handleCallStateChanged before the operation has finished, and that      *)
(* handler moves the very pointers the operation is walking.  So every     *)
(* operation and handler is an operator from a state of the core to the    *)
(* state it leaves, an operation composes the handlers it triggers, and an *)
(* action stores the outcome.                                              *)
(***************************************************************************)
EXTENDS Sequences

CONSTANTS
    Calls,      \* the LinphoneCall objects the engine can hand out
    NoCall,     \* nullptr
    Forwards    \* kinds of forward target a user enters: "good" resolves, "bad" does not

ASSUME NoCallAssumption == NoCall \notin Calls
ASSUME ForwardsAssumption == Forwards \subseteq {"good", "bad"}

VARIABLE core   \* the members of SipCoreManager that call control uses, and the engine's calls

CallOrNone == Calls \cup {NoCall}

\* What the engine knows of a call.  "accepted": we answered, the dialog is not
\* confirmed yet; "connected": answered, media (re)starting; "ended": the End or
\* Error callback was made, Released still to come.
CallStates == {"free", "incoming", "outgoing", "accepted", "connected", "running", "paused", "ended"}
LiveStates == CallStates \ {"free", "ended"}

SignalNames == {"incomingCall", "callConnected", "remotePartyChanged", "callEnded", "callWaiting",
                "waitingCallEnded", "heldCallEnded", "heldCallPromoted", "conferenceStarted",
                "conferenceEnded", "callAutoHandled", "consultationCallConnected", "errorOccurred"}

\* A signal, the party it is about, and what its slot sees if it asks the core at the moment
\* of the emit: hasHeldCall(), canStartConference(), lastCallEndNote().
Signals == [name : SignalNames, who : CallOrNone, held : BOOLEAN, conf : BOOLEAN, note : BOOLEAN]

CoreStates == [st           : [Calls -> CallStates],
               active       : CallOrNone,     \* m_activeCall
               consultation : CallOrNone,     \* m_consultationCall
               held         : CallOrNone,     \* m_heldCall
               waiting      : CallOrNone,     \* m_waitingCall
               conference   : BOOLEAN,        \* m_conference != nullptr
               target       : BOOLEAN,        \* m_transferTarget is not empty
               answered     : BOOLEAN,        \* m_consultationAnswered
               lastParty    : CallOrNone,     \* m_lastRemoteParty
               endNote      : BOOLEAN,        \* m_lastCallEndNote is not empty
               dnd          : BOOLEAN,        \* m_doNotDisturb
               forward      : Forwards \cup {"off"},  \* m_callForwardTarget
               down         : BOOLEAN,        \* m_shutdownDone
               sig          : Seq(Signals)]   \* emitted so far by the step in progress

Live(p, c) == c # NoCall /\ p.st[c] \in LiveStates

Legs(p) == {p.active, p.consultation, p.held, p.waiting} \ {NoCall}

CanStartConference(p) ==
    /\ ~p.conference
    /\ p.active # NoCall
    /\ p.waiting = NoCall
    /\ (p.consultation # NoCall /\ p.answered) \/ p.held # NoCall

Emit(p, name, who) ==
    [p EXCEPT !.sig = Append(@, [name |-> name, who |-> who,
                                 held |-> p.held # NoCall, conf |-> CanStartConference(p),
                                 note |-> p.endNote])]

-------------------------------------------------------------------------------
(* The engine, as the code drives it. *)

\* linphone_call_pause / _resume: refused for a call that is not established / not paused.
Pause(p, c) == IF p.st[c] \in {"connected", "running"} THEN [p EXCEPT !.st[c] = "paused"] ELSE p

Resume(p, c) == IF p.st[c] = "paused" THEN [p EXCEPT !.st[c] = "connected"] ELSE p

\* linphone_call_accept
Accept(p, c) == IF p.st[c] = "incoming" THEN [p EXCEPT !.st[c] = "accepted"] ELSE p

-------------------------------------------------------------------------------
(* Callbacks: publishRemoteParty and the branches of handleCallStateChanged. *)

\* Announces who is on the line, unless it is who was announced last.
PublishRemoteParty(p, c) ==
    IF c \in {NoCall, p.lastParty}
    THEN p
    ELSE Emit([p EXCEPT !.lastParty = c], "remotePartyChanged", c)

\* The foreground call ended with another one parked.
PromoteHeldCall(p) ==
    LET q == Resume([p EXCEPT !.active = p.held, !.held = NoCall, !.lastParty = NoCall], p.held)
    IN  PublishRemoteParty(Emit(q, "heldCallPromoted", NoCall), p.held)

\* The foreground call ended with another one still ringing.
WaitingBecomesIncoming(p) ==
    LET q == [p EXCEPT !.active = p.waiting, !.waiting = NoCall]
    IN  Emit(Emit(q, "waitingCallEnded", NoCall), "incomingCall", p.waiting)

\* Faults for the invariants to catch: the announced identity kept; the ringing call left out.
ForegroundGoneKeepsParty(p) ==
    LET q == [p EXCEPT !.active = NoCall]
    IN  CASE q.held # NoCall                        -> PromoteHeldCall(q)
          [] q.held = NoCall /\ q.waiting # NoCall  -> WaitingBecomesIncoming(q)
          [] OTHER                                  -> Emit(q, "callEnded", NoCall)

ForegroundGoneHidesWaiting(p) ==
    LET q == [p EXCEPT !.active = NoCall, !.lastParty = NoCall]
    IN  IF q.held # NoCall THEN PromoteHeldCall(q) ELSE Emit(q, "callEnded", NoCall)

ForegroundGone(p) ==
    LET q == [p EXCEPT !.active = NoCall, !.lastParty = NoCall]
    IN  CASE q.held # NoCall                        -> PromoteHeldCall(q)
          [] q.held = NoCall /\ q.waiting # NoCall  -> WaitingBecomesIncoming(q)
          [] OTHER                                  -> Emit(q, "callEnded", NoCall)

\* One of the two parties of the conference is gone; the other one is a plain call again.
ConferencePartyGone(p, c) ==
    LET remaining == IF c = p.active THEN p.held ELSE p.active
        q == [p EXCEPT !.conference = FALSE, !.active = remaining,
                       !.held = NoCall, !.lastParty = NoCall]
    IN  IF remaining # NoCall
        THEN PublishRemoteParty(Emit(q, "conferenceEnded", NoCall), remaining)
        ELSE Emit(q, "callEnded", NoCall)

WaitingGone(p, c) ==
    IF c = p.waiting THEN Emit([p EXCEPT !.waiting = NoCall], "waitingCallEnded", NoCall) ELSE p

HeldGone(p, c) ==
    IF c = p.held THEN Emit([p EXCEPT !.held = NoCall], "heldCallEnded", NoCall) ELSE p

ActiveGone(p, c) == IF c = p.active THEN ForegroundGone(p) ELSE p

\* Fault: the consultation pointer outlives its call.
ConsultationStays(p, c) == p

ConsultationGone(p, c) == IF c = p.consultation THEN [p EXCEPT !.consultation = NoCall] ELSE p

\* End, Error and Released share one branch; only End rewrites the end note.
CallGone(p, c, event, elsewhere) ==
    IF p.conference /\ c \in {p.active, p.held}
    THEN ConferencePartyGone(p, c)
    ELSE LET q == IF event = "End" /\ c = p.active THEN [p EXCEPT !.endNote = elsewhere] ELSE p
         IN  ConsultationGone(ActiveGone(HeldGone(WaitingGone(q, c), c), c), c)

\* linphone_call_terminate / _decline / _redirect_to: the End callback runs before they return.
Terminate(p, c) ==
    IF Live(p, c) THEN CallGone([p EXCEPT !.st[c] = "ended"], c, "End", FALSE) ELSE p

-------------------------------------------------------------------------------
(* Operations, called by the window. *)

\* call(): c is the engine's answer to the INVITE, NoCall when it could not create the call.
Call(p, c) ==
    IF c = NoCall THEN [p EXCEPT !.active = NoCall]
                  ELSE [p EXCEPT !.active = c, !.st[c] = "outgoing"]

\* call() with a target linphone_core_interpret_url does not understand.
CallBadTarget(p) == Emit(p, "errorOccurred", NoCall)

Answer(p) == IF p.active # NoCall THEN Accept(p, p.active) ELSE p

Hangup(p) ==
    LET q == Terminate(p, IF p.conference THEN p.held ELSE p.consultation)
    IN  Terminate(q, q.active)

SetHeld(p, held) ==
    CASE p.active = NoCall          -> p
      [] p.active # NoCall /\ held  -> Pause(p, p.active)
      [] OTHER                      -> Resume(p, p.active)

AnswerWaitingCall(p) ==
    LET c == p.waiting
        q == IF p.active = NoCall THEN p ELSE [Pause(p, p.active) EXCEPT !.held = p.active]
        r == [q EXCEPT !.waiting = NoCall, !.active = c, !.lastParty = NoCall]
    IN  IF c = NoCall THEN p ELSE PublishRemoteParty(Accept(r, c), c)

DeclineWaitingCall(p) ==
    IF p.waiting = NoCall
    THEN p
    ELSE Emit([Terminate(p, p.waiting) EXCEPT !.waiting = NoCall], "waitingCallEnded", NoCall)

\* Fault: the second half of the exchange is missing.
SwapHalf(p) ==
    LET q == Resume(Pause(p, p.active), p.held)
    IN  IF NoCall \in {p.active, p.held} THEN p ELSE [q EXCEPT !.active = p.held, !.lastParty = NoCall]

SwapCalls(p) ==
    LET q == Resume(Pause(p, p.active), p.held)
        r == [q EXCEPT !.active = p.held, !.held = p.active, !.lastParty = NoCall]
    IN  IF NoCall \in {p.active, p.held} THEN p ELSE PublishRemoteParty(r, p.held)

\* created: the engine could create the conference object.
StartConference(p, created) ==
    LET other == IF p.consultation # NoCall THEN p.consultation ELSE p.held
        q == Resume(Resume(p, p.active), other)
        r == [q EXCEPT !.conference = TRUE, !.held = other, !.consultation = NoCall,
                       !.answered = FALSE, !.target = FALSE]
    IN  CASE ~CanStartConference(p) -> p
          [] CanStartConference(p) /\ ~created -> Emit(p, "errorOccurred", NoCall)
          [] OTHER -> Emit(r, "conferenceStarted", NoCall)

\* Fault: the menu may outlive the conference.
DropUnguarded(p, index) == Terminate(p, IF index = 0 THEN p.active ELSE p.held)

DropConferenceParticipant(p, index) ==
    IF p.conference THEN Terminate(p, IF index = 0 THEN p.active ELSE p.held) ELSE p

\* beginAttendedTransfer(): c is what the INVITE to the target returned.
BeginAttendedTransfer(p, c) ==
    LET q == [Pause(p, p.active) EXCEPT !.target = TRUE, !.answered = FALSE, !.consultation = c]
    IN  IF p.active = NoCall THEN p
        ELSE IF c = NoCall THEN q ELSE [q EXCEPT !.st[c] = "outgoing"]

BeginTransferBadTarget(p) ==
    LET q == [Pause(p, p.active) EXCEPT !.answered = FALSE]
        r == Resume(Emit(q, "errorOccurred", NoCall), p.active)
    IN  IF p.active = NoCall THEN p ELSE [r EXCEPT !.target = FALSE]

\* The REFER itself changes nothing here: what becomes of the legs is up to the PBX.
CompleteAttendedTransfer(p) ==
    LET blind == p.target /\ ~(p.consultation # NoCall /\ p.answered)
        q == IF blind THEN [Terminate(p, p.consultation) EXCEPT !.consultation = NoCall] ELSE p
    IN  IF p.active = NoCall THEN p ELSE [q EXCEPT !.target = FALSE, !.answered = FALSE]

CancelAttendedTransfer(p) ==
    LET q == Terminate([p EXCEPT !.target = FALSE, !.answered = FALSE], p.consultation)
        r == [q EXCEPT !.consultation = NoCall]
    IN  IF r.active # NoCall THEN Resume(r, r.active) ELSE r

\* Faults: the foreground leg first; no thought for the consultation leg.
ShutdownForegroundFirst(p) ==
    LET p1 == [Terminate(p, p.consultation) EXCEPT !.consultation = NoCall]
        p2 == [Terminate(p1, p1.active) EXCEPT !.active = NoCall]
        p3 == [Terminate(p2, p2.waiting) EXCEPT !.waiting = NoCall]
        p4 == [Terminate(p3, p3.held) EXCEPT !.held = NoCall]
    IN  [p4 EXCEPT !.down = TRUE]

ShutdownWithoutConsultation(p) ==
    LET p1 == [Terminate(p, p.waiting) EXCEPT !.waiting = NoCall]
        p2 == [Terminate(p1, p1.held) EXCEPT !.held = NoCall]
        p3 == [Terminate(p2, p2.active) EXCEPT !.active = NoCall]
    IN  [p3 EXCEPT !.down = TRUE]

\* Each leg in turn, the foreground one last: ending it first would promote the parked
\* one into m_activeCall behind the loop's back.
Shutdown(p) ==
    LET p1 == [Terminate(p, p.consultation) EXCEPT !.consultation = NoCall]
        p2 == [Terminate(p1, p1.waiting) EXCEPT !.waiting = NoCall]
        p3 == [Terminate(p2, p2.held) EXCEPT !.held = NoCall]
        p4 == [Terminate(p3, p3.active) EXCEPT !.active = NoCall]
    IN  [p4 EXCEPT !.down = TRUE]

-------------------------------------------------------------------------------
(* IncomingReceived: forwarding first, then do-not-disturb, then call waiting. *)

Arrive(p, c) == [p EXCEPT !.st[c] = "incoming"]

\* Fault: a parked call does not count against the ceiling.
CanWaitBesideParked(p) == p.consultation = NoCall /\ p.waiting = NoCall

CanWait(p) == p.consultation = NoCall /\ p.held = NoCall /\ p.waiting = NoCall

Forwarded(p) == p.forward = "good"      \* "bad" is logged and ignored

Refused(p) == p.dnd \/ (p.active # NoCall /\ ~CanWait(p))

Incoming(p, c) ==
    LET q == Arrive(p, c)
    IN  CASE Forwarded(p) \/ Refused(p) -> Emit(Terminate(q, c), "callAutoHandled", c)
          [] ~Forwarded(p) /\ ~Refused(p) /\ p.active # NoCall ->
                Emit([q EXCEPT !.waiting = c], "callWaiting", c)
          [] OTHER -> Emit([q EXCEPT !.active = c], "incomingCall", c)

\* Connected: the other side, or we, answered.
Connected(p, c) ==
    LET q == [p EXCEPT !.st[c] = "connected"]
    IN  CASE c = p.active -> Emit(PublishRemoteParty(q, c), "callConnected", NoCall)
          [] c # p.active /\ c = p.consultation -> [q EXCEPT !.answered = TRUE]
          [] OTHER -> q

\* StreamsRunning: media flows, for the first time or after a resume.
StreamsRunning(p, c) ==
    LET q == [p EXCEPT !.st[c] = "running"]
        r == IF c = p.active THEN PublishRemoteParty(q, c) ELSE q
    IN  CASE c = p.consultation -> Emit([r EXCEPT !.answered = TRUE], "consultationCallConnected", NoCall)
          [] c # p.consultation /\ c = p.active -> Emit(r, "callConnected", NoCall)
          [] OTHER -> r

\* Error, then the branch it falls through to.
Failed(p, c) == CallGone(Emit([p EXCEPT !.st[c] = "ended"], "errorOccurred", c), c, "Error", FALSE)

Ended(p, c, elsewhere) == CallGone([p EXCEPT !.st[c] = "ended"], c, "End", elsewhere)

Released(p, c) == CallGone([p EXCEPT !.st[c] = "free"], c, "Released", FALSE)

-------------------------------------------------------------------------------
(* Behaviours of the core under any client that keeps to two rules the window *)
(* keeps to: it dials only with no foreground call, and starts no transfer    *)
(* from a conference.                                                         *)

CoreInit ==
    \E dnd \in BOOLEAN, forward \in Forwards \cup {"off"} :
        core = [st |-> [c \in Calls |-> "free"], active |-> NoCall, consultation |-> NoCall,
                held |-> NoCall, waiting |-> NoCall, conference |-> FALSE, target |-> FALSE,
                answered |-> FALSE, lastParty |-> NoCall, endNote |-> FALSE, dnd |-> dnd,
                forward |-> forward, down |-> FALSE, sig |-> << >>]

\* The core at the start of a step: the signals of the previous one were delivered.
Now == [core EXCEPT !.sig = << >>]

\* One step of the thread: nothing runs once the application has shut the core down.
Step(p) == ~core.down /\ core' = p

Invitable(c) == c \in {NoCall} \cup {d \in Calls : core.st[d] = "free"}

UserDials(c) == core.active = NoCall /\ Invitable(c) /\ Step(Call(Now, c))
UserDialsBadTarget == core.active = NoCall /\ Step(CallBadTarget(Now))
UserAnswers == Step(Answer(Now))
UserHangsUp == Step(Hangup(Now))
UserHolds(held) == Step(SetHeld(Now, held))
UserAnswersWaiting == Step(AnswerWaitingCall(Now))
UserDeclinesWaiting == Step(DeclineWaitingCall(Now))
UserSwaps == Step(SwapCalls(Now))
UserStartsConference(created) == Step(StartConference(Now, created))
UserDropsParticipant(index) == Step(DropConferenceParticipant(Now, index))
UserBeginsTransfer(c) == ~core.conference /\ Invitable(c) /\ Step(BeginAttendedTransfer(Now, c))
UserBeginsBadTransfer == ~core.conference /\ Step(BeginTransferBadTarget(Now))
UserCompletesTransfer == Step(CompleteAttendedTransfer(Now))
UserCancelsTransfer == Step(CancelAttendedTransfer(Now))
UserSetsDnd(enabled) == Step([Now EXCEPT !.dnd = enabled])
\* Fault: a target of blanks, not trimmed, is stored as it was typed.
UserSetsForwardUntrimmed(forward) == Step([Now EXCEPT !.forward = IF forward = "off" THEN " " ELSE forward])
UserSetsForward(forward) == Step([Now EXCEPT !.forward = forward])
UserQuits == Step(Shutdown(Now))

UserNext ==
    \/ \E c \in CallOrNone : UserDials(c) \/ UserBeginsTransfer(c)
    \/ \E on \in BOOLEAN : UserHolds(on) \/ UserStartsConference(on) \/ UserSetsDnd(on)
    \/ \E index \in {0, 1} : UserDropsParticipant(index)
    \/ \E forward \in Forwards \cup {"off"} : UserSetsForward(forward)
    \/ UserDialsBadTarget \/ UserBeginsBadTransfer
    \/ UserAnswers \/ UserHangsUp
    \/ UserAnswersWaiting \/ UserDeclinesWaiting \/ UserSwaps
    \/ UserCompletesTransfer \/ UserCancelsTransfer
    \/ UserQuits

\* Callbacks the engine makes out of linphone_core_iterate().
CallArrives(c) == core.st[c] = "free" /\ Step(Incoming(Now, c))
CallConnects(c) == core.st[c] \in {"outgoing", "accepted"} /\ Step(Connected(Now, c))
MediaRuns(c) == core.st[c] = "connected" /\ Step(StreamsRunning(Now, c))
IdentityChanges(c) ==       \* OutgoingRinging, EarlyMedia, UpdatedByRemote, Referred
    c = core.active /\ core.st[c] \in {"outgoing", "running"} /\ Step(PublishRemoteParty(Now, c))
CallFails(c) == core.st[c] \in LiveStates /\ Step(Failed(Now, c))
CallEnds(c, elsewhere) ==   \* elsewhere: another device of the extension took the call
    /\ core.st[c] \in LiveStates
    /\ elsewhere => core.st[c] = "incoming"
    /\ Step(Ended(Now, c, elsewhere))
CallIsReleased(c) == core.st[c] = "ended" /\ Step(Released(Now, c))

EngineNext ==
    \E c \in Calls :
        \/ CallArrives(c) \/ CallConnects(c) \/ MediaRuns(c) \/ IdentityChanges(c)
        \/ CallFails(c) \/ CallIsReleased(c)
        \/ \E elsewhere \in BOOLEAN : CallEnds(c, elsewhere)

CoreNext == UserNext \/ EngineNext

CoreSpec == CoreInit /\ [][CoreNext]_core

-------------------------------------------------------------------------------
(* Properties. *)

\* The members have the types of the header; between steps no signal is half delivered.
CoreTypeOK == core \in CoreStates

\* No call is in two roles at once.  A call parked and in the foreground, say, would be
\* terminated once and waited for twice.
LegsDistinctIn(p) ==
    /\ p.active # NoCall => p.active \notin {p.consultation, p.held, p.waiting}
    /\ p.consultation # NoCall => p.consultation \notin {p.held, p.waiting}
    /\ p.held # NoCall => p.held # p.waiting

\* No pointer dangles: each leg is a call the engine still has, whatever ended, failed or
\* was handed over meanwhile, and a waiting call is still ringing.
LegsAliveIn(p) ==
    /\ \A c \in Legs(p) : p.st[c] \in LiveStates
    /\ p.waiting # NoCall => p.st[p.waiting] = "incoming"

\* Two calls is the ceiling on the line itself: a parked or a waiting call only beside a
\* foreground one, never both, and a conference has exactly its two parties.
LineShapeIn(p) ==
    /\ NoCall \in {p.held, p.waiting}
    /\ p.active = NoCall => p.held = NoCall /\ p.waiting = NoCall
    /\ p.conference => /\ NoCall \notin {p.active, p.held}
                       /\ p.consultation = NoCall

\* The identity last announced is that of the foreground call: were it an older one, the
\* next call from that number would show nobody.
PartyIsForegroundIn(p) == p.lastParty \in {NoCall, p.active}

\* After shutdown() no leg is left for the PBX to keep a dialog open for.
DownMeansNoLegsIn(p) == p.down => Legs(p) = {}

\* The members m_activeCall, m_consultationCall, m_heldCall, m_waitingCall never share a call.
LegsDistinct == LegsDistinctIn(core)
\* None of the four members is left on a call that ended or failed.
LegsAlive == LegsAliveIn(core)
\* The members fit one of the situations the window has a screen for.
LineShape == LineShapeIn(core)
\* m_lastRemoteParty is the foreground party or empty.
PartyIsForeground == PartyIsForegroundIn(core)
\* shutdown() has let go of every leg.
DownMeansNoLegs == DownMeansNoLegsIn(core)

\* A call that goes on living keeps its place: no step of the user or of the engine makes
\* the program forget a call somebody is still on.  Two operations can: startConference() that
\* joins the consultation leg while another call is parked, and beginAttendedTransfer() while an
\* earlier consultation is still up.
ForgetsParked(c) ==
    c = core.held /\ core.consultation # NoCall /\ \E created \in BOOLEAN : UserStartsConference(created)
ForgetsConsultation(c) ==
    c = core.consultation /\ \E new \in CallOrNone : UserBeginsTransfer(new)
NobodyForgotten ==
    [][ \A c \in Legs(core) :
            core'.st[c] \in LiveStates /\ c \notin Legs(core') =>
                ForgetsParked(c) \/ ForgetsConsultation(c) ]_core

=============================================================================

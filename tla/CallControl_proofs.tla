-------------------------- MODULE CallControl_proofs --------------------------
(***************************************************************************)
(* The invariants of CallControl, proved for every set of calls.           *)
(*                                                                         *)
(* An operation is a composition of handlers, so the argument is one too:  *)
(* Sound(p) is the inductive invariant, a lemma per building block says    *)
(* that it preserves Sound, and the lemma of an operation cites those of   *)
(* the blocks it is made of.  In the middle of a handler Sound does not    *)
(* hold, because a pointer still names the call that has just gone;        *)
(* Losing(p, c) is what holds then.                                        *)
(*                                                                         *)
(* The action property is proved the same way: Keeps and HoldsOn say what  *)
(* a block, an operation, a callback may not do to the calls it is not     *)
(* about.                                                                  *)
(***************************************************************************)
EXTENDS CallControl, TLAPS

Sound(p) ==
    /\ p \in CoreStates
    /\ LegsDistinctIn(p)
    /\ LegsAliveIn(p)
    /\ LineShapeIn(p)
    /\ PartyIsForegroundIn(p)
    /\ DownMeansNoLegsIn(p)

Losing(p, c) ==
    /\ p \in CoreStates
    /\ LegsDistinctIn(p)
    /\ \A d \in Legs(p) \ {c} : p.st[d] \in LiveStates
    /\ p.waiting \notin {c, NoCall} => p.st[p.waiting] = "incoming"
    /\ LineShapeIn(p)
    /\ PartyIsForegroundIn(p)
    /\ DownMeansNoLegsIn(p)

\* p and q differ only in the signals emitted.
SameLine(p, q) ==
    /\ q.st = p.st /\ q.active = p.active /\ q.consultation = p.consultation
    /\ q.held = p.held /\ q.waiting = p.waiting /\ q.conference = p.conference
    /\ q.target = p.target /\ q.answered = p.answered /\ q.lastParty = p.lastParty
    /\ q.endNote = p.endNote /\ q.dnd = p.dnd /\ q.forward = p.forward /\ q.down = p.down

-------------------------------------------------------------------------------

\* Emitting a signal only appends to sig: the state stays well typed and on the same line.
LEMMA EmitKeeps ==
    ASSUME NEW p \in CoreStates, NEW name \in SignalNames, NEW who \in CallOrNone
    PROVE  Emit(p, name, who) \in CoreStates /\ SameLine(p, Emit(p, name, who))
  <1> DEFINE s == [name |-> name, who |-> who, held |-> p.held # NoCall,
                   conf |-> CanStartConference(p), note |-> p.endNote]
  <1>1. CanStartConference(p) \in BOOLEAN /\ p.endNote \in BOOLEAN
    BY DEF CanStartConference, CoreStates
  <1>2. s \in Signals
    BY <1>1 DEF Signals
  <1>3. Append(p.sig, s) \in Seq(Signals)
    BY <1>2 DEF CoreStates
  <1>4. Emit(p, name, who) = [p EXCEPT !.sig = Append(p.sig, s)]
    BY DEF Emit, CoreStates
  <1> HIDE DEF s
  <1>5. QED
    BY <1>3, <1>4 DEF CoreStates, SameLine

\* Soundness does not read the signals.
LEMMA SameLineSound ==
    ASSUME NEW p, NEW q \in CoreStates, Sound(p), SameLine(p, q)
    PROVE  Sound(q)
  BY DEF Sound, SameLine, LegsDistinctIn, LegsAliveIn, Legs, LineShapeIn,
         PartyIsForegroundIn, DownMeansNoLegsIn

\* A slot may be notified in any sound state.
LEMMA EmitSound ==
    ASSUME NEW p, Sound(p), NEW name \in SignalNames, NEW who \in CallOrNone
    PROVE  Sound(Emit(p, name, who)) /\ SameLine(p, Emit(p, name, who))
  <1>1. p \in CoreStates
    BY DEF Sound
  <1>2. QED
    BY <1>1, EmitKeeps, SameLineSound

\* publishRemoteParty() of the foreground call keeps the core sound and moves no pointer.
LEMMA PublishSound ==
    ASSUME NEW p, Sound(p), NEW c, c = p.active
    PROVE  LET r == PublishRemoteParty(p, c)
           IN  /\ Sound(r)
               /\ r.st = p.st /\ r.active = p.active /\ r.consultation = p.consultation
               /\ r.held = p.held /\ r.waiting = p.waiting /\ r.conference = p.conference
               /\ r.down = p.down
  <1> DEFINE q == [p EXCEPT !.lastParty = c]
  <1>1. Sound(q)
    BY DEF Sound, CoreStates, LegsDistinctIn, LegsAliveIn, Legs, LineShapeIn,
           PartyIsForegroundIn, DownMeansNoLegsIn
  <1>2. /\ q.st = p.st /\ q.active = p.active /\ q.consultation = p.consultation
        /\ q.held = p.held /\ q.waiting = p.waiting /\ q.conference = p.conference
        /\ q.down = p.down /\ c \in CallOrNone
    BY DEF Sound, CoreStates
  <1>3. PublishRemoteParty(p, c) \in {p, Emit(q, "remotePartyChanged", c)}
    BY DEF PublishRemoteParty
  <1> HIDE DEF q
  <1>4. Sound(Emit(q, "remotePartyChanged", c)) /\ SameLine(q, Emit(q, "remotePartyChanged", c))
    BY <1>1, <1>2, EmitSound DEF SignalNames
  <1>5. QED
    BY <1>2, <1>3, <1>4 DEF SameLine

\* What every block leaves alone: the pointers.
SamePointers(p, q) ==
    /\ q.active = p.active /\ q.consultation = p.consultation
    /\ q.held = p.held /\ q.waiting = p.waiting /\ q.conference = p.conference
    /\ q.lastParty = p.lastParty /\ q.down = p.down

\* A call may move between live states, unless it is the waiting one.
LEMMA MoveSound ==
    ASSUME NEW p, Sound(p), NEW c \in Calls, c # p.waiting, NEW s \in LiveStates
    PROVE  LET q == [p EXCEPT !.st[c] = s]
           IN  /\ Sound(q) /\ SamePointers(p, q)
               /\ q.st[c] = s
               /\ \A d \in Calls \ {c} : q.st[d] = p.st[d]
  <1> DEFINE q == [p EXCEPT !.st[c] = s]
  <1>1. q \in CoreStates /\ SamePointers(p, q)
    BY DEF Sound, CoreStates, SamePointers, LiveStates
  <1>2. q.st[c] = s /\ \A d \in Calls \ {c} : q.st[d] = p.st[d]
    BY DEF Sound, CoreStates
  <1> HIDE DEF q
  <1>3. p \in CoreStates /\ Legs(q) = Legs(p) /\ Legs(p) \subseteq Calls
    BY <1>1 DEF Sound, SamePointers, Legs, CoreStates, CallOrNone
  <1>4. LegsAliveIn(q)
    BY <1>1, <1>2, <1>3, NoCallAssumption
       DEF Sound, SamePointers, LegsAliveIn, CoreStates, CallOrNone
  <1>5. Sound(q)
    BY <1>1, <1>3, <1>4
       DEF Sound, SamePointers, LegsDistinctIn, LineShapeIn, PartyIsForegroundIn, DownMeansNoLegsIn
  <1>6. QED
    BY <1>1, <1>2, <1>5 DEF q

\* Parking or resuming a leg other than the ringing one keeps the core sound.
LEMMA PauseResumeSound ==
    ASSUME NEW p, Sound(p), NEW c \in Calls, c # p.waiting
    PROVE  /\ Sound(Pause(p, c)) /\ SamePointers(p, Pause(p, c))
           /\ Sound(Resume(p, c)) /\ SamePointers(p, Resume(p, c))
           /\ Sound(Accept(p, c)) /\ SamePointers(p, Accept(p, c))
  <1>1. {"paused", "connected", "accepted"} \subseteq LiveStates
    BY DEF LiveStates, CallStates
  <1>2. SamePointers(p, p)
    BY DEF SamePointers
  <1>3. QED
    BY <1>1, <1>2, MoveSound DEF Pause, Resume, Accept

-------------------------------------------------------------------------------
(* A call goes away. *)

\* q has no leg that p does not have, and c is none of its legs.
Without(p, q, c) ==
    /\ q.consultation \in {p.consultation, NoCall} /\ q.held \in {p.held, NoCall}
    /\ q.waiting \in {p.waiting, NoCall} /\ q.down = p.down
    /\ q.conference => p.conference
    /\ Legs(q) \subseteq Legs(p) \ {c}

\* Once no pointer names the call being lost, losing it is over.
LEMMA SoundWhenGone ==
    ASSUME NEW p, NEW c \in Calls, Losing(p, c), c \notin Legs(p)
    PROVE  Sound(p)
  BY DEF Losing, Sound, LegsAliveIn, Legs

\* Emitting in the middle of a handler changes nothing but the signals.
LEMMA EmitWithout ==
    ASSUME NEW p, NEW q, NEW c \in Calls, Sound(q), Without(p, q, c),
           NEW name \in SignalNames, NEW who \in CallOrNone
    PROVE  LET r == Emit(q, name, who)
           IN  Sound(r) /\ Without(p, r, c) /\ SameLine(q, r)
  BY EmitSound DEF SameLine, Without, Legs

\* Announcing the new foreground party in the middle of a handler disturbs no pointer.
LEMMA PublishWithout ==
    ASSUME NEW p, NEW q, NEW c \in Calls, Sound(q), Without(p, q, c), NEW a, a = q.active
    PROVE  LET r == PublishRemoteParty(q, a)
           IN  Sound(r) /\ Without(p, r, c)
  BY PublishSound DEF Without, Legs

\* The state a lost foreground call leaves behind: another leg, or nobody, in the
\* foreground and nobody parked or waiting.
LEMMA RearrangedSound ==
    ASSUME NEW p, NEW c \in Calls, Losing(p, c), c \in {p.active, p.held},
           NEW q \in CoreStates, q.st = p.st,
           q.active \in {p.active, p.held, p.waiting, NoCall} \ {c},
           q.consultation = p.consultation, q.held = NoCall, q.waiting = NoCall,
           q.conference = FALSE, q.lastParty = NoCall, q.down = p.down
    PROVE  Sound(q) /\ Without(p, q, c)
  <1>1. Legs(q) \subseteq Legs(p) \ {c}
    BY DEF Losing, LegsDistinctIn, Legs
  <1>2. LegsDistinctIn(q)
    BY NoCallAssumption DEF Losing, LegsDistinctIn
  <1>3. LegsAliveIn(q)
    BY <1>1 DEF Losing, LegsAliveIn
  <1>4. LineShapeIn(q) /\ PartyIsForegroundIn(q) /\ DownMeansNoLegsIn(q)
    BY <1>1 DEF Losing, LineShapeIn, PartyIsForegroundIn, DownMeansNoLegsIn
  <1>5. QED
    BY <1>1, <1>2, <1>3, <1>4 DEF Sound, Without

\* promoteHeldCall(): the parked call comes to an empty foreground.
LEMMA PromoteSound ==
    ASSUME NEW p, NEW c \in Calls, Losing(p, c), c = p.active, ~p.conference, p.held # NoCall
    PROVE  LET q == PromoteHeldCall([p EXCEPT !.active = NoCall, !.lastParty = NoCall])
           IN  Sound(q) /\ Without(p, q, c)
  <1> DEFINE o == [p EXCEPT !.active = NoCall, !.lastParty = NoCall]
             q == [o EXCEPT !.active = o.held, !.held = NoCall, !.lastParty = NoCall]
             r == Resume(q, o.held)
             e == Emit(r, "heldCallPromoted", NoCall)
  <1>1. /\ o.held = p.held /\ p.held \in Calls /\ p.waiting = NoCall /\ p.held # c
        /\ q \in CoreStates /\ q.st = p.st /\ q.active = p.held
        /\ q.consultation = p.consultation /\ q.held = NoCall /\ q.waiting = NoCall
        /\ q.conference = FALSE /\ q.lastParty = NoCall /\ q.down = p.down
    BY NoCallAssumption DEF Losing, CoreStates, CallOrNone, LineShapeIn, LegsDistinctIn
  <1> HIDE DEF q, o
  <1>2. Sound(q) /\ Without(p, q, c)
    BY <1>1, RearrangedSound
  <1>3. Sound(r) /\ SamePointers(q, r)
    BY <1>1, <1>2, PauseResumeSound, NoCallAssumption
  <1>4. Without(p, r, c) /\ r.active = o.held
    BY <1>1, <1>2, <1>3 DEF Without, SamePointers, Legs
  <1> HIDE DEF r
  <1>5. Sound(e) /\ Without(p, e, c) /\ SameLine(r, e)
    BY <1>3, <1>4, EmitWithout DEF SignalNames, CallOrNone
  <1> HIDE DEF e
  <1>6. Sound(PublishRemoteParty(e, o.held)) /\ Without(p, PublishRemoteParty(e, o.held), c)
    BY <1>4, <1>5, PublishWithout DEF SameLine
  <1>7. QED
    BY <1>6 DEF PromoteHeldCall, e, r, q, o

\* The ringing call comes to an empty foreground.
LEMMA WaitingPromotedSound ==
    ASSUME NEW p, NEW c \in Calls, Losing(p, c), c = p.active, ~p.conference, p.waiting # NoCall
    PROVE  LET q == WaitingBecomesIncoming([p EXCEPT !.active = NoCall, !.lastParty = NoCall])
           IN  Sound(q) /\ Without(p, q, c)
  <1> DEFINE o == [p EXCEPT !.active = NoCall, !.lastParty = NoCall]
             q == [o EXCEPT !.active = o.waiting, !.waiting = NoCall]
             e == Emit(q, "waitingCallEnded", NoCall)
  <1>1. /\ o.waiting = p.waiting /\ p.waiting \in Calls /\ p.held = NoCall /\ p.waiting # c
        /\ q \in CoreStates /\ q.st = p.st /\ q.active = p.waiting
        /\ q.consultation = p.consultation /\ q.held = NoCall /\ q.waiting = NoCall
        /\ q.conference = FALSE /\ q.lastParty = NoCall /\ q.down = p.down
    BY NoCallAssumption DEF Losing, CoreStates, CallOrNone, LineShapeIn, LegsDistinctIn
  <1> HIDE DEF q, o
  <1>2. Sound(q) /\ Without(p, q, c)
    BY <1>1, RearrangedSound
  <1>3. Sound(e) /\ Without(p, e, c)
    BY <1>2, EmitWithout DEF SignalNames, CallOrNone
  <1> HIDE DEF e
  <1>4. Sound(Emit(e, "incomingCall", o.waiting)) /\ Without(p, Emit(e, "incomingCall", o.waiting), c)
    BY <1>1, <1>3, EmitWithout DEF SignalNames, CallOrNone
  <1>5. QED
    BY <1>4 DEF WaitingBecomesIncoming, e, q, o

\* The foreground call is gone: whichever of the three branches runs, the core is sound after it.
LEMMA ForegroundGoneSound ==
    ASSUME NEW p, NEW c \in Calls, Losing(p, c), c = p.active, ~p.conference
    PROVE  Sound(ForegroundGone(p)) /\ Without(p, ForegroundGone(p), c)
  <1> DEFINE q == [p EXCEPT !.active = NoCall, !.lastParty = NoCall]
  <1>1. q.held = p.held /\ q.waiting = p.waiting
    BY DEF Losing, CoreStates
  <1>2. CASE p.held # NoCall
    BY <1>1, <1>2, PromoteSound DEF ForegroundGone
  <1>3. CASE p.held = NoCall /\ p.waiting # NoCall
    BY <1>1, <1>3, WaitingPromotedSound DEF ForegroundGone
  <1>4. CASE p.held = NoCall /\ p.waiting = NoCall
    <2>1. /\ q \in CoreStates /\ q.st = p.st /\ q.active = NoCall
          /\ q.consultation = p.consultation /\ q.held = NoCall /\ q.waiting = NoCall
          /\ q.conference = FALSE /\ q.lastParty = NoCall /\ q.down = p.down
      BY <1>4 DEF Losing, CoreStates, CallOrNone
    <2>2. ForegroundGone(p) = Emit(q, "callEnded", NoCall)
      BY <1>1, <1>4 DEF ForegroundGone
    <2> HIDE DEF q
    <2>3. Sound(q) /\ Without(p, q, c)
      BY <1>4, <2>1, RearrangedSound, NoCallAssumption
    <2>4. QED
      BY <2>2, <2>3, EmitWithout DEF SignalNames, CallOrNone
  <1>5. QED
    BY <1>2, <1>3, <1>4

\* Either party of a conference is gone: the other one is a plain foreground call.
LEMMA ConferencePartyGoneSound ==
    ASSUME NEW p, NEW c \in Calls, Losing(p, c), p.conference, c \in {p.active, p.held}
    PROVE  LET q == ConferencePartyGone(p, c)
           IN  Sound(q) /\ Without(p, q, c) /\ ~q.conference
  <1> DEFINE remaining == IF c = p.active THEN p.held ELSE p.active
             q == [p EXCEPT !.conference = FALSE, !.active = remaining,
                            !.held = NoCall, !.lastParty = NoCall]
             e == Emit(q, "conferenceEnded", NoCall)
  <1>0. remaining \in {p.active, p.held} \ {c} /\ remaining \in Calls /\ p.waiting = NoCall
    BY NoCallAssumption DEF Losing, CoreStates, CallOrNone, LineShapeIn, LegsDistinctIn
  <1>3. ConferencePartyGone(p, c) = PublishRemoteParty(e, remaining)
    BY <1>0, NoCallAssumption DEF ConferencePartyGone
  <1> HIDE DEF remaining
  <1>1. /\ q \in CoreStates /\ q.st = p.st /\ q.active = remaining
        /\ q.consultation = p.consultation /\ q.held = NoCall /\ q.waiting = NoCall
        /\ q.conference = FALSE /\ q.lastParty = NoCall /\ q.down = p.down
    BY <1>0 DEF Losing, CoreStates, CallOrNone
  <1> HIDE DEF q
  <1>2. Sound(q) /\ Without(p, q, c)
    BY <1>0, <1>1, RearrangedSound
  <1>4. Sound(e) /\ Without(p, e, c) /\ SameLine(q, e)
    BY <1>2, EmitWithout DEF SignalNames, CallOrNone
  <1> HIDE DEF e
  <1>5. e.active = remaining /\ ~e.conference
    BY <1>1, <1>4 DEF SameLine
  <1>6. QED
    BY <1>3, <1>4, <1>5, PublishWithout, PublishSound

\* The state a lost parked, waiting or consultation call leaves behind.
LEMMA TrimmedSound ==
    ASSUME NEW p, NEW c \in Calls, Losing(p, c), c # p.active, c \in Legs(p),
           p.conference => c # p.held,
           NEW q \in CoreStates, q.st = p.st, q.active = p.active, c \notin Legs(q),
           q.consultation \in {p.consultation, NoCall}, q.held \in {p.held, NoCall},
           q.waiting \in {p.waiting, NoCall}, p.held # c => q.held = p.held,
           q.conference = p.conference, q.lastParty = p.lastParty, q.down = p.down
    PROVE  Sound(q) /\ Without(p, q, c)
  <1>1. Legs(q) \subseteq Legs(p) \ {c}
    BY DEF Legs
  <1>2. LegsDistinctIn(q)
    BY DEF Losing, LegsDistinctIn
  <1>3. LegsAliveIn(q)
    BY <1>1 DEF Losing, LegsAliveIn, Legs
  <1>4. LineShapeIn(q) /\ PartyIsForegroundIn(q) /\ DownMeansNoLegsIn(q)
    BY <1>1 DEF Losing, LineShapeIn, PartyIsForegroundIn, DownMeansNoLegsIn
  <1>5. QED
    BY <1>1, <1>2, <1>3, <1>4 DEF Sound, Without

\* Losing a call nobody points to is no loss.
LEMMA NotALeg ==
    ASSUME NEW p, NEW c \in Calls, c \notin Legs(p)
    PROVE  /\ WaitingGone(p, c) = p /\ HeldGone(p, c) = p
           /\ ActiveGone(p, c) = p /\ ConsultationGone(p, c) = p
  BY NoCallAssumption DEF Legs, WaitingGone, HeldGone, ActiveGone, ConsultationGone

\* The chain of ifs that follows the conference branch clears the one pointer that names the call.
LEMMA LegGoneSound ==
    ASSUME NEW p, NEW c \in Calls, Losing(p, c), ~(p.conference /\ c \in {p.active, p.held})
    PROVE  LET q == ConsultationGone(ActiveGone(HeldGone(WaitingGone(p, c), c), c), c)
           IN  Sound(q) /\ Without(p, q, c)
  <1> DEFINE gone == ConsultationGone(ActiveGone(HeldGone(WaitingGone(p, c), c), c), c)
  <1>0. /\ p \in CoreStates /\ c # NoCall
        /\ c = p.active => c \notin {p.consultation, p.held, p.waiting}
        /\ c = p.consultation => c \notin {p.held, p.waiting}
        /\ c = p.held => c # p.waiting
    BY NoCallAssumption DEF Losing, LegsDistinctIn
  <1>1. CASE c \notin Legs(p)
    <2>1. Sound(p) /\ Without(p, p, c)
      BY <1>1, SoundWhenGone DEF Without
    <2>2. QED
      BY <1>1, <2>1, NotALeg
  <1>2. CASE c = p.waiting
    <2> DEFINE q == [p EXCEPT !.waiting = NoCall]
    <2>1. /\ q \in CoreStates /\ q.st = p.st /\ q.active = p.active /\ q.held = p.held
          /\ q.consultation = p.consultation /\ q.waiting = NoCall
          /\ q.conference = p.conference /\ q.lastParty = p.lastParty /\ q.down = p.down
      BY <1>0 DEF CoreStates, CallOrNone
    <2>2. WaitingGone(p, c) = Emit(q, "waitingCallEnded", NoCall)
      BY <1>2 DEF WaitingGone
    <2> HIDE DEF q
    <2>3. Sound(q) /\ Without(p, q, c)
      BY <1>0, <1>2, <2>1, TrimmedSound DEF Legs
    <2>4. Sound(WaitingGone(p, c)) /\ Without(p, WaitingGone(p, c), c)
      BY <2>2, <2>3, EmitWithout DEF SignalNames, CallOrNone
    <2>5. gone = WaitingGone(p, c)
      BY <2>4, NotALeg DEF Without
    <2>6. QED
      BY <2>4, <2>5
  <1>3. CASE c = p.held
    <2> DEFINE q == [p EXCEPT !.held = NoCall]
    <2>1. /\ q \in CoreStates /\ q.st = p.st /\ q.active = p.active /\ q.held = NoCall
          /\ q.consultation = p.consultation /\ q.waiting = p.waiting
          /\ q.conference = p.conference /\ q.lastParty = p.lastParty /\ q.down = p.down
      BY <1>0 DEF CoreStates, CallOrNone
    <2>2. WaitingGone(p, c) = p /\ HeldGone(p, c) = Emit(q, "heldCallEnded", NoCall)
      BY <1>0, <1>3 DEF WaitingGone, HeldGone
    <2> HIDE DEF q
    <2>3. Sound(q) /\ Without(p, q, c)
      BY <1>0, <1>3, <2>1, TrimmedSound DEF Legs
    <2>4. Sound(HeldGone(p, c)) /\ Without(p, HeldGone(p, c), c)
      BY <2>2, <2>3, EmitWithout DEF SignalNames, CallOrNone
    <2>5. gone = HeldGone(p, c)
      BY <2>2, <2>4, NotALeg DEF Without
    <2>6. QED
      BY <2>4, <2>5
  <1>4. CASE c = p.active
    <2>1. WaitingGone(p, c) = p /\ HeldGone(p, c) = p /\ ActiveGone(p, c) = ForegroundGone(p)
      BY <1>0, <1>4 DEF WaitingGone, HeldGone, ActiveGone
    <2>2. Sound(ForegroundGone(p)) /\ Without(p, ForegroundGone(p), c)
      BY <1>4, ForegroundGoneSound
    <2>3. gone = ForegroundGone(p)
      BY <2>1, <2>2, NotALeg DEF Without
    <2>4. QED
      BY <2>2, <2>3
  <1>5. CASE c = p.consultation
    <2> DEFINE q == [p EXCEPT !.consultation = NoCall]
    <2>1. /\ q \in CoreStates /\ q.st = p.st /\ q.active = p.active /\ q.held = p.held
          /\ q.consultation = NoCall /\ q.waiting = p.waiting
          /\ q.conference = p.conference /\ q.lastParty = p.lastParty /\ q.down = p.down
      BY <1>0 DEF CoreStates, CallOrNone
    <2>2. gone = q
      BY <1>0, <1>5 DEF WaitingGone, HeldGone, ActiveGone, ConsultationGone
    <2> HIDE DEF q
    <2>3. Sound(q) /\ Without(p, q, c)
      BY <1>0, <1>5, <2>1, TrimmedSound DEF Legs
    <2>4. QED
      BY <2>2, <2>3
  <1>6. QED
    BY <1>1, <1>2, <1>3, <1>4, <1>5 DEF Legs

\* End, Error and Released leave a sound core without the call, whoever it was.
LEMMA CallGoneSound ==
    ASSUME NEW p, NEW c \in Calls, Losing(p, c), NEW event, NEW elsewhere \in BOOLEAN
    PROVE  LET q == CallGone(p, c, event, elsewhere)
           IN  /\ Sound(q) /\ Without(p, q, c)
               /\ c \in {p.active, p.held} => ~q.conference
  <1> DEFINE gone(r) == ConsultationGone(ActiveGone(HeldGone(WaitingGone(r, c), c), c), c)
             n == [p EXCEPT !.endNote = elsewhere]
  <1>1. CASE p.conference /\ c \in {p.active, p.held}
    BY <1>1, ConferencePartyGoneSound DEF CallGone
  <1>2. CASE ~(p.conference /\ c \in {p.active, p.held})
    <2>1. CallGone(p, c, event, elsewhere) \in {gone(p), gone(n)}
      BY <1>2 DEF CallGone
    <2>2. /\ n \in CoreStates /\ n.st = p.st /\ n.active = p.active /\ n.held = p.held
          /\ n.consultation = p.consultation /\ n.waiting = p.waiting
          /\ n.conference = p.conference /\ n.lastParty = p.lastParty /\ n.down = p.down
      BY DEF Losing, CoreStates
    <2> HIDE DEF n
    <2>3. Losing(n, c)
      BY <2>2 DEF Losing, LegsDistinctIn, Legs, LineShapeIn, PartyIsForegroundIn, DownMeansNoLegsIn
    <2>4. Sound(gone(n)) /\ Without(n, gone(n), c)
      BY <1>2, <2>2, <2>3, LegGoneSound
    <2>5. Without(p, gone(n), c)
      BY <2>2, <2>4 DEF Without, Legs
    <2>6. Sound(gone(p)) /\ Without(p, gone(p), c)
      BY <1>2, LegGoneSound
    <2> HIDE DEF gone
    <2>7. QED
      BY <1>2, <2>1, <2>4, <2>5, <2>6 DEF Without
  <1>3. QED
    BY <1>1, <1>2

\* A call that is no longer live is being lost, whatever role it had.
LEMMA LosingAfterMove ==
    ASSUME NEW p, Sound(p), NEW c \in Calls, NEW s \in CallStates
    PROVE  LET q == [p EXCEPT !.st[c] = s]
           IN  Losing(q, c) /\ SamePointers(p, q)
  <1> DEFINE q == [p EXCEPT !.st[c] = s]
  <1>1. q \in CoreStates /\ SamePointers(p, q) /\ \A d \in Calls \ {c} : q.st[d] = p.st[d]
    BY DEF Sound, CoreStates, SamePointers
  <1>2. Legs(q) = Legs(p) /\ Legs(p) \subseteq Calls /\ p.waiting \in CallOrNone
    BY <1>1 DEF Sound, SamePointers, Legs, CoreStates, CallOrNone
  <1> HIDE DEF q
  <1>3. \A d \in Legs(q) \ {c} : q.st[d] \in LiveStates
    BY <1>1, <1>2 DEF Sound, LegsAliveIn
  <1>4. q.waiting \notin {c, NoCall} => q.st[q.waiting] = "incoming"
    BY <1>1, <1>2 DEF Sound, LegsAliveIn, SamePointers, CallOrNone
  <1>5. QED
    BY <1>1, <1>2, <1>3, <1>4
       DEF Losing, Sound, SamePointers, LegsDistinctIn, LineShapeIn, PartyIsForegroundIn,
           DownMeansNoLegsIn, q

\* Terminating a leg, with the End callback it triggers, keeps the core sound and leaves no pointer to it.
LEMMA TerminateSound ==
    ASSUME NEW p, Sound(p), NEW c \in CallOrNone
    PROVE  LET q == Terminate(p, c)
           IN  /\ Sound(q) /\ Without(p, q, c)
               /\ c \in {p.active, p.held} => ~q.conference
  <1>1. CASE Live(p, c)
    <2> DEFINE o == [p EXCEPT !.st[c] = "ended"]
    <2>1. c \in Calls /\ "ended" \in CallStates
      BY <1>1 DEF Live, CallOrNone, CallStates
    <2>2. Losing(o, c) /\ SamePointers(p, o)
      BY <2>1, LosingAfterMove
    <2>3. Terminate(p, c) = CallGone(o, c, "End", FALSE)
      BY <1>1 DEF Terminate
    <2> HIDE DEF o
    <2>4. /\ Sound(Terminate(p, c)) /\ Without(o, Terminate(p, c), c)
          /\ c \in {o.active, o.held} => ~Terminate(p, c).conference
      BY <2>1, <2>2, <2>3, CallGoneSound
    <2>5. QED
      BY <2>2, <2>4 DEF SamePointers, Without, Legs
  <1>2. CASE ~Live(p, c)
    <2>1. Terminate(p, c) = p
      BY <1>2 DEF Terminate
    <2>2. c \notin Legs(p)
      BY <1>2 DEF Live, Sound, LegsAliveIn, Legs
    <2>3. c \in {p.active, p.held} => ~p.conference
      BY <2>2 DEF Sound, LineShapeIn, Legs
    <2>4. QED
      BY <2>1, <2>2, <2>3 DEF Without
  <1>3. QED
    BY <1>1, <1>2

-------------------------------------------------------------------------------
(* The operations. *)

\* Members no invariant mentions may change freely.
LEMMA FlagsSound ==
    ASSUME NEW p, Sound(p), NEW q \in CoreStates, q.st = p.st, SamePointers(p, q)
    PROVE  Sound(q)
  BY DEF Sound, SamePointers, LegsDistinctIn, LegsAliveIn, Legs, LineShapeIn,
         PartyIsForegroundIn, DownMeansNoLegsIn

\* A pointer to a consultation leg may be dropped at any time.
LEMMA NoConsultationSound ==
    ASSUME NEW p, Sound(p)
    PROVE  LET q == [p EXCEPT !.consultation = NoCall]
           IN  /\ Sound(q) /\ q.consultation = NoCall
               /\ q.st = p.st /\ q.active = p.active /\ q.held = p.held /\ q.waiting = p.waiting
               /\ q.conference = p.conference /\ q.down = p.down
  <1> DEFINE q == [p EXCEPT !.consultation = NoCall]
  <1>1. /\ q \in CoreStates /\ q.st = p.st /\ q.active = p.active /\ q.held = p.held
        /\ q.consultation = NoCall /\ q.waiting = p.waiting
        /\ q.conference = p.conference /\ q.lastParty = p.lastParty /\ q.down = p.down
    BY DEF Sound, CoreStates, CallOrNone
  <1> HIDE DEF q
  <1>2. Sound(q)
    BY <1>1 DEF Sound, LegsDistinctIn, LegsAliveIn, Legs, LineShapeIn,
                PartyIsForegroundIn, DownMeansNoLegsIn
  <1>3. QED
    BY <1>1, <1>2 DEF q

\* hangup() ends its one or two legs soundly.
LEMMA HangupSound ==
    ASSUME NEW p, Sound(p)
    PROVE  Sound(Hangup(p))
  <1> DEFINE c == IF p.conference THEN p.held ELSE p.consultation
             q == Terminate(p, c)
  <1>1. c \in CallOrNone
    BY DEF Sound, CoreStates
  <1>2. Sound(q) /\ q.active \in CallOrNone
    BY <1>1, TerminateSound DEF Sound, CoreStates
  <1> HIDE DEF q
  <1>3. Sound(Terminate(q, q.active))
    BY <1>2, TerminateSound
  <1>4. QED
    BY <1>3 DEF Hangup, q

\* dropConferenceParticipant() is sound for either index.
LEMMA DropSound ==
    ASSUME NEW p, Sound(p), NEW index
    PROVE  Sound(DropConferenceParticipant(p, index))
  BY TerminateSound DEF DropConferenceParticipant, Sound, CoreStates

\* The foreground call, if there is one, is neither free nor the waiting one.
LEMMA ForegroundIsACall ==
    ASSUME NEW p, Sound(p), p.active # NoCall
    PROVE  p.active \in Calls /\ p.active # p.waiting /\ p.active # p.held
  BY DEF Sound, CoreStates, CallOrNone, LegsDistinctIn

\* answer() and setHeld() act on the foreground call alone.
LEMMA AnswerAndHoldSound ==
    ASSUME NEW p, Sound(p), NEW on \in BOOLEAN
    PROVE  Sound(Answer(p)) /\ Sound(SetHeld(p, on))
  BY ForegroundIsACall, PauseResumeSound DEF Answer, SetHeld

\* answerWaitingCall() parks one call and accepts the other without ever naming one twice.
LEMMA AnswerWaitingSound ==
    ASSUME NEW p, Sound(p)
    PROVE  Sound(AnswerWaitingCall(p))
  <1> DEFINE c == p.waiting
             q == IF p.active = NoCall THEN p ELSE [Pause(p, p.active) EXCEPT !.held = p.active]
             r == [q EXCEPT !.waiting = NoCall, !.active = c, !.lastParty = NoCall]
  <1> SUFFICES ASSUME c # NoCall
               PROVE  Sound(PublishRemoteParty(Accept(r, c), c))
    BY DEF AnswerWaitingCall
  <1>1. /\ c \in Calls /\ p.active \in Calls /\ p.held = NoCall /\ p.conference = FALSE
        /\ p.active # c /\ p.consultation # c /\ p.down = FALSE
    BY DEF Sound, CoreStates, CallOrNone, LegsDistinctIn, LineShapeIn, DownMeansNoLegsIn, Legs
  <1> DEFINE o == Pause(p, p.active)
  <1>2. Sound(o) /\ SamePointers(p, o)
    BY <1>1, ForegroundIsACall, PauseResumeSound, NoCallAssumption
  <1> HIDE DEF o
  <1>3. q = [o EXCEPT !.held = p.active]
    BY <1>1, NoCallAssumption DEF o
  <1>a. o \in CoreStates /\ p.active \in CallOrNone /\ c \in CallOrNone /\ NoCall \in CallOrNone
    BY <1>1, <1>2 DEF Sound, CallOrNone
  <1> HIDE DEF q
  <1>b. /\ q \in CoreStates /\ q.st = o.st /\ q.held = p.active
        /\ q.consultation = o.consultation /\ q.conference = o.conference /\ q.down = o.down
    BY <1>a, <1>3 DEF CoreStates
  <1>4. /\ r \in CoreStates /\ r.st = o.st /\ r.active = c /\ r.held = p.active
        /\ r.consultation = p.consultation /\ r.waiting = NoCall /\ r.conference = FALSE
        /\ r.lastParty = NoCall /\ r.down = p.down
    BY <1>1, <1>2, <1>a, <1>b DEF CoreStates, SamePointers
  <1> HIDE DEF r
  <1>5. Legs(r) \subseteq Legs(o)
    BY <1>2, <1>4 DEF Legs, SamePointers
  <1>6. Sound(r)
    BY <1>1, <1>2, <1>4, <1>5, NoCallAssumption
       DEF Sound, SamePointers, LegsDistinctIn, LegsAliveIn, LineShapeIn,
           PartyIsForegroundIn, DownMeansNoLegsIn
  <1>7. Sound(Accept(r, c)) /\ Accept(r, c).active = c
    BY <1>1, <1>4, <1>6, PauseResumeSound, NoCallAssumption DEF SamePointers
  <1>8. QED
    BY <1>7, PublishSound

\* declineWaitingCall() is sound although the handler clears m_waitingCall before it does.
LEMMA DeclineWaitingSound ==
    ASSUME NEW p, Sound(p)
    PROVE  Sound(DeclineWaitingCall(p))
  <1> DEFINE o == Terminate(p, p.waiting)
             q == [o EXCEPT !.waiting = NoCall]
  <1>1. Sound(o)
    BY TerminateSound DEF Sound, CoreStates
  <1> HIDE DEF o
  <1>a. /\ q \in CoreStates /\ q.st = o.st /\ q.active = o.active /\ q.held = o.held
        /\ q.consultation = o.consultation /\ q.waiting = NoCall
        /\ q.conference = o.conference /\ q.lastParty = o.lastParty /\ q.down = o.down
    BY <1>1 DEF Sound, CoreStates, CallOrNone
  <1> HIDE DEF q
  <1>2. Sound(q)
    BY <1>1, <1>a DEF Sound, LegsDistinctIn, LegsAliveIn, Legs, LineShapeIn,
                      PartyIsForegroundIn, DownMeansNoLegsIn
  <1>3. Sound(Emit(q, "waitingCallEnded", NoCall))
    BY <1>2, EmitSound DEF SignalNames, CallOrNone
  <1>4. QED
    BY <1>3 DEF DeclineWaitingCall, q, o

\* swapCalls() exchanges two pointers that both named live calls.
LEMMA SwapSound ==
    ASSUME NEW p, Sound(p)
    PROVE  Sound(SwapCalls(p))
  <1> DEFINE o == Pause(p, p.active)
             q == Resume(o, p.held)
             r == [q EXCEPT !.active = p.held, !.held = p.active, !.lastParty = NoCall]
  <1> SUFFICES ASSUME p.active # NoCall, p.held # NoCall
               PROVE  Sound(PublishRemoteParty(r, p.held))
    BY DEF SwapCalls
  <1>1. /\ p.active \in Calls /\ p.held \in Calls /\ p.waiting = NoCall /\ p.active # p.held
        /\ p.down = FALSE
    BY DEF Sound, CoreStates, CallOrNone, LegsDistinctIn, LineShapeIn, DownMeansNoLegsIn, Legs
  <1>2. Sound(o) /\ SamePointers(p, o)
    BY <1>1, PauseResumeSound, NoCallAssumption
  <1> HIDE DEF o
  <1>3. Sound(q) /\ SamePointers(p, q)
    BY <1>1, <1>2, PauseResumeSound, NoCallAssumption DEF SamePointers
  <1> HIDE DEF q
  <1>4. /\ r \in CoreStates /\ r.st = q.st /\ r.active = p.held /\ r.held = p.active
        /\ r.consultation = p.consultation /\ r.waiting = NoCall /\ r.conference = p.conference
        /\ r.lastParty = NoCall /\ r.down = p.down
    BY <1>1, <1>3 DEF Sound, CoreStates, CallOrNone, SamePointers
  <1> HIDE DEF r
  <1>5. Legs(r) = Legs(q)
    BY <1>1, <1>3, <1>4 DEF Legs, SamePointers
  <1>6. Sound(r)
    BY <1>1, <1>3, <1>4, <1>5, NoCallAssumption
       DEF Sound, SamePointers, LegsDistinctIn, LegsAliveIn, LineShapeIn,
           PartyIsForegroundIn, DownMeansNoLegsIn
  <1>7. QED
    BY <1>4, <1>6, PublishSound

\* startConference() moves the second leg into the parked place.
LEMMA StartConferenceSound ==
    ASSUME NEW p, Sound(p), NEW created \in BOOLEAN
    PROVE  Sound(StartConference(p, created))
  <1> DEFINE other == IF p.consultation # NoCall THEN p.consultation ELSE p.held
             o == Resume(p, p.active)
             q == Resume(o, other)
             r == [q EXCEPT !.conference = TRUE, !.held = other, !.consultation = NoCall,
                            !.answered = FALSE, !.target = FALSE]
  <1>1. CASE ~CanStartConference(p)
    BY <1>1 DEF StartConference
  <1>2. CASE CanStartConference(p) /\ ~created
    <2>1. Sound(Emit(p, "errorOccurred", NoCall))
      BY EmitSound DEF SignalNames, CallOrNone
    <2>2. QED
      BY <1>2, <2>1 DEF StartConference
  <1>3. CASE CanStartConference(p) /\ created
    <2>1. /\ p.active \in Calls /\ other \in Calls /\ p.waiting = NoCall /\ p.active # other
          /\ other \in {p.consultation, p.held} /\ p.down = FALSE
      BY <1>3 DEF CanStartConference, Sound, CoreStates, CallOrNone, LegsDistinctIn,
                  DownMeansNoLegsIn, Legs
    <2> HIDE DEF other
    <2>2. Sound(o) /\ SamePointers(p, o)
      BY <2>1, PauseResumeSound, NoCallAssumption
    <2> HIDE DEF o
    <2>3. Sound(q) /\ SamePointers(p, q)
      BY <2>1, <2>2, PauseResumeSound, NoCallAssumption DEF SamePointers
    <2> HIDE DEF q
    <2>4. /\ r \in CoreStates /\ r.st = q.st /\ r.active = p.active /\ r.held = other
          /\ r.consultation = NoCall /\ r.waiting = NoCall /\ r.conference = TRUE
          /\ r.lastParty = p.lastParty /\ r.down = p.down
      BY <2>1, <2>3 DEF Sound, CoreStates, CallOrNone, SamePointers
    <2> HIDE DEF r
    <2>5. Legs(r) \subseteq Legs(q)
      BY <2>1, <2>3, <2>4 DEF Legs, SamePointers
    <2>6. Sound(r)
      BY <2>1, <2>3, <2>4, <2>5, NoCallAssumption
         DEF Sound, SamePointers, LegsDistinctIn, LegsAliveIn, LineShapeIn,
             PartyIsForegroundIn, DownMeansNoLegsIn
    <2>7. Sound(Emit(r, "conferenceStarted", NoCall))
      BY <2>6, EmitSound DEF SignalNames, CallOrNone
    <2>8. QED
      BY <1>3, <2>7 DEF StartConference, r, q, o, other
  <1>4. QED
    BY <1>1, <1>2, <1>3

\* A free call is nobody's leg, so it may start to live.
LEMMA FreeCall ==
    ASSUME NEW p, Sound(p), NEW c \in Calls, p.st[c] = "free", NEW s \in LiveStates
    PROVE  LET q == [p EXCEPT !.st[c] = s]
           IN  /\ c \notin Legs(p) /\ c # NoCall
               /\ Sound(q) /\ SamePointers(p, q) /\ q.st[c] = s
  <1>1. c \notin Legs(p) /\ c # NoCall
    BY NoCallAssumption DEF Sound, LegsAliveIn, LiveStates
  <1>2. c # p.waiting
    BY <1>1 DEF Legs
  <1>3. QED
    BY <1>1, <1>2, MoveSound

\* call() into an empty foreground is sound, whatever the engine returns.
LEMMA CallSound ==
    ASSUME NEW p, Sound(p), p.active = NoCall, ~p.down,
           NEW c \in CallOrNone, c # NoCall => p.st[c] = "free"
    PROVE  Sound(Call(p, c))
  <1>1. CASE c = NoCall
    <2>1. Call(p, c) \in CoreStates /\ Call(p, c).st = p.st /\ SamePointers(p, Call(p, c))
      BY <1>1 DEF Call, Sound, CoreStates, SamePointers
    <2>2. QED
      BY <2>1, FlagsSound
  <1>2. CASE c # NoCall
    <2> DEFINE o == [p EXCEPT !.st[c] = "outgoing"]
               q == Call(p, c)
    <2>1. c \in Calls /\ "outgoing" \in LiveStates
      BY <1>2 DEF CallOrNone, LiveStates, CallStates
    <2>2. c \notin Legs(p) /\ Sound(o) /\ SamePointers(p, o) /\ o.st[c] = "outgoing"
      BY <1>2, <2>1, FreeCall
    <2>3. /\ q \in CoreStates /\ q.st = o.st /\ q.active = c /\ q.held = p.held
          /\ q.consultation = p.consultation /\ q.waiting = p.waiting
          /\ q.conference = p.conference /\ q.lastParty = p.lastParty /\ q.down = p.down
      BY <1>2, <2>1 DEF Call, Sound, CoreStates, CallOrNone, LiveStates
    <2> HIDE DEF o, q
    <2>4. p.held = NoCall /\ p.waiting = NoCall /\ p.conference = FALSE /\ p.lastParty = NoCall
      BY DEF Sound, CoreStates, LineShapeIn, PartyIsForegroundIn
    <2>5. LegsAliveIn(q)
      BY <2>1, <2>2, <2>3, <2>4 DEF Sound, LegsAliveIn, Legs, SamePointers
    <2>6. Sound(q)
      BY <2>2, <2>3, <2>4, <2>5
         DEF Sound, LegsDistinctIn, Legs, LineShapeIn, PartyIsForegroundIn, DownMeansNoLegsIn
    <2>7. QED
      BY <2>6 DEF q
  <1>3. QED
    BY <1>1, <1>2

\* beginAttendedTransfer() outside a conference is sound.
LEMMA BeginTransferSound ==
    ASSUME NEW p, Sound(p), ~p.conference,
           NEW c \in CallOrNone, c # NoCall => p.st[c] = "free"
    PROVE  Sound(BeginAttendedTransfer(p, c))
  <1> DEFINE o == Pause(p, p.active)
             q == [o EXCEPT !.target = TRUE, !.answered = FALSE, !.consultation = c]
  <1> SUFFICES ASSUME p.active # NoCall
               PROVE  Sound(IF c = NoCall THEN q ELSE [q EXCEPT !.st[c] = "outgoing"])
    BY DEF BeginAttendedTransfer
  <1>0. c # NoCall => c \notin Legs(p)
    BY DEF Sound, LegsAliveIn, LiveStates
  <1>1. /\ p.active \in Calls /\ p.active # p.waiting /\ p.conference = FALSE /\ p.down = FALSE
        /\ c # NoCall => c # p.active
    BY <1>0, ForegroundIsACall DEF Sound, CoreStates, DownMeansNoLegsIn, Legs
  <1>2. Sound(o) /\ SamePointers(p, o)
    BY <1>1, PauseResumeSound
  <1>3. c # NoCall => o.st[c] = "free"
    BY <1>1 DEF Pause, Sound, CoreStates, CallOrNone
  <1> HIDE DEF o
  <1>4. /\ q \in CoreStates /\ q.st = o.st /\ q.active = o.active /\ q.held = o.held
        /\ q.consultation = c /\ q.waiting = o.waiting
        /\ q.conference = o.conference /\ q.lastParty = o.lastParty /\ q.down = o.down
    BY <1>2 DEF Sound, CoreStates
  <1> HIDE DEF q
  <1>5. CASE c = NoCall
    BY <1>2, <1>4, <1>5 DEF Sound, LegsDistinctIn, LegsAliveIn, Legs, LineShapeIn,
                            PartyIsForegroundIn, DownMeansNoLegsIn
  <1>6. CASE c # NoCall
    <2> DEFINE a == [o EXCEPT !.st[c] = "outgoing"]
               r == [q EXCEPT !.st[c] = "outgoing"]
    <2>1. c \in Calls /\ "outgoing" \in LiveStates
      BY <1>6 DEF CallOrNone, LiveStates, CallStates
    <2>2. c \notin Legs(o) /\ Sound(a) /\ SamePointers(o, a) /\ a.st[c] = "outgoing"
      BY <1>2, <1>3, <1>6, <2>1, FreeCall
    <2>3. /\ r \in CoreStates /\ r.st = a.st /\ r.active = o.active /\ r.held = o.held
          /\ r.consultation = c /\ r.waiting = o.waiting
          /\ r.conference = o.conference /\ r.lastParty = o.lastParty /\ r.down = o.down
      BY <1>2, <1>4, <2>1 DEF Sound, CoreStates, LiveStates
    <2> HIDE DEF a, r
    <2>4. LegsAliveIn(r)
      BY <2>1, <2>2, <2>3 DEF Sound, LegsAliveIn, Legs, SamePointers
    <2>5. Sound(r)
      BY <1>1, <1>2, <2>2, <2>3, <2>4
         DEF Sound, SamePointers, LegsDistinctIn, Legs, LineShapeIn, PartyIsForegroundIn,
             DownMeansNoLegsIn
    <2>6. QED
      BY <1>6, <2>5 DEF r
  <1>7. QED
    BY <1>5, <1>6

\* A transfer to a target that does not resolve resumes the call and is sound.
LEMMA BadTransferSound ==
    ASSUME NEW p, Sound(p)
    PROVE  Sound(BeginTransferBadTarget(p))
  <1> DEFINE o == Pause(p, p.active)
             q == [o EXCEPT !.answered = FALSE]
             e == Emit(q, "errorOccurred", NoCall)
             r == Resume(e, p.active)
             s == [r EXCEPT !.target = FALSE]
  <1> SUFFICES ASSUME p.active # NoCall
               PROVE  Sound(s)
    BY DEF BeginTransferBadTarget
  <1>1. p.active \in Calls /\ p.active # p.waiting
    BY ForegroundIsACall
  <1>2. Sound(o) /\ SamePointers(p, o)
    BY <1>1, PauseResumeSound
  <1> HIDE DEF o
  <1>3. q \in CoreStates /\ q.st = o.st /\ SamePointers(o, q)
    BY <1>2 DEF Sound, CoreStates, SamePointers
  <1> HIDE DEF q
  <1>4. Sound(q)
    BY <1>2, <1>3, FlagsSound
  <1>5. Sound(e) /\ SameLine(q, e)
    BY <1>4, EmitSound DEF SignalNames, CallOrNone
  <1> HIDE DEF e
  <1>6. p.active # e.waiting
    BY <1>1, <1>2, <1>3, <1>5 DEF SamePointers, SameLine
  <1>7. Sound(r)
    BY <1>1, <1>5, <1>6, PauseResumeSound
  <1> HIDE DEF r
  <1>8. s \in CoreStates /\ s.st = r.st /\ SamePointers(r, s)
    BY <1>7 DEF Sound, CoreStates, SamePointers
  <1>9. QED
    BY <1>7, <1>8, FlagsSound

\* Ending the consultation leg and dropping the pointer to it.
LEMMA EndConsultationSound ==
    ASSUME NEW p, Sound(p)
    PROVE  Sound([Terminate(p, p.consultation) EXCEPT !.consultation = NoCall])
  BY TerminateSound, NoConsultationSound DEF Sound, CoreStates

\* completeAttendedTransfer() is sound in its blind and its attended form.
LEMMA CompleteTransferSound ==
    ASSUME NEW p, Sound(p)
    PROVE  Sound(CompleteAttendedTransfer(p))
  <1> DEFINE blind == p.target /\ ~(p.consultation # NoCall /\ p.answered)
             q == IF blind THEN [Terminate(p, p.consultation) EXCEPT !.consultation = NoCall] ELSE p
             r == [q EXCEPT !.target = FALSE, !.answered = FALSE]
  <1>1. Sound(q)
    BY EndConsultationSound
  <1> HIDE DEF q
  <1>2. r \in CoreStates /\ r.st = q.st /\ SamePointers(q, r)
    BY <1>1 DEF Sound, CoreStates, SamePointers
  <1>3. Sound(r)
    BY <1>1, <1>2, FlagsSound
  <1>4. QED
    BY <1>3 DEF CompleteAttendedTransfer, q

\* cancelAttendedTransfer() drops the consultation leg and resumes the call.
LEMMA CancelTransferSound ==
    ASSUME NEW p, Sound(p)
    PROVE  Sound(CancelAttendedTransfer(p))
  <1> DEFINE o == [p EXCEPT !.target = FALSE, !.answered = FALSE]
             r == [Terminate(o, p.consultation) EXCEPT !.consultation = NoCall]
  <1>1. /\ o \in CoreStates /\ o.st = p.st /\ SamePointers(p, o)
        /\ o.consultation = p.consultation
    BY DEF Sound, CoreStates, SamePointers
  <1>2. Sound(o)
    BY <1>1, FlagsSound
  <1> HIDE DEF o
  <1>3. Sound(r)
    BY <1>1, <1>2, EndConsultationSound
  <1> HIDE DEF r
  <1>4. r.active # NoCall => Sound(Resume(r, r.active))
    BY <1>3, ForegroundIsACall, PauseResumeSound
  <1>5. QED
    BY <1>3, <1>4 DEF CancelAttendedTransfer, r, o

\* shutdown(): a leg at a time, each one gone for good before the next is ended.
LEMMA ShutdownSound ==
    ASSUME NEW p, Sound(p)
    PROVE  Sound(Shutdown(p))
  <1> DEFINE p1 == [Terminate(p, p.consultation) EXCEPT !.consultation = NoCall]
             t2 == Terminate(p1, p1.waiting)
             p2 == [t2 EXCEPT !.waiting = NoCall]
             t3 == Terminate(p2, p2.held)
             p3 == [t3 EXCEPT !.held = NoCall]
             t4 == Terminate(p3, p3.active)
             p4 == [t4 EXCEPT !.active = NoCall]
             q == [p4 EXCEPT !.down = TRUE]
  <1>t. ASSUME NEW r, Sound(r)
        PROVE  /\ Legs(r) \cup {NoCall} \subseteq CallOrNone
               /\ {r.active, r.consultation, r.held, r.waiting} \subseteq CallOrNone
    BY <1>t DEF Sound, CoreStates, Legs, CallOrNone
  <1>0. Sound(Terminate(p, p.consultation))
    BY <1>t, TerminateSound
  <1>1. Sound(p1) /\ p1.consultation = NoCall
    BY <1>0, NoConsultationSound
  <1> HIDE DEF p1
  <1>w. Sound(t2) /\ Without(p1, t2, p1.waiting)
    BY <1>1, <1>t, TerminateSound
  <1>2. Sound(t2) /\ t2.consultation = NoCall /\ t2.waiting = NoCall
    BY <1>1, <1>w DEF Without, Legs
  <1> HIDE DEF t2
  <1>3. p2 = t2
    BY <1>2 DEF Sound, CoreStates
  <1> HIDE DEF p2
  <1>h. Sound(t3) /\ Without(t2, t3, t2.held)
    BY <1>2, <1>3, <1>t, TerminateSound
  <1>4. Sound(t3) /\ t3.consultation = NoCall /\ t3.waiting = NoCall /\ t3.held = NoCall
    BY <1>2, <1>h DEF Without, Legs
  <1> HIDE DEF t3
  <1>5. p3 = t3
    BY <1>4 DEF Sound, CoreStates
  <1> HIDE DEF p3
  <1>6. Sound(t4) /\ Legs(t4) \subseteq Legs(p3) \ {p3.active}
    BY <1>4, <1>5, <1>t, TerminateSound DEF Without
  <1>7. Legs(t4) = {} /\ t4.active = NoCall
    BY <1>4, <1>5, <1>6 DEF Legs
  <1> HIDE DEF t4
  <1>8. p4 = t4
    BY <1>6, <1>7 DEF Sound, CoreStates
  <1> HIDE DEF p4
  <1>9. /\ q \in CoreStates /\ q.st = t4.st /\ q.active = t4.active /\ q.held = t4.held
        /\ q.consultation = t4.consultation /\ q.waiting = t4.waiting
        /\ q.conference = t4.conference /\ q.lastParty = t4.lastParty
    BY <1>6, <1>8 DEF Sound, CoreStates
  <1> HIDE DEF q
  <1>10. Sound(q)
    BY <1>6, <1>7, <1>9 DEF Sound, LegsDistinctIn, LegsAliveIn, Legs, LineShapeIn,
                            PartyIsForegroundIn, DownMeansNoLegsIn
  <1>11. QED
    BY <1>10 DEF Shutdown, q, p4, t4, p3, t3, p2, t2, p1

-------------------------------------------------------------------------------
(* The callbacks. *)

\* Every way a new call is treated is sound: redirected, refused, waiting or ringing.
LEMMA IncomingSound ==
    ASSUME NEW p, Sound(p), ~p.down, NEW c \in Calls, p.st[c] = "free"
    PROVE  Sound(Incoming(p, c))
  <1> DEFINE q == Arrive(p, c)
             w == [q EXCEPT !.waiting = c]
             a == [q EXCEPT !.active = c]
  <1>1. "incoming" \in LiveStates
    BY DEF LiveStates, CallStates
  <1>2. c \notin Legs(p) /\ c # NoCall /\ Sound(q) /\ SamePointers(p, q) /\ q.st[c] = "incoming"
    BY <1>1, FreeCall DEF Arrive
  <1>3. Legs(q) = Legs(p) /\ c \in CallOrNone /\ q.down = FALSE
    BY <1>2 DEF SamePointers, Legs, CallOrNone, Sound, CoreStates
  <1> HIDE DEF q
  <1>4. CASE Forwarded(p) \/ Refused(p)
    <2>1. Sound(Terminate(q, c))
      BY <1>2, <1>3, TerminateSound
    <2>2. Sound(Emit(Terminate(q, c), "callAutoHandled", c))
      BY <1>3, <2>1, EmitSound DEF SignalNames
    <2>3. QED
      BY <1>4, <2>2 DEF Incoming, q
  <1>5. CASE ~(Forwarded(p) \/ Refused(p)) /\ p.active # NoCall
    <2>1. /\ q.active # NoCall /\ q.held = NoCall /\ q.waiting = NoCall /\ q.consultation = NoCall
          /\ q.conference = FALSE
      BY <1>2, <1>5 DEF Refused, CanWait, SamePointers, Sound, CoreStates, LineShapeIn
    <2>2. /\ w \in CoreStates /\ w.st = q.st /\ w.active = q.active /\ w.held = NoCall
          /\ w.consultation = NoCall /\ w.waiting = c
          /\ w.conference = FALSE /\ w.lastParty = q.lastParty /\ w.down = q.down
      BY <1>2, <1>3, <2>1 DEF Sound, CoreStates
    <2> HIDE DEF w
    <2>3. LegsAliveIn(w)
      BY <1>1, <1>2, <2>2 DEF Sound, LegsAliveIn, Legs
    <2>4. Sound(w)
      BY <1>2, <1>3, <2>1, <2>2, <2>3 
         DEF Sound, LegsDistinctIn, Legs, LineShapeIn, PartyIsForegroundIn, DownMeansNoLegsIn
    <2>5. Sound(Emit(w, "callWaiting", c))
      BY <1>3, <2>4, EmitSound DEF SignalNames
    <2>6. QED
      BY <1>5, <2>5 DEF Incoming, w, q
  <1>6. CASE ~(Forwarded(p) \/ Refused(p)) /\ p.active = NoCall
    <2>1. /\ q.active = NoCall /\ q.held = NoCall /\ q.waiting = NoCall
          /\ q.conference = FALSE /\ q.lastParty = NoCall
      BY <1>2, <1>6 DEF SamePointers, Sound, CoreStates, LineShapeIn, PartyIsForegroundIn
    <2>2. /\ a \in CoreStates /\ a.st = q.st /\ a.active = c /\ a.held = NoCall
          /\ a.consultation = q.consultation /\ a.waiting = NoCall
          /\ a.conference = FALSE /\ a.lastParty = NoCall /\ a.down = q.down
      BY <1>2, <1>3, <2>1 DEF Sound, CoreStates
    <2> HIDE DEF a
    <2>3. LegsAliveIn(a)
      BY <1>1, <1>2, <2>2 DEF Sound, LegsAliveIn, Legs
    <2>4. Sound(a)
      BY <1>2, <1>3, <2>1, <2>2, <2>3
         DEF Sound, LegsDistinctIn, Legs, LineShapeIn, PartyIsForegroundIn, DownMeansNoLegsIn
    <2>5. Sound(Emit(a, "incomingCall", c))
      BY <1>3, <2>4, EmitSound DEF SignalNames
    <2>6. QED
      BY <1>6, <2>5 DEF Incoming, a, q
  <1>7. QED
    BY <1>4, <1>5, <1>6

\* The Connected callback is sound.
LEMMA ConnectedSound ==
    ASSUME NEW p, Sound(p), NEW c \in Calls, p.st[c] \in {"outgoing", "accepted"}
    PROVE  Sound(Connected(p, c))
  <1> DEFINE q == [p EXCEPT !.st[c] = "connected"]
             a == [q EXCEPT !.answered = TRUE]
             e == PublishRemoteParty(q, c)
  <1>1. c # p.waiting /\ c # NoCall /\ "connected" \in LiveStates
    BY NoCallAssumption DEF Sound, LegsAliveIn, LiveStates, CallStates
  <1>2. Sound(q) /\ SamePointers(p, q)
    BY <1>1, MoveSound
  <1> HIDE DEF q
  <1>3. a \in CoreStates /\ a.st = q.st /\ SamePointers(q, a)
    BY <1>2 DEF Sound, CoreStates, SamePointers
  <1>4. Sound(a)
    BY <1>2, <1>3, FlagsSound
  <1> HIDE DEF a
  <1>5. c = p.active => Sound(e)
    BY <1>2, PublishSound DEF SamePointers
  <1> HIDE DEF e
  <1>6. c = p.active => Sound(Emit(e, "callConnected", NoCall))
    BY <1>5, EmitSound DEF SignalNames, CallOrNone
  <1>7. QED
    BY <1>2, <1>4, <1>6 DEF Connected, q, a, e

\* The StreamsRunning callback is sound.
LEMMA StreamsRunningSound ==
    ASSUME NEW p, Sound(p), NEW c \in Calls, p.st[c] = "connected"
    PROVE  Sound(StreamsRunning(p, c))
  <1> DEFINE q == [p EXCEPT !.st[c] = "running"]
             r == IF c = p.active THEN PublishRemoteParty(q, c) ELSE q
             a == [r EXCEPT !.answered = TRUE]
  <1>1. c # p.waiting /\ c # NoCall /\ "running" \in LiveStates
    BY NoCallAssumption DEF Sound, LegsAliveIn, LiveStates, CallStates
  <1>2. Sound(q) /\ SamePointers(p, q)
    BY <1>1, MoveSound
  <1> HIDE DEF q
  <1>3. Sound(r)
    BY <1>2, PublishSound DEF SamePointers
  <1> HIDE DEF r
  <1>4. a \in CoreStates /\ a.st = r.st /\ SamePointers(r, a)
    BY <1>3 DEF Sound, CoreStates, SamePointers
  <1>5. Sound(a)
    BY <1>3, <1>4, FlagsSound
  <1> HIDE DEF a
  <1>6. /\ Sound(Emit(a, "consultationCallConnected", NoCall))
        /\ Sound(Emit(r, "callConnected", NoCall))
    BY <1>3, <1>5, EmitSound DEF SignalNames, CallOrNone
  <1>7. QED
    BY <1>3, <1>6 DEF StreamsRunning, q, r, a

\* Error, End and Released are sound for any call, at any time.
LEMMA GoneEventsSound ==
    ASSUME NEW p, Sound(p), NEW c \in Calls, NEW elsewhere \in BOOLEAN
    PROVE  Sound(Ended(p, c, elsewhere)) /\ Sound(Released(p, c)) /\ Sound(Failed(p, c))
  <1> DEFINE e == [p EXCEPT !.st[c] = "ended"]
             f == [p EXCEPT !.st[c] = "free"]
             s == Emit(e, "errorOccurred", c)
  <1>1. {"ended", "free"} \subseteq CallStates /\ c \in CallOrNone /\ "errorOccurred" \in SignalNames
    BY DEF CallStates, CallOrNone, SignalNames
  <1>2. Losing(e, c) /\ Losing(f, c)
    BY <1>1, LosingAfterMove
  <1> HIDE DEF e, f
  <1>3. Sound(CallGone(e, c, "End", elsewhere)) /\ Sound(CallGone(f, c, "Released", FALSE))
    BY <1>2, CallGoneSound
  <1>4. s \in CoreStates /\ SameLine(e, s)
    BY <1>1, <1>2, EmitKeeps DEF Losing
  <1> HIDE DEF s
  <1>5. Losing(s, c)
    BY <1>2, <1>4 DEF Losing, SameLine, LegsDistinctIn, Legs, LineShapeIn, PartyIsForegroundIn,
                      DownMeansNoLegsIn
  <1>6. Sound(CallGone(s, c, "Error", FALSE))
    BY <1>5, CallGoneSound
  <1>7. QED
    BY <1>3, <1>6 DEF Ended, Released, Failed, e, f, s

-------------------------------------------------------------------------------
(* The specification. *)

\* The core starts sound.
LEMMA InitSound == CoreInit => Sound(core)
  <1> SUFFICES ASSUME NEW dnd \in BOOLEAN, NEW forward \in Forwards \cup {"off"},
                      core = [st |-> [c \in Calls |-> "free"], active |-> NoCall,
                              consultation |-> NoCall, held |-> NoCall, waiting |-> NoCall,
                              conference |-> FALSE, target |-> FALSE, answered |-> FALSE,
                              lastParty |-> NoCall, endNote |-> FALSE, dnd |-> dnd,
                              forward |-> forward, down |-> FALSE, sig |-> << >>]
               PROVE  Sound(core)
    BY DEF CoreInit
  <1>1. core \in CoreStates
    BY DEF CoreStates, CallOrNone, CallStates
  <1>2. Legs(core) = {} /\ core.conference = FALSE /\ core.lastParty = NoCall
        /\ core.active = NoCall /\ core.consultation = NoCall /\ core.held = NoCall
        /\ core.waiting = NoCall
    BY DEF Legs
  <1>3. QED
    BY <1>1, <1>2 DEF Sound, LegsDistinctIn, LegsAliveIn, LineShapeIn, PartyIsForegroundIn,
                      DownMeansNoLegsIn

\* Delivering the signals of a step changes no member.
LEMMA NowSound ==
    ASSUME Sound(core)
    PROVE  Sound(Now) /\ SameLine(core, Now)
  <1>1. core \in CoreStates
    BY DEF Sound
  <1>2. << >> \in Seq(Signals)
    OBVIOUS
  <1>3. Now \in CoreStates
    BY <1>1, <1>2 DEF CoreStates, Now
  <1>4. SameLine(core, Now)
    BY <1>1 DEF CoreStates, Now, SameLine
  <1>5. QED
    BY <1>3, <1>4, SameLineSound

\* Do-not-disturb and the forward target may be set at any time.
LEMMA FlagStepSound ==
    ASSUME NEW p, Sound(p), NEW dnd \in BOOLEAN, NEW forward \in Forwards \cup {"off"}
    PROVE  Sound([p EXCEPT !.dnd = dnd]) /\ Sound([p EXCEPT !.forward = forward])
  <1>1. [p EXCEPT !.dnd = dnd] \in CoreStates /\ SamePointers(p, [p EXCEPT !.dnd = dnd])
        /\ [p EXCEPT !.dnd = dnd].st = p.st
    BY DEF Sound, CoreStates, SamePointers
  <1>2. [p EXCEPT !.forward = forward] \in CoreStates
        /\ SamePointers(p, [p EXCEPT !.forward = forward])
        /\ [p EXCEPT !.forward = forward].st = p.st
    BY DEF Sound, CoreStates, SamePointers
  <1>3. QED
    BY <1>1, <1>2, FlagsSound

\* Every operation of the window keeps the core sound.
LEMMA UserNextSound ==
    ASSUME Sound(core), UserNext
    PROVE  Sound(core')
  <1>1. Sound(Now) /\ SameLine(core, Now)
    BY NowSound
  <1> DEFINE p == Now
  <1>2. /\ p.active = core.active /\ p.conference = core.conference /\ p.st = core.st
        /\ p.down = core.down
    BY <1>1 DEF SameLine
  <1>3. \A c \in CallOrNone : Invitable(c) => (c # NoCall => p.st[c] = "free")
    BY <1>2 DEF Invitable
  <1>4. ASSUME NEW c \in CallOrNone, UserDials(c) PROVE Sound(core')
    BY <1>1, <1>2, <1>3, <1>4, CallSound DEF UserDials, Step
  <1>5. ASSUME NEW c \in CallOrNone, UserBeginsTransfer(c) PROVE Sound(core')
    BY <1>1, <1>2, <1>3, <1>5, BeginTransferSound DEF UserBeginsTransfer, Step
  <1>6. ASSUME NEW on \in BOOLEAN, UserHolds(on) PROVE Sound(core')
    BY <1>1, <1>6, AnswerAndHoldSound DEF UserHolds, Step
  <1>7. ASSUME NEW on \in BOOLEAN, UserStartsConference(on) PROVE Sound(core')
    BY <1>1, <1>7, StartConferenceSound DEF UserStartsConference, Step
  <1>8. ASSUME NEW on \in BOOLEAN, UserSetsDnd(on) PROVE Sound(core')
    BY <1>1, <1>8, FlagStepSound DEF UserSetsDnd, Step
  <1>9. ASSUME NEW index \in {0, 1}, UserDropsParticipant(index) PROVE Sound(core')
    BY <1>1, <1>9, DropSound DEF UserDropsParticipant, Step
  <1>10. ASSUME NEW forward \in Forwards \cup {"off"}, UserSetsForward(forward) PROVE Sound(core')
    BY <1>1, <1>10, FlagStepSound DEF UserSetsForward, Step
  <1>11. CASE UserDialsBadTarget
    BY <1>1, <1>11, EmitSound DEF UserDialsBadTarget, Step, CallBadTarget, SignalNames, CallOrNone
  <1>12. CASE UserBeginsBadTransfer
    BY <1>1, <1>12, BadTransferSound DEF UserBeginsBadTransfer, Step
  <1>13. CASE UserAnswers
    BY <1>1, <1>13, AnswerAndHoldSound DEF UserAnswers, Step
  <1>14. CASE UserHangsUp
    BY <1>1, <1>14, HangupSound DEF UserHangsUp, Step
  <1>15. CASE UserAnswersWaiting
    BY <1>1, <1>15, AnswerWaitingSound DEF UserAnswersWaiting, Step
  <1>16. CASE UserDeclinesWaiting
    BY <1>1, <1>16, DeclineWaitingSound DEF UserDeclinesWaiting, Step
  <1>17. CASE UserSwaps
    BY <1>1, <1>17, SwapSound DEF UserSwaps, Step
  <1>18. CASE UserCompletesTransfer
    BY <1>1, <1>18, CompleteTransferSound DEF UserCompletesTransfer, Step
  <1>19. CASE UserCancelsTransfer
    BY <1>1, <1>19, CancelTransferSound DEF UserCancelsTransfer, Step
  <1>20. CASE UserQuits
    BY <1>1, <1>20, ShutdownSound DEF UserQuits, Step
  <1>21. QED
    BY <1>4, <1>5, <1>6, <1>7, <1>8, <1>9, <1>10, <1>11, <1>12, <1>13, <1>14, <1>15, <1>16,
       <1>17, <1>18, <1>19, <1>20 DEF UserNext

\* Every callback of the engine keeps the core sound.
LEMMA EngineNextSound ==
    ASSUME Sound(core), NEW c \in Calls,
           \/ CallArrives(c) \/ CallConnects(c) \/ MediaRuns(c) \/ IdentityChanges(c)
           \/ CallFails(c) \/ CallIsReleased(c)
           \/ \E elsewhere \in BOOLEAN : CallEnds(c, elsewhere)
    PROVE  Sound(core')
  <1>1. Sound(Now) /\ SameLine(core, Now)
    BY NowSound
  <1> DEFINE p == Now
  <1>2. p.st = core.st /\ p.down = core.down /\ p.active = core.active
    BY <1>1 DEF SameLine
  <1>3. CASE CallArrives(c)
    BY <1>1, <1>2, <1>3, IncomingSound DEF CallArrives, Step
  <1>4. CASE CallConnects(c)
    BY <1>1, <1>2, <1>4, ConnectedSound DEF CallConnects, Step
  <1>5. CASE MediaRuns(c)
    BY <1>1, <1>2, <1>5, StreamsRunningSound DEF MediaRuns, Step
  <1>6. CASE IdentityChanges(c)
    BY <1>1, <1>2, <1>6, PublishSound DEF IdentityChanges, Step
  <1>7. CASE CallFails(c)
    BY <1>1, <1>7, GoneEventsSound DEF CallFails, Step
  <1>8. CASE CallIsReleased(c)
    BY <1>1, <1>8, GoneEventsSound DEF CallIsReleased, Step
  <1>9. ASSUME NEW elsewhere \in BOOLEAN, CallEnds(c, elsewhere) PROVE Sound(core')
    BY <1>1, <1>9, GoneEventsSound DEF CallEnds, Step
  <1>10. QED
    BY <1>3, <1>4, <1>5, <1>6, <1>7, <1>8, <1>9

\* Sound is inductive: every operation and every callback keeps the legs in order.
THEOREM CoreSound == CoreSpec => []Sound(core)
  <1>1. Sound(core) /\ [CoreNext]_core => Sound(core)'
    <2> SUFFICES ASSUME Sound(core), [CoreNext]_core PROVE Sound(core')
      BY DEF Sound
    <2>1. CASE UserNext
      BY <2>1, UserNextSound
    <2>2. CASE EngineNext
      BY <2>2, EngineNextSound DEF EngineNext
    <2>3. CASE UNCHANGED core
      BY <2>3
    <2>4. QED
      BY <2>1, <2>2, <2>3 DEF CoreNext
  <1>2. QED
    BY <1>1, InitSound, PTL DEF CoreSpec

-------------------------------------------------------------------------------
(* The invariants the runs check, for every set of calls. *)

\* The members always have the types the header gives them, and every signal a step
\* delivers is one the header declares.
THEOREM TypeCorrect == CoreSpec => []CoreTypeOK
  <1>1. Sound(core) => CoreTypeOK
    BY DEF Sound, CoreTypeOK
  <1>2. QED
    BY <1>1, CoreSound, PTL

\* m_activeCall, m_consultationCall, m_heldCall and m_waitingCall never name one call twice,
\* whatever the user does and whatever the engine reports meanwhile.
THEOREM NoCallInTwoRoles == CoreSpec => []LegsDistinct
  <1>1. Sound(core) => LegsDistinct
    BY DEF Sound, LegsDistinct
  <1>2. QED
    BY <1>1, CoreSound, PTL

\* None of the four pointers is ever left on a call the engine has finished with.
THEOREM NoDanglingLeg == CoreSpec => []LegsAlive
  <1>1. Sound(core) => LegsAlive
    BY DEF Sound, LegsAlive
  <1>2. QED
    BY <1>1, CoreSound, PTL

\* A call is parked or waiting only beside one in the foreground, never both, and a
\* conference has its two parties.
THEOREM TwoCallsOnTheLine == CoreSpec => []LineShape
  <1>1. Sound(core) => LineShape
    BY DEF Sound, LineShape
  <1>2. QED
    BY <1>1, CoreSound, PTL

\* The last identity announced is that of the call in the foreground, or nobody's.
THEOREM IdentityIsOfForeground == CoreSpec => []PartyIsForeground
  <1>1. Sound(core) => PartyIsForeground
    BY DEF Sound, PartyIsForeground
  <1>2. QED
    BY <1>1, CoreSound, PTL

\* shutdown() terminates every leg, in the order it walks them.
THEOREM ShutdownLeavesNoLeg == CoreSpec => []DownMeansNoLegs
  <1>1. Sound(core) => DownMeansNoLegs
    BY DEF Sound, DownMeansNoLegs
  <1>2. QED
    BY <1>1, CoreSound, PTL

-------------------------------------------------------------------------------
(* A call that goes on living keeps its place: what the end of one call costs the others, *)
(* and then what each operation and callback costs them.                                 *)

\* From p to q nothing but call c loses its place, and no call lives or dies.
Spares(p, q, c) ==
    /\ q \in CoreStates
    /\ \A d \in Calls : (p.st[d] \in LiveStates) <=> (q.st[d] \in LiveStates)
    /\ Legs(p) \ {c} \subseteq Legs(q)

\* Two blocks in a row spare what each of them spares.
LEMMA SparesOn ==
    ASSUME NEW p, NEW q, NEW r, NEW c, Spares(p, q, c), Spares(q, r, c)
    PROVE  Spares(p, r, c)
  BY DEF Spares

\* Emitting a signal spares every call.
LEMMA EmitSpares ==
    ASSUME NEW p \in CoreStates, NEW name \in SignalNames, NEW who \in CallOrNone, NEW c
    PROVE  Spares(p, Emit(p, name, who), c)
  BY EmitKeeps DEF SameLine, Spares, Legs

\* Announcing an identity spares every call.
LEMMA PublishSpares ==
    ASSUME NEW p \in CoreStates, NEW a \in CallOrNone, NEW c
    PROVE  Spares(p, PublishRemoteParty(p, a), c)
  <1> DEFINE n == [p EXCEPT !.lastParty = a]
             e == Emit(n, "remotePartyChanged", a)
  <1>1. Spares(p, n, c) /\ n \in CoreStates /\ Spares(p, p, c)
    BY DEF CoreStates, Spares, Legs
  <1>3. PublishRemoteParty(p, a) \in {p, e}
    BY DEF PublishRemoteParty
  <1> HIDE DEF n
  <1>2. Spares(n, e, c)
    BY <1>1, EmitSpares DEF SignalNames
  <1> HIDE DEF e
  <1> QED  BY <1>1, <1>2, <1>3, SparesOn

\* Resuming a parked call spares every call.
LEMMA ResumeSpares ==
    ASSUME NEW p \in CoreStates, NEW a \in Calls, NEW c
    PROVE  Resume(p, a) \in CoreStates /\ Spares(p, Resume(p, a), c)
  <1> DEFINE q == [p EXCEPT !.st[a] = "connected"]
  <1>1. CASE p.st[a] # "paused"
    BY <1>1 DEF Resume, Spares
  <1>2. CASE p.st[a] = "paused"
    <2>1. /\ q \in CoreStates /\ Legs(q) = Legs(p) /\ q.st[a] = "connected"
          /\ \A d \in Calls \ {a} : q.st[d] = p.st[d]
      BY DEF CoreStates, CallStates, Legs
    <2>2. Resume(p, a) = q
      BY <1>2 DEF Resume
    <2> HIDE DEF q
    <2> QED  BY <1>2, <2>1, <2>2 DEF Spares, LiveStates, CallStates
  <1> QED  BY <1>1, <1>2

\* When the foreground call goes, the parked and the waiting one keep a place.
LEMMA ForegroundGoneSpares ==
    ASSUME NEW p \in CoreStates
    PROVE  Spares(p, ForegroundGone(p), p.active)
  <1> DEFINE q == [p EXCEPT !.active = NoCall, !.lastParty = NoCall]
  <1> DEFINE c == p.active
  <1>n. /\ NoCall \in CallOrNone
        /\ {"heldCallPromoted", "waitingCallEnded", "incomingCall", "callEnded"} \subseteq SignalNames
    BY DEF CallOrNone, SignalNames
  <1>1. q \in CoreStates /\ Spares(p, q, c) /\ q.held \in CallOrNone /\ q.waiting \in CallOrNone
        /\ q.active = NoCall
    BY <1>n DEF CoreStates, Spares, Legs
  <1>g. ForegroundGone(p) = CASE q.held # NoCall                       -> PromoteHeldCall(q)
                              [] q.held = NoCall /\ q.waiting # NoCall -> WaitingBecomesIncoming(q)
                              [] OTHER                                 -> Emit(q, "callEnded", NoCall)
    BY DEF ForegroundGone
  <1> HIDE DEF q, c
  <1>2. CASE q.held # NoCall
    <2> DEFINE n == [q EXCEPT !.active = q.held, !.held = NoCall, !.lastParty = NoCall]
               r == Resume(n, q.held)
               e == Emit(r, "heldCallPromoted", NoCall)
               f == PublishRemoteParty(e, q.held)
    <2>5. PromoteHeldCall(q) = f
      BY DEF PromoteHeldCall
    <2>1. n \in CoreStates /\ Spares(q, n, c)
      BY <1>1, <1>n DEF CoreStates, Spares, Legs
    <2> HIDE DEF n
    <2>2. r \in CoreStates /\ Spares(n, r, c)
      BY <1>1, <1>2, <2>1, ResumeSpares DEF CallOrNone
    <2> HIDE DEF r
    <2>3. e \in CoreStates /\ Spares(r, e, c)
      BY <1>n, <2>2, EmitSpares DEF Spares
    <2> HIDE DEF e
    <2>4. Spares(e, f, c)
      BY <1>1, <2>3, PublishSpares
    <2> HIDE DEF f
    <2>6. Spares(p, f, c)
      BY <1>1, <2>1, <2>2, <2>3, <2>4, SparesOn
    <2> QED  BY <1>2, <1>g, <2>5, <2>6 DEF c
  <1>3. CASE q.held = NoCall /\ q.waiting # NoCall
    <2> DEFINE n == [q EXCEPT !.active = q.waiting, !.waiting = NoCall]
               e == Emit(n, "waitingCallEnded", NoCall)
               f == Emit(e, "incomingCall", q.waiting)
    <2>4. WaitingBecomesIncoming(q) = f
      BY DEF WaitingBecomesIncoming
    <2>1. n \in CoreStates /\ Spares(q, n, c)
      BY <1>1, <1>n DEF CoreStates, Spares, Legs
    <2> HIDE DEF n
    <2>2. e \in CoreStates /\ Spares(n, e, c)
      BY <1>n, <2>1, EmitSpares DEF Spares
    <2> HIDE DEF e
    <2>3. Spares(e, f, c)
      BY <1>1, <1>n, <2>2, EmitSpares
    <2> HIDE DEF f
    <2>5. Spares(p, f, c)
      BY <1>1, <2>1, <2>2, <2>3, SparesOn
    <2> QED  BY <1>3, <1>g, <2>4, <2>5 DEF c
  <1>4. CASE q.held = NoCall /\ q.waiting = NoCall
    <2>1. Spares(q, Emit(q, "callEnded", NoCall), c)
      BY <1>1, <1>n, EmitSpares
    <2>2. Spares(p, Emit(q, "callEnded", NoCall), c)
      BY <1>1, <2>1, SparesOn
    <2> QED  BY <1>4, <1>g, <2>2 DEF c
  <1> QED  BY <1>2, <1>3, <1>4

\* When a party of the conference goes, the other one keeps a place.
LEMMA ConferencePartyGoneSpares ==
    ASSUME NEW p \in CoreStates, NEW c \in {p.active, p.held}
    PROVE  Spares(p, ConferencePartyGone(p, c), c)
  <1> DEFINE remaining == IF c = p.active THEN p.held ELSE p.active
             q == [p EXCEPT !.conference = FALSE, !.active = remaining,
                            !.held = NoCall, !.lastParty = NoCall]
             e == Emit(q, "conferenceEnded", NoCall)
             f == PublishRemoteParty(e, remaining)
             g == Emit(q, "callEnded", NoCall)
  <1>1. /\ NoCall \in CallOrNone /\ remaining \in CallOrNone
        /\ {"conferenceEnded", "callEnded"} \subseteq SignalNames
    BY DEF CallOrNone, SignalNames, CoreStates
  <1>2. q \in CoreStates /\ Spares(p, q, c)
    BY <1>1 DEF CoreStates, Spares, Legs
  <1>6. ConferencePartyGone(p, c) \in {f, g}
    BY DEF ConferencePartyGone
  <1> HIDE DEF q, remaining
  <1>3. e \in CoreStates /\ Spares(q, e, c) /\ Spares(q, g, c)
    BY <1>1, <1>2, EmitSpares DEF Spares
  <1> HIDE DEF e
  <1>4. Spares(e, f, c)
    BY <1>1, <1>3, PublishSpares
  <1> HIDE DEF f, g
  <1>5. Spares(p, f, c) /\ Spares(p, g, c)
    BY <1>2, <1>3, <1>4, SparesOn
  <1> QED  BY <1>5, <1>6

\* The chain of ifs for a lost call clears no pointer to another one.
LEMMA LegGoneSpares ==
    ASSUME NEW p \in CoreStates, NEW c
    PROVE  Spares(p, ConsultationGone(ActiveGone(HeldGone(WaitingGone(p, c), c), c), c), c)
  <1> DEFINE w == WaitingGone(p, c)
             h == HeldGone(w, c)
             a == ActiveGone(h, c)
             q == ConsultationGone(a, c)
  <1>1. NoCall \in CallOrNone /\ {"waitingCallEnded", "heldCallEnded"} \subseteq SignalNames
    BY DEF CallOrNone, SignalNames
  <1>2. w \in CoreStates /\ Spares(p, w, c)
    <2> DEFINE n == [p EXCEPT !.waiting = NoCall]
    <2>1. n \in CoreStates /\ (c = p.waiting => Spares(p, n, c)) /\ Spares(p, p, c)
      BY <1>1 DEF CoreStates, Spares, Legs
    <2>3. w = IF c = p.waiting THEN Emit(n, "waitingCallEnded", NoCall) ELSE p
      BY DEF WaitingGone
    <2> HIDE DEF n, w
    <2>2. Spares(n, Emit(n, "waitingCallEnded", NoCall), c)
      BY <1>1, <2>1, EmitSpares
    <2>4. Spares(p, w, c)
      BY <2>1, <2>2, <2>3, SparesOn
    <2> QED  BY <2>4 DEF Spares
  <1> HIDE DEF w
  <1>3. h \in CoreStates /\ Spares(w, h, c)
    <2> DEFINE n == [w EXCEPT !.held = NoCall]
    <2>1. n \in CoreStates /\ (c = w.held => Spares(w, n, c)) /\ Spares(w, w, c)
      BY <1>1, <1>2 DEF CoreStates, Spares, Legs
    <2>3. h = IF c = w.held THEN Emit(n, "heldCallEnded", NoCall) ELSE w
      BY DEF HeldGone
    <2> HIDE DEF n, h
    <2>2. Spares(n, Emit(n, "heldCallEnded", NoCall), c)
      BY <1>1, <2>1, EmitSpares
    <2>4. Spares(w, h, c)
      BY <2>1, <2>2, <2>3, SparesOn
    <2> QED  BY <2>4 DEF Spares
  <1> HIDE DEF h
  <1>4. a \in CoreStates /\ Spares(h, a, c)
    <2>1. Spares(h, h, c)
      BY <1>3 DEF Spares
    <2>2. Spares(h, a, c)
      BY <1>3, <2>1, ForegroundGoneSpares DEF ActiveGone
    <2> QED  BY <2>2 DEF Spares
  <1> HIDE DEF a
  <1>5. Spares(a, q, c)
    BY <1>1, <1>4 DEF ConsultationGone, CoreStates, Spares, Legs
  <1> HIDE DEF q
  <1>6. Spares(p, q, c)
    BY <1>2, <1>3, <1>4, <1>5, SparesOn
  <1> QED  BY <1>6 DEF q, a, h, w

\* The End, Error and Released branch costs no call but the lost one its place.
LEMMA CallGoneSpares ==
    ASSUME NEW p \in CoreStates, NEW c, NEW event, NEW elsewhere \in BOOLEAN
    PROVE  Spares(p, CallGone(p, c, event, elsewhere), c)
  <1> DEFINE n == [p EXCEPT !.endNote = elsewhere]
             q == IF event = "End" /\ c = p.active THEN n ELSE p
             g == ConsultationGone(ActiveGone(HeldGone(WaitingGone(q, c), c), c), c)
  <1>1. q \in CoreStates /\ Spares(p, q, c)
    BY DEF CoreStates, Spares, Legs
  <1>2. CallGone(p, c, event, elsewhere) = IF p.conference /\ c \in {p.active, p.held}
                                           THEN ConferencePartyGone(p, c) ELSE g
    BY DEF CallGone
  <1> HIDE DEF q
  <1>3. Spares(q, g, c)
    BY <1>1, LegGoneSpares
  <1> HIDE DEF g
  <1>4. Spares(p, g, c)
    BY <1>1, <1>3, SparesOn
  <1> QED  BY <1>2, <1>4, ConferencePartyGoneSpares

\* Every call alive in q was alive in p, and has a place in q if it had one in p.
Keeps(p, q) ==
    \A c \in Calls : q.st[c] \in LiveStates =>
        p.st[c] \in LiveStates /\ (c \in Legs(p) => c \in Legs(q))

\* Two operations in a row keep what each of them keeps.
LEMMA KeepsOn ==
    ASSUME NEW p, NEW q, NEW r, Keeps(p, q), Keeps(q, r)
    PROVE  Keeps(p, r)
  BY DEF Keeps

\* A call that ends costs no other call its place or its life.
LEMMA GoneKeeps ==
    ASSUME NEW p \in CoreStates, NEW c \in Calls, NEW s \in {"ended", "free"}, NEW event,
           NEW elsewhere \in BOOLEAN
    PROVE  LET q == CallGone([p EXCEPT !.st[c] = s], c, event, elsewhere)
           IN  Keeps(p, q) /\ \A d \in Calls \ {c} : p.st[d] \in LiveStates => q.st[d] \in LiveStates
  <1> DEFINE o == [p EXCEPT !.st[c] = s]
             q == CallGone(o, c, event, elsewhere)
  <1>1. /\ o \in CoreStates /\ Legs(o) = Legs(p) /\ o.st[c] \notin LiveStates
        /\ \A d \in Calls \ {c} : o.st[d] = p.st[d]
    BY DEF CoreStates, CallStates, LiveStates, Legs
  <1> HIDE DEF o
  <1>2. Spares(o, q, c)
    BY <1>1, CallGoneSpares
  <1> HIDE DEF q
  <1>3. Keeps(p, q) /\ \A d \in Calls \ {c} : p.st[d] \in LiveStates => q.st[d] \in LiveStates
    BY <1>1, <1>2 DEF Spares, Keeps
  <1> QED  BY <1>3 DEF q, o

\* Terminating a call costs no other call its place or its life.
LEMMA TerminateKeeps ==
    ASSUME NEW p \in CoreStates, NEW c \in CallOrNone
    PROVE  /\ Keeps(p, Terminate(p, c))
           /\ \A d \in Calls \ {c} : p.st[d] \in LiveStates => Terminate(p, c).st[d] \in LiveStates
  <1>1. CASE Live(p, c)
    <2>1. c \in Calls
      BY <1>1 DEF Live, CallOrNone
    <2> QED  BY <1>1, <2>1, GoneKeeps DEF Terminate
  <1>2. CASE ~Live(p, c)
    BY <1>2 DEF Terminate, Keeps
  <1> QED  BY <1>1, <1>2

\* No leg of p that is still alive in q lost its place.
HoldsOn(p, q) == \A c \in Legs(p) : q.st[c] \in LiveStates => c \in Legs(q)

\* A block that keeps all legs, or all that live, forgets nobody; nor does one after another.
LEMMA HoldsOnBasics ==
    ASSUME NEW p, Sound(p), NEW q, NEW r
    PROVE  /\ Legs(p) \subseteq Legs(q) => HoldsOn(p, q)
           /\ Keeps(p, q) => HoldsOn(p, q)
           /\ HoldsOn(p, q) /\ Keeps(q, r) => HoldsOn(p, r)
           /\ HoldsOn(p, q) /\ SamePointers(q, r) /\ r.st = q.st => HoldsOn(p, r)
           /\ HoldsOn(p, q) /\ SameLine(q, r) => HoldsOn(p, r)
  <1>1. Legs(p) \subseteq Calls
    BY DEF Sound, CoreStates, Legs, CallOrNone
  <1> QED  BY <1>1 DEF HoldsOn, Keeps, SamePointers, SameLine, Legs

\* The same pointers are the same legs.
LEMMA SamePointersKeep ==
    ASSUME NEW p, NEW q, NEW r, SamePointers(p, q)
    PROVE  /\ Legs(q) = Legs(p)
           /\ SamePointers(q, r) => SamePointers(p, r)
           /\ SameLine(q, r) => SamePointers(p, r)
  BY DEF SamePointers, SameLine, Legs

\* Ending the consultation leg leaves its pointer empty: clearing it once more forgets nobody.
LEMMA EndedConsultationKeeps ==
    ASSUME NEW p, Sound(p)
    PROVE  LET q == [Terminate(p, p.consultation) EXCEPT !.consultation = NoCall]
           IN  Sound(q) /\ Keeps(p, q) /\ q.consultation = NoCall
  <1> DEFINE t == Terminate(p, p.consultation)
  <1>1. p.consultation \in CallOrNone /\ p \in CoreStates
    BY DEF Sound, CoreStates
  <1>2. Sound(t) /\ Without(p, t, p.consultation) /\ Keeps(p, t)
    BY <1>1, TerminateSound, TerminateKeeps
  <1> HIDE DEF t
  <1>3. t.consultation = NoCall
    BY <1>2 DEF Without, Legs
  <1>4. [t EXCEPT !.consultation = NoCall] = t
    BY <1>2, <1>3 DEF Sound, CoreStates
  <1> QED  BY <1>2, <1>3, <1>4 DEF t

\* Ending the waiting call leaves its pointer empty: clearing it once more forgets nobody.
LEMMA EndedWaitingKeeps ==
    ASSUME NEW p, Sound(p)
    PROVE  LET q == [Terminate(p, p.waiting) EXCEPT !.waiting = NoCall]
           IN  /\ Sound(q) /\ Keeps(p, q) /\ q.waiting = NoCall
               /\ q.consultation \in {p.consultation, NoCall}
  <1> DEFINE t == Terminate(p, p.waiting)
  <1>1. p.waiting \in CallOrNone /\ p \in CoreStates
    BY DEF Sound, CoreStates
  <1>2. Sound(t) /\ Without(p, t, p.waiting) /\ Keeps(p, t)
    BY <1>1, TerminateSound, TerminateKeeps
  <1> HIDE DEF t
  <1>3. t.waiting = NoCall /\ t.consultation \in {p.consultation, NoCall}
    BY <1>2 DEF Without, Legs
  <1>4. [t EXCEPT !.waiting = NoCall] = t
    BY <1>2, <1>3 DEF Sound, CoreStates
  <1> QED  BY <1>2, <1>3, <1>4 DEF t

\* Ending the parked call leaves its pointer empty: clearing it once more forgets nobody.
LEMMA EndedHeldKeeps ==
    ASSUME NEW p, Sound(p)
    PROVE  LET q == [Terminate(p, p.held) EXCEPT !.held = NoCall]
           IN  /\ Sound(q) /\ Keeps(p, q) /\ q.held = NoCall
               /\ q.consultation \in {p.consultation, NoCall} /\ q.waiting \in {p.waiting, NoCall}
  <1> DEFINE t == Terminate(p, p.held)
  <1>1. p.held \in CallOrNone /\ p \in CoreStates
    BY DEF Sound, CoreStates
  <1>2. Sound(t) /\ Without(p, t, p.held) /\ Keeps(p, t)
    BY <1>1, TerminateSound, TerminateKeeps
  <1> HIDE DEF t
  <1>3. t.held = NoCall /\ t.consultation \in {p.consultation, NoCall} /\ t.waiting \in {p.waiting, NoCall}
    BY <1>2 DEF Without, Legs
  <1>4. [t EXCEPT !.held = NoCall] = t
    BY <1>2, <1>3 DEF Sound, CoreStates
  <1> QED  BY <1>2, <1>3, <1>4 DEF t

\* Ending the foreground call last leaves its pointer empty: nobody is there to be promoted.
LEMMA EndedLastKeeps ==
    ASSUME NEW p, Sound(p), p.consultation = NoCall, p.held = NoCall, p.waiting = NoCall
    PROVE  LET q == [Terminate(p, p.active) EXCEPT !.active = NoCall]
           IN  Sound(q) /\ Keeps(p, q)
  <1> DEFINE t == Terminate(p, p.active)
  <1>1. p.active \in CallOrNone /\ p \in CoreStates
    BY DEF Sound, CoreStates
  <1>2. Sound(t) /\ Without(p, t, p.active) /\ Keeps(p, t)
    BY <1>1, TerminateSound, TerminateKeeps
  <1> HIDE DEF t
  <1>3. t.active = NoCall
    BY <1>2 DEF Without, Legs
  <1>4. [t EXCEPT !.active = NoCall] = t
    BY <1>2, <1>3 DEF Sound, CoreStates
  <1> QED  BY <1>2, <1>3, <1>4 DEF t

\* shutdown() clears a pointer only once its call has ended.
LEMMA ShutdownHoldsOn ==
    ASSUME NEW p, Sound(p)
    PROVE  HoldsOn(p, Shutdown(p))
  <1> DEFINE p1 == [Terminate(p, p.consultation) EXCEPT !.consultation = NoCall]
             p2 == [Terminate(p1, p1.waiting) EXCEPT !.waiting = NoCall]
             p3 == [Terminate(p2, p2.held) EXCEPT !.held = NoCall]
             p4 == [Terminate(p3, p3.active) EXCEPT !.active = NoCall]
             q == [p4 EXCEPT !.down = TRUE]
  <1>0. Shutdown(p) = q
    BY DEF Shutdown
  <1>1. Sound(p1) /\ Keeps(p, p1) /\ p1.consultation = NoCall
    BY EndedConsultationKeeps
  <1> HIDE DEF p1
  <1>2. Sound(p2) /\ Keeps(p1, p2) /\ p2.consultation = NoCall /\ p2.waiting = NoCall
    BY <1>1, EndedWaitingKeeps
  <1> HIDE DEF p2
  <1>3. Sound(p3) /\ Keeps(p2, p3) /\ p3.consultation = NoCall /\ p3.waiting = NoCall
        /\ p3.held = NoCall
    BY <1>2, EndedHeldKeeps
  <1> HIDE DEF p3
  <1>4. Sound(p4) /\ Keeps(p3, p4)
    BY <1>3, EndedLastKeeps
  <1> HIDE DEF p4
  <1>5. q.st = p4.st /\ Legs(q) = Legs(p4)
    BY <1>4 DEF Sound, CoreStates, Legs
  <1> HIDE DEF q
  <1>6. Keeps(p4, q)
    BY <1>5 DEF Keeps
  <1>7. Keeps(p, q)
    BY <1>1, <1>2, <1>3, <1>4, <1>6, KeepsOn
  <1> QED  BY <1>0, <1>7, HoldsOnBasics

\* hangup() forgets nobody: what it does not end is promoted.
LEMMA HangupHoldsOn ==
    ASSUME NEW p, Sound(p)
    PROVE  HoldsOn(p, Hangup(p))
  <1> DEFINE c == IF p.conference THEN p.held ELSE p.consultation
             q == Terminate(p, c)
             r == Terminate(q, q.active)
  <1>1. c \in CallOrNone /\ p \in CoreStates
    BY DEF Sound, CoreStates
  <1>5. r = Hangup(p)
    BY DEF Hangup
  <1> HIDE DEF c
  <1>2. Sound(q) /\ Keeps(p, q)
    BY <1>1, TerminateSound, TerminateKeeps
  <1> HIDE DEF q
  <1>3. q \in CoreStates /\ q.active \in CallOrNone
    BY <1>2 DEF Sound, CoreStates
  <1>4. Keeps(q, r)
    BY <1>3, TerminateKeeps
  <1> HIDE DEF r
  <1> QED  BY <1>2, <1>4, <1>5, KeepsOn, HoldsOnBasics

\* Dropping a conference party forgets nobody.
LEMMA DropHoldsOn ==
    ASSUME NEW p, Sound(p), NEW index
    PROVE  HoldsOn(p, DropConferenceParticipant(p, index))
  <1>1. (IF index = 0 THEN p.active ELSE p.held) \in CallOrNone /\ p \in CoreStates
    BY DEF Sound, CoreStates
  <1>2. Keeps(p, Terminate(p, IF index = 0 THEN p.active ELSE p.held)) /\ Keeps(p, p)
    BY <1>1, TerminateKeeps DEF Keeps
  <1> QED  BY <1>2, HoldsOnBasics DEF DropConferenceParticipant

\* declineWaitingCall() forgets nobody.
LEMMA DeclineWaitingHoldsOn ==
    ASSUME NEW p, Sound(p)
    PROVE  HoldsOn(p, DeclineWaitingCall(p))
  <1> DEFINE q == [Terminate(p, p.waiting) EXCEPT !.waiting = NoCall]
             r == Emit(q, "waitingCallEnded", NoCall)
  <1>0. DeclineWaitingCall(p) \in {p, r}
    BY DEF DeclineWaitingCall
  <1>1. Sound(q) /\ Keeps(p, q)
    BY EndedWaitingKeeps
  <1> HIDE DEF q
  <1>2. SameLine(q, r)
    BY <1>1, EmitSound DEF SignalNames, CallOrNone
  <1> HIDE DEF r
  <1>3. HoldsOn(p, r) /\ HoldsOn(p, p)
    BY <1>1, <1>2, HoldsOnBasics
  <1> QED  BY <1>0, <1>3

\* completeAttendedTransfer() forgets nobody: the blind form ends the consultation first.
LEMMA CompleteTransferHoldsOn ==
    ASSUME NEW p, Sound(p)
    PROVE  HoldsOn(p, CompleteAttendedTransfer(p))
  <1> DEFINE blind == p.target /\ ~(p.consultation # NoCall /\ p.answered)
             e == [Terminate(p, p.consultation) EXCEPT !.consultation = NoCall]
             q == IF blind THEN e ELSE p
             r == [q EXCEPT !.target = FALSE, !.answered = FALSE]
  <1>0. CompleteAttendedTransfer(p) \in {p, r}
    BY DEF CompleteAttendedTransfer
  <1>1. Sound(e) /\ Keeps(p, e)
    BY EndedConsultationKeeps
  <1> HIDE DEF e, blind
  <1>2. Sound(q) /\ Keeps(p, q)
    BY <1>1 DEF Keeps
  <1> HIDE DEF q
  <1>3. SamePointers(q, r) /\ r.st = q.st
    BY <1>2 DEF Sound, CoreStates, SamePointers
  <1> HIDE DEF r
  <1>4. HoldsOn(p, r) /\ HoldsOn(p, p)
    BY <1>2, <1>3, HoldsOnBasics
  <1> QED  BY <1>0, <1>4

\* cancelAttendedTransfer() forgets nobody.
LEMMA CancelTransferHoldsOn ==
    ASSUME NEW p, Sound(p)
    PROVE  HoldsOn(p, CancelAttendedTransfer(p))
  <1> DEFINE o == [p EXCEPT !.target = FALSE, !.answered = FALSE]
             r == [Terminate(o, p.consultation) EXCEPT !.consultation = NoCall]
             s == Resume(r, r.active)
  <1>1. /\ o \in CoreStates /\ o.st = p.st /\ SamePointers(p, o)
        /\ o.consultation = p.consultation
    BY DEF Sound, CoreStates, SamePointers
  <1>0. CancelAttendedTransfer(p) = IF r.active # NoCall THEN s ELSE r
    BY DEF CancelAttendedTransfer
  <1> HIDE DEF o
  <1>a. Sound(o) /\ Legs(p) \subseteq Legs(o)
    BY <1>1, FlagsSound, SamePointersKeep
  <1>2. Sound(o) /\ HoldsOn(p, o)
    BY <1>a, HoldsOnBasics
  <1>3. Sound(r) /\ Keeps(o, r)
    BY <1>1, <1>2, EndedConsultationKeeps
  <1> HIDE DEF r
  <1>4. r.active # NoCall => Keeps(r, s)
    <2> SUFFICES ASSUME r.active # NoCall PROVE Keeps(r, s)
      OBVIOUS
    <2>1. r.active \in Calls /\ r \in CoreStates /\ s \in CoreStates
          /\ r.active # r.waiting
      BY <1>3, ForegroundIsACall, ResumeSpares DEF Sound
    <2>2. Spares(r, s, r.active) /\ SamePointers(r, s)
      BY <1>3, <2>1, ResumeSpares, PauseResumeSound
    <2>3. Legs(s) = Legs(r)
      BY <2>2, SamePointersKeep
    <2> QED  BY <2>2, <2>3 DEF Spares, Keeps
  <1> HIDE DEF s
  <1>5. HoldsOn(p, r)
    BY <1>2, <1>3, HoldsOnBasics
  <1>6. r.active # NoCall => HoldsOn(p, s)
    BY <1>4, <1>5, HoldsOnBasics
  <1> QED  BY <1>0, <1>5, <1>6

\* answerWaitingCall() parks the foreground call where nobody was parked.
LEMMA AnswerWaitingHoldsOn ==
    ASSUME NEW p, Sound(p)
    PROVE  HoldsOn(p, AnswerWaitingCall(p))
  <1> DEFINE c == p.waiting
             o == Pause(p, p.active)
             q == IF p.active = NoCall THEN p ELSE [o EXCEPT !.held = p.active]
             r == [q EXCEPT !.waiting = NoCall, !.active = c, !.lastParty = NoCall]
             a == Accept(r, c)
             t == PublishRemoteParty(a, c)
  <1>1. CASE c = NoCall
    BY <1>1, HoldsOnBasics DEF AnswerWaitingCall
  <1>2. CASE c # NoCall
    <2>0. AnswerWaitingCall(p) = t
      BY <1>2 DEF AnswerWaitingCall
    <2>1. c \in Calls /\ p.active \in Calls /\ p.held = NoCall /\ p.active # c /\ p.active # NoCall
      BY <1>2, NoCallAssumption DEF Sound, CoreStates, CallOrNone, LegsDistinctIn, LineShapeIn
    <2>2. Sound(o) /\ SamePointers(p, o)
      BY <2>1, PauseResumeSound
    <2> HIDE DEF o
    <2>3. /\ r \in CoreStates /\ r.active = c /\ r.held = p.active
          /\ r.consultation = p.consultation
      BY <2>1, <2>2 DEF Sound, CoreStates, SamePointers, CallOrNone
    <2>4. Legs(p) \subseteq Legs(r)
      BY <2>1, <2>3 DEF Legs
    <2> HIDE DEF r
    <2>5. a \in CoreStates /\ Legs(a) = Legs(r)
      BY <2>1, <2>3 DEF Accept, CoreStates, CallStates, Legs
    <2> HIDE DEF a
    <2>6. Spares(a, t, NoCall)
      BY <2>1, <2>5, PublishSpares DEF CallOrNone
    <2>7. Legs(p) \subseteq Legs(t)
      BY <2>4, <2>5, <2>6 DEF Spares, Legs
    <2> QED  BY <2>0, <2>7, HoldsOnBasics
  <1> QED  BY <1>1, <1>2

\* swapCalls() exchanges two places.
LEMMA SwapHoldsOn ==
    ASSUME NEW p, Sound(p)
    PROVE  HoldsOn(p, SwapCalls(p))
  <1> DEFINE o == Pause(p, p.active)
             q == Resume(o, p.held)
             r == [q EXCEPT !.active = p.held, !.held = p.active, !.lastParty = NoCall]
             t == PublishRemoteParty(r, p.held)
  <1>1. CASE NoCall \in {p.active, p.held}
    BY <1>1, HoldsOnBasics DEF SwapCalls
  <1>2. CASE NoCall \notin {p.active, p.held}
    <2>0. SwapCalls(p) = t
      BY <1>2 DEF SwapCalls
    <2>1. p.held \in Calls /\ p.active \in Calls /\ p.active # p.waiting /\ p.held # p.waiting
      BY <1>2 DEF Sound, CoreStates, CallOrNone, LegsDistinctIn, Legs
    <2>2. Sound(o) /\ SamePointers(p, o)
      BY <2>1, PauseResumeSound
    <2> HIDE DEF o
    <2>3. Sound(q) /\ SamePointers(o, q)
      BY <2>1, <2>2, PauseResumeSound DEF SamePointers
    <2> HIDE DEF q
    <2>4. /\ r \in CoreStates /\ r.active = p.held /\ r.held = p.active
          /\ r.consultation = p.consultation /\ r.waiting = p.waiting
      BY <2>1, <2>2, <2>3 DEF Sound, CoreStates, SamePointers, CallOrNone
    <2> HIDE DEF r
    <2>6. Spares(r, t, NoCall)
      BY <2>1, <2>4, PublishSpares DEF CallOrNone
    <2>7. Legs(p) \subseteq Legs(t)
      BY <2>4, <2>6 DEF Spares, Legs
    <2> QED  BY <2>0, <2>7, HoldsOnBasics
  <1> QED  BY <1>1, <1>2

\* Of startConference() only the parked call, if the consultation joins instead, may be left
\* out.
LEMMA StartConferenceHoldsOn ==
    ASSUME NEW p, Sound(p), NEW created \in BOOLEAN
    PROVE  LET q == StartConference(p, created)
           IN  \A c \in Legs(p) : q.st[c] \in LiveStates /\ c \notin Legs(q) =>
                   c = p.held /\ p.consultation # NoCall /\ p.conference = FALSE /\ q.conference
  <1> DEFINE other == IF p.consultation # NoCall THEN p.consultation ELSE p.held
             o == Resume(p, p.active)
             q == Resume(o, other)
             r == [q EXCEPT !.conference = TRUE, !.held = other, !.consultation = NoCall,
                            !.answered = FALSE, !.target = FALSE]
             e == Emit(p, "errorOccurred", NoCall)
             t == Emit(r, "conferenceStarted", NoCall)
  <1>n. {"errorOccurred", "conferenceStarted"} \subseteq SignalNames /\ NoCall \in CallOrNone
    BY DEF SignalNames, CallOrNone
  <1>1. CASE ~CanStartConference(p)
    BY <1>1 DEF StartConference
  <1>2. CASE CanStartConference(p) /\ ~created
    <2>1. Legs(e) = Legs(p)
      BY <1>n, EmitSound DEF SameLine, Legs
    <2> QED  BY <1>2, <2>1 DEF StartConference
  <1>3. CASE CanStartConference(p) /\ created
    <2>0. StartConference(p, created) = t
      BY <1>3 DEF StartConference
    <2>1. /\ p.active \in Calls /\ other \in Calls /\ p.waiting = NoCall /\ p.active # other
          /\ p.conference = FALSE
      BY <1>3 DEF CanStartConference, Sound, CoreStates, CallOrNone, LegsDistinctIn
    <2>5. p.consultation # NoCall => other = p.consultation
      OBVIOUS
    <2>6. p.consultation = NoCall => other = p.held
      OBVIOUS
    <2> HIDE DEF other
    <2>2. Sound(o) /\ SamePointers(p, o)
      BY <2>1, PauseResumeSound, NoCallAssumption
    <2> HIDE DEF o
    <2>3. Sound(q) /\ SamePointers(p, q)
      BY <2>1, <2>2, PauseResumeSound, NoCallAssumption DEF SamePointers
    <2> HIDE DEF q
    <2>4. /\ r \in CoreStates /\ r.active = p.active /\ r.held = other /\ r.conference = TRUE
      BY <2>1, <2>3 DEF Sound, CoreStates, CallOrNone, SamePointers
    <2> HIDE DEF r
    <2>7. SameLine(r, t)
      BY <1>n, <2>4, EmitKeeps
    <2> HIDE DEF t
    <2>8. \A c \in Legs(p) : c \notin Legs(t) => c = p.held /\ p.consultation # NoCall
      BY <2>1, <2>4, <2>5, <2>6, <2>7 DEF Legs, SameLine
    <2> QED  BY <2>0, <2>1, <2>4, <2>7, <2>8 DEF SameLine
  <1> QED  BY <1>1, <1>2, <1>3

\* Of beginAttendedTransfer() only an earlier consultation may be left out.
LEMMA BeginTransferHoldsOn ==
    ASSUME NEW p, Sound(p), NEW c \in CallOrNone, c # NoCall => p.st[c] = "free"
    PROVE  LET q == BeginAttendedTransfer(p, c)
           IN  \A d \in Legs(p) : q.st[d] \in LiveStates /\ d \notin Legs(q) =>
                   d = p.consultation /\ q.consultation # d /\ q.active = p.active
  <1> DEFINE o == Pause(p, p.active)
             n == [o EXCEPT !.target = TRUE, !.answered = FALSE, !.consultation = c]
             q == IF c = NoCall THEN n ELSE [n EXCEPT !.st[c] = "outgoing"]
  <1>1. CASE p.active = NoCall
    BY <1>1 DEF BeginAttendedTransfer
  <1>2. CASE p.active # NoCall
    <2>0. BeginAttendedTransfer(p, c) = q
      BY <1>2 DEF BeginAttendedTransfer
    <2>1. Sound(o) /\ SamePointers(p, o)
      BY <1>2, ForegroundIsACall, PauseResumeSound
    <2> HIDE DEF o
    <2>2. /\ q.active = p.active /\ q.held = p.held /\ q.waiting = p.waiting /\ q.consultation = c
      BY <2>1 DEF Sound, CoreStates, SamePointers
    <2> HIDE DEF q
    <2> QED  BY <2>0, <2>2 DEF Legs
  <1> QED  BY <1>1, <1>2

\* A transfer target that does not resolve forgets nobody.
LEMMA BadTransferHoldsOn ==
    ASSUME NEW p, Sound(p)
    PROVE  HoldsOn(p, BeginTransferBadTarget(p))
  <1> DEFINE o == Pause(p, p.active)
             q == [o EXCEPT !.answered = FALSE]
             e == Emit(q, "errorOccurred", NoCall)
             r == Resume(e, p.active)
             s == [r EXCEPT !.target = FALSE]
  <1>1. CASE p.active = NoCall
    BY <1>1, HoldsOnBasics DEF BeginTransferBadTarget
  <1>2. CASE p.active # NoCall
    <2>0. BeginTransferBadTarget(p) = s
      BY <1>2 DEF BeginTransferBadTarget
    <2>1. Sound(o) /\ SamePointers(p, o) /\ p.active \in Calls
      BY <1>2, ForegroundIsACall, PauseResumeSound
    <2> HIDE DEF o
    <2>2. q \in CoreStates /\ SamePointers(o, q)
      BY <2>1 DEF Sound, CoreStates, SamePointers
    <2> HIDE DEF q
    <2>3. e \in CoreStates /\ SameLine(q, e)
      BY <2>2, EmitKeeps DEF SignalNames, CallOrNone
    <2> HIDE DEF e
    <2>4. r \in CoreStates /\ SamePointers(e, r)
      BY <2>1, <2>3, ResumeSpares DEF Resume, CoreStates, SamePointers
    <2> HIDE DEF r
    <2>5. SamePointers(r, s)
      BY <2>4 DEF CoreStates, SamePointers
    <2> HIDE DEF s
    <2>6. Legs(s) = Legs(p)
      BY <2>1, <2>2, <2>3, <2>4, <2>5 DEF SamePointers, SameLine, Legs
    <2> QED  BY <2>0, <2>6, HoldsOnBasics
  <1> QED  BY <1>1, <1>2

\* call() takes a place nobody was in.
LEMMA CallHoldsOn ==
    ASSUME NEW p, Sound(p), p.active = NoCall, NEW c \in CallOrNone
    PROVE  HoldsOn(p, Call(p, c)) /\ HoldsOn(p, CallBadTarget(p))
  <1>1. Legs(p) \subseteq Legs(Call(p, c))
    BY DEF Sound, CoreStates, Call, Legs
  <1>2. Legs(CallBadTarget(p)) = Legs(p)
    <2>1. SameLine(p, CallBadTarget(p))
      BY EmitSound DEF CallBadTarget, SignalNames, CallOrNone
    <2> QED  BY <2>1 DEF SameLine, Legs
  <1> QED  BY <1>1, <1>2, HoldsOnBasics

\* Answering, parking and the two settings move no pointer.
LEMMA AnswerHoldHoldsOn ==
    ASSUME NEW p, Sound(p), NEW on \in BOOLEAN, NEW dnd \in BOOLEAN,
           NEW forward \in Forwards \cup {"off"}
    PROVE  /\ HoldsOn(p, Answer(p)) /\ HoldsOn(p, SetHeld(p, on))
           /\ HoldsOn(p, [p EXCEPT !.dnd = dnd]) /\ HoldsOn(p, [p EXCEPT !.forward = forward])
  <1>1. Legs(Answer(p)) = Legs(p) /\ Legs(SetHeld(p, on)) = Legs(p)
    BY ForegroundIsACall, PauseResumeSound, SamePointersKeep DEF Answer, SetHeld
  <1>2. Legs([p EXCEPT !.dnd = dnd]) = Legs(p) /\ Legs([p EXCEPT !.forward = forward]) = Legs(p)
    BY DEF Sound, CoreStates, Legs
  <1> QED  BY <1>1, <1>2, HoldsOnBasics

\* A new call takes a place nobody was in, or is refused.
LEMMA IncomingHoldsOn ==
    ASSUME NEW p, Sound(p), NEW c \in Calls, p.st[c] = "free"
    PROVE  HoldsOn(p, Incoming(p, c))
  <1> DEFINE q == Arrive(p, c)
             t == Terminate(q, c)
             e == Emit(t, "callAutoHandled", c)
             u == [q EXCEPT !.waiting = c]
             w == Emit(u, "callWaiting", c)
             b == [q EXCEPT !.active = c]
             a == Emit(b, "incomingCall", c)
  <1>n. c \in CallOrNone /\ {"callAutoHandled", "callWaiting", "incomingCall"} \subseteq SignalNames
        /\ "incoming" \in LiveStates
    BY DEF CallOrNone, SignalNames, LiveStates, CallStates
  <1>1. Sound(q) /\ SamePointers(p, q) /\ q \in CoreStates
    BY <1>n, FreeCall DEF Arrive, Sound
  <1> HIDE DEF q
  <1>2. CASE Forwarded(p) \/ Refused(p)
    <2>1. Incoming(p, c) = e
      BY <1>2 DEF Incoming, q
    <2>2. Keeps(q, t) /\ Sound(t)
      BY <1>n, <1>1, TerminateKeeps, TerminateSound
    <2> HIDE DEF t
    <2>3. SameLine(t, e)
      BY <1>n, <2>2, EmitSound
    <2> HIDE DEF e
    <2>4. HoldsOn(p, q)
      BY <1>1, SamePointersKeep, HoldsOnBasics
    <2>5. HoldsOn(p, t)
      BY <2>2, <2>4, HoldsOnBasics
    <2> QED  BY <2>1, <2>3, <2>5, HoldsOnBasics
  <1>3. CASE ~(Forwarded(p) \/ Refused(p)) /\ p.active # NoCall
    <2>1. Incoming(p, c) = w
      BY <1>3 DEF Incoming, q
    <2>2. p.waiting = NoCall
      BY <1>3 DEF Refused, CanWait
    <2>3. u \in CoreStates /\ Legs(p) \subseteq Legs(u)
      BY <1>n, <1>1, <2>2 DEF CoreStates, SamePointers, Legs
    <2> HIDE DEF u
    <2>4. SameLine(u, w)
      BY <1>n, <2>3, EmitKeeps
    <2> HIDE DEF w
    <2>5. Legs(p) \subseteq Legs(w)
      BY <2>3, <2>4 DEF SameLine, Legs
    <2> QED  BY <2>1, <2>5, HoldsOnBasics
  <1>4. CASE ~(Forwarded(p) \/ Refused(p)) /\ p.active = NoCall
    <2>1. Incoming(p, c) = a
      BY <1>4 DEF Incoming, q
    <2>3. b \in CoreStates /\ Legs(p) \subseteq Legs(b)
      BY <1>n, <1>1, <1>4 DEF CoreStates, SamePointers, Legs
    <2> HIDE DEF b
    <2>4. SameLine(b, a)
      BY <1>n, <2>3, EmitKeeps
    <2> HIDE DEF a
    <2>5. Legs(p) \subseteq Legs(a)
      BY <2>3, <2>4 DEF SameLine, Legs
    <2> QED  BY <2>1, <2>5, HoldsOnBasics
  <1> QED  BY <1>2, <1>3, <1>4

\* An answer, media or an identity moves no pointer.
LEMMA MediaHoldsOn ==
    ASSUME NEW p, Sound(p), NEW c \in Calls
    PROVE  /\ HoldsOn(p, Connected(p, c)) /\ HoldsOn(p, StreamsRunning(p, c))
           /\ HoldsOn(p, PublishRemoteParty(p, c))
  <1>n. /\ {"connected", "running"} \subseteq CallStates /\ {c, NoCall} \subseteq CallOrNone
        /\ {"callConnected", "consultationCallConnected"} \subseteq SignalNames
    BY DEF CallStates, CallOrNone, SignalNames
  <1>p. p \in CoreStates
    BY DEF Sound
  <1>1. ASSUME NEW q \in CoreStates, Legs(p) \subseteq Legs(q), NEW name \in SignalNames
        PROVE  /\ PublishRemoteParty(q, c) \in CoreStates /\ Emit(q, name, NoCall) \in CoreStates
               /\ Legs(p) \subseteq Legs(PublishRemoteParty(q, c))
               /\ Legs(p) \subseteq Legs(Emit(q, name, NoCall))
    BY <1>n, <1>1, PublishSpares, EmitSpares DEF Spares, Legs
  <1>2. ASSUME NEW q \in CoreStates, Legs(p) \subseteq Legs(q)
        PROVE  [q EXCEPT !.answered = TRUE] \in CoreStates
               /\ Legs(p) \subseteq Legs([q EXCEPT !.answered = TRUE])
    BY <1>2 DEF CoreStates, Legs
  <1>3. ASSUME NEW s \in {"connected", "running"}
        PROVE  [p EXCEPT !.st[c] = s] \in CoreStates /\ Legs(p) \subseteq Legs([p EXCEPT !.st[c] = s])
    BY <1>n, <1>p DEF CoreStates, Legs
  <1>4. Legs(p) \subseteq Legs(Connected(p, c))
    <2> DEFINE q == [p EXCEPT !.st[c] = "connected"]
    <2>1. q \in CoreStates /\ Legs(p) \subseteq Legs(q)
      BY <1>3
    <2>2. Connected(p, c) \in {Emit(PublishRemoteParty(q, c), "callConnected", NoCall),
                               [q EXCEPT !.answered = TRUE], q}
      BY DEF Connected
    <2> HIDE DEF q
    <2> QED  BY <1>n, <1>1, <1>2, <2>1, <2>2
  <1>5. Legs(p) \subseteq Legs(StreamsRunning(p, c))
    <2> DEFINE q == [p EXCEPT !.st[c] = "running"]
               r == IF c = p.active THEN PublishRemoteParty(q, c) ELSE q
    <2>2. StreamsRunning(p, c) \in {Emit([r EXCEPT !.answered = TRUE], "consultationCallConnected", NoCall),
                                    Emit(r, "callConnected", NoCall), r}
      BY DEF StreamsRunning
    <2>1. q \in CoreStates /\ Legs(p) \subseteq Legs(q)
      BY <1>3
    <2> HIDE DEF q
    <2>3. r \in CoreStates /\ Legs(p) \subseteq Legs(r)
      BY <1>n, <1>1, <2>1
    <2> HIDE DEF r
    <2> QED  BY <1>n, <1>1, <1>2, <2>2, <2>3
  <1>6. Legs(p) \subseteq Legs(PublishRemoteParty(p, c))
    BY <1>n, <1>p, PublishSpares DEF Spares, Legs
  <1> QED  BY <1>4, <1>5, <1>6, HoldsOnBasics

\* A call that fails, ends or is released costs no other one its place.
LEMMA GoneEventsHoldOn ==
    ASSUME NEW p, Sound(p), NEW c \in Calls, NEW elsewhere \in BOOLEAN
    PROVE  /\ HoldsOn(p, Ended(p, c, elsewhere)) /\ HoldsOn(p, Released(p, c))
           /\ HoldsOn(p, Failed(p, c))
  <1> DEFINE e == [p EXCEPT !.st[c] = "ended"]
             s == Emit(e, "errorOccurred", c)
             g == CallGone(s, c, "Error", FALSE)
  <1>p. p \in CoreStates
    BY DEF Sound
  <1>0. Failed(p, c) = g
    BY DEF Failed
  <1>1. Keeps(p, Ended(p, c, elsewhere)) /\ Keeps(p, Released(p, c))
    BY <1>p, GoneKeeps DEF Ended, Released
  <1>2. /\ e \in CoreStates /\ Legs(e) = Legs(p) /\ e.st[c] \notin LiveStates
        /\ \A d \in Calls \ {c} : e.st[d] = p.st[d]
    BY <1>p DEF CoreStates, CallStates, LiveStates, Legs
  <1> HIDE DEF e
  <1>3. s \in CoreStates /\ SameLine(e, s)
    BY <1>2, EmitKeeps DEF SignalNames, CallOrNone
  <1> HIDE DEF s
  <1>4. Spares(s, g, c)
    BY <1>3, CallGoneSpares
  <1> HIDE DEF g
  <1>5. Keeps(p, g)
    BY <1>2, <1>3, <1>4 DEF Spares, Keeps, SameLine, Legs
  <1> QED  BY <1>0, <1>1, <1>5, HoldsOnBasics

\* No operation of the window forgets a living call but the two the property names.
LEMMA UserForgetsNobody ==
    ASSUME Sound(core), UserNext, NEW c \in Legs(core), core'.st[c] \in LiveStates, c \notin Legs(core')
    PROVE  ForgetsParked(c) \/ ForgetsConsultation(c)
  <1> DEFINE p == Now
  <1>1. Sound(p) /\ SameLine(core, p)
    BY NowSound
  <1>2. /\ p.active = core.active /\ p.conference = core.conference /\ p.st = core.st
        /\ p.consultation = core.consultation /\ p.held = core.held /\ Legs(p) = Legs(core)
    BY <1>1 DEF SameLine, Legs
  <1>3. \A d \in CallOrNone : Invitable(d) => (d # NoCall => p.st[d] = "free")
    BY <1>2 DEF Invitable
  <1>c. c # NoCall /\ c \in Legs(p)
    BY <1>2 DEF Legs
  <1> HIDE DEF p
  <1>h. HoldsOn(p, core') => FALSE
    BY <1>2 DEF HoldsOn
  <1>4. ASSUME NEW d \in CallOrNone, UserDials(d) PROVE FALSE
    <2>1. core' = Call(p, d) /\ p.active = NoCall
      BY <1>2, <1>4 DEF UserDials, Step, p
    <2> QED  BY <1>1, <1>h, <2>1, CallHoldsOn
  <1>5. ASSUME NEW d \in CallOrNone, UserBeginsTransfer(d)
        PROVE  ForgetsConsultation(c)
    <2>1. core' = BeginAttendedTransfer(p, d) /\ (d # NoCall => p.st[d] = "free")
      BY <1>3, <1>5 DEF UserBeginsTransfer, Step, p
    <2>2. c = p.consultation /\ core'.consultation # c /\ core'.active = p.active
      BY <1>1, <1>c, <2>1, BeginTransferHoldsOn
    <2> QED  BY <1>2, <1>5, <2>2, Zenon DEF ForgetsConsultation
  <1>6. ASSUME NEW on \in BOOLEAN, UserHolds(on) \/ UserSetsDnd(on) PROVE FALSE
    <2>1. core' \in {SetHeld(p, on), [p EXCEPT !.dnd = on]}
      BY <1>6 DEF UserHolds, UserSetsDnd, Step, p
    <2> QED  BY <1>1, <1>h, <2>1, AnswerHoldHoldsOn
  <1>7. ASSUME NEW on \in BOOLEAN, UserStartsConference(on)
        PROVE  ForgetsParked(c)
    <2>1. core' = StartConference(p, on)
      BY <1>7 DEF UserStartsConference, Step, p
    <2>2. c = p.held /\ p.consultation # NoCall /\ p.conference = FALSE /\ core'.conference
      BY <1>1, <1>c, <2>1, StartConferenceHoldsOn
    <2> QED  BY <1>2, <1>7, <2>2, Zenon DEF ForgetsParked
  <1>9. ASSUME NEW index \in {0, 1}, UserDropsParticipant(index) PROVE FALSE
    BY <1>1, <1>9, <1>h, DropHoldsOn DEF UserDropsParticipant, Step, p
  <1>10. ASSUME NEW forward \in Forwards \cup {"off"}, UserSetsForward(forward) PROVE FALSE
    <2>1. core' = [p EXCEPT !.forward = forward]
      BY <1>10 DEF UserSetsForward, Step, p
    <2> QED  BY <1>1, <1>h, <2>1, AnswerHoldHoldsOn
  <1>11. CASE UserDialsBadTarget
    <2>1. core' = CallBadTarget(p) /\ p.active = NoCall /\ NoCall \in CallOrNone
      BY <1>2, <1>11 DEF UserDialsBadTarget, Step, p, CallOrNone
    <2> QED  BY <1>1, <1>h, <2>1, CallHoldsOn
  <1>12. CASE UserBeginsBadTransfer \/ UserAnswers \/ UserHangsUp \/ UserQuits
    <2>1. core' \in {BeginTransferBadTarget(p), Answer(p), Hangup(p), Shutdown(p)}
      BY <1>12 DEF UserBeginsBadTransfer, UserAnswers, UserHangsUp, UserQuits, Step, p
    <2> QED  BY <1>1, <1>h, <2>1, BadTransferHoldsOn, AnswerHoldHoldsOn, HangupHoldsOn, ShutdownHoldsOn
  <1>13. CASE UserAnswersWaiting \/ UserDeclinesWaiting \/ UserSwaps
    <2>1. core' \in {AnswerWaitingCall(p), DeclineWaitingCall(p), SwapCalls(p)}
      BY <1>13 DEF UserAnswersWaiting, UserDeclinesWaiting, UserSwaps, Step, p
    <2> QED  BY <1>1, <1>h, <2>1, AnswerWaitingHoldsOn, DeclineWaitingHoldsOn, SwapHoldsOn
  <1>14. CASE UserCompletesTransfer \/ UserCancelsTransfer
    <2>1. core' \in {CompleteAttendedTransfer(p), CancelAttendedTransfer(p)}
      BY <1>14 DEF UserCompletesTransfer, UserCancelsTransfer, Step, p
    <2> QED  BY <1>1, <1>h, <2>1, CompleteTransferHoldsOn, CancelTransferHoldsOn
  <1> QED
    BY <1>4, <1>5, <1>6, <1>7, <1>9, <1>10, <1>11, <1>12, <1>13, <1>14 DEF UserNext

\* No callback of the engine forgets a living call.
LEMMA EngineForgetsNobody ==
    ASSUME Sound(core), EngineNext
    PROVE  HoldsOn(core, core')
  <1> DEFINE p == Now
  <1>1. Sound(p) /\ SameLine(core, p)
    BY NowSound
  <1>2. p.st = core.st /\ Legs(p) = Legs(core)
    BY <1>1 DEF SameLine, Legs
  <1> SUFFICES HoldsOn(p, core')
    BY <1>2 DEF HoldsOn
  <1>3. PICK c \in Calls :
            \/ CallArrives(c) \/ CallConnects(c) \/ MediaRuns(c) \/ IdentityChanges(c)
            \/ CallFails(c) \/ CallIsReleased(c)
            \/ \E elsewhere \in BOOLEAN : CallEnds(c, elsewhere)
    BY DEF EngineNext
  <1> HIDE DEF p
  <1>4. CASE CallArrives(c)
    BY <1>1, <1>2, <1>4, IncomingHoldsOn DEF CallArrives, Step, p
  <1>5. CASE CallConnects(c) \/ MediaRuns(c) \/ IdentityChanges(c)
    <2>1. core' \in {Connected(p, c), StreamsRunning(p, c), PublishRemoteParty(p, c)}
      BY <1>5 DEF CallConnects, MediaRuns, IdentityChanges, Step, p
    <2> QED  BY <1>1, <2>1, MediaHoldsOn
  <1>6. CASE CallFails(c) \/ CallIsReleased(c) \/ \E elsewhere \in BOOLEAN : CallEnds(c, elsewhere)
    <2>1. \E elsewhere \in BOOLEAN : core' \in {Failed(p, c), Released(p, c), Ended(p, c, elsewhere)}
      BY <1>6 DEF CallFails, CallIsReleased, CallEnds, Step, p
    <2> QED  BY <1>1, <2>1, GoneEventsHoldOn
  <1> QED  BY <1>3, <1>4, <1>5, <1>6

\* A call somebody is still on keeps a pointer through every operation and callback, but for two
\* operations: startConference() with a consultation leaves out the parked call, and
\* beginAttendedTransfer() leaves out an earlier consultation.
THEOREM LivingCallsKeepTheirPlace == CoreSpec => NobodyForgotten
  <1> DEFINE Stays == \A c \in Legs(core) :
                          core'.st[c] \in LiveStates /\ c \notin Legs(core') =>
                              ForgetsParked(c) \/ ForgetsConsultation(c)
  <1>1. ASSUME Sound(core), [CoreNext]_core PROVE [Stays]_core
    <2>1. CASE UserNext
      BY <1>1, <2>1, UserForgetsNobody
    <2>2. CASE EngineNext
      BY <1>1, <2>2, EngineForgetsNobody DEF HoldsOn
    <2> QED  BY <1>1, <2>1, <2>2 DEF CoreNext
  <1> HIDE DEF Stays
  <1>2. CoreSpec => [][Stays]_core
    BY <1>1, CoreSound, PTL DEF CoreSpec
  <1> QED  BY <1>2 DEF NobodyForgotten, Stays

===============================================================================

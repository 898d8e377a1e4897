---------------------------- MODULE Softphone_proofs ----------------------------
(***************************************************************************)
(* The window on top of the core, proved for every set of calls.           *)
(*                                                                         *)
(* The window moves in the slots of the signals an operation emits, while  *)
(* the core is still moving, so what the window shows and what the line is *)
(* agree only when the operation and its slots are over.  The proof        *)
(* follows the emits: Delivered(u, p) is the window once the slots of all  *)
(* p has emitted so far have run, each block of the core is shown to leave *)
(* a window that fits (Fits), and each button what its handler does around *)
(* the operation.  WindowFits is the inductive invariant.                  *)
(***************************************************************************)
EXTENDS Softphone, CallControl_proofs, WellFoundedInduction

-------------------------------------------------------------------------------
(* The queue of signals, delivered one slot after the other. *)

\* g is the fold Deliver is made of: over every set of positions of q, the highest one last.
Folding(g, u, q, n) ==
    g = [s \in SUBSET (1 .. n) |-> IF s = {} THEN u ELSE Slot(g[s \ {Max(s)}], q[Max(s)])]

\* Delivering signals is a fold over the whole queue: the slots run in the order of the emits.
LEMMA DeliverIs ==
    ASSUME NEW u, NEW q \in Seq(Signals)
    PROVE  Deliver(u, q) = (CHOOSE g : Folding(g, u, q, Len(q)))[1 .. Len(q)]
  <1>1. DOMAIN q = 1 .. Len(q)
    OBVIOUS
  <1> QED
    BY <1>1, Zenon DEF Deliver, FoldLeft, MapThenFoldSet, Folding

\* The greatest element of a set of positions is the one no other exceeds.
LEMMA MaxIs ==
    ASSUME NEW s, NEW m \in s, s \subseteq Nat, \A k \in s : k <= m
    PROVE  Max(s) = m
  <1>1. \A k \in s : m >= k
    OBVIOUS
  <1>2. Max(s) \in s /\ \A y \in s : Max(s) >= y
    BY <1>1, Zenon DEF Max
  <1> DEFINE x == Max(s)
  <1>3. x \in Nat /\ m \in Nat /\ x <= m /\ m <= x
    <2>1. x \in s /\ x >= m
      BY <1>2
    <2> HIDE DEF x
    <2>2. x \in Nat /\ m \in Nat /\ x <= m
      BY <2>1
    <2> QED  BY <2>1, <2>2
  <1> HIDE DEF x
  <1>4. x = m
    BY <1>3
  <1> QED  BY <1>4 DEF x

\* Every set of naturals has a least element; what is proved by induction below is proved from
\* it.
LEMMA Least ==
    ASSUME NEW T, T \subseteq Nat, T # {}
    PROVE \E x \in T : \A y \in T : x <= y
  <1> DEFINE R == {p \in Nat \X Nat : p[1] < p[2]}
  <1>0. R = OpToRel(<, Nat)
    BY DEF OpToRel
  <1>1. IsWellFoundedOn(R, Nat)
    BY NatLessThanWellFounded, <1>0
  <1>2. PICK x \in T : \A y \in T : <<y, x>> \notin R
    BY <1>1, WFMin
  <1>3. \A y \in T : x <= y
    <2> TAKE y \in T
    <2>1. x \in Nat /\ y \in Nat /\ <<y, x>> \notin R
      BY <1>2
    <2> QED BY <2>1
  <1>4. QED BY <1>3

\* A set of positions has a last one, and without it all the others come before.
LEMMA MaxExists ==
    ASSUME NEW n \in Nat, NEW s \in SUBSET (1 .. n), s # {}
    PROVE  /\ Max(s) \in s /\ \A k \in s : k <= Max(s)
           /\ s \ {Max(s)} \in SUBSET (1 .. (Max(s) - 1))
  <1> DEFINE T == {k \in Nat : \A j \in s : j <= k}
  <1>1. T \subseteq Nat /\ n \in T
    OBVIOUS
  <1>2. PICK m \in T : \A k \in T : m <= k
    BY <1>1, Least
  <1>3. m \in s
    <2> SUFFICES ASSUME m \notin s PROVE FALSE
      OBVIOUS
    <2>1. m \in Nat /\ \A j \in s : j \in Nat /\ j <= m /\ j # m /\ j >= 1
      BY <1>2
    <2>2. PICK i : i \in s
      OBVIOUS
    <2>3. m - 1 \in Nat /\ \A j \in s : j <= m - 1
      BY <2>1, <2>2
    <2>4. m - 1 \in T
      BY <2>3
    <2>5. m <= m - 1
      BY <1>2, <2>4
    <2> QED  BY <2>1, <2>5
  <1>4. s \subseteq Nat /\ \A j \in s : j <= m
    OBVIOUS
  <1>5. Max(s) = m
    BY <1>3, <1>4, MaxIs
  <1>6. s \ {m} \in SUBSET (1 .. (m - 1))
    BY <1>4
  <1> QED  BY <1>3, <1>4, <1>5, <1>6

\* q and r hold the same first n signals.
Agree(q, r, n) == \A i \in 1 .. n : q[i] = r[i]

\* Two deliveries agree on every signal the queues have in common, however long the queues are.
LEMMA FoldingUnique ==
    ASSUME NEW u, NEW q, NEW r, NEW n \in Nat, NEW m \in Nat, NEW g, NEW h,
           n <= m, Folding(g, u, q, n), Folding(h, u, r, m), Agree(q, r, n)
    PROVE  \A s \in SUBSET (1 .. n) : g[s] = h[s]
  <1> DEFINE T == {k \in 0 .. n : \E s \in SUBSET (1 .. k) : g[s] # h[s]}
  <1>1. SUFFICES ASSUME T # {} PROVE FALSE
    <2>1. n \notin T
      BY <1>1
    <2> QED  BY <2>1
  <1>a. T \subseteq Nat
    OBVIOUS
  <1> HIDE DEF T
  <1>2. PICK k \in T : \A j \in T : k <= j
    BY <1>1, <1>a, Least
  <1> USE DEF T
  <1>3. PICK s \in SUBSET (1 .. k) : g[s] # h[s]
    OBVIOUS
  <1>4. s \in SUBSET (1 .. n) /\ s \in SUBSET (1 .. m)
    OBVIOUS
  <1>5. g[s] = IF s = {} THEN u ELSE Slot(g[s \ {Max(s)}], q[Max(s)])
    BY <1>4 DEF Folding
  <1>6. h[s] = IF s = {} THEN u ELSE Slot(h[s \ {Max(s)}], r[Max(s)])
    BY <1>4 DEF Folding
  <1>7. s # {}
    BY <1>3, <1>5, <1>6
  <1>8. Max(s) \in 1 .. k /\ s \ {Max(s)} \in SUBSET (1 .. (Max(s) - 1))
    <2>1. k \in Nat
      OBVIOUS
    <2>2. Max(s) \in s /\ s \ {Max(s)} \in SUBSET (1 .. (Max(s) - 1))
      BY <1>7, <2>1, MaxExists
    <2> QED  BY <2>2
  <1>9. Max(s) - 1 \in 0 .. n /\ Max(s) - 1 < k
    BY <1>8
  <1>10. g[s \ {Max(s)}] = h[s \ {Max(s)}]
    BY <1>2, <1>8, <1>9
  <1>11. q[Max(s)] = r[Max(s)]
    BY <1>8 DEF Agree
  <1>12. QED
    BY <1>3, <1>5, <1>6, <1>7, <1>10, <1>11

\* A queue of any length can be delivered: the slots always leave a window.
LEMMA FoldingExists ==
    ASSUME NEW u, NEW q, NEW n \in Nat
    PROVE  \E g : Folding(g, u, q, n)
  <1> DEFINE T == {k \in Nat : ~ \E g : Folding(g, u, q, k)}
  <1>1. SUFFICES ASSUME T # {} PROVE FALSE
    OBVIOUS
  <1>2. PICK k \in T : \A j \in T : k <= j
    BY <1>1, Least
  <1>3. k # 0
    <2> DEFINE e == [s \in SUBSET (1 .. 0) |-> u]
    <2>1. \A s \in SUBSET (1 .. 0) : s = {}
      OBVIOUS
    <2>2. Folding(e, u, q, 0)
      BY <2>1 DEF Folding
    <2> QED  BY <2>2
  <1>4. k - 1 \in Nat /\ k - 1 \notin T
    BY <1>2, <1>3
  <1>5. PICK g : Folding(g, u, q, k - 1)
    BY <1>4
  <1> DEFINE h == [s \in SUBSET (1 .. k) |->
                      IF k \in s THEN Slot(g[s \ {k}], q[k]) ELSE g[s]]
  <1>6. ASSUME NEW s \in SUBSET (1 .. k)
        PROVE  h[s] = IF s = {} THEN u ELSE Slot(h[s \ {Max(s)}], q[Max(s)])
    <2>1. CASE k \in s
      <3>0. s \subseteq Nat /\ \A j \in s : j <= k
        BY <1>4
      <3>1. Max(s) = k
        BY <2>1, <3>0, MaxIs
      <3>2. h[s \ {k}] = g[s \ {k}]
        OBVIOUS
      <3> QED  BY <2>1, <3>1, <3>2
    <2>2. CASE k \notin s
      <3>1. s \in SUBSET (1 .. (k - 1)) /\ h[s] = g[s]
        BY <1>4, <2>2
      <3>2. g[s] = IF s = {} THEN u ELSE Slot(g[s \ {Max(s)}], q[Max(s)])
        BY <1>5, <3>1 DEF Folding
      <3>3. h[s \ {Max(s)}] = g[s \ {Max(s)}]
        BY <2>2
      <3> QED  BY <3>1, <3>2, <3>3
    <2> QED  BY <2>1, <2>2
  <1>7. Folding(h, u, q, k)
    BY <1>6, Zenon DEF Folding
  <1> QED  BY <1>7

\* An operation that emits nothing leaves the window alone.
LEMMA DeliverEmpty ==
    ASSUME NEW u
    PROVE  Deliver(u, << >>) = u
  <1> DEFINE none == << >>
             g == CHOOSE g : Folding(g, u, none, Len(none))
  <1>1. none \in Seq(Signals) /\ Len(none) = 0 /\ 1 .. Len(none) = {}
    OBVIOUS
  <1>2. \E f : Folding(f, u, none, Len(none))
    BY <1>1, FoldingExists
  <1>3. Folding(g, u, none, Len(none))
    BY <1>2
  <1>4. Deliver(u, none) = g[1 .. Len(none)]
    BY <1>1, DeliverIs
  <1> HIDE DEF g, none
  <1>5. g[1 .. Len(none)] = u
    BY <1>1, <1>3 DEF Folding
  <1> QED  BY <1>4, <1>5 DEF none

\* Emitting once more runs one more slot, after those of the signals emitted before.
LEMMA DeliverAppend ==
    ASSUME NEW u, NEW q \in Seq(Signals), NEW s \in Signals
    PROVE  Deliver(u, Append(q, s)) = Slot(Deliver(u, q), s)
  <1> DEFINE n == Len(q)
             r == Append(q, s)
             g == CHOOSE g : Folding(g, u, q, n)
             h == CHOOSE h : Folding(h, u, r, Len(r))
  <1>1. n \in Nat /\ r \in Seq(Signals) /\ Len(r) = n + 1 /\ r[n + 1] = s /\ \A i \in 1 .. n : q[i] = r[i]
    OBVIOUS
  <1>2. Folding(g, u, q, n)
    <2>1. \E f : Folding(f, u, q, n)
      BY <1>1, FoldingExists
    <2> QED  BY <2>1
  <1>3. Folding(h, u, r, Len(r))
    <2>0. Len(r) \in Nat
      BY <1>1
    <2>1. \E f : Folding(f, u, r, Len(r))
      BY <2>0, FoldingExists
    <2> QED  BY <2>1
  <1>4. Deliver(u, q) = g[1 .. n]
    BY DeliverIs
  <1>5. Deliver(u, r) = h[1 .. Len(r)]
    BY <1>1, DeliverIs
  <1> HIDE DEF n, r, g, h
  <1>6. Folding(h, u, r, n + 1) /\ Deliver(u, r) = h[1 .. (n + 1)]
    BY <1>1, <1>3, <1>5
  <1>7. g[1 .. n] = h[1 .. n]
    <2>1. n + 1 \in Nat /\ n <= n + 1 /\ 1 .. n \in SUBSET (1 .. n)
      BY <1>1
    <2>2. Agree(q, r, n)
      BY <1>1 DEF Agree
    <2>3. PICK m \in Nat : m = n + 1
      BY <2>1
    <2>4. n \in Nat /\ n <= m /\ Folding(h, u, r, m)
      BY <1>1, <1>6, <2>1, <2>3
    <2>5. \A d \in SUBSET (1 .. n) : g[d] = h[d]
      BY <1>2, <2>2, <2>4, FoldingUnique
    <2> QED  BY <2>1, <2>5
  <1>8. /\ Max(1 .. (n + 1)) = n + 1 /\ (1 .. (n + 1)) \ {n + 1} = 1 .. n
        /\ 1 .. (n + 1) # {} /\ 1 .. (n + 1) \in SUBSET (1 .. (n + 1))
    <2>1. n + 1 \in 1 .. (n + 1) /\ 1 .. (n + 1) \subseteq Nat /\ \A k \in 1 .. (n + 1) : k <= n + 1
      BY <1>1
    <2>2. Max(1 .. (n + 1)) = n + 1
      BY <2>1, MaxIs
    <2>3. (1 .. (n + 1)) \ {n + 1} = 1 .. n
      BY <1>1
    <2> QED  BY <2>1, <2>2, <2>3
  <1>9. h[1 .. (n + 1)] = Slot(h[1 .. n], r[n + 1])
    BY <1>6, <1>8, Zenon DEF Folding
  <1> QED  BY <1>1, <1>4, <1>6, <1>7, <1>9 DEF r

-------------------------------------------------------------------------------
(* The slots, and the signals that run them. *)

\* The window u once the slots of all p has emitted so far have run.
Delivered(u, p) == Deliver(u, p.sig)

\* The history got a record under the number a in this step.
Logged(w, a) == \E i \in DOMAIN w.log : w.log[i].peer = a

\* The slot or handler takes window w to v: the screen, the numbers on its lines, and a history
\* that never loses a record of this step.
Becomes(w, v, state, peer, heldPeer, waitingPeer) ==
    /\ v \in UiStates
    /\ v.state = state /\ v.peer = peer /\ v.heldPeer = heldPeer /\ v.waitingPeer = waitingPeer
    /\ v.menu = w.menu
    /\ \A a : Logged(w, a) => Logged(v, a)

\* One more record in the history is there under its number, beside all the others.
LEMMA AppendLogs ==
    ASSUME NEW w \in UiStates, NEW r \in Records, NEW v, v.log = Append(w.log, r)
    PROVE  v.log \in Seq(Records) /\ Logged(v, r.peer) /\ \A a : Logged(w, a) => Logged(v, a)
  <1> DEFINE old == w.log
             new == Append(old, r)
  <1>1. old \in Seq(Records)
    BY DEF UiStates
  <1> HIDE DEF old
  <1>2. /\ new \in Seq(Records) /\ Len(old) \in Nat /\ Len(new) = Len(old) + 1
        /\ \A i \in 1 .. Len(old) : new[i] = old[i]
        /\ new[Len(old) + 1] = r
        /\ DOMAIN old = 1 .. Len(old) /\ DOMAIN new = 1 .. Len(new)
    BY <1>1
  <1>3. v.log = new
    BY DEF old
  <1> HIDE DEF new
  <1>4. Logged(v, r.peer)
    <2>1. Len(old) + 1 \in DOMAIN new
      BY <1>2
    <2> QED  BY <1>2, <1>3, <2>1 DEF Logged
  <1>5. ASSUME NEW a, Logged(w, a) PROVE Logged(v, a)
    <2>1. PICK i \in DOMAIN old : old[i].peer = a
      BY <1>5 DEF Logged, old
    <2>2. i \in DOMAIN new /\ new[i] = old[i]
      BY <1>2, <2>1
    <2> QED  BY <1>3, <2>1, <2>2 DEF Logged
  <1> QED  BY <1>2, <1>3, <1>4, <1>5

\* applyUiCallState() changes the screen and none of the numbers, and writes no history.
LEMMA ApplyIs ==
    ASSUME NEW w \in UiStates, NEW state \in UiCallStates, NEW can \in BOOLEAN
    PROVE  LET v == Apply(w, state, can)
           IN  v.log = w.log /\ Becomes(w, v, state, w.peer, w.heldPeer, w.waitingPeer)
  BY DEF Apply, UiStates, Becomes, Logged

\* recordCallInHistory() logs the call whose number the window has, and forgets that number
\* only.
LEMMA RecordIs ==
    ASSUME NEW w \in UiStates, NEW elsewhere \in BOOLEAN
    PROVE  LET v == RecordCallInHistory(w, elsewhere)
           IN  /\ Becomes(w, v, w.state, NoCall, w.heldPeer, w.waitingPeer)
               /\ w.peer # NoCall => Logged(v, w.peer)
  <1> DEFINE record == [peer |-> w.peer, incoming |-> w.incoming, answered |-> w.answered,
                        note |-> RecordNote(w, elsewhere)]
             v == [w EXCEPT !.log = Append(@, record), !.peer = NoCall, !.connected = NoCall,
                       !.answered = FALSE]
  <1>1. CASE w.peer = NoCall
    BY <1>1 DEF RecordCallInHistory, Becomes
  <1>2. CASE w.peer # NoCall
    <2>1. record \in Records /\ record.peer = w.peer
      BY DEF Records, RecordNote, Notes, UiStates
    <2>2. /\ w.log \in Seq(Records) /\ NoCall \in CallOrNone /\ NoCall \in Numbers
      BY DEF UiStates, Numbers, CallOrNone
    <2> HIDE DEF record
    <2>a. v.log = Append(w.log, record)
      BY DEF UiStates
    <2>3. /\ v.log \in Seq(Records) /\ Logged(v, w.peer)
          /\ \A a : Logged(w, a) => Logged(v, a)
      <3> HIDE DEF v
      <3> QED  BY <2>1, <2>a, AppendLogs
    <2>4. /\ v \in UiStates /\ v.state = w.state /\ v.peer = NoCall
          /\ v.heldPeer = w.heldPeer /\ v.waitingPeer = w.waitingPeer /\ v.menu = w.menu
      BY <2>2, <2>3 DEF UiStates
    <2>5. RecordCallInHistory(w, elsewhere) = v
      BY <1>2 DEF RecordCallInHistory, record
    <2> HIDE DEF v
    <2> QED  BY <2>3, <2>4, <2>5 DEF Becomes
  <1> QED  BY <1>1, <1>2

\* The slots of an identity, an answer, a consultation or an automatic refusal keep the screen
\* and the numbers.
LEMMA QuietSlots ==
    ASSUME NEW w \in UiStates, NEW s \in Signals
    PROVE  /\ Becomes(w, OnRemotePartyChanged(w, s), w.state, w.peer, w.heldPeer, w.waitingPeer)
           /\ Becomes(w, OnCallConnected(w), w.state, w.peer, w.heldPeer, w.waitingPeer)
           /\ Becomes(w, OnConsultationConnected(w, s), w.state, w.peer, w.heldPeer, w.waitingPeer)
           /\ Becomes(w, OnCallAutoHandled(w, s), w.state, w.peer, w.heldPeer, w.waitingPeer)
           /\ Becomes(w, w, w.state, w.peer, w.heldPeer, w.waitingPeer)
  <1>1. Becomes(w, OnRemotePartyChanged(w, s), w.state, w.peer, w.heldPeer, w.waitingPeer)
    BY DEF UiStates, Signals, Becomes, OnRemotePartyChanged, Logged
  <1>2. Becomes(w, OnCallConnected(w), w.state, w.peer, w.heldPeer, w.waitingPeer)
    BY DEF UiStates, Becomes, OnCallConnected, Logged
  <1>3. Becomes(w, OnConsultationConnected(w, s), w.state, w.peer, w.heldPeer, w.waitingPeer)
    <2>1. w.state \in UiCallStates /\ s.conf \in BOOLEAN
      BY DEF UiStates, Signals
    <2> QED  BY <2>1, ApplyIs DEF OnConsultationConnected
  <1>4. Becomes(w, OnCallAutoHandled(w, s), w.state, w.peer, w.heldPeer, w.waitingPeer)
    <2> DEFINE r == [peer |-> s.who, incoming |-> TRUE, answered |-> FALSE, note |-> "autoHandled"]
    <2>1. r \in Records /\ w.log \in Seq(Records)
      BY DEF Records, Signals, Numbers, Notes, UiStates
    <2> HIDE DEF r
    <2> DEFINE v == [w EXCEPT !.log = Append(w.log, r)]
    <2>2. v.log = Append(w.log, r)
      BY DEF UiStates
    <2>3. v.log \in Seq(Records) /\ \A a : Logged(w, a) => Logged(v, a)
      <3> HIDE DEF v
      <3> QED  BY <2>1, <2>2, AppendLogs
    <2>4. OnCallAutoHandled(w, s) = v
      BY DEF OnCallAutoHandled, UiStates, r
    <2>5. /\ v \in UiStates /\ v.state = w.state /\ v.peer = w.peer /\ v.heldPeer = w.heldPeer
          /\ v.waitingPeer = w.waitingPeer /\ v.menu = w.menu
      BY <2>2, <2>3 DEF UiStates
    <2> HIDE DEF v
    <2> QED  BY <2>3, <2>4, <2>5 DEF Becomes
  <1>5. Becomes(w, w, w.state, w.peer, w.heldPeer, w.waitingPeer)
    BY DEF Becomes
  <1> QED  BY <1>1, <1>2, <1>3, <1>4, <1>5

\* A slot that assigns numbers and then shows a screen has both.
LEMMA Touched ==
    ASSUME NEW w \in UiStates, NEW peer \in Numbers, NEW heldPeer \in Numbers,
           NEW waitingPeer \in CallOrNone,
           NEW v \in UiStates, Becomes(w, v, w.state, peer, heldPeer, waitingPeer),
           NEW state \in UiCallStates, NEW can \in BOOLEAN
    PROVE  Becomes(w, Apply(v, state, can), state, peer, heldPeer, waitingPeer)
  BY ApplyIs DEF Becomes

\* Each slot that moves the screen: the screen it moves to, and whose number is on each line
\* then.
LEMMA LineSlots ==
    ASSUME NEW w \in UiStates, NEW s \in Signals
    PROVE  /\ Becomes(w, OnIncomingCall(w, s), "Incoming", s.who, w.heldPeer, w.waitingPeer)
           /\ Becomes(w, OnCallEnded(w, s), "Idle", NoCall, w.heldPeer, w.waitingPeer)
           /\ w.peer # NoCall => Logged(OnCallEnded(w, s), w.peer)
           /\ Becomes(w, OnCallWaiting(w, s), "CallWaiting", w.peer, w.heldPeer, s.who)
           /\ Becomes(w, OnWaitingCallEnded(w, s),
                      CASE w.state = "CallWaiting" /\ s.held -> "TwoCalls"
                        [] w.state = "CallWaiting" /\ ~s.held -> "Active"
                        [] OTHER -> w.state,
                      w.peer, w.heldPeer, NoCall)
           /\ Becomes(w, OnHeldCallEnded(w, s), IF w.state = "TwoCalls" THEN "Active" ELSE w.state,
                      w.peer, NoCall, w.waitingPeer)
           /\ Becomes(w, OnHeldCallPromoted(w, s), "Active", w.heldPeer, NoCall, w.waitingPeer)
           /\ Becomes(w, OnConferenceStarted(w, s), "Conference", w.peer, NoCall, w.waitingPeer)
           /\ Becomes(w, OnConferenceEnded(w, s), "Active", w.peer, w.heldPeer, w.waitingPeer)
  <1>0. /\ s.who \in CallOrNone /\ s.who \in Numbers /\ s.held \in BOOLEAN /\ s.conf \in BOOLEAN
        /\ s.note \in BOOLEAN
        /\ w.state \in UiCallStates /\ w.peer \in Numbers /\ w.heldPeer \in Numbers
        /\ w.waitingPeer \in CallOrNone /\ NoCall \in CallOrNone /\ NoCall \in Numbers
        /\ {"Incoming", "Idle", "CallWaiting", "TwoCalls", "Active", "Conference"} \subseteq UiCallStates
    BY DEF Signals, UiStates, Numbers, CallOrNone, UiCallStates
  <1>1. Becomes(w, OnIncomingCall(w, s), "Incoming", s.who, w.heldPeer, w.waitingPeer)
    <2> DEFINE v == [w EXCEPT !.peer = s.who, !.incoming = TRUE, !.answered = FALSE]
    <2>1. v \in UiStates /\ Becomes(w, v, w.state, s.who, w.heldPeer, w.waitingPeer)
      BY <1>0 DEF UiStates, Becomes, Logged
    <2> HIDE DEF v
    <2> QED  BY <1>0, <2>1, Touched DEF OnIncomingCall, v
  <1>2. /\ Becomes(w, OnCallEnded(w, s), "Idle", NoCall, w.heldPeer, w.waitingPeer)
        /\ w.peer # NoCall => Logged(OnCallEnded(w, s), w.peer)
    <2> DEFINE v == RecordCallInHistory(w, s.note)
    <2>1. /\ v \in UiStates /\ Becomes(w, v, w.state, NoCall, w.heldPeer, w.waitingPeer)
          /\ w.peer # NoCall => Logged(v, w.peer)
      BY <1>0, RecordIs DEF Becomes
    <2>2. OnCallEnded(w, s) = Apply(v, "Idle", s.conf)
      BY DEF OnCallEnded
    <2> HIDE DEF v
    <2>3. Becomes(w, Apply(v, "Idle", s.conf), "Idle", NoCall, w.heldPeer, w.waitingPeer)
      BY <1>0, <2>1, Touched
    <2>4. Apply(v, "Idle", s.conf).log = v.log
      BY <1>0, <2>1, ApplyIs
    <2> QED  BY <2>1, <2>2, <2>3, <2>4 DEF Logged
  <1>3. Becomes(w, OnCallWaiting(w, s), "CallWaiting", w.peer, w.heldPeer, s.who)
    <2> DEFINE v == [w EXCEPT !.waitingPeer = s.who]
    <2>1. v \in UiStates /\ Becomes(w, v, w.state, w.peer, w.heldPeer, s.who)
      BY <1>0 DEF UiStates, Becomes, Logged
    <2> HIDE DEF v
    <2> QED  BY <1>0, <2>1, Touched DEF OnCallWaiting, v
  <1>4. Becomes(w, OnWaitingCallEnded(w, s),
                CASE w.state = "CallWaiting" /\ s.held -> "TwoCalls"
                  [] w.state = "CallWaiting" /\ ~s.held -> "Active"
                  [] OTHER -> w.state,
                w.peer, w.heldPeer, NoCall)
    <2> DEFINE v == [w EXCEPT !.waitingPeer = NoCall]
    <2>1. v \in UiStates /\ Becomes(w, v, w.state, w.peer, w.heldPeer, NoCall)
      BY <1>0 DEF UiStates, Becomes, Logged
    <2>2. OnWaitingCallEnded(w, s) =
             IF w.state = "CallWaiting"
             THEN Apply(v, IF s.held THEN "TwoCalls" ELSE "Active", s.conf) ELSE v
      BY DEF OnWaitingCallEnded
    <2> HIDE DEF v
    <2>3. \A state \in UiCallStates : Becomes(w, Apply(v, state, s.conf), state, w.peer, w.heldPeer, NoCall)
      BY <1>0, <2>1, Touched
    <2>4. CASE w.state = "CallWaiting" /\ s.held
      BY <1>0, <2>2, <2>3, <2>4
    <2>5. CASE w.state = "CallWaiting" /\ ~s.held
      BY <1>0, <2>2, <2>3, <2>5
    <2>6. CASE w.state # "CallWaiting"
      BY <2>1, <2>2, <2>6
    <2> QED  BY <2>4, <2>5, <2>6
  <1>5. Becomes(w, OnHeldCallEnded(w, s), IF w.state = "TwoCalls" THEN "Active" ELSE w.state,
                w.peer, NoCall, w.waitingPeer)
    <2> DEFINE v == [w EXCEPT !.heldPeer = NoCall]
    <2>1. v \in UiStates /\ Becomes(w, v, w.state, w.peer, NoCall, w.waitingPeer)
      BY <1>0 DEF UiStates, Becomes, Logged
    <2>2. OnHeldCallEnded(w, s) = IF w.state = "TwoCalls" THEN Apply(v, "Active", s.conf) ELSE v
      BY DEF OnHeldCallEnded
    <2> HIDE DEF v
    <2>3. Becomes(w, Apply(v, "Active", s.conf), "Active", w.peer, NoCall, w.waitingPeer)
      BY <1>0, <2>1, Touched
    <2> QED  BY <2>1, <2>2, <2>3
  <1>6. Becomes(w, OnHeldCallPromoted(w, s), "Active", w.heldPeer, NoCall, w.waitingPeer)
    <2> DEFINE v == [w EXCEPT !.peer = w.heldPeer, !.connected = NoCall, !.heldPeer = NoCall]
    <2>1. v \in UiStates /\ Becomes(w, v, w.state, w.heldPeer, NoCall, w.waitingPeer)
      BY <1>0 DEF UiStates, Becomes, Logged
    <2> HIDE DEF v
    <2> QED  BY <1>0, <2>1, Touched DEF OnHeldCallPromoted, v
  <1>7. Becomes(w, OnConferenceStarted(w, s), "Conference", w.peer, NoCall, w.waitingPeer)
    <2> DEFINE v == [w EXCEPT !.heldPeer = NoCall, !.holdButton = FALSE]
    <2>1. v \in UiStates /\ Becomes(w, v, w.state, w.peer, NoCall, w.waitingPeer)
      BY <1>0 DEF UiStates, Becomes, Logged
    <2> HIDE DEF v
    <2> QED  BY <1>0, <2>1, Touched DEF OnConferenceStarted, v
  <1>8. Becomes(w, OnConferenceEnded(w, s), "Active", w.peer, w.heldPeer, w.waitingPeer)
    BY <1>0, ApplyIs DEF OnConferenceEnded
  <1> QED  BY <1>1, <1>2, <1>3, <1>4, <1>5, <1>6, <1>7, <1>8

\* The window shows what it showed.
Same(w, v) == Becomes(w, v, w.state, w.peer, w.heldPeer, w.waitingPeer)

\* A signal reaches its slot with the party emitted and the parked call of the moment of the
\* emit.
LEMMA Notified ==
    ASSUME NEW u, NEW p \in CoreStates, NEW name \in SignalNames, NEW who \in CallOrNone
    PROVE  \E s \in Signals :
               /\ s.name = name /\ s.who = who /\ s.held = (p.held # NoCall)
               /\ Delivered(u, Emit(p, name, who)) = Slot(Delivered(u, p), s)
  <1> DEFINE s == [name |-> name, who |-> who, held |-> p.held # NoCall,
                   conf |-> CanStartConference(p), note |-> p.endNote]
  <1>1. CanStartConference(p) \in BOOLEAN /\ p.endNote \in BOOLEAN
    BY DEF CanStartConference, CoreStates
  <1>2. s \in Signals /\ s.name = name /\ s.who = who /\ s.held = (p.held # NoCall)
    BY <1>1 DEF Signals
  <1>3. Emit(p, name, who).sig = Append(p.sig, s) /\ p.sig \in Seq(Signals)
    BY DEF Emit, CoreStates
  <1> HIDE DEF s
  <1>4. Deliver(u, Append(p.sig, s)) = Slot(Deliver(u, p.sig), s)
    BY <1>2, <1>3, DeliverAppend
  <1> QED  BY <1>2, <1>3, <1>4 DEF Delivered

\* Emitting one of the signals whose slots keep the screen changes nothing the invariant reads.
LEMMA QuietEmits ==
    ASSUME NEW u, NEW p \in CoreStates, Delivered(u, p) \in UiStates, NEW who \in CallOrNone,
           NEW name \in {"remotePartyChanged", "callConnected", "consultationCallConnected",
                         "callAutoHandled", "errorOccurred"}
    PROVE  Same(Delivered(u, p), Delivered(u, Emit(p, name, who)))
  <1> DEFINE w == Delivered(u, p)
  <1>1. name \in SignalNames
    BY DEF SignalNames
  <1>2. PICK s \in Signals : /\ s.name = name
                             /\ Delivered(u, Emit(p, name, who)) = Slot(w, s)
    BY <1>1, Notified
  <1>3. Slot(w, s) \in {OnRemotePartyChanged(w, s), OnCallConnected(w),
                        OnConsultationConnected(w, s), OnCallAutoHandled(w, s), w}
    BY <1>2 DEF Slot
  <1> HIDE DEF w
  <1> QED  BY <1>2, <1>3, QuietSlots DEF Same, w

\* Emitting one of the signals that move the screen: where the window is after it.
LEMMA LineEmits ==
    ASSUME NEW u, NEW p \in CoreStates, Delivered(u, p) \in UiStates, NEW who \in CallOrNone
    PROVE  LET w == Delivered(u, p)
               After(name) == Delivered(u, Emit(p, name, who))
           IN  /\ Becomes(w, After("incomingCall"), "Incoming", who, w.heldPeer, w.waitingPeer)
               /\ Becomes(w, After("callEnded"), "Idle", NoCall, w.heldPeer, w.waitingPeer)
               /\ w.peer # NoCall => Logged(After("callEnded"), w.peer)
               /\ Becomes(w, After("callWaiting"), "CallWaiting", w.peer, w.heldPeer, who)
               /\ Becomes(w, After("waitingCallEnded"),
                          CASE w.state = "CallWaiting" /\ p.held # NoCall -> "TwoCalls"
                            [] w.state = "CallWaiting" /\ ~(p.held # NoCall) -> "Active"
                            [] OTHER -> w.state,
                          w.peer, w.heldPeer, NoCall)
               /\ Becomes(w, After("heldCallEnded"),
                          IF w.state = "TwoCalls" THEN "Active" ELSE w.state,
                          w.peer, NoCall, w.waitingPeer)
               /\ Becomes(w, After("heldCallPromoted"), "Active", w.heldPeer, NoCall, w.waitingPeer)
               /\ Becomes(w, After("conferenceStarted"), "Conference", w.peer, NoCall, w.waitingPeer)
               /\ Becomes(w, After("conferenceEnded"), "Active", w.peer, w.heldPeer, w.waitingPeer)
  <1> DEFINE w == Delivered(u, p)
             After(name) == Delivered(u, Emit(p, name, who))
  <1>0. \A name \in SignalNames : \E s \in Signals :
            /\ s.name = name /\ s.who = who /\ s.held = (p.held # NoCall)
            /\ After(name) = Slot(w, s)
    BY Notified
  <1>w. w \in UiStates
    OBVIOUS
  <1> HIDE DEF w, After
  <1>1. Becomes(w, After("incomingCall"), "Incoming", who, w.heldPeer, w.waitingPeer)
    <2>1. PICK s \in Signals : s.name = "incomingCall" /\ s.who = who /\ After("incomingCall") = Slot(w, s)
      BY <1>0 DEF SignalNames
    <2>2. Slot(w, s) = OnIncomingCall(w, s)
      BY <2>1 DEF Slot
    <2> QED  BY <1>w, <2>1, <2>2, LineSlots
  <1>2. /\ Becomes(w, After("callEnded"), "Idle", NoCall, w.heldPeer, w.waitingPeer)
        /\ w.peer # NoCall => Logged(After("callEnded"), w.peer)
    <2>1. PICK s \in Signals : s.name = "callEnded" /\ After("callEnded") = Slot(w, s)
      BY <1>0 DEF SignalNames
    <2>2. Slot(w, s) = OnCallEnded(w, s)
      BY <2>1 DEF Slot
    <2> QED  BY <1>w, <2>1, <2>2, LineSlots
  <1>3. Becomes(w, After("callWaiting"), "CallWaiting", w.peer, w.heldPeer, who)
    <2>1. PICK s \in Signals : s.name = "callWaiting" /\ s.who = who /\ After("callWaiting") = Slot(w, s)
      BY <1>0 DEF SignalNames
    <2>2. Slot(w, s) = OnCallWaiting(w, s)
      BY <2>1 DEF Slot
    <2> QED  BY <1>w, <2>1, <2>2, LineSlots
  <1>4. Becomes(w, After("waitingCallEnded"),
                CASE w.state = "CallWaiting" /\ p.held # NoCall -> "TwoCalls"
                  [] w.state = "CallWaiting" /\ ~(p.held # NoCall) -> "Active"
                  [] OTHER -> w.state,
                w.peer, w.heldPeer, NoCall)
    <2>1. PICK s \in Signals : /\ s.name = "waitingCallEnded" /\ s.held = (p.held # NoCall)
                               /\ After("waitingCallEnded") = Slot(w, s)
      BY <1>0 DEF SignalNames
    <2>2. Slot(w, s) = OnWaitingCallEnded(w, s)
      BY <2>1 DEF Slot
    <2>3. Becomes(w, OnWaitingCallEnded(w, s),
                  CASE w.state = "CallWaiting" /\ s.held -> "TwoCalls"
                    [] w.state = "CallWaiting" /\ ~s.held -> "Active"
                    [] OTHER -> w.state,
                  w.peer, w.heldPeer, NoCall)
      BY <1>w, LineSlots
    <2> QED  BY <2>1, <2>2, <2>3
  <1>5. Becomes(w, After("heldCallEnded"), IF w.state = "TwoCalls" THEN "Active" ELSE w.state,
                w.peer, NoCall, w.waitingPeer)
    <2>1. PICK s \in Signals : s.name = "heldCallEnded" /\ After("heldCallEnded") = Slot(w, s)
      BY <1>0 DEF SignalNames
    <2>2. Slot(w, s) = OnHeldCallEnded(w, s)
      BY <2>1 DEF Slot
    <2> QED  BY <1>w, <2>1, <2>2, LineSlots
  <1>6. Becomes(w, After("heldCallPromoted"), "Active", w.heldPeer, NoCall, w.waitingPeer)
    <2>1. PICK s \in Signals : s.name = "heldCallPromoted" /\ After("heldCallPromoted") = Slot(w, s)
      BY <1>0 DEF SignalNames
    <2>2. Slot(w, s) = OnHeldCallPromoted(w, s)
      BY <2>1 DEF Slot
    <2> QED  BY <1>w, <2>1, <2>2, LineSlots
  <1>7. Becomes(w, After("conferenceStarted"), "Conference", w.peer, NoCall, w.waitingPeer)
    <2>1. PICK s \in Signals : s.name = "conferenceStarted" /\ After("conferenceStarted") = Slot(w, s)
      BY <1>0 DEF SignalNames
    <2>2. Slot(w, s) = OnConferenceStarted(w, s)
      BY <2>1 DEF Slot
    <2> QED  BY <1>w, <2>1, <2>2, LineSlots
  <1>8. Becomes(w, After("conferenceEnded"), "Active", w.peer, w.heldPeer, w.waitingPeer)
    <2>1. PICK s \in Signals : s.name = "conferenceEnded" /\ After("conferenceEnded") = Slot(w, s)
      BY <1>0 DEF SignalNames
    <2>2. Slot(w, s) = OnConferenceEnded(w, s)
      BY <2>1 DEF Slot
    <2> QED  BY <1>w, <2>1, <2>2, LineSlots
  <1> QED  BY <1>1, <1>2, <1>3, <1>4, <1>5, <1>6, <1>7, <1>8 DEF w, After

\* publishRemoteParty() announces, and leaves the foreground call where it is.
LEMMA PublishLine ==
    ASSUME NEW p \in CoreStates, NEW c \in CallOrNone
    PROVE  PublishRemoteParty(p, c).active = p.active
  <1> DEFINE q == [p EXCEPT !.lastParty = c]
             e == Emit(q, "remotePartyChanged", c)
  <1>1. q \in CoreStates /\ q.active = p.active
    BY DEF CoreStates
  <1>2. PublishRemoteParty(p, c) \in {p, e}
    BY DEF PublishRemoteParty
  <1> HIDE DEF q
  <1>3. e.active = q.active
    BY <1>1, EmitKeeps DEF SignalNames, SameLine
  <1> HIDE DEF e
  <1> QED  BY <1>1, <1>2, <1>3

\* publishRemoteParty() moves no pointer and no screen.
LEMMA PublishQuiet ==
    ASSUME NEW u, NEW p \in CoreStates, Delivered(u, p) \in UiStates, NEW c \in CallOrNone
    PROVE  /\ PublishRemoteParty(p, c) \in CoreStates
           /\ Same(Delivered(u, p), Delivered(u, PublishRemoteParty(p, c)))
           /\ PublishRemoteParty(p, c).st = p.st /\ PublishRemoteParty(p, c).active = p.active
           /\ PublishRemoteParty(p, c).held = p.held /\ PublishRemoteParty(p, c).waiting = p.waiting
           /\ PublishRemoteParty(p, c).conference = p.conference
           /\ PublishRemoteParty(p, c).consultation = p.consultation
  <1> DEFINE q == [p EXCEPT !.lastParty = c]
             r == Emit(q, "remotePartyChanged", c)
  <1>1. /\ q \in CoreStates /\ q.sig = p.sig /\ q.st = p.st /\ q.active = p.active
        /\ q.held = p.held /\ q.waiting = p.waiting /\ q.conference = p.conference
        /\ q.consultation = p.consultation
    BY DEF CoreStates
  <1>2. PublishRemoteParty(p, c) \in {p, r}
    BY DEF PublishRemoteParty
  <1> HIDE DEF q
  <1>3. Delivered(u, q) = Delivered(u, p)
    BY <1>1 DEF Delivered
  <1>4. r \in CoreStates /\ SameLine(q, r)
    BY <1>1, EmitKeeps DEF SignalNames
  <1>5. Same(Delivered(u, p), Delivered(u, r))
    BY <1>1, <1>3, QuietEmits
  <1>6. Same(Delivered(u, p), Delivered(u, p))
    BY QuietSlots DEF Same, Becomes
  <1> HIDE DEF r
  <1> QED  BY <1>1, <1>2, <1>4, <1>5, <1>6 DEF SameLine

-------------------------------------------------------------------------------
(* The window fits the line: kept by every block of the core, with its slots. *)

\* The window w shows the situation of p, except that call c, being lost, need not ring any
\* more.
FitsBut(w, p, c) ==
    /\ w \in UiStates
    /\ w.state \in {"Idle", "ForwardDialing"} => p.active = NoCall
    /\ w.state = "Incoming" => /\ p.active # NoCall /\ w.peer = p.active
                               /\ p.active # c => p.st[p.active] = "incoming"
                               /\ p.held = NoCall /\ p.waiting = NoCall
    /\ w.state = "CallWaiting" => p.waiting # NoCall /\ w.waitingPeer = p.waiting
    /\ w.state = "TwoCalls" => p.held # NoCall
    /\ w.state = "Conference" <=> p.conference
    /\ p.active # NoCall => w.peer # NoCall
    /\ p.held # NoCall /\ ~p.conference => w.heldPeer # NoCall
    /\ w.menu # << >> /\ p.conference => w.menu = << p.active, p.held >>

\* The window shows the situation the line is in.
Fits(w, p) == FitsBut(w, p, NoCall)

\* From window w on line p to window v on line q: no record of the step is lost, and a
\* foreground call the window has the number of keeps it, or was logged under it, unless another
\* call took its place.
Follows(w, p, v, q) ==
    /\ \A a : Logged(w, a) => Logged(v, a)
    /\ p.active # NoCall /\ w.peer = p.active /\ q.active \in {p.active, NoCall} =>
          Logged(v, p.active) \/ (q.active = p.active /\ v.peer = p.active)

\* When the parked call takes the place of the foreground one, heldCallPromoted moves the
\* window along.
LEMMA PromoteFits ==
    ASSUME NEW u, NEW p, NEW c \in Calls, Losing(p, c), c = p.active, ~p.conference, p.held # NoCall,
           FitsBut(Delivered(u, p), p, c)
    PROVE  LET q == PromoteHeldCall([p EXCEPT !.active = NoCall, !.lastParty = NoCall])
           IN  Fits(Delivered(u, q), q) /\ Follows(Delivered(u, p), p, Delivered(u, q), q)
  <1> DEFINE o == [p EXCEPT !.active = NoCall, !.lastParty = NoCall]
             q == [o EXCEPT !.active = o.held, !.held = NoCall, !.lastParty = NoCall]
             r == Resume(q, o.held)
             e == Emit(r, "heldCallPromoted", NoCall)
             f == PublishRemoteParty(e, o.held)
             w == Delivered(u, p)
  <1>1. /\ o.held = p.held /\ p.held \in Calls /\ p.held # p.active /\ p.waiting = NoCall
        /\ q \in CoreStates /\ q.st = p.st /\ q.active = p.held
        /\ q.held = NoCall /\ q.waiting = NoCall /\ q.conference = FALSE /\ q.sig = p.sig
    BY NoCallAssumption DEF Losing, CoreStates, CallOrNone, LineShapeIn, LegsDistinctIn
  <1> HIDE DEF q, o
  <1>2. /\ r \in CoreStates /\ r.active = p.held
        /\ r.held = NoCall /\ r.waiting = NoCall /\ r.conference = FALSE /\ r.sig = p.sig
    <2>1. "connected" \in CallStates
      BY DEF CallStates
    <2> QED  BY <1>1, <2>1 DEF Resume, CoreStates
  <1> HIDE DEF r
  <1>3. e \in CoreStates /\ SameLine(r, e)
    BY <1>2, EmitKeeps DEF SignalNames, CallOrNone
  <1>4. w \in UiStates /\ Delivered(u, r) = w
    BY <1>2 DEF Delivered, FitsBut
  <1>5. Becomes(w, Delivered(u, e), "Active", w.heldPeer, NoCall, w.waitingPeer)
    BY <1>2, <1>4, LineEmits DEF CallOrNone
  <1> HIDE DEF e
  <1>6. /\ Same(Delivered(u, e), Delivered(u, f))
        /\ f.active = p.held /\ f.held = NoCall /\ f.waiting = NoCall /\ f.conference = FALSE
    BY <1>1, <1>2, <1>3, <1>5, PublishQuiet DEF Becomes, SameLine, CallOrNone
  <1>7. f = PromoteHeldCall(o)
    BY DEF PromoteHeldCall, f, e, r, q
  <1> HIDE DEF f, w
  <1>8. Becomes(w, Delivered(u, f), "Active", w.heldPeer, NoCall, w.waitingPeer)
    BY <1>5, <1>6 DEF Becomes, Same
  <1>9. w.heldPeer # NoCall
    BY DEF FitsBut, w
  <1>10. Fits(Delivered(u, f), f)
    BY <1>1, <1>6, <1>8, <1>9, NoCallAssumption DEF Fits, FitsBut, Becomes
  <1>11. Follows(w, p, Delivered(u, f), f)
    BY <1>1, <1>6, <1>8, NoCallAssumption DEF Follows, Becomes
  <1> QED  BY <1>7, <1>10, <1>11 DEF o, w

\* When the ringing call takes the place of the foreground one, waitingCallEnded and then
\* incomingCall leave the incoming screen.
LEMMA WaitingPromotedFits ==
    ASSUME NEW u, NEW p, NEW c \in Calls, Losing(p, c), c = p.active, ~p.conference, p.waiting # NoCall,
           FitsBut(Delivered(u, p), p, c)
    PROVE  LET q == WaitingBecomesIncoming([p EXCEPT !.active = NoCall, !.lastParty = NoCall])
           IN  Fits(Delivered(u, q), q) /\ Follows(Delivered(u, p), p, Delivered(u, q), q)
  <1> DEFINE o == [p EXCEPT !.active = NoCall, !.lastParty = NoCall]
             q == [o EXCEPT !.active = o.waiting, !.waiting = NoCall]
             e == Emit(q, "waitingCallEnded", NoCall)
             f == Emit(e, "incomingCall", o.waiting)
             w == Delivered(u, p)
             v == Delivered(u, e)
  <1>1. /\ o.waiting = p.waiting /\ p.waiting \in Calls /\ p.held = NoCall /\ p.waiting # c
        /\ q \in CoreStates /\ q.st = p.st /\ q.active = p.waiting
        /\ q.held = NoCall /\ q.waiting = NoCall /\ q.conference = FALSE /\ q.sig = p.sig
        /\ p.st[p.waiting] = "incoming"
    BY NoCallAssumption DEF Losing, CoreStates, CallOrNone, LineShapeIn, LegsDistinctIn
  <1> HIDE DEF q, o
  <1>2. w \in UiStates /\ Delivered(u, q) = w /\ NoCall \in CallOrNone
    BY <1>1 DEF Delivered, FitsBut, CallOrNone
  <1>3. e \in CoreStates /\ SameLine(q, e)
    BY <1>1, <1>2, EmitKeeps DEF SignalNames
  <1>4. v \in UiStates /\ v.menu = w.menu /\ \A a : Logged(w, a) => Logged(v, a)
    <2>1. \E state : Becomes(w, v, state, w.peer, w.heldPeer, NoCall)
      BY <1>1, <1>2, LineEmits
    <2> QED  BY <2>1 DEF Becomes
  <1> HIDE DEF e
  <1>5. /\ f \in CoreStates /\ SameLine(e, f)
        /\ Becomes(v, Delivered(u, f), "Incoming", o.waiting, v.heldPeer, v.waitingPeer)
    <2>1. o.waiting \in CallOrNone /\ "incomingCall" \in SignalNames
      BY <1>1 DEF CallOrNone, SignalNames
    <2>2. f \in CoreStates /\ SameLine(e, f)
      BY <1>3, <2>1, EmitKeeps
    <2>3. Becomes(v, Delivered(u, f), "Incoming", o.waiting, v.heldPeer, v.waitingPeer)
      BY <1>3, <1>4, <2>1, LineEmits
    <2> QED  BY <2>2, <2>3
  <1>6. f = WaitingBecomesIncoming(o)
    BY DEF WaitingBecomesIncoming, f, e, q
  <1> HIDE DEF f, w, v
  <1>7. /\ f.st = p.st /\ f.active = p.waiting /\ f.held = NoCall /\ f.waiting = NoCall
        /\ f.conference = FALSE
    BY <1>1, <1>3, <1>5 DEF SameLine
  <1>8. Fits(Delivered(u, f), f)
    BY <1>1, <1>5, <1>7, NoCallAssumption DEF Fits, FitsBut, Becomes
  <1>9. Follows(w, p, Delivered(u, f), f)
    BY <1>1, <1>4, <1>5, <1>7, NoCallAssumption DEF Follows, Becomes
  <1> QED  BY <1>6, <1>8, <1>9 DEF o, w

\* However the foreground call goes, the slots it runs leave a window that fits.
LEMMA ForegroundGoneFits ==
    ASSUME NEW u, NEW p, NEW c \in Calls, Losing(p, c), c = p.active, ~p.conference,
           FitsBut(Delivered(u, p), p, c)
    PROVE  LET q == ForegroundGone(p)
           IN  Fits(Delivered(u, q), q) /\ Follows(Delivered(u, p), p, Delivered(u, q), q)
  <1> DEFINE q == [p EXCEPT !.active = NoCall, !.lastParty = NoCall]
             e == Emit(q, "callEnded", NoCall)
             w == Delivered(u, p)
  <1>1. q.held = p.held /\ q.waiting = p.waiting
    BY DEF Losing, CoreStates
  <1>2. CASE p.held # NoCall
    BY <1>1, <1>2, PromoteFits DEF ForegroundGone
  <1>3. CASE p.held = NoCall /\ p.waiting # NoCall
    BY <1>1, <1>3, WaitingPromotedFits DEF ForegroundGone
  <1>4. CASE p.held = NoCall /\ p.waiting = NoCall
    <2>1. /\ q \in CoreStates /\ q.active = NoCall /\ q.held = NoCall /\ q.waiting = NoCall
          /\ q.conference = FALSE /\ q.sig = p.sig /\ NoCall \in CallOrNone
      BY <1>4 DEF Losing, CoreStates, CallOrNone
    <2>2. ForegroundGone(p) = e
      BY <1>1, <1>4 DEF ForegroundGone
    <2> HIDE DEF q
    <2>3. w \in UiStates /\ Delivered(u, q) = w /\ w.peer # NoCall
      BY <2>1, NoCallAssumption DEF Delivered, FitsBut
    <2>4. e \in CoreStates /\ SameLine(q, e)
      BY <2>1, EmitKeeps DEF SignalNames
    <2>5. /\ Becomes(w, Delivered(u, e), "Idle", NoCall, w.heldPeer, w.waitingPeer)
          /\ Logged(Delivered(u, e), w.peer)
      BY <2>1, <2>3, LineEmits
    <2> HIDE DEF e, w
    <2>6. e.active = NoCall /\ e.held = NoCall /\ e.waiting = NoCall /\ e.conference = FALSE
      BY <2>1, <2>4 DEF SameLine
    <2>7. Fits(Delivered(u, e), e)
      BY <2>5, <2>6 DEF Fits, FitsBut, Becomes
    <2>8. Follows(w, p, Delivered(u, e), e)
      BY <2>5 DEF Follows, Becomes
    <2> QED  BY <2>2, <2>7, <2>8 DEF w
  <1> QED  BY <1>2, <1>3, <1>4

\* A party leaving the conference leaves a plain call, or the idle screen and a record.
LEMMA ConferencePartyGoneFits ==
    ASSUME NEW u, NEW p, NEW c \in Calls, Losing(p, c), p.conference, c \in {p.active, p.held},
           FitsBut(Delivered(u, p), p, c)
    PROVE  LET q == ConferencePartyGone(p, c)
           IN  Fits(Delivered(u, q), q) /\ Follows(Delivered(u, p), p, Delivered(u, q), q)
  <1> DEFINE remaining == IF c = p.active THEN p.held ELSE p.active
             q == [p EXCEPT !.conference = FALSE, !.active = remaining,
                            !.held = NoCall, !.lastParty = NoCall]
             e == Emit(q, "conferenceEnded", NoCall)
             f == PublishRemoteParty(e, remaining)
             w == Delivered(u, p)
  <1>1. remaining \in Calls /\ p.waiting = NoCall
    BY NoCallAssumption DEF Losing, CoreStates, CallOrNone, LineShapeIn
  <1>2. ConferencePartyGone(p, c) = f
    BY <1>1, NoCallAssumption DEF ConferencePartyGone
  <1> HIDE DEF remaining
  <1>3. /\ q \in CoreStates /\ q.active = remaining /\ q.held = NoCall /\ q.waiting = NoCall
        /\ q.conference = FALSE /\ q.sig = p.sig
        /\ NoCall \in CallOrNone /\ remaining \in CallOrNone
    BY <1>1 DEF Losing, CoreStates, CallOrNone
  <1> HIDE DEF q
  <1>4. w \in UiStates /\ Delivered(u, q) = w /\ w.peer # NoCall
    BY <1>3, NoCallAssumption DEF Delivered, FitsBut, Losing, LineShapeIn
  <1>5. e \in CoreStates /\ SameLine(q, e)
    BY <1>3, EmitKeeps DEF SignalNames
  <1>6. Becomes(w, Delivered(u, e), "Active", w.peer, w.heldPeer, w.waitingPeer)
    BY <1>3, <1>4, LineEmits
  <1> HIDE DEF e
  <1>7. /\ Same(Delivered(u, e), Delivered(u, f))
        /\ f.active = remaining /\ f.held = NoCall /\ f.waiting = NoCall /\ f.conference = FALSE
    BY <1>3, <1>5, <1>6, PublishQuiet DEF Becomes, SameLine
  <1> HIDE DEF f, w
  <1>8. Becomes(w, Delivered(u, f), "Active", w.peer, w.heldPeer, w.waitingPeer)
    BY <1>6, <1>7 DEF Becomes, Same
  <1>9. Fits(Delivered(u, f), f)
    BY <1>1, <1>4, <1>7, <1>8, NoCallAssumption DEF Fits, FitsBut, Becomes
  <1>10. Follows(w, p, Delivered(u, f), f)
    BY <1>1, <1>7, <1>8, NoCallAssumption DEF Follows, Becomes
  <1> QED  BY <1>2, <1>9, <1>10 DEF w

\* The chain of ifs for a lost call leaves a window that fits, whichever leg the call was.
LEMMA LegGoneFits ==
    ASSUME NEW u, NEW p, NEW c \in Calls, Losing(p, c), ~(p.conference /\ c \in {p.active, p.held}),
           FitsBut(Delivered(u, p), p, c)
    PROVE  LET q == ConsultationGone(ActiveGone(HeldGone(WaitingGone(p, c), c), c), c)
           IN  Fits(Delivered(u, q), q) /\ Follows(Delivered(u, p), p, Delivered(u, q), q)
  <1> DEFINE gone == ConsultationGone(ActiveGone(HeldGone(WaitingGone(p, c), c), c), c)
             w == Delivered(u, p)
  <1>0. /\ p \in CoreStates /\ c # NoCall /\ w \in UiStates /\ NoCall \in CallOrNone
        /\ c = p.active => c \notin {p.consultation, p.held, p.waiting}
        /\ c = p.consultation => c \notin {p.held, p.waiting}
        /\ c = p.held => c # p.waiting
    BY NoCallAssumption DEF Losing, LegsDistinctIn, FitsBut, CallOrNone
  <1>1. CASE c \notin Legs(p)
    <2>1. gone = p /\ c # p.active
      BY <1>0, <1>1, NotALeg DEF Legs
    <2>2. Fits(w, p)
      BY <1>0, <2>1 DEF Fits, FitsBut
    <2> QED  BY <2>1, <2>2 DEF Follows
  <1>2. CASE c = p.waiting
    <2> DEFINE q == [p EXCEPT !.waiting = NoCall]
               e == Emit(q, "waitingCallEnded", NoCall)
    <2>1. /\ q \in CoreStates /\ q.st = p.st /\ q.active = p.active /\ q.held = p.held
          /\ q.consultation = p.consultation /\ q.waiting = NoCall
          /\ q.conference = p.conference /\ q.sig = p.sig
      BY <1>0 DEF CoreStates
    <2>2. gone = e
      <3>1. WaitingGone(p, c) = e
        BY <1>2 DEF WaitingGone
      <3>2. e \in CoreStates /\ SameLine(q, e)
        BY <1>0, <2>1, EmitKeeps DEF SignalNames
      <3> HIDE DEF e, q
      <3>3. c \notin Legs(e)
        BY <1>0, <1>2, <2>1, <3>2 DEF SameLine, Legs
      <3> QED  BY <3>1, <3>3, NotALeg
    <2>3. e \in CoreStates /\ SameLine(q, e)
      BY <1>0, <2>1, EmitKeeps DEF SignalNames
    <2> HIDE DEF q
    <2>4. Delivered(u, q) = w
      BY <2>1 DEF Delivered
    <2>5. Becomes(w, Delivered(u, e),
                  CASE w.state = "CallWaiting" /\ q.held # NoCall -> "TwoCalls"
                    [] w.state = "CallWaiting" /\ ~(q.held # NoCall) -> "Active"
                    [] OTHER -> w.state,
                  w.peer, w.heldPeer, NoCall)
      BY <1>0, <2>1, <2>4, LineEmits
    <2> HIDE DEF e
    <2>6. /\ e.st = p.st /\ e.active = p.active /\ e.held = p.held /\ e.waiting = NoCall
          /\ e.conference = p.conference
      BY <2>1, <2>3 DEF SameLine
    <2>7. p.active # c
      BY <1>0, <1>2
    <2>8. Fits(Delivered(u, e), e)
      BY <2>1, <2>5, <2>6, <2>7 DEF Fits, FitsBut, Becomes
    <2>9. Follows(w, p, Delivered(u, e), e)
      BY <2>5, <2>6 DEF Follows, Becomes
    <2> QED  BY <2>2, <2>8, <2>9
  <1>3. CASE c = p.held
    <2> DEFINE q == [p EXCEPT !.held = NoCall]
               e == Emit(q, "heldCallEnded", NoCall)
    <2>1. /\ q \in CoreStates /\ q.st = p.st /\ q.active = p.active /\ q.held = NoCall
          /\ q.consultation = p.consultation /\ q.waiting = p.waiting
          /\ q.conference = p.conference /\ q.sig = p.sig
      BY <1>0 DEF CoreStates
    <2>2. WaitingGone(p, c) = p /\ HeldGone(p, c) = e
      BY <1>0, <1>3 DEF WaitingGone, HeldGone
    <2>3. e \in CoreStates /\ SameLine(q, e)
      BY <1>0, <2>1, EmitKeeps DEF SignalNames
    <2> HIDE DEF q
    <2>4. Delivered(u, q) = w
      BY <2>1 DEF Delivered
    <2>5. Becomes(w, Delivered(u, e), IF w.state = "TwoCalls" THEN "Active" ELSE w.state,
                  w.peer, NoCall, w.waitingPeer)
      BY <1>0, <2>1, <2>4, LineEmits
    <2> HIDE DEF e
    <2>6. /\ e.st = p.st /\ e.active = p.active /\ e.held = NoCall /\ e.waiting = p.waiting
          /\ e.conference = p.conference /\ e.consultation = p.consultation
      BY <2>1, <2>3 DEF SameLine
    <2>7. gone = e
      <3>1. c \notin Legs(e)
        BY <1>0, <1>3, <2>6 DEF Legs
      <3> QED  BY <2>2, <3>1, NotALeg
    <2>8. p.active # c /\ ~p.conference
      BY <1>0, <1>3
    <2>9. Fits(Delivered(u, e), e)
      BY <2>5, <2>6, <2>8 DEF Fits, FitsBut, Becomes
    <2>10. Follows(w, p, Delivered(u, e), e)
      BY <2>5, <2>6 DEF Follows, Becomes
    <2> QED  BY <2>7, <2>9, <2>10
  <1>4. CASE c = p.active
    <2>1. WaitingGone(p, c) = p /\ HeldGone(p, c) = p /\ ActiveGone(p, c) = ForegroundGone(p)
      BY <1>0, <1>4 DEF WaitingGone, HeldGone, ActiveGone
    <2>2. Sound(ForegroundGone(p)) /\ Without(p, ForegroundGone(p), c)
      BY <1>4, ForegroundGoneSound
    <2>3. gone = ForegroundGone(p)
      BY <2>1, <2>2, NotALeg DEF Without
    <2> QED  BY <1>4, <2>3, ForegroundGoneFits
  <1>5. CASE c = p.consultation
    <2> DEFINE q == [p EXCEPT !.consultation = NoCall]
    <2>1. /\ q.st = p.st /\ q.active = p.active /\ q.held = p.held
          /\ q.waiting = p.waiting /\ q.conference = p.conference /\ q.sig = p.sig
      BY <1>0 DEF CoreStates
    <2>2. gone = q
      BY <1>0, <1>5 DEF WaitingGone, HeldGone, ActiveGone, ConsultationGone
    <2> HIDE DEF q
    <2>3. Delivered(u, q) = w /\ p.active # c
      BY <1>0, <1>5, <2>1 DEF Delivered
    <2>4. Fits(w, q)
      BY <1>0, <2>1, <2>3 DEF Fits, FitsBut
    <2> QED  BY <2>1, <2>2, <2>3, <2>4 DEF Follows
  <1> QED  BY <1>1, <1>2, <1>3, <1>4, <1>5 DEF Legs

\* Two operations in a row log what each of them has to log.
LEMMA FollowsOn ==
    ASSUME NEW w, NEW p, NEW v, NEW q, NEW x, NEW r, Follows(w, p, v, q), Follows(v, q, x, r),
           q.active \in {p.active, NoCall}
    PROVE  Follows(w, p, x, r)
  BY DEF Follows

\* The End, Error and Released branch leaves a window that fits.
LEMMA CallGoneFits ==
    ASSUME NEW u, NEW p, NEW c \in Calls, Losing(p, c), FitsBut(Delivered(u, p), p, c),
           NEW event, NEW elsewhere \in BOOLEAN
    PROVE  LET q == CallGone(p, c, event, elsewhere)
           IN  Fits(Delivered(u, q), q) /\ Follows(Delivered(u, p), p, Delivered(u, q), q)
  <1> DEFINE gone(r) == ConsultationGone(ActiveGone(HeldGone(WaitingGone(r, c), c), c), c)
             n == [p EXCEPT !.endNote = elsewhere]
             q == CallGone(p, c, event, elsewhere)
  <1>1. CASE p.conference /\ c \in {p.active, p.held}
    BY <1>1, ConferencePartyGoneFits DEF CallGone
  <1>2. CASE ~(p.conference /\ c \in {p.active, p.held})
    <2>1. q \in {gone(p), gone(n)}
      BY <1>2 DEF CallGone
    <2>2. /\ n \in CoreStates /\ n.st = p.st /\ n.active = p.active /\ n.held = p.held
          /\ n.consultation = p.consultation /\ n.waiting = p.waiting
          /\ n.conference = p.conference /\ n.lastParty = p.lastParty /\ n.down = p.down
          /\ n.sig = p.sig
      BY DEF Losing, CoreStates
    <2> HIDE DEF n
    <2>3. Losing(n, c)
      BY <2>2 DEF Losing, LegsDistinctIn, Legs, LineShapeIn, PartyIsForegroundIn, DownMeansNoLegsIn
    <2>4. Delivered(u, n) = Delivered(u, p)
      BY <2>2 DEF Delivered
    <2>5. FitsBut(Delivered(u, n), n, c)
      BY <2>2, <2>4 DEF FitsBut
    <2>6. /\ Fits(Delivered(u, gone(n)), gone(n))
          /\ Follows(Delivered(u, n), n, Delivered(u, gone(n)), gone(n))
      BY <1>2, <2>2, <2>3, <2>5, LegGoneFits
    <2>7. /\ Fits(Delivered(u, gone(p)), gone(p))
          /\ Follows(Delivered(u, p), p, Delivered(u, gone(p)), gone(p))
      BY <1>2, LegGoneFits
    <2> HIDE DEF gone, q
    <2>8. Follows(Delivered(u, p), p, Delivered(u, gone(n)), gone(n))
      BY <2>2, <2>4, <2>6 DEF Follows
    <2> QED  BY <2>1, <2>6, <2>7, <2>8 DEF q
  <1> QED  BY <1>1, <1>2

\* A call that is being lost, and only that one, may not look as the window thinks.
LEMMA LosingFits ==
    ASSUME NEW w, NEW p, Sound(p), Fits(w, p), NEW c \in Calls, NEW s \in CallStates
    PROVE  LET q == [p EXCEPT !.st[c] = s]
           IN  /\ FitsBut(w, q, c) /\ q.sig = p.sig /\ q.active = p.active
               /\ s = p.st[c] \/ w.state # "Incoming" \/ c # p.active => Fits(w, q)
  <1> DEFINE q == [p EXCEPT !.st[c] = s]
  <1>1. /\ q.active = p.active /\ q.held = p.held /\ q.waiting = p.waiting
        /\ q.conference = p.conference /\ q.sig = p.sig
        /\ \A d \in Calls \ {c} : q.st[d] = p.st[d]
        /\ s = p.st[c] => q.st = p.st
        /\ p.active \in CallOrNone
    BY DEF Sound, CoreStates
  <1> HIDE DEF q
  <1>2. p.active \notin {c, NoCall} => q.st[p.active] = p.st[p.active]
    BY <1>1 DEF CallOrNone
  <1>3. FitsBut(w, q, c)
    BY <1>1, <1>2 DEF Fits, FitsBut
  <1>4. s = p.st[c] \/ w.state # "Incoming" \/ c # p.active => Fits(w, q)
    BY <1>1, <1>2 DEF Fits, FitsBut
  <1> QED  BY <1>1, <1>3, <1>4 DEF q

\* Terminating a call, with the End callback it triggers, leaves a window that fits.
LEMMA TerminateFits ==
    ASSUME NEW u, NEW p, Sound(p), NEW c \in CallOrNone, Fits(Delivered(u, p), p)
    PROVE  LET q == Terminate(p, c)
           IN  Fits(Delivered(u, q), q) /\ Follows(Delivered(u, p), p, Delivered(u, q), q)
  <1>1. CASE Live(p, c)
    <2> DEFINE o == [p EXCEPT !.st[c] = "ended"]
               q == CallGone(o, c, "End", FALSE)
    <2>1. c \in Calls /\ "ended" \in CallStates
      BY <1>1 DEF Live, CallOrNone, CallStates
    <2>2. Losing(o, c)
      BY <2>1, LosingAfterMove
    <2>3. FitsBut(Delivered(u, p), o, c) /\ o.sig = p.sig /\ o.active = p.active
      BY <2>1, LosingFits
    <2> HIDE DEF o
    <2>4. Delivered(u, o) = Delivered(u, p)
      BY <2>3 DEF Delivered
    <2>5. Fits(Delivered(u, q), q) /\ Follows(Delivered(u, o), o, Delivered(u, q), q)
      BY <2>1, <2>2, <2>3, <2>4, CallGoneFits
    <2>6. Follows(Delivered(u, p), p, Delivered(u, q), q)
      BY <2>3, <2>4, <2>5 DEF Follows
    <2>7. Terminate(p, c) = q
      BY <1>1 DEF Terminate, o
    <2> QED  BY <2>5, <2>6, <2>7
  <1>2. CASE ~Live(p, c)
    BY <1>2 DEF Terminate, Follows
  <1> QED  BY <1>1, <1>2

\* Parking and resuming touch no call that rings, so the window goes on fitting.
LEMMA PauseResumeFits ==
    ASSUME NEW w, NEW p, Sound(p), Fits(w, p), NEW c \in Calls
    PROVE  /\ Fits(w, Pause(p, c)) /\ Pause(p, c).sig = p.sig
           /\ Fits(w, Resume(p, c)) /\ Resume(p, c).sig = p.sig
           /\ FitsBut(w, Accept(p, c), c) /\ Accept(p, c).sig = p.sig
  <1>1. {"paused", "connected", "accepted"} \subseteq CallStates
    BY DEF CallStates
  <1>2. w.state = "Incoming" => p.st[p.active] = "incoming"
    BY DEF Fits, FitsBut
  <1>3. FitsBut(w, p, c)
    BY DEF Fits, FitsBut
  <1>4. Fits(w, Pause(p, c)) /\ Pause(p, c).sig = p.sig
    BY <1>1, <1>2, LosingFits DEF Pause
  <1>5. Fits(w, Resume(p, c)) /\ Resume(p, c).sig = p.sig
    BY <1>1, <1>2, LosingFits DEF Resume
  <1>6. FitsBut(w, Accept(p, c), c) /\ Accept(p, c).sig = p.sig
    BY <1>1, <1>3, LosingFits DEF Accept
  <1> QED  BY <1>4, <1>5, <1>6

-------------------------------------------------------------------------------
(* Operations that leave the window to the slots. *)

\* From p to q the core did something, and with the slots of its signals the window fits again.
Settled(u, p, q) == Fits(Delivered(u, q), q) /\ Follows(Delivered(u, p), p, Delivered(u, q), q)

\* Ending another leg, with all its End callback does, leaves the foreground call where it is.
LEMMA ForegroundStays ==
    ASSUME NEW p \in CoreStates, NEW c \in CallOrNone, c # p.active \/ c = NoCall
    PROVE  Terminate(p, c).active = p.active
  <1>1. CASE Live(p, c)
    <2> DEFINE o == [p EXCEPT !.st[c] = "ended"]
               n == [o EXCEPT !.endNote = FALSE]
               x == WaitingGone(o, c)
               y == HeldGone(x, c)
    <2>0. c \in Calls /\ c # NoCall /\ "ended" \in CallStates /\ NoCall \in CallOrNone
      BY <1>1, NoCallAssumption DEF Live, CallOrNone, CallStates
    <2>1. o \in CoreStates /\ o.active = p.active /\ c # o.active
      BY <2>0 DEF CoreStates
    <2>2. Terminate(p, c) = CallGone(o, c, "End", FALSE)
      BY <1>1 DEF Terminate
    <2> HIDE DEF o
    <2>3. CASE o.conference /\ c \in {o.active, o.held}
      <3> DEFINE q == [o EXCEPT !.conference = FALSE, !.active = o.active,
                                !.held = NoCall, !.lastParty = NoCall]
                 e == Emit(q, "conferenceEnded", NoCall)
                 g == Emit(q, "callEnded", NoCall)
      <3>1. q \in CoreStates /\ q.active = o.active /\ o.active \in CallOrNone
        BY <2>0, <2>1 DEF CoreStates
      <3>2. CallGone(o, c, "End", FALSE) \in {PublishRemoteParty(e, o.active), g}
        BY <2>1, <2>3 DEF CallGone, ConferencePartyGone
      <3> HIDE DEF q
      <3>3. /\ e \in CoreStates /\ e.active = o.active /\ g \in CoreStates /\ g.active = o.active
        BY <2>0, <3>1, EmitKeeps DEF SignalNames, SameLine
      <3> HIDE DEF e, g
      <3>4. PublishRemoteParty(e, o.active).active = o.active
        BY <3>1, <3>3, PublishLine
      <3> QED  BY <2>1, <2>2, <3>2, <3>3, <3>4
    <2>4. CASE ~(o.conference /\ c \in {o.active, o.held})
      <3>1. x \in CoreStates /\ x.active = o.active
        <4> DEFINE q == [o EXCEPT !.waiting = NoCall]
                   e == Emit(q, "waitingCallEnded", NoCall)
        <4>1. q \in CoreStates /\ q.active = o.active
          BY <2>0, <2>1 DEF CoreStates
        <4>2. x \in {o, e}
          BY DEF WaitingGone
        <4> HIDE DEF q, x
        <4>3. e \in CoreStates /\ e.active = q.active
          BY <2>0, <4>1, EmitKeeps DEF SignalNames, SameLine
        <4> HIDE DEF e
        <4> QED  BY <2>1, <4>1, <4>2, <4>3
      <3> HIDE DEF x
      <3>2. y \in CoreStates /\ y.active = o.active
        <4> DEFINE q == [x EXCEPT !.held = NoCall]
                   e == Emit(q, "heldCallEnded", NoCall)
        <4>1. q \in CoreStates /\ q.active = x.active
          BY <2>0, <3>1 DEF CoreStates
        <4>2. y \in {x, e}
          BY DEF HeldGone
        <4> HIDE DEF q, y
        <4>3. e \in CoreStates /\ e.active = q.active
          BY <2>0, <4>1, EmitKeeps DEF SignalNames, SameLine
        <4> HIDE DEF e
        <4> QED  BY <3>1, <4>1, <4>2, <4>3
      <3> HIDE DEF y
      <3>3. CallGone(o, c, "End", FALSE) = ConsultationGone(y, c)
        BY <2>1, <2>4, <3>2 DEF CallGone, ActiveGone, x, y
      <3>4. ConsultationGone(y, c).active = y.active
        BY <3>2 DEF ConsultationGone, CoreStates
      <3> QED  BY <2>1, <2>2, <3>2, <3>3, <3>4
    <2> QED  BY <2>3, <2>4
  <1>2. CASE ~Live(p, c)
    BY <1>2 DEF Terminate
  <1> QED  BY <1>1, <1>2

\* hangup() ends one or two legs and the window follows both.
LEMMA HangupFits ==
    ASSUME NEW u, NEW p, Sound(p), Fits(Delivered(u, p), p)
    PROVE  Settled(u, p, Hangup(p))
  <1> DEFINE c == IF p.conference THEN p.held ELSE p.consultation
             q == Terminate(p, c)
             r == Terminate(q, q.active)
  <1>1. c \in CallOrNone
    BY DEF Sound, CoreStates
  <1>2. Sound(q) /\ q.active \in CallOrNone
    BY <1>1, TerminateSound DEF Sound, CoreStates
  <1>3. Settled(u, p, q)
    BY <1>1, TerminateFits DEF Settled
  <1>a. q.active = p.active
    <2>1. p \in CoreStates /\ (c # p.active \/ c = NoCall)
      BY DEF Sound, LegsDistinctIn, LineShapeIn
    <2> HIDE DEF c
    <2> QED  BY <1>1, <2>1, ForegroundStays
  <1> HIDE DEF q
  <1>4. Settled(u, q, r)
    BY <1>2, <1>3, TerminateFits DEF Settled
  <1>5. r = Hangup(p)
    BY DEF Hangup, q
  <1> HIDE DEF r
  <1> QED  BY <1>a, <1>3, <1>4, <1>5, FollowsOn DEF Settled

\* Dropping a conference party leaves the window of the call that remains.
LEMMA DropFits ==
    ASSUME NEW u, NEW p, Sound(p), Fits(Delivered(u, p), p), NEW index
    PROVE  Settled(u, p, DropConferenceParticipant(p, index))
  <1>1. CASE p.conference
    <2>1. (IF index = 0 THEN p.active ELSE p.held) \in CallOrNone
      BY DEF Sound, CoreStates
    <2> QED  BY <1>1, <2>1, TerminateFits DEF DropConferenceParticipant, Settled
  <1>2. CASE ~p.conference
    BY <1>2 DEF DropConferenceParticipant, Settled, Follows
  <1> QED  BY <1>1, <1>2

\* setHeld() emits nothing and moves no pointer.
LEMMA SetHeldFits ==
    ASSUME NEW u, NEW p, Sound(p), Fits(Delivered(u, p), p), NEW on \in BOOLEAN
    PROVE  LET q == SetHeld(p, on)
           IN  /\ Settled(u, p, q) /\ Delivered(u, q) = Delivered(u, p)
               /\ q.active = p.active /\ q.conference = p.conference
  <1>1. CASE p.active = NoCall
    BY <1>1 DEF SetHeld, Settled, Follows
  <1>2. CASE p.active # NoCall
    <2>1. p.active \in Calls /\ p.active # p.waiting
      BY <1>2, ForegroundIsACall
    <2>2. /\ SamePointers(p, Pause(p, p.active)) /\ SamePointers(p, Resume(p, p.active))
      BY <2>1, PauseResumeSound
    <2>3. SetHeld(p, on) \in {Pause(p, p.active), Resume(p, p.active)}
      BY <1>2 DEF SetHeld
    <2>4. Fits(Delivered(u, p), SetHeld(p, on)) /\ SetHeld(p, on).sig = p.sig
      BY <2>1, <2>3, PauseResumeFits
    <2>5. Delivered(u, SetHeld(p, on)) = Delivered(u, p)
      BY <2>4 DEF Delivered
    <2>6. SetHeld(p, on).active = p.active /\ SetHeld(p, on).conference = p.conference
      BY <2>2, <2>3 DEF SamePointers
    <2> QED  BY <2>4, <2>5, <2>6 DEF Settled, Follows
  <1> QED  BY <1>1, <1>2

\* Ending the consultation leg is nothing the window shows.
LEMMA EndConsultationFits ==
    ASSUME NEW u, NEW p, Sound(p), Fits(Delivered(u, p), p)
    PROVE  LET q == [Terminate(p, p.consultation) EXCEPT !.consultation = NoCall]
           IN  Settled(u, p, q) /\ (q.conference => p.conference) /\ q.active = p.active
  <1> DEFINE t == Terminate(p, p.consultation)
             q == [t EXCEPT !.consultation = NoCall]
  <1>1. p.consultation \in CallOrNone
    BY DEF Sound, CoreStates
  <1>2. Sound(t) /\ Without(p, t, p.consultation) /\ Settled(u, p, t)
    BY <1>1, TerminateSound, TerminateFits DEF Settled
  <1>3. t.consultation = NoCall
    BY <1>2 DEF Without, Legs
  <1>a. t.active = p.active
    <2>1. p \in CoreStates /\ (p.consultation # p.active \/ p.consultation = NoCall)
      BY DEF Sound, LegsDistinctIn
    <2> QED  BY <1>1, <2>1, ForegroundStays
  <1> HIDE DEF t
  <1>4. q = t
    BY <1>2, <1>3 DEF Sound, CoreStates
  <1> HIDE DEF q
  <1> QED  BY <1>a, <1>2, <1>4 DEF Without, q, t

\* declineWaitingCall() announces the end of the waiting call twice, and the window stands it.
LEMMA DeclineWaitingFits ==
    ASSUME NEW u, NEW p, Sound(p), Fits(Delivered(u, p), p)
    PROVE  Settled(u, p, DeclineWaitingCall(p))
  <1> DEFINE t == Terminate(p, p.waiting)
             q == [t EXCEPT !.waiting = NoCall]
             e == Emit(q, "waitingCallEnded", NoCall)
             v == Delivered(u, t)
  <1>1. CASE p.waiting = NoCall
    BY <1>1 DEF DeclineWaitingCall, Settled, Follows
  <1>2. CASE p.waiting # NoCall
    <2>1. p.waiting \in CallOrNone /\ NoCall \in CallOrNone
      BY DEF Sound, CoreStates, CallOrNone
    <2>2. Sound(t) /\ Without(p, t, p.waiting) /\ Settled(u, p, t)
      BY <2>1, TerminateSound, TerminateFits DEF Settled
    <2>3. t.waiting = NoCall /\ t.active = p.active
      <3>1. p \in CoreStates /\ (p.waiting # p.active \/ p.waiting = NoCall)
        BY DEF Sound, LegsDistinctIn
      <3>2. t.active = p.active
        BY <2>1, <3>1, ForegroundStays
      <3>3. t.waiting = NoCall
        BY <2>2 DEF Without, Legs
      <3> QED  BY <3>2, <3>3
    <2> HIDE DEF t
    <2>4. q = t
      BY <2>2, <2>3 DEF Sound, CoreStates
    <2> HIDE DEF q
    <2>5. t \in CoreStates /\ e \in CoreStates /\ SameLine(t, e)
      BY <2>1, <2>2, <2>4, EmitKeeps DEF Sound, SignalNames
    <2>6. v \in UiStates /\ v.state # "CallWaiting"
      BY <2>2, <2>3 DEF Settled, Fits, FitsBut
    <2>7. Becomes(v, Delivered(u, e), v.state, v.peer, v.heldPeer, NoCall)
      BY <2>1, <2>4, <2>5, <2>6, LineEmits
    <2> HIDE DEF v, e
    <2>8. Fits(v, t)
      BY <2>2 DEF Settled, v
    <2>9. Fits(Delivered(u, e), e)
      BY <2>3, <2>5, <2>6, <2>7, <2>8 DEF Fits, FitsBut, Becomes, SameLine
    <2>10. Follows(v, t, Delivered(u, e), e)
      BY <2>5, <2>7 DEF Follows, Becomes, SameLine
    <2>11. Follows(Delivered(u, p), p, Delivered(u, e), e)
      BY <2>2, <2>3, <2>10, FollowsOn DEF Settled, v
    <2>12. DeclineWaitingCall(p) = e
      BY <1>2 DEF DeclineWaitingCall, e, q, t
    <2> QED  BY <2>9, <2>11, <2>12 DEF Settled
  <1> QED  BY <1>1, <1>2

\* completeAttendedTransfer(), blind or attended, leaves a window that fits.
LEMMA CompleteTransferFits ==
    ASSUME NEW u, NEW p, Sound(p), Fits(Delivered(u, p), p)
    PROVE  Settled(u, p, CompleteAttendedTransfer(p))
  <1> DEFINE t == [Terminate(p, p.consultation) EXCEPT !.consultation = NoCall]
             blind == p.target /\ ~(p.consultation # NoCall /\ p.answered)
             q == IF blind THEN t ELSE p
             r == [q EXCEPT !.target = FALSE, !.answered = FALSE]
  <1>1. Settled(u, p, t)
    BY EndConsultationFits
  <1>2. Settled(u, p, p)
    BY DEF Settled, Follows
  <1>3. Sound(t)
    BY EndConsultationSound
  <1> HIDE DEF t
  <1>4. Sound(q) /\ Settled(u, p, q)
    BY <1>1, <1>2, <1>3
  <1> HIDE DEF q
  <1>5. /\ r.active = q.active /\ r.held = q.held /\ r.waiting = q.waiting
        /\ r.conference = q.conference /\ r.st = q.st /\ r.sig = q.sig
    BY <1>4 DEF Sound, CoreStates
  <1> HIDE DEF r
  <1>6. Delivered(u, r) = Delivered(u, q)
    BY <1>5 DEF Delivered
  <1>7. Settled(u, p, r)
    BY <1>4, <1>5, <1>6 DEF Settled, Fits, FitsBut, Follows
  <1>8. CompleteAttendedTransfer(p) \in {p, r}
    BY DEF CompleteAttendedTransfer, r, q, t
  <1> QED  BY <1>2, <1>7, <1>8

\* shutdown() ends leg after leg, and after each one the window fits.
LEMMA ShutdownFits ==
    ASSUME NEW u, NEW p, Sound(p), Fits(Delivered(u, p), p)
    PROVE  Settled(u, p, Shutdown(p))
  <1> DEFINE p1 == [Terminate(p, p.consultation) EXCEPT !.consultation = NoCall]
             t2 == Terminate(p1, p1.waiting)
             p2 == [t2 EXCEPT !.waiting = NoCall]
             t3 == Terminate(p2, p2.held)
             p3 == [t3 EXCEPT !.held = NoCall]
             t4 == Terminate(p3, p3.active)
             p4 == [t4 EXCEPT !.active = NoCall]
             q == [p4 EXCEPT !.down = TRUE]
  <1>t. ASSUME NEW r, Sound(r)
        PROVE  {r.active, r.consultation, r.held, r.waiting} \subseteq CallOrNone
    BY <1>t DEF Sound, CoreStates, CallOrNone
  <1>a. ASSUME NEW r, Sound(r)
        PROVE  /\ Terminate(r, r.consultation).active = r.active
               /\ Terminate(r, r.held).active = r.active /\ Terminate(r, r.waiting).active = r.active
    <2>1. /\ r \in CoreStates /\ (r.consultation # r.active \/ r.consultation = NoCall)
          /\ (r.held # r.active \/ r.held = NoCall) /\ (r.waiting # r.active \/ r.waiting = NoCall)
      BY <1>a DEF Sound, LegsDistinctIn
    <2> QED  BY <1>t, <1>a, <2>1, ForegroundStays
  <1>1. /\ Sound(p1) /\ Settled(u, p, p1) /\ p1.consultation = NoCall
        /\ p1.active = p.active
    <2>1. Sound(Terminate(p, p.consultation))
      BY <1>t, TerminateSound
    <2>2. Sound(p1) /\ p1.consultation = NoCall
      BY <2>1, NoConsultationSound
    <2>3. Settled(u, p, p1)
      BY EndConsultationFits
    <2>4. p1.active = p.active
      BY <1>a, <2>1 DEF Sound, CoreStates
    <2> QED  BY <2>2, <2>3, <2>4
  <1> HIDE DEF p1
  <1>2. Sound(t2) /\ Without(p1, t2, p1.waiting) /\ Settled(u, p1, t2) /\ t2.active = p1.active
    BY <1>1, <1>t, <1>a, TerminateSound, TerminateFits DEF Settled
  <1>3. t2.consultation = NoCall /\ t2.waiting = NoCall
    BY <1>1, <1>2 DEF Without, Legs
  <1> HIDE DEF t2
  <1>4. p2 = t2
    BY <1>2, <1>3 DEF Sound, CoreStates
  <1> HIDE DEF p2
  <1>5. Sound(t3) /\ Without(p2, t3, p2.held) /\ Settled(u, p2, t3) /\ t3.active = p2.active
    BY <1>2, <1>4, <1>t, <1>a, TerminateSound, TerminateFits DEF Settled
  <1>6. t3.consultation = NoCall /\ t3.waiting = NoCall /\ t3.held = NoCall
    BY <1>3, <1>4, <1>5 DEF Without, Legs
  <1> HIDE DEF t3
  <1>7. p3 = t3
    BY <1>5, <1>6 DEF Sound, CoreStates
  <1> HIDE DEF p3
  <1>8. Sound(t4) /\ Without(p3, t4, p3.active) /\ Settled(u, p3, t4)
    BY <1>5, <1>7, <1>t, TerminateSound, TerminateFits DEF Settled
  <1>9. t4.active = NoCall
    BY <1>6, <1>7, <1>8 DEF Without, Legs
  <1> HIDE DEF t4
  <1>10. p4 = t4
    BY <1>8, <1>9 DEF Sound, CoreStates
  <1> HIDE DEF p4
  <1>11. /\ q.active = t4.active /\ q.held = t4.held /\ q.waiting = t4.waiting
         /\ q.conference = t4.conference /\ q.st = t4.st /\ q.sig = t4.sig
    BY <1>8, <1>10 DEF Sound, CoreStates
  <1> HIDE DEF q
  <1>12. Settled(u, t4, q)
    <2>1. Delivered(u, q) = Delivered(u, t4)
      BY <1>11 DEF Delivered
    <2> QED  BY <1>8, <1>11, <2>1 DEF Settled, Fits, FitsBut, Follows
  <1>13. Settled(u, p, q)
    <2>1. Settled(u, p, t2) /\ t2.active = p.active
      BY <1>1, <1>2, FollowsOn DEF Settled
    <2>2. Settled(u, p, t3) /\ t3.active = p.active
      BY <1>4, <1>5, <2>1, FollowsOn DEF Settled
    <2>3. Settled(u, p, t4)
      BY <1>7, <1>8, <2>2, FollowsOn DEF Settled
    <2> QED  BY <1>9, <1>12, <2>3, FollowsOn DEF Settled
  <1> QED
    BY <1>13 DEF Shutdown, q, p4, t4, p3, t3, p2, t2, p1

\* p and q agree on what Fits reads.
SameShape(p, q) ==
    /\ q.st = p.st /\ q.active = p.active /\ q.held = p.held /\ q.waiting = p.waiting
    /\ q.conference = p.conference

\* An operation that keeps the pointers and runs only quiet slots leaves a window that fits.
LEMMA QuietFits ==
    ASSUME NEW u, NEW p, NEW q, Fits(Delivered(u, p), p), SameShape(p, q),
           Same(Delivered(u, p), Delivered(u, q))
    PROVE  Settled(u, p, q)
  BY DEF Fits, FitsBut, SameShape, Same, Becomes, Settled, Follows

\* Announcing the identity on the line leaves a window that fits.
LEMMA PublishFits ==
    ASSUME NEW u, NEW p, Sound(p), Fits(Delivered(u, p), p), NEW c \in CallOrNone
    PROVE  Settled(u, p, PublishRemoteParty(p, c))
  <1>1. p \in CoreStates /\ Delivered(u, p) \in UiStates
    BY DEF Sound, Fits, FitsBut
  <1> QED  BY <1>1, PublishQuiet, QuietFits DEF SameShape

\* A quiet signal leaves a window that fits.
LEMMA QuietEmitFits ==
    ASSUME NEW u, NEW p, Sound(p), Fits(Delivered(u, p), p), NEW who \in CallOrNone,
           NEW name \in {"remotePartyChanged", "callConnected", "consultationCallConnected",
                         "callAutoHandled", "errorOccurred"}
    PROVE  Settled(u, p, Emit(p, name, who))
  <1>1. p \in CoreStates /\ Delivered(u, p) \in UiStates /\ name \in SignalNames
    BY DEF Sound, Fits, FitsBut, SignalNames
  <1>2. SameShape(p, Emit(p, name, who))
    BY <1>1, EmitKeeps DEF SameLine, SameShape
  <1> QED  BY <1>1, <1>2, QuietEmits, QuietFits

\* Two operations in a row settle if each one does.
LEMMA SettledOn ==
    ASSUME NEW u, NEW p, NEW q, NEW r, Settled(u, p, q), Settled(u, q, r),
           q.active \in {p.active, NoCall}
    PROVE  Settled(u, p, r)
  BY FollowsOn DEF Settled

\* A change of the core the window does not see leaves it fitting.
LEMMA UnseenFits ==
    ASSUME NEW u, NEW p, NEW q, Fits(Delivered(u, p), p), SameShape(p, q), q.sig = p.sig
    PROVE  Settled(u, p, q)
  BY DEF Fits, FitsBut, SameShape, Settled, Follows, Delivered

\* startConference() shows the conference screen exactly if there is a conference.
LEMMA StartConferenceFits ==
    ASSUME NEW u, NEW p, Sound(p), Fits(Delivered(u, p), p), Delivered(u, p).menu = << >>,
           NEW created \in BOOLEAN
    PROVE  Settled(u, p, StartConference(p, created))
  <1> DEFINE other == IF p.consultation # NoCall THEN p.consultation ELSE p.held
             o == Resume(p, p.active)
             q == Resume(o, other)
             r == [q EXCEPT !.conference = TRUE, !.held = other, !.consultation = NoCall,
                            !.answered = FALSE, !.target = FALSE]
             e == Emit(r, "conferenceStarted", NoCall)
             w == Delivered(u, p)
  <1>0. NoCall \in CallOrNone
    BY DEF CallOrNone
  <1>1. CASE ~CanStartConference(p)
    BY <1>1 DEF StartConference, Settled, Follows
  <1>2. CASE CanStartConference(p) /\ ~created
    <2>1. Settled(u, p, Emit(p, "errorOccurred", NoCall))
      BY <1>0, QuietEmitFits
    <2> QED  BY <1>2, <2>1 DEF StartConference
  <1>3. CASE CanStartConference(p) /\ created
    <2>1. /\ p.active \in Calls /\ other \in Calls /\ p.waiting = NoCall /\ p.active # NoCall
          /\ p.active # other /\ p.active # p.waiting /\ other # p.waiting
      BY <1>3, NoCallAssumption
         DEF CanStartConference, Sound, CoreStates, CallOrNone, LegsDistinctIn
    <2> HIDE DEF other
    <2>2. Sound(o) /\ SamePointers(p, o) /\ o.sig = p.sig
      BY <2>1, PauseResumeSound, PauseResumeFits
    <2> HIDE DEF o
    <2>3. Sound(q) /\ SamePointers(p, q)
      BY <2>1, <2>2, PauseResumeSound DEF SamePointers
    <2>4. q.sig = p.sig
      BY <2>2 DEF Resume, Sound, CoreStates
    <2> HIDE DEF q
    <2>a. q \in CoreStates /\ other \in CallOrNone /\ q.active = p.active /\ q.waiting = NoCall
      BY <2>1, <2>3 DEF Sound, CallOrNone, SamePointers
    <2>5. /\ r \in CoreStates /\ r.active = p.active /\ r.waiting = NoCall /\ r.held = other
          /\ r.conference = TRUE /\ r.sig = p.sig
      BY <1>0, <2>4, <2>a DEF CoreStates
    <2> HIDE DEF r
    <2>6. w \in UiStates /\ Delivered(u, r) = w /\ w.peer # NoCall
      BY <2>1, <2>5 DEF Delivered, Fits, FitsBut
    <2>7. e \in CoreStates /\ SameLine(r, e)
      BY <1>0, <2>5, EmitKeeps DEF SignalNames
    <2>8. Becomes(w, Delivered(u, e), "Conference", w.peer, NoCall, w.waitingPeer)
      BY <1>0, <2>5, <2>6, LineEmits
    <2> HIDE DEF e
    <2>9. /\ e.active = p.active /\ e.waiting = NoCall /\ e.held = other /\ e.conference = TRUE
      BY <2>5, <2>7 DEF SameLine
    <2>10. w.menu = << >>
      OBVIOUS
    <2> HIDE DEF w
    <2>11. Fits(Delivered(u, e), e)
      BY <2>1, <2>6, <2>8, <2>9, <2>10 DEF Fits, FitsBut, Becomes
    <2>12. Follows(w, p, Delivered(u, e), e)
      BY <2>1, <2>8, <2>9 DEF Follows, Becomes
    <2>13. StartConference(p, created) = e
      BY <1>3 DEF StartConference, e, r, q, o, other
    <2> QED  BY <2>11, <2>12, <2>13 DEF Settled, w
  <1> QED  BY <1>1, <1>2, <1>3

-------------------------------------------------------------------------------
(* Callbacks. *)

\* A new call leaves the screen of what became of it: refused, waiting or ringing.
LEMMA IncomingFits ==
    ASSUME NEW u, NEW p, Sound(p), ~p.down, Fits(Delivered(u, p), p),
           NEW c \in Calls, p.st[c] = "free"
    PROVE  Settled(u, p, Incoming(p, c))
  <1> DEFINE q == Arrive(p, c)
             n == [q EXCEPT !.waiting = c]
             a == [q EXCEPT !.active = c]
             w == Delivered(u, p)
  <1>1. "incoming" \in LiveStates /\ "incoming" \in CallStates
    BY DEF LiveStates, CallStates
  <1>2. c \notin Legs(p) /\ c # NoCall /\ Sound(q) /\ SamePointers(p, q) /\ q.st[c] = "incoming"
    BY <1>1, FreeCall DEF Arrive
  <1>3. c # p.active /\ c \in CallOrNone /\ NoCall \in CallOrNone
    BY <1>2 DEF Legs, CallOrNone
  <1>4. Fits(w, q) /\ q.sig = p.sig /\ q.active = p.active
    BY <1>1, <1>3, LosingFits DEF Arrive
  <1> HIDE DEF q
  <1>5. Settled(u, p, q) /\ Delivered(u, q) = w
    BY <1>4 DEF Settled, Follows, Delivered
  <1>w. w \in UiStates
    BY DEF Fits, FitsBut
  <1>6. CASE Forwarded(p) \/ Refused(p)
    <2> DEFINE t == Terminate(q, c)
               e == Emit(t, "callAutoHandled", c)
    <2>1. Sound(t) /\ Settled(u, q, t)
      BY <1>2, <1>3, <1>4, <1>5, TerminateSound, TerminateFits DEF Settled
    <2>a. t.active = p.active
      BY <1>2, <1>3, <1>4, ForegroundStays DEF Sound
    <2> HIDE DEF t
    <2>2. Settled(u, t, e)
      BY <1>3, <2>1, QuietEmitFits DEF Settled
    <2>3. Incoming(p, c) = e
      BY <1>6 DEF Incoming, e, t, q
    <2> HIDE DEF e
    <2>4. Settled(u, p, t)
      BY <1>4, <1>5, <2>1, SettledOn
    <2> QED  BY <2>a, <2>2, <2>3, <2>4, SettledOn
  <1>7. CASE ~(Forwarded(p) \/ Refused(p)) /\ p.active # NoCall
    <2> DEFINE e == Emit(n, "callWaiting", c)
    <2>1. p.held = NoCall /\ p.waiting = NoCall /\ p.conference = FALSE
      BY <1>7 DEF Refused, CanWait, Sound, CoreStates, LineShapeIn
    <2>2. /\ n \in CoreStates /\ n.active = p.active /\ n.held = NoCall /\ n.waiting = c
          /\ n.conference = FALSE /\ n.sig = p.sig
      BY <1>2, <1>3, <1>4, <2>1 DEF Sound, CoreStates, SamePointers
    <2> HIDE DEF n
    <2>3. Delivered(u, n) = w
      BY <2>2 DEF Delivered
    <2>4. e \in CoreStates /\ SameLine(n, e)
      BY <1>3, <2>2, EmitKeeps DEF SignalNames
    <2>5. Becomes(w, Delivered(u, e), "CallWaiting", w.peer, w.heldPeer, c)
      BY <1>3, <1>w, <2>2, <2>3, LineEmits
    <2>6. Incoming(p, c) = e
      BY <1>7 DEF Incoming, e, n, q
    <2> HIDE DEF e
    <2>7. e.active = p.active /\ e.held = NoCall /\ e.waiting = c /\ e.conference = FALSE
      BY <2>2, <2>4 DEF SameLine
    <2>8. w.peer # NoCall
      BY <1>7 DEF Fits, FitsBut
    <2> HIDE DEF w
    <2>9. Fits(Delivered(u, e), e)
      BY <1>2, <2>5, <2>7, <2>8 DEF Fits, FitsBut, Becomes
    <2>10. Follows(w, p, Delivered(u, e), e)
      BY <1>7, <2>5, <2>7 DEF Follows, Becomes
    <2> QED  BY <2>6, <2>9, <2>10 DEF Settled, w
  <1>8. CASE ~(Forwarded(p) \/ Refused(p)) /\ p.active = NoCall
    <2> DEFINE e == Emit(a, "incomingCall", c)
    <2>1. p.held = NoCall /\ p.waiting = NoCall /\ p.conference = FALSE
      BY <1>8 DEF Sound, CoreStates, LineShapeIn
    <2>2. /\ a \in CoreStates /\ a.active = c /\ a.held = NoCall /\ a.waiting = NoCall
          /\ a.conference = FALSE /\ a.sig = p.sig /\ a.st[c] = "incoming"
      BY <1>2, <1>3, <1>4, <2>1 DEF Sound, CoreStates, SamePointers
    <2> HIDE DEF a
    <2>3. Delivered(u, a) = w
      BY <2>2 DEF Delivered
    <2>4. e \in CoreStates /\ SameLine(a, e)
      BY <1>3, <2>2, EmitKeeps DEF SignalNames
    <2>5. Becomes(w, Delivered(u, e), "Incoming", c, w.heldPeer, w.waitingPeer)
      BY <1>3, <1>w, <2>2, <2>3, LineEmits
    <2>6. Incoming(p, c) = e
      BY <1>8 DEF Incoming, e, a, q
    <2> HIDE DEF e
    <2>7. /\ e.active = c /\ e.held = NoCall /\ e.waiting = NoCall /\ e.conference = FALSE
          /\ e.st[c] = "incoming"
      BY <2>2, <2>4 DEF SameLine
    <2> HIDE DEF w
    <2>8. Fits(Delivered(u, e), e)
      BY <1>2, <2>5, <2>7 DEF Fits, FitsBut, Becomes
    <2>9. Follows(w, p, Delivered(u, e), e)
      BY <1>2, <2>5, <2>7 DEF Follows, Becomes
    <2> QED  BY <2>6, <2>8, <2>9 DEF Settled, w
  <1> QED  BY <1>6, <1>7, <1>8

\* A call that does not ring may move between live states unseen.
LEMMA MovedFits ==
    ASSUME NEW u, NEW p, Sound(p), Fits(Delivered(u, p), p), NEW c \in Calls, c # p.waiting,
           p.st[c] # "incoming", NEW s \in LiveStates
    PROVE  LET q == [p EXCEPT !.st[c] = s]
           IN  Sound(q) /\ SamePointers(p, q) /\ Settled(u, p, q)
  <1> DEFINE q == [p EXCEPT !.st[c] = s]
  <1>1. s \in CallStates /\ (Delivered(u, p).state # "Incoming" \/ c # p.active)
    BY DEF Fits, FitsBut, LiveStates
  <1>2. Fits(Delivered(u, p), q) /\ q.sig = p.sig /\ q.active = p.active
    BY <1>1, LosingFits
  <1>3. Sound(q) /\ SamePointers(p, q)
    BY MoveSound
  <1> HIDE DEF q
  <1>4. Settled(u, p, q)
    BY <1>2 DEF Settled, Follows, Delivered
  <1> QED  BY <1>3, <1>4 DEF q

\* The Connected callback leaves a window that fits.
LEMMA ConnectedFits ==
    ASSUME NEW u, NEW p, Sound(p), Fits(Delivered(u, p), p),
           NEW c \in Calls, p.st[c] \in {"outgoing", "accepted"}
    PROVE  Settled(u, p, Connected(p, c))
  <1> DEFINE q == [p EXCEPT !.st[c] = "connected"]
             a == [q EXCEPT !.answered = TRUE]
             e == PublishRemoteParty(q, c)
             f == Emit(e, "callConnected", NoCall)
  <1>1. c # p.waiting /\ c \in CallOrNone /\ NoCall \in CallOrNone /\ "connected" \in LiveStates
    BY NoCallAssumption DEF Sound, LegsAliveIn, LiveStates, CallStates, CallOrNone
  <1>2. Sound(q) /\ SamePointers(p, q) /\ Settled(u, p, q)
    BY <1>1, MovedFits
  <1> HIDE DEF q
  <1>3. Settled(u, q, a)
    <2>1. SameShape(q, a) /\ a.sig = q.sig
      BY <1>2 DEF Sound, CoreStates, SameShape
    <2> QED  BY <1>2, <2>1, UnseenFits DEF Settled
  <1>4. CASE c = p.active
    <2>1. Sound(e)
      BY <1>2, <1>4, PublishSound DEF SamePointers
    <2>2. Settled(u, q, e) /\ e.active = q.active
      BY <1>1, <1>2, PublishFits, PublishLine DEF Settled, Sound
    <2> HIDE DEF e
    <2>3. Settled(u, e, f)
      BY <1>1, <2>1, <2>2, QuietEmitFits DEF Settled
    <2>4. Connected(p, c) = f
      BY <1>4 DEF Connected, q, e, f
    <2> HIDE DEF f
    <2>5. Settled(u, p, e) /\ e.active = p.active
      BY <1>2, <2>2, SettledOn DEF SamePointers
    <2> QED  BY <2>3, <2>4, <2>5, SettledOn
  <1>5. CASE c # p.active
    <2>1. Connected(p, c) \in {q, a}
      BY <1>5 DEF Connected, q, a
    <2> HIDE DEF a
    <2> QED  BY <1>2, <1>3, <2>1, SettledOn DEF SamePointers
  <1> QED  BY <1>4, <1>5

\* The StreamsRunning callback leaves a window that fits.
LEMMA StreamsRunningFits ==
    ASSUME NEW u, NEW p, Sound(p), Fits(Delivered(u, p), p), NEW c \in Calls, p.st[c] = "connected"
    PROVE  Settled(u, p, StreamsRunning(p, c))
  <1> DEFINE q == [p EXCEPT !.st[c] = "running"]
             r == IF c = p.active THEN PublishRemoteParty(q, c) ELSE q
             a == [r EXCEPT !.answered = TRUE]
             e == Emit(a, "consultationCallConnected", NoCall)
             f == Emit(r, "callConnected", NoCall)
  <1>1. c # p.waiting /\ c \in CallOrNone /\ NoCall \in CallOrNone /\ "running" \in LiveStates
    BY NoCallAssumption DEF Sound, LegsAliveIn, LiveStates, CallStates, CallOrNone
  <1>2. Sound(q) /\ SamePointers(p, q) /\ Settled(u, p, q)
    BY <1>1, MovedFits
  <1> HIDE DEF q
  <1>3. Sound(r) /\ Settled(u, p, r) /\ r.active = p.active
    <2>1. CASE c = p.active
      <3>1. Sound(PublishRemoteParty(q, c))
        BY <1>2, <2>1, PublishSound DEF SamePointers
      <3>2. Settled(u, q, PublishRemoteParty(q, c)) /\ PublishRemoteParty(q, c).active = q.active
        BY <1>1, <1>2, PublishFits, PublishLine DEF Settled, Sound
      <3> QED  BY <1>2, <2>1, <3>1, <3>2, SettledOn DEF SamePointers
    <2>2. CASE c # p.active
      BY <1>2, <2>2 DEF SamePointers
    <2> QED  BY <2>1, <2>2
  <1> HIDE DEF r
  <1>4. SameShape(r, a) /\ a.sig = r.sig /\ a \in CoreStates /\ SamePointers(r, a) /\ a.st = r.st
    BY <1>3 DEF Sound, CoreStates, SameShape, SamePointers
  <1>5. Sound(a) /\ Settled(u, r, a)
    BY <1>3, <1>4, FlagsSound, UnseenFits DEF Settled
  <1> HIDE DEF a
  <1>6. Settled(u, a, e) /\ Settled(u, r, f)
    BY <1>1, <1>3, <1>5, QuietEmitFits DEF Settled
  <1>7. StreamsRunning(p, c) \in {e, f, r}
    BY DEF StreamsRunning, q, r, a, e, f
  <1> HIDE DEF e, f
  <1>8. Settled(u, p, a) /\ a.active = p.active
    BY <1>3, <1>4, <1>5, SettledOn DEF SamePointers
  <1> QED  BY <1>3, <1>6, <1>7, <1>8, SettledOn

\* Error, End and Released leave a window that fits, for any call at any time.
LEMMA GoneEventsFit ==
    ASSUME NEW u, NEW p, Sound(p), Fits(Delivered(u, p), p), NEW c \in Calls, NEW elsewhere \in BOOLEAN
    PROVE  /\ Settled(u, p, Ended(p, c, elsewhere))
           /\ Settled(u, p, Released(p, c)) /\ Settled(u, p, Failed(p, c))
  <1> DEFINE w == Delivered(u, p)
             e == [p EXCEPT !.st[c] = "ended"]
             f == [p EXCEPT !.st[c] = "free"]
             s == Emit(e, "errorOccurred", c)
  <1>1. {"ended", "free"} \subseteq CallStates /\ c \in CallOrNone /\ "errorOccurred" \in SignalNames
    BY DEF CallStates, CallOrNone, SignalNames
  <1>2. Losing(e, c) /\ Losing(f, c)
    BY <1>1, LosingAfterMove
  <1>3. /\ FitsBut(w, e, c) /\ e.sig = p.sig /\ e.active = p.active
        /\ FitsBut(w, f, c) /\ f.sig = p.sig /\ f.active = p.active
    BY <1>1, LosingFits
  <1> HIDE DEF e, f
  <1>4. Delivered(u, e) = w /\ Delivered(u, f) = w /\ w \in UiStates
    BY <1>3 DEF Delivered, FitsBut
  <1>5. Settled(u, e, CallGone(e, c, "End", elsewhere)) /\ Settled(u, f, CallGone(f, c, "Released", FALSE))
    BY <1>2, <1>3, <1>4, CallGoneFits DEF Settled
  <1>6. s \in CoreStates /\ SameLine(e, s) /\ Same(w, Delivered(u, s))
    BY <1>1, <1>2, <1>4, EmitKeeps, QuietEmits DEF Losing
  <1> HIDE DEF s
  <1>7. Losing(s, c)
    BY <1>2, <1>6 DEF Losing, SameLine, LegsDistinctIn, Legs, LineShapeIn, PartyIsForegroundIn,
                      DownMeansNoLegsIn
  <1>8. FitsBut(Delivered(u, s), s, c)
    BY <1>3, <1>6 DEF FitsBut, SameLine, Same, Becomes
  <1>9. Settled(u, s, CallGone(s, c, "Error", FALSE))
    BY <1>7, <1>8, CallGoneFits DEF Settled
  <1>10. /\ s.active = p.active /\ Delivered(u, s).peer = w.peer
         /\ \A a : Logged(w, a) => Logged(Delivered(u, s), a)
    BY <1>3, <1>6 DEF SameLine, Same, Becomes
  <1> DEFINE x == CallGone(e, c, "End", elsewhere)
             y == CallGone(f, c, "Released", FALSE)
             z == CallGone(s, c, "Error", FALSE)
  <1> HIDE DEF x, y, z, w
  <1>11. Follows(w, p, Delivered(u, x), x) /\ Follows(w, p, Delivered(u, y), y)
    BY <1>3, <1>4, <1>5 DEF Settled, Follows, x, y
  <1>12. Follows(w, p, Delivered(u, z), z)
    BY <1>9, <1>10 DEF Settled, Follows, z
  <1> QED
    BY <1>5, <1>9, <1>11, <1>12 DEF Ended, Released, Failed, e, f, s, x, y, z, w, Settled

-------------------------------------------------------------------------------
(* The buttons. *)

\* The inductive invariant: the core is sound, and the window shows its situation.
WindowFits == Sound(core) /\ Fits(ui, core)

\* What a step owes: the window fits the line again, and if the line went back on hook the call
\* that was in the foreground was logged, if the window had its number.
Kept == /\ Fits(ui', core')
        /\ core.active # NoCall /\ core'.active = NoCall /\ ui.peer = core.active
              => Logged(ui', core.active)

\* A step starts from a sound core with no signal pending and a window that fits it.
LEMMA StepStarts ==
    ASSUME WindowFits
    PROVE  /\ Sound(Now) /\ SameLine(core, Now) /\ Now.sig = << >>
           /\ \A b : Delivered(b, Now) = b
           /\ Fits(Fresh, Now) /\ Fresh.state = ui.state /\ Fresh.menu = ui.menu
           /\ Fresh.peer = ui.peer /\ Fresh.waitingPeer = ui.waitingPeer
           /\ Fresh.heldPeer = ui.heldPeer /\ Fresh.connected = ui.connected
           /\ Fits([Fresh EXCEPT !.menu = << >>], Now) /\ [Fresh EXCEPT !.menu = << >>].peer = ui.peer
           /\ Fits([Fresh EXCEPT !.holdButton = ~@], Now)
           /\ [Fresh EXCEPT !.holdButton = ~@].peer = ui.peer
  <1>1. Sound(Now) /\ SameLine(core, Now) /\ Now.sig = << >>
    BY NowSound DEF WindowFits, Now, Sound, CoreStates
  <1>2. \A b : Delivered(b, Now) = b
    BY <1>1, DeliverEmpty DEF Delivered
  <1>3. ui \in UiStates /\ << >> \in Seq(Records)
    BY DEF WindowFits, Fits, FitsBut
  <1>4. /\ Fresh \in UiStates /\ Fresh.state = ui.state /\ Fresh.menu = ui.menu
        /\ Fresh.peer = ui.peer /\ Fresh.waitingPeer = ui.waitingPeer
        /\ Fresh.heldPeer = ui.heldPeer /\ Fresh.connected = ui.connected
    BY <1>3 DEF Fresh, UiStates
  <1>5. Fits(Fresh, Now)
    BY <1>1, <1>4 DEF WindowFits, SameLine, Fits, FitsBut
  <1> DEFINE m == [Fresh EXCEPT !.menu = << >>]
             h == [Fresh EXCEPT !.holdButton = ~@]
  <1>6. /\ m \in UiStates /\ m.state = Fresh.state /\ m.peer = Fresh.peer /\ m.menu = << >>
        /\ m.heldPeer = Fresh.heldPeer /\ m.waitingPeer = Fresh.waitingPeer
    BY <1>4 DEF UiStates
  <1>7. /\ h \in UiStates /\ h.state = Fresh.state /\ h.peer = Fresh.peer /\ h.menu = Fresh.menu
        /\ h.heldPeer = Fresh.heldPeer /\ h.waitingPeer = Fresh.waitingPeer
    BY <1>4 DEF UiStates
  <1> HIDE DEF m, h
  <1>8. Fits(m, Now) /\ Fits(h, Now)
    BY <1>5, <1>6, <1>7 DEF Fits, FitsBut
  <1>9. m.peer = ui.peer /\ h.peer = ui.peer
    BY <1>4, <1>6, <1>7
  <1> QED  BY <1>1, <1>2, <1>4, <1>5, <1>8, <1>9 DEF m, h

\* If the slots are all that happens to the window, the step keeps the invariant.
LEMMA SettlesKept ==
    ASSUME WindowFits, NEW b, b.peer = ui.peer, Settled(b, Now, core'), ui' = Deliver(b, core'.sig)
    PROVE  Kept
  <1>1. ui' = Delivered(b, core')
    BY DEF Delivered
  <1>2. Now.active = core.active /\ Delivered(b, Now) = b
    BY StepStarts DEF SameLine
  <1> QED  BY <1>1, <1>2 DEF Kept, Settled, Follows

\* A handler may go on to a screen of its own if the line has the calls that screen shows.
LEMMA AppliedFits ==
    ASSUME NEW w, NEW q \in CoreStates, NEW c, FitsBut(w, q, c), ~q.conference,
           NEW state \in {"Idle", "ForwardDialing", "Active", "TransferDialing", "TransferConsulting"},
           state \in {"Idle", "ForwardDialing"} => q.active = NoCall
    PROVE  LET v == Apply(w, state, CanStartConference(q))
           IN  Fits(v, q) /\ v.log = w.log
  <1> DEFINE v == Apply(w, state, CanStartConference(q))
  <1>1. CanStartConference(q) \in BOOLEAN /\ state \in UiCallStates /\ w \in UiStates
    BY DEF CanStartConference, CoreStates, UiCallStates, FitsBut
  <1>2. v.log = w.log /\ Becomes(w, v, state, w.peer, w.heldPeer, w.waitingPeer)
    BY <1>1, ApplyIs
  <1> HIDE DEF v
  <1>3. Fits(v, q)
    BY <1>2 DEF Fits, FitsBut, Becomes
  <1> QED  BY <1>2, <1>3 DEF v

\* If the slots run and then the handler changes the screen, the step keeps the invariant.
LEMMA ThenKept ==
    ASSUME WindowFits, NEW b, b.peer = ui.peer, NEW c, core' \in CoreStates,
           FitsBut(Delivered(b, core'), core', c), Follows(b, Now, Delivered(b, core'), core'),
           ~core'.conference,
           NEW state \in {"Idle", "ForwardDialing", "Active", "TransferDialing", "TransferConsulting"},
           state \in {"Idle", "ForwardDialing"} => core'.active = NoCall,
           ui' = Apply(Deliver(b, core'.sig), state, CanStartConference(core'))
    PROVE  Kept
  <1>1. ui' = Apply(Delivered(b, core'), state, CanStartConference(core'))
    BY DEF Delivered
  <1>2. Fits(ui', core') /\ ui'.log = Delivered(b, core').log
    BY <1>1, AppliedFits
  <1>3. Now.active = core.active
    BY StepStarts DEF SameLine
  <1> QED  BY <1>2, <1>3 DEF Kept, Follows, Logged

\* The same of an operation that left a window that fits.
LEMMA SettledThenKept ==
    ASSUME WindowFits, NEW b, b.peer = ui.peer, Sound(core'), Settled(b, Now, core'), ~core'.conference,
           NEW state \in {"Idle", "ForwardDialing", "Active", "TransferDialing", "TransferConsulting"},
           state \in {"Idle", "ForwardDialing"} => core'.active = NoCall,
           ui' = Apply(Deliver(b, core'.sig), state, CanStartConference(core'))
    PROVE  Kept
  <1>1. /\ FitsBut(Delivered(b, core'), core', NoCall) /\ Follows(b, Now, Delivered(b, core'), core')
        /\ core' \in CoreStates
    <2>1. Delivered(b, Now) = b
      BY StepStarts
    <2> QED  BY <2>1 DEF Settled, Fits, Sound
  <1> QED  BY <1>1, ThenKept

-------------------------------------------------------------------------------
(* The window asks the core for nothing but what CallControl lets a user ask. *)

\* The window asks the core for nothing but what CallControl lets a user ask: it dials from an
\* idle screen only, and starts no transfer from a conference.
LEMMA WindowIsUser ==
    ASSUME WindowFits, WindowNext
    PROVE  UserNext \/ UNCHANGED core
  <1>1. /\ ui \in UiStates /\ core.dnd \in BOOLEAN /\ Now.dnd = core.dnd
        /\ ui.state = "Idle" => core.active = NoCall
        /\ ui.state = "TransferDialing" => ~core.conference
    <2>1. core \in CoreStates /\ SameLine(core, Now)
      BY StepStarts DEF WindowFits, Sound
    <2> QED  BY <2>1 DEF WindowFits, Fits, FitsBut, CoreStates, SameLine
  <1>2. ASSUME NEW c \in CallOrNone, Dials(c) \/ CallsTransferTarget(c) PROVE UserNext
    <2>1. UserDials(c) \/ UserBeginsTransfer(c)
      BY <1>1, <1>2 DEF Dials, CallsTransferTarget, Screen, UserDials, UserBeginsTransfer
    <2> QED  BY <2>1 DEF UserNext
  <1>3. CASE DialsBadTarget \/ CallsBadTransferTarget
    <2>1. UserDialsBadTarget \/ UserBeginsBadTransfer
      BY <1>1, <1>3 DEF DialsBadTarget, CallsBadTransferTarget, Screen, UserDialsBadTarget,
                        UserBeginsBadTransfer
    <2> QED  BY <2>1 DEF UserNext
  <1>4. CASE Answers \/ HangsUp \/ AnswersWaiting \/ Declines \/ DeclinesWaiting \/ Swaps
    <2>1. UserAnswers \/ UserHangsUp \/ UserAnswersWaiting \/ UserDeclinesWaiting \/ UserSwaps
      BY <1>4 DEF Answers, HangsUp, AnswersWaiting, Declines, DeclinesWaiting, Swaps,
                  UserAnswers, UserHangsUp, UserAnswersWaiting, UserDeclinesWaiting, UserSwaps
    <2> QED  BY <2>1 DEF UserNext
  <1>5. CASE GivesUpDialing \/ CancelsTransfer \/ Transfers \/ TogglesHold \/ ClicksTransfer
    <2>1. \/ \E on \in BOOLEAN : UserHolds(on)
          \/ UserCancelsTransfer \/ UserCompletesTransfer
      BY <1>1, <1>5 DEF GivesUpDialing, CancelsTransfer, Transfers, TogglesHold, ClicksTransfer,
                        UserHolds, UserCancelsTransfer, UserCompletesTransfer, UiStates
    <2> QED  BY <2>1 DEF UserNext
  <1>6. CASE CancelsForward \/ OpensMenu \/ ClosesMenu \/ ClicksForward
    BY <1>6 DEF CancelsForward, OpensMenu, ClosesMenu, ClicksForward, Shows
  <1>7. ASSUME NEW created \in BOOLEAN, ClicksConference(created) PROVE UserNext
    BY <1>7 DEF ClicksConference, UserStartsConference, UserNext
  <1>8. ASSUME NEW index \in {0, 1}, MenuDrops(index) PROVE UserNext
    BY <1>8 DEF MenuDrops, UserDropsParticipant, UserNext
  <1>9. ASSUME NEW forward \in Forwards, SetsForward(forward) PROVE UserNext
    BY <1>9 DEF SetsForward, UserSetsForward, UserNext
  <1>10. ASSUME NEW forward \in Forwards \cup {"off"}, AppliesForward(forward) PROVE UserNext
    BY <1>10 DEF AppliesForward, UserSetsForward, UserNext
  <1>11. CASE TogglesDnd
    <2>0. Now.dnd = core.dnd
      BY <1>1
    <2>1. (~core.dnd) \in BOOLEAN
      OBVIOUS
    <2>3. [Now EXCEPT !.dnd = ~@] = [Now EXCEPT !.dnd = ~core.dnd]
      BY <2>0, Zenon
    <2>2. UserSetsDnd(~core.dnd)
      BY <1>11, <2>3 DEF TogglesDnd, UserSetsDnd
    <2> QED  BY <2>1, <2>2 DEF UserNext
  <1>12. CASE Quits
    BY <1>12 DEF Quits, UserQuits, UserNext
  <1> QED
    BY <1>2, <1>3, <1>4, <1>5, <1>6, <1>7, <1>8, <1>9, <1>10, <1>11, <1>12 DEF WindowNext

\* Every step of the window is a step of the core or leaves it alone, and keeps it sound.
LEMMA StepIsCoreStep ==
    ASSUME WindowFits, Next
    PROVE  (CoreNext \/ UNCHANGED core) /\ Sound(core')
  <1>1. CASE WindowNext
    <2>1. UserNext \/ UNCHANGED core
      BY <1>1, WindowIsUser
    <2>2. UserNext => Sound(core')
      BY UserNextSound DEF WindowFits
    <2>3. UNCHANGED core => Sound(core')
      BY DEF WindowFits
    <2> QED  BY <2>1, <2>2, <2>3 DEF CoreNext
  <1>2. CASE CallsBack
    <2>1. EngineNext
      BY <1>2 DEF CallsBack
    <2>2. Sound(core')
      BY <2>1, EngineNextSound DEF WindowFits, EngineNext
    <2> QED  BY <2>1, <2>2 DEF CoreNext
  <1> QED  BY <1>1, <1>2 DEF Next

\* The buttons that leave the window to the slots keep the invariant.
LEMMA SettlingActionsKeep ==
    ASSUME WindowFits,
           \/ HangsUp \/ Transfers \/ DeclinesWaiting \/ TogglesHold \/ TogglesDnd \/ Quits
           \/ \E created \in BOOLEAN : ClicksConference(created)
           \/ \E index \in {0, 1} : MenuDrops(index)
           \/ \E forward \in Forwards \cup {"off"} : AppliesForward(forward)
    PROVE  Kept
  <1> DEFINE m == [Fresh EXCEPT !.menu = << >>]
             h == [Fresh EXCEPT !.holdButton = ~@]
  <1>0. /\ Sound(Now) /\ \A b : Delivered(b, Now) = b
        /\ Fits(Fresh, Now) /\ Fits(m, Now) /\ Fits(h, Now) /\ Fresh.menu = ui.menu
        /\ Fresh.peer = ui.peer /\ m.peer = ui.peer /\ h.peer = ui.peer
    BY StepStarts
  <1> HIDE DEF m, h
  <1>1. CASE HangsUp
    <2>1. Settled(Fresh, Now, core')
      BY <1>0, <1>1, HangupFits DEF HangsUp, Step
    <2> QED  BY <1>0, <1>1, <2>1, SettlesKept DEF HangsUp, Settles
  <1>2. CASE Transfers
    <2>1. Settled(Fresh, Now, core')
      BY <1>0, <1>2, CompleteTransferFits DEF Transfers, Step
    <2> QED  BY <1>0, <1>2, <2>1, SettlesKept DEF Transfers, Settles
  <1>3. CASE DeclinesWaiting
    <2>1. Settled(Fresh, Now, core')
      BY <1>0, <1>3, DeclineWaitingFits DEF DeclinesWaiting, Step
    <2> QED  BY <1>0, <1>3, <2>1, SettlesKept DEF DeclinesWaiting, Settles
  <1>4. CASE TogglesHold
    <2>0. ui.holdButton \in BOOLEAN
      BY DEF WindowFits, Fits, FitsBut, UiStates
    <2>1. Settled(h, Now, core')
      BY <1>0, <1>4, <2>0, SetHeldFits DEF TogglesHold, Step
    <2> QED  BY <1>0, <1>4, <2>1, SettlesKept DEF TogglesHold, h
  <1>5. CASE TogglesDnd
    <2> DEFINE q == [Now EXCEPT !.dnd = ~@]
    <2>1. SameShape(Now, q) /\ q.sig = Now.sig
      BY <1>0 DEF Sound, CoreStates, SameShape
    <2>2. core' = q
      BY <1>5 DEF TogglesDnd, Step
    <2> HIDE DEF q
    <2>3. Settled(Fresh, Now, core')
      BY <1>0, <2>1, <2>2, UnseenFits
    <2> QED  BY <1>0, <1>5, <2>3, SettlesKept DEF TogglesDnd, Settles
  <1>6. CASE Quits
    <2>1. Settled(Fresh, Now, core')
      BY <1>0, <1>6, ShutdownFits DEF Quits, Step
    <2> QED  BY <1>0, <1>6, <2>1, SettlesKept DEF Quits, Settles
  <1>7. ASSUME NEW created \in BOOLEAN, ClicksConference(created) PROVE Kept
    <2>1. Fits(Delivered(Fresh, Now), Now) /\ Delivered(Fresh, Now).menu = << >>
      BY <1>0, <1>7 DEF ClicksConference, Screen
    <2>2. Settled(Fresh, Now, core')
      BY <1>0, <1>7, <2>1, StartConferenceFits DEF ClicksConference, Step
    <2> QED  BY <1>0, <1>7, <2>2, SettlesKept DEF ClicksConference, Settles
  <1>8. ASSUME NEW index \in {0, 1}, MenuDrops(index) PROVE Kept
    <2>1. Settled(m, Now, core')
      BY <1>0, <1>8, DropFits DEF MenuDrops, Step
    <2> QED  BY <1>0, <1>8, <2>1, SettlesKept DEF MenuDrops, m
  <1>9. ASSUME NEW forward \in Forwards \cup {"off"}, AppliesForward(forward) PROVE Kept
    <2> DEFINE q == [Now EXCEPT !.forward = forward]
    <2>1. SameShape(Now, q) /\ q.sig = Now.sig
      BY <1>0 DEF Sound, CoreStates, SameShape
    <2>2. core' = q
      BY <1>9 DEF AppliesForward, Step
    <2> HIDE DEF q
    <2>3. Settled(Fresh, Now, core')
      BY <1>0, <2>1, <2>2, UnseenFits
    <2> QED  BY <1>0, <1>9, <2>3, SettlesKept DEF AppliesForward, Settles
  <1> QED  BY <1>1, <1>2, <1>3, <1>4, <1>5, <1>6, <1>7, <1>8, <1>9

\* The buttons that change the window alone keep the invariant.
LEMMA ScreenActionsKeep ==
    ASSUME WindowFits, CancelsForward \/ OpensMenu \/ ClosesMenu \/ ClicksForward
    PROVE  Kept
  <1> DEFINE m == [Fresh EXCEPT !.menu = << >>]
             o == [Fresh EXCEPT !.menu = << core.active, core.held >>]
  <1>0. /\ core \in CoreStates /\ SameLine(core, Now) /\ Fits(Fresh, Now) /\ Fits(m, Now)
        /\ Fresh.state = ui.state
    BY StepStarts DEF WindowFits, Sound
  <1>1. Fits(Fresh, core) /\ Fits(m, core)
    BY <1>0 DEF SameLine, Fits, FitsBut
  <1>2. ASSUME NEW state \in {"Idle", "ForwardDialing"}, core.active = NoCall, ~core.conference,
               Shows(state)
        PROVE  Kept
    <2>1. Fits(ui', core)
      BY <1>0, <1>1, <1>2, AppliedFits DEF Fits, Shows
    <2> QED  BY <1>2, <2>1 DEF Kept, Shows
  <1>3. ui.state \in {"Idle", "ForwardDialing"} => core.active = NoCall /\ ~core.conference
    BY DEF WindowFits, Fits, FitsBut
  <1>4. CASE CancelsForward
    BY <1>2, <1>3, <1>4 DEF CancelsForward, Screen
  <1>5. CASE ClicksForward
    BY <1>2, <1>3, <1>5 DEF ClicksForward, Screen
  <1>6. CASE ClosesMenu
    BY <1>1, <1>6 DEF ClosesMenu, Kept
  <1>7. CASE OpensMenu
    <2>1. << core.active, core.held >> \in CallOrNone \X CallOrNone /\ Fresh \in UiStates
      BY <1>0 DEF CoreStates, Fits, FitsBut
    <2>2. /\ o \in UiStates /\ o.menu = << core.active, core.held >> /\ o.state = Fresh.state
          /\ o.peer = Fresh.peer /\ o.heldPeer = Fresh.heldPeer /\ o.waitingPeer = Fresh.waitingPeer
      BY <2>1 DEF UiStates
    <2>3. ui' = o /\ core' = core
      BY <1>7 DEF OpensMenu
    <2> HIDE DEF o
    <2>4. Fits(o, core)
      BY <1>1, <2>2 DEF Fits, FitsBut
    <2> QED  BY <2>3, <2>4 DEF Kept
  <1> QED  BY <1>4, <1>5, <1>6, <1>7

\* Hanging up with no call parked or waiting leaves nothing in the foreground.
LEMMA HangupAlone ==
    ASSUME NEW p, Sound(p), p.held = NoCall, p.waiting = NoCall
    PROVE  Hangup(p).active = NoCall /\ ~Hangup(p).conference /\ Sound(Hangup(p))
  <1> DEFINE q == Terminate(p, p.consultation)
             r == Terminate(q, q.active)
  <1>1. ~p.conference /\ p.consultation \in CallOrNone
    BY DEF Sound, LineShapeIn, CoreStates
  <1>2. Sound(q) /\ Without(p, q, p.consultation) /\ q.active \in CallOrNone
    BY <1>1, TerminateSound DEF Sound, CoreStates
  <1>3. q.consultation = NoCall /\ q.held = NoCall /\ q.waiting = NoCall /\ ~q.conference
    BY <1>1, <1>2 DEF Without, Legs
  <1> HIDE DEF q
  <1>4. Sound(r) /\ Without(q, r, q.active)
    BY <1>2, TerminateSound
  <1>5. r.active = NoCall /\ ~r.conference
    BY <1>3, <1>4 DEF Without, Legs
  <1>6. Hangup(p) = r
    BY <1>1 DEF Hangup, r, q
  <1> QED  BY <1>4, <1>5, <1>6

\* Answering goes on to the screen of a call that is there.
LEMMA AnswersKeeps ==
    ASSUME WindowFits, Answers
    PROVE  Kept
  <1>0. /\ Sound(Now) /\ \A b : Delivered(b, Now) = b
        /\ Fits(Fresh, Now) /\ Fresh.state = ui.state /\ Fresh.peer = ui.peer
    BY StepStarts
  <1>1. /\ core' = Answer(Now) /\ ui.state = "Incoming"
        /\ ui' = Apply(Deliver(Fresh, core'.sig), "Active", CanStartConference(core'))
    BY DEF Answers, Step, Screen, Then
  <1>2. Now.active # NoCall /\ ~Now.conference
    BY <1>0, <1>1 DEF Fits, FitsBut
  <1>3. Now.active \in Calls /\ Now.active # Now.waiting
    BY <1>0, <1>2, ForegroundIsACall
  <1> DEFINE q == Accept(Now, Now.active)
  <1>4. core' = q
    BY <1>1, <1>2 DEF Answer
  <1>5. FitsBut(Fresh, q, Now.active) /\ q.sig = Now.sig /\ Sound(q) /\ SamePointers(Now, q)
    BY <1>0, <1>3, PauseResumeFits, PauseResumeSound
  <1> HIDE DEF q
  <1>6. Delivered(Fresh, q) = Fresh
    BY <1>0, <1>5 DEF Delivered
  <1>7. Follows(Fresh, Now, Fresh, q) /\ ~q.conference /\ q \in CoreStates
    BY <1>2, <1>5 DEF Follows, SamePointers, Sound
  <1> QED
    BY <1>0, <1>1, <1>4, <1>5, <1>6, <1>7, ThenKept

\* Declining goes on to the idle screen with nobody in the foreground.
LEMMA DeclinesKeeps ==
    ASSUME WindowFits, Declines
    PROVE  Kept
  <1>0. /\ Sound(Now) /\ \A b : Delivered(b, Now) = b
        /\ Fits(Fresh, Now) /\ Fresh.state = ui.state /\ Fresh.peer = ui.peer
    BY StepStarts
  <1>1. /\ core' = Hangup(Now) /\ ui.state = "Incoming"
        /\ ui' = Apply(Deliver(Fresh, core'.sig), "Idle", CanStartConference(core'))
    BY DEF Declines, Step, Screen, Then
  <1>2. Now.held = NoCall /\ Now.waiting = NoCall
    BY <1>0, <1>1 DEF Fits, FitsBut
  <1>3. core'.active = NoCall /\ ~core'.conference /\ Sound(core')
    BY <1>0, <1>1, <1>2, HangupAlone
  <1>4. Settled(Fresh, Now, core')
    BY <1>0, <1>1, HangupFits
  <1> QED
    BY <1>0, <1>1, <1>3, <1>4, SettledThenKept

\* Parking for a transfer, and giving the dialling up, keep the invariant.
LEMMA HoldActionsKeep ==
    ASSUME WindowFits, GivesUpDialing \/ ClicksTransfer
    PROVE  Kept
  <1> DEFINE parked == [Deliver(Fresh, core'.sig) EXCEPT !.holdButton = TRUE]
  <1>0. /\ Sound(Now) /\ \A b : Delivered(b, Now) = b
        /\ Fits(Fresh, Now) /\ Fresh.state = ui.state /\ Fresh.peer = ui.peer /\ SameLine(core, Now)
    BY StepStarts
  <1>1. PICK on \in BOOLEAN : core' = SetHeld(Now, on)
    BY DEF GivesUpDialing, ClicksTransfer, Step
  <1>2. /\ Settled(Fresh, Now, core') /\ Delivered(Fresh, core') = Fresh
        /\ core'.active = Now.active /\ core'.conference = Now.conference
        /\ Sound(core')
    <2>1. Fits(Delivered(Fresh, Now), Now) /\ Delivered(Fresh, Now) = Fresh
      BY <1>0
    <2> QED  BY <1>0, <1>1, <2>1, SetHeldFits, AnswerAndHoldSound
  <1>3. ui.state # "Conference"
    BY DEF GivesUpDialing, ClicksTransfer, Screen, InCall
  <1>4. ~core'.conference /\ core' \in CoreStates
    BY <1>0, <1>2, <1>3 DEF Fits, FitsBut, Sound
  <1>5. CASE GivesUpDialing
    BY <1>0, <1>2, <1>4, <1>5, SettledThenKept DEF GivesUpDialing, Then
  <1>6. CASE ClicksTransfer
    <2>1. Deliver(Fresh, core'.sig) = Fresh
      BY <1>2 DEF Delivered
    <2>2. /\ parked \in UiStates /\ parked.state = Fresh.state /\ parked.peer = Fresh.peer
          /\ parked.menu = Fresh.menu /\ parked.heldPeer = Fresh.heldPeer
          /\ parked.waitingPeer = Fresh.waitingPeer
      BY <1>0, <2>1 DEF Fits, FitsBut, UiStates
    <2>3. ui' = Apply(parked, "TransferDialing", CanStartConference(core'))
      BY <1>6 DEF ClicksTransfer
    <2> HIDE DEF parked
    <2>4. Fits(parked, core')
      BY <1>2, <2>2 DEF Settled, Fits, FitsBut
    <2>5. Fits(ui', core')
      BY <1>4, <2>3, <2>4, AppliedFits DEF Fits
    <2>6. core'.active = core.active
      BY <1>0, <1>2 DEF SameLine
    <2> QED  BY <2>5, <2>6 DEF Kept
  <1> QED  BY <1>5, <1>6

\* Cancelling a transfer goes back to the screen of the call, which is still there or was
\* logged.
LEMMA CancelsTransferKeeps ==
    ASSUME WindowFits, CancelsTransfer
    PROVE  Kept
  <1>0. /\ Sound(Now) /\ \A b : Delivered(b, Now) = b
        /\ Fits(Fresh, Now) /\ Fresh.state = ui.state /\ Fresh.peer = ui.peer
    BY StepStarts
  <1> DEFINE o == [Now EXCEPT !.target = FALSE, !.answered = FALSE]
             r == [Terminate(o, o.consultation) EXCEPT !.consultation = NoCall]
             q == IF r.active # NoCall THEN Resume(r, r.active) ELSE r
  <1>1. ui.state = "TransferConsulting"
    BY DEF CancelsTransfer, Screen
  <1>2. /\ o \in CoreStates /\ o.st = Now.st /\ SamePointers(Now, o) /\ o.sig = Now.sig
        /\ o.consultation = Now.consultation
    BY <1>0 DEF Sound, CoreStates, SamePointers
  <1>3. core' = q
    <2>1. q = CancelAttendedTransfer(Now)
      BY <1>2 DEF CancelAttendedTransfer
    <2> QED  BY <2>1 DEF CancelsTransfer, Step
  <1> HIDE DEF o
  <1>4. Sound(o) /\ Settled(Fresh, Now, o) /\ ~o.conference
    <2>1. ~Now.conference
      BY <1>0, <1>1 DEF Fits, FitsBut
    <2>2. SameShape(Now, o)
      BY <1>2 DEF SameShape, SamePointers
    <2> QED  BY <1>0, <1>2, <2>1, <2>2, FlagsSound, UnseenFits DEF SamePointers
  <1>5. Sound(r) /\ Settled(Fresh, o, r) /\ ~r.conference /\ r.active = o.active
    BY <1>4, EndConsultationSound, EndConsultationFits DEF Settled
  <1> HIDE DEF r
  <1>6. Sound(q) /\ Settled(Fresh, r, q) /\ ~q.conference
    <2>1. CASE r.active # NoCall
      <3>1. r.active \in Calls /\ r.active # r.waiting
        BY <1>5, <2>1, ForegroundIsACall
      <3>2. Sound(Resume(r, r.active)) /\ SamePointers(r, Resume(r, r.active))
        BY <1>5, <3>1, PauseResumeSound
      <3>3. /\ Fits(Delivered(Fresh, r), Resume(r, r.active)) /\ Resume(r, r.active).sig = r.sig
        BY <1>5, <3>1, PauseResumeFits DEF Settled
      <3> QED  BY <1>5, <2>1, <3>2, <3>3 DEF Settled, Follows, Delivered, SamePointers
    <2>2. CASE r.active = NoCall
      BY <1>5, <2>2 DEF Settled, Follows
    <2> QED  BY <2>1, <2>2
  <1> HIDE DEF q
  <1>7. Settled(Fresh, Now, q)
    <2>1. Settled(Fresh, Now, r) /\ r.active = Now.active
      BY <1>2, <1>4, <1>5, SettledOn DEF SamePointers
    <2> QED  BY <1>6, <2>1, SettledOn
  <1>8. ui' = Apply(Deliver(Fresh, core'.sig), "Active", CanStartConference(core'))
    BY DEF CancelsTransfer, Then
  <1> QED  BY <1>0, <1>3, <1>6, <1>7, <1>8, SettledThenKept

\* Setting the forward target goes back to an idle screen over an idle line.
LEMMA SetsForwardKeeps ==
    ASSUME WindowFits, NEW forward \in Forwards, SetsForward(forward)
    PROVE  Kept
  <1> DEFINE q == [Now EXCEPT !.forward = forward]
  <1>0. /\ Sound(Now) /\ \A b : Delivered(b, Now) = b
        /\ Fits(Fresh, Now) /\ Fresh.state = ui.state /\ Fresh.peer = ui.peer
    BY StepStarts
  <1>1. /\ core' = q /\ ui.state = "ForwardDialing"
        /\ ui' = Apply(Deliver(Fresh, core'.sig), "Idle", CanStartConference(core'))
    BY DEF SetsForward, Step, Screen, Then
  <1>2. SameShape(Now, q) /\ q.sig = Now.sig
    BY <1>0 DEF Sound, CoreStates, SameShape
  <1>3. Sound(q)
    BY <1>0, FlagStepSound
  <1> HIDE DEF q
  <1>4. Settled(Fresh, Now, q) /\ q.active = NoCall /\ ~q.conference
    BY <1>0, <1>1, <1>2, UnseenFits DEF SameShape, Fits, FitsBut
  <1> QED  BY <1>0, <1>1, <1>3, <1>4, SettledThenKept

\* Calling the transfer target keeps the invariant, whether the engine can create the call or
\* not.
LEMMA CallsTransferTargetKeeps ==
    ASSUME WindowFits, NEW c \in CallOrNone, CallsTransferTarget(c)
    PROVE  Kept
  <1> DEFINE o == Pause(Now, Now.active)
             n == [o EXCEPT !.target = TRUE, !.answered = FALSE, !.consultation = c]
             q == IF c = NoCall THEN n ELSE [n EXCEPT !.st[c] = "outgoing"]
  <1>0. /\ Sound(Now) /\ \A b : Delivered(b, Now) = b /\ SameLine(core, Now)
        /\ Fits(Fresh, Now) /\ Fresh.state = ui.state /\ Fresh.peer = ui.peer
    BY StepStarts
  <1>1. /\ core' = BeginAttendedTransfer(Now, c) /\ ui.state = "TransferDialing"
        /\ ui' = Apply(Deliver(Fresh, core'.sig), "TransferConsulting", CanStartConference(core'))
        /\ c # NoCall => Now.st[c] = "free"
    BY <1>0 DEF CallsTransferTarget, Step, Screen, Then, Invitable, SameLine
  <1>2. ~Now.conference
    BY <1>0, <1>1 DEF Fits, FitsBut
  <1>3. Sound(core')
    <2>1. ~core.down
      BY DEF CallsTransferTarget, Step
    <2> QED  BY <1>0, <1>1, <1>2, <2>1, BeginTransferSound DEF SameLine
  <1>4. CASE Now.active = NoCall
    <2>1. core' = Now
      BY <1>1, <1>4 DEF BeginAttendedTransfer
    <2>2. Settled(Fresh, Now, core')
      BY <1>0, <2>1 DEF Settled, Follows
    <2> QED  BY <1>0, <1>1, <1>2, <1>3, <2>1, <2>2, SettledThenKept
  <1>5. CASE Now.active # NoCall
    <2>1. Now.active \in Calls /\ Now.active # Now.waiting
      BY <1>0, <1>5, ForegroundIsACall
    <2>2. Sound(o) /\ SamePointers(Now, o) /\ Fits(Fresh, o) /\ o.sig = Now.sig
      BY <1>0, <2>1, PauseResumeSound, PauseResumeFits
    <2>3. core' = q
      BY <1>1, <1>5 DEF BeginAttendedTransfer
    <2> HIDE DEF o
    <2>4. /\ n.active = o.active /\ n.held = o.held /\ n.waiting = o.waiting
          /\ n.conference = o.conference /\ n.sig = o.sig
      BY <2>2 DEF Sound, CoreStates
    <2>5. /\ q.active = n.active /\ q.held = n.held /\ q.waiting = n.waiting
          /\ q.conference = n.conference /\ q.sig = n.sig
      BY DEF n
    <2> HIDE DEF q, n
    <2>6. Fresh.state # "Incoming"
      BY <1>0, <1>1
    <2>7. Fits(Fresh, q)
      BY <2>2, <2>4, <2>5, <2>6 DEF Fits, FitsBut
    <2>8. Delivered(Fresh, q) = Fresh
      BY <1>0, <2>2, <2>4, <2>5 DEF Delivered
    <2>9. Settled(Fresh, Now, q) /\ ~q.conference
      BY <1>0, <1>2, <2>2, <2>4, <2>5, <2>7, <2>8 DEF Settled, Follows, SamePointers
    <2> QED  BY <1>0, <1>1, <1>3, <2>3, <2>9, SettledThenKept
  <1> QED  BY <1>4, <1>5

\* A transfer target that does not resolve keeps the invariant.
LEMMA CallsBadTransferTargetKeeps ==
    ASSUME WindowFits, CallsBadTransferTarget
    PROVE  Kept
  <1> DEFINE o == Pause(Now, Now.active)
             q == [o EXCEPT !.answered = FALSE]
             e == Emit(q, "errorOccurred", NoCall)
             r == Resume(e, Now.active)
             f == [r EXCEPT !.target = FALSE]
  <1>0. /\ Sound(Now) /\ \A b : Delivered(b, Now) = b
        /\ Fits(Fresh, Now) /\ Fresh.state = ui.state /\ Fresh.peer = ui.peer
    BY StepStarts
  <1>1. /\ core' = BeginTransferBadTarget(Now) /\ ui.state = "TransferDialing"
        /\ ui' = Apply(Deliver(Fresh, core'.sig), "TransferConsulting", CanStartConference(core'))
    BY DEF CallsBadTransferTarget, Step, Screen, Then
  <1>2. ~Now.conference
    BY <1>0, <1>1 DEF Fits, FitsBut
  <1>3. Sound(core')
    BY <1>0, <1>1, BadTransferSound
  <1>4. CASE Now.active = NoCall
    <2>1. core' = Now
      BY <1>1, <1>4 DEF BeginTransferBadTarget
    <2>2. Settled(Fresh, Now, core')
      BY <1>0, <2>1 DEF Settled, Follows
    <2> QED  BY <1>0, <1>1, <1>2, <1>3, <2>1, <2>2, SettledThenKept
  <1>5. CASE Now.active # NoCall
    <2>1. Now.active \in Calls /\ Now.active # Now.waiting
      BY <1>0, <1>5, ForegroundIsACall
    <2>2. Sound(o) /\ SamePointers(Now, o) /\ Fits(Fresh, o) /\ o.sig = Now.sig
      BY <1>0, <2>1, PauseResumeSound, PauseResumeFits
    <2>3. core' = f
      BY <1>1, <1>5 DEF BeginTransferBadTarget
    <2>4. Settled(Fresh, Now, o) /\ ~o.conference /\ o.active = Now.active /\ o.waiting = Now.waiting
      BY <1>0, <1>2, <2>2 DEF Settled, Follows, Delivered, SamePointers
    <2> HIDE DEF o
    <2>5. Settled(Fresh, o, q) /\ Sound(q) /\ ~q.conference /\ q.active = Now.active /\ q.waiting = Now.waiting
      <3>1. SameShape(o, q) /\ q.sig = o.sig /\ SamePointers(o, q) /\ q \in CoreStates
        BY <2>2 DEF Sound, CoreStates, SameShape, SamePointers
      <3> HIDE DEF q
      <3> QED  BY <2>2, <2>4, <3>1, FlagsSound, UnseenFits DEF Settled, SamePointers, SameShape
    <2> HIDE DEF q
    <2>6. Settled(Fresh, q, e) /\ Sound(e) /\ ~e.conference /\ e.active = Now.active /\ e.waiting = Now.waiting
      <3>1. NoCall \in CallOrNone /\ "errorOccurred" \in SignalNames
        BY DEF CallOrNone, SignalNames
      <3> QED  BY <2>5, <3>1, EmitSound, QuietEmitFits DEF Settled, SameLine
    <2> HIDE DEF e
    <2>7. Settled(Fresh, e, r) /\ Sound(r) /\ ~r.conference /\ r.active = Now.active
      <3>1. Sound(r) /\ SamePointers(e, r) /\ Fits(Delivered(Fresh, e), r) /\ r.sig = e.sig
        BY <2>1, <2>6, PauseResumeSound, PauseResumeFits DEF Settled
      <3> QED  BY <2>6, <3>1 DEF Settled, Follows, Delivered, SamePointers
    <2> HIDE DEF r
    <2>8. Settled(Fresh, r, f) /\ ~f.conference
      <3>1. SameShape(r, f) /\ f.sig = r.sig
        BY <2>7 DEF Sound, CoreStates, SameShape
      <3> QED  BY <2>7, <3>1, UnseenFits DEF Settled, SameShape
    <2> HIDE DEF f
    <2>9. Settled(Fresh, Now, f)
      <3>1. Settled(Fresh, Now, q)
        BY <2>4, <2>5, SettledOn
      <3>2. Settled(Fresh, Now, e)
        BY <2>5, <2>6, <3>1, SettledOn
      <3>3. Settled(Fresh, Now, r)
        BY <2>6, <2>7, <3>2, SettledOn
      <3> QED  BY <2>7, <2>8, <3>3, SettledOn
    <2> QED  BY <1>0, <1>1, <1>3, <2>3, <2>8, <2>9, SettledThenKept
  <1> QED  BY <1>4, <1>5

\* Dialling marks the line busy whatever call() did, and the window has a number for it.
LEMMA DialsKeep ==
    ASSUME WindowFits, (\E c \in CallOrNone : Dials(c)) \/ DialsBadTarget
    PROVE  Kept
  <1>0. /\ Sound(Now) /\ \A b : Delivered(b, Now) = b /\ SameLine(core, Now)
        /\ Fits(Fresh, Now) /\ Fresh.state = ui.state /\ Fresh.menu = ui.menu /\ Fresh \in UiStates
    BY StepStarts DEF Fits, FitsBut
  <1>1. /\ ui.state = "Idle" /\ ui.menu = << >> /\ Now.active = NoCall /\ core.active = NoCall
        /\ Now.held = NoCall /\ Now.waiting = NoCall /\ Now.conference = FALSE
        /\ core.down = FALSE /\ Now \in CoreStates
    <2>1. ui.state = "Idle" /\ ui.menu = << >> /\ ~core.down
      BY DEF Dials, DialsBadTarget, Screen
    <2> QED  BY <1>0, <2>1 DEF Fits, FitsBut, Sound, LineShapeIn, SameLine, CoreStates, WindowFits
  <1>2. ASSUME NEW number \in Numbers, NEW q, core' = q, Dialled(number), Sound(q),
               Delivered(Fresh, q) \in UiStates, Delivered(Fresh, q).menu = << >>,
               q.active # NoCall => number # NoCall,
               q.held = NoCall, q.waiting = NoCall, q.conference = FALSE
        PROVE  Kept
    <2> DEFINE d == Delivered(Fresh, q)
               w == [d EXCEPT !.peer = number, !.incoming = FALSE, !.answered = FALSE]
    <2>1. /\ w \in UiStates /\ w.peer = number /\ w.menu = << >>
      BY <1>2 DEF UiStates
    <2>2. ui' = Apply(w, "Active", CanStartConference(q))
      BY <1>2 DEF Dialled, Delivered
    <2> HIDE DEF w
    <2>3. CanStartConference(q) \in BOOLEAN /\ "Active" \in UiCallStates
      BY <1>2 DEF CanStartConference, Sound, CoreStates, UiCallStates
    <2>4. Becomes(w, ui', "Active", number, w.heldPeer, w.waitingPeer)
      BY <2>1, <2>2, <2>3, ApplyIs
    <2>5. Fits(ui', q)
      BY <1>2, <2>1, <2>4 DEF Fits, FitsBut, Becomes
    <2> QED  BY <1>1, <1>2, <2>5 DEF Kept
  <1>3. ASSUME NEW c \in CallOrNone, Dials(c) PROVE Kept
    <2> DEFINE q == Call(Now, c)
               number == IF c = NoCall THEN "dialled" ELSE c
    <2>1. core' = q /\ Dialled(number) /\ (c # NoCall => Now.st[c] = "free") /\ ~Now.down
      BY <1>0, <1>1, <1>3 DEF Dials, Step, Invitable, SameLine
    <2>2. Sound(q)
      BY <1>0, <1>1, <2>1, CallSound
    <2>3. q.active = c /\ q.held = NoCall /\ q.waiting = NoCall /\ q.conference = FALSE /\ q.sig = Now.sig
      BY <1>1 DEF Call, CoreStates
    <2>4. number \in Numbers /\ (c # NoCall => number # NoCall)
      BY DEF Numbers
    <2> HIDE DEF q, number
    <2>5. Delivered(Fresh, q) \in UiStates /\ Delivered(Fresh, q).menu = << >>
      BY <1>0, <1>1, <2>3 DEF Delivered
    <2> QED  BY <1>2, <2>1, <2>2, <2>3, <2>4, <2>5
  <1>4. CASE DialsBadTarget
    <2> DEFINE q == CallBadTarget(Now)
    <2>1. core' = q /\ Dialled("dialled")
      BY <1>4 DEF DialsBadTarget, Step
    <2>2. NoCall \in CallOrNone /\ "errorOccurred" \in SignalNames /\ "dialled" \in Numbers
      BY DEF CallOrNone, SignalNames, Numbers
    <2>3. Sound(q) /\ SameLine(Now, q) /\ Same(Fresh, Delivered(Fresh, q))
      BY <1>0, <1>1, <2>2, EmitSound, QuietEmits DEF CallBadTarget
    <2> HIDE DEF q
    <2>4. /\ q.active = NoCall /\ q.held = NoCall /\ q.waiting = NoCall /\ q.conference = FALSE
          /\ Delivered(Fresh, q) \in UiStates /\ Delivered(Fresh, q).menu = << >>
      BY <1>0, <1>1, <2>3 DEF SameLine, Same, Becomes
    <2> QED  BY <1>2, <2>1, <2>2, <2>3, <2>4
  <1> QED  BY <1>3, <1>4

\* Answering the waiting call swaps the numbers the way the core swaps the pointers.
LEMMA AnswersWaitingKeeps ==
    ASSUME WindowFits, AnswersWaiting
    PROVE  Kept
  <1> DEFINE c == Now.waiting
             taken == [Fresh EXCEPT !.heldPeer = InForeground(ui), !.peer = ui.waitingPeer,
                                    !.connected = NoCall, !.incoming = TRUE, !.answered = TRUE,
                                    !.waitingPeer = NoCall]
             o == Pause(Now, Now.active)
             q == [o EXCEPT !.held = Now.active]
             r == [q EXCEPT !.waiting = NoCall, !.active = c, !.lastParty = NoCall]
             a == Accept(r, c)
             t == PublishRemoteParty(a, c)
  <1>0. /\ Sound(Now) /\ \A b : Delivered(b, Now) = b /\ SameLine(core, Now)
        /\ Fits(Fresh, Now) /\ Fresh.state = ui.state /\ Fresh.menu = ui.menu
        /\ Fresh.peer = ui.peer /\ Fresh.waitingPeer = ui.waitingPeer
        /\ Fresh.connected = ui.connected
    BY StepStarts
  <1>1. /\ core' = AnswerWaitingCall(Now) /\ ui.state = "CallWaiting" /\ ui.menu = << >>
        /\ ui' = Apply(Deliver(taken, core'.sig), "TwoCalls", CanStartConference(core'))
    BY DEF AnswersWaiting, Step, Screen, Then
  <1>2. /\ c \in Calls /\ c # NoCall /\ ui.waitingPeer = c /\ Now.active \in Calls
        /\ Now.active # NoCall /\ Now.active # Now.waiting
        /\ Now.held = NoCall /\ Now.conference = FALSE
        /\ NoCall \in CallOrNone /\ c \in CallOrNone /\ Now.active \in CallOrNone
    BY <1>0, <1>1, NoCallAssumption
       DEF Fits, FitsBut, Sound, CoreStates, CallOrNone, LegsDistinctIn, LineShapeIn
  <1>3. InForeground(ui) \in Numbers /\ InForeground(ui) # NoCall
    BY <1>0, <1>2 DEF InForeground, Fits, FitsBut, UiStates, Numbers, WindowFits
  <1>4. /\ taken \in UiStates /\ taken.heldPeer # NoCall /\ taken.peer = c /\ taken.menu = << >>
        /\ taken.waitingPeer = NoCall
    BY <1>0, <1>1, <1>2, <1>3 DEF Fits, FitsBut, UiStates, Numbers
  <1> HIDE DEF taken
  <1>5. core' = t
    BY <1>1, <1>2 DEF AnswerWaitingCall
  <1>6. Sound(o) /\ SamePointers(Now, o) /\ o.sig = Now.sig
    BY <1>0, <1>2, PauseResumeSound, PauseResumeFits
  <1> HIDE DEF o
  <1>7. /\ r \in CoreStates /\ r.active = c /\ r.held = Now.active /\ r.waiting = NoCall
        /\ r.conference = FALSE /\ r.sig = Now.sig
    <2>1. /\ q \in CoreStates /\ q.held = Now.active /\ q.conference = o.conference /\ q.sig = o.sig
      BY <1>2, <1>6 DEF Sound, CoreStates
    <2> HIDE DEF q
    <2> QED  BY <1>2, <1>6, <2>1 DEF CoreStates, SamePointers
  <1> HIDE DEF r
  <1>8. /\ a \in CoreStates /\ a.active = c /\ a.held = Now.active /\ a.waiting = NoCall
        /\ a.conference = FALSE /\ a.sig = Now.sig
    <2>1. "accepted" \in CallStates
      BY DEF CallStates
    <2> QED  BY <1>7, <2>1 DEF Accept, CoreStates
  <1> HIDE DEF a
  <1>9. Delivered(taken, a) = taken
    BY <1>0, <1>8 DEF Delivered
  <1>10. /\ t.active = c /\ t.held = Now.active /\ t.waiting = NoCall /\ t.conference = FALSE
         /\ t \in CoreStates /\ Same(taken, Delivered(taken, t))
    BY <1>2, <1>4, <1>8, <1>9, PublishQuiet
  <1> HIDE DEF t
  <1> DEFINE w == Delivered(taken, t)
  <1>11. ui' = Apply(w, "TwoCalls", CanStartConference(t))
    BY <1>1, <1>5 DEF Delivered
  <1>12. w \in UiStates /\ w.heldPeer # NoCall /\ w.peer = c /\ w.menu = << >>
    BY <1>4, <1>10 DEF Same, Becomes
  <1> HIDE DEF w
  <1>13. CanStartConference(t) \in BOOLEAN /\ "TwoCalls" \in UiCallStates
    BY <1>10 DEF CanStartConference, CoreStates, UiCallStates
  <1>14. Becomes(w, ui', "TwoCalls", w.peer, w.heldPeer, w.waitingPeer)
    BY <1>11, <1>12, <1>13, ApplyIs
  <1>15. Fits(ui', t)
    BY <1>2, <1>10, <1>12, <1>14 DEF Fits, FitsBut, Becomes
  <1> QED  BY <1>2, <1>5, <1>10, <1>15 DEF Kept

\* Alternating swaps the numbers the way the core swaps the pointers.
LEMMA SwapsKeeps ==
    ASSUME WindowFits, Swaps
    PROVE  Kept
  <1> DEFINE o == Pause(Now, Now.active)
             q == Resume(o, Now.held)
             r == [q EXCEPT !.active = Now.held, !.held = Now.active, !.lastParty = NoCall]
             t == PublishRemoteParty(r, Now.held)
             after == Deliver(Fresh, core'.sig)
             v == [after EXCEPT !.peer = after.heldPeer, !.connected = NoCall,
                                !.heldPeer = InForeground(after)]
  <1>0. /\ Sound(Now) /\ \A b : Delivered(b, Now) = b /\ SameLine(core, Now)
        /\ Fits(Fresh, Now) /\ Fresh.state = ui.state /\ Fresh.menu = ui.menu
    BY StepStarts
  <1>1. /\ core' = SwapCalls(Now) /\ ui.state = "TwoCalls" /\ ui.menu = << >> /\ ui' = v
    BY DEF Swaps, Step, Screen
  <1>2. /\ Now.held \in Calls /\ Now.active \in Calls /\ Now.active # NoCall /\ Now.held # NoCall
        /\ Now.active # Now.held /\ Now.waiting = NoCall /\ Now.conference = FALSE
        /\ NoCall \in CallOrNone /\ Now.held \in CallOrNone /\ Now.active \in CallOrNone
    BY <1>0, <1>1, NoCallAssumption
       DEF Fits, FitsBut, Sound, CoreStates, CallOrNone, LegsDistinctIn, LineShapeIn
  <1>3. Sound(o) /\ SamePointers(Now, o) /\ o.sig = Now.sig
    BY <1>0, <1>2, PauseResumeSound, PauseResumeFits
  <1>4. core' = t
    BY <1>1, <1>2 DEF SwapCalls
  <1> HIDE DEF o
  <1>5. Sound(q) /\ SamePointers(o, q)
    BY <1>2, <1>3, PauseResumeSound DEF SamePointers
  <1>6. q.sig = Now.sig
    BY <1>3 DEF Resume, Sound, CoreStates
  <1> HIDE DEF q
  <1>7. /\ r \in CoreStates /\ r.active = Now.held /\ r.held = Now.active /\ r.waiting = NoCall
        /\ r.conference = FALSE /\ r.sig = Now.sig
    <2>1. q \in CoreStates /\ q.waiting = NoCall /\ q.conference = FALSE
      BY <1>2, <1>3, <1>5 DEF Sound, SamePointers
    <2> QED  BY <1>2, <1>6, <2>1 DEF CoreStates
  <1> HIDE DEF r
  <1>8. Delivered(Fresh, r) = Fresh /\ Fresh \in UiStates
    BY <1>0, <1>7 DEF Delivered, Fits, FitsBut
  <1>9. /\ t.active = Now.held /\ t.held = Now.active /\ t.waiting = NoCall /\ t.conference = FALSE
        /\ Same(Fresh, Delivered(Fresh, t))
    BY <1>2, <1>7, <1>8, PublishQuiet
  <1> HIDE DEF t
  <1>10. after = Delivered(Fresh, t)
    BY <1>4 DEF Delivered
  <1> HIDE DEF after
  <1>11. /\ after \in UiStates /\ after.state = "TwoCalls" /\ after.menu = << >>
         /\ after.peer # NoCall /\ after.heldPeer # NoCall
    BY <1>0, <1>1, <1>2, <1>9, <1>10 DEF Same, Becomes, Fits, FitsBut
  <1>12. InForeground(after) \in Numbers /\ InForeground(after) # NoCall
    BY <1>11 DEF InForeground, UiStates, Numbers
  <1>13. /\ v \in UiStates /\ v.state = "TwoCalls" /\ v.menu = << >> /\ v.peer # NoCall
         /\ v.heldPeer # NoCall
    BY <1>2, <1>11, <1>12 DEF UiStates
  <1> HIDE DEF v
  <1>14. Fits(v, t)
    BY <1>2, <1>9, <1>13 DEF Fits, FitsBut
  <1> QED  BY <1>1, <1>2, <1>4, <1>9, <1>14 DEF Kept

\* Every callback of the engine, with its slots, keeps the invariant.
LEMMA CallsBackKeeps ==
    ASSUME WindowFits, CallsBack
    PROVE  Kept
  <1>0. /\ Sound(Now) /\ SameLine(core, Now) /\ Fits(Delivered(Fresh, Now), Now)
        /\ Fresh.peer = ui.peer
    BY StepStarts
  <1>1. PICK c \in Calls :
           \/ CallArrives(c) \/ CallConnects(c) \/ MediaRuns(c) \/ IdentityChanges(c)
           \/ CallFails(c) \/ CallIsReleased(c)
           \/ \E elsewhere \in BOOLEAN : CallEnds(c, elsewhere)
    BY DEF CallsBack, EngineNext
  <1>2. c \in CallOrNone /\ Now.st = core.st /\ Now.down = core.down /\ FALSE \in BOOLEAN
    BY <1>0 DEF CallOrNone, SameLine
  <1>3. Settled(Fresh, Now, core')
    <2>1. CASE CallArrives(c)
      BY <1>0, <1>2, <2>1, IncomingFits DEF CallArrives, Step
    <2>2. CASE CallConnects(c)
      BY <1>0, <1>2, <2>2, ConnectedFits DEF CallConnects, Step
    <2>3. CASE MediaRuns(c)
      BY <1>0, <1>2, <2>3, StreamsRunningFits DEF MediaRuns, Step
    <2>4. CASE IdentityChanges(c)
      BY <1>0, <1>2, <2>4, PublishFits DEF IdentityChanges, Step
    <2>5. CASE CallFails(c)
      BY <1>0, <1>2, <2>5, GoneEventsFit DEF CallFails, Step
    <2>6. CASE CallIsReleased(c)
      BY <1>0, <1>2, <2>6, GoneEventsFit DEF CallIsReleased, Step
    <2>7. ASSUME NEW elsewhere \in BOOLEAN, CallEnds(c, elsewhere)
          PROVE  Settled(Fresh, Now, core')
      BY <1>0, <2>7, GoneEventsFit DEF CallEnds, Step
    <2> QED  BY <1>1, <2>1, <2>2, <2>3, <2>4, <2>5, <2>6, <2>7
  <1> QED  BY <1>0, <1>3, SettlesKept DEF CallsBack, Settles

\* Every button keeps the invariant and owes no record.
LEMMA WindowKeeps ==
    ASSUME WindowFits, WindowNext
    PROVE  Kept
  <1>1. ASSUME NEW c \in CallOrNone, Dials(c) \/ CallsTransferTarget(c) PROVE Kept
    BY <1>1, DialsKeep, CallsTransferTargetKeeps
  <1>2. CASE DialsBadTarget \/ CallsBadTransferTarget
    BY <1>2, DialsKeep, CallsBadTransferTargetKeeps
  <1>3. CASE Answers \/ AnswersWaiting \/ Declines \/ Swaps
    BY <1>3, AnswersKeeps, AnswersWaitingKeeps, DeclinesKeeps, SwapsKeeps
  <1>4. CASE HangsUp \/ DeclinesWaiting \/ Transfers \/ TogglesHold \/ TogglesDnd \/ Quits
    BY <1>4, SettlingActionsKeep
  <1>5. CASE GivesUpDialing \/ ClicksTransfer \/ CancelsTransfer
    BY <1>5, HoldActionsKeep, CancelsTransferKeeps
  <1>6. CASE CancelsForward \/ OpensMenu \/ ClosesMenu \/ ClicksForward
    BY <1>6, ScreenActionsKeep
  <1>7. ASSUME NEW created \in BOOLEAN, ClicksConference(created) PROVE Kept
    BY <1>7, SettlingActionsKeep
  <1>8. ASSUME NEW index \in {0, 1}, MenuDrops(index) PROVE Kept
    BY <1>8, SettlingActionsKeep
  <1>9. ASSUME NEW forward \in Forwards, SetsForward(forward) PROVE Kept
    BY <1>9, SetsForwardKeeps
  <1>10. ASSUME NEW forward \in Forwards \cup {"off"}, AppliesForward(forward) PROVE Kept
    BY <1>10, SettlingActionsKeep
  <1> QED
    BY <1>1, <1>2, <1>3, <1>4, <1>5, <1>6, <1>7, <1>8, <1>9, <1>10 DEF WindowNext

\* Every step of the composition keeps the invariant and owes no record.
LEMMA NextKeeps ==
    ASSUME WindowFits, Next
    PROVE  Kept /\ WindowFits'
  <1>1. Kept
    BY WindowKeeps, CallsBackKeeps DEF Next
  <1>2. Sound(core')
    BY StepIsCoreStep
  <1> QED  BY <1>1, <1>2 DEF Kept, WindowFits

\* The window starts idle over an idle line.
LEMMA InitFits == Init => WindowFits
  <1> SUFFICES ASSUME Init PROVE WindowFits
    OBVIOUS
  <1>1. /\ Sound(core) /\ core.active = NoCall /\ core.held = NoCall /\ core.waiting = NoCall
        /\ core.conference = FALSE
    <2>1. CoreInit
      BY DEF Init
    <2>2. Sound(core)
      BY <2>1, InitSound
    <2>3. /\ core.active = NoCall /\ core.held = NoCall /\ core.waiting = NoCall
          /\ core.conference = FALSE
      BY <2>1 DEF CoreInit
    <2> QED  BY <2>2, <2>3
  <1>2. /\ ui.state = "Idle" /\ ui.menu = << >> /\ ui \in UiStates
    <2>1. << >> \in Seq(Records)
      OBVIOUS
    <2> QED  BY <2>1 DEF Init, UiStates, UiCallStates, Numbers, CallOrNone
  <1> QED  BY <1>1, <1>2 DEF WindowFits, Fits, FitsBut

\* Whatever the user clicks and the engine reports, and in whatever order, the window shows the
\* situation the line is in once the slots have run.
THEOREM WindowFitsAlways == Spec => []WindowFits
  <1>1. ASSUME WindowFits, [Next]_<<core, ui>> PROVE WindowFits'
    <2>1. CASE Next
      BY <1>1, <2>1, NextKeeps
    <2>2. CASE UNCHANGED <<core, ui>>
      BY <1>1, <2>2 DEF WindowFits
    <2> QED  BY <1>1, <2>1, <2>2
  <1> QED  BY <1>1, InitFits, PTL DEF Spec

-------------------------------------------------------------------------------
(* The properties the runs check, for every set of calls. *)

\* The window's members always have the types MainWindow.h gives them.
THEOREM UiTyped == Spec => []UiTypeOK
  <1>1. WindowFits => UiTypeOK
    BY DEF WindowFits, Fits, FitsBut, UiTypeOK
  <1> QED  BY <1>1, WindowFitsAlways, PTL

\* An idle screen, or that of the forward target, never hides a call of the line.
THEOREM IdleHidesNothing == Spec => []IdleHidesNoCall
  <1>1. WindowFits => IdleHidesNoCall
    BY DEF WindowFits, Fits, FitsBut, IdleHidesNoCall, Sound, LineShapeIn
  <1> QED  BY <1>1, WindowFitsAlways, PTL

\* Each screen of a call is there only over the calls its keys act on, and that of the
\* conference exactly while there is one.
THEOREM ScreenIsOfTheLine == Spec => []ScreenShowsLine
  <1>1. WindowFits => ScreenShowsLine
    BY DEF WindowFits, Fits, FitsBut, ScreenShowsLine
  <1> QED  BY <1>1, WindowFitsAlways, PTL

\* The window on top of the core is an implementation of the core under its general user: it
\* keeps to the two rules CallControl assumes, so all that is proved there holds here.
THEOREM WindowImplementsCore == Spec => CoreSpec
  <1>1. ASSUME WindowFits, [Next]_<<core, ui>> PROVE [CoreNext]_core
    BY <1>1, StepIsCoreStep
  <1>2. Init => CoreInit
    BY DEF Init
  <1> QED  BY <1>1, <1>2, WindowFitsAlways, PTL DEF Spec, CoreSpec

\* When the line goes back on hook, the history got the call that ended in that very step, under
\* its own number, if the window had that number.
THEOREM EndedCallRecorded == Spec => EndedCallIsRecorded
  <1> DEFINE Hit == core'.active = NoCall /\ core.active # NoCall /\ ui.peer = core.active =>
                        \E i \in DOMAIN ui'.log : ui'.log[i].peer = core.active
  <1>1. ASSUME WindowFits, [Next]_<<core, ui>> PROVE [Hit]_<<core, ui>>
    <2>1. CASE Next
      BY <1>1, <2>1, NextKeeps DEF Kept, Logged
    <2> QED  BY <1>1, <2>1
  <1> HIDE DEF Hit
  <1>2. Spec => [][Hit]_<<core, ui>>
    BY <1>1, WindowFitsAlways, PTL DEF Spec
  <1> QED  BY <1>2 DEF EndedCallIsRecorded, Hit

\* The menu of the conference ends the call of the party it named, or none, whatever became of
\* the parties while it was open.
THEOREM MenuHitsNamedParty == Spec => DropHitsNamedParty
  <1> DEFINE Hit == \A index \in {0, 1} : MenuDrops(index) =>
                        \A c \in Calls : Live(core, c) /\ ~Live(core', c) => c = ui.menu[index + 1]
  <1>1. ASSUME WindowFits PROVE Hit
    <2> SUFFICES ASSUME NEW index \in {0, 1}, MenuDrops(index), NEW c \in Calls,
                        Live(core, c), ~Live(core', c)
                 PROVE  c = ui.menu[index + 1]
      OBVIOUS
    <2>1. Sound(Now) /\ SameLine(core, Now) /\ Now \in CoreStates
      BY <1>1, StepStarts DEF Sound
    <2>2. core' = DropConferenceParticipant(Now, index) /\ ui.menu # << >>
      BY DEF MenuDrops, Step
    <2>3. /\ Now.st = core.st /\ Now.active = core.active /\ Now.held = core.held
          /\ Now.conference = core.conference
      BY <2>1 DEF SameLine
    <2>4. Now.conference
      BY <2>2, <2>3 DEF DropConferenceParticipant, Live
    <2>5. ui.menu = << core.active, core.held >>
      BY <1>1, <2>2, <2>3, <2>4 DEF WindowFits, Fits, FitsBut
    <2> DEFINE d == IF index = 0 THEN Now.active ELSE Now.held
    <2>6. d \in CallOrNone /\ core' = Terminate(Now, d)
      BY <2>1, <2>2, <2>4 DEF DropConferenceParticipant, CoreStates
    <2>7. d = ui.menu[index + 1]
      BY <2>3, <2>5
    <2> HIDE DEF d
    <2>8. c = d
      BY <2>1, <2>3, <2>6, TerminateKeeps DEF Live
    <2> QED  BY <2>7, <2>8
  <1>2. ASSUME WindowFits, [Next]_<<core, ui>> PROVE [Hit]_<<core, ui>>
    BY <1>1, <1>2
  <1> HIDE DEF Hit
  <1>3. Spec => [][Hit]_<<core, ui>>
    BY <1>2, WindowFitsAlways, PTL DEF Spec
  <1> QED  BY <1>3 DEF DropHitsNamedParty, Hit

=================================================================================

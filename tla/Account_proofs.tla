---------------------------- MODULE Account_proofs ----------------------------
(***************************************************************************)
(* Proofs of the state invariants of Account, for every set of profiles    *)
(* and of account objects.  QueuedIsInstalled is a liveness property and   *)
(* is model-checked only.                                                  *)
(***************************************************************************)
EXTENDS Account, TLAPS

\* Before the engine is on there is nothing in it: no credentials and no registration.
EmptyWhileStarting ==
    phase = "starting" => auth = {} /\ bindings = {} /\ \A o \in Objects : reg[o] = "free"

\* The inductive invariant.
AInv ==
    /\ AccountTypeOK
    /\ LastProfileWins
    /\ OnlyCurrentCredentials
    /\ NoGhostRegistration
    /\ EmptyWhileStarting

\* What AInv says of the account once a profile has been applied to an engine that is on.
Applied(a) ==
    /\ account' \in Objects \cup {NoObject}
    /\ config' \in [Objects -> ProfileOrNone]
    /\ reg' \in [Objects -> RegStates]
    /\ auth' = IF account' = NoObject THEN {} ELSE {a}
    /\ account' # NoObject => config'[account'] = a
    /\ account' = NoObject => a \in Invalid
    /\ \A o \in Objects : o # account' => reg'[o] \in {"free", "removed"}

-------------------------------------------------------------------------------

\* clearAccount() keeps the registration states well formed and, when every other object is
\* already on its way out, leaves none registering.
LEMMA RemovedRetires ==
    ASSUME AccountTypeOK,
           \A o \in Objects : o # account => reg[o] \in {"free", "removed"}
    PROVE  /\ Removed(reg) \in [Objects -> RegStates]
           /\ \A o \in Objects : Removed(reg)[o] \in {"free", "removed"}
  BY ObjectsAssumption DEF Removed, AccountTypeOK, RegStates

\* applyAccountConfig() leaves the account of the profile applied, with its credentials alone,
\* or, for an identity that does not parse, no account and no credentials.
LEMMA ApplyInstalls ==
    ASSUME AccountTypeOK,
           \A o \in Objects : o # account => reg[o] \in {"free", "removed"},
           NEW a \in Profiles, NEW o \in Objects, ApplyAccountConfig(a, o)
    PROVE  Applied(a)
<1>1. /\ Removed(reg) \in [Objects -> RegStates]
      /\ \A x \in Objects : Removed(reg)[x] \in {"free", "removed"}
  BY RemovedRetires
<1>2. CASE a \in Invalid
  BY <1>1, <1>2, ObjectsAssumption DEF ApplyAccountConfig, Applied, AccountTypeOK
<1>3. CASE a \notin Invalid
  <2>1. /\ account' = o /\ auth' = {a}
        /\ reg' = [Removed(reg) EXCEPT ![o] = "progress"]
        /\ config' = [config EXCEPT ![o] = a]
    BY <1>3 DEF ApplyAccountConfig
  <2>2. reg' \in [Objects -> RegStates] /\ \A x \in Objects : x # o => reg'[x] \in {"free", "removed"}
    BY <1>1, <2>1 DEF RegStates
  <2>3. config' \in [Objects -> ProfileOrNone] /\ config'[o] = a
    BY <2>1 DEF AccountTypeOK, ProfileOrNone
  <2> QED
    BY <2>1, <2>2, <2>3, ObjectsAssumption DEF Applied
<1> QED
  BY <1>2, <1>3

-------------------------------------------------------------------------------

\* The constructor establishes the invariant.
LEMMA InitSound == Init => AInv
  BY ProfilesAssumption, ObjectsAssumption
  DEF Init, Started, AInv, AccountTypeOK, LastProfileWins, OnlyCurrentCredentials,
      NoGhostRegistration, EmptyWhileStarting, ProfileOrNone, Phases, RegStates

\* Applying a profile keeps the invariant, whether it is queued or installed at once.
LEMMA AppliesProfileSound ==
    ASSUME AInv, NEW a \in Profiles, NEW o \in Objects, AppliesProfile(a, o)
    PROVE  AInv'
<1>0. a \in ProfileOrNone /\ a # NoProfile
  BY ProfilesAssumption DEF ProfileOrNone
<1>1. CASE phase = "starting"
  BY <1>0, <1>1
  DEF AppliesProfile, ConfigureAccount, AInv, AccountTypeOK, LastProfileWins,
      OnlyCurrentCredentials, NoGhostRegistration, EmptyWhileStarting
<1>2. CASE phase = "on"
  <2>1. ApplyAccountConfig(a, o) /\ UNCHANGED pending
    BY <1>2 DEF AppliesProfile, ConfigureAccount
  <2>2. Applied(a)
    BY <1>2, <2>1, ApplyInstalls DEF AInv, NoGhostRegistration
  <2> QED
    BY <1>0, <1>2, <2>1, <2>2
    DEF AppliesProfile, Applied, AInv, AccountTypeOK, LastProfileWins,
        OnlyCurrentCredentials, NoGhostRegistration, EmptyWhileStarting
<1> QED
  BY <1>1, <1>2 DEF AppliesProfile, ConfigureAccount

\* The engine coming on keeps the invariant: the queue, if there is one, is the profile in force.
LEMMA GlobalOnSound ==
    ASSUME AInv, NEW o \in Objects, GlobalOn(o)
    PROVE  AInv'
<1>1. CASE pending = NoProfile
  BY <1>1
  DEF GlobalOn, core, AInv, AccountTypeOK, LastProfileWins, OnlyCurrentCredentials,
      NoGhostRegistration, EmptyWhileStarting, Phases, ProfileOrNone
<1>2. CASE pending # NoProfile
  <2>1. /\ pending' = NoProfile /\ ApplyAccountConfig(pending, o)
        /\ phase = "starting" /\ phase' = "on"
        /\ UNCHANGED << profile, saved, bindings, registered >>
    BY <1>2 DEF GlobalOn
  <2>2. pending \in Profiles /\ pending = profile
    BY <1>2, <2>1 DEF AInv, AccountTypeOK, LastProfileWins, ProfileOrNone
  <2>3. Applied(pending)
    BY <2>1, <2>2, ApplyInstalls DEF AInv, EmptyWhileStarting
  <2> QED
    BY <2>1, <2>2, <2>3
    DEF Applied, AInv, AccountTypeOK, LastProfileWins, OnlyCurrentCredentials,
        NoGhostRegistration, EmptyWhileStarting, Phases, ProfileOrNone
<1> QED
  BY <1>1, <1>2

\* What the engine reports of any object keeps the invariant: only the account in force can be
\* registering, so no report brings a removed one back.
LEMMA EngineSound ==
    ASSUME AInv, NEW o \in Objects, Engine(o)
    PROVE  AInv'
<1>1. PICK from, to, bound : /\ Reports(o, from, to, bound)
                             /\ from \subseteq RegStates \ {"free"}
                             /\ to \in RegStates
                             /\ to \in {"free", "removed"} \/ from \subseteq {"progress", "ok", "failed"}
  <2>1. CASE RegistrationOk(o)
    BY <2>1 DEF RegistrationOk, RegStates
  <2>2. CASE RegistrationFailed(o)
    BY <2>2 DEF RegistrationFailed, RegStates
  <2>3. CASE RegistrationRefreshed(o)
    BY <2>3 DEF RegistrationRefreshed, RegStates
  <2>4. CASE RegistrationCleared(o)
    BY <2>4 DEF RegistrationCleared, RegStates
  <2> QED
    BY <2>1, <2>2, <2>3, <2>4 DEF Engine
<1>2. /\ phase = "on" /\ reg[o] \in from /\ reg' = [reg EXCEPT ![o] = to]
      /\ bindings' \subseteq Objects /\ registered' \in BOOLEAN
      /\ UNCHANGED << phase, profile, saved, pending, account, config, auth >>
  BY <1>1 DEF Reports, AInv, AccountTypeOK
<1>3. reg' \in [Objects -> RegStates]
  BY <1>1, <1>2 DEF AInv, AccountTypeOK
<1>4. \A x \in Objects : x # account => reg'[x] \in {"free", "removed"}
  BY <1>1, <1>2 DEF AInv, AccountTypeOK, NoGhostRegistration
<1> QED
  BY <1>2, <1>3, <1>4
  DEF AInv, AccountTypeOK, LastProfileWins, OnlyCurrentCredentials, NoGhostRegistration,
      EmptyWhileStarting

\* Stopping, being killed and being launched again keep the invariant.
LEMMA ProcessSound ==
    ASSUME AInv, Shutdown \/ Killed \/ Launched
    PROVE  AInv'
<1>1. CASE Shutdown
  BY <1>1
  DEF Shutdown, AInv, AccountTypeOK, LastProfileWins, OnlyCurrentCredentials,
      NoGhostRegistration, EmptyWhileStarting, Phases, RegStates
<1>2. CASE Killed
  BY <1>2
  DEF Killed, core, AInv, AccountTypeOK, LastProfileWins, OnlyCurrentCredentials,
      NoGhostRegistration, EmptyWhileStarting, Phases
<1>3. CASE Launched
  BY <1>3
  DEF Launched, AInv, AccountTypeOK, LastProfileWins, OnlyCurrentCredentials,
      NoGhostRegistration, EmptyWhileStarting, Phases, RegStates, ProfileOrNone
<1> QED
  BY <1>1, <1>2, <1>3

\* The inductive invariant of the account holds in every state of every run.
THEOREM AccountSound == Spec => []AInv
<1>1. AInv /\ [Next]_vars => AInv'
  <2> SUFFICES ASSUME AInv, [Next]_vars PROVE AInv'
    OBVIOUS
  <2>1. CASE Next
    BY <2>1, AppliesProfileSound, GlobalOnSound, EngineSound, ProcessSound DEF Next
  <2>2. CASE UNCHANGED vars
    BY <2>2
    DEF vars, core, AInv, AccountTypeOK, LastProfileWins, OnlyCurrentCredentials,
        NoGhostRegistration, EmptyWhileStarting
  <2> QED
    BY <2>1, <2>2
<1> QED
  BY InitSound, <1>1, PTL DEF Spec

\* The members keep their types: an engine that comes on with nothing queued never applies an
\* empty account.
THEOREM AccountTypeCorrect == Spec => []AccountTypeOK
<1>1. AInv => AccountTypeOK
  BY DEF AInv
<1> QED
  BY <1>1, AccountSound, PTL

\* Whatever is applied before and after the engine is on, the account queued or installed is the
\* profile applied last.
THEOREM LastApplied == Spec => []LastProfileWins
<1>1. AInv => LastProfileWins
  BY DEF AInv
<1> QED
  BY <1>1, AccountSound, PTL

\* applyAccountConfig() never leaves a credential of an earlier account in the engine.
THEOREM CredentialsAreCurrent == Spec => []OnlyCurrentCredentials
<1>1. AInv => OnlyCurrentCredentials
  BY DEF AInv
<1> QED
  BY <1>1, AccountSound, PTL

\* No account that was replaced goes on registering, and a clean shutdown leaves no contact.
THEOREM ReplacedAccountRetires == Spec => []NoGhostRegistration
<1>1. AInv => NoGhostRegistration
  BY DEF AInv
<1> QED
  BY <1>1, AccountSound, PTL

===============================================================================

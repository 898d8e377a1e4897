-------------------------------- MODULE Account --------------------------------
(***************************************************************************)
(* The SIP account: SipCoreManager's queue for an account configured       *)
(* before the engine is on, the replacement of an account, its             *)
(* credentials, the unregistration at shutdown, and the window that keeps  *)
(* and saves the profile.  Registration is the engine's own business: it   *)
(* reports states of any account object it knows, removed ones included.   *)
(***************************************************************************)
EXTENDS FiniteSets

CONSTANTS
    Profiles,   \* the account profiles a user can apply
    Invalid,    \* those whose sip: identity liblinphone cannot parse
    NoProfile,  \* none
    Objects,    \* the LinphoneAccount objects the engine can hand out
    NoObject    \* nullptr

ASSUME ProfilesAssumption == Invalid \subseteq Profiles /\ NoProfile \notin Profiles
ASSUME ObjectsAssumption == NoObject \notin Objects

VARIABLES
    phase,      \* what the process and its engine are doing
    profile,    \* m_currentProfile, which also gives m_extension
    saved,      \* the profile in SettingsStore
    pending,    \* m_pendingAccount, NoProfile when m_hasPendingAccount is false
    account,    \* m_account
    config,     \* the profile each account object was created from
    auth,       \* the credentials the engine holds
    reg,        \* registration state of each account object
    bindings,   \* the objects the PBX has a contact for
    registered  \* m_registered

core == << pending, account, config, auth, reg >>
vars == << phase, profile, saved, core, bindings, registered >>

\* "starting": linphone_core_start() was called; "on": m_coreReady; "off": m_shutdownDone.
Phases == {"starting", "on", "off", "killed"}

\* "free": no such object; "removed": out of the core, its unREGISTER under way.
RegStates == {"free", "progress", "ok", "failed", "removed"}

ProfileOrNone == Profiles \cup {NoProfile}

-------------------------------------------------------------------------------
(* Building blocks. *)

\* clearAccount(), as seen by the registration states.
Removed(r) == IF account = NoObject THEN r ELSE [r EXCEPT ![account] = "removed"]

\* Fault: the credentials are kept apart from the account and stay behind.
ApplyKeepingAuth(a, o) ==
    /\ IF a \in Invalid
       THEN account' = NoObject /\ auth' = auth /\ reg' = Removed(reg) /\ config' = config
       ELSE /\ reg[o] = "free" /\ account' = o /\ auth' = auth \cup {a}
            /\ reg' = [Removed(reg) EXCEPT ![o] = "progress"]
            /\ config' = [config EXCEPT ![o] = a]

\* applyAccountConfig(): the old account and every credential go first; an identity that does
\* not parse leaves no account at all.
ApplyAccountConfig(a, o) ==
    /\ IF a \in Invalid
       THEN account' = NoObject /\ auth' = {} /\ reg' = Removed(reg) /\ config' = config
       ELSE /\ reg[o] = "free" /\ account' = o /\ auth' = {a}
            /\ reg' = [Removed(reg) EXCEPT ![o] = "progress"]
            /\ config' = [config EXCEPT ![o] = a]

\* Fault: the first account queued is the one that stays queued.
ConfigureFirstWins(a, o) ==
    \/ /\ phase = "starting"
       /\ pending' = IF pending = NoProfile THEN a ELSE pending
       /\ UNCHANGED << account, config, auth, reg >>
    \/ phase = "on" /\ ApplyAccountConfig(a, o) /\ UNCHANGED pending

\* configureAccount(): registering against an engine still starting does nothing, so queue.
ConfigureAccount(a, o) ==
    \/ phase = "starting" /\ pending' = a /\ UNCHANGED << account, config, auth, reg >>
    \/ phase = "on" /\ ApplyAccountConfig(a, o) /\ UNCHANGED pending

-------------------------------------------------------------------------------
(* The process. *)

\* The constructor: start the engine, then apply the profile saved by an earlier run.
Started(stored) ==
    /\ phase = "starting" /\ profile = stored /\ saved = stored /\ pending = stored
    /\ account = NoObject /\ auth = {} /\ bindings = {} /\ registered = FALSE
    /\ config = [o \in Objects |-> NoProfile] /\ reg = [o \in Objects |-> "free"]

Init == \E stored \in ProfileOrNone : Started(stored)

\* onSettingsApplied: apply the profile, then save it.
AppliesProfile(a, o) ==
    /\ ConfigureAccount(a, o)
    /\ profile' = a /\ saved' = a
    /\ UNCHANGED << phase, bindings, registered >>

\* Fault: an account in the queue is forgotten when the engine is on.
GlobalOnForgetsQueue(o) ==
    /\ phase = "starting" /\ phase' = "on"
    /\ UNCHANGED << core, profile, saved, bindings, registered >>

\* Fault: m_pendingAccount is applied without a look at m_hasPendingAccount.
GlobalOnIgnoresFlag(o) ==
    /\ phase = "starting" /\ phase' = "on"
    /\ pending' = NoProfile /\ ApplyAccountConfig(pending, o)
    /\ UNCHANGED << profile, saved, bindings, registered >>

\* handleGlobalStateChanged(On), out of the iterate timer.
GlobalOn(o) ==
    /\ phase = "starting" /\ phase' = "on"
    /\ IF pending = NoProfile
       THEN UNCHANGED core
       ELSE pending' = NoProfile /\ ApplyAccountConfig(pending, o)
    /\ UNCHANGED << profile, saved, bindings, registered >>

\* Fault: the engine is dropped without linphone_core_stop().
ShutdownWithoutStop ==
    /\ phase \in {"starting", "on"} /\ phase' = "off"
    /\ account' = NoObject /\ registered' = FALSE
    /\ UNCHANGED << profile, saved, pending, config, auth, reg, bindings >>

\* shutdown(): linphone_core_stop() blocks until every account is unregistered.
Shutdown ==
    /\ phase \in {"starting", "on"} /\ phase' = "off"
    /\ account' = NoObject /\ registered' = FALSE /\ bindings' = {}
    /\ reg' = [o \in Objects |-> "free"]
    /\ UNCHANGED << profile, saved, pending, config, auth >>

\* The process is killed: no unREGISTER is sent.
Killed ==
    /\ phase \in {"starting", "on"} /\ phase' = "killed"
    /\ UNCHANGED << profile, saved, core, bindings, registered >>

\* The next launch; contacts of an earlier run are the PBX's to expire.
Launched ==
    /\ phase \in {"off", "killed"} /\ phase' = "starting"
    /\ profile' = saved /\ pending' = saved
    /\ account' = NoObject /\ auth' = {} /\ bindings' = {} /\ registered' = FALSE
    /\ config' = [o \in Objects |-> NoProfile] /\ reg' = [o \in Objects |-> "free"]
    /\ UNCHANGED saved

-------------------------------------------------------------------------------
(* Registration, reported from the iterate timer while the engine is on. *)

Reports(o, from, to, bound) ==
    /\ phase = "on" /\ reg[o] \in from
    /\ reg' = [reg EXCEPT ![o] = to]
    /\ bindings' = IF bound THEN bindings \cup {o} ELSE bindings \ {o}
    /\ registered' = (to = "ok")
    /\ UNCHANGED << phase, profile, saved, pending, account, config, auth >>

RegistrationOk(o) == Reports(o, {"progress"}, "ok", TRUE)
RegistrationFailed(o) == Reports(o, {"progress"}, "failed", FALSE)
RegistrationRefreshed(o) == Reports(o, {"ok", "failed"}, "progress", o \in bindings)
RegistrationCleared(o) == Reports(o, {"removed"}, "free", FALSE)

Engine(o) == RegistrationOk(o) \/ RegistrationFailed(o) \/ RegistrationRefreshed(o)
             \/ RegistrationCleared(o)

Next ==
    \/ \E o \in Objects : Engine(o) \/ GlobalOn(o) \/ \E a \in Profiles : AppliesProfile(a, o)
    \/ Shutdown \/ Killed \/ Launched

Spec == Init /\ [][Next]_vars

\* The iterate timer, started with the engine, fires every 20 ms, and an engine that is
\* iterated gets on.
FairSpec == Spec /\ WF_vars(\E o \in Objects : GlobalOn(o))

-------------------------------------------------------------------------------
(* Properties. *)

\* The members have the types of the headers.
AccountTypeOK ==
    /\ phase \in Phases /\ profile \in ProfileOrNone /\ saved \in ProfileOrNone
    /\ pending \in ProfileOrNone /\ account \in Objects \cup {NoObject}
    /\ config \in [Objects -> ProfileOrNone] /\ auth \subseteq Profiles
    /\ reg \in [Objects -> RegStates] /\ bindings \subseteq Objects /\ registered \in BOOLEAN

\* The account that is queued or installed is the last one applied, whenever it was applied and
\* however often before the engine was on; and it is the one the next launch will read.
LastProfileWins ==
    /\ profile = saved
    /\ phase = "starting" => pending = profile /\ account = NoObject
    /\ phase = "on" => /\ pending = NoProfile
                       /\ account # NoObject => config[account] = profile
                       /\ account = NoObject => profile \in Invalid \cup {NoProfile}

\* The engine holds the credentials of the profile in force and no others: a stale entry would
\* be sent on every attempt and answered 403.
OnlyCurrentCredentials ==
    phase = "on" => auth = IF account = NoObject THEN {} ELSE {profile}

\* At most the account in force is registering: any other object is on its way out, and after a
\* clean shutdown the PBX has no contact of ours.
NoGhostRegistration ==
    /\ phase = "on" => \A o \in Objects \ {account} : reg[o] \in {"free", "removed"}
    /\ phase = "off" => bindings = {}

\* An account queued while the engine starts is not forgotten: it is installed, or replaced by
\* the user, or turns out invalid, or the program stops first.
QueuedIsInstalled ==
    pending # NoProfile ~> \/ account # NoObject /\ config[account] = profile
                           \/ profile \in Invalid \/ phase \in {"off", "killed"}

===============================================================================

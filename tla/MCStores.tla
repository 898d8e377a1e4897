------------------------------- MODULE MCStores --------------------------------
(***************************************************************************)
(* The account, the contacts and the history, in one run.  They share no    *)
(* state and no code, so a behaviour moves one of them, chosen when it      *)
(* starts.                                                                  *)
(***************************************************************************)
EXTENDS Account, Contacts, History

VARIABLE part

storesVars == << part, vars, contactsVars, historyVars >>

\* A part that does not move has one state: no account, a page that read its file.
StoresInit ==
    /\ part \in {"account", "contacts", "history"}
    /\ Init /\ ContactsInit /\ HistoryInit
    /\ part # "account" => profile = NoProfile
    /\ part # "history" => panel.read

StoresNext ==
    /\ UNCHANGED part
    /\ \/ part = "account" /\ Next /\ UNCHANGED << contactsVars, historyVars >>
       \/ part = "contacts" /\ ContactsNext /\ UNCHANGED << vars, historyVars >>
       \/ part = "history" /\ HistoryNext /\ UNCHANGED << vars, contactsVars >>

\* The fairness of Account and Contacts, for the part that moves.
StoresSpec ==
    /\ StoresInit /\ [][StoresNext]_storesVars
    /\ WF_vars(part = "account" /\ \E o \in Objects : GlobalOn(o))
    /\ WF_contactsVars(part = "contacts" /\ TimerFires)

=============================================================================

-------------------------------- MODULE CallLog --------------------------------
(***************************************************************************)
(* What the call history promises, whatever the file, the panel and the    *)
(* process do: a log of the latest calls, the newest first and never more  *)
(* than Capacity, that loses an entry to a newer one or all of them at     *)
(* once.                                                                   *)
(***************************************************************************)
EXTENDS Integers, Sequences

CONSTANTS
    Records,    \* the calls to be kept, each with its place `at' in the order of recording
    Capacity    \* how many the log holds

VARIABLE log

\* The first Capacity entries of a list.
Latest(list) == IF Len(list) > Capacity THEN SubSeq(list, 1, Capacity) ELSE list

Empty == log = << >>

\* A call is recorded, over the calls kept or over none.
Recorded(r) ==
    /\ \A i \in DOMAIN log : log[i].at < r.at
    /\ \E kept \in {log, << >>} : log' = Latest(<< r >> \o kept)

Emptied == log' = << >>

LogNext == (\E r \in Records : Recorded(r)) \/ Emptied

LogSpec == Empty /\ [][LogNext]_log

\* The order and the bound, as an invariant of the log.
NewestFirstBounded ==
    /\ Len(log) <= Capacity
    /\ \A i, j \in DOMAIN log : i < j => log[i].at > log[j].at

=============================================================================

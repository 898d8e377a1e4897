---------------------------- MODULE MCCallControl ----------------------------
(* Instance of CallControl for TLC: interchangeable calls. *)
EXTENDS CallControl, TLC

CallSymmetry == Permutations(Calls)

=============================================================================

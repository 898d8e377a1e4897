----------------------------- MODULE MCSoftphone -----------------------------
(* Instance of Softphone for TLC: interchangeable calls. *)
EXTENDS Softphone

CallSymmetry == Permutations(Calls)

\* The signals and the history records of the last step do not influence the next one.
Lasting == << Now, Fresh >>

=============================================================================

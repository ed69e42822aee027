----------------------------- MODULE MCRunLease -----------------------------
(* Small instances of RunLease for TLC. *)
EXTENDS RunLease, TLC

\* Job slots are interchangeable.
Symmetry == Permutations(Workers) \cup Permutations(Watchdogs)
=============================================================================

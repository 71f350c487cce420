---------------------------- MODULE EpcSelection ----------------------------
(***************************************************************************)
(* Loops over the parameters of a function that skip some of them.         *)
(***************************************************************************)
EXTENDS Integers, SequencesExt

\* A set of numbers as the sequence that a loop visits.
Ascending(S) ==
  CHOOSE s \in [1 .. Cardinality(S) -> S] :
    \A k, l \in 1 .. Cardinality(S) : k < l => s[k] < s[l]

=============================================================================

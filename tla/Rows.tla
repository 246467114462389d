-------------------------------- MODULE Rows ---------------------------------
(***************************************************************************)
(* A table whose order matters: a sequence of its rows, the one that was   *)
(* written last at the end.  The operators are not recursive, so that      *)
(* proofs can use them.                                                    *)
(***************************************************************************)
EXTENDS Integers, FiniteSets, Sequences

\* The k-th of the numbers in I, from the least.
Nth(I, k) == CHOOSE i \in I : Cardinality({j \in I : j <= i}) = k

\* The rows of seq that are in S, in the order they have.
Only(seq, S) ==
  LET I == {i \in DOMAIN seq : seq[i] \in S}
  IN [k \in 1..Cardinality(I) |-> seq[Nth(I, k)]]
=============================================================================

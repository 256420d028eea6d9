------------------------------- MODULE Sums -------------------------------
(* Sums of a quantity over a set of rows. *)
EXTENDS Integers, FiniteSets, FiniteSetsExt

\* The sum of f over the rows in S.
Total(f, S) == MapThenSumSet(LAMBDA x : f[x], S)

===========================================================================

----------------------------- MODULE FiniteSums -----------------------------
(* The sum of the values of a function with a finite domain.               *)
EXTENDS Integers, FiniteSets, FiniteSetsExt

SumOver(f) == MapThenSumSet(LAMBDA x : f[x], DOMAIN f)
=============================================================================

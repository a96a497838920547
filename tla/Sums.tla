--------------------------------- MODULE Sums ---------------------------------
(***************************************************************************)
(* Sums over a finite set, of the values a function has on it.             *)
(***************************************************************************)
EXTENDS FiniteSetsExt

SumOver(f, S) == MapThenSumSet(LAMBDA x : f[x], S)
=============================================================================

------------------------------- MODULE Totals -------------------------------
(***************************************************************************)
(* Sums.  The books of the exchange kit are sums of table columns (SELECT  *)
(* SUM(..), SumAccountBalances, totalZat += ..): Total(v, S) adds up v[x]  *)
(* over the finite set S.  What the proofs need of it is in LedgerProofs.  *)
(***************************************************************************)
EXTENDS Integers, FiniteSetsExt

Total(v, S) == MapThenSumSet(LAMBDA x : v[x], S)

=============================================================================

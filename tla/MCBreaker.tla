----------------------------- MODULE MCBreaker -----------------------------
(* Instances of Breaker for TLC: the code's window of 60 s, cooldown of 30 s  *)
(* and answers good for 30 s as 2, 1 and 1, so that a clock of 5 passes all.  *)
EXTENDS Breaker, TLC

CONSTANTS r1, r2

TwoRuns == {r1, r2}
RunSymmetry == Permutations(TwoRuns)
RecordsOf == TRUE :> 3 @@ FALSE :> 5
=============================================================================

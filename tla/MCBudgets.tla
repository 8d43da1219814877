------------------------------ MODULE MCBudgets ------------------------------
(* Pools of two bytes on a two-bit counter. *)
EXTENDS Budgets

CONSTANTS d1, d2, t1, t2, t3

MCLogs == d1 :> {1} @@ d2 :> {1, 2}
MCRows == t1 :> 2 @@ t2 :> 2 @@ t3 :> 1
=============================================================================

--------------------------- MODULE MCWithdrawals ---------------------------
(***************************************************************************)
(* Two withdrawals of one user that share the pending account; the second  *)
(* is the larger, so its hold can cover the first twice.                   *)
(***************************************************************************)
EXTENDS Withdrawals, TLC

MCAmount == [w \in Ids |-> IF w = "small" THEN 1 ELSE 2]

AdminsAlike == Permutations(Admins)
=============================================================================

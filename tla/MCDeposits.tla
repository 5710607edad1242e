----------------------------- MODULE MCDeposits -----------------------------
(***************************************************************************)
(* Two deposits of one user, for which the provider was paid differently.  *)
(***************************************************************************)
EXTENDS Deposits

MCGiven == [i \in Intents |-> IF i = "full" THEN 3 ELSE 1]
=============================================================================

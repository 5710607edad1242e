----------------------------- MODULE MCAccounts -----------------------------
(* Two tabs of one browser and an admin.                                   *)
EXTENDS Accounts, TLC

MCBrowserOf == [t \in Tabs |-> "home"]

TabSymmetry == Permutations(Tabs)
=============================================================================

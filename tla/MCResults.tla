----------------------------- MODULE MCResults -----------------------------
(***************************************************************************)
(* A contest of one or two matches that all end 1-0, and an entry that     *)
(* predicted so.                                                           *)
(***************************************************************************)
EXTENDS Results, TLC

MCActual == [f \in Fixtures |-> "1-0"]

MCPick == [e \in Entries |-> Actual]

WorkerSymmetry == Permutations(Workers)
=============================================================================

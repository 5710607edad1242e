----------------------------- MODULE MCCatalog -----------------------------
(* Two legs between the same teams (one ref stands for league and teams),  *)
(* synced by a scheduler and an admin, and relayed by two processes.       *)
EXTENDS Catalog

MCFixtures == <<"first", "second">>

MCParents == [ first  |-> <<"league">>,
               second |-> <<"league">> ]
=============================================================================

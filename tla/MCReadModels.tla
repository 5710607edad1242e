---------------------------- MODULE MCReadModels ----------------------------
(* Two contests of a player, who wins a prize in the second.               *)
EXTENDS ReadModels

MCContests == <<"early", "late">>

Pick(market, league, month, points) ==
  [market |-> market, league |-> league, month |-> month, points |-> points]

MCResult ==
  [ early |-> [points |-> 50, rank |-> 2, prize |-> 0,
               predictions |-> <<Pick("BTTS", "L1", "2026-05", 50)>>],
    late  |-> [points |-> 100, rank |-> 1, prize |-> 7,
               predictions |-> <<Pick("BTTS", "L1", "2026-06", 100)>>] ]
=============================================================================

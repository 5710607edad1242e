----------------------------- MODULE MCContest -----------------------------
(***************************************************************************)
(* One contest with a few entrants: fee 10, commission 15%, payout 50/30/20*)
(* as seeded.  The first user could pay twice, the second just once.       *)
(***************************************************************************)
EXTENDS Contest, TLC

MCOpening ==
  [a \in Accounts |-> CASE a \in {Escrow, Platform} -> 0
                        [] Rank[a] = 1 -> 20
                        [] Rank[a] = 2 -> 10
                        [] OTHER -> 5]

MCTemplate == <<[from |-> 1, to |-> 1, shareBps |-> 5000],
                [from |-> 2, to |-> 2, shareBps |-> 3000],
                [from |-> 3, to |-> 3, shareBps |-> 2000]>>

(* The winner takes it all, where who gets how much does not matter.      *)
MCWinnerTemplate == <<[from |-> 1, to |-> 1, shareBps |-> 10000]>>

MCRank == [u \in Users |-> CASE u = "ada" -> 1 [] u = "bola" -> 2 [] OTHER -> 3]

(* Nothing tells one client key from another.                              *)
KeysAlike == Permutations(ClientKeys)
=============================================================================

------------------------------- MODULE Ranking -------------------------------
(***************************************************************************)
(* The tie-break chain of a contest's final ranking.                       *)
(***************************************************************************)
EXTENDS Integers, FiniteSets

CONSTANTS
  EntryIds,
  Draw          \* the value of each entry's draw hash

(* Two entries' hashes never collide in practice.                          *)
ASSUME RankingAssumption ==
  /\ Draw \in [EntryIds -> Nat]
  /\ \A x, y \in EntryIds : x # y => Draw[x] # Draw[y]

RankableEntries ==
  [entryId : EntryIds, totalPointsX10 : Nat, correctExpert : Nat, correctHard : Nat,
   submittedAt : Nat]

(* compareEntries(a, b) < 0: points, then right Expert and Hard picks,     *)
(* then the earlier slip, then the draw.                                   *)
RanksBefore(a, b) ==
  \/ a.totalPointsX10 > b.totalPointsX10
  \/ /\ a.totalPointsX10 = b.totalPointsX10
     /\ \/ a.correctExpert > b.correctExpert
        \/ /\ a.correctExpert = b.correctExpert
           /\ \/ a.correctHard > b.correctHard
              \/ /\ a.correctHard = b.correctHard
                 /\ \/ a.submittedAt < b.submittedAt
                    \/ /\ a.submittedAt = b.submittedAt
                       /\ Draw[a.entryId] < Draw[b.entryId]

(* rankEntries: the position each of the entries gets.                     *)
RankEntries(entries) ==
  [a \in entries |-> 1 + Cardinality({b \in entries : RanksBefore(b, a)})]
=============================================================================

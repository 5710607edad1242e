------------------------------ MODULE Markets ------------------------------
(***************************************************************************)
(* The game itself: the ten prediction markets in four tiers, what each    *)
(* lets a player pick, which picks a final result makes right and what     *)
(* they are worth.  Points are in tenths.                                  *)
(***************************************************************************)
EXTENDS Integers, Sequences, FiniteSets, FiniteSetsExt, Functions, TLC

CONSTANT SlotDistribution   \* slots of a contest, per tier; 2, 3, 3, 2 in the code

Tiers == {"EASY", "MEDIUM", "HARD", "EXPERT"}

MarketsByTier ==
  [EASY   |-> <<"MATCH_WINNER", "DOUBLE_CHANCE">>,
   MEDIUM |-> <<"OVER_UNDER_25", "BTTS", "FIRST_HALF_WINNER", "FIRST_TEAM_TO_SCORE">>,
   HARD   |-> <<"WINNING_MARGIN", "CLEAN_SHEET", "EXACT_GOALS">>,
   EXPERT |-> <<"CORRECT_SCORE">>]

MarketTier ==
  [MATCH_WINNER |-> "EASY", DOUBLE_CHANCE |-> "EASY",
   OVER_UNDER_25 |-> "MEDIUM", BTTS |-> "MEDIUM", FIRST_HALF_WINNER |-> "MEDIUM",
   FIRST_TEAM_TO_SCORE |-> "MEDIUM",
   WINNING_MARGIN |-> "HARD", CLEAN_SHEET |-> "HARD", EXACT_GOALS |-> "HARD",
   CORRECT_SCORE |-> "EXPERT"]

MarketTypes == DOMAIN MarketTier

ASSUME MarketsAssumption == SlotDistribution \in [Tiers -> Nat]

-----------------------------------------------------------------------------
(* What a player may pick.                                                 *)

Scoreline(home, away) == ToString(home) \o "-" \o ToString(away)

(* Goals are printed in decimal: a scoreline tells both sides' goals.      *)
ASSUME ScorelinesAssumption ==
  Cardinality({Scoreline(h, a) : h \in 0 .. 99, a \in 0 .. 99}) = 100 * 100

(* The winner and the margin a pick names, three standing for any above.   *)
MarginOf ==
  [HOME_BY_1 |-> <<"HOME", 1>>, HOME_BY_2 |-> <<"HOME", 2>>, HOME_BY_3_PLUS |-> <<"HOME", 3>>,
   AWAY_BY_1 |-> <<"AWAY", 1>>, AWAY_BY_2 |-> <<"AWAY", 2>>, AWAY_BY_3_PLUS |-> <<"AWAY", 3>>]

GoalCounts == <<"0", "1", "2", "3", "4", "5_PLUS">>

Selections ==
  [MATCH_WINNER        |-> {"HOME", "DRAW", "AWAY"},
   DOUBLE_CHANCE       |-> {"HOME_OR_DRAW", "AWAY_OR_DRAW", "HOME_OR_AWAY"},
   OVER_UNDER_25       |-> {"OVER", "UNDER"},
   BTTS                |-> {"YES", "NO"},
   FIRST_HALF_WINNER   |-> {"HOME", "DRAW", "AWAY"},
   FIRST_TEAM_TO_SCORE |-> {"HOME", "AWAY", "NO_GOAL"},
   WINNING_MARGIN      |-> DOMAIN MarginOf \cup {"DRAW"},
   CLEAN_SHEET         |-> {"HOME", "AWAY", "BOTH", "NONE"},
   EXACT_GOALS         |-> Range(GoalCounts),
   CORRECT_SCORE       |-> {Scoreline(h, a) : h \in 0 .. 9, a \in 0 .. 9}]

-----------------------------------------------------------------------------
(* Which picks a final result r makes right.                               *)

(* FinalizeResultRequest: what an admin may enter.                         *)
AcceptableResult(r) ==
  /\ {r.homeGoals, r.awayGoals, r.htHomeGoals, r.htAwayGoals} \subseteq 0 .. 99
  /\ r.htHomeGoals <= r.homeGoals /\ r.htAwayGoals <= r.awayGoals
  /\ r.homeGoals + r.awayGoals = 0 <=> r.firstToScore = "NONE"

Outcome(home, away) ==
  IF home > away THEN "HOME" ELSE IF home < away THEN "AWAY" ELSE "DRAW"

LeftOut == [HOME_OR_DRAW |-> "AWAY", AWAY_OR_DRAW |-> "HOME", HOME_OR_AWAY |-> "DRAW"]

(* Mutant: a margin above three is not "3+".                               *)
MarginExact(diff) == diff

Margin(diff) == IF diff >= 3 THEN 3 ELSE diff

Winners(r) ==
  LET full == Outcome(r.homeGoals, r.awayGoals)
      total == r.homeGoals + r.awayGoals
      diff == r.homeGoals - r.awayGoals
      clean == <<r.awayGoals = 0, r.homeGoals = 0>>
  IN  [MATCH_WINNER        |-> {full},
       DOUBLE_CHANCE       |-> {pair \in DOMAIN LeftOut : LeftOut[pair] # full},
       OVER_UNDER_25       |-> {IF total >= 3 THEN "OVER" ELSE "UNDER"},
       BTTS                |-> {IF r.homeGoals > 0 /\ r.awayGoals > 0 THEN "YES" ELSE "NO"},
       FIRST_HALF_WINNER   |-> {Outcome(r.htHomeGoals, r.htAwayGoals)},
       FIRST_TEAM_TO_SCORE |-> {IF r.firstToScore = "NONE" THEN "NO_GOAL" ELSE r.firstToScore},
       WINNING_MARGIN      |->
         IF diff = 0 THEN {"DRAW"}
         ELSE {pick \in DOMAIN MarginOf :
                 MarginOf[pick] = <<full, Margin(IF diff > 0 THEN diff ELSE -diff)>>},
       CLEAN_SHEET         |-> {CASE clean = <<TRUE, TRUE>> -> "BOTH"
                                  [] clean = <<TRUE, FALSE>> -> "HOME"
                                  [] clean = <<FALSE, TRUE>> -> "AWAY"
                                  [] OTHER -> "NONE"},
       EXACT_GOALS         |-> {GoalCounts[1 + (IF total >= 5 THEN 5 ELSE total)]},
       CORRECT_SCORE       |-> {Scoreline(r.homeGoals, r.awayGoals)}]

-----------------------------------------------------------------------------
(* What a right pick is worth; points is a rule set.                       *)

DefaultTierPointsX10 == [EASY |-> 50, MEDIUM |-> 100, HARD |-> 150, EXPERT |-> 325]

DefaultMarketPointsX10 == [m \in MarketTypes |-> DefaultTierPointsX10[MarketTier[m]]]

MaxPointsX10 == 10000

(* Exactly one rule per market, as an admin's rule set must have.          *)
AcceptableRules(rules) ==
  /\ Len(rules) = Cardinality(MarketTypes)
  /\ {rules[i].marketType : i \in DOMAIN rules} = MarketTypes
  /\ \A i \in DOMAIN rules : rules[i].pointsX10 \in 1 .. MaxPointsX10

PointsOf(rules) ==
  [m \in MarketTypes |-> (CHOOSE rule \in {rules[i] : i \in DOMAIN rules} :
                            rule.marketType = m).pointsX10]

ScorePrediction(prediction, result, points) ==
  IF prediction.selection \in Winners(result)[prediction.marketType]
  THEN points[prediction.marketType] ELSE 0

(* The best market of each tier in every slot.                             *)
MaxSlipScore(points) ==
  LET best(tier) == Max({points[m] : m \in {x \in MarketTypes : MarketTier[x] = tier}})
  IN  SumFunction([tier \in Tiers |-> SlotDistribution[tier] * best(tier)])
=============================================================================

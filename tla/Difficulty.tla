----------------------------- MODULE Difficulty -----------------------------
(***************************************************************************)
(* The difficulty engine: signals of unpredictability from two sides' form *)
(* and their head-to-head, averaged under a weight set over the signals    *)
(* there are, and the stars the average is worth.  Signals are integers in *)
(* 0 .. Unit, Unit being a multiple of every denominator the service's     *)
(* input can bring, so nothing is rounded; weights are in hundredths.      *)
(* Forms, head-to-head and input are records of the fields that are known. *)
(***************************************************************************)
EXTENDS Integers, Sequences, FiniteSets, FiniteSetsExt, Functions

Unit == 239400   \* 2^3 3^2 5^2 7 19

Part(n, d) == (Unit * n) \div d

Clamp01(n) == IF n < 0 THEN 0 ELSE IF n > Unit THEN Unit ELSE n

Gap(a, b) == IF a > b THEN a - b ELSE b - a

(* How even a and b are where a gap of d is as uneven as it gets.          *)
Evenness(a, b, d) == Clamp01(Unit - Part(Gap(a, b), d))

FormPoints(last5) ==
  SumFunction([i \in DOMAIN last5 |->
                 IF last5[i] = "W" THEN 3 ELSE IF last5[i] = "D" THEN 1 ELSE 0])

SignalNames ==
  {"form", "homeAdvantage", "leaguePosition", "goalDifference", "headToHead", "recentGoals",
   "defensiveRecord", "injuries", "suspensions", "historical"}

(* CreateWeightSetBody: what admins may weigh, in hundredths.              *)
AcceptableWeights(weights) ==
  /\ DOMAIN weights \subseteq SignalNames
  /\ \A k \in DOMAIN weights : weights[k] \in 0 .. 100

(* The field of both sides' form a signal is taken from.                   *)
FieldOf ==
  [leaguePosition |-> "leaguePosition", goalDifference |-> "goalDifference",
   recentGoals |-> "goalsScoredLast5", defensiveRecord |-> "goalsConcededLast5",
   injuries |-> "injuriesCount", suspensions |-> "suspensionsCount"]

Present(input, k) ==
  CASE k = "form" -> /\ "last5" \in DOMAIN input.home \cap DOMAIN input.away
                     /\ << >> \notin {input.home.last5, input.away.last5}
    [] k = "homeAdvantage" -> "homeWinRate" \in DOMAIN input
    [] k = "headToHead" -> "matches" \in DOMAIN input.headToHead /\ input.headToHead.matches > 0
    [] k = "historical" -> FALSE
    [] OTHER -> FieldOf[k] \in DOMAIN input.home \cap DOMAIN input.away

(* homeWinRate is in hundredths.                                           *)
Signal(input, k) ==
  LET home == input.home
      away == input.away
      h2h == input.headToHead
      tableSize == IF "tableSize" \in DOMAIN input THEN input.tableSize ELSE 20
      even(d) == Evenness(home[FieldOf[k]], away[FieldOf[k]], d)
      missing(d) == Clamp01(Part(home[FieldOf[k]] + away[FieldOf[k]], d))
  IN  CASE k = "form" -> Evenness(FormPoints(home.last5), FormPoints(away.last5), 15)
        [] k = "homeAdvantage" -> Evenness(input.homeWinRate, 50, 50)
        [] k = "leaguePosition" -> even(Max({2, tableSize - 1}))
        [] k = "goalDifference" -> even(30)
        [] k = "headToHead" -> Evenness(h2h.homeWins, h2h.awayWins, h2h.matches)
        [] k \in {"recentGoals", "defensiveRecord"} -> even(10)
        [] k = "injuries" -> missing(10)
        [] k = "suspensions" -> missing(6)

ComputeSignals(input) ==
  [k \in {x \in SignalNames : Present(input, x)} |-> Signal(input, k)]

Weighing(signals, weights) ==
  {k \in DOMAIN signals \cap DOMAIN weights : weights[k] > 0}

(* 0 .. 1 in fifths; score is the fraction of Unit * by.                   *)
ScoreToStars(score, by) == Min({5, (5 * score) \div (Unit * by) + 1})

(* Mutant: the weights of absent signals count, with a signal of zero.     *)
ComputeStarsAbsent(input, weights) ==
  LET signals == ComputeSignals(input)
      used == Weighing(signals, weights)
  IN  ScoreToStars(SumFunction([k \in used |-> signals[k] * weights[k]]), SumFunction(weights))

(* Neutral where no signal counts.                                         *)
ComputeStars(input, weights) ==
  LET signals == ComputeSignals(input)
      used == Weighing(signals, weights)
      weightSum == SumFunctionOnSet(weights, used)
      score == SumFunction([k \in used |-> signals[k] * weights[k]])
  IN  IF weightSum = 0 THEN 3 ELSE ScoreToStars(score, weightSum)
=============================================================================

------------------------------- MODULE Tables -------------------------------
(***************************************************************************)
(* The pure parts of the code, each a table with a row per input.  A row   *)
(* is a record whose field table says which; a contest's entrants join     *)
(* one by one and a slip is built choice by choice, other rows are as they *)
(* are.                                                                    *)
(*   prizes   fee, commissionBps, template, entrants                       *)
(*   rank     entries, a set                                               *)
(*   result   result, as an admin enters it                                *)
(*   slip     slots of a contest, and choices of the builder over them     *)
(*   sent     slots of a contest, and predictions some client sends        *)
(*   stars    input and weights of the difficulty engine                   *)
(***************************************************************************)
EXTENDS Prizes, Ranking, Slips, Difficulty

CONSTANTS
  Typed,           \* what players type where a custom score goes
  Difficulties,    \* stars and overrideStars a fixture has
  RuleSets         \* the numbers admins may give the markets

VARIABLE row

Join ==
  /\ row.table = "prizes"
  /\ row' = [row EXCEPT !.entrants = @ + 1]

Choose ==
  /\ row.table = "slip"
  /\ \E i \in DOMAIN row.slots :
       \/ \E market \in MarketsOffered(row.slots[i]) :
            row' = [row EXCEPT !.choices = SetMarket(@, i, market)]
       \/ \E typed \in Typed :
            \E selection \in SelectionsOffered(row.choices[i].marketType, typed) :
              row' = [row EXCEPT !.choices = SetSelection(@, i, selection)]

-----------------------------------------------------------------------------

(* What entrants pay in and the platform does not keep, the pool they were *)
(* shown in the list of contests, is paid out to the last minor unit       *)
(* (ranking.ts, "the full pool is always distributed"):                    *)
(* each paid position below the first gets its share of the pool among the *)
(* positions that are paid, rounded down; the first gets at least that,    *)
(* and less than one unit per other position more.  However entries tie,   *)
(* each position goes to one of them.                                      *)
PoolFullyDistributed ==
  /\ row.table = "prizes" =>
       LET pool == PrizePool(row.fee * row.entrants, row.commissionBps)
           prize == ComputePrizes(pool, row.template, row.entrants)
           share == PerPosition(row.template)
           total == SumFunctionOnSet(share, DOMAIN prize)
           exact(pos) == pool * share[pos]
       IN  pool > 0 =>
             /\ SumFunction(prize) = EstimatedPool(row.fee, row.entrants, row.commissionBps)
             /\ DOMAIN prize = PaidPositions(row.template, row.entrants)
             /\ \A pos \in DOMAIN prize :
                  /\ prize[pos] * total <= exact(pos) \/ pos = 1
                  /\ exact(pos) < (prize[pos] + 1) * total
             /\ prize[1] * total <= exact(1) + total * (Cardinality(DOMAIN prize) - 1)
  /\ row.table = "rank" => Range(RankEntries(row.entries)) = 1 .. Cardinality(row.entries)

(* Whatever the result, each market has exactly one winning selection a    *)
(* player could have made, two for double chance, and none for a correct   *)
(* score beyond nine goals a side (market-scorers.ts against markets.ts).  *)
OneSelectionWins ==
  row.table = "result" =>
    \A m \in MarketTypes :
      LET scores(selection) ==
            ScorePrediction([marketType |-> m, selection |-> selection], row.result,
                            DefaultMarketPointsX10) = DefaultMarketPointsX10[m]
      IN  Cardinality({selection \in Selections[m] : scores(selection)}) =
            CASE m = "DOUBLE_CHANCE" -> 2
              [] m = "CORRECT_SCORE" /\ (row.result.homeGoals > 9 \/ row.result.awayGoals > 9) -> 0
              [] OTHER -> 1

(* A slip gives each slot of the contest one market of the slot's tier and *)
(* one of that market's selections.                                        *)
FullSlip(slots, predictions) ==
  /\ Len(predictions) = Len(slots)
  /\ {predictions[i].slotId : i \in DOMAIN predictions} = DOMAIN slots
  /\ \A i \in DOMAIN predictions :
       LET p == predictions[i] IN
       /\ MarketTier[p.marketType] = slots[p.slotId].tier
       /\ p.selection \in Selections[p.marketType]

(* In any contest that could be created, a slip the builder lets a player  *)
(* submit is complete and the API accepts it; the risk the player saw is   *)
(* the risk stored with the entry, under the launch rule set, computed     *)
(* stars, overridden ones or none (risk.ts, "the server can recompute the  *)
(* identical value"); and whatever a rule set gives a market, no slip can  *)
(* score more than the maximum an admin is shown for it.                   *)
SubmittedAsShown ==
  row.table = "slip" /\ SubmitEnabled(row.choices) =>
    LET sent == Predictions(row.choices) IN
    /\ FullSlip(row.slots, sent)
    /\ Violations(row.slots, sent) = {}
    /\ \A difficulty \in [DOMAIN row.slots -> Difficulties] :
         StoredRisk(sent, DefaultMarketPointsX10, difficulty)
           = ShownRisk(row.choices, [i \in DOMAIN difficulty |-> StarsSent(difficulty[i])])
    /\ \A rules \in RuleSets :
         LET points == PointsOf(rules) IN
         AcceptableRules(rules) =>
           SumFunction([i \in DOMAIN sent |-> points[sent[i].marketType]]) <= MaxSlipScore(points)

(* The API accepts full slips and no other slip, whoever sends it.         *)
OnlyFullSlipsAccepted ==
  row.table = "sent" =>
    (Violations(row.slots, row.predictions) = {} <=> FullSlip(row.slots, row.predictions))

(* A fixture's stars lie between those its most and its least predictable  *)
(* weighted signal would have alone: absent signals pull nothing down.     *)
StarsFollowSignals ==
  row.table = "stars" =>
    LET signals == ComputeSignals(row.input)
        alone == {ScoreToStars(signals[k], 1) : k \in Weighing(signals, row.weights)}
        stars == ComputeStars(row.input, row.weights)
    IN  IF alone = {} THEN stars = 3 ELSE Min(alone) <= stars /\ stars <= Max(alone)
=============================================================================

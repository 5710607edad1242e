------------------------------- MODULE Slips -------------------------------
(***************************************************************************)
(* A contest's ten slots as an admin drafts them, the slip a player builds *)
(* over them in the browser, the API's validation of a slip, and the risk  *)
(* figure both compute.  A draft is a record of fixtures and slots, both   *)
(* sequences; a slot has a slotNo, a fixture and a tier.                   *)
(***************************************************************************)
EXTENDS Markets

TotalSlots == SumFunction(SlotDistribution)

-----------------------------------------------------------------------------
(* contests.create                                                         *)

BadSlotConfig(slots) ==
  \/ Len(slots) # TotalSlots
  \/ \E tier \in Tiers :
       Cardinality({i \in DOMAIN slots : slots[i].tier = tier}) # SlotDistribution[tier]

Distinct(seq, Key(_)) == Cardinality({Key(seq[i]) : i \in DOMAIN seq}) = Len(seq)

(* fixture tells the status and kickoff of the fixtures there are.  The    *)
(* unique keys of contest_matches refuse a fixture or an order given twice.*)
DraftRefused(draft, fixture, now) ==
  LET chosen == {draft.fixtures[i].fixtureId : i \in DOMAIN draft.fixtures} IN
  \/ BadSlotConfig(draft.slots)
  \/ \E i \in DOMAIN draft.slots : draft.slots[i].fixtureId \notin chosen
  \/ Cardinality({draft.slots[i].slotNo : i \in DOMAIN draft.slots}) # TotalSlots
  \/ ~(chosen \subseteq DOMAIN fixture)
  \/ \E f \in chosen : fixture[f].status # "SCHEDULED" \/ fixture[f].kickoffAt <= now
  \/ ~Distinct(draft.fixtures, LAMBDA f : f.fixtureId)
  \/ ~Distinct(draft.fixtures, LAMBDA f : f.order)

-----------------------------------------------------------------------------
(* The prediction builder: per slot a market and, maybe, a selection.      *)

Unpicked == "none"

Choice(market, selection) == [marketType |-> market, selection |-> selection]

InitialChoices(slots) ==
  [i \in DOMAIN slots |-> Choice(MarketsByTier[slots[i].tier][1], Unpicked)]

(* Mutant: another market keeps the selection made for the last one.       *)
SetMarketKeeping(choices, i, market) == [choices EXCEPT ![i].marketType = market]

SetMarket(choices, i, market) == [choices EXCEPT ![i] = Choice(market, Unpicked)]

SetSelection(choices, i, selection) == [choices EXCEPT ![i].selection = selection]

(* Markets a slot has buttons for.                                         *)
MarketsOffered(slot) ==
  LET markets == MarketsByTier[slot.tier]
  IN  {markets[k] : k \in {x \in DOMAIN markets : Len(markets) > 1}}

(* The buttons of the other markets, a list of the builder's own.          *)
SelectionOptions ==
  LET sides == {"HOME", "AWAY"}
      winner == sides \cup {"DRAW"}
  IN  [MATCH_WINNER |-> winner, FIRST_HALF_WINNER |-> winner,
       DOUBLE_CHANCE |-> {"HOME_OR_DRAW", "AWAY_OR_DRAW", "HOME_OR_AWAY"},
       OVER_UNDER_25 |-> {"OVER", "UNDER"}, BTTS |-> {"YES", "NO"},
       FIRST_TEAM_TO_SCORE |-> sides \cup {"NO_GOAL"},
       WINNING_MARGIN |-> {"HOME_BY_1", "HOME_BY_2", "HOME_BY_3_PLUS", "DRAW",
                           "AWAY_BY_1", "AWAY_BY_2", "AWAY_BY_3_PLUS"},
       CLEAN_SHEET |-> sides \cup {"BOTH", "NONE"},
       EXACT_GOALS |-> {"0", "1", "2", "3", "4", "5_PLUS"}]

CorrectScoreGrid ==
  {Scoreline(goals[1], goals[2]) :
     goals \in {<<1, 0>>, <<2, 0>>, <<2, 1>>, <<3, 1>>, <<0, 0>>, <<1, 1>>, <<2, 2>>, <<0, 1>>,
                <<0, 2>>, <<1, 2>>, <<1, 3>>, <<3, 0>>}}

(* A custom score counts once what was typed has the form of one.          *)
SelectionsOffered(market, typed) ==
  IF market = "CORRECT_SCORE"
  THEN CorrectScoreGrid \cup ({typed} \cap Selections[market])
  ELSE SelectionOptions[market]

SubmitEnabled(choices) == \A i \in DOMAIN choices : choices[i].selection # Unpicked

Predictions(choices) ==
  [i \in DOMAIN choices |-> [slotId |-> i, marketType |-> choices[i].marketType,
                             selection |-> choices[i].selection]]

-----------------------------------------------------------------------------
(* validateSlip: the codes of the violations.  A slot's id is its index.   *)

(* Mutant: a slot predicted twice is not noticed.                          *)
ViolationsUnseen(slots, predictions) ==
  LET wrong(i) == LET p == predictions[i] IN
        \/ p.slotId \notin DOMAIN slots
        \/ MarketTier[p.marketType] # slots[p.slotId].tier
        \/ p.selection \notin Selections[p.marketType]
  IN  IF BadSlotConfig(slots) THEN {"BAD_SLOT_CONFIG"}
      ELSE IF Len(predictions) # TotalSlots THEN {"WRONG_COUNT"}
      ELSE {"INVALID_SELECTION" : i \in {x \in DOMAIN predictions : wrong(x)}}

Violations(slots, predictions) ==
  LET known == {i \in DOMAIN predictions : predictions[i].slotId \in DOMAIN slots}
      first == {i \in known : \A j \in known : predictions[j].slotId = predictions[i].slotId
                                               => i <= j}
      code(c, set) == {c : i \in set}
  IN  IF BadSlotConfig(slots) THEN {"BAD_SLOT_CONFIG"}
      ELSE IF Len(predictions) # TotalSlots THEN {"WRONG_COUNT"}
      ELSE code("UNKNOWN_SLOT", DOMAIN predictions \ known)
           \cup code("DUPLICATE_SLOT", known \ first)
           \cup code("MARKET_TIER_MISMATCH",
                     {i \in first : MarketTier[predictions[i].marketType]
                                    # slots[predictions[i].slotId].tier})
           \cup code("INVALID_SELECTION",
                     {i \in first : predictions[i].selection
                                    \notin Selections[predictions[i].marketType]})
           \cup code("MISSING_SLOT",
                     DOMAIN slots \ {predictions[i].slotId : i \in first})

-----------------------------------------------------------------------------
(* The risk meter.  Risks are in units of 1/10000: the code's fractions,   *)
(* without the rounding of its floating-point arithmetic.                  *)

MarketBaseRisk ==
  [MATCH_WINNER |-> 35, DOUBLE_CHANCE |-> 18, OVER_UNDER_25 |-> 42, BTTS |-> 42,
   FIRST_HALF_WINNER |-> 50, FIRST_TEAM_TO_SCORE |-> 48, WINNING_MARGIN |-> 68,
   CLEAN_SHEET |-> 62, EXACT_GOALS |-> 72, CORRECT_SCORE |-> 88]

Clamp(low, high, n) == IF n < low THEN low ELSE IF n > high THEN high ELSE n

(* 0.55 of the market's risk and 0.45 of the fixture's, (stars - 1) / 4.   *)
SlotRisk(market, stars) ==
  Clamp(0, 10000, 55 * MarketBaseRisk[market] + 1125 * (Clamp(1, 5, stars) - 1))

(* The average of the slots' risks, weighted by points, rounded half up.   *)
RiskPct(slots) ==
  LET total == MapThenSumSet(LAMBDA i : slots[i].pointsX10, DOMAIN slots)
      weighted == MapThenSumSet(LAMBDA i : SlotRisk(slots[i].marketType, slots[i].stars)
                                           * slots[i].pointsX10, DOMAIN slots)
  IN  IF slots = << >> THEN 0 ELSE (weighted + 50 * total) \div (100 * total)

NoStars == 0

(* Stars a fixture counts with: an admin's override, else the engine's,    *)
(* else three.                                                             *)
StarsCounted(difficulty) ==
  IF difficulty.overrideStars # NoStars THEN difficulty.overrideStars
  ELSE IF difficulty.stars # NoStars THEN difficulty.stars ELSE 3

(* What the API stores with an entry; points is the contest's rule set.    *)
StoredRisk(predictions, points, difficulty) ==
  RiskPct([i \in DOMAIN predictions |->
             [marketType |-> predictions[i].marketType,
              stars |-> StarsCounted(difficulty[i]),
              pointsX10 |-> points[predictions[i].marketType]]])

(* The stars a contest is sent to players with.                            *)
StarsSent(difficulty) ==
  IF difficulty.overrideStars # NoStars THEN difficulty.overrideStars ELSE difficulty.stars

(* What the builder shows, of the launch defaults and the stars it was     *)
(* sent, three where there are none.                                       *)
ShownRisk(choices, stars) ==
  RiskPct([i \in DOMAIN choices |->
             [marketType |-> choices[i].marketType,
              stars |-> IF stars[i] = NoStars THEN 3 ELSE stars[i],
              pointsX10 |-> DefaultMarketPointsX10[choices[i].marketType]]])
=============================================================================

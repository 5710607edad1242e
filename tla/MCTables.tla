------------------------------ MODULE MCTables ------------------------------
(***************************************************************************)
(* The pure parts of the code over bounded inputs: rows for Tables, and    *)
(* matches as two providers report them.  And, on a row of their own, the  *)
(* versions of the numbers those parts compute with, two numbers of two    *)
(* values each: two admins write them (Settings).                          *)
(***************************************************************************)
EXTENDS Tables, Feeds, Settings, TLC

CONSTANTS MaxFee, MaxEntrants, Commissions, MaxGoals

(* One slot of three tiers, instead of 2, 3, 3 and 2.                      *)
MCSlots == [EASY |-> 1, MEDIUM |-> 1, HARD |-> 0, EXPERT |-> 1]

-----------------------------------------------------------------------------
(* Prize tables: entrants join one by one, for every fee up to MaxFee, and *)
(* for the seeded payout template, one with a range of positions, and one  *)
(* whose range does not divide evenly.                                     *)

Pay(first, last, bps) == [from |-> first, to |-> last, shareBps |-> bps]

Templates == {<<Pay(1, 1, 5000), Pay(2, 2, 3000), Pay(3, 3, 2000)>>,
              <<Pay(1, 1, 6000), Pay(2, 3, 4000)>>,
              <<Pay(1, 1, 4000), Pay(2, 2, 2000), Pay(3, 5, 1000)>>}

PrizeRows == [table : {"prizes"}, fee : 1 .. MaxFee, commissionBps : Commissions,
              template : Templates, entrants : {0}]

(* Rankings: three entries that tie on some of what is compared, or on all *)
(* of it but the draw.                                                     *)
MCEntryIds == 1 .. 3
MCDraw == <<2, 3, 1>>

RankRows ==
  LET standings == [totalPointsX10 : {0, 50}, correctExpert : 0 .. 1, correctHard : 0 .. 1,
                    submittedAt : 1 .. 2]
  IN  {[table |-> "rank", entries |-> {[entryId |-> e] @@ score[e] : e \in EntryIds}] :
         score \in [EntryIds -> standings]}

-----------------------------------------------------------------------------
(* Results an admin may enter.                                             *)

ResultRows ==
  {[table |-> "result", result |-> r] :
     r \in {x \in [homeGoals : 0 .. MaxGoals \cup {10}, awayGoals : 0 .. MaxGoals \cup {10},
                   htHomeGoals : 0 .. MaxGoals, htAwayGoals : 0 .. 2,
                   firstToScore : {"HOME", "AWAY", "NONE"}] : AcceptableResult(x)}}

-----------------------------------------------------------------------------
(* Slips, in the contests that can be created, and slips other clients     *)
(* send.  Fixture "c" has started when contests are created.               *)

FixtureTable ==
  [f \in {"a", "b", "c"} |-> [status |-> "SCHEDULED", kickoffAt |-> IF f = "c" THEN 1 ELSE 3]]

Drafts ==
  LET ordered(ids) == [i \in DOMAIN ids |-> [fixtureId |-> ids[i], order |-> i]]
      slot(nos, tiers, f) == [i \in 1 .. 3 |-> [slotNo |-> nos[i], tier |-> tiers[i],
                                                fixtureId |-> f[i]]]
  IN  {[fixtures |-> ordered(ids), slots |-> slot(nos, tiers, f)] :
         ids \in {<<"a", "b">>, <<"a", "a">>, <<"a", "b", "c">>, <<"b">>},
         nos \in {<<1, 2, 3>>, <<1, 2, 2>>},
         tiers \in {<<"EASY", "MEDIUM", "EXPERT">>, <<"EXPERT", "HARD", "EASY">>,
                    <<"EASY", "EASY", "EXPERT">>},
         f \in {<<"a", "a", "b">>, <<"a", "b", "c">>}}

Contests == {draft \in Drafts : ~DraftRefused(draft, FixtureTable, 2)}

SlipRows == {[table |-> "slip", slots |-> [i \in 1 .. 3 |-> [tier |-> draft.slots[i].tier]],
              choices |-> InitialChoices(draft.slots)] : draft \in Contests}

MCTyped == {"4-2", "1-0", "10-2", "2:1"}

MCDifficulties == {[stars |-> NoStars, overrideStars |-> NoStars],
                   [stars |-> 5, overrideStars |-> NoStars],
                   [stars |-> 2, overrideStars |-> 4]}

(* The launch rule set, but for half a point more for one market.          *)
RulesWithBonus(bonus) ==
  LET all == MarketsByTier.EASY \o MarketsByTier.MEDIUM \o MarketsByTier.HARD
             \o MarketsByTier.EXPERT
  IN  [i \in DOMAIN all |->
         [marketType |-> all[i],
          pointsX10 |-> DefaultMarketPointsX10[all[i]] + (IF all[i] = bonus THEN 5 ELSE 0)]]

MCRuleSets == {RulesWithBonus(bonus) : bonus \in MarketTypes}

EasyMediumExpert == <<[tier |-> "EASY"], [tier |-> "MEDIUM"], [tier |-> "EXPERT"]>>

SentRows ==
  LET p(slot, market, pick) == [slotId |-> slot, marketType |-> market, selection |-> pick]
      pool == {p(i, pick[1], pick[2]) : i \in 1 .. 4,
                 pick \in {<<"MATCH_WINNER", "HOME">>, <<"MATCH_WINNER", "YES">>,
                           <<"BTTS", "YES">>, <<"CORRECT_SCORE", "2-1">>,
                           <<"CORRECT_SCORE", "HOME">>}}
  IN  {[table |-> "sent", slots |-> EasyMediumExpert, predictions |-> s] :
         s \in UNION {[1 .. n -> pool] : n \in 2 .. 3}}

-----------------------------------------------------------------------------
(* A match as it was: the goals in order, each a time and a side, and how  *)
(* the two providers report it.  football-data lists goals in any order,   *)
(* or not at all.                                                          *)

Times == <<<<1, 0>>, <<44, 0>>, <<45, 12>>, <<46, 0>>>>

Played ==
  UNION {{[at |-> at, by |-> by] :
            at \in {s \in [1 .. n -> DOMAIN Times] : \A i \in 1 .. n - 1 : s[i] < s[i + 1]},
            by \in [1 .. n -> {"HOME", "AWAY"}]} : n \in 0 .. 3}

MatchRows == [table : {"match"}, played : Played, reversed : BOOLEAN, listed : BOOLEAN,
              phase : {"before", "during", "after"}]

Scored(side, by) == Cardinality({i \in DOMAIN by : by[i] = side})

Team == [HOME |-> 7, AWAY |-> 9]

FullScore(played) == <<Scored("HOME", played.by), Scored("AWAY", played.by)>>

HalfScore(played) ==
  LET first == {i \in DOMAIN played.at : played.at[i] <= 3} IN
  <<Cardinality({i \in first : played.by[i] = "HOME"}),
    Cardinality({i \in first : played.by[i] = "AWAY"})>>

FdReport ==
  LET m == row.played
      goal(i) == [minute |-> Times[m.at[i]][1], injury |-> Times[m.at[i]][2],
                  team |-> Team[m.by[i]]]
      n == Len(m.by)
  IN  [status |-> CASE row.phase = "before" -> "TIMED" [] row.phase = "during" -> "PAUSED"
                    [] OTHER -> "FINISHED",
       home |-> Team.HOME, away |-> Team.AWAY,
       fullTime |-> FullScore(m), halfTime |-> HalfScore(m),
       goals |-> IF ~row.listed THEN << >>
                 ELSE [i \in 1 .. n |-> goal(IF row.reversed THEN n + 1 - i ELSE i)]]

ApiReport ==
  LET m == row.played IN
  [status |-> CASE row.phase = "before" -> "NS" [] row.phase = "during" -> "HT" [] OTHER -> "FT",
   home |-> Team.HOME, away |-> Team.AWAY, goals |-> FullScore(m), halftime |-> HalfScore(m),
   events |-> [i \in DOMAIN m.by |-> Team[m.by[i]]]]

(* What three teams played, for form and head-to-head.                     *)
HistoryRows ==
  LET games == [home : {7, 9}, away : {7, 9}, fullTime : {<<0, 0>>, <<2, 1>>, <<0, 3>>}]
               \cup [home : {7}, away : {8}, fullTime : {<<1, 0>>, <<0, 1>>}]
  IN  {[table |-> "history", games |-> h] :
         h \in UNION {[1 .. n -> {g \in games : g.home # g.away}] : n \in 0 .. 4}}

ApiGames(games) ==
  [i \in DOMAIN games |-> [home |-> games[i].home, away |-> games[i].away,
                           goals |-> games[i].fullTime]]

-----------------------------------------------------------------------------
(* Forms and head-to-heads with some of the fields, and weight sets that   *)
(* give some signals no weight.                                            *)

StarRows ==
  LET forms == {<< >>,
                [last5 |-> <<"W", "W", "D">>, goalsScoredLast5 |-> 9],
                [last5 |-> <<"L">>, goalsScoredLast5 |-> 0, leaguePosition |-> 19],
                [last5 |-> << >>, leaguePosition |-> 2, injuriesCount |-> 4],
                [last5 |-> <<"W", "L">>, goalsScoredLast5 |-> 8, leaguePosition |-> 4,
                 injuriesCount |-> 3, goalDifference |-> -4, suspensionsCount |-> 1],
                [last5 |-> <<"W", "W">>, goalsScoredLast5 |-> 2, leaguePosition |-> 9,
                 injuriesCount |-> 8, goalDifference |-> 20, suspensionsCount |-> 0]}
      h2hs == {<< >>, [homeWins |-> 3, awayWins |-> 0, matches |-> 4],
               [homeWins |-> 1, awayWins |-> 1, matches |-> 7]}
      weightSets == {[form |-> 18, leaguePosition |-> 14, headToHead |-> 10, recentGoals |-> 8,
                      injuries |-> 8, goalDifference |-> 10, suspensions |-> 4,
                      historical |-> 8],
                     [form |-> 0, headToHead |-> 100, injuries |-> 1],
                     [historical |-> 50], [form |-> 20, weather |-> 30]}
  IN  [table : {"stars"}, input : [home : forms, away : forms, headToHead : h2hs],
       weights : {w \in weightSets : AcceptableWeights(w)}]

-----------------------------------------------------------------------------

VersionRows == {[table |-> "versions"]}

MCSeeded == [k \in Keys |-> 1]

Symmetry == Permutations(Editors) \cup Permutations(Keys)

-----------------------------------------------------------------------------

Init ==
  /\ row \in PrizeRows \cup RankRows \cup ResultRows \cup SlipRows \cup SentRows
             \cup MatchRows \cup HistoryRows \cup StarRows \cup VersionRows
  /\ SettingsInit

Next ==
  \/ ((Join /\ row'.entrants <= MaxEntrants) \/ Choose) /\ UNCHANGED settingsVars
  \/ row.table = "versions" /\ SettingsNext /\ UNCHANGED row

Spec == Init /\ [][Next]_<<row, settingsVars>>

-----------------------------------------------------------------------------

(* Both providers lead to the same verdict and the same result for the     *)
(* same match, an acceptable one naming who really scored first, unless    *)
(* football-data lists no goals of a match in which both sides scored,     *)
(* which is left for an admin.                                             *)
FeedsAgree ==
  /\ row.table = "match" =>
       LET fd == FdToCanonical(FdReport)
           api == ApiGetFixture(ApiReport)
           both == row.listed \/ 0 \in {fd.full[1], fd.full[2]}
           verdict == PollVerdict(api, "SCHEDULED")
       IN  /\ PollVerdict(fd, "SCHEDULED") =
                IF both \/ verdict # "finalize" THEN verdict ELSE "leave"
           /\ verdict = "finalize" /\ both =>
                /\ PolledResult(fd) = PolledResult(api)
                /\ AcceptableResult(PolledResult(fd))
                /\ fd.firstToScore = IF row.played.by = << >> THEN "NONE" ELSE row.played.by[1]
  /\ row.table = "history" =>
       LET meetings == SelectSeq(row.games, LAMBDA m : 9 \in {m.home, m.away}) IN
       /\ Form(7, row.games) = ApiForm(7, ApiGames(row.games))
       /\ FdHeadToHead(7, 9, row.games) = ApiHeadToHead(7, ApiGames(meetings))
=============================================================================

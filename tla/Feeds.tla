------------------------------- MODULE Feeds -------------------------------
(***************************************************************************)
(* The two real sports providers' answers and how their adapters turn them *)
(* into canonical fixtures, form and head-to-head, and what the poller     *)
(* makes of a finished fixture.                                            *)
(*                                                                         *)
(* A scoreline is <<home, away>>, either number Missing where the provider *)
(* gave null.  An fd match has status, home and away (team ids, Missing    *)
(* for undecided sides), fullTime, halfTime and goals, a sequence of       *)
(* [minute, injury, team]; an api fixture has status, home, away, goals,   *)
(* halftime, and events, the goals' teams in order.                        *)
(***************************************************************************)
EXTENDS Integers, Sequences, FiniteSets, SequencesExt, TLC

Missing == -1

Unknown == "UNKNOWN"   \* firstToScore left undefined

OrElse(n, default) == IF n = Missing THEN default ELSE n

Lookup(table, key) == IF key \in DOMAIN table THEN table[key] ELSE "SCHEDULED"

FdStatusMap ==
  [SCHEDULED |-> "SCHEDULED", TIMED |-> "SCHEDULED", IN_PLAY |-> "LIVE", PAUSED |-> "LIVE",
   FINISHED |-> "FINISHED", AWARDED |-> "FINISHED", POSTPONED |-> "POSTPONED",
   SUSPENDED |-> "POSTPONED", CANCELLED |-> "CANCELLED"]

ApiStatusMap ==
  [s \in {"NS", "TBD"} |-> "SCHEDULED"]
  @@ [s \in {"1H", "HT", "2H", "ET", "BT", "P", "LIVE"} |-> "LIVE"]
  @@ [s \in {"FT", "AET", "PEN", "AWD", "WO"} |-> "FINISHED"]
  @@ ("PST" :> "POSTPONED") @@ [s \in {"CANC", "ABD"} |-> "CANCELLED"]

Canonical(status, home, away, full, half, first) ==
  [status |-> status, home |-> home, away |-> away,
   full |-> full, half |-> half, firstToScore |-> first]

(* A goalless match and one in which only one side scored need no feed.    *)
FromScore(full, Feed) ==
  CASE full = <<0, 0>> -> "NONE"
    [] full[1] > 0 /\ full[2] = 0 -> "HOME"
    [] full[2] > 0 /\ full[1] = 0 -> "AWAY"
    [] OTHER -> Feed

-----------------------------------------------------------------------------
(* football-data.org                                                       *)

HasKnownTeams(m) == m.home # Missing /\ m.away # Missing

(* Mutant: stoppage time is added to the minute.                           *)
GoalKeyAdded(g) == OrElse(g.minute, 0) + OrElse(g.injury, 0)

GoalKey(g) == OrElse(g.minute, 0) * 100 + OrElse(g.injury, 0)

(* The earliest entry of the goals feed, the first listed among equals.    *)
FirstGoal(goals) ==
  goals[CHOOSE i \in DOMAIN goals : \A j \in DOMAIN goals :
          \/ GoalKey(goals[i]) < GoalKey(goals[j])
          \/ GoalKey(goals[i]) = GoalKey(goals[j]) /\ i <= j]

DeriveFirstToScore(m) ==
  IF Missing \in {m.fullTime[1], m.fullTime[2]} THEN Unknown
  ELSE FromScore(m.fullTime,
         IF m.goals = << >> THEN Unknown
         ELSE IF FirstGoal(m.goals).team = m.home THEN "HOME" ELSE "AWAY")

FdToCanonical(m) ==
  Canonical(Lookup(FdStatusMap, m.status), m.home, m.away, m.fullTime, m.halfTime,
            DeriveFirstToScore(m))

(* A day's fixtures: those whose sides are decided.                        *)
FdFixturesByDate(matches) == {FdToCanonical(m) : m \in {x \in matches : HasKnownTeams(x)}}

(* Goals of and against team in a match, a missing score being nil.        *)
For(team, m) == OrElse(m.fullTime[IF m.home = team THEN 1 ELSE 2], 0)
Against(team, m) == OrElse(m.fullTime[IF m.home = team THEN 2 ELSE 1], 0)

LastOf(n, s) == SubSeq(s, IF Len(s) > n THEN Len(s) - n + 1 ELSE 1, Len(s))

Total(f) == FoldLeft(+, 0, f)

(* Form over the last matches played, nothing where there are none.        *)
Form(team, matches) ==
  LET recent == LastOf(5, matches)
      us == [i \in DOMAIN recent |-> For(team, recent[i])]
      them == [i \in DOMAIN recent |-> Against(team, recent[i])]
  IN  IF recent = << >> THEN << >>
      ELSE [last5 |-> [i \in DOMAIN recent |->
                         IF us[i] > them[i] THEN "W" ELSE IF us[i] < them[i] THEN "L" ELSE "D"],
            goalsScoredLast5 |-> Total(us), goalsConcededLast5 |-> Total(them)]

Count(seq, Test(_)) == Cardinality({i \in DOMAIN seq : Test(seq[i])})

(* The home side's wins, the opponent's and the draws among the meetings.  *)
H2hFromMatches(home, meetings) ==
  LET drawn(m) == For(m.home, m) = Against(m.home, m)
      winner(m) == IF For(m.home, m) > Against(m.home, m) THEN m.home ELSE m.away
  IN  [homeWins |-> Count(meetings, LAMBDA m : ~drawn(m) /\ winner(m) = home),
       awayWins |-> Count(meetings, LAMBDA m : ~drawn(m) /\ winner(m) # home),
       draws |-> Count(meetings, drawn), matches |-> Len(meetings)]

(* From the home side's history: its last ten meetings with the opponent.  *)
FdHeadToHead(home, away, history) ==
  LET meetings == LastOf(10, SelectSeq(history, LAMBDA m : away \in {m.home, m.away}))
  IN  IF meetings = << >> THEN << >> ELSE H2hFromMatches(home, meetings)

-----------------------------------------------------------------------------
(* API-Football                                                            *)

(* getFixture asks who scored first only of a finished match, and reads    *)
(* the events only where both sides scored.                                *)
ApiGetFixture(f) ==
  LET status == Lookup(ApiStatusMap, f.status)
      full == <<OrElse(f.goals[1], 0), OrElse(f.goals[2], 0)>>
      first == IF f.events = << >> THEN Unknown
               ELSE IF f.events[1] = f.home THEN "HOME" ELSE "AWAY"
  IN  Canonical(status, f.home, f.away, f.goals, f.halftime,
                IF status = "FINISHED" THEN FromScore(full, first) ELSE Unknown)

(* The provider filters by team and by pair itself.                        *)
ApiHeadToHead(home, games) ==
  LET h(g) == OrElse(g.goals[1], 0)
      a(g) == OrElse(g.goals[2], 0)
      homeWon(g) == IF g.home = home THEN h(g) > a(g) ELSE a(g) > h(g)
  IN  IF games = << >> THEN << >>
      ELSE [homeWins |-> Count(games, homeWon),
            awayWins |-> Count(games, LAMBDA g : h(g) # a(g) /\ ~homeWon(g)),
            draws |-> Count(games, LAMBDA g : h(g) = a(g)), matches |-> Len(games)]

ApiForm(team, games) ==
  Form(team, [i \in DOMAIN games |-> [home |-> games[i].home, fullTime |-> games[i].goals]])

-----------------------------------------------------------------------------
(* What the poller does with the canonical fixture it got for one that is  *)
(* not final: finalize it with a result, mark it live, or leave it.        *)

PollVerdict(remote, seen) ==
  CASE /\ remote.status = "FINISHED"
       /\ Missing \notin {remote.full[1], remote.full[2]}
       /\ remote.firstToScore # Unknown -> "finalize"
    [] remote.status = "LIVE" /\ seen # "LIVE" -> "live"
    [] OTHER -> "leave"

PolledResult(remote) ==
  [homeGoals |-> remote.full[1], awayGoals |-> remote.full[2],
   htHomeGoals |-> OrElse(remote.half[1], 0), htAwayGoals |-> OrElse(remote.half[2], 0),
   firstToScore |-> remote.firstToScore]
=============================================================================

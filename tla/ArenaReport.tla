----------------------------- MODULE ArenaReport -----------------------------
(***************************************************************************)
(* What a paired arena says (selfplay/arena.py).  Each job of the plan is  *)
(* one pair of games from one start, the challenger as player A and then   *)
(* as player B's opponent with the colours swapped; its report is accepted *)
(* only if it agrees with itself.  The latest attempts' reports become the *)
(* arena's results, those an analysis, and that the decision about the     *)
(* challenger.  Rates are compared as integers, in hundredths; rounding to *)
(* twelve digits is left out.                                              *)
(***************************************************************************)
EXTENDS Integers, Sequences, FiniteSetsExt

CONSTANTS
    Jobs,           \* the plan's jobs, 1..n
    Group,          \* job -> "initial" or "start_set"
    Menu,           \* job -> what the engine may do with it: a flaw of its report,
                    \* the games with an illegal move, each player's work and time
    ReportsProofs,  \* whether the engine adds the runtime proofs of the players
    MaxFailures,    \* bound: how many attempts fail in all
    Policies        \* promotion policies an operator may write, rates in hundredths

VARIABLES
    attempts,       \* job -> its attempts, in order
    results,        \* the games of the arena; none before they are collected
    analysis,       \* the analysis of the results
    decision        \* the verdict about the challenger, and the policy it rests on

vars == <<attempts, results, analysis, decision>>

Players == {"a", "b"}
Other(p) == CHOOSE q \in Players : q # p
Outcomes == {"black_win", "white_win", "draw", "max_plies"}

Sum(f(_), S) == MapThenSumSet(f, S)
Count(S) == Cardinality(S)
-----------------------------------------------------------------------------
(* The engine's report of a pair                                           *)

\* Player A has black in the first game, and player B in the second.
Black(i) == IF i = 1 THEN "a" ELSE "b"
Winner(black, result) ==
    CASE result = "black_win" -> black
      [] result = "white_win" -> Other(black)
      [] OTHER -> "nobody"

\* An engine with the flaw "unswapped" plays both games with player A as black.
PlayedBlack(flaw, i) == IF flaw = "unswapped" THEN "a" ELSE Black(i)

Game(flaw, result, doing, i) ==
    [black |-> PlayedBlack(flaw, i), result |-> result,
     work |-> doing.work, time |-> doing.time]

\* The report's metrics: who won how often, and the sums of the players' counters.
Wins(games, p) == Count({i \in 1..2 : Winner(games[i].black, games[i].result) = p})
Total(games, field, p) == games[1][field][p] + games[2][field][p]
Totals(games) ==
    [wins |-> [p \in Players |-> Wins(games, p)],
     draws |-> Count({i \in 1..2 : games[i].result = "draw"}),
     finished |-> Count({i \in 1..2 : games[i].result # "max_plies"}),
     work |-> [p \in Players |-> Total(games, "work", p)],
     time |-> [p \in Players |-> Total(games, "time", p)]]

Exchanged(f) == [p \in Players |-> f[Other(p)]]
Report(played, doing) ==
    LET games == [i \in 1..2 |-> Game(doing.flaw, played[i], doing, i)]
        totals == Totals(games)
        metrics == CASE doing.flaw = "miscounted" ->
                            [totals EXCEPT !.wins = Exchanged(totals.wins)]
                     [] doing.flaw = "miscredited" ->
                            [totals EXCEPT !.work = Exchanged(totals.work)]
                     [] OTHER -> totals
    IN [games |-> games, metrics |-> metrics, illegal |-> doing.illegal,
        proofs |-> ReportsProofs]

\* validate_phase2_pair_report: the report has exactly the expected keys, which do not
\* include the players' runtime profile and proofs; the games are the A/B colour swap ...
KeysAreKnown(report) == ~report.proofs
IsSwapped(report) == \A i \in 1..2 : report.games[i].black = Black(i)

\* ... and the metrics are what the two games add up to.
CountersAgree(report) ==
    LET totals == Totals(report.games) IN
    report.metrics.work = totals.work /\ report.metrics.time = totals.time
CountsAgree(report) ==
    LET totals == Totals(report.games) IN
    /\ report.metrics.wins = totals.wins
    /\ report.metrics.draws = totals.draws
    /\ report.metrics.finished = totals.finished
ReportHolds(report) ==
    /\ KeysAreKnown(report) /\ IsSwapped(report)
    /\ CountersAgree(report) /\ CountsAgree(report)
-----------------------------------------------------------------------------
(* The execution                                                           *)

Last(s) == s[Len(s)]
IsCompleted(j) == attempts[j] # <<>> /\ Last(attempts[j]).status = "completed"

\* The jobs do not depend on each other, and are taken in the plan's order.
IsDue(j) ==
    /\ ~IsCompleted(j)
    /\ \A k \in Jobs : k < j => IsCompleted(k)

Quarantined(j) == Count({n \in DOMAIN attempts[j] : attempts[j][n].status = "quarantined"})

\* An attempt that crashes or leaves no valid report is quarantined and may be retried.
Attempt(status, honest, report) == [status |-> status, honest |-> honest, report |-> report]
NoReport == [games |-> <<>>]
Failures == LET Of(j) == Quarantined(j) IN Sum(Of, Jobs)
Crash(j) ==
    /\ IsDue(j) /\ Failures < MaxFailures
    /\ attempts' = [attempts EXCEPT ![j] = Append(@, Attempt("quarantined", FALSE, NoReport))]
    /\ UNCHANGED <<results, analysis, decision>>
Play(j) ==
    /\ IsDue(j)
    /\ \E played \in [1..2 -> Outcomes], doing \in Menu[j] :
          LET report == Report(played, doing) IN
          /\ ReportHolds(report) \/ Failures < MaxFailures
          /\ attempts' = [attempts EXCEPT ![j] = Append(@,
                 IF ReportHolds(report) THEN Attempt("completed", TRUE, report)
                 ELSE Attempt("quarantined", doing.flaw = "none", NoReport))]
    /\ UNCHANGED <<results, analysis, decision>>
-----------------------------------------------------------------------------
(* collect_arena_results: player A is the challenger, player B the champion *)

Challenger == "a"
Champion == "b"

\* Bug: the counters are taken by colour, as if player A always had black.
Normalized_ByColour(game) ==
    [work |-> [challenger |-> game.work[game.black], champion |-> game.work[Other(game.black)]],
     time |-> [challenger |-> game.time[game.black], champion |-> game.time[Other(game.black)]]]

\* _normalized_game_metrics: the players keep their names when the colours swap.
Normalized(game) ==
    [work |-> [challenger |-> game.work["a"], champion |-> game.work["b"]],
     time |-> [challenger |-> game.time["a"], champion |-> game.time["b"]]]

\* A job's crashes and illegal moves are counted once, with its first game.
Row(j, i) ==
    LET report == Last(attempts[j]).report IN
    [pair |-> j, group |-> Group[j],
     black |-> IF i = 1 THEN Challenger ELSE Champion,
     result |-> report.games[i].result,
     illegal |-> IF i = 1 THEN report.illegal ELSE 0,
     crashes |-> IF i = 1 THEN Quarantined(j) ELSE 0,
     metrics |-> Normalized(report.games[i])]

\* _validate_pairs, over the rows analyze_arena_results reads back.
PairsHold(rows) ==
    \A j \in Jobs : LET pair == {k \in DOMAIN rows : rows[k].pair = j} IN
        /\ Count(pair) = 2
        /\ {rows[k].group : k \in pair} = {Group[j]}
        /\ {rows[k].black : k \in pair} = {Champion, Challenger}

Collect ==
    LET rows == [k \in 1..(2 * Count(Jobs)) |-> Row((k + 1) \div 2, ((k - 1) % 2) + 1)] IN
    /\ results = <<>> /\ \A j \in Jobs : IsCompleted(j)
    /\ PairsHold(rows)
    /\ results' = rows
    /\ UNCHANGED <<attempts, analysis, decision>>
-----------------------------------------------------------------------------
(* analyze_arena_results                                                   *)

\* _summarize, with the score in half points.
Summary(rows) ==
    LET Won(p) == Count({k \in DOMAIN rows : Winner(rows[k].black, rows[k].result) = p})
        Of(r) == Count({k \in DOMAIN rows : rows[k].result = r})
        Illegal(k) == rows[k].illegal
        Crashes(k) == rows[k].crashes
    IN [games |-> Len(rows), wins |-> Won(Challenger), losses |-> Won(Champion),
        draws |-> Of("draw") + Of("max_plies"), maxPlies |-> Of("max_plies"),
        decisive |-> Won(Challenger) + Won(Champion),
        points |-> 2 * Won(Challenger) + Of("draw") + Of("max_plies"),
        illegal |-> Sum(Illegal, DOMAIN rows), crashes |-> Sum(Crashes, DOMAIN rows)]

\* _aggregate_metrics, _slowdown: the champion's rate over the challenger's.
\* There is no rate without time, and no ratio over a rate of zero.
Slowdown(rows) ==
    LET Added(field, who) ==
            LET Of(k) == rows[k].metrics[field][who] IN Sum(Of, DOMAIN rows)
        work == [w \in {"challenger", "champion"} |-> Added("work", w)]
        time == [w \in {"challenger", "champion"} |-> Added("time", w)]
    IN IF time.challenger = 0 \/ time.champion = 0 \/ work.challenger = 0
       THEN [known |-> FALSE, over |-> 0, under |-> 1]
       ELSE [known |-> TRUE, over |-> work.champion * time.challenger,
             under |-> work.challenger * time.champion]

Analysis(rows) ==
    LET Part(in(_)) == Summary(SelectSeq(rows, in)) IN
    [overall |-> Summary(rows),
     initial |-> Part(LAMBDA r : r.group = "initial"),
     start_set |-> Part(LAMBDA r : r.group = "start_set"),
     black |-> Part(LAMBDA r : r.black = Challenger),
     white |-> Part(LAMBDA r : r.black = Champion),
     slowdown |-> Slowdown(rows)]

Analyze ==
    /\ results # <<>> /\ analysis = <<>>
    /\ analysis' = <<Analysis(results)>>
    /\ UNCHANGED <<attempts, results, decision>>
-----------------------------------------------------------------------------
(* decide_promotion                                                        *)

\* Bug: only the order of the two rates is checked.
PolicyHolds_AnyRates(p) == p.rejectScore < p.promoteScore

\* _parse_generation_policy: what supports a promotion lies above one half and what
\* supports a rejection below it, and neither illegal moves nor crashes are allowed.
PolicyHolds(p) ==
    /\ p.minGames > 0 /\ p.minDecisive > 0 /\ p.minGroupGames >= 2
    /\ p.maxIllegal = 0 /\ p.maxCrashes = 0
    /\ p.promoteScore >= 50 /\ p.promoteWilson >= 50
    /\ p.rejectScore <= 50 /\ p.rejectWilson <= 50
    /\ p.rejectScore < p.promoteScore
    /\ p.maxSlowdown >= 100

\* _validate_summary: the outcomes add up.
SummaryHolds(s) ==
    /\ s.games = s.wins + s.losses + s.draws
    /\ s.decisive = s.wins + s.losses
    /\ s.maxPlies <= s.draws
    /\ s.points = 2 * s.wins + s.draws

\* validate_arena_analysis: each split of the games adds up to all of them.
Counts == {"games", "wins", "losses", "draws", "maxPlies", "decisive", "illegal", "crashes"}
AnalysisHolds(a) ==
    /\ \A part \in {"overall", "initial", "start_set", "black", "white"} : SummaryHolds(a[part])
    /\ \A c \in Counts : /\ a.initial[c] + a.start_set[c] = a.overall[c]
                         /\ a.black[c] + a.white[c] = a.overall[c]

\* The score rate of a summary, compared with t hundredths; that of no games is 0.
AtLeast(s, t) == IF s.games = 0 THEN t <= 0 ELSE 50 * s.points >= t * s.games
AtMost(s, t) == IF s.games = 0 THEN t >= 0 ELSE 50 * s.points <= t * s.games

\* _wilson: t is no inner point of the interval when n * (p - t)^2 >= z^2 * t * (1 - t),
\* with z^2 = 3.84; the interval of no games is everything.
IsOutside(s, t) ==
    LET d == 50 * s.points - t * s.games IN 100 * d * d >= 384 * t * (100 - t) * s.games
WilsonLowerAtLeast(s, t) == IF s.games = 0 THEN t <= 0 ELSE AtLeast(s, t) /\ IsOutside(s, t)
WilsonUpperAtMost(s, t) == IF s.games = 0 THEN t >= 100 ELSE AtMost(s, t) /\ IsOutside(s, t)

SideGapAtMost(a, t) ==
    LET gap == a.black.points * a.white.games - a.white.points * a.black.games IN
    /\ a.black.games # 0 /\ a.white.games # 0
    /\ 50 * (IF gap < 0 THEN -gap ELSE gap) <= t * a.black.games * a.white.games

\* _check_performance
IsSlow(a, p) == a.slowdown.known /\ 100 * a.slowdown.over > p.maxSlowdown * a.slowdown.under
IsUnmeasured(a, p) == ~a.slowdown.known /\ p.requireMetrics

IsUnsafe(a, p) ==
    a.overall.illegal > p.maxIllegal \/ a.overall.crashes > p.maxCrashes
IsWeak(a, p) ==
    \/ ~IsUnsafe(a, p) /\ a.overall.games < p.minGames
    \/ ~IsUnsafe(a, p) /\ a.overall.decisive < p.minDecisive
    \/ \E g \in {"initial", "start_set"} : a[g].games < p.minGroupGames
    \/ IsUnmeasured(a, p)

IsRegression(a, p) ==
    /\ AtMost(a.overall, p.rejectScore)
    /\ WilsonUpperAtMost(a.overall, p.rejectWilson)

IsImprovement(a, p) ==
    /\ AtLeast(a.overall, p.promoteScore)
    /\ WilsonLowerAtLeast(a.overall, p.promoteWilson)
    /\ \A g \in {"initial", "start_set"} : AtLeast(a[g], p.minGroupScore)
    /\ SideGapAtMost(a, p.maxSideGap)

Decision(a, p) ==
    CASE IsUnsafe(a, p) \/ IsSlow(a, p) -> "rejected"
      [] IsWeak(a, p) -> "inconclusive"
      [] IsRegression(a, p) -> "rejected"
      [] IsImprovement(a, p) -> "promoted"
      [] OTHER -> "inconclusive"

Decide ==
    /\ analysis # <<>> /\ decision = <<>>
    /\ AnalysisHolds(analysis[1])
    /\ \E p \in Policies :
          /\ PolicyHolds(p)
          /\ decision' = <<[verdict |-> Decision(analysis[1], p), policy |-> p]>>
    /\ UNCHANGED <<attempts, results, analysis>>
-----------------------------------------------------------------------------
Init ==
    /\ attempts = [j \in Jobs |-> <<>>]
    /\ results = <<>> /\ analysis = <<>> /\ decision = <<>>
Next ==
    \/ \E j \in Jobs : Crash(j) \/ Play(j)
    \/ Collect \/ Analyze \/ Decide
Spec == Init /\ [][Next]_vars
-----------------------------------------------------------------------------
(* Properties                                                              *)

\* What the players really did, whoever had which colour in which report.
Really(j, p) ==
    LET games == Last(attempts[j]).report.games IN Wins(games, p)

\* The analysis counts for each side what that side really won, a draw for both, every
\* crashed attempt and every illegal move once, whatever flawed reports were sent in.
EvidenceIsWhatWasPlayed ==
    analysis # <<>> =>
        LET s == analysis[1].overall
            Ours(j) == Really(j, Challenger)
            Theirs(j) == Really(j, Champion)
            Illegal(j) == Last(attempts[j]).report.illegal
            Lost(j) == Len(attempts[j]) - 1
        IN /\ s.games = 2 * Count(Jobs)
           /\ s.wins = Sum(Ours, Jobs) /\ s.losses = Sum(Theirs, Jobs)
           /\ s.illegal = Sum(Illegal, Jobs) /\ s.crashes = Sum(Lost, Jobs)

\* The slowdown that is judged compares the players' own work and time.
SpeedIsThePlayers ==
    analysis # <<>> /\ analysis[1].slowdown.known =>
        LET Own(field, p) == LET Of(j) == Last(attempts[j]).report.metrics[field][p]
                             IN Sum(Of, Jobs)
        IN analysis[1].slowdown.over * Own("work", "a") * Own("time", "b")
            = analysis[1].slowdown.under * Own("work", "b") * Own("time", "a")

\* Every analysis that is made can be decided upon.
EveryAnalysisIsDecided == analysis # <<>> => AnalysisHolds(analysis[1])

\* The arena with the players' roles exchanged.
Mirror(row) == [row EXCEPT !.black = Other(@),
    !.metrics.work = [challenger |-> @.champion, champion |-> @.challenger],
    !.metrics.time = [challenger |-> @.champion, champion |-> @.challenger]]
Mirrored == Analysis([k \in DOMAIN results |-> Mirror(results[k])])

\* A promoted challenger won more than it lost and scored enough from either kind of
\* start, and no attempt failed; with the roles exchanged it would not be promoted.
PromotionIsOneSided ==
    decision # <<>> /\ decision[1].verdict = "promoted" =>
        LET a == analysis[1]
            p == decision[1].policy
        IN /\ a.overall.wins > a.overall.losses
           /\ \A g \in {"initial", "start_set"} :
                 LET in == {j \in Jobs : Group[j] = g}
                     Ours(j) == Really(j, Challenger)
                     Theirs(j) == Really(j, Champion)
                 IN in # {} /\ 100 * (Sum(Ours, in) - Sum(Theirs, in))
                        >= (2 * p.minGroupScore - 100) * 2 * Count(in)
           /\ Failures = 0
           /\ Decision(Mirrored, p) # "promoted"

\* What decides about the challenger is what was played, and is decided upon.
EvidenceIsSound ==
    EvidenceIsWhatWasPlayed /\ SpeedIsThePlayers /\ EveryAnalysisIsDecided
=============================================================================

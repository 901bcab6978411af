--------------------------- MODULE EvaluatorArena ---------------------------
(***************************************************************************)
(* The arena of a round's candidate (evaluator_arena.py, run_arena and     *)
(* _play_game): the planned games are played in order, each in attempts    *)
(* that leave a receipt.  A stopped attempt is gone on with at its move    *)
(* and its clocks, a failed process is retried once from the beginning,    *)
(* and an attempt without a receipt was killed and counts as failed.       *)
(*                                                                         *)
(* A rerun walks through all games again and knows nothing but receipts.   *)
(***************************************************************************)
EXTENDS Naturals, Sequences, FiniteSets, FiniteSetsExt

CONSTANTS
    Games,       \* number of planned games
    Evaluated,   \* the first Evaluated of them are scored, in pairs
    Clock,       \* clock_ms, in units
    Share,       \* what one move may take of the clock
    MaxPlies,    \* max_plies
    MaxWall,     \* max_wall_seconds, in the units attempts are charged
    Mixed,       \* what the seeded bootstrap gives when the pairs disagree
    MaxFaults    \* bound: stops and kills

Sides == {"black", "white"}
GameIds == 1..Games

VARIABLES
    attempts,    \* the attempt folders of every game
    result,      \* arena.json
    proc,        \* run_arena: where it is, its game and the position on the board
    stop, faults

vars == <<attempts, result, proc, stop, faults>>

Fresh == [moves |-> 0, left |-> [s \in Sides |-> Clock]]
Open(at) == [status |-> "open", reason |-> "none", begin |-> at, end |-> at, score |-> 0]
NoResult == [status |-> "none", adopted |-> FALSE, attempts |-> 0, games |-> 0]
Down == [pc |-> "down", game |-> 1, at |-> Fresh, status |-> "none",
         reason |-> "none", winner |-> "none", played |-> 0]

Init ==
    /\ attempts = [g \in GameIds |-> <<>>]
    /\ result = NoResult
    /\ proc = Down /\ stop = FALSE /\ faults = 0

\* _plan: every start is played with both colours.
CandidateSide(g) == IF g % 2 = 1 THEN "black" ELSE "white"
Opponent(s) == IF s = "black" THEN "white" ELSE "black"
Active == IF proc.at.moves % 2 = 0 THEN "black" ELSE "white"

Final(g) == attempts[g][Len(attempts[g])]
Failures(g) == {i \in DOMAIN attempts[g] : attempts[g][i].status = "process_failure"}

\* What an attempt takes from the campaign's wall; a killed one as much as two
\* clocks, since nobody knows how long it ran.
Charge(a) == IF a.status = "open" THEN 0 ELSE IF a.reason = "unclosed" THEN 2 ELSE 1
Charged ==
    MapThenSumSet(LAMBDA x : Charge(attempts[x[1]][x[2]]),
                  UNION {{<<g, i>> : i \in DOMAIN attempts[g]} : g \in GameIds})

\* _stopping, or the campaign's deadline.
Stopping == stop \/ Charged >= MaxWall

\* Within an attempt the deadline passes once its own unit may be the last one.
MayStop == stop \/ Charged + 1 >= MaxWall

RunArena ==
    /\ proc.pc = "down"
    /\ proc' = [Down EXCEPT !.pc = "visit"] /\ stop' = FALSE
    /\ UNCHANGED <<attempts, result, faults>>

\* Bug: an attempt that left no receipt never happened.
Sealed_Forgotten(as) == SelectSeq(as, LAMBDA a : a.status # "open")

\* A folder without a receipt gets that of a failed process.
Sealed(as) ==
    [i \in DOMAIN as |-> IF as[i].status = "open"
        THEN [as[i] EXCEPT !.status = "process_failure", !.reason = "unclosed"]
        ELSE as[i]]

\* The next planned game, with what earlier runs left of it.
Visit ==
    /\ proc.pc = "visit" /\ proc.game <= Games
    /\ LET g == proc.game
           as == Sealed(attempts[g])
           last == as[Len(as)]
           failed == Cardinality({i \in DOMAIN as : as[i].status = "process_failure"})
       IN /\ attempts' = [attempts EXCEPT ![g] = as]
          /\ proc' = IF as # <<>> /\ last.status \in {"completed", "incomplete"}
                     THEN [proc EXCEPT !.game = @ + 1, !.played = @ + 1]
                     ELSE IF as # <<>> /\ (last.status = "invalid" \/ failed > 1)
                     THEN [proc EXCEPT !.pc = "report", !.status = "failed", !.played = @ + 1]
                     ELSE [proc EXCEPT !.pc = "begin"]
    /\ UNCHANGED <<result, stop, faults>>

\* A new attempt folder; a stopped game goes on where it was.
Begin ==
    /\ proc.pc = "begin"
    /\ LET g == proc.game
           resumes == attempts[g] # <<>> /\ Final(g).status = "stopped"
           at == IF resumes THEN Final(g).end ELSE Fresh
       IN IF Stopping
          THEN proc' = [proc EXCEPT !.pc = "report", !.status = "stopped"]
               /\ UNCHANGED attempts
          ELSE /\ attempts' = [attempts EXCEPT ![g] = Append(@, Open(at))]
               /\ proc' = [proc EXCEPT !.pc = "prepare", !.at = at]
    /\ UNCHANGED <<result, stop, faults>>

Ends(status, reason, winner) ==
    proc' = [proc EXCEPT !.pc = "close", !.status = status, !.reason = reason,
                         !.winner = winner]

\* _validate_response, and the checks of root, perspective and clock plan: the
\* reply is the search of this model alone, and the game is not over.
Replies == {"searched", "foreign", "impure", "over"}
Accepted(reply) == reply = "searched"

Prepare ==
    /\ proc.pc = "prepare"
    /\ \E reply \in Replies :
          IF Accepted(reply) THEN proc' = [proc EXCEPT !.pc = "ply"]
          ELSE Ends("invalid", "contract", "none")
    /\ UNCHANGED <<attempts, result, stop, faults>>

PlayerFails ==
    /\ proc.pc \in {"prepare", "ply"}
    /\ Ends("process_failure", "player", "none")
    /\ UNCHANGED <<attempts, result, stop, faults>>

\* Asked between two moves, so that no turn is pending.
StopGame ==
    /\ proc.pc = "ply" /\ proc.at.moves < MaxPlies /\ MayStop
    /\ Ends("stopped", "stop", "none")
    /\ UNCHANGED <<attempts, result, stop, faults>>

TooLong ==
    /\ proc.pc = "ply" /\ proc.at.moves = MaxPlies
    /\ Ends("incomplete", "max_plies", "none")
    /\ UNCHANGED <<attempts, result, stop, faults>>

\* The writes after the last move took the rest of the clock.
ForfeitsBefore ==
    /\ proc.pc = "ply" /\ proc.at.moves < MaxPlies /\ ~stop
    /\ proc.at.left[Active] <= Share
    /\ proc' = [proc EXCEPT !.pc = "close", !.status = "completed", !.winner = Opponent(Active),
                            !.reason = "time_forfeit", !.at.left[Active] = 0]
    /\ UNCHANGED <<attempts, result, stop, faults>>

\* _clock_limits: a move is allowed no more than is left.
Allowed(left) == IF left < Share THEN left ELSE Share

\* A search, its checks and the application of its move are one turn.
Ply ==
    /\ proc.pc = "ply" /\ proc.at.moves < MaxPlies /\ ~stop
    /\ \E reply \in Replies, took \in 1..(Share + 1) :
          LET left == proc.at.left[Active]
              at == [moves |-> proc.at.moves + 1,
                     left |-> [proc.at.left EXCEPT ![Active] = IF took > @ THEN 0 ELSE @ - took]]
              moved == [proc EXCEPT !.at = at]
          IN IF ~Accepted(reply) THEN Ends("invalid", "contract", "none")
             ELSE IF took > Allowed(left) THEN
                 proc' = [moved EXCEPT !.pc = "close", !.status = "invalid",
                                       !.reason = "contract", !.winner = "none"]
             ELSE IF at.left[Active] = 0 THEN
                 proc' = [moved EXCEPT !.pc = "close", !.status = "completed",
                              !.reason = "time_forfeit", !.winner = Opponent(Active)]
             ELSE \/ proc' = moved
                  \/ \E winner \in Sides \cup {"none"} :
                        proc' = [moved EXCEPT !.pc = "close", !.status = "completed",
                                              !.reason = "rules", !.winner = winner]
    /\ UNCHANGED <<attempts, result, stop, faults>>

Score(g, winner) ==
    IF winner = "none" THEN 1 ELSE IF winner = CandidateSide(g) THEN 2 ELSE 0

\* The players are closed and the receipt is sealed, with the position, which is
\* read again only of a stopped game; a player that ends with an
\* error makes any attempt but an invalid one a process failure.
Close ==
    /\ proc.pc = "close"
    /\ \E crashed \in IF proc.status \in {"invalid", "process_failure"} THEN {FALSE} ELSE BOOLEAN :
       LET g == proc.game
           status == IF crashed THEN "process_failure" ELSE proc.status
           receipt == [status |-> status, reason |-> IF crashed THEN "player" ELSE proc.reason,
                       begin |-> Final(g).begin,
                       end |-> IF status = "stopped" THEN proc.at ELSE Final(g).begin,
                       score |-> IF status = "completed" THEN Score(g, proc.winner) ELSE 0]
           retries == status = "process_failure" /\ Failures(g) = {}
       IN /\ attempts' = [attempts EXCEPT ![g][Len(attempts[g])] = receipt]
          /\ proc' =
                IF retries THEN [Down EXCEPT !.pc = "begin", !.game = g, !.played = proc.played]
                ELSE IF status \in {"completed", "incomplete"}
                THEN [Down EXCEPT !.pc = "visit", !.game = g + 1, !.played = proc.played + 1]
                ELSE [Down EXCEPT !.pc = "report", !.game = g, !.played = proc.played + 1,
                          !.status = IF status = "stopped" THEN "stopped" ELSE "failed"]
    /\ UNCHANGED <<result, stop, faults>>

-----------------------------------------------------------------------------
(* _summary                                                                *)

Adverse(a) ==
    a.status \in {"invalid", "process_failure", "incomplete"} \/ a.reason = "time_forfeit"

Complete == \A g \in GameIds : attempts[g] # <<>> /\ Final(g).status = "completed"

Points(gs) == MapThenSumSet(LAMBDA g : Final(g).score, gs)

\* The bootstrap over the pairs: above one half when all pairs are, below it
\* when none is.
Pairs == 1..(Evaluated \div 2)
PairWon(p) == Points({2 * p - 1, 2 * p}) > 2
Lower == (\A p \in Pairs : PairWon(p)) \/ (Mixed /\ \E p \in Pairs : PairWon(p))

Adopted ==
    /\ Complete /\ \A g \in GameIds : \A i \in DOMAIN attempts[g] : ~Adverse(attempts[g][i])
    /\ Points(1..Evaluated) > Evaluated
    /\ Lower

Report ==
    /\ proc.pc = "report" \/ (proc.pc = "visit" /\ proc.game > Games)
    /\ result' = [status |-> IF proc.pc = "visit" THEN "complete" ELSE proc.status,
                  adopted |-> Adopted, games |-> proc.played,
                  attempts |-> MapThenSumSet(LAMBDA g : Len(attempts[g]), GameIds)]
    /\ proc' = Down
    /\ UNCHANGED <<attempts, stop, faults>>

RequestStop ==
    /\ ~stop /\ faults < MaxFaults /\ faults' = faults + 1 /\ stop' = TRUE
    /\ UNCHANGED <<attempts, result, proc>>

Kill ==
    /\ proc.pc # "down" /\ faults < MaxFaults /\ faults' = faults + 1
    /\ proc' = Down
    /\ UNCHANGED <<attempts, result, stop>>

Next ==
    \/ RunArena \/ Visit \/ Begin \/ Prepare \/ PlayerFails \/ StopGame \/ TooLong
    \/ ForfeitsBefore \/ Ply \/ Close \/ Report \/ RequestStop \/ Kill

Spec == Init /\ [][Next]_vars

-----------------------------------------------------------------------------
Settled(a) == a.status \in {"completed", "incomplete"}

(* A game fails at most twice, those attempts counted that were killed, and *)
(* no game is begun before the ones planned earlier are settled.            *)
RetriesAreBounded ==
    \A g \in GameIds :
        /\ Cardinality({i \in DOMAIN attempts[g] :
                           attempts[g][i].status \in {"process_failure", "open"}}) <= 2
        /\ \A h \in g + 1 .. Games : attempts[h] # <<>> => Settled(Final(g))

(* Whatever stops it, a game is one game from its root to its result: its   *)
(* moves and clocks go on where they were, or it begins anew.               *)
EachGameIsOne ==
    \A g \in GameIds : \A i \in DOMAIN attempts[g] :
        LET a == attempts[g][i]
        IN /\ a.begin # Fresh => i > 1 /\ attempts[g][i - 1].status = "stopped"
                                        /\ attempts[g][i - 1].end = a.begin
           /\ i < Len(attempts[g]) => a.status \in {"stopped", "process_failure"}

(* A model is adopted on a whole arena without one bad attempt, in which no *)
(* colour-reversed pair decides against all others; and the report says     *)
(* "complete" only then and counts every attempt.                           *)
AdoptionIsEarned ==
    /\ result.adopted =>
          /\ result.status = "complete" /\ result.games = Games
          /\ \A g \in GameIds : \A i \in DOMAIN attempts[g] :
                attempts[g][i].status \in {"completed", "stopped"}
                /\ attempts[g][i].reason # "time_forfeit"
          /\ \E p \in Pairs : PairWon(p)
    /\ result.status = "complete" =>
          \A g \in GameIds : attempts[g] # <<>> /\ Settled(Final(g))

\* The variables keep their types and bounds.
TypeOK ==
    /\ proc.game \in 1..(Games + 1) /\ faults \in 0..MaxFaults
    /\ proc.at.moves \in 0..MaxPlies

\* The retries, games and adoption of an arena, however often it is run again.
ArenaIsSound == TypeOK /\ RetriesAreBounded /\ EachGameIsOne /\ AdoptionIsEarned

(* A receipt is never lost or rewritten, nor a settled game played again.   *)
NothingIsForgotten ==
    \A g \in GameIds :
        /\ Len(attempts'[g]) >= Len(attempts[g])
        /\ \A i \in DOMAIN attempts[g] :
              attempts[g][i].status # "open" => attempts'[g][i] = attempts[g][i]
        /\ attempts[g] # <<>> /\ Settled(Final(g)) => attempts'[g] = attempts[g]
=============================================================================

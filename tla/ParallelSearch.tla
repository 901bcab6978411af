--------------------------- MODULE ParallelSearch ---------------------------
(***************************************************************************)
(* One parallel search: the controller thread and the helper threads share *)
(* the root moves of each iterative-deepening iteration                    *)
(* (engine/core/src/parallel.rs, and in search.rs search_root_iteration,   *)
(* collect_partition_results and search_parallel_managed_with_callback).   *)
(*                                                                         *)
(* Every worker claims root moves of the current iteration under a lock,   *)
(* searches each against the shared alpha and publishes what it found.     *)
(* One of them searches with the full window; the others wait for it to    *)
(* end, then scout with a zero window and search again only what beats     *)
(* alpha.  The controller collects the results, merges them, widens the    *)
(* aspiration window or goes one depth deeper, and stops and joins the     *)
(* helpers at the end.                                                     *)
(*                                                                         *)
(* The tree below a root move is abstracted to its score `value' at the    *)
(* depth being searched and to what a fail-soft alpha-beta search may      *)
(* return for it (Returns).  A slot of the iteration is named by its move. *)
(***************************************************************************)
EXTENDS Integers, FiniteSets

CONSTANTS
  Helpers,     \* helper threads
  Controller,  \* the calling thread
  NMoves,      \* number of legal root moves
  MaxScore,    \* scores are 1 .. MaxScore
  MaxDepth,    \* limits.max_depth
  Window,      \* SearchConfig.aspiration_window, 0 when disabled
  Pvs          \* SearchConfig.enable_pvs

ASSUME SearchAssumption ==
  /\ Controller \notin Helpers
  /\ NMoves \in Nat \ {0} /\ MaxScore \in Nat \ {0} /\ MaxDepth \in Nat \ {0}
  /\ Window \in Nat /\ Pvs \in BOOLEAN

Moves == 1 .. NMoves
Scores == 1 .. MaxScore
NegInfinity == 0
Infinity == MaxScore + 1
Workers == Helpers \cup {Controller}

VARIABLES
  value,        \* the true score of each root move at the depth being searched
  depth,        \* completed_depth
  best,         \* `completed': move and score of the last accepted iteration
  ranking,      \* the order of the last accepted root moves, best first
  window,       \* alpha and beta of the next attempt
  iter,         \* IterationState: epoch, window and order of the moves
  results,      \* IterationState.results, by move
  cursor,       \* how many moves of the iteration are claimed
  sharedAlpha,  \* shared_alpha
  primed,       \* primed
  fullWindow,   \* first_full_window
  stop,         \* the stop flag
  evalFailed,   \* evaluation_failed
  aborted,      \* the deadline passed, or the node budget is latched
  cancelled,    \* the cancellation token
  pc,           \* where each thread is
  job,          \* the claim of each thread and what its search gave
  prepared,     \* prepared_epoch of each helper
  own,          \* the results the controller holds
  term,         \* why the controller's own context ended, or its panic
  outcome,      \* how the search returned
  failed        \* history: an inference failed in some thread

None == [score |-> 0, exact |-> FALSE]
NoJob == [epoch |-> 0, move |-> 0, first |-> FALSE, alpha |-> 0, beta |-> 0,
          entry |-> None, end |-> "none"]
NoResults == [m \in Moves |-> None]

answer == <<value, depth, best, ranking, window, own, term, outcome>>
iteration == <<iter, results>>
shared == <<cursor, sharedAlpha, primed, fullWindow>>
signals == <<stop, evalFailed, aborted, cancelled, failed>>
vars == <<value, depth, best, ranking, window, own, term, outcome, iter, results,
          cursor, sharedAlpha, primed, fullWindow, stop, evalFailed, aborted,
          cancelled, failed, pc, job, prepared>>

Init ==
  /\ value \in [Moves -> Scores]
  /\ depth = 0 /\ best = [move |-> 0, score |-> 0]
  /\ ranking = [i \in Moves |-> i]
  /\ window = [alpha |-> NegInfinity, beta |-> Infinity]
  /\ iter = [epoch |-> 0, alpha |-> 0, beta |-> 0, order |-> ranking]
  /\ results = NoResults /\ own = NoResults
  /\ cursor = 0 /\ sharedAlpha = NegInfinity /\ primed = FALSE /\ fullWindow = FALSE
  /\ stop = FALSE /\ evalFailed = FALSE /\ aborted = FALSE /\ cancelled = FALSE
  /\ pc = [w \in Workers |-> IF w = Controller THEN "spawn" ELSE "unborn"]
  /\ job = [w \in Workers |-> NoJob]
  /\ prepared = [h \in Helpers |-> 0]
  /\ term = "none" /\ outcome = "running" /\ failed = FALSE

-----------------------------------------------------------------------------
(* What the threads read of each other. *)

\* should_abort; check_termination also looks at the token and at the context.
ShouldAbort == stop \/ aborted
MustEnd(w) == ShouldAbort \/ cancelled \/ (w = Controller /\ term # "none")

\* alive_helpers: the helpers between enter_helper and the drop of their guard.  A
\* panic drops the guard of a helper before its thread sets the stop flag.
HelpersAlive == \E h \in Helpers : pc[h] \notin {"unborn", "enter", "unwound", "gone"}

MoveTo(w, place) == pc' = [pc EXCEPT ![w] = place]

-----------------------------------------------------------------------------
(* What a search returns for a root move whose true score is v. *)

\* Fail-soft alpha-beta: exact inside the window, only a bound outside it, and in any
\* case a score a move can have.
Returns(v, alpha, beta) ==
  {s \in Scores :
     \/ alpha >= beta
     \/ v <= alpha /\ v <= s /\ s <= alpha
     \/ v >= beta /\ beta <= s /\ s <= v
     \/ s = v}

Entry(s, e) == [score |-> s, exact |-> e]

\* search_root_move: the first move gets the whole window; another one is scouted
\* with a zero window and searched again when it beats alpha inside the window.
Found(v, alpha, beta, first) ==
  LET whole  == {Entry(s, TRUE) : s \in Returns(v, alpha, beta)}
      scouts == Returns(v, alpha, alpha + 1)
      again  == {s \in scouts : alpha < s /\ s < beta}
  IN  IF first \/ ~Pvs
        THEN whole
        ELSE {Entry(s, FALSE) : s \in scouts \ again} \cup (IF again = {} THEN {} ELSE whole)

-----------------------------------------------------------------------------
(* One claim, for every thread. *)

\* claim(): the slot and its epoch are taken together, under the iteration lock.
Take(w) ==
  /\ ~ShouldAbort /\ iter.epoch > 0 /\ cursor < NMoves
  /\ cursor' = cursor + 1
  /\ job' = [job EXCEPT ![w] = [NoJob EXCEPT !.epoch = iter.epoch,
                                             !.move = iter.order[cursor + 1]]]
  /\ MoveTo(w, "claimed")
  /\ UNCHANGED <<answer, iteration, sharedAlpha, primed, fullWindow, signals, prepared>>

\* claim_full_window: one swap decides which claim searches the whole window.
TakeWindow(w) ==
  /\ fullWindow' = TRUE
  /\ job' = [job EXCEPT ![w].first = ~fullWindow]
  /\ MoveTo(w, IF fullWindow THEN "wait" ELSE "sample")
  /\ UNCHANGED <<answer, iteration, cursor, sharedAlpha, primed, signals, prepared>>

\* wait_until_primed: a scout starts only after the whole-window search ended.
Primed(w) ==
  /\ pc[w] = "wait" /\ primed
  /\ MoveTo(w, "sample")
  /\ UNCHANGED <<answer, iteration, shared, signals, job, prepared>>
\* As if the waiting threads noticed only that every helper is gone.
Unprimed_OnlyDead == ~primed /\ ~HelpersAlive
Unprimed == ~primed /\ (ShouldAbort \/ ~HelpersAlive)

Sample(w) ==
  /\ job' = [job EXCEPT ![w].alpha = sharedAlpha]
  /\ MoveTo(w, "search")
  /\ UNCHANGED <<answer, iteration, shared, signals, prepared>>

\* The entries the search of a claim may end with.
Entries(w) == Found(value[job[w].move], job[w].alpha, job[w].beta, job[w].first)

\* As if raise_alpha were a plain store.
Raise_Store(w) ==
  /\ pc[w] = "raise"
  /\ sharedAlpha' = job[w].entry.score
  /\ MoveTo(w, IF w = Controller THEN "prime" ELSE "publish")
  /\ UNCHANGED <<answer, iteration, cursor, primed, fullWindow, signals, job, prepared>>

\* raise_alpha: fetch_max.
Raise(w) ==
  /\ pc[w] = "raise"
  /\ LET s == job[w].entry.score
     IN  sharedAlpha' = IF s > sharedAlpha THEN s ELSE sharedAlpha
  /\ MoveTo(w, IF w = Controller THEN "prime" ELSE "publish")
  /\ UNCHANGED <<answer, iteration, cursor, primed, fullWindow, signals, job, prepared>>

\* publish: a result of a replaced iteration is dropped.
Publish(w) ==
  /\ pc[w] = "publish"
  /\ results' = IF iter.epoch = job[w].epoch
                  THEN [results EXCEPT ![job[w].move] = job[w].entry] ELSE results
  /\ own' = IF w = Controller THEN [own EXCEPT ![job[w].move] = job[w].entry] ELSE own
  /\ job' = [job EXCEPT ![w] = NoJob]
  /\ MoveTo(w, "loop")
  /\ UNCHANGED <<value, depth, best, ranking, window, term, outcome, iter, shared,
                 signals, prepared>>

-----------------------------------------------------------------------------
(* A helper thread: run_helper. *)

Enter(h) ==
  /\ pc[h] = "enter"
  /\ MoveTo(h, "loop")
  /\ UNCHANGED <<answer, iteration, shared, signals, job, prepared>>

\* The loop ends with the search, and the guard of alive_helpers is dropped.
Leave(h) ==
  /\ \/ pc[h] = "loop" /\ (ShouldAbort \/ cancelled)
     \/ pc[h] = "wait" /\ Unprimed
     \/ pc[h] = "leave"
  /\ MoveTo(h, "gone")
  /\ job' = [job EXCEPT ![h] = NoJob]
  /\ UNCHANGED <<answer, iteration, shared, signals, prepared>>

Claim(h) == pc[h] = "loop" /\ ~cancelled /\ Take(h)

\* window_of, which drops a claim of a replaced iteration, and prepare_worker_root,
\* which is run once for each epoch and may fail or panic.
Prepare(h) ==
  /\ pc[h] = "claimed"
  /\ LET current == iter.epoch = job[h].epoch
     IN  \/ /\ job' = [job EXCEPT ![h] = IF current THEN [@ EXCEPT !.beta = iter.beta]
                                                    ELSE NoJob]
           /\ prepared' = [prepared EXCEPT ![h] = IF current THEN iter.epoch ELSE @]
           /\ MoveTo(h, IF current THEN "window" ELSE "loop")
           /\ UNCHANGED failed
        \/ /\ current /\ prepared[h] # iter.epoch
           /\ \/ MoveTo(h, "fail") /\ failed' = TRUE
              \/ MoveTo(h, "unwound") /\ UNCHANGED failed
           /\ job' = [job EXCEPT ![h] = NoJob]
           /\ UNCHANGED prepared
  /\ UNCHANGED <<answer, iteration, shared, stop, evalFailed, aborted, cancelled>>

HelperWindow(h) == pc[h] = "window" /\ TakeWindow(h)
HelperSample(h) == pc[h] = "sample" /\ Sample(h)

\* The search of a claim finds an entry, runs into the end of the search, fails
\* an inference or panics.
HelperSearch(h) ==
  /\ pc[h] = "search"
  /\ \/ /\ ~MustEnd(h)
        /\ \E e \in Entries(h) :
             job' = [job EXCEPT ![h].entry = e, ![h].end = "found"]
        /\ UNCHANGED failed
     \/ /\ MustEnd(h)
        /\ job' = [job EXCEPT ![h].end = "ended"]
        /\ UNCHANGED failed
     \/ /\ ~MustEnd(h)
        /\ job' = [job EXCEPT ![h].end = "error"]
        /\ failed' = TRUE
     \/ /\ job' = [job EXCEPT ![h].end = "panic"]
        /\ UNCHANGED failed
  /\ MoveTo(h, "prime")
  /\ UNCHANGED <<answer, iteration, shared, stop, evalFailed, aborted, cancelled, prepared>>

\* A helper that searched the whole window lets the scouts go however it ended.
AfterSearch == [found |-> "raise", ended |-> "loop", error |-> "fail", panic |-> "halt"]

HelperPrime(h) ==
  /\ pc[h] = "prime"
  /\ primed' = (primed \/ job[h].first)
  /\ MoveTo(h, AfterSearch[job[h].end])
  /\ job' = [job EXCEPT ![h] = IF @.end = "found" THEN @ ELSE NoJob]
  /\ UNCHANGED <<answer, iteration, cursor, sharedAlpha, fullWindow, signals, prepared>>

\* As if fail_evaluation only recorded the failure.
StopSearch_OnlyRecords(h) ==
  /\ pc[h] \in {"fail", "halt", "unwound"}
  /\ stop' = (stop \/ pc[h] # "fail")
  /\ evalFailed' = (evalFailed \/ pc[h] = "fail")
  /\ MoveTo(h, IF pc[h] = "unwound" THEN "gone" ELSE "leave")
  /\ UNCHANGED <<answer, iteration, shared, aborted, cancelled, failed, job, prepared>>

\* fail_evaluation, and the stop after a panic.
StopSearch(h) ==
  /\ pc[h] \in {"fail", "halt", "unwound"}
  /\ stop' = TRUE
  /\ evalFailed' = (evalFailed \/ pc[h] = "fail")
  /\ MoveTo(h, IF pc[h] = "unwound" THEN "gone" ELSE "leave")
  /\ UNCHANGED <<answer, iteration, shared, aborted, cancelled, failed, job, prepared>>

Helper(h) ==
  \/ Enter(h) \/ Leave(h) \/ Claim(h) \/ Prepare(h) \/ HelperWindow(h) \/ Primed(h)
  \/ HelperSample(h) \/ HelperSearch(h) \/ HelperPrime(h) \/ Raise(h) \/ Publish(h)
  \/ StopSearch(h)

-----------------------------------------------------------------------------
(* The controller: creation of the helpers and its share of the claims. *)

At(place) == pc[Controller] = place
Go(place) == MoveTo(Controller, place)

Spawn(h) ==
  /\ At("spawn") /\ pc[h] = "unborn"
  /\ MoveTo(h, "enter")
  /\ UNCHANGED <<answer, iteration, shared, signals, job, prepared>>

\* All helpers exist, or the creation of one failed and the rest is not tried; a
\* panic in the loop stops those that run.
SpawnEnds ==
  /\ At("spawn")
  /\ \/ Go("root") /\ UNCHANGED term
     \/ Go("stopping") /\ term' = "panic"
  /\ UNCHANGED <<value, depth, best, ranking, window, own, outcome, iteration, shared,
                 signals, job, prepared>>

\* The static evaluation of the root: after a failed inference the search goes on
\* to its first check.
EvaluateRoot ==
  /\ At("root")
  /\ \/ UNCHANGED <<term, failed>>
     \/ ~MustEnd(Controller) /\ term' = "error" /\ failed' = TRUE
  /\ Go("begin")
  /\ UNCHANGED <<value, depth, best, ranking, window, own, outcome, iteration, shared,
                 stop, evalFailed, aborted, cancelled, job, prepared>>

\* begin_iteration.  Only claims of the iteration it replaces could see it halfway,
\* and none is left then (ClaimsAreCurrent).
Begin ==
  /\ At("begin")
  /\ iter' = [epoch |-> iter.epoch + 1, alpha |-> window.alpha, beta |-> window.beta,
              order |-> ranking]
  /\ results' = NoResults /\ own' = NoResults
  /\ cursor' = 0 /\ sharedAlpha' = window.alpha /\ primed' = FALSE /\ fullWindow' = FALSE
  /\ Go("loop")
  /\ UNCHANGED <<value, depth, best, ranking, window, term, outcome, signals, job, prepared>>

ControllerClaim == At("loop") /\ Take(Controller)

ClaimsEnd ==
  /\ At("loop") /\ (ShouldAbort \/ cursor >= NMoves)
  /\ Go("collect")
  /\ UNCHANGED <<answer, iteration, shared, signals, job, prepared>>

\* As if one result were enough to merge.
Missing_UnlessAny == {m \in Moves : \A n \in Moves : own[n] = None}

\* The slots the controller holds no result for.
Missing == {m \in Moves : own[m] = None}

\* The controller gives the iteration up, and with it the search.
GiveUp ==
  /\ \/ pc[Controller] \in {"claimed", "sample", "search", "fallback"} /\ MustEnd(Controller)
     \/ At("collect") /\ Missing # {} /\ MustEnd(Controller)
     \/ At("wait") /\ Unprimed
  /\ Go("stopping")
  /\ UNCHANGED <<answer, iteration, shared, signals, job, prepared>>

ControllerWindow == At("claimed") /\ ~MustEnd(Controller) /\ TakeWindow(Controller)
ControllerSample == At("sample") /\ ~MustEnd(Controller) /\ Sample(Controller)

\* Its search finds an entry, fails an inference, reaches its own node limit (the last
\* node of a search that finds an entry may be the last one allowed) or panics.
ControllerSearch ==
  /\ At("search") /\ ~MustEnd(Controller)
  /\ \/ /\ \E e \in Found(value[job[Controller].move], job[Controller].alpha, iter.beta,
                           job[Controller].first) :
             job' = [job EXCEPT ![Controller].entry = e]
        /\ term' \in {"none", "limit"}
        /\ Go("raise")
        /\ UNCHANGED failed
     \/ /\ term' = "error" /\ failed' = TRUE
        /\ Go("stopping")
        /\ UNCHANGED job
     \/ /\ term' \in {"limit", "panic"}
        /\ Go("stopping")
        /\ UNCHANGED <<job, failed>>
  /\ UNCHANGED <<value, depth, best, ranking, window, own, outcome, iteration, shared,
                 stop, evalFailed, aborted, cancelled, prepared>>

\* Unlike a helper, the controller lets the scouts go after it raised alpha.
ControllerPrime ==
  /\ At("prime")
  /\ primed' = (primed \/ job[Controller].first)
  /\ Go("publish")
  /\ UNCHANGED <<answer, iteration, cursor, sharedAlpha, fullWindow, signals, job, prepared>>

-----------------------------------------------------------------------------
(* The controller: the collection, the merge and the end. *)

\* collect_partition_results checks, adopts what is published, and waits while a
\* helper lives.  Without one it would search what is missing itself.
CollectCheck ==
  /\ At("collect")
  /\ \/ Missing = {} /\ Go("merge")
     \/ Missing # {} /\ ~MustEnd(Controller) /\ Go("adopt")
  /\ UNCHANGED <<answer, iteration, shared, signals, job, prepared>>

Adopt ==
  /\ At("adopt")
  /\ own' = [m \in Moves |-> IF own[m] = None THEN results[m] ELSE own[m]]
  /\ \/ Missing' = {} /\ Go("merge")
     \/ Missing' # {} /\ HelpersAlive /\ Go("collect")
     \/ Missing' # {} /\ ~HelpersAlive /\ Go("fallback")
  /\ UNCHANGED <<value, depth, best, ranking, window, term, outcome, iteration, shared,
                 signals, job, prepared>>

Fallback ==
  /\ At("fallback") /\ ~MustEnd(Controller)
  /\ \E m \in Missing :
       /\ \A n \in Missing : m <= n
       /\ \E e \in Found(value[m], sharedAlpha, iter.beta, FALSE) :
            own' = [own EXCEPT ![m] = e]
  /\ term' \in {"none", "limit"}
  /\ Go(IF Missing' = {} THEN "merge" ELSE "fallback")
  /\ UNCHANGED <<value, depth, best, ranking, window, outcome, iteration, shared,
                 signals, job, prepared>>

\* Such a search fails as one of its own claims does.
FallbackFails ==
  /\ At("fallback") /\ ~MustEnd(Controller)
  /\ \/ term' = "error" /\ failed' = TRUE
     \/ term' \in {"limit", "panic"} /\ UNCHANGED failed
  /\ Go("stopping")
  /\ UNCHANGED <<value, depth, best, ranking, window, own, outcome, iteration, shared,
                 stop, evalFailed, aborted, cancelled, job, prepared>>

\* The merge: the highest score; an exact one before a bound; the smallest move.
Beats(m, n) ==
  \/ own[m].score > own[n].score
  \/ /\ own[m].score = own[n].score
     /\ \/ own[m].exact /\ ~own[n].exact
        \/ own[m].exact = own[n].exact /\ m < n
IsMerged(m) == \A n \in Moves \ {m} : Beats(m, n)

\* complete_root_iteration: by score, then by move.
IsRanking(order) ==
  \A i, j \in Moves : i < j =>
    \/ own[order[i]].score > own[order[j]].score
    \/ own[order[i]].score = own[order[j]].score /\ order[i] < order[j]
Orders == {f \in [Moves -> Moves] : \A i, j \in Moves : f[i] = f[j] => i = j}

Aspiration == Window > 0 /\ depth > 0
FailsLow(m) == Aspiration /\ own[m].score <= window.alpha
FailsHigh(m) == Aspiration /\ ~FailsLow(m) /\ own[m].score >= window.beta

\* A score outside the aspiration window is searched again with that side open.
Retry ==
  /\ At("merge")
  /\ \E m \in Moves :
       /\ IsMerged(m)
       /\ \/ FailsLow(m) /\ window' = [window EXCEPT !.alpha = NegInfinity]
          \/ FailsHigh(m) /\ window' = [window EXCEPT !.beta = Infinity]
  /\ Go("begin")
  /\ UNCHANGED <<value, depth, best, ranking, own, term, outcome, iteration, shared,
                 signals, job, prepared>>

DepthLeft(d) == d < MaxDepth

\* The iteration is accepted and reported.  The search goes one depth deeper, or ends
\* because it was told to, is deep or stable enough, or the callback panicked.
Accept ==
  /\ At("merge")
  /\ \E m \in Moves :
       /\ IsMerged(m) /\ ~FailsLow(m) /\ ~FailsHigh(m)
       /\ best' = [move |-> m, score |-> own[m].score]
  /\ depth' = depth + 1
  /\ ranking' \in {order \in Orders : IsRanking(order)}
  /\ \/ /\ DepthLeft(depth') /\ ~MustEnd(Controller)
        /\ window' = IF Window = 0 THEN window
                     ELSE [alpha |-> best'.score - Window, beta |-> best'.score + Window]
        /\ value' \in [Moves -> Scores]
        /\ Go("begin")
        /\ UNCHANGED term
     \/ /\ term' \in {term, "panic"}
        /\ Go("stopping")
        /\ UNCHANGED <<window, value>>
  /\ UNCHANGED <<own, outcome, iteration, shared, signals, job, prepared>>

StopHelpers ==
  /\ At("stopping")
  /\ stop' = TRUE
  /\ Go("join")
  /\ UNCHANGED <<answer, iteration, shared, evalFailed, aborted, cancelled, failed, job, prepared>>

\* The scoped join, and only then the result.
Joined == \A h \in Helpers : pc[h] \in {"unborn", "gone"}
\* As if the result of a search ignored the failure of a helper.
Return_OwnTermination ==
  /\ At("join") /\ Joined
  /\ outcome' = IF term = "panic" THEN "panicked"
                ELSE IF term = "error" THEN "error" ELSE "answered"
  /\ Go("done")
  /\ UNCHANGED <<value, depth, best, ranking, window, own, term, iteration, shared,
                 signals, job, prepared>>

Return ==
  /\ At("join") /\ Joined
  /\ outcome' = IF term = "panic" THEN "panicked"
                ELSE IF evalFailed \/ term = "error" THEN "error" ELSE "answered"
  /\ Go("done")
  /\ UNCHANGED <<value, depth, best, ranking, window, own, term, iteration, shared,
                 signals, job, prepared>>

Control ==
  \/ SpawnEnds \/ EvaluateRoot \/ Begin \/ ControllerClaim \/ ClaimsEnd \/ GiveUp
  \/ ControllerWindow \/ Primed(Controller) \/ ControllerSample \/ ControllerSearch
  \/ Raise(Controller) \/ ControllerPrime \/ Publish(Controller)
  \/ CollectCheck \/ Adopt \/ Fallback \/ FallbackFails \/ Retry \/ Accept \/ StopHelpers \/ Return

\* The shared deadline passes or the node budget is drained; the peer cancels.
Abort ==
  /\ ~aborted
  /\ aborted' = TRUE
  /\ UNCHANGED <<answer, iteration, shared, stop, evalFailed, cancelled, failed, pc, job, prepared>>
Cancel ==
  /\ ~cancelled
  /\ cancelled' = TRUE
  /\ UNCHANGED <<answer, iteration, shared, stop, evalFailed, aborted, failed, pc, job, prepared>>

Next ==
  \/ \E h \in Helpers : Helper(h) \/ Spawn(h)
  \/ Control
  \/ Abort \/ Cancel

Spec == Init /\ [][Next]_vars

\* The operating system runs every thread; searches below a root move end.
FairSpec == Spec /\ WF_vars(Control) /\ \A h \in Helpers : WF_vars(Helper(h))

-----------------------------------------------------------------------------
(* Properties. *)

HelperPlaces == {"unborn", "enter", "loop", "claimed", "window", "wait", "sample", "search",
                 "prime", "raise", "publish", "fail", "halt", "unwound", "leave", "gone"}
ControllerPlaces == {"spawn", "root", "begin", "loop", "claimed", "wait", "sample", "search",
                     "raise", "prime", "publish", "collect", "adopt", "fallback", "merge",
                     "stopping", "join", "done"}
Entry0 == [score : 0 .. MaxScore, exact : BOOLEAN]

TypeOK ==
  /\ value \in [Moves -> Scores] /\ depth \in 0 .. MaxDepth
  /\ best \in [move : 0 .. NMoves, score : 0 .. MaxScore]
  /\ ranking \in Orders
  /\ results \in [Moves -> Entry0] /\ own \in [Moves -> Entry0]
  /\ cursor \in 0 .. NMoves /\ sharedAlpha \in Int
  /\ {primed, fullWindow, stop, evalFailed, aborted, cancelled, failed} \subseteq BOOLEAN
  /\ \A h \in Helpers : pc[h] \in HelperPlaces
  /\ pc[Controller] \in ControllerPlaces
  /\ term \in {"none", "error", "limit", "panic"}
  /\ outcome \in {"running", "answered", "error", "panicked"}

\* The threads that hold a claim whose result is still to be published.
Claimants ==
  {w \in Workers : pc[w] \in {"claimed", "window", "wait", "sample", "search", "prime",
                              "raise", "publish"}}
Ending ==
  \/ ShouldAbort \/ cancelled \/ term # "none"
  \/ \E h \in Helpers : pc[h] \in {"fail", "halt", "unwound"}

\* While a search goes on, every claim belongs to the iteration that is being searched:
\* the guards against late results and replaced iterations never drop one.
ClaimsAreCurrent == \A w \in Claimants : job[w].epoch = iter.epoch

\* A root move is searched by one thread at a time, never again once its result is
\* published, and only one claim of an iteration gets the whole window.
SlotsAreExclusive ==
  \A w \in Claimants :
    /\ results[job[w].move] = None
    /\ \A x \in Claimants \ {w} :
         job[x].move # job[w].move /\ ~(job[x].first /\ job[w].first)

\* A claimed move without a result is in some thread's hands, unless the search ends or
\* a helper is about to end it: the controller never waits for a result that nobody
\* will publish.
NoSlotIsLost ==
  Ending \/ \A i \in 1 .. cursor :
    LET m == iter.order[i]
    IN  results[m] # None \/ \E w \in Claimants : job[w].move = m

\* The shared alpha is the window's, or the exact score some root move was found to
\* have, or it is beyond beta: no scout is cut off by a mere bound.
AlphaIsBacked ==
  iter.alpha < sharedAlpha /\ sharedAlpha < iter.beta /\ ~At("begin")
    => \E m \in Moves : value[m] = sharedAlpha

\* The threads share the root moves: none is searched twice, none is lost, and none is
\* judged by a bound that no move backs (parallel.rs).
SharingIsSound == TypeOK /\ SlotsAreExclusive /\ NoSlotIsLost /\ AlphaIsBacked

\* Within one iteration the shared alpha only rises.
AlphaOnlyRises == [][iter' = iter => sharedAlpha' >= sharedAlpha]_vars

\* However the threads interleave, fail or stop, the search settles on moves no other
\* move beats, depth by depth, and it fails closed after a failed inference.
Abstract == INSTANCE IterativeDeepening
ImplementsDeepening == Abstract!Spec

\* The search returns: the waits for the primer, for the results and for the helpers
\* all end.
SearchReturns == <>(pc[Controller] = "done")

=============================================================================

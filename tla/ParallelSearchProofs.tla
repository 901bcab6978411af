------------------------ MODULE ParallelSearchProofs ------------------------
(***************************************************************************)
(* Proofs about ParallelSearch, for any number of helper threads, root     *)
(* moves, scores and depths and for every aspiration window: the threads   *)
(* share the root moves soundly, no claim is ever of a replaced iteration, *)
(* the shared alpha only rises, and the whole search implements            *)
(* IterativeDeepening.                                                     *)
(*                                                                         *)
(* The inductive invariant IInv is a conjunction of ten parts, each kept   *)
(* by every step (the lemmas ...Step): the types; the claims (Claims); the *)
(* whole-window claim (Windowing); where the controller is (Phases); the   *)
(* windows (Windows); what a search under way knows (Searching); what the  *)
(* published entries tell (Listed); what backs alpha (Backed); that no     *)
(* slot is lost (Held); and that no failure is (Failing).                  *)
(***************************************************************************)
EXTENDS ParallelSearch, TLAPS

\* The types.
Ends == {"none", "found", "ended", "error", "panic"}
Job == [epoch : Nat, move : 0 .. NMoves, first : BOOLEAN, alpha : Int, beta : Int,
        entry : Entry0, end : Ends]

PlacesTyped ==
  /\ pc \in [Workers -> HelperPlaces \cup ControllerPlaces]
  /\ \A h \in Helpers : pc[h] \in HelperPlaces
  /\ pc[Controller] \in ControllerPlaces
  /\ \A h \in Helpers : pc[h] = "prime" => job[h].end # "none"
JobsTyped == job \in [Workers -> Job]
DataTyped ==
  /\ value \in [Moves -> Scores] /\ depth \in 0 .. MaxDepth
  /\ best \in [move : 0 .. NMoves, score : 0 .. MaxScore]
  /\ window \in [alpha : Int, beta : Int]
  /\ iter \in [epoch : Nat, alpha : Int, beta : Int, order : Orders] /\ ranking \in Orders
  /\ results \in [Moves -> Entry0] /\ own \in [Moves -> Entry0]
  /\ cursor \in 0 .. NMoves /\ sharedAlpha \in Int
  /\ prepared \in [Helpers -> Nat]
FlagsTyped ==
  /\ primed \in BOOLEAN /\ fullWindow \in BOOLEAN /\ stop \in BOOLEAN
  /\ evalFailed \in BOOLEAN /\ aborted \in BOOLEAN /\ cancelled \in BOOLEAN
  /\ failed \in BOOLEAN
  /\ term \in {"none", "error", "limit", "panic"}
  /\ outcome \in {"running", "answered", "error", "panicked"}
Typed == PlacesTyped /\ JobsTyped /\ DataTyped /\ FlagsTyped

\* No more move can be claimed in this iteration.
Closed == cursor >= NMoves \/ ShouldAbort
Claimed == {iter.order[i] : i \in 1 .. cursor}
Holding == {"claimed", "window", "wait", "sample", "search", "prime", "raise", "publish"}
Windowed == {"sample", "search", "prime", "raise", "publish"}

\* A claim is of the current iteration, of a claimed slot that has no result yet.
ClaimOf(w) ==
  pc[w] \in Holding =>
    /\ job[w].epoch = iter.epoch /\ 0 < iter.epoch
    /\ job[w].move \in Claimed
    /\ results[job[w].move] = None /\ own[job[w].move] = None
SlotsInOrder ==
  /\ \A m \in Moves : results[m] # None => m \in Claimed
  /\ \A m \in Moves : own[m] # None => m \in Claimed \/ Closed
  /\ \A w, x \in Workers :
       pc[w] \in Holding /\ pc[x] \in Holding /\ w # x => job[w].move # job[x].move

Claims == (\A w \in Workers : ClaimOf(w)) /\ SlotsInOrder

\* A thread that is to let the scouts go.
Pending(w) ==
  /\ job[w].first
  /\ pc[w] \in {"sample", "search", "prime"} \/ (w = Controller /\ pc[w] = "raise")
WindowOf(w) ==
  /\ pc[w] \in Holding \ Windowed => ~job[w].first
  /\ pc[w] \in Windowed \cup {"wait"} => fullWindow
  /\ pc[w] \in Windowed => primed \/ job[w].first
OneWindow ==
  /\ \A w, x \in Workers :
       pc[w] \in Holding /\ pc[x] \in Holding /\ w # x => ~(job[w].first /\ job[x].first)
  /\ primed => fullWindow /\ \A w \in Workers : ~Pending(w)
  /\ fullWindow /\ ~primed =>
       \/ \E w \in Workers : Pending(w)
       \/ pc[Controller] \in {"stopping", "join", "done"}

Windowing == (\A w \in Workers : WindowOf(w)) /\ OneWindow

\* The iteration the controller works on, and how far it got with it.
Stages ==
  /\ pc[Controller] \in {"spawn", "root"} => iter.epoch = 0
  /\ iter.epoch = 0 => /\ pc[Controller] \in {"spawn", "root", "begin", "stopping", "join", "done"}
                       /\ cursor = 0 /\ ~fullWindow /\ ~primed
                       /\ results = NoResults /\ own = NoResults
  /\ pc[Controller] \in {"collect", "adopt", "fallback", "merge", "begin"} =>
       Closed \/ iter.epoch = 0
  /\ pc[Controller] \notin {"stopping", "join", "done"} => depth < MaxDepth
\* The results it collects are those the threads published.
Collection ==
  /\ pc[Controller] = "begin" => \A w \in Workers : pc[w] \notin Holding
  /\ pc[Controller] = "fallback" =>
       /\ \A w \in Workers : pc[w] \notin Holding
       /\ \A m \in Moves : own[m] = None => results[m] = None
  /\ pc[Controller] = "merge" => \A m \in Moves : own[m] # None
  /\ \A m \in Moves : results[m] # None /\ own[m] # None => own[m] = results[m]
  /\ \A h \in Helpers : pc[h] = "prime" /\ job[h].end = "ended" => ShouldAbort \/ cancelled
Phases == Stages /\ Collection

\* The places in which the controller works on an iteration.
Iterating == {"loop", "claimed", "wait", "sample", "search", "raise", "prime", "publish",
              "collect", "adopt", "fallback", "merge"}
Windows ==
  /\ window.alpha < window.beta /\ window.alpha <= MaxScore /\ 1 <= window.beta
  /\ iter.epoch > 0 => iter.alpha < iter.beta /\ iter.alpha <= sharedAlpha
  /\ iter.epoch = 0 => iter.beta <= iter.alpha
  /\ Window = 0 \/ depth = 0 => window = [alpha |-> NegInfinity, beta |-> Infinity]
  /\ pc[Controller] \in Iterating => iter.alpha = window.alpha /\ iter.beta = window.beta

\* A thread that has found an entry, and one that has raised alpha with it.
HasEntry(w) ==
  IF w = Controller THEN pc[w] \in {"raise", "prime", "publish"}
  ELSE pc[w] \in {"raise", "publish"} \/ (pc[w] = "prime" /\ job[w].end = "found")
Raised(w) == pc[w] = "publish" \/ (w = Controller /\ pc[w] = "prime")

\* What an entry e found for a move of score v tells while the shared alpha is a and
\* the window of the iteration is lo to hi.
Sound(v, e, lo, a, hi) ==
  /\ e.score \in Scores
  /\ a < hi /\ e.score < hi =>
       /\ v <= e.score
       /\ e.score > a \/ (Pvs /\ e.exact /\ e.score > lo) => e.score = v
\* A score inside the window of its own search is exact.
Exactly(v, e, a, hi) == a < e.score /\ e.score < hi => e.score = v /\ e.exact

\* What a claim knows: its bounds are those of the iteration, its alpha is no later than
\* the shared one, and its entry is sound.
SearchOf(w) ==
  /\ w # Controller /\ pc[w] # "claimed" => job[w].beta = iter.beta
  /\ pc[w] = "sample" /\ job[w].first => sharedAlpha = iter.alpha
  /\ pc[w] \in {"search", "prime", "raise", "publish"} =>
       /\ iter.alpha <= job[w].alpha /\ job[w].alpha <= sharedAlpha
       /\ job[w].first => job[w].alpha = iter.alpha
  /\ HasEntry(w) =>
       /\ Sound(value[job[w].move], job[w].entry, iter.alpha, sharedAlpha, iter.beta)
       /\ Exactly(value[job[w].move], job[w].entry, job[w].alpha, iter.beta)
  /\ Raised(w) => job[w].entry.score <= sharedAlpha
Searching ==
  /\ \A w \in Workers : pc[w] \in Holding => SearchOf(w)
  /\ iter.epoch > 0 /\ ~fullWindow => sharedAlpha = iter.alpha

SoundAt(m, e) == Sound(value[m], e, iter.alpha, sharedAlpha, iter.beta)
Listed ==
  pc[Controller] # "begin" => \A m \in Moves :
    (results[m] # None => SoundAt(m, results[m])) /\ (own[m] # None => SoundAt(m, own[m]))

\* Some move's exact score backs the shared alpha, unless it is beyond beta.
Backs(m, e) ==
  e.score = sharedAlpha /\ (sharedAlpha < iter.beta => e.exact /\ value[m] = sharedAlpha)
Backed ==
  pc[Controller] # "begin" /\ iter.epoch > 0 /\ iter.alpha < sharedAlpha =>
    \/ \E m \in Moves : results[m] # None /\ Backs(m, results[m])
    \/ \E w \in Workers : Raised(w) /\ Backs(job[w].move, job[w].entry)

\* A failed inference is recorded, or about to be, and the search returns once.
Failing ==
  /\ outcome = "running" <=> pc[Controller] # "done"
  /\ pc[Controller] = "done" => Joined
  /\ failed => \/ evalFailed \/ term \in {"error", "panic"}
               \/ \E h \in Helpers : pc[h] = "fail" \/ (pc[h] = "prime" /\ job[h].end = "error")

\* A claimed slot without a result is in some thread's hands, unless the search ends.
Held ==
  Ending \/ \A m \in Claimed :
    results[m] # None \/ \E w \in Workers : pc[w] \in Holding /\ job[w].move = m

\* The inductive invariant.
IInv ==
  /\ Typed /\ Claims /\ Windowing /\ Phases /\ Windows
  /\ Searching /\ Listed /\ Backed /\ Held /\ Failing

\* What a search returns is a score a move can have.
LEMMA ReturnsScores ==
  ASSUME NEW v, NEW alpha, NEW beta
  PROVE  Returns(v, alpha, beta) \subseteq Scores
BY DEF Returns

\* An entry a search ends with has a score a move can have.
LEMMA FoundEntries ==
  ASSUME NEW v, NEW alpha, NEW beta, NEW first, NEW e \in Found(v, alpha, beta, first)
  PROVE  e \in Entry0 /\ e.score \in Scores
<1>1. PICK s \in Scores, x \in BOOLEAN : e = Entry(s, x)
  BY ReturnsScores DEF Found
<1> QED BY <1>1, SearchAssumption DEF Entry, Entry0, Scores

\* Every step is one of these.
LEMMA Steps ==
  ASSUME Next
  PROVE  \/ Abort \/ Cancel
         \/ \E w \in Workers :
              \/ pc[w] = "loop" /\ Take(w)
              \/ pc[w] = (IF w = Controller THEN "claimed" ELSE "window") /\ TakeWindow(w)
              \/ pc[w] = "sample" /\ Sample(w)
              \/ Primed(w) \/ Raise(w) \/ Publish(w)
         \/ \E h \in Helpers :
              \/ Spawn(h) \/ Enter(h) \/ Leave(h) \/ Prepare(h) \/ HelperSearch(h)
              \/ HelperPrime(h) \/ StopSearch(h)
         \/ SpawnEnds \/ EvaluateRoot \/ Begin \/ ClaimsEnd \/ GiveUp \/ FallbackFails
         \/ ControllerSearch \/ ControllerPrime \/ CollectCheck \/ Adopt \/ Fallback \/ Retry
         \/ Accept \/ StopHelpers \/ Return
BY SearchAssumption
   DEF Next, Helper, Control, Claim, HelperWindow, HelperSample, ControllerClaim,
       ControllerWindow, ControllerSample, Workers, At

\* The edits the actions make to a claim keep its type.
LEMMA JobEdits ==
  ASSUME NEW j \in Job
  PROVE  /\ \A f \in BOOLEAN : [j EXCEPT !.first = f] \in Job
         /\ \A a \in Int : [j EXCEPT !.alpha = a] \in Job
         /\ \A b \in Int : [j EXCEPT !.beta = b] \in Job
         /\ \A e \in Entry0 : [j EXCEPT !.entry = e] \in Job
         /\ \A e \in Entry0, x \in Ends : [[j EXCEPT !.entry = e] EXCEPT !.end = x] \in Job
         /\ \A x \in Ends : [j EXCEPT !.end = x] \in Job
BY DEF Job

\* What an edit of one thread's claim leaves alone.
LEMMA SetFirst ==
  ASSUME NEW j \in Job, NEW f, NEW k, k = [j EXCEPT !.first = f]
  PROVE  /\ k.epoch = j.epoch /\ k.move = j.move /\ k.first = f /\ k.alpha = j.alpha
         /\ k.beta = j.beta /\ k.entry = j.entry /\ k.end = j.end
BY DEF Job

\* The same for its alpha ...
LEMMA SetAlpha ==
  ASSUME NEW j \in Job, NEW a, NEW k, k = [j EXCEPT !.alpha = a]
  PROVE  /\ k.epoch = j.epoch /\ k.move = j.move /\ k.first = j.first /\ k.alpha = a
         /\ k.beta = j.beta /\ k.entry = j.entry /\ k.end = j.end
BY DEF Job

\* ... its beta ...
LEMMA SetBeta ==
  ASSUME NEW j \in Job, NEW b, NEW k, k = [j EXCEPT !.beta = b]
  PROVE  /\ k.epoch = j.epoch /\ k.move = j.move /\ k.first = j.first /\ k.alpha = j.alpha
         /\ k.beta = b /\ k.entry = j.entry /\ k.end = j.end
BY DEF Job

\* ... its entry ...
LEMMA SetEntry ==
  ASSUME NEW j \in Job, NEW e, NEW k, k = [j EXCEPT !.entry = e]
  PROVE  /\ k.epoch = j.epoch /\ k.move = j.move /\ k.first = j.first /\ k.alpha = j.alpha
         /\ k.beta = j.beta /\ k.entry = e /\ k.end = j.end
BY DEF Job

\* ... and the end of its search.
LEMMA SetEnd ==
  ASSUME NEW j \in Job, NEW x, NEW k, k = [j EXCEPT !.end = x]
  PROVE  /\ k.epoch = j.epoch /\ k.move = j.move /\ k.first = j.first /\ k.alpha = j.alpha
         /\ k.beta = j.beta /\ k.entry = j.entry /\ k.end = x
BY DEF Job

\* The empty claim and a fresh one have the type of a claim.
LEMMA NoJobTyped == NoJob \in Job
BY SearchAssumption DEF Job, NoJob, None, Entry0, Ends

\* A fresh claim of a slot.
LEMMA NewJob ==
  ASSUME NEW n \in Nat, NEW m \in Moves
  PROVE  [NoJob EXCEPT !.epoch = n, !.move = m] \in Job
<1>1. m \in 0 .. NMoves
  BY SearchAssumption DEF Moves
<1>2. \A j \in Job : [j EXCEPT !.epoch = n, !.move = m] \in Job
  BY <1>1 DEF Job
<1> QED BY NoJobTyped, <1>2

\* An order of the moves names each move once.
LEMMA OrderOf ==
  ASSUME NEW f \in Orders
  PROVE  /\ f \in [Moves -> Moves]
         /\ \A i \in Moves : f[i] \in Moves
         /\ \A i, j \in Moves : f[i] = f[j] => i = j
BY DEF Orders

\* Every step keeps the places of the threads typed.
LEMMA PlacesStep ==
  ASSUME Typed, Next
  PROVE  PlacesTyped'
<1> USE SearchAssumption DEF answer, iteration, shared, signals, MoveTo, At, Go, Typed,
      PlacesTyped, Workers, HelperPlaces, ControllerPlaces, Ends, JobsTyped, Job, AfterSearch
<1>1. ASSUME NEW w \in Workers, pc[w] = "loop" /\ Take(w) PROVE PlacesTyped'
  BY <1>1 DEF Take
<1>2. ASSUME NEW w \in Workers, TakeWindow(w) PROVE PlacesTyped'
  BY <1>2 DEF TakeWindow
<1>3. ASSUME NEW w \in Workers, Sample(w) PROVE PlacesTyped'
  BY <1>3 DEF Sample
<1>4. ASSUME NEW w \in Workers, Primed(w) PROVE PlacesTyped'
  BY <1>4 DEF Primed
<1>5. ASSUME NEW w \in Workers, Raise(w) PROVE PlacesTyped'
  BY <1>5 DEF Raise
<1>6. ASSUME NEW w \in Workers, Publish(w) PROVE PlacesTyped'
  BY <1>6 DEF Publish
<1>7. ASSUME NEW h \in Helpers, Spawn(h) PROVE PlacesTyped'
  BY <1>7 DEF Spawn
<1>8. ASSUME NEW h \in Helpers, Enter(h) PROVE PlacesTyped'
  BY <1>8 DEF Enter
<1>9. ASSUME NEW h \in Helpers, Leave(h) PROVE PlacesTyped'
  BY <1>9 DEF Leave
<1>10. ASSUME NEW h \in Helpers, Prepare(h) PROVE PlacesTyped'
  BY <1>10 DEF Prepare
<1>11. ASSUME NEW h \in Helpers, HelperSearch(h) PROVE PlacesTyped'
  <2>1. job'[h].end # "none"
    <3>1. h \in Workers /\ job[h] \in Job
      OBVIOUS
    <3>3. ASSUME NEW e, job' = [job EXCEPT ![h].entry = e, ![h].end = "found"]
          PROVE  job'[h].end = "found"
      BY <3>1, <3>3 DEF JobsTyped, Job
    <3>4. ASSUME NEW x, job' = [job EXCEPT ![h].end = x]
          PROVE  job'[h].end = x
      BY <3>1, <3>4 DEF JobsTyped, Job
    <3> QED BY <1>11, <3>3, <3>4 DEF HelperSearch
  <2>2. \A x \in Helpers \ {h} : job'[x] = job[x]
    BY <1>11 DEF HelperSearch
  <2>3. pc' = [pc EXCEPT ![h] = "prime"]
    BY <1>11 DEF HelperSearch
  <2> QED BY <2>1, <2>2, <2>3
<1>12. ASSUME NEW h \in Helpers, HelperPrime(h) PROVE PlacesTyped'
  BY <1>12 DEF HelperPrime
<1>13. ASSUME NEW h \in Helpers, StopSearch(h) PROVE PlacesTyped'
  BY <1>13 DEF StopSearch
<1>14. CASE SpawnEnds
  BY <1>14 DEF SpawnEnds
<1>15. CASE EvaluateRoot
  BY <1>15 DEF EvaluateRoot
<1>16. CASE Begin
  BY <1>16 DEF Begin
<1>17. CASE ClaimsEnd
  BY <1>17 DEF ClaimsEnd
<1>18. CASE GiveUp \/ FallbackFails
  BY <1>18 DEF GiveUp, FallbackFails
<1>19. CASE ControllerSearch
  BY <1>19 DEF ControllerSearch
<1>20. CASE ControllerPrime
  BY <1>20 DEF ControllerPrime
<1>21. CASE CollectCheck
  BY <1>21 DEF CollectCheck
<1>22. CASE Adopt
  BY <1>22 DEF Adopt
<1>23. CASE Fallback
  BY <1>23 DEF Fallback
<1>24. CASE Retry
  BY <1>24 DEF Retry
<1>25. CASE Accept
  BY <1>25 DEF Accept
<1>26. CASE StopHelpers
  BY <1>26 DEF StopHelpers
<1>27. CASE Return
  BY <1>27 DEF Return
<1>28. ASSUME Abort \/ Cancel
      PROVE PlacesTyped'
  BY <1>28 DEF Abort, Cancel
<1> QED BY Steps, <1>1, <1>2, <1>3, <1>4, <1>5, <1>6, <1>7, <1>8, <1>9, <1>10, <1>11, <1>12,
      <1>13, <1>14, <1>15, <1>16, <1>17, <1>18, <1>19, <1>20, <1>21, <1>22, <1>23, <1>24, <1>25,
      <1>26, <1>27, <1>28

\* Every step keeps the claims typed.
LEMMA JobsStep ==
  ASSUME Typed, Next
  PROVE  JobsTyped'
<1> USE SearchAssumption DEF answer, iteration, shared, signals, MoveTo, At, Go, Typed, JobsTyped,
      Workers
<1>1. ASSUME NEW w \in Workers, pc[w] = "loop" /\ Take(w) PROVE JobsTyped'
  <2>1. iter.order \in Orders /\ iter.epoch \in Nat /\ cursor + 1 \in Moves
    BY <1>1 DEF Take, DataTyped, Moves
  <2>2. [NoJob EXCEPT !.epoch = iter.epoch, !.move = iter.order[cursor + 1]] \in Job
    BY <2>1, NewJob, OrderOf
  <2> QED BY <1>1, <2>2 DEF Take
<1>2. ASSUME NEW w \in Workers, TakeWindow(w) PROVE JobsTyped'
  BY <1>2, JobEdits, NoJobTyped DEF TakeWindow, Ends, DataTyped, FlagsTyped, Moves
<1>3. ASSUME NEW w \in Workers, Sample(w) PROVE JobsTyped'
  BY <1>3, JobEdits, NoJobTyped DEF Sample, Ends, DataTyped, FlagsTyped, Moves
<1>4. ASSUME NEW w \in Workers, Publish(w) PROVE JobsTyped'
  BY <1>4, JobEdits, NoJobTyped DEF Publish, Ends, DataTyped, FlagsTyped, Moves
<1>5. ASSUME NEW h \in Helpers, Leave(h) PROVE JobsTyped'
  BY <1>5, JobEdits, NoJobTyped DEF Leave, Ends, DataTyped, FlagsTyped, Moves
<1>6. ASSUME NEW h \in Helpers, Prepare(h) PROVE JobsTyped'
  <2>1. job[h] \in Job /\ NoJob \in Job /\ iter.beta \in Int
    BY NoJobTyped DEF DataTyped
  <2>2. [job[h] EXCEPT !.beta = iter.beta] \in Job
    BY <2>1, JobEdits
  <2> QED BY <1>6, <2>1, <2>2 DEF Prepare
<1>7. ASSUME NEW h \in Helpers, HelperSearch(h) PROVE JobsTyped'
  <2>1. job[h] \in Job
    OBVIOUS
  <2>2. CASE \E e \in Entries(h) : job' = [job EXCEPT ![h].entry = e, ![h].end = "found"]
    <3>1. PICK e \in Entries(h) : job' = [job EXCEPT ![h].entry = e, ![h].end = "found"]
      BY <2>2
    <3>2. e \in Entry0
      BY FoundEntries DEF Entries
    <3>3. [job[h] EXCEPT !.entry = e, !.end = "found"] \in Job
      BY <2>1, <3>2, JobEdits DEF Ends
    <3> QED BY <3>1, <3>3
  <2>3. CASE \E x \in Ends : job' = [job EXCEPT ![h].end = x]
    BY <2>1, <2>3, JobEdits
  <2> QED BY <1>7, <2>2, <2>3 DEF HelperSearch, Ends
<1>8. ASSUME NEW h \in Helpers, HelperPrime(h) PROVE JobsTyped'
  BY <1>8, JobEdits, NoJobTyped DEF HelperPrime, Ends, DataTyped, FlagsTyped, Moves
<1>9. CASE ControllerSearch
  <2>1. job[Controller] \in Job
    OBVIOUS
  <2>2. ASSUME NEW e \in Entry0 PROVE [job[Controller] EXCEPT !.entry = e] \in Job
    BY <2>1, JobEdits
  <2> QED BY <1>9, <2>2, FoundEntries DEF ControllerSearch
<1>10. ASSUME Abort \/ Cancel \/ (\E w \in Workers : Primed(w)) \/ (\E w \in Workers : Raise(w))
              \/ (\E h \in Helpers : Spawn(h)) \/ (\E h \in Helpers : Enter(h))
              \/ (\E h \in Helpers : StopSearch(h)) \/ SpawnEnds \/ EvaluateRoot \/ Begin
              \/ ClaimsEnd \/ GiveUp \/ FallbackFails \/ ControllerPrime \/ CollectCheck
              \/ Adopt \/ Fallback \/ Retry \/ Accept \/ StopHelpers \/ Return
      PROVE JobsTyped'
  BY <1>10 DEF Abort, Cancel, Primed, Raise, Spawn, Enter, StopSearch, SpawnEnds, EvaluateRoot,
     Begin, ClaimsEnd, GiveUp, FallbackFails, ControllerPrime, CollectCheck, Adopt, Fallback,
     Retry, Accept, StopHelpers, Return
<1> QED BY Steps, <1>1, <1>2, <1>3, <1>4, <1>5, <1>6, <1>7, <1>8, <1>9, <1>10

\* Every step keeps the data of the search and of the iteration typed.
LEMMA DataStep ==
  ASSUME Typed, Phases, Next
  PROVE  DataTyped'
<1> USE SearchAssumption DEF answer, iteration, shared, signals, MoveTo, At, Go, Typed, DataTyped
<1>1. ASSUME NEW w \in Workers, pc[w] = "loop" /\ Take(w) PROVE DataTyped'
  <2>1. cursor' \in 0 .. NMoves
    BY <1>1 DEF Take
  <2> QED BY <1>1, <2>1 DEF Take
<1>2. ASSUME NEW w \in Workers, Raise(w) PROVE DataTyped'
  <2>1. job[w].entry.score \in Int
    BY DEF JobsTyped, Job, Entry0
  <2>2. sharedAlpha' \in Int
    BY <1>2, <2>1 DEF Raise
  <2> QED BY <1>2, <2>2 DEF Raise
<1>3. ASSUME NEW w \in Workers, Publish(w) PROVE DataTyped'
  BY <1>3, FoundEntries, OrderOf DEF Publish, JobsTyped, Job, Workers, Moves, Scores, None,
     NoResults, Entry0, Infinity, NegInfinity
<1>4. ASSUME NEW h \in Helpers, Prepare(h) PROVE DataTyped'
  <2>1. prepared' \in [Helpers -> Nat]
    BY <1>4 DEF Prepare
  <2> QED BY <1>4, <2>1 DEF Prepare
<1>5. CASE Begin
  <2>1. iter' \in [epoch : Nat, alpha : Int, beta : Int, order : Orders]
    BY <1>5 DEF Begin
  <2>2. NoResults \in [Moves -> Entry0]
    BY DEF NoResults, None, Entry0
  <2>3. 0 \in 0 .. NMoves /\ window.alpha \in Int
    OBVIOUS
  <2> QED BY <1>5, <2>1, <2>2, <2>3 DEF Begin
<1>6. CASE Adopt
  BY <1>6, FoundEntries, OrderOf DEF Adopt, JobsTyped, Job, Workers, Moves, Scores, None,
     NoResults, Entry0, Infinity, NegInfinity
<1>7. CASE Fallback
  <2>1. PICK m \in Moves, e \in Entry0 : own' = [own EXCEPT ![m] = e]
    BY <1>7, FoundEntries DEF Fallback, Missing
  <2>2. own' \in [Moves -> Entry0]
    BY <2>1
  <2> QED BY <1>7, <2>2 DEF Fallback
<1>8. CASE Retry
  <2>1. window' \in [alpha : Int, beta : Int]
    BY <1>8 DEF Retry, NegInfinity, Infinity
  <2> QED BY <1>8, <2>1 DEF Retry
<1>9. CASE Accept
  <2>1. PICK m \in Moves : best' = [move |-> m, score |-> own[m].score]
    BY <1>9 DEF Accept
  <2>2. m \in 0 .. NMoves /\ own[m].score \in 0 .. MaxScore
    BY DEF Entry0, Moves
  <2>3. best' \in [move : 0 .. NMoves, score : 0 .. MaxScore]
    BY <2>1, <2>2
  <2>4. window' \in [alpha : Int, beta : Int] /\ value' \in [Moves -> Scores]
    BY <1>9, <2>1, <2>2 DEF Accept
  <2>5. ranking' \in Orders /\ depth' \in 0 .. MaxDepth
    BY <1>9 DEF Accept, Phases, Stages
  <2> QED BY <1>9, <2>3, <2>4, <2>5 DEF Accept
<1>10. ASSUME Abort \/ Cancel \/ (\E w \in Workers : TakeWindow(w))
              \/ (\E w \in Workers : Sample(w)) \/ (\E w \in Workers : Primed(w))
              \/ (\E h \in Helpers : Spawn(h)) \/ (\E h \in Helpers : Enter(h))
              \/ (\E h \in Helpers : Leave(h)) \/ (\E h \in Helpers : HelperSearch(h))
              \/ (\E h \in Helpers : HelperPrime(h)) \/ (\E h \in Helpers : StopSearch(h))
              \/ SpawnEnds \/ EvaluateRoot \/ ClaimsEnd \/ GiveUp \/ FallbackFails
              \/ ControllerSearch \/ ControllerPrime \/ CollectCheck \/ StopHelpers \/ Return
      PROVE DataTyped'
  BY <1>10 DEF Abort, Cancel, TakeWindow, Sample, Primed, Spawn, Enter, Leave, HelperSearch,
     HelperPrime, StopSearch, SpawnEnds, EvaluateRoot, ClaimsEnd, GiveUp, FallbackFails,
     ControllerSearch, ControllerPrime, CollectCheck, StopHelpers, Return
<1> QED BY Steps, <1>1, <1>2, <1>3, <1>4, <1>5, <1>6, <1>7, <1>8, <1>9, <1>10

\* Every step keeps the signals and outcomes typed.
LEMMA FlagsStep ==
  ASSUME Typed, Next
  PROVE  FlagsTyped'
<1> USE SearchAssumption DEF answer, iteration, shared, signals, MoveTo, At, Go, Typed, FlagsTyped
<1>1. CASE Abort
  BY <1>1 DEF Abort, JobsTyped, Job
<1>2. CASE Cancel
  BY <1>2 DEF Cancel, JobsTyped, Job
<1>3. ASSUME NEW w \in Workers, TakeWindow(w) PROVE FlagsTyped'
  BY <1>3 DEF TakeWindow, JobsTyped, Job
<1>4. ASSUME NEW h \in Helpers, Prepare(h) PROVE FlagsTyped'
  BY ZenonT(60), <1>4 DEF Prepare, JobsTyped, Job
<1>5. ASSUME NEW h \in Helpers, HelperSearch(h) PROVE FlagsTyped'
  BY ZenonT(60), <1>5 DEF HelperSearch, JobsTyped, Job
<1>6. ASSUME NEW h \in Helpers, HelperPrime(h) PROVE FlagsTyped'
  BY <1>6 DEF HelperPrime, JobsTyped, Job
<1>7. ASSUME NEW h \in Helpers, StopSearch(h) PROVE FlagsTyped'
  BY <1>7 DEF StopSearch, JobsTyped, Job
<1>8. CASE SpawnEnds
  BY <1>8 DEF SpawnEnds, JobsTyped, Job
<1>9. CASE EvaluateRoot
  BY <1>9 DEF EvaluateRoot, JobsTyped, Job
<1>10. CASE Begin
  BY <1>10 DEF Begin, JobsTyped, Job
<1>11. CASE ControllerSearch
  BY <1>11 DEF ControllerSearch, JobsTyped, Job
<1>12. CASE ControllerPrime
  BY <1>12 DEF ControllerPrime, JobsTyped, Job
<1>13. CASE Accept
  BY <1>13 DEF Accept, JobsTyped, Job
<1>14. CASE StopHelpers
  BY <1>14 DEF StopHelpers, JobsTyped, Job
<1>15. CASE Return
  BY <1>15 DEF Return, JobsTyped, Job
<1>16. ASSUME NEW w \in Workers, Take(w) \/ Sample(w) \/ Primed(w) \/ Raise(w) \/ Publish(w)
       PROVE  FlagsTyped'
  BY <1>16 DEF Take, Sample, Primed, Raise, Publish
<1>17. ASSUME NEW h \in Helpers, Spawn(h) \/ Enter(h) \/ Leave(h) PROVE FlagsTyped'
  BY <1>17 DEF Spawn, Enter, Leave
<1>18. ASSUME ClaimsEnd \/ GiveUp \/ CollectCheck PROVE FlagsTyped'
  BY <1>18 DEF ClaimsEnd, GiveUp, CollectCheck
<1>19. CASE Retry
  BY <1>19 DEF Retry
<1>20. ASSUME Adopt \/ Fallback PROVE FlagsTyped'
  BY ZenonT(60), <1>20 DEF Adopt, Fallback
<1>21. CASE FallbackFails
  BY <1>21 DEF FallbackFails, JobsTyped, Job
<1> QED BY Steps, <1>1, <1>2, <1>3, <1>4, <1>5, <1>6, <1>7, <1>8, <1>9, <1>10, <1>11, <1>12,
      <1>13, <1>14, <1>15, <1>16, <1>17, <1>18, <1>19, <1>20, <1>21

-----------------------------------------------------------------------------
(* What the steps of a thread do to its place and its claim.               *)

Others(w) == \A x \in Workers \ {w} : pc'[x] = pc[x] /\ job'[x] = job[x]
SameSlot(w) == job'[w].epoch = job[w].epoch /\ job'[w].move = job[w].move

\* A step of one thread leaves the places of the others alone.
LEMMA OthersKept ==
  ASSUME Typed, NEW w \in Workers, NEW p, pc' = [pc EXCEPT ![w] = p]
  PROVE  /\ pc'[w] = p
         /\ \A x \in Workers \ {w} : pc'[x] = pc[x]
BY DEF Typed, PlacesTyped

\* A step of one thread leaves the claims of the others alone.
LEMMA JobSet ==
  ASSUME Typed, NEW w \in Workers, NEW j, job' = [job EXCEPT ![w] = j]
  PROVE  /\ job'[w] = j
         /\ \A x \in Workers \ {w} : job'[x] = job[x]
BY DEF Typed, JobsTyped

\* claim(): the thread holds the next slot of the current iteration.
LEMMA TakeEffect ==
  ASSUME Typed, NEW w \in Workers, Take(w)
  PROVE  /\ pc'[w] = "claimed" /\ Others(w)
         /\ job'[w].epoch = iter.epoch /\ job'[w].move = iter.order[cursor + 1]
         /\ ~job'[w].first
<1>1. job'[w] = [NoJob EXCEPT !.epoch = iter.epoch, !.move = iter.order[cursor + 1]]
  BY JobSet DEF Take
<1>3. \A j : j = [NoJob EXCEPT !.epoch = iter.epoch, !.move = iter.order[cursor + 1]]
               => j.epoch = iter.epoch /\ j.move = iter.order[cursor + 1] /\ ~j.first
  BY DEF NoJob
<1>4. pc'[w] = "claimed" /\ Others(w)
  BY JobSet, OthersKept DEF Take, MoveTo, Others
<1> QED BY <1>1, <1>3, <1>4

\* claim_full_window(): the first one goes on, the others wait.
LEMMA TakeWindowEffect ==
  ASSUME Typed, NEW w \in Workers, TakeWindow(w)
  PROVE  /\ pc'[w] = (IF fullWindow THEN "wait" ELSE "sample") /\ Others(w) /\ SameSlot(w)
         /\ job'[w].first = ~fullWindow /\ job'[w].beta = job[w].beta
<1>1. job' = [job EXCEPT ![w] = [job[w] EXCEPT !.first = ~fullWindow]]
  BY DEF TakeWindow
<1>2. job[w] \in Job
  BY DEF Typed, JobsTyped
<1>3. job'[w] = [job[w] EXCEPT !.first = ~fullWindow]
  BY <1>1, JobSet
<1>4. /\ SameSlot(w) /\ job'[w].first = ~fullWindow /\ job'[w].beta = job[w].beta
  BY <1>2, <1>3, SetFirst DEF SameSlot
<1>5. pc'[w] = (IF fullWindow THEN "wait" ELSE "sample") /\ Others(w)
  BY <1>1, JobSet, OthersKept DEF TakeWindow, MoveTo, Others
<1> QED BY <1>4, <1>5

\* current_alpha(): the search starts from the shared alpha.
LEMMA SampleEffect ==
  ASSUME Typed, NEW w \in Workers, Sample(w)
  PROVE  /\ pc'[w] = "search" /\ Others(w) /\ SameSlot(w)
         /\ job'[w].alpha = sharedAlpha
         /\ job'[w].first = job[w].first /\ job'[w].beta = job[w].beta
<1>1. job' = [job EXCEPT ![w] = [job[w] EXCEPT !.alpha = sharedAlpha]]
  BY DEF Sample
<1>2. job[w] \in Job
  BY DEF Typed, JobsTyped
<1>3. job'[w] = [job[w] EXCEPT !.alpha = sharedAlpha]
  BY <1>1, JobSet
<1>4. /\ SameSlot(w) /\ job'[w].alpha = sharedAlpha
      /\ job'[w].first = job[w].first /\ job'[w].beta = job[w].beta
  BY <1>2, <1>3, SetAlpha DEF SameSlot
<1>5. pc'[w] = "search" /\ Others(w)
  BY <1>1, JobSet, OthersKept DEF Sample, MoveTo, Others
<1> QED BY <1>4, <1>5

\* window_of and prepare_worker_root: go on, drop the claim, fail or panic.
LEMMA PrepareEffect ==
  ASSUME Typed, NEW h \in Helpers, Prepare(h)
  PROVE  /\ pc[h] = "claimed" /\ Others(h)
         /\ \/ /\ pc'[h] = "window" /\ SameSlot(h)
               /\ job'[h].first = job[h].first /\ job'[h].beta = iter.beta
               /\ UNCHANGED failed
            \/ pc'[h] = "loop" /\ iter.epoch # job[h].epoch /\ UNCHANGED failed
            \/ pc'[h] = "unwound" /\ UNCHANGED failed
            \/ pc'[h] = "fail"
<1>1. h \in Workers /\ job[h] \in Job
  BY DEF Workers, Typed, JobsTyped
<1>2. CASE /\ iter.epoch = job[h].epoch
           /\ job' = [job EXCEPT ![h] = [job[h] EXCEPT !.beta = iter.beta]]
           /\ MoveTo(h, "window") /\ UNCHANGED failed
  <2>1. job'[h] = [job[h] EXCEPT !.beta = iter.beta]
    BY <1>1, <1>2, JobSet
  <2>2. SameSlot(h) /\ job'[h].first = job[h].first /\ job'[h].beta = iter.beta
    BY <1>1, <2>1, SetBeta DEF SameSlot
  <2>3. pc[h] = "claimed" /\ pc'[h] = "window" /\ Others(h)
    BY <1>1, <1>2, JobSet, OthersKept DEF Prepare, MoveTo, Others
  <2> QED BY <1>2, <2>2, <2>3
<1>3. CASE /\ iter.epoch # job[h].epoch /\ job' = [job EXCEPT ![h] = NoJob]
           /\ MoveTo(h, "loop") /\ UNCHANGED failed
  BY <1>1, <1>3, JobSet, OthersKept DEF Prepare, MoveTo, Others
<1>4. CASE /\ job' = [job EXCEPT ![h] = NoJob]
           /\ MoveTo(h, "fail") \/ (MoveTo(h, "unwound") /\ UNCHANGED failed)
  BY <1>1, <1>4, JobSet, OthersKept DEF Prepare, MoveTo, Others
<1> QED BY <1>2, <1>3, <1>4 DEF Prepare, MoveTo

\* The search of a helper finds an entry or says how it ended.
LEMMA HelperSearchEffect ==
  ASSUME Typed, NEW h \in Helpers, HelperSearch(h)
  PROVE  /\ pc[h] = "search" /\ pc'[h] = "prime" /\ Others(h) /\ SameSlot(h)
         /\ job'[h].first = job[h].first /\ job'[h].alpha = job[h].alpha
         /\ job'[h].beta = job[h].beta
         /\ \/ job'[h].end = "found" /\ job'[h].entry \in Entries(h) /\ UNCHANGED failed
            \/ job'[h].end = "ended" /\ MustEnd(h) /\ UNCHANGED failed
            \/ job'[h].end = "error"
            \/ job'[h].end = "panic" /\ UNCHANGED failed
<1>1. h \in Workers /\ job[h] \in Job
  BY DEF Workers, Typed, JobsTyped
<1>2. pc[h] = "search" /\ pc'[h] = "prime" /\ \A x \in Workers \ {h} : pc'[x] = pc[x]
  BY <1>1, OthersKept DEF HelperSearch, MoveTo
<1>3. CASE \E e \in Entries(h) : job' = [job EXCEPT ![h].entry = e, ![h].end = "found"]
                               /\ UNCHANGED failed
  <2>1. PICK e \in Entries(h) :
          job' = [job EXCEPT ![h] = [job[h] EXCEPT !.entry = e, !.end = "found"]]
    BY <1>1, <1>3 DEF Typed, JobsTyped
  <2>2. job'[h] = [job[h] EXCEPT !.entry = e, !.end = "found"]
    BY <1>1, <2>1, JobSet
  <2>3. /\ SameSlot(h) /\ job'[h].end = "found" /\ job'[h].entry = e
        /\ job'[h].first = job[h].first /\ job'[h].alpha = job[h].alpha
        /\ job'[h].beta = job[h].beta
    BY <1>1, <2>2 DEF SameSlot, Job
  <2>4. Others(h)
    BY <1>1, <1>2, <2>1, JobSet DEF Others
  <2> QED BY <1>2, <1>3, <2>3, <2>4
<1>4. ASSUME NEW x, job' = [job EXCEPT ![h].end = x]
      PROVE  /\ Others(h) /\ SameSlot(h) /\ job'[h].end = x
             /\ job'[h].first = job[h].first /\ job'[h].alpha = job[h].alpha
             /\ job'[h].beta = job[h].beta
  <2>1. job' = [job EXCEPT ![h] = [job[h] EXCEPT !.end = x]]
    BY <1>4
  <2>2. job'[h] = [job[h] EXCEPT !.end = x]
    BY <1>1, <2>1, JobSet
  <2>3. /\ SameSlot(h) /\ job'[h].end = x
        /\ job'[h].first = job[h].first /\ job'[h].alpha = job[h].alpha
        /\ job'[h].beta = job[h].beta
    BY <1>1, <2>2, SetEnd DEF SameSlot
  <2>4. Others(h)
    BY <1>1, <1>2, <2>1, JobSet DEF Others
  <2> QED BY <2>3, <2>4
<1> QED BY <1>2, <1>3, <1>4 DEF HelperSearch

\* After the search a helper raises alpha, goes on, fails or halts.
LEMMA HelperPrimeEffect ==
  ASSUME Typed, NEW h \in Helpers, HelperPrime(h)
  PROVE  /\ pc[h] = "prime" /\ Others(h)
         /\ \/ job[h].end = "found" /\ pc'[h] = "raise" /\ job'[h] = job[h]
            \/ job[h].end = "ended" /\ pc'[h] = "loop"
            \/ job[h].end = "error" /\ pc'[h] = "fail"
            \/ job[h].end = "panic" /\ pc'[h] = "halt"
<1>1. h \in Workers /\ job[h] \in Job /\ job[h].end # "none"
  BY DEF Workers, Typed, JobsTyped, PlacesTyped, HelperPrime
<1>2. job[h].end \in {"found", "ended", "error", "panic"}
  BY <1>1 DEF Job, Ends
<1>3. pc[h] = "prime" /\ pc'[h] = AfterSearch[job[h].end]
      /\ \A x \in Workers \ {h} : pc'[x] = pc[x]
  <2>1. pc[h] = "prime" /\ pc' = [pc EXCEPT ![h] = AfterSearch[job[h].end]]
    BY DEF HelperPrime, MoveTo
  <2>2. \A p : pc' = [pc EXCEPT ![h] = p]
               => pc'[h] = p /\ \A x \in Workers \ {h} : pc'[x] = pc[x]
    BY <1>1, OthersKept
  <2> QED BY <2>1, <2>2
<1>4. job' = [job EXCEPT ![h] = IF job[h].end = "found" THEN job[h] ELSE NoJob]
  BY DEF HelperPrime
<1>5. Others(h) /\ job'[h] = IF job[h].end = "found" THEN job[h] ELSE NoJob
  BY ZenonT(60), <1>1, <1>3, <1>4, JobSet DEF Others
<1> QED BY <1>2, <1>3, <1>5 DEF AfterSearch

\* The controller's search finds an entry or ends the search.
LEMMA ControllerSearchEffect ==
  ASSUME Typed, ControllerSearch
  PROVE  /\ pc[Controller] = "search" /\ Others(Controller) /\ SameSlot(Controller)
         /\ job'[Controller].first = job[Controller].first
         /\ job'[Controller].alpha = job[Controller].alpha
         /\ \/ /\ pc'[Controller] = "raise" /\ UNCHANGED failed
               /\ job'[Controller].entry \in
                    Found(value[job[Controller].move], job[Controller].alpha, iter.beta,
                          job[Controller].first)
            \/ pc'[Controller] = "stopping" /\ term' = "error"
            \/ pc'[Controller] = "stopping" /\ term' \in {"limit", "panic"} /\ UNCHANGED failed
<1>1. Controller \in Workers /\ job[Controller] \in Job
  BY DEF Workers, Typed, JobsTyped
<1>2. CASE /\ \E e \in Found(value[job[Controller].move], job[Controller].alpha, iter.beta,
                              job[Controller].first) :
                job' = [job EXCEPT ![Controller].entry = e]
           /\ Go("raise") /\ UNCHANGED failed
  <2>1. PICK e \in Found(value[job[Controller].move], job[Controller].alpha, iter.beta,
                         job[Controller].first) :
          job' = [job EXCEPT ![Controller] = [job[Controller] EXCEPT !.entry = e]]
    BY <1>2
  <2>2. job'[Controller] = [job[Controller] EXCEPT !.entry = e]
    BY <1>1, <2>1, JobSet
  <2>3. /\ SameSlot(Controller) /\ job'[Controller].entry = e
        /\ job'[Controller].first = job[Controller].first
        /\ job'[Controller].alpha = job[Controller].alpha
    BY <1>1, <2>2, SetEntry DEF SameSlot
  <2>4. pc'[Controller] = "raise" /\ Others(Controller)
    BY <1>1, <1>2, <2>1, JobSet, OthersKept DEF Go, MoveTo, Others
  <2>5. pc[Controller] = "search"
    BY DEF ControllerSearch, At
  <2> QED BY <1>2, <2>3, <2>4, <2>5
<1>3. CASE /\ Go("stopping") /\ UNCHANGED job
           /\ term' = "error" \/ (term' \in {"limit", "panic"} /\ UNCHANGED failed)
  BY <1>1, <1>3, OthersKept DEF ControllerSearch, At, Go, MoveTo, Others, SameSlot
<1> QED BY <1>2, <1>3 DEF ControllerSearch, Go

-----------------------------------------------------------------------------
(* The slots of the iteration.                                             *)

\* Only Take gives a thread a claim, and a claim stays of the same slot.
Kept(x) ==
  pc'[x] \in Holding => pc[x] \in Holding /\ SameSlot(x)

\* No step but a claim makes a thread hold a slot it did not hold.
LEMMA HoldersKept ==
  ASSUME Typed, Next, ~ \E w \in Workers : pc[w] = "loop" /\ Take(w)
  PROVE  \A x \in Workers : Kept(x)
<1> USE SearchAssumption DEF answer, iteration, shared, signals, MoveTo, At, Go, Kept, Holding,
      SameSlot, Others, Workers
<1>1. ASSUME NEW w \in Workers,
             pc[w] = (IF w = Controller THEN "claimed" ELSE "window") /\ TakeWindow(w)
      PROVE \A x \in Workers : Kept(x)
  BY <1>1, TakeWindowEffect
<1>2. ASSUME NEW w \in Workers, pc[w] = "sample" /\ Sample(w) PROVE \A x \in Workers : Kept(x)
  BY <1>2, SampleEffect
<1>3. ASSUME NEW w \in Workers, Primed(w) PROVE \A x \in Workers : Kept(x)
  BY <1>3 DEF Primed, Typed, PlacesTyped, JobsTyped
<1>4. ASSUME NEW w \in Workers, Raise(w) PROVE \A x \in Workers : Kept(x)
  BY <1>4 DEF Raise, Typed, PlacesTyped, JobsTyped
<1>5. ASSUME NEW w \in Workers, Publish(w) PROVE \A x \in Workers : Kept(x)
  BY <1>5 DEF Publish, Typed, PlacesTyped, JobsTyped
<1>6. ASSUME NEW h \in Helpers, Spawn(h) PROVE \A x \in Workers : Kept(x)
  BY <1>6 DEF Spawn, Typed, PlacesTyped, JobsTyped
<1>7. ASSUME NEW h \in Helpers, Enter(h) PROVE \A x \in Workers : Kept(x)
  BY <1>7 DEF Enter, Typed, PlacesTyped, JobsTyped
<1>8. ASSUME NEW h \in Helpers, Leave(h) PROVE \A x \in Workers : Kept(x)
  BY <1>8 DEF Leave, Typed, PlacesTyped, JobsTyped
<1>9. ASSUME NEW h \in Helpers, Prepare(h) PROVE \A x \in Workers : Kept(x)
  BY <1>9, PrepareEffect
<1>10. ASSUME NEW h \in Helpers, HelperSearch(h) PROVE \A x \in Workers : Kept(x)
  BY <1>10, HelperSearchEffect
<1>11. ASSUME NEW h \in Helpers, HelperPrime(h) PROVE \A x \in Workers : Kept(x)
  BY <1>11, HelperPrimeEffect
<1>12. ASSUME NEW h \in Helpers, StopSearch(h) PROVE \A x \in Workers : Kept(x)
  BY <1>12 DEF StopSearch, Typed, PlacesTyped, JobsTyped
<1>13. CASE SpawnEnds
  BY <1>13 DEF SpawnEnds, Typed, PlacesTyped, JobsTyped
<1>14. CASE EvaluateRoot
  BY <1>14 DEF EvaluateRoot, Typed, PlacesTyped, JobsTyped
<1>15. CASE Begin
  BY <1>15 DEF Begin, Typed, PlacesTyped, JobsTyped
<1>16. CASE ClaimsEnd
  BY <1>16 DEF ClaimsEnd, Typed, PlacesTyped, JobsTyped
<1>17. CASE GiveUp \/ FallbackFails
  BY <1>17 DEF GiveUp, FallbackFails, Typed, PlacesTyped, JobsTyped
<1>18. CASE ControllerSearch
  BY <1>18, ControllerSearchEffect
<1>19. CASE ControllerPrime
  BY <1>19 DEF ControllerPrime, Typed, PlacesTyped, JobsTyped
<1>20. CASE CollectCheck
  BY <1>20 DEF CollectCheck, Typed, PlacesTyped, JobsTyped
<1>21. CASE Adopt
  BY <1>21 DEF Adopt, Typed, PlacesTyped, JobsTyped
<1>22. CASE Fallback
  BY <1>22 DEF Fallback, Typed, PlacesTyped, JobsTyped
<1>23. CASE Retry
  BY <1>23 DEF Retry, Typed, PlacesTyped, JobsTyped
<1>24. CASE Accept
  BY <1>24 DEF Accept, Typed, PlacesTyped, JobsTyped
<1>25. CASE StopHelpers
  BY <1>25 DEF StopHelpers, Typed, PlacesTyped, JobsTyped
<1>26. CASE Return
  BY <1>26 DEF Return, Typed, PlacesTyped, JobsTyped
<1>27. CASE Abort \/ Cancel
  BY <1>27 DEF Abort, Cancel
<1> QED BY Steps, <1>1, <1>2, <1>3, <1>4, <1>5, <1>6, <1>7, <1>8, <1>9, <1>10, <1>11, <1>12,
      <1>13, <1>14, <1>15, <1>16, <1>17, <1>18, <1>19, <1>20, <1>21, <1>22, <1>23, <1>24, <1>25,
      <1>26, <1>27

\* A step that leaves the iteration and its results alone keeps the claims.
LEMMA ClaimsKept ==
  ASSUME Claims, \A x \in Workers : Kept(x), UNCHANGED <<iter, results, own, cursor>>,
         Closed => Closed'
  PROVE  Claims'
BY DEF Claims, ClaimOf, SlotsInOrder, Claimed, Kept, SameSlot

\* The next move to claim is not among the claimed ones.
LEMMA NextIsNew ==
  ASSUME Typed, cursor < NMoves
  PROVE  /\ iter.order[cursor + 1] \in Moves
         /\ iter.order[cursor + 1] \notin Claimed
         /\ Claimed \subseteq Moves
<1>1. iter.order \in Orders /\ cursor \in Nat /\ cursor + 1 \in Moves
  BY SearchAssumption DEF Typed, DataTyped, Moves
<1>2. \A i \in 1 .. cursor : i \in Moves /\ i # cursor + 1
  BY <1>1, SearchAssumption DEF Moves
<1> QED BY <1>1, <1>2, OrderOf DEF Claimed

\* A claim is of a root move.
LEMMA SlotOf ==
  ASSUME Typed, NEW w \in Workers, ClaimOf(w), pc[w] \in Holding
  PROVE  job[w].move \in Moves
<1>1. iter.order \in Orders /\ \A i \in 1 .. cursor : i \in Moves
  BY SearchAssumption DEF Typed, DataTyped, Moves
<1> QED BY <1>1, OrderOf DEF ClaimOf, Claimed

\* Every step keeps the claims current and exclusive.
LEMMA ClaimsStep ==
  ASSUME Typed, Phases, Claims, Next
  PROVE  Claims'
<1>1. ASSUME NEW w \in Workers, pc[w] = "loop", Take(w)
      PROVE  Claims'
  <2> DEFINE new == iter.order[cursor + 1]
  <2>1. /\ cursor < NMoves /\ 0 < iter.epoch /\ cursor' = cursor + 1 /\ ~ShouldAbort
        /\ UNCHANGED <<iter, results, own>>
    BY <1>1 DEF Take, answer, iteration
  <2>2. new \in Moves /\ new \notin Claimed
    BY <2>1, NextIsNew
  <2>3. Claimed' = Claimed \cup {new}
    BY <2>1 DEF Claimed, Typed, DataTyped
  <2>4. ~Closed
    BY <2>1, SearchAssumption DEF Closed, Typed, DataTyped
  <2>5. results[new] = None /\ own[new] = None
    BY <2>2, <2>4 DEF Claims, SlotsInOrder
  <2>6. \A x \in Workers \ {w} : ClaimOf(x)'
    BY <1>1, <2>1, <2>3, TakeEffect DEF Claims, ClaimOf, Others
  <2>7. ClaimOf(w)'
    BY <1>1, <2>1, <2>3, <2>5, TakeEffect DEF ClaimOf
  <2>8. \A x, y \in Workers : pc'[x] \in Holding /\ pc'[y] \in Holding /\ x # y
          => job'[x].move # job'[y].move
    BY <1>1, <2>2, TakeEffect DEF Claims, ClaimOf, SlotsInOrder, Others
  <2> QED BY <2>1, <2>3, <2>4, <2>6, <2>7, <2>8 DEF Claims, SlotsInOrder
<1> SUFFICES ASSUME ~ \E w \in Workers : pc[w] = "loop" /\ Take(w)
             PROVE  Claims'
  BY <1>1
<1>2. \A x \in Workers : Kept(x)
  BY HoldersKept
<1>3. ASSUME NEW w \in Workers, Publish(w)
      PROVE  Claims'
  <2> DEFINE m == job[w].move
  <2>1. pc[w] = "publish" /\ pc'[w] = "loop" /\ UNCHANGED <<iter, cursor, stop, aborted>>
    BY <1>3 DEF Publish, MoveTo, shared, signals, Typed, PlacesTyped
  <2>2. m \in Moves /\ m \in Claimed
    BY <2>1, SlotOf DEF Claims, ClaimOf, Holding
  <2>3. \A n \in Moves \ {m} : results'[n] = results[n] /\ own'[n] = own[n]
    BY <1>3, <2>2 DEF Publish, Typed, DataTyped
  <2>4. ASSUME NEW x \in Workers, pc'[x] \in Holding
        PROVE  /\ pc[x] \in Holding /\ SameSlot(x)
               /\ job[x].move \in Moves \ {m}
    <3>1. pc[x] \in Holding /\ SameSlot(x) /\ x # w
      BY <1>2, <2>1, <2>4 DEF Kept, Holding
    <3>2. job[x].move # job[w].move /\ job[x].move \in Moves
      BY <2>1, <3>1, SlotOf DEF Claims, SlotsInOrder, Holding
    <3> QED BY <3>1, <3>2
  <2>5. Claimed' = Claimed /\ Closed' = Closed
    BY <2>1 DEF Claimed, Closed, ShouldAbort
  <2>6. \A x \in Workers : ClaimOf(x)'
    BY <2>1, <2>3, <2>4, <2>5 DEF Claims, ClaimOf, SameSlot
  <2>7. SlotsInOrder'
    BY <2>2, <2>3, <2>4, <2>5 DEF Claims, SlotsInOrder, SameSlot
  <2> QED BY <2>6, <2>7 DEF Claims
<1>4. CASE Begin
  <2>1. \A x \in Workers : pc'[x] \notin Holding
    BY <1>2, <1>4 DEF Begin, At, Phases, Collection, Kept
  <2>2. results' = NoResults /\ own' = NoResults
    BY <1>4 DEF Begin
  <2> QED BY <2>1, <2>2 DEF Claims, ClaimOf, SlotsInOrder, NoResults
<1>5. CASE Adopt
  <2>1. UNCHANGED <<iter, results, cursor, stop, aborted>>
    BY <1>5 DEF Adopt, iteration, shared, signals
  <2>2. \A m \in Moves : own'[m] = IF own[m] = None THEN results[m] ELSE own[m]
    BY <1>5 DEF Adopt
  <2>3. Claimed' = Claimed /\ Closed' = Closed
    BY <2>1 DEF Claimed, Closed, ShouldAbort
  <2>4. ASSUME NEW x \in Workers PROVE ClaimOf(x)'
    <3>1. CASE pc'[x] \in Holding
      <4>1. job[x].move \in Moves /\ pc[x] \in Holding /\ SameSlot(x)
        BY <1>2, <3>1, SlotOf DEF Claims, Kept
      <4> QED BY <2>1, <2>2, <2>3, <4>1 DEF Claims, ClaimOf, SameSlot
    <3> QED BY <3>1 DEF ClaimOf
  <2>5. SlotsInOrder'
    BY <1>2, <2>1, <2>2, <2>3 DEF Claims, SlotsInOrder, Kept, SameSlot
  <2> QED BY <2>4, <2>5 DEF Claims
<1>6. CASE Fallback
  <2>1. \A x \in Workers : pc'[x] \notin Holding
    BY <1>2, <1>6 DEF Fallback, At, Phases, Collection, Kept
  <2>2. Closed /\ Closed' /\ UNCHANGED <<iter, results, cursor>>
    BY <1>6 DEF Fallback, At, Phases, Stages, Closed, ShouldAbort, iteration, shared, signals
  <2> QED BY <2>1, <2>2 DEF Claims, ClaimOf, SlotsInOrder, Claimed
<1>7. ASSUME Abort \/ Cancel \/ StopHelpers \/ \E h \in Helpers : StopSearch(h)
      PROVE  Claims'
  <2>1. UNCHANGED <<iter, results, own, cursor>> /\ (Closed => Closed')
    BY <1>7 DEF Abort, Cancel, StopHelpers, StopSearch, answer, iteration, shared, Closed,
       ShouldAbort
  <2> QED BY <1>2, <2>1, ClaimsKept
<1>8. ASSUME UNCHANGED <<iter, results, own, cursor, stop, aborted>>
      PROVE  Claims'
  BY <1>2, <1>8, ClaimsKept DEF Closed, ShouldAbort
<1>9. ASSUME NEW w \in Workers, TakeWindow(w) \/ Sample(w) \/ Primed(w) \/ Raise(w)
      PROVE  UNCHANGED <<iter, results, own, cursor, stop, aborted>>
  BY <1>9 DEF TakeWindow, Sample, Primed, Raise, answer, iteration, shared, signals
<1>10. ASSUME NEW h \in Helpers, Spawn(h) \/ Enter(h) \/ Leave(h) \/ Prepare(h)
       PROVE  UNCHANGED <<iter, results, own, cursor, stop, aborted>>
  BY <1>10 DEF Spawn, Enter, Leave, Prepare, answer, iteration, shared, signals
<1>11. ASSUME NEW h \in Helpers, HelperSearch(h) \/ HelperPrime(h)
       PROVE  UNCHANGED <<iter, results, own, cursor, stop, aborted>>
  BY <1>11 DEF HelperSearch, HelperPrime, answer, iteration, shared, signals
<1>12. ASSUME SpawnEnds \/ EvaluateRoot \/ ClaimsEnd \/ GiveUp \/ FallbackFails \/ ControllerSearch
              \/ ControllerPrime
       PROVE  UNCHANGED <<iter, results, own, cursor, stop, aborted>>
  BY <1>12 DEF SpawnEnds, EvaluateRoot, ClaimsEnd, GiveUp, FallbackFails, ControllerSearch,
               ControllerPrime, answer, iteration, shared, signals
<1>13. ASSUME CollectCheck \/ Retry \/ Accept \/ Return
       PROVE  UNCHANGED <<iter, results, own, cursor, stop, aborted>>
  BY <1>13 DEF CollectCheck, Retry, Accept, Return, answer, iteration, shared, signals
<1> QED BY Steps, <1>3, <1>4, <1>5, <1>6, <1>7, <1>8, <1>9, <1>10, <1>11, <1>12, <1>13

\* Every step keeps the whole window in one claim, which the others wait for.
LEMMA WindowingStep ==
  ASSUME Typed, Phases, Windowing, Next
  PROVE  Windowing'
<1> USE SearchAssumption DEF answer, iteration, shared, signals, MoveTo, At, Go, Windowing,
      WindowOf, OneWindow, Pending, Holding, Windowed, Others, SameSlot, Workers
<1>1. ASSUME NEW w \in Workers, pc[w] = "loop" /\ Take(w) PROVE Windowing'
  <2>1. UNCHANGED <<primed, fullWindow>>
    BY <1>1 DEF Take
  <2>2. pc'[w] = "claimed" /\ ~job'[w].first /\ ~Pending(w) /\ ~Pending(w)'
    BY <1>1, TakeEffect
  <2>3. \A x \in Workers \ {w} : pc'[x] = pc[x] /\ job'[x] = job[x] /\ Pending(x)' = Pending(x)
    BY <1>1, TakeEffect
  <2>4. pc[Controller] \in {"stopping", "join", "done"} => pc'[Controller] = pc[Controller]
    BY <1>1, <2>3
  <2>5. \A x \in Workers : WindowOf(x)'
    BY <2>1, <2>2, <2>3
  <2> HIDE DEF Pending
  <2>6. OneWindow'
    BY <2>1, <2>2, <2>3, <2>4
  <2> QED BY <2>5, <2>6
<1>2. ASSUME NEW w \in Workers,
             pc[w] = (IF w = Controller THEN "claimed" ELSE "window") /\ TakeWindow(w)
      PROVE Windowing'
  <2>1. primed' = primed /\ fullWindow' = TRUE
    BY <1>2 DEF TakeWindow
  <2>2. \A x \in Workers \ {w} : pc'[x] = pc[x] /\ job'[x] = job[x] /\ Pending(x)' = Pending(x)
    BY <1>2, TakeWindowEffect
  <2>3. pc[w] \in Holding \ Windowed /\ ~Pending(w) /\ ~job[w].first
    BY <1>2
  <2>4. CASE fullWindow
    <3>1. pc'[w] = "wait" /\ ~job'[w].first /\ ~Pending(w)'
      BY <1>2, <2>4, TakeWindowEffect
    <3>2. pc[Controller] \in {"stopping", "join", "done"} => pc'[Controller] = pc[Controller]
      BY <1>2, <2>2
    <3>3. \A x \in Workers : WindowOf(x)'
      BY <2>1, <2>2, <3>1
    <3> HIDE DEF Pending
    <3>4. OneWindow'
      BY <2>1, <2>2, <2>3, <2>4, <3>1, <3>2
    <3> QED BY <3>3, <3>4
  <2>5. CASE ~fullWindow
    <3>1. pc'[w] = "sample" /\ job'[w].first /\ Pending(w)'
      BY <1>2, <2>5, TakeWindowEffect
    <3>2. ~primed /\ \A x \in Workers : pc[x] \in Holding => ~job[x].first
      BY <2>5
    <3>3. \A x \in Workers : WindowOf(x)'
      BY <2>1, <2>2, <3>1
    <3> HIDE DEF Pending
    <3>4. OneWindow'
      BY <2>1, <2>2, <3>1, <3>2
    <3> QED BY <3>3, <3>4
  <2> QED BY <2>4, <2>5
<1>3. ASSUME NEW w \in Workers, pc[w] = "sample" /\ Sample(w) PROVE Windowing'
  BY <1>3, SampleEffect DEF Sample
<1>4. ASSUME NEW w \in Workers, Primed(w) PROVE Windowing'
  BY <1>4 DEF Primed, Typed, PlacesTyped, JobsTyped
<1>5. ASSUME NEW w \in Workers, Raise(w) PROVE Windowing'
  BY <1>5 DEF Raise, Typed, PlacesTyped, JobsTyped
<1>6. ASSUME NEW w \in Workers, Publish(w) PROVE Windowing'
  BY <1>6 DEF Publish, Typed, PlacesTyped, JobsTyped
<1>7. ASSUME NEW h \in Helpers, Spawn(h) PROVE Windowing'
  BY <1>7 DEF Spawn, Typed, PlacesTyped, JobsTyped
<1>8. ASSUME NEW h \in Helpers, Enter(h) PROVE Windowing'
  BY <1>8 DEF Enter, Typed, PlacesTyped, JobsTyped
<1>9. ASSUME NEW h \in Helpers, Leave(h) PROVE Windowing'
  BY <1>9 DEF Leave, Typed, PlacesTyped, JobsTyped
<1>10. ASSUME NEW h \in Helpers, Prepare(h) PROVE Windowing'
  <2>1. UNCHANGED <<primed, fullWindow>>
    BY <1>10 DEF Prepare
  <2>2. \A x \in Workers \ {h} : pc'[x] = pc[x] /\ job'[x] = job[x] /\ Pending(x)' = Pending(x)
    BY <1>10, PrepareEffect
  <2>3. /\ pc'[h] \in {"window", "loop", "unwound", "fail"} /\ (pc'[h] = "window" => ~job'[h].first)
        /\ pc[h] = "claimed"
    BY <1>10, PrepareEffect
  <2>4. h # Controller /\ ~Pending(h) /\ ~Pending(h)'
    BY <2>3
  <2>5. \A x \in Workers : WindowOf(x)'
    BY <2>1, <2>2, <2>3
  <2> HIDE DEF Pending
  <2>6. OneWindow'
    BY <2>1, <2>2, <2>3, <2>4
  <2> QED BY <2>5, <2>6
<1>11. ASSUME NEW h \in Helpers, HelperSearch(h) PROVE Windowing'
  <2>1. UNCHANGED <<primed, fullWindow>>
    BY <1>11 DEF HelperSearch
  <2>2. \A x \in Workers \ {h} : pc'[x] = pc[x] /\ job'[x] = job[x] /\ Pending(x)' = Pending(x)
    BY <1>11, HelperSearchEffect
  <2>3. pc[h] = "search" /\ pc'[h] = "prime" /\ job'[h].first = job[h].first
    BY <1>11, HelperSearchEffect
  <2>4. h # Controller /\ Pending(h)' = Pending(h)
    BY <2>3
  <2>5. \A x \in Workers : WindowOf(x)'
    BY <2>1, <2>2, <2>3
  <2> HIDE DEF Pending
  <2>6. OneWindow'
    BY <2>1, <2>2, <2>3, <2>4
  <2> QED BY <2>5, <2>6
<1>12. ASSUME NEW h \in Helpers, HelperPrime(h) PROVE Windowing'
  <2>1. primed' = (primed \/ job[h].first) /\ fullWindow' = fullWindow
    BY <1>12 DEF HelperPrime
  <2>2. \A x \in Workers \ {h} : pc'[x] = pc[x] /\ job'[x] = job[x] /\ Pending(x)' = Pending(x)
    BY <1>12, HelperPrimeEffect
  <2>3. /\ pc[h] = "prime" /\ pc'[h] \in {"raise", "loop", "fail", "halt"}
        /\ pc'[h] = "raise" => job'[h] = job[h]
    BY <1>12, HelperPrimeEffect
  <2>4. h # Controller /\ ~Pending(h)' /\ (Pending(h) <=> job[h].first)
    BY <2>3
  <2>5. job[h].first => \A x \in Workers \ {h} : ~Pending(x)
    BY <2>3
  <2>6. \A x \in Workers : WindowOf(x)'
    BY <2>1, <2>2, <2>3
  <2> HIDE DEF Pending
  <2>7. OneWindow'
    BY <2>1, <2>2, <2>3, <2>4, <2>5
  <2> QED BY <2>6, <2>7
<1>13. ASSUME NEW h \in Helpers, StopSearch(h) PROVE Windowing'
  BY <1>13 DEF StopSearch, Typed, PlacesTyped, JobsTyped
<1>14. CASE SpawnEnds
  BY <1>14 DEF SpawnEnds, Typed, PlacesTyped, JobsTyped
<1>15. CASE EvaluateRoot
  BY <1>15 DEF EvaluateRoot, Typed, PlacesTyped, JobsTyped
<1>16. CASE Begin
  <2>1. \A x \in Workers : pc'[x] \notin Holding
    BY <1>16, HoldersKept DEF Begin, Take, Phases, Collection, Kept
  <2>2. ~primed' /\ ~fullWindow'
    BY <1>16 DEF Begin
  <2> QED BY <2>1, <2>2
<1>17. CASE ClaimsEnd
  BY <1>17 DEF ClaimsEnd, Typed, PlacesTyped, JobsTyped
<1>18. CASE GiveUp \/ FallbackFails
  BY <1>18 DEF GiveUp, FallbackFails, Typed, PlacesTyped, JobsTyped
<1>19. CASE ControllerSearch
  BY ZenonT(60), <1>19, ControllerSearchEffect DEF ControllerSearch
<1>20. CASE ControllerPrime
  BY <1>20 DEF ControllerPrime, Typed, PlacesTyped, JobsTyped
<1>21. CASE CollectCheck
  BY <1>21 DEF CollectCheck, Typed, PlacesTyped, JobsTyped
<1>22. CASE Adopt
  BY <1>22 DEF Adopt, Typed, PlacesTyped, JobsTyped
<1>23. CASE Fallback
  BY <1>23 DEF Fallback, Typed, PlacesTyped, JobsTyped
<1>24. CASE Retry
  BY <1>24 DEF Retry, Typed, PlacesTyped, JobsTyped
<1>25. CASE Accept
  BY <1>25 DEF Accept, Typed, PlacesTyped, JobsTyped
<1>26. CASE StopHelpers
  BY <1>26 DEF StopHelpers, Typed, PlacesTyped, JobsTyped
<1>27. CASE Return
  BY <1>27 DEF Return, Typed, PlacesTyped, JobsTyped
<1>28. ASSUME Abort \/ Cancel
      PROVE Windowing'
  BY <1>28 DEF Abort, Cancel
<1> QED BY Steps, <1>1, <1>2, <1>3, <1>4, <1>5, <1>6, <1>7, <1>8, <1>9, <1>10, <1>11, <1>12,
      <1>13, <1>14, <1>15, <1>16, <1>17, <1>18, <1>19, <1>20, <1>21, <1>22, <1>23, <1>24, <1>25,
      <1>26, <1>27, <1>28

\* Every step keeps the stages of the controller.
LEMMA StagesStep ==
  ASSUME Typed, Claims, Phases, Next
  PROVE  Stages'
<1> USE SearchAssumption DEF answer, iteration, shared, signals, MoveTo, At, Go, Claims, ClaimOf,
      Phases, Stages, Closed, ShouldAbort, Holding, Others, SameSlot, Workers
<1>1. CASE Abort
  BY <1>1 DEF Abort, Typed, PlacesTyped, JobsTyped
<1>2. CASE Cancel
  BY <1>2 DEF Cancel, Typed, PlacesTyped, JobsTyped
<1>3. ASSUME NEW w \in Workers, pc[w] = "loop" /\ Take(w) PROVE Stages'
  <2>1. /\ iter.epoch > 0 /\ cursor < NMoves /\ ~ShouldAbort /\ pc[w] = "loop"
        /\ UNCHANGED <<iter, depth>>
    BY <1>3 DEF Take
  <2>2. /\ pc[Controller] \in {"stopping", "join", "done"} => pc'[Controller] = pc[Controller]
        /\ pc'[Controller] = pc[Controller]
           \/ (pc[Controller] = "loop" /\ pc'[Controller] = "claimed")
    BY <1>3, <2>1, TakeEffect
  <2> QED BY <2>1, <2>2 DEF Typed, DataTyped
<1>4. ASSUME NEW w \in Workers,
             pc[w] = (IF w = Controller THEN "claimed" ELSE "window") /\ TakeWindow(w)
      PROVE Stages'
  BY <1>4, TakeWindowEffect DEF TakeWindow
<1>5. ASSUME NEW w \in Workers, pc[w] = "sample" /\ Sample(w) PROVE Stages'
  BY <1>5, SampleEffect DEF Sample
<1>6. ASSUME NEW w \in Workers, Primed(w) PROVE Stages'
  BY <1>6 DEF Primed, Typed, PlacesTyped, JobsTyped
<1>7. ASSUME NEW w \in Workers, Raise(w) PROVE Stages'
  BY <1>7 DEF Raise, Typed, PlacesTyped, JobsTyped
<1>8. ASSUME NEW w \in Workers, Publish(w) PROVE Stages'
  BY <1>8 DEF Publish, Typed, PlacesTyped, JobsTyped
<1>9. ASSUME NEW h \in Helpers, Spawn(h) PROVE Stages'
  BY <1>9 DEF Spawn, Typed, PlacesTyped, JobsTyped
<1>10. ASSUME NEW h \in Helpers, Enter(h) PROVE Stages'
  BY <1>10 DEF Enter, Typed, PlacesTyped, JobsTyped
<1>11. ASSUME NEW h \in Helpers, Leave(h) PROVE Stages'
  BY <1>11 DEF Leave, Typed, PlacesTyped, JobsTyped
<1>12. ASSUME NEW h \in Helpers, Prepare(h) PROVE Stages'
  BY <1>12, PrepareEffect DEF Prepare
<1>13. ASSUME NEW h \in Helpers, HelperSearch(h) PROVE Stages'
  BY <1>13, HelperSearchEffect DEF HelperSearch
<1>14. ASSUME NEW h \in Helpers, HelperPrime(h) PROVE Stages'
  BY <1>14, HelperPrimeEffect DEF HelperPrime
<1>15. ASSUME NEW h \in Helpers, StopSearch(h) PROVE Stages'
  BY <1>15 DEF StopSearch, Typed, PlacesTyped, JobsTyped
<1>16. CASE SpawnEnds
  BY <1>16 DEF SpawnEnds, Typed, PlacesTyped, JobsTyped
<1>17. CASE EvaluateRoot
  BY <1>17 DEF EvaluateRoot, Typed, PlacesTyped, JobsTyped
<1>18. CASE Begin
  <2>1. iter'.epoch = iter.epoch + 1 /\ pc'[Controller] = "loop" /\ UNCHANGED depth
    BY <1>18, OthersKept DEF Begin
  <2> QED BY <1>18, <2>1 DEF Begin, Typed, DataTyped
<1>19. CASE ClaimsEnd
  BY <1>19 DEF ClaimsEnd, Typed, PlacesTyped, JobsTyped
<1>20. CASE GiveUp \/ FallbackFails
  BY <1>20 DEF GiveUp, FallbackFails, Typed, PlacesTyped, JobsTyped
<1>21. CASE ControllerSearch
  BY <1>21, ControllerSearchEffect DEF ControllerSearch
<1>22. CASE ControllerPrime
  BY <1>22 DEF ControllerPrime, Typed, PlacesTyped, JobsTyped
<1>23. CASE CollectCheck
  BY <1>23 DEF CollectCheck, Typed, PlacesTyped, JobsTyped
<1>24. CASE Adopt
  BY <1>24 DEF Adopt, Typed, PlacesTyped, JobsTyped
<1>25. CASE Fallback
  BY <1>25 DEF Fallback, Typed, PlacesTyped, JobsTyped
<1>26. CASE Retry
  BY <1>26 DEF Retry, Typed, PlacesTyped, JobsTyped
<1>27. CASE Accept
  <2>1. /\ UNCHANGED <<iter, cursor, stop, aborted>> /\ pc[Controller] = "merge"
        /\ pc'[Controller] \in {"begin", "stopping"}
        /\ pc'[Controller] = "begin" => depth' < MaxDepth
    BY <1>27, OthersKept DEF Accept, DepthLeft
  <2> QED BY <2>1
<1>28. CASE StopHelpers
  BY <1>28 DEF StopHelpers, Typed, PlacesTyped, JobsTyped
<1>29. CASE Return
  BY <1>29 DEF Return, Typed, PlacesTyped, JobsTyped
<1> QED BY Steps, <1>1, <1>2, <1>3, <1>4, <1>5, <1>6, <1>7, <1>8, <1>9, <1>10, <1>11, <1>12,
      <1>13, <1>14, <1>15, <1>16, <1>17, <1>18, <1>19, <1>20, <1>21, <1>22, <1>23, <1>24, <1>25,
      <1>26, <1>27, <1>28, <1>29

\* When the controller merges, it holds every result, and no claim is left.
LEMMA MergeIsIdle ==
  ASSUME Typed, Claims, Phases, pc[Controller] = "merge"
  PROVE  \A w \in Workers : pc[w] \notin Holding
BY SlotOf DEF Claims, ClaimOf, Phases, Collection

\* Every step keeps what the controller has collected true to what was published.
LEMMA CollectionStep ==
  ASSUME Typed, Claims, Phases, Next
  PROVE  Collection'
<1> USE SearchAssumption DEF answer, iteration, shared, signals, MoveTo, At, Go, Claims, ClaimOf,
      Phases, Collection, Closed, ShouldAbort, Holding, Others, SameSlot, Workers
<1>1. CASE Abort
  BY <1>1 DEF Abort, Typed, PlacesTyped, JobsTyped
<1>2. CASE Cancel
  BY <1>2 DEF Cancel, Typed, PlacesTyped, JobsTyped
<1>3. ASSUME NEW w \in Workers, pc[w] = "loop" /\ Take(w) PROVE Collection'
  <2>1. /\ iter.epoch > 0 /\ cursor < NMoves /\ ~ShouldAbort /\ pc[w] = "loop"
        /\ UNCHANGED <<results, own, stop, aborted, cancelled>>
    BY <1>3 DEF Take
  <2>2. pc'[Controller] = pc[Controller] \/ pc'[Controller] = "claimed"
    BY <1>3, TakeEffect
  <2>3. pc'[Controller] \notin {"begin", "fallback", "merge"}
    BY <2>1, <2>2 DEF Stages, Typed, DataTyped
  <2>4. pc'[w] = "claimed" /\ \A x \in Workers \ {w} : pc'[x] = pc[x] /\ job'[x] = job[x]
    BY <1>3, TakeEffect
  <2> QED BY <2>1, <2>3, <2>4
<1> SUFFICES ASSUME ~ \E w \in Workers : pc[w] = "loop" /\ Take(w)
             PROVE  Collection'
  BY <1>3
<1>0. \A x \in Workers : Kept(x)
  BY HoldersKept
<1>4. ASSUME NEW w \in Workers,
             pc[w] = (IF w = Controller THEN "claimed" ELSE "window") /\ TakeWindow(w)
      PROVE Collection'
  BY <1>4, TakeWindowEffect DEF TakeWindow
<1>5. ASSUME NEW w \in Workers, pc[w] = "sample" /\ Sample(w) PROVE Collection'
  BY <1>5, SampleEffect DEF Sample
<1>6. ASSUME NEW w \in Workers, Primed(w) PROVE Collection'
  BY <1>6 DEF Primed, Typed, PlacesTyped, JobsTyped
<1>7. ASSUME NEW w \in Workers, Raise(w) PROVE Collection'
  BY <1>7 DEF Raise, Typed, PlacesTyped, JobsTyped
<1>8. ASSUME NEW w \in Workers, Publish(w) PROVE Collection'
  BY <1>8 DEF Publish, Typed, PlacesTyped, JobsTyped
<1>9. ASSUME NEW h \in Helpers, Spawn(h) PROVE Collection'
  BY <1>9 DEF Spawn, Typed, PlacesTyped, JobsTyped
<1>10. ASSUME NEW h \in Helpers, Enter(h) PROVE Collection'
  BY <1>10 DEF Enter, Typed, PlacesTyped, JobsTyped
<1>11. ASSUME NEW h \in Helpers, Leave(h) PROVE Collection'
  BY <1>11 DEF Leave, Typed, PlacesTyped, JobsTyped
<1>12. ASSUME NEW h \in Helpers, Prepare(h) PROVE Collection'
  <2>1. \A x \in Workers : Kept(x)
    BY <1>0
  <2>2. UNCHANGED <<results, own, stop, aborted, cancelled>>
    BY <1>12 DEF Prepare
  <2>3. pc'[Controller] = pc[Controller]
    BY <1>12, PrepareEffect
  <2>4. \A x \in Helpers \ {h} : pc'[x] = pc[x] /\ job'[x] = job[x]
    BY <1>12, PrepareEffect
  <2>5. pc'[h] = "prime" /\ job'[h].end = "ended" => FALSE
    BY <1>12, PrepareEffect DEF MustEnd
  <2> QED BY <2>1, <2>2, <2>3, <2>4, <2>5 DEF Kept
<1>13. ASSUME NEW h \in Helpers, HelperSearch(h) PROVE Collection'
  <2>1. \A x \in Workers : Kept(x)
    BY <1>0
  <2>2. UNCHANGED <<results, own, stop, aborted, cancelled>>
    BY <1>13 DEF HelperSearch
  <2>3. pc'[Controller] = pc[Controller]
    BY <1>13, HelperSearchEffect
  <2>4. \A x \in Helpers \ {h} : pc'[x] = pc[x] /\ job'[x] = job[x]
    BY <1>13, HelperSearchEffect
  <2>5. pc'[h] = "prime" /\ job'[h].end = "ended" => ShouldAbort \/ cancelled
    BY <1>13, HelperSearchEffect DEF MustEnd
  <2> QED BY <2>1, <2>2, <2>3, <2>4, <2>5 DEF Kept
<1>14. ASSUME NEW h \in Helpers, HelperPrime(h) PROVE Collection'
  <2>1. \A x \in Workers : Kept(x)
    BY <1>0
  <2>2. UNCHANGED <<results, own, stop, aborted, cancelled>>
    BY <1>14 DEF HelperPrime
  <2>3. pc'[Controller] = pc[Controller]
    BY <1>14, HelperPrimeEffect
  <2>4. \A x \in Helpers \ {h} : pc'[x] = pc[x] /\ job'[x] = job[x]
    BY <1>14, HelperPrimeEffect
  <2>5. pc'[h] = "prime" /\ job'[h].end = "ended" => FALSE
    BY <1>14, HelperPrimeEffect DEF MustEnd
  <2> QED BY <2>1, <2>2, <2>3, <2>4, <2>5 DEF Kept
<1>15. ASSUME NEW h \in Helpers, StopSearch(h) PROVE Collection'
  BY <1>15 DEF StopSearch, Typed, PlacesTyped, JobsTyped
<1>16. CASE SpawnEnds
  BY <1>16 DEF SpawnEnds, Typed, PlacesTyped, JobsTyped
<1>17. CASE EvaluateRoot
  <2>1. \A x \in Workers : Kept(x)
    BY <1>0
  <2>2. UNCHANGED <<results, own, job, stop, aborted, cancelled>>
    BY <1>17 DEF EvaluateRoot
  <2>3. pc'[Controller] = "begin" /\ \A x \in Helpers : pc'[x] = pc[x]
    BY <1>17, OthersKept DEF EvaluateRoot
  <2>4. \A x \in Workers : pc[x] \notin Holding
    BY <1>17 DEF EvaluateRoot, Stages
  <2> QED BY <2>1, <2>2, <2>3, <2>4 DEF Kept
<1>18. CASE Begin
  BY <1>18 DEF Begin, Typed, PlacesTyped, JobsTyped
<1>19. CASE ClaimsEnd
  BY <1>19 DEF ClaimsEnd, Typed, PlacesTyped, JobsTyped
<1>20. CASE GiveUp \/ FallbackFails
  BY <1>20 DEF GiveUp, FallbackFails, Typed, PlacesTyped, JobsTyped
<1>21. CASE ControllerSearch
  BY <1>21, ControllerSearchEffect DEF ControllerSearch
<1>22. CASE ControllerPrime
  BY <1>22 DEF ControllerPrime, Typed, PlacesTyped, JobsTyped
<1>23. CASE CollectCheck
  <2>1. \A x \in Workers : Kept(x)
    BY <1>0
  <2>2. UNCHANGED <<results, own, job, stop, aborted, cancelled>>
    BY <1>23 DEF CollectCheck
  <2>3. /\ \A x \in Helpers : pc'[x] = pc[x]
        /\ pc'[Controller] = "adopt" \/ (pc'[Controller] = "merge" /\ Missing = {})
    BY <1>23, OthersKept DEF CollectCheck
  <2> QED BY <2>2, <2>3 DEF Missing
<1>24. CASE Adopt
  <2>1. \A x \in Workers : Kept(x)
    BY <1>0
  <2>2. UNCHANGED <<results, job, stop, aborted, cancelled>> /\ pc[Controller] = "adopt"
    BY <1>24 DEF Adopt
  <2>3. \A m \in Moves : own'[m] = IF own[m] = None THEN results[m] ELSE own[m]
    BY <1>24 DEF Adopt
  <2>4. /\ \A x \in Helpers : pc'[x] = pc[x]
        /\ \/ pc'[Controller] = "collect" 
           \/ pc'[Controller] = "merge" /\ Missing' = {}
           \/ pc'[Controller] = "fallback" /\ ~HelpersAlive
    BY <1>24, OthersKept DEF Adopt
  <2>5. ~HelpersAlive => \A x \in Workers : pc[x] \notin Holding
    BY <2>2 DEF HelpersAlive
  <2> QED BY <2>1, <2>2, <2>3, <2>4, <2>5 DEF Missing, Kept
<1>25. CASE Fallback
  <2>1. \A x \in Workers : Kept(x)
    BY <1>0
  <2>2. UNCHANGED <<results, job, stop, aborted, cancelled>> /\ pc[Controller] = "fallback"
    BY <1>25 DEF Fallback
  <2>3. PICK m \in Moves, e \in Entry0 : own[m] = None /\ own' = [own EXCEPT ![m] = e]
    BY <1>25, FoundEntries DEF Fallback, Missing
  <2>4. \A n \in Moves \ {m} : own'[n] = own[n]
    BY <2>3 DEF Typed, DataTyped
  <2>5. results[m] = None
    BY <2>2, <2>3
  <2>6. /\ \A x \in Helpers : pc'[x] = pc[x]
        /\ \/ pc'[Controller] = "merge" /\ Missing' = {}
           \/ pc'[Controller] = "fallback"
    BY <1>25, OthersKept DEF Fallback
  <2> QED BY <2>1, <2>2, <2>4, <2>5, <2>6 DEF Missing, Kept
<1>26. CASE Retry
  <2>1. \A x \in Workers : Kept(x)
    BY <1>0
  <2>2. UNCHANGED <<results, own, job, stop, aborted, cancelled>>
    BY <1>26 DEF Retry
  <2>3. pc'[Controller] = "begin" /\ \A x \in Helpers : pc'[x] = pc[x]
    BY <1>26, OthersKept DEF Retry
  <2>4. \A x \in Workers : pc[x] \notin Holding
    BY <1>26, MergeIsIdle DEF Retry
  <2> QED BY <2>1, <2>2, <2>3, <2>4 DEF Kept
<1>27. CASE Accept
  <2>1. \A x \in Workers : Kept(x)
    BY <1>0
  <2>2. UNCHANGED <<results, own, job, stop, aborted, cancelled>>
    BY <1>27 DEF Accept
  <2>3. pc'[Controller] \in {"begin", "stopping"} /\ \A x \in Helpers : pc'[x] = pc[x]
    BY <1>27, OthersKept DEF Accept
  <2>4. \A x \in Workers : pc[x] \notin Holding
    BY <1>27, MergeIsIdle DEF Accept
  <2> QED BY <2>1, <2>2, <2>3, <2>4 DEF Kept
<1>28. CASE StopHelpers
  BY <1>28 DEF StopHelpers, Typed, PlacesTyped, JobsTyped
<1>29. CASE Return
  BY <1>29 DEF Return, Typed, PlacesTyped, JobsTyped
<1> QED BY Steps, <1>1, <1>2, <1>3, <1>4, <1>5, <1>6, <1>7, <1>8, <1>9, <1>10, <1>11, <1>12,
      <1>13, <1>14, <1>15, <1>16, <1>17, <1>18, <1>19, <1>20, <1>21, <1>22, <1>23, <1>24, <1>25,
      <1>26, <1>27, <1>28, <1>29

-----------------------------------------------------------------------------
(* The window of the iteration and the shared alpha.                       *)

\* Which step may change what.
Frame ==
  /\ UNCHANGED window \/ Retry \/ Accept
  /\ UNCHANGED <<value, depth, best, ranking>> \/ Accept
  /\ UNCHANGED iter \/ Begin
  /\ UNCHANGED cursor \/ Begin \/ \E w \in Workers : pc[w] = "loop" /\ Take(w)
  /\ UNCHANGED sharedAlpha \/ Begin \/ \E w \in Workers : Raise(w)
  /\ UNCHANGED results \/ Begin \/ \E w \in Workers : Publish(w)
  /\ UNCHANGED own \/ Begin \/ Adopt \/ Fallback \/ \E w \in Workers : Publish(w)
  /\ UNCHANGED outcome \/ Return
  /\ \/ UNCHANGED failed
     \/ /\ failed' = TRUE
        /\ \/ pc[Controller] \in {"root", "search", "fallback"}
           \/ \E h \in Helpers : pc[h] \in {"claimed", "search"}

\* Each part of the state is changed by the steps that Frame names, and no other.
LEMMA Frames ==
  ASSUME Next
  PROVE  Frame
<1> USE DEF answer, iteration, shared, signals, At, Frame
<1>1. ASSUME (\E w \in Workers : Raise(w))
     PROVE  Frame
  BY <1>1 DEF Raise
<1>2. ASSUME (\E w \in Workers : Publish(w))
     PROVE  Frame
  BY <1>2 DEF Publish
<1>3. ASSUME Begin
     PROVE  Frame
  BY <1>3 DEF Begin
<1>4. ASSUME Adopt
     PROVE  Frame
  BY <1>4 DEF Adopt
<1>5. ASSUME Fallback
     PROVE  Frame
  BY <1>5 DEF Fallback
<1>6. ASSUME Retry
     PROVE  Frame
  BY <1>6 DEF Retry
<1>7. ASSUME Accept
     PROVE  Frame
  BY <1>7 DEF Accept
<1>8. ASSUME (\E w \in Workers : pc[w] = "loop" /\ Take(w)) \/ (\E w \in Workers : TakeWindow(w))
             \/ (\E w \in Workers : Sample(w)) \/ (\E w \in Workers : Primed(w))
     PROVE  Frame
  BY <1>8 DEF Take, TakeWindow, Sample, Primed
<1>9. ASSUME (\E h \in Helpers : Spawn(h)) \/ (\E h \in Helpers : Enter(h))
             \/ (\E h \in Helpers : Leave(h)) \/ (\E h \in Helpers : Prepare(h))
     PROVE  Frame
  BY <1>9 DEF Spawn, Enter, Leave, Prepare
<1>10. ASSUME (\E h \in Helpers : HelperSearch(h)) \/ (\E h \in Helpers : HelperPrime(h))
              \/ (\E h \in Helpers : StopSearch(h)) \/ SpawnEnds
     PROVE  Frame
  BY <1>10 DEF HelperSearch, HelperPrime, StopSearch, SpawnEnds
<1>11. ASSUME EvaluateRoot \/ ClaimsEnd \/ GiveUp \/ FallbackFails \/ ControllerSearch
     PROVE  Frame
  BY <1>11 DEF EvaluateRoot, ClaimsEnd, GiveUp, FallbackFails, ControllerSearch
<1>12. ASSUME ControllerPrime \/ CollectCheck \/ StopHelpers \/ Return
     PROVE  Frame
  BY <1>12 DEF ControllerPrime, CollectCheck, StopHelpers, Return
<1>13. ASSUME Abort \/ Cancel
     PROVE  Frame
  BY <1>13 DEF Abort, Cancel
<1> QED BY Steps, <1>1, <1>2, <1>3, <1>4, <1>5, <1>6, <1>7, <1>8, <1>9, <1>10, <1>11, <1>12, <1>13

\* Only Begin puts the controller to work on an iteration.
LEMMA IterationsBegin ==
  ASSUME Typed, Next, pc'[Controller] \in Iterating
  PROVE  pc[Controller] \in Iterating \/ Begin
<1> DEFINE G == pc[Controller] \in Iterating \/ Begin
<1> USE SearchAssumption DEF MoveTo, At, Go, Iterating, Others, Workers
<1>1. ASSUME NEW w \in Workers, pc[w] = "loop" /\ Take(w)
      PROVE  G
  BY <1>1, TakeEffect
<1>2. ASSUME NEW w \in Workers,
             pc[w] = (IF w = Controller THEN "claimed" ELSE "window") /\ TakeWindow(w)
      PROVE  G
  BY <1>2, TakeWindowEffect
<1>3. ASSUME NEW w \in Workers, pc[w] = "sample" /\ Sample(w)
      PROVE  G
  BY <1>3, SampleEffect
<1>4. ASSUME NEW w \in Workers, Primed(w) \/ Raise(w) \/ Publish(w)
      PROVE  G
  BY <1>4, OthersKept DEF Primed, Raise, Publish
<1>5. ASSUME NEW h \in Helpers, Spawn(h) \/ Enter(h) \/ Leave(h) \/ StopSearch(h)
      PROVE  G
  BY <1>5, OthersKept DEF Spawn, Enter, Leave, StopSearch
<1>6. ASSUME NEW h \in Helpers, Prepare(h) \/ HelperSearch(h) \/ HelperPrime(h)
      PROVE  G
  BY <1>6, PrepareEffect, HelperSearchEffect, HelperPrimeEffect
<1>7. ASSUME ControllerSearch \/ ControllerPrime \/ CollectCheck \/ Adopt \/ ClaimsEnd
      PROVE  G
  BY <1>7 DEF ControllerSearch, ControllerPrime, CollectCheck, Adopt, ClaimsEnd
<1>8. ASSUME Fallback \/ Retry \/ Accept PROVE G
  BY <1>8 DEF Fallback, Retry, Accept
<1>9. ASSUME SpawnEnds \/ EvaluateRoot \/ GiveUp \/ FallbackFails \/ StopHelpers \/ Return
      PROVE  G
  BY <1>9, OthersKept DEF SpawnEnds, EvaluateRoot, GiveUp, FallbackFails, StopHelpers, Return
<1>10. ASSUME Abort \/ Cancel PROVE G
  BY <1>10 DEF Abort, Cancel
<1> QED BY Steps, <1>1, <1>2, <1>3, <1>4, <1>5, <1>6, <1>7, <1>8, <1>9, <1>10

\* Every step keeps the windows in order.
LEMMA WindowsStep ==
  ASSUME Typed, Claims, Phases, Windows, Listed, Next
  PROVE  Windows'
<1> USE SearchAssumption DEF Windows, Infinity, NegInfinity
<1>1. CASE Retry
  <2>1. window \in [alpha : Int, beta : Int]
    BY DEF Typed, DataTyped
  <2>2. /\ Window > 0 /\ depth > 0 /\ pc'[Controller] = "begin"
        /\ \/ window'.alpha = NegInfinity /\ window'.beta = window.beta
           \/ window'.alpha = window.alpha /\ window'.beta = Infinity
    BY <1>1, <2>1, OthersKept DEF Retry, FailsLow, FailsHigh, Aspiration, Go, MoveTo, Workers
  <2>3. UNCHANGED <<depth, iter, sharedAlpha>>
    BY <1>1 DEF Retry, answer, iteration, shared
  <2> QED BY <2>1, <2>2, <2>3 DEF Typed, DataTyped, Iterating
<1>2. CASE Accept
  <2>1. PICK m \in Moves : best' = [move |-> m, score |-> own[m].score]
    BY <1>2 DEF Accept
  <2>2. best'.score \in Scores
    BY <1>2, <2>1 DEF Accept, At, Phases, Collection, Listed, SoundAt, Sound
  <2>3. pc'[Controller] \in {"begin", "stopping"} /\ depth' = depth + 1
    BY <1>2, OthersKept DEF Accept, Go, MoveTo, Workers
  <2>4. UNCHANGED <<iter, sharedAlpha>>
    BY <1>2 DEF Accept, iteration, shared
  <2>5. \/ UNCHANGED window /\ pc'[Controller] = "stopping"
        \/ Window = 0 /\ UNCHANGED window
        \/ Window > 0 /\ window' = [alpha |-> best'.score - Window, beta |-> best'.score + Window]
    <3>1. \A place : Go(place) => pc'[Controller] = place
      BY OthersKept DEF Go, MoveTo, Workers
    <3> QED BY <1>2, <3>1 DEF Accept
  <2> QED BY <2>2, <2>3, <2>4, <2>5 DEF Typed, DataTyped, Iterating, Scores
<1>3. CASE Begin
  <2>1. /\ iter'.epoch > 0 /\ iter'.alpha = window.alpha /\ iter'.beta = window.beta
        /\ sharedAlpha' = window.alpha /\ UNCHANGED <<window, depth>>
    BY <1>3 DEF Begin, Typed, DataTyped
  <2> QED BY <2>1 DEF Typed, DataTyped
<1>4. ASSUME UNCHANGED <<window, depth, iter>>, ~Begin PROVE Windows'
  <2>1. sharedAlpha' >= sharedAlpha
    BY <1>4, Frames DEF Frame, Raise, Typed, DataTyped, JobsTyped, Job, Entry0
  <2>2. pc'[Controller] \in Iterating => pc[Controller] \in Iterating
    BY <1>4, IterationsBegin
  <2> QED BY <1>4, <2>1, <2>2, DataStep DEF Typed, DataTyped
<1> QED BY <1>1, <1>2, <1>3, <1>4, Frames DEF Frame

-----------------------------------------------------------------------------
(* What the searches find.                                                 *)

\* What a fail-soft search of a root move tells about its score v.
LEMMA FoundFacts ==
  ASSUME NEW v \in Scores, NEW a \in Int, NEW b \in Int, NEW first \in BOOLEAN,
         NEW e \in Found(v, a, b, first), a < b
  PROVE  /\ e.score < b => v <= e.score
         /\ a < e.score /\ e.score < b => e.score = v /\ e.exact
         /\ Pvs /\ e.exact /\ e.score <= a => first
<1> USE SearchAssumption DEF Scores
<1> DEFINE whole == {Entry(s, TRUE) : s \in Returns(v, a, b)}
           scouts == Returns(v, a, a + 1)
           again == {s \in scouts : a < s /\ s < b}
<1>1. ASSUME NEW s \in Returns(v, a, b)
      PROVE  (s < b => v <= s) /\ (a < s /\ s < b => s = v) /\ (s <= a => v <= a)
  BY <1>1 DEF Returns
<1>2. ASSUME NEW s \in scouts
      PROVE  (s <= a => v <= s) /\ (a < s => a < v)
  BY <1>2 DEF Returns
<1>3. e \in whole => e.exact /\ \E s \in Returns(v, a, b) : e.score = s
  BY DEF Entry
<1>4. CASE first \/ ~Pvs
  BY <1>1, <1>3, <1>4, ReturnsScores DEF Found
<1>5. CASE ~first /\ Pvs
  <2>1. CASE e \in {Entry(s, FALSE) : s \in scouts \ again}
    <3>1. PICK s \in scouts \ again : e = Entry(s, FALSE)
      BY <2>1
    <3>2. e.score = s /\ ~e.exact /\ s \in Scores /\ (s <= a \/ b <= s)
      BY <3>1, ReturnsScores DEF Entry
    <3>3. s <= a => v <= s
      BY <1>2, <3>1
    <3> HIDE DEF scouts, again
    <3> QED BY <3>2, <3>3
  <2>2. CASE e \in whole /\ again # {}
    <3>1. PICK s \in scouts : a < s
      BY <2>2
    <3>2. a < v
      BY <1>2, <3>1
    <3> HIDE DEF whole, scouts, again
    <3> QED BY <1>1, <1>3, <2>2, <3>2, ReturnsScores
  <2> QED BY <1>5, <2>1, <2>2 DEF Found
<1> QED BY <1>4, <1>5

\* A fresh entry is sound, whatever alpha has become during the search.
LEMMA FoundIsSound ==
  ASSUME NEW v \in Scores, NEW lo \in Int, NEW a \in Int, NEW shared0 \in Int,
         NEW b \in Int, NEW first \in BOOLEAN, NEW e \in Found(v, a, b, first),
         lo <= a, a <= shared0, first => a = lo
  PROVE  Sound(v, e, lo, shared0, b)
BY FoundEntries, FoundFacts, SearchAssumption DEF Sound, Scores, Entry0

\* A fresh entry inside its own window is exact.
LEMMA FoundExactly ==
  ASSUME NEW v \in Scores, NEW a \in Int, NEW b \in Int, NEW first \in BOOLEAN,
         NEW e \in Found(v, a, b, first)
  PROVE  Exactly(v, e, a, b)
BY FoundEntries, FoundFacts, SearchAssumption DEF Exactly, Scores, Entry0

\* A rising alpha keeps what an entry tells.
LEMMA SoundRises ==
  ASSUME NEW v, NEW e \in Entry0, NEW lo \in Int, NEW a \in Int, NEW b \in Int,
         NEW hi \in Int, a <= b, Sound(v, e, lo, a, hi)
  PROVE  Sound(v, e, lo, b, hi)
BY DEF Sound, Entry0

\* The types of the fields of a claim.
LEMMA JobFields ==
  ASSUME Typed, NEW w \in Workers
  PROVE  /\ job[w].epoch \in Nat /\ job[w].move \in 0 .. NMoves /\ job[w].first \in BOOLEAN
         /\ job[w].alpha \in Int /\ job[w].beta \in Int /\ job[w].entry \in Entry0
         /\ job[w].end \in Ends
BY DEF Typed, JobsTyped, Job

\* The types of the numbers of an iteration.
LEMMA Bounds ==
  ASSUME Typed
  PROVE  /\ iter.epoch \in Nat /\ iter.alpha \in Int /\ iter.beta \in Int
         /\ sharedAlpha \in Int /\ \A m \in Moves : value[m] \in Scores
BY DEF Typed, DataTyped

\* A worker that does not move keeps what is known of its search.
LEMMA SearchKept ==
  ASSUME Typed, NEW x \in Workers, SearchOf(x), pc'[x] = pc[x], job'[x] = job[x],
         UNCHANGED <<iter, value>>, sharedAlpha' \in Int, sharedAlpha <= sharedAlpha',
         pc[x] = "sample" /\ job[x].first => UNCHANGED sharedAlpha
  PROVE  SearchOf(x)'
<1> DEFINE v == value[job[x].move]
           e == job[x].entry
<1>1. e \in Entry0 /\ iter.alpha \in Int /\ iter.beta \in Int /\ sharedAlpha \in Int
      /\ e.score \in Int /\ job[x].alpha \in Int
  BY JobFields, Bounds DEF Entry0
<1>2. HasEntry(x)' = HasEntry(x) /\ Raised(x)' = Raised(x)
  BY DEF HasEntry, Raised
<1>3. HasEntry(x) => Sound(v, e, iter.alpha, sharedAlpha', iter.beta)
  BY <1>1, SoundRises DEF SearchOf
<1>4. v' = v /\ e' = e
  OBVIOUS
<1> HIDE DEF v, e
<1>5. HasEntry(x) => Exactly(v, e, job[x].alpha, iter.beta)
  BY DEF SearchOf, v, e
<1>6. Raised(x) => e.score <= sharedAlpha'
  BY <1>1 DEF SearchOf, e
<1>7. pc[x] \in {"search", "prime", "raise", "publish"} => job[x].alpha <= sharedAlpha'
  BY <1>1 DEF SearchOf
<1>8. HasEntry(x)' => Sound(v', e', iter'.alpha, sharedAlpha', iter'.beta)
                      /\ Exactly(v', e', job'[x].alpha, iter'.beta)
  BY <1>2, <1>3, <1>4, <1>5
<1>9. Raised(x)' => e'.score <= sharedAlpha'
  BY <1>2, <1>4, <1>6
<1> QED BY <1>7, <1>8, <1>9 DEF SearchOf, v, e

\* raise_alpha: the shared alpha rises at most to the score just found.
LEMMA RaiseEffect ==
  ASSUME Typed, NEW w \in Workers, Raise(w)
  PROVE  /\ pc[w] = "raise" /\ Others(w) /\ UNCHANGED job
         /\ pc'[w] = IF w = Controller THEN "prime" ELSE "publish"
         /\ sharedAlpha' \in Int /\ sharedAlpha <= sharedAlpha'
         /\ job[w].entry.score <= sharedAlpha'
         /\ sharedAlpha' = sharedAlpha \/ sharedAlpha' = job[w].entry.score
<1>1. pc[w] = "raise" /\ UNCHANGED job
  BY DEF Raise
<1>2. /\ pc'[w] = IF w = Controller THEN "prime" ELSE "publish"
      /\ \A x \in Workers \ {w} : pc'[x] = pc[x]
  BY OthersKept DEF Raise, MoveTo
<1>3. job[w].entry.score \in Int /\ sharedAlpha \in Int
  BY JobFields, Bounds DEF Entry0
<1>4. sharedAlpha' = IF job[w].entry.score > sharedAlpha THEN job[w].entry.score ELSE sharedAlpha
  BY DEF Raise
<1> QED BY <1>1, <1>2, <1>3, <1>4 DEF Others

\* Every step keeps what is known of the searches under way.
LEMMA SearchingStep ==
  ASSUME Typed, Typed', Claims, Windowing, Phases, Windows, Searching, Next
  PROVE  Searching'
<1> USE DEF Searching
<1>1. ASSUME NEW w \in Workers, pc[w] = "loop", Take(w)
      PROVE  Searching'
  <2>1. UNCHANGED <<iter, value, sharedAlpha, fullWindow>>
    BY <1>1 DEF Take, answer, iteration
  <2>2. pc'[w] = "claimed" /\ Others(w)
    BY <1>1, TakeEffect
  <2>3. SearchOf(w)'
    BY <2>2 DEF SearchOf, HasEntry, Raised
  <2>4. \A x \in Workers \ {w} : pc'[x] \in Holding => SearchOf(x)'
    BY <2>1, <2>2, SearchKept, Bounds DEF Others
  <2> QED BY <2>1, <2>3, <2>4
<1>2. ASSUME NEW w \in Workers,
             pc[w] = (IF w = Controller THEN "claimed" ELSE "window") /\ TakeWindow(w)
      PROVE  Searching'
  <2>1. UNCHANGED <<iter, value, sharedAlpha>> /\ fullWindow'
    BY <1>2 DEF TakeWindow, answer, iteration
  <2>2. /\ pc'[w] = (IF fullWindow THEN "wait" ELSE "sample") /\ Others(w)
        /\ job'[w].first = ~fullWindow /\ job'[w].beta = job[w].beta
    BY <1>2, TakeWindowEffect
  <2>3. iter.epoch > 0
    BY <1>2, Bounds DEF Claims, ClaimOf, Holding
  <2>4. SearchOf(w)'
    BY <1>2, <2>1, <2>2, <2>3 DEF SearchOf, HasEntry, Raised, Holding
  <2>5. \A x \in Workers \ {w} : pc'[x] \in Holding => SearchOf(x)'
    BY <2>1, <2>2, SearchKept, Bounds DEF Others
  <2> QED BY <2>1, <2>4, <2>5
<1>3. ASSUME NEW w \in Workers, pc[w] = "sample", Sample(w)
      PROVE  Searching'
  <2>1. UNCHANGED <<iter, value, sharedAlpha, fullWindow>>
    BY <1>3 DEF Sample, answer, iteration, shared
  <2>2. /\ pc'[w] = "search" /\ Others(w) /\ job'[w].alpha = sharedAlpha
        /\ job'[w].first = job[w].first /\ job'[w].beta = job[w].beta
    BY <1>3, SampleEffect
  <2>3. iter.alpha <= sharedAlpha
    BY <1>3, Bounds DEF Claims, ClaimOf, Holding, Windows
  <2>4. SearchOf(w)'
    BY <1>3, <2>1, <2>2, <2>3, Bounds DEF SearchOf, HasEntry, Raised, Holding
  <2>5. \A x \in Workers \ {w} : pc'[x] \in Holding => SearchOf(x)'
    BY <2>1, <2>2, SearchKept, Bounds DEF Others
  <2> QED BY <2>1, <2>4, <2>5
<1>4. ASSUME NEW w \in Workers, Raise(w)
      PROVE  Searching'
  <2>1. UNCHANGED <<iter, value, fullWindow>>
    BY <1>4 DEF Raise, answer, iteration
  <2>2. /\ pc[w] = "raise" /\ Others(w) /\ UNCHANGED job
        /\ pc'[w] = IF w = Controller THEN "prime" ELSE "publish"
        /\ sharedAlpha' \in Int /\ sharedAlpha <= sharedAlpha'
        /\ job[w].entry.score <= sharedAlpha'
    BY <1>4, RaiseEffect
  <2>3. fullWindow
    BY <2>2 DEF Windowing, WindowOf, Windowed
  <2>4. \A x \in Workers \ {w} : ~(pc[x] = "sample" /\ job[x].first)
    BY <2>2 DEF Windowing, WindowOf, OneWindow, Windowed, Holding, Pending
  <2>5. SearchOf(w)'
    <3> DEFINE v == value[job[w].move]
               e == job[w].entry
    <3>1. e \in Entry0 /\ iter.alpha \in Int /\ iter.beta \in Int /\ sharedAlpha \in Int
          /\ job[w].alpha \in Int
      BY JobFields, Bounds
    <3>2. Sound(v, e, iter.alpha, sharedAlpha, iter.beta) /\ Exactly(v, e, job[w].alpha, iter.beta)
          /\ job[w].alpha <= sharedAlpha'
      BY <2>2, <3>1 DEF SearchOf, HasEntry, Holding
    <3>3. Sound(v, e, iter.alpha, sharedAlpha', iter.beta)
      BY <2>2, <3>1, <3>2, SoundRises
    <3>4. v' = v /\ e' = e
      BY <2>1, <2>2
    <3> HIDE DEF v, e
    <3>5. /\ Sound(v', e', iter'.alpha, sharedAlpha', iter'.beta)
          /\ Exactly(v', e', job'[w].alpha, iter'.beta)
          /\ e'.score <= sharedAlpha'
      BY <2>1, <2>2, <3>2, <3>3, <3>4 DEF e
    <3> QED BY <2>1, <2>2, <3>2, <3>5 DEF SearchOf, Holding, v, e
  <2>6. \A x \in Workers \ {w} : pc'[x] \in Holding => SearchOf(x)'
    BY <2>1, <2>2, <2>4, SearchKept DEF Others
  <2> QED BY <2>1, <2>3, <2>5, <2>6
<1>5. ASSUME NEW h \in Helpers, Prepare(h)
      PROVE  Searching'
  <2>1. UNCHANGED <<iter, value, sharedAlpha, fullWindow>>
    BY <1>5 DEF Prepare, answer, iteration, shared
  <2>2. /\ Others(h) /\ h \in Workers
        /\ pc'[h] \in Holding => pc'[h] = "window" /\ job'[h].beta = iter.beta
    BY <1>5, PrepareEffect DEF Holding, Workers
  <2>3. pc'[h] \in Holding => SearchOf(h)'
    BY <2>1, <2>2 DEF SearchOf, HasEntry, Raised
  <2>4. \A x \in Workers \ {h} : pc'[x] \in Holding => SearchOf(x)'
    BY <2>1, <2>2, SearchKept, Bounds DEF Others
  <2> QED BY <2>1, <2>3, <2>4
<1>6. ASSUME NEW h \in Helpers, HelperSearch(h)
      PROVE  Searching'
  <2>1. UNCHANGED <<iter, value, sharedAlpha, fullWindow>>
    BY <1>6 DEF HelperSearch, answer, iteration, shared
  <2>2. /\ pc[h] = "search" /\ pc'[h] = "prime" /\ Others(h) /\ SameSlot(h)
        /\ job'[h].first = job[h].first /\ job'[h].alpha = job[h].alpha
        /\ job'[h].beta = job[h].beta /\ h \in Workers /\ h # Controller
        /\ job'[h].end = "found" => job'[h].entry \in Entries(h)
    BY <1>6, HelperSearchEffect, SearchAssumption DEF Workers
  <2>3. SearchOf(h) /\ job[h].move \in Moves
    BY <2>2, SlotOf DEF Holding, Claims
  <2>4. ASSUME job'[h].end = "found"
        PROVE  /\ Sound(value[job[h].move], job'[h].entry, iter.alpha, sharedAlpha, iter.beta)
               /\ Exactly(value[job[h].move], job'[h].entry, job[h].alpha, iter.beta)
    <3>1. job[h].alpha \in Int /\ job[h].beta = iter.beta /\ job[h].first \in BOOLEAN
      BY <2>2, <2>3, JobFields DEF SearchOf
    <3>2. job'[h].entry \in Found(value[job[h].move], job[h].alpha, iter.beta, job[h].first)
      BY <2>2, <2>4, <3>1 DEF Entries
    <3>3. /\ iter.alpha <= job[h].alpha /\ job[h].alpha <= sharedAlpha
          /\ job[h].first => job[h].alpha = iter.alpha
      BY <2>2, <2>3 DEF SearchOf
    <3> QED BY <2>3, <3>1, <3>2, <3>3, FoundIsSound, FoundExactly, Bounds
  <2>5. SearchOf(h)'
    BY <2>1, <2>2, <2>3, <2>4 DEF SearchOf, HasEntry, Raised, SameSlot
  <2>6. \A x \in Workers \ {h} : pc'[x] \in Holding => SearchOf(x)'
    BY <2>1, <2>2, SearchKept, Bounds DEF Others
  <2> QED BY <2>1, <2>5, <2>6
<1>7. ASSUME NEW h \in Helpers, HelperPrime(h)
      PROVE  Searching'
  <2>1. UNCHANGED <<iter, value, sharedAlpha, fullWindow>>
    BY <1>7 DEF HelperPrime, answer, iteration
  <2>2. /\ pc[h] = "prime" /\ Others(h) /\ h \in Workers /\ h # Controller
        /\ pc'[h] \in Holding => pc'[h] = "raise" /\ job'[h] = job[h] /\ job[h].end = "found"
    BY <1>7, HelperPrimeEffect, SearchAssumption DEF Holding, Workers
  <2>3. SearchOf(h)
    BY <2>2 DEF Holding
  <2>4. pc'[h] \in Holding => SearchOf(h)'
    BY <2>1, <2>2, <2>3 DEF SearchOf, HasEntry, Raised
  <2>5. \A x \in Workers \ {h} : pc'[x] \in Holding => SearchOf(x)'
    BY <2>1, <2>2, SearchKept, Bounds DEF Others
  <2> QED BY <2>1, <2>4, <2>5
<1>8. CASE ControllerSearch
  <2> DEFINE c == Controller
  <2>1. UNCHANGED <<iter, value, sharedAlpha, fullWindow>>
    BY <1>8 DEF ControllerSearch, iteration, shared
  <2>2. /\ pc[c] = "search" /\ Others(c) /\ SameSlot(c) /\ c \in Workers
        /\ job'[c].first = job[c].first /\ job'[c].alpha = job[c].alpha
        /\ pc'[c] \in Holding =>
             /\ pc'[c] = "raise"
             /\ job'[c].entry \in Found(value[job[c].move], job[c].alpha, iter.beta, job[c].first)
    BY <1>8, ControllerSearchEffect DEF Workers, Holding
  <2>3. SearchOf(c) /\ job[c].move \in Moves
    BY <2>2, SlotOf DEF Holding, Claims
  <2>4. ASSUME pc'[c] \in Holding
        PROVE  /\ Sound(value[job[c].move], job'[c].entry, iter.alpha, sharedAlpha, iter.beta)
               /\ Exactly(value[job[c].move], job'[c].entry, job[c].alpha, iter.beta)
    <3>1. job[c].alpha \in Int /\ job[c].first \in BOOLEAN
      BY <2>2, JobFields
    <3>2. /\ iter.alpha <= job[c].alpha /\ job[c].alpha <= sharedAlpha
          /\ job[c].first => job[c].alpha = iter.alpha
      BY <2>2, <2>3 DEF SearchOf
    <3> QED BY <2>2, <2>3, <2>4, <3>1, <3>2, FoundIsSound, FoundExactly, Bounds
  <2>5. pc'[c] \in Holding => SearchOf(c)'
    BY <2>1, <2>2, <2>3, <2>4 DEF SearchOf, HasEntry, Raised, SameSlot
  <2>6. \A x \in Workers \ {c} : pc'[x] \in Holding => SearchOf(x)'
    BY <2>1, <2>2, SearchKept, Bounds DEF Others
  <2> QED BY <2>1, <2>5, <2>6
<1>9. CASE ControllerPrime
  <2>1. UNCHANGED <<iter, value, sharedAlpha, fullWindow, job>>
    BY <1>9 DEF ControllerPrime, answer, iteration
  <2>2. /\ pc[Controller] = "prime" /\ pc'[Controller] = "publish" /\ Controller \in Workers
        /\ \A x \in Workers \ {Controller} : pc'[x] = pc[x]
    BY <1>9, OthersKept DEF ControllerPrime, At, Go, MoveTo, Workers
  <2>3. SearchOf(Controller)'
    BY <2>1, <2>2 DEF SearchOf, HasEntry, Raised, Holding
  <2>4. \A x \in Workers \ {Controller} : pc'[x] \in Holding => SearchOf(x)'
    BY <2>1, <2>2, SearchKept, Bounds
  <2> QED BY <2>1, <2>3, <2>4
<1>10. ASSUME NEW w \in Workers, Primed(w)
       PROVE  Searching'
  <2>1. UNCHANGED <<iter, value, sharedAlpha, fullWindow, job>>
    BY <1>10 DEF Primed, answer, iteration, shared
  <2>2. /\ pc[w] = "wait" /\ pc'[w] = "sample"
        /\ \A x \in Workers \ {w} : pc'[x] = pc[x]
    BY <1>10, OthersKept DEF Primed, MoveTo
  <2>3. ~job[w].first
    BY <2>2 DEF Windowing, WindowOf, Holding, Windowed
  <2>4. SearchOf(w)'
    BY <2>1, <2>2, <2>3 DEF SearchOf, HasEntry, Raised, Holding
  <2>5. \A x \in Workers \ {w} : pc'[x] \in Holding => SearchOf(x)'
    BY <2>1, <2>2, SearchKept, Bounds
  <2> QED BY <2>1, <2>4, <2>5
<1>11. ASSUME Begin \/ Accept
       PROVE  Searching'
  <2>1. \A x \in Workers : pc[x] \notin Holding
    BY <1>11, MergeIsIdle DEF Begin, Accept, At, Phases, Collection
  <2>2. \A x \in Workers : pc'[x] \notin Holding
    <3>1. /\ pc'[Controller] \in {"loop", "begin", "stopping"}
          /\ \A x \in Workers \ {Controller} : pc'[x] = pc[x]
      BY <1>11, OthersKept DEF Begin, Accept, Go, MoveTo, Workers
    <3> QED BY <2>1, <3>1 DEF Holding
  <2>3. iter'.epoch > 0 /\ ~fullWindow' => sharedAlpha' = iter'.alpha
    BY <1>11 DEF Begin, Accept, iteration, shared
  <2> QED BY <2>2, <2>3
<1>12. ASSUME UNCHANGED <<iter, value, sharedAlpha, fullWindow>>,
              \A x \in Workers : pc'[x] \in Holding => pc'[x] = pc[x] /\ job'[x] = job[x]
       PROVE  Searching'
  BY <1>12, SearchKept, Bounds
<1>13. ASSUME NEW w \in Workers, Publish(w)
       PROVE  Searching'
  <2>1. \A x \in Workers : pc'[x] \in Holding => pc'[x] = pc[x] /\ job'[x] = job[x]
    <3>1. pc'[w] = "loop" /\ \A x \in Workers \ {w} : pc'[x] = pc[x]
      BY <1>13, OthersKept DEF Publish, MoveTo
    <3>2. \A x \in Workers \ {w} : job'[x] = job[x]
      BY <1>13, JobSet DEF Publish
    <3> QED BY <3>1, <3>2 DEF Holding
  <2> QED BY <1>12, <1>13, <2>1 DEF Publish, shared
<1>14. ASSUME NEW h \in Helpers, Spawn(h) \/ Enter(h) \/ Leave(h) \/ StopSearch(h)
       PROVE  Searching'
  <2>1. \A x \in Workers : pc'[x] \in Holding => pc'[x] = pc[x] /\ job'[x] = job[x]
    BY <1>14, OthersKept, JobSet DEF Spawn, Enter, Leave, StopSearch, MoveTo, Holding, Workers
  <2>2. UNCHANGED <<iter, value, sharedAlpha, fullWindow>>
    BY <1>14 DEF Spawn, Enter, Leave, StopSearch, answer, iteration, shared
  <2> QED BY <1>12, <2>1, <2>2
<1>15. ASSUME SpawnEnds \/ EvaluateRoot \/ ClaimsEnd \/ GiveUp \/ FallbackFails \/ CollectCheck
              \/ Adopt
       PROVE  Searching'
  <2>1. \A x \in Workers : pc'[x] \in Holding => pc'[x] = pc[x] /\ job'[x] = job[x]
    BY <1>15, OthersKept DEF SpawnEnds, EvaluateRoot, ClaimsEnd, GiveUp, FallbackFails,
       CollectCheck, Adopt, Go, MoveTo, Holding, Workers
  <2>2. UNCHANGED <<iter, value, sharedAlpha, fullWindow>>
    BY <1>15 DEF SpawnEnds, EvaluateRoot, ClaimsEnd, GiveUp, FallbackFails, CollectCheck, Adopt,
       answer, iteration, shared
  <2> QED BY <1>12, <2>1, <2>2
<1>16. ASSUME Fallback \/ Retry \/ StopHelpers \/ Return \/ Abort \/ Cancel
       PROVE  Searching'
  <2>1. \A x \in Workers : pc'[x] \in Holding => pc'[x] = pc[x] /\ job'[x] = job[x]
    BY <1>16, OthersKept DEF Fallback, Retry, StopHelpers, Return, Abort, Cancel, Go, MoveTo,
       Holding, Workers
  <2>2. UNCHANGED <<iter, value, sharedAlpha, fullWindow>>
    BY <1>16 DEF Fallback, Retry, StopHelpers, Return, Abort, Cancel, answer, iteration, shared
  <2> QED BY <1>12, <2>1, <2>2
<1> QED BY Steps, <1>1, <1>2, <1>3, <1>4, <1>5, <1>6, <1>7, <1>8, <1>9, <1>10, <1>11, <1>13,
      <1>14, <1>15, <1>16

\* Only Begin takes the controller from its place before an iteration.
LEMMA BeginWaits ==
  ASSUME Typed, Next, pc[Controller] = "begin", ~Begin
  PROVE  pc'[Controller] = "begin"
<1> DEFINE G == pc'[Controller] = "begin"
<1> USE SearchAssumption DEF MoveTo, At, Go, Others, Workers
<1>1. ASSUME NEW w \in Workers, pc[w] = "loop" /\ Take(w)
      PROVE  G
  BY <1>1, TakeEffect
<1>2. ASSUME NEW w \in Workers,
             pc[w] = (IF w = Controller THEN "claimed" ELSE "window") /\ TakeWindow(w)
      PROVE  G
  BY <1>2, TakeWindowEffect
<1>3. ASSUME NEW w \in Workers, pc[w] = "sample" /\ Sample(w)
      PROVE  G
  BY <1>3, SampleEffect
<1>4. ASSUME NEW w \in Workers, Primed(w) \/ Raise(w)
      PROVE  G
  BY <1>4, OthersKept DEF Primed, Raise, answer, iteration, shared
<1>5. ASSUME NEW w \in Workers, Publish(w)
      PROVE  G
  BY <1>5, OthersKept, JobSet DEF Publish
<1>6. ASSUME NEW h \in Helpers, Spawn(h) \/ Enter(h) \/ Leave(h) \/ StopSearch(h)
      PROVE  G
  BY <1>6, OthersKept, JobSet DEF Spawn, Enter, Leave, StopSearch
<1>7. ASSUME NEW h \in Helpers, Prepare(h)
      PROVE  G
  BY <1>7, PrepareEffect
<1>8. ASSUME NEW h \in Helpers, HelperSearch(h)
      PROVE  G
  BY <1>8, HelperSearchEffect
<1>9. ASSUME NEW h \in Helpers, HelperPrime(h)
      PROVE  G
  BY <1>9, HelperPrimeEffect
<1>10. CASE ControllerSearch
  BY <1>10, ControllerSearchEffect
<1>11. ASSUME ControllerPrime \/ CollectCheck \/ Adopt \/ ClaimsEnd
      PROVE  G
  BY <1>11, OthersKept DEF ControllerPrime, CollectCheck, Adopt, ClaimsEnd
<1>12. ASSUME Fallback \/ Retry \/ Accept \/ Begin PROVE G
  BY <1>12, OthersKept DEF Fallback, Retry, Accept, Begin
<1>13. ASSUME SpawnEnds \/ EvaluateRoot \/ GiveUp \/ FallbackFails \/ StopHelpers \/ Return
      PROVE  G
  BY <1>13, OthersKept DEF SpawnEnds, EvaluateRoot, GiveUp, FallbackFails, StopHelpers, Return
<1>14. ASSUME Abort \/ Cancel PROVE G
  BY <1>14 DEF Abort, Cancel
<1> QED BY Steps, <1>1, <1>2, <1>3, <1>4, <1>5, <1>6, <1>7, <1>8, <1>9, <1>10, <1>11, <1>12,
      <1>13, <1>14

\* A worker that raised alpha with its entry keeps the entry until it publishes it.
LEMMA RaisedKept ==
  ASSUME Typed, Next, NEW x \in Workers, Raised(x), ~Publish(x)
  PROVE  Raised(x)' /\ job'[x] = job[x]
<1> DEFINE G == Raised(x)' /\ job'[x] = job[x]
<1> USE SearchAssumption DEF MoveTo, At, Go, Others, Workers, Raised
<1>1. ASSUME NEW w \in Workers, pc[w] = "loop" /\ Take(w)
      PROVE  G
  BY <1>1, TakeEffect
<1>2. ASSUME NEW w \in Workers,
             pc[w] = (IF w = Controller THEN "claimed" ELSE "window") /\ TakeWindow(w)
      PROVE  G
  BY <1>2, TakeWindowEffect
<1>3. ASSUME NEW w \in Workers, pc[w] = "sample" /\ Sample(w)
      PROVE  G
  BY <1>3, SampleEffect
<1>4. ASSUME NEW w \in Workers, Primed(w) \/ Raise(w)
      PROVE  G
  BY <1>4, OthersKept DEF Primed, Raise, answer, iteration, shared
<1>5. ASSUME NEW w \in Workers, Publish(w)
      PROVE  G
  <2>1. \A y \in Workers \ {w} : pc'[y] = pc[y]
    BY <1>5, OthersKept DEF Publish
  <2>2. \A y \in Workers \ {w} : job'[y] = job[y]
    BY <1>5, JobSet DEF Publish
  <2> QED BY <1>5, <2>1, <2>2
<1>6. ASSUME NEW h \in Helpers, Spawn(h) \/ Enter(h) \/ Leave(h) \/ StopSearch(h)
      PROVE  G
  BY <1>6, OthersKept, JobSet DEF Spawn, Enter, Leave, StopSearch
<1>7. ASSUME NEW h \in Helpers, Prepare(h)
      PROVE  G
  BY <1>7, PrepareEffect
<1>8. ASSUME NEW h \in Helpers, HelperSearch(h)
      PROVE  G
  BY <1>8, HelperSearchEffect
<1>9. ASSUME NEW h \in Helpers, HelperPrime(h)
      PROVE  G
  BY <1>9, HelperPrimeEffect
<1>10. CASE ControllerSearch
  BY <1>10, ControllerSearchEffect
<1>11. ASSUME ControllerPrime \/ CollectCheck \/ Adopt \/ ClaimsEnd
      PROVE  G
  BY <1>11, OthersKept DEF ControllerPrime, CollectCheck, Adopt, ClaimsEnd
<1>12. ASSUME Fallback \/ Retry \/ Accept \/ Begin PROVE G
  BY <1>12, OthersKept DEF Fallback, Retry, Accept, Begin
<1>13. ASSUME SpawnEnds \/ EvaluateRoot \/ GiveUp \/ FallbackFails \/ StopHelpers \/ Return
      PROVE  G
  BY <1>13, OthersKept DEF SpawnEnds, EvaluateRoot, GiveUp, FallbackFails, StopHelpers, Return
<1>14. ASSUME Abort \/ Cancel PROVE G
  BY <1>14 DEF Abort, Cancel
<1> QED BY Steps, <1>1, <1>2, <1>3, <1>4, <1>5, <1>6, <1>7, <1>8, <1>9, <1>10, <1>11, <1>12,
      <1>13, <1>14

\* publish: the slot gets the entry of the claim, and the claim ends.
LEMMA PublishEffect ==
  ASSUME Typed, Claims, NEW w \in Workers, Publish(w)
  PROVE  LET m == job[w].move
             e == job[w].entry
         IN  /\ pc[w] = "publish" /\ pc'[w] = "loop" /\ m \in Moves
             /\ \A x \in Workers \ {w} : pc'[x] = pc[x] /\ job'[x] = job[x]
             /\ results[m] = None /\ own[m] = None /\ results'[m] = e
             /\ own'[m] = e \/ own'[m] = own[m]
             /\ \A n \in Moves \ {m} : results'[n] = results[n] /\ own'[n] = own[n]
             /\ UNCHANGED <<value, iter, sharedAlpha, cursor, stop, aborted, cancelled>>
<1>1. pc[w] = "publish" /\ UNCHANGED <<value, iter, sharedAlpha, cursor, stop, aborted, cancelled>>
  BY DEF Publish, shared, signals
<1>2. ClaimOf(w) /\ job[w].move \in Moves
  BY <1>1, SlotOf DEF Claims, Holding
<1>3. pc'[w] = "loop" /\ \A x \in Workers \ {w} : pc'[x] = pc[x] /\ job'[x] = job[x]
  BY OthersKept, JobSet DEF Publish, MoveTo
<1>4. results' = [results EXCEPT ![job[w].move] = job[w].entry]
  BY <1>1, <1>2 DEF Publish, ClaimOf, Holding
<1>5. own' = own \/ own' = [own EXCEPT ![job[w].move] = job[w].entry]
  BY DEF Publish
<1>6. results[job[w].move] = None /\ own[job[w].move] = None
  BY <1>1, <1>2 DEF ClaimOf, Holding
<1> QED BY <1>1, <1>2, <1>3, <1>4, <1>5, <1>6 DEF Typed, DataTyped

\* Every step keeps the published and the collected entries sound.
LEMMA ListedStep ==
  ASSUME Typed, Typed', Claims, Phases, Windows, Searching, Listed, Next
  PROVE  Listed'
<1> SUFFICES ASSUME pc'[Controller] # "begin", NEW m \in Moves
             PROVE  /\ results'[m] # None => SoundAt(m, results[m])'
                    /\ own'[m] # None => SoundAt(m, own[m])'
  BY DEF Listed
<1> DEFINE G == /\ results'[m] # None => SoundAt(m, results[m])'
                /\ own'[m] # None => SoundAt(m, own[m])'
<1>1. CASE Begin
  BY <1>1 DEF Begin, NoResults
<1>2. pc[Controller] # "begin" \/ Begin
  BY BeginWaits
<1>3. CASE Accept
  BY <1>2, <1>3, OthersKept DEF Accept, iteration, shared, Listed, SoundAt, Go, MoveTo, Workers,
     Begin, At
<1>4. ASSUME NEW w \in Workers, Publish(w), ~Begin PROVE G
  <2>1. pc[w] = "publish" /\ UNCHANGED <<value, iter, sharedAlpha>>
    BY <1>4, PublishEffect
  <2>2. SoundAt(job[w].move, job[w].entry)
    BY <2>1 DEF Searching, SearchOf, HasEntry, SoundAt, Holding
  <2>3. m = job[w].move =>
          results'[m] = job[w].entry /\ (own'[m] = job[w].entry \/ own'[m] = None)
    BY <1>4, PublishEffect
  <2>4. m # job[w].move => results'[m] = results[m] /\ own'[m] = own[m]
    BY <1>4, PublishEffect
  <2> QED BY <1>2, <1>4, <2>1, <2>2, <2>3, <2>4 DEF Listed, SoundAt
<1>5. CASE Adopt
  <2>1. /\ UNCHANGED <<value, iter, sharedAlpha, results>> /\ pc[Controller] = "adopt"
        /\ own'[m] = IF own[m] = None THEN results[m] ELSE own[m]
    BY <1>5 DEF Adopt, iteration, shared, At
  <2> QED BY <2>1 DEF Listed, SoundAt
<1>6. CASE Fallback
  <2>1. UNCHANGED <<value, iter, sharedAlpha, results>> /\ pc[Controller] = "fallback"
    BY <1>6 DEF Fallback, iteration, shared, At
  <2>2. PICK n \in Moves : \E e \in Found(value[n], sharedAlpha, iter.beta, FALSE) :
                             own' = [own EXCEPT ![n] = e]
    BY <1>6 DEF Fallback, Missing
  <2>3. PICK e \in Found(value[n], sharedAlpha, iter.beta, FALSE) : own' = [own EXCEPT ![n] = e]
    BY <2>2
  <2>4. iter.alpha <= sharedAlpha
    BY <2>1, Bounds DEF Windows, Phases, Stages
  <2>5. Sound(value[n], e, iter.alpha, sharedAlpha, iter.beta)
    <3>1. /\ value[n] \in Scores /\ iter.alpha \in Int /\ iter.beta \in Int /\ sharedAlpha \in Int
          /\ sharedAlpha <= sharedAlpha /\ FALSE \in BOOLEAN
      BY Bounds
    <3> QED BY <2>4, <3>1, FoundIsSound
  <2>6. own'[m] = IF m = n THEN e ELSE own[m]
    BY <2>3 DEF Typed, DataTyped
  <2> QED BY <2>1, <2>5, <2>6 DEF Listed, SoundAt
<1>7. ASSUME UNCHANGED <<value, iter, results, own>>, ~Begin PROVE G
  <2>1. sharedAlpha <= sharedAlpha' /\ sharedAlpha' \in Int
    BY <1>7, Frames, RaiseEffect, Bounds DEF Frame
  <2>2. results[m] \in Entry0 /\ own[m] \in Entry0
    BY DEF Typed, DataTyped
  <2>3. /\ results[m] # None => Sound(value[m], results[m], iter.alpha, sharedAlpha', iter.beta)
        /\ own[m] # None => Sound(value[m], own[m], iter.alpha, sharedAlpha', iter.beta)
    BY <1>2, <1>7, <2>1, <2>2, SoundRises, Bounds DEF Listed, SoundAt
  <2> QED BY <1>7, <2>3 DEF SoundAt
<1> QED BY <1>1, <1>3, <1>4, <1>5, <1>6, <1>7, Frames DEF Frame

\* Every step keeps the shared alpha backed by a found entry.
LEMMA BackedStep ==
  ASSUME Typed, Claims, Phases, Searching, Backed, Next
  PROVE  Backed'
<1>1. CASE Begin
  BY <1>1, Bounds DEF Begin, Backed, Typed, DataTyped
<1>2. pc[Controller] # "begin" \/ Begin \/ pc'[Controller] = "begin"
  BY BeginWaits
<1>3. ASSUME NEW w \in Workers, Raise(w), ~Begin, sharedAlpha' # sharedAlpha
      PROVE  Backed'
  <2>1. /\ pc[w] = "raise" /\ UNCHANGED job /\ sharedAlpha' = job[w].entry.score
        /\ sharedAlpha < sharedAlpha' /\ Raised(w)'
    BY <1>3, RaiseEffect, Bounds DEF Raised
  <2>2. UNCHANGED <<iter, value>>
    BY <1>3 DEF Raise, answer, iteration
  <2>3. /\ job[w].alpha <= sharedAlpha
        /\ Exactly(value[job[w].move], job[w].entry, job[w].alpha, iter.beta)
    BY <2>1 DEF Searching, SearchOf, HasEntry, Holding
  <2>4. Backs(job[w].move, job[w].entry)'
    BY <2>1, <2>2, <2>3, JobFields, Bounds DEF Backs, Exactly, Entry0
  <2> QED BY <2>1, <2>4 DEF Backed
<1>4. ASSUME NEW w \in Workers, Publish(w), ~Begin
      PROVE  Backed'
  <2>1. UNCHANGED <<value, iter, sharedAlpha>> /\ pc[w] = "publish"
    BY <1>4, PublishEffect
  <2>2. results'[job[w].move] = job[w].entry /\ job[w].move \in Moves /\ job[w].entry # None
    BY <1>4, <2>1, PublishEffect, SearchAssumption
       DEF Searching, SearchOf, HasEntry, Holding, Sound, Scores, None
  <2>3. \A m \in Moves : results[m] # None => results'[m] = results[m]
    BY <1>4, PublishEffect
  <2>4. \A x \in Workers \ {w} : Raised(x)' = Raised(x) /\ job'[x] = job[x]
    BY <1>4, PublishEffect DEF Raised
  <2>5. CASE \E m \in Moves : results[m] # None /\ Backs(m, results[m])
    BY <2>1, <2>3, <2>5 DEF Backed, Backs
  <2>6. CASE Backs(job[w].move, job[w].entry)
    BY <2>1, <2>2, <2>6 DEF Backed, Backs
  <2>7. CASE \E x \in Workers \ {w} : Raised(x) /\ Backs(job[x].move, job[x].entry)
    BY <2>1, <2>4, <2>7 DEF Backed, Backs
  <2> QED BY <1>2, <1>4, <2>1, <2>5, <2>6, <2>7 DEF Backed
<1>5. ASSUME UNCHANGED <<iter, results, sharedAlpha>>, ~Begin, ~ \E w \in Workers : Publish(w)
      PROVE  Backed'
  <2>1. UNCHANGED value \/ Accept
    BY Frames DEF Frame
  <2>2. \A x \in Workers : Raised(x) => Raised(x)' /\ job'[x] = job[x]
    BY <1>5, RaisedKept
  <2>3. CASE UNCHANGED value
    BY <1>2, <1>5, <2>2, <2>3 DEF Backed, Backs
  <2>4. CASE Accept /\ ~UNCHANGED value
    BY <2>4, OthersKept DEF Accept, Go, MoveTo, Workers, Backed
  <2> QED BY <2>1, <2>3, <2>4
<1>6. CASE \E w \in Workers : Raise(w)
  <2>1. PICK w \in Workers : Raise(w)
    BY <1>6
  <2>2. UNCHANGED <<iter, results>> /\ pc[w] = "raise" /\ pc'[w] \in {"prime", "publish"}
    BY <2>1, RaiseEffect DEF Raise, iteration
  <2>3. \A x \in Workers : ~Publish(x) 
    BY <2>1, <2>2, PublishEffect
  <2> QED BY <1>1, <1>3, <1>5, <2>1, <2>2, <2>3
<1> QED BY <1>1, <1>4, <1>5, <1>6, Frames DEF Frame

-----------------------------------------------------------------------------
(* The end of a search.                                                    *)

\* The signals and reasons that end a search are never withdrawn.
LEMMA EndingStays ==
  ASSUME Typed, Next, Ending
  PROVE  Ending'
<1> DEFINE G == Ending'
<1> USE SearchAssumption DEF Ending, ShouldAbort, MustEnd, MoveTo, At, Go, Others, Workers,
      signals, answer
<1>1. ASSUME NEW w \in Workers, pc[w] = "loop" /\ Take(w)
      PROVE  G
  BY <1>1, TakeEffect DEF Take
<1>2. ASSUME NEW w \in Workers,
             pc[w] = (IF w = Controller THEN "claimed" ELSE "window") /\ TakeWindow(w)
      PROVE  G
  BY <1>2, TakeWindowEffect DEF TakeWindow
<1>3. ASSUME NEW w \in Workers, pc[w] = "sample" /\ Sample(w)
      PROVE  G
  BY <1>3, SampleEffect DEF Sample
<1>4. ASSUME NEW w \in Workers, Primed(w) \/ Raise(w)
      PROVE  G
  BY <1>4, OthersKept DEF Primed, Raise
<1>5. ASSUME NEW w \in Workers, Publish(w)
      PROVE  G
  BY <1>5, OthersKept DEF Publish
<1>6. ASSUME NEW h \in Helpers, Spawn(h) \/ Enter(h) \/ Leave(h) \/ StopSearch(h)
      PROVE  G
  BY <1>6, OthersKept, JobSet DEF Spawn, Enter, Leave, StopSearch
<1>7. ASSUME NEW h \in Helpers, Prepare(h)
      PROVE  G
  BY <1>7, PrepareEffect DEF Prepare
<1>8. ASSUME NEW h \in Helpers, HelperSearch(h)
      PROVE  G
  BY <1>8, HelperSearchEffect DEF HelperSearch
<1>9. ASSUME NEW h \in Helpers, HelperPrime(h)
      PROVE  G
  BY <1>9, HelperPrimeEffect DEF HelperPrime
<1>10. CASE ControllerSearch
  BY <1>10, ControllerSearchEffect DEF ControllerSearch
<1>11. ASSUME ControllerPrime \/ CollectCheck \/ Adopt \/ ClaimsEnd
      PROVE  G
  BY <1>11, OthersKept DEF ControllerPrime, CollectCheck, Adopt, ClaimsEnd
<1>12. ASSUME Fallback \/ Retry \/ Accept \/ Begin PROVE G
  BY <1>12, OthersKept DEF Fallback, Retry, Accept, Begin
<1>13. ASSUME SpawnEnds \/ EvaluateRoot \/ GiveUp \/ FallbackFails \/ StopHelpers \/ Return
      PROVE  G
  BY <1>13, OthersKept DEF SpawnEnds, EvaluateRoot, GiveUp, FallbackFails, StopHelpers, Return
<1>14. ASSUME Abort \/ Cancel PROVE G
  BY <1>14 DEF Abort, Cancel
<1> QED BY Steps, <1>1, <1>2, <1>3, <1>4, <1>5, <1>6, <1>7, <1>8, <1>9, <1>10, <1>11, <1>12,
      <1>13, <1>14

\* A failed inference is recorded, or about to be, wherever it happened.
Records(h) == pc[h] = "fail" \/ (pc[h] = "prime" /\ job[h].end = "error")

\* A step of a helper keeps Failing if it loses no failure.
LEMMA HelperFails ==
  ASSUME Typed, Failing, NEW h \in Helpers, Others(h),
         pc[h] \notin {"unborn", "gone"} \/ pc[Controller] = "spawn",
         UNCHANGED <<outcome, term>>, evalFailed => evalFailed',
         failed' => failed \/ Records(h)',
         Records(h) => evalFailed' \/ Records(h)'
  PROVE  Failing'
<1>1. h # Controller /\ h \in Workers /\ Controller \in Workers
  BY SearchAssumption DEF Workers
<1>2. pc'[Controller] = pc[Controller] /\ pc[Controller] # "done"
  BY <1>1 DEF Others, Failing, Joined
<1>3. \A x \in Helpers \ {h} : Records(x) => Records(x)'
  BY DEF Others, Records, Workers
<1> QED BY <1>2, <1>3 DEF Failing, Records

\* A step of the controller keeps Failing if it loses no failure.
LEMMA ControllerFails ==
  ASSUME Typed, Failing, Others(Controller), UNCHANGED evalFailed,
         outcome' = "running" <=> pc'[Controller] # "done",
         pc'[Controller] = "done" => Joined,
         failed' => failed \/ term' = "error",
         term \in {"error", "panic"} => term' \in {"error", "panic"}
  PROVE  Failing'
<1>1. \A x \in Helpers : pc'[x] = pc[x] /\ job'[x] = job[x]
  BY SearchAssumption DEF Others, Workers
<1> QED BY <1>1 DEF Failing, Joined

\* No failed inference is ever lost before the search returns.
LEMMA FailingStep ==
  ASSUME Typed, Failing, Next
  PROVE  Failing'
<1> DEFINE G == Failing'
<1> USE SearchAssumption DEF Failing, Joined, ShouldAbort, MustEnd, MoveTo, At, Go, Others,
      Workers, signals, answer
<1>1. ASSUME NEW w \in Workers, pc[w] = "loop" /\ Take(w)
      PROVE  G
  BY <1>1, TakeEffect DEF Take
<1>2. ASSUME NEW w \in Workers,
             pc[w] = (IF w = Controller THEN "claimed" ELSE "window") /\ TakeWindow(w)
      PROVE  G
  BY <1>2, TakeWindowEffect DEF TakeWindow
<1>3. ASSUME NEW w \in Workers, pc[w] = "sample" /\ Sample(w)
      PROVE  G
  BY <1>3, SampleEffect DEF Sample
<1>4. ASSUME NEW w \in Workers, Primed(w) \/ Raise(w)
      PROVE  G
  BY <1>4, OthersKept DEF Primed, Raise
<1>5. ASSUME NEW w \in Workers, Publish(w)
      PROVE  G
  BY <1>5, OthersKept, JobSet DEF Publish
<1>6. ASSUME NEW h \in Helpers, Spawn(h) \/ Enter(h) \/ Leave(h) \/ StopSearch(h)
      PROVE  G
  <2>1. UNCHANGED <<outcome, term, failed>> /\ (evalFailed => evalFailed')
    BY <1>6 DEF Spawn, Enter, Leave, StopSearch, Typed, FlagsTyped
  <2>2. /\ \/ pc[h] \notin {"unborn", "gone", "prime"}
           \/ pc[h] = "unborn" /\ pc[Controller] = "spawn"
        /\ pc[h] = "fail" => evalFailed'
    BY <1>6 DEF Spawn, Enter, Leave, StopSearch
  <2>3. \A x \in Workers \ {h} : pc'[x] = pc[x]
    BY <1>6, OthersKept DEF Spawn, Enter, Leave, StopSearch
  <2>4. \A x \in Workers \ {h} : job'[x] = job[x]
    BY <1>6, JobSet DEF Spawn, Enter, Leave, StopSearch
  <2> QED BY <2>1, <2>2, <2>3, <2>4, HelperFails DEF Records
<1>7. ASSUME NEW h \in Helpers, Prepare(h)
      PROVE  G
  <2>1. UNCHANGED <<outcome, term, evalFailed>>
    BY <1>7 DEF Prepare
  <2>2. Others(h) /\ pc[h] \notin {"unborn", "gone"}
    BY <1>7, PrepareEffect DEF Others
  <2>3. failed' => failed \/ Records(h)'
    BY <1>7, PrepareEffect DEF Records, Prepare
  <2>4. Records(h) => Records(h)'
    BY <1>7, PrepareEffect DEF Records
  <2> QED BY <2>1, <2>2, <2>3, <2>4, HelperFails
<1>8. ASSUME NEW h \in Helpers, HelperSearch(h)
      PROVE  G
  <2>1. UNCHANGED <<outcome, term, evalFailed>>
    BY <1>8 DEF HelperSearch
  <2>2. Others(h) /\ pc[h] \notin {"unborn", "gone"}
    BY <1>8, HelperSearchEffect DEF Others
  <2>3. failed' => failed \/ Records(h)'
    BY <1>8, HelperSearchEffect DEF Records, HelperSearch
  <2>4. Records(h) => Records(h)'
    BY <1>8, HelperSearchEffect DEF Records
  <2> QED BY <2>1, <2>2, <2>3, <2>4, HelperFails
<1>9. ASSUME NEW h \in Helpers, HelperPrime(h)
      PROVE  G
  BY <1>9, HelperPrimeEffect DEF HelperPrime
<1>10. CASE ControllerSearch
  <2>1. UNCHANGED <<outcome, evalFailed>> /\ term = "none"
    BY <1>10 DEF ControllerSearch, Typed, FlagsTyped
  <2>2. Others(Controller) /\ pc[Controller] = "search" /\ pc'[Controller] \in {"raise", "stopping"}
    BY <1>10, ControllerSearchEffect DEF Others
  <2>3. failed' => failed \/ term' = "error"
    BY <1>10, ControllerSearchEffect
  <2> QED BY <2>1, <2>2, <2>3, ControllerFails
<1>11. ASSUME ControllerPrime \/ CollectCheck \/ Adopt \/ ClaimsEnd
      PROVE  G
  BY <1>11, OthersKept DEF ControllerPrime, CollectCheck, Adopt, ClaimsEnd
<1>12. ASSUME Fallback \/ Retry \/ Accept \/ Begin PROVE G
  <2>1. UNCHANGED <<outcome, evalFailed, failed, job>>
    BY <1>12 DEF Fallback, Retry, Accept, Begin
  <2>2. /\ pc[Controller] \in {"fallback", "merge", "begin"}
        /\ pc'[Controller] \in {"fallback", "merge", "begin", "stopping", "loop"}
        /\ \A x \in Workers \ {Controller} : pc'[x] = pc[x]
    BY ZenonT(60), <1>12, OthersKept DEF Fallback, Retry, Accept, Begin
  <2>3. term \in {"error", "panic"} => term' \in {"error", "panic"}
    BY <1>12 DEF Fallback, Retry, Accept, Begin
  <2> HIDE DEF Joined
  <2> QED BY <2>1, <2>2, <2>3, ControllerFails
<1>13. ASSUME SpawnEnds \/ EvaluateRoot \/ GiveUp \/ FallbackFails \/ StopHelpers \/ Return
      PROVE  G
  BY <1>13, OthersKept DEF SpawnEnds, EvaluateRoot, GiveUp, FallbackFails, StopHelpers, Return
<1>14. ASSUME Abort \/ Cancel PROVE G
  BY <1>14 DEF Abort, Cancel
<1> QED BY Steps, <1>1, <1>2, <1>3, <1>4, <1>5, <1>6, <1>7, <1>8, <1>9, <1>10, <1>11, <1>12,
      <1>13, <1>14

\* A claim is given up only by publishing its result or when the search ends.
LEMMA HolderStays ==
  ASSUME Typed, Claims, Windowing, Phases, Next, NEW x \in Workers, pc[x] \in Holding,
         ~Ending', ~Publish(x)
  PROVE  pc'[x] \in Holding /\ job'[x].move = job[x].move
<1> DEFINE G == pc'[x] \in Holding /\ job'[x].move = job[x].move
<1>0. ~Ending
  BY EndingStays
<1> USE SearchAssumption DEF Holding, SameSlot, MoveTo, At, Go, Others, Workers
<1>1. ASSUME NEW w \in Workers, pc[w] = "loop" /\ Take(w)
      PROVE  G
  BY <1>1, TakeEffect
<1>2. ASSUME NEW w \in Workers,
             pc[w] = (IF w = Controller THEN "claimed" ELSE "window") /\ TakeWindow(w)
      PROVE  G
  BY <1>2, TakeWindowEffect
<1>3. ASSUME NEW w \in Workers, pc[w] = "sample" /\ Sample(w)
      PROVE  G
  BY <1>3, SampleEffect
<1>4. ASSUME NEW w \in Workers, Primed(w) \/ Raise(w)
      PROVE  G
  BY <1>4, OthersKept DEF Primed, Raise, answer, iteration, shared
<1>5. ASSUME NEW w \in Workers, Publish(w)
      PROVE  G
  <2>1. \A y \in Workers \ {w} : pc'[y] = pc[y] /\ job'[y] = job[y]
    BY <1>5, PublishEffect
  <2> QED BY <1>5, <2>1
<1>6. ASSUME NEW h \in Helpers, Spawn(h) \/ Enter(h) \/ Leave(h) \/ StopSearch(h)
      PROVE  G
  <2>1. pc[h] \notin Holding \/ (Leave(h) /\ pc[h] = "wait" /\ Unprimed)
    BY <1>6 DEF Spawn, Enter, Leave, StopSearch
  <2>2. ~(Leave(h) /\ pc[h] = "wait" /\ Unprimed)
    BY <1>0 DEF Unprimed, HelpersAlive, Ending
  <2>3. \A y \in Workers \ {h} : pc'[y] = pc[y]
    BY <1>6, OthersKept DEF Spawn, Enter, Leave, StopSearch
  <2>4. \A y \in Workers \ {h} : job'[y] = job[y]
    BY <1>6, JobSet DEF Spawn, Enter, Leave, StopSearch
  <2> QED BY <2>1, <2>2, <2>3, <2>4
<1>7. ASSUME NEW h \in Helpers, Prepare(h)
      PROVE  G
  <2>1. iter.epoch = job[h].epoch /\ pc'[h] \notin {"fail", "unwound"}
    BY <1>7, PrepareEffect DEF Claims, ClaimOf, Ending
  <2> QED BY <1>7, <2>1, PrepareEffect
<1>8. ASSUME NEW h \in Helpers, HelperSearch(h)
      PROVE  G
  BY <1>8, HelperSearchEffect
<1>9. ASSUME NEW h \in Helpers, HelperPrime(h)
      PROVE  G
  <2>1. pc'[h] \notin {"fail", "halt"} /\ (pc[h] = "prime" => job[h].end # "ended")
    BY <1>0 DEF Ending, Phases, Collection
  <2> QED BY <1>9, <2>1, HelperPrimeEffect
<1>10. CASE ControllerSearch
  <2>1. pc'[Controller] = "raise"
    BY <1>10, ControllerSearchEffect DEF Ending
  <2> QED BY <1>10, <2>1, ControllerSearchEffect
<1>11. ASSUME ControllerPrime \/ CollectCheck \/ Adopt \/ ClaimsEnd
      PROVE  G
  BY <1>11, OthersKept DEF ControllerPrime, CollectCheck, Adopt, ClaimsEnd
<1>12. ASSUME Fallback \/ Retry \/ Accept \/ Begin PROVE G
  BY <1>12, OthersKept DEF Fallback, Retry, Accept, Begin
<1>13. ASSUME SpawnEnds \/ EvaluateRoot \/ GiveUp \/ FallbackFails \/ StopHelpers \/ Return
      PROVE  G
  <2>1. pc'[Controller] # pc[Controller] => ~(pc[Controller] \in Holding)
    <3>1. ~(GiveUp /\ pc[Controller] \in {"claimed", "sample", "search"})
      BY <1>0 DEF GiveUp, Ending, MustEnd, Unprimed
    <3>2. ~(GiveUp /\ pc[Controller] = "wait")
      <4>1. ASSUME pc[Controller] = "wait", GiveUp PROVE FALSE
        <5>1. fullWindow /\ ~primed /\ ~HelpersAlive
          BY <1>0, <4>1 DEF GiveUp, Unprimed, Ending, Windowing, WindowOf
        <5>2. PICK y \in Workers : Pending(y)
          BY <4>1, <5>1 DEF Windowing, OneWindow
        <5>3. y \in Helpers /\ pc[y] \in {"sample", "search", "prime"}
          BY <4>1, <5>2 DEF Pending
        <5> QED BY <5>1, <5>3 DEF HelpersAlive
      <4> QED BY <4>1
    <3> QED BY <1>13, <3>1, <3>2 DEF SpawnEnds, EvaluateRoot, GiveUp, FallbackFails, StopHelpers,
                Return
  <2>2. \A y \in Workers \ {Controller} : pc'[y] = pc[y]
    BY <1>13, OthersKept DEF SpawnEnds, EvaluateRoot, GiveUp, FallbackFails, StopHelpers, Return
  <2>3. UNCHANGED job
    BY <1>13 DEF SpawnEnds, EvaluateRoot, GiveUp, FallbackFails, StopHelpers, Return
  <2> QED BY <2>1, <2>2, <2>3
<1>14. ASSUME Abort \/ Cancel PROVE G
  BY <1>14 DEF Abort, Cancel
<1> QED BY Steps, <1>1, <1>2, <1>3, <1>4, <1>5, <1>6, <1>7, <1>8, <1>9, <1>10, <1>11, <1>12,
      <1>13, <1>14

\* The claimed slots are root moves.
LEMMA ClaimedMoves ==
  ASSUME Typed
  PROVE  Claimed \subseteq Moves
<1>1. iter.order \in Orders /\ \A i \in 1 .. cursor : i \in Moves
  BY SearchAssumption DEF Typed, DataTyped, Moves
<1> QED BY <1>1, OrderOf DEF Claimed

\* Every step keeps the claimed slots published or held.
LEMMA HeldStep ==
  ASSUME Typed, Claims, Windowing, Phases, Searching, Held, Next
  PROVE  Held'
<1> SUFFICES ASSUME ~Ending', NEW m \in Claimed'
             PROVE  results'[m] # None \/ \E w \in Workers : pc'[w] \in Holding /\ job'[w].move = m
  BY DEF Held
<1> DEFINE G == results'[m] # None \/ \E w \in Workers : pc'[w] \in Holding /\ job'[w].move = m
<1>0. ~Ending
  BY EndingStays
<1>1. CASE Begin
  BY <1>1 DEF Begin, Claimed
<1>2. ASSUME NEW w \in Workers, pc[w] = "loop", Take(w), m = iter.order[cursor + 1]
      PROVE  G
  BY <1>2, TakeEffect DEF Holding
<1>3. ASSUME ~Begin, m \in Claimed PROVE G
  <2>1. CASE \E w \in Workers : Publish(w)
    <3>1. PICK w \in Workers : Publish(w)
      BY <2>1
    <3>2. /\ pc[w] = "publish" /\ results'[job[w].move] = job[w].entry
          /\ \A n \in Moves : results[n] # None => results'[n] = results[n]
          /\ \A x \in Workers \ {w} : pc'[x] = pc[x] /\ job'[x] = job[x]
      BY <3>1, PublishEffect
    <3>3. job[w].entry # None
      BY <3>2, SearchAssumption DEF Searching, SearchOf, HasEntry, Holding, Sound, Scores, None
    <3>4. m \in Moves
      BY <1>3, ClaimedMoves
    <3> QED BY <1>0, <1>3, <3>2, <3>3, <3>4 DEF Held
  <2>2. CASE ~ \E w \in Workers : Publish(w)
    <3>1. UNCHANGED results
      BY <1>3, <2>2, Frames DEF Frame
    <3> QED BY <1>0, <1>3, <2>2, <3>1, HolderStays DEF Held
  <2> QED BY <2>1, <2>2
<1>4. ASSUME ~Begin, m \notin Claimed
      PROVE  \E w \in Workers : pc[w] = "loop" /\ Take(w) /\ m = iter.order[cursor + 1]
  <2>1. UNCHANGED iter
    BY <1>4, Frames DEF Frame
  <2>2. ~UNCHANGED cursor
    BY <1>4, <2>1 DEF Claimed
  <2>3. PICK w \in Workers : pc[w] = "loop" /\ Take(w)
    BY <1>4, <2>2, Frames DEF Frame
  <2>4. cursor' = cursor + 1 /\ cursor \in Nat
    BY <2>3 DEF Take, Typed, DataTyped
  <2> QED BY <1>4, <2>1, <2>3, <2>4 DEF Claimed
<1> QED BY <1>1, <1>2, <1>3, <1>4

-----------------------------------------------------------------------------
(* The invariant, and what follows from it.                                *)

\* The invariant holds initially ...
LEMMA InitHolds ==
  ASSUME Init
  PROVE  IInv
<1> USE SearchAssumption DEF Init
<1>1. pc[Controller] = "spawn" /\ \A h \in Helpers : pc[h] = "unborn"
  BY DEF Workers
<1>2. \A w \in Workers : pc[w] \notin Holding
  BY <1>1 DEF Workers, Holding
<1>3. ranking \in Orders
  BY DEF Orders
<1>4. Typed
  <2>1. PlacesTyped
    BY <1>1 DEF PlacesTyped, HelperPlaces, ControllerPlaces, Workers
  <2>2. JobsTyped
    BY NoJobTyped DEF JobsTyped
  <2>3. results \in [Moves -> Entry0] /\ own \in [Moves -> Entry0]
    BY DEF NoResults, None, Entry0
  <2>4. iter \in [epoch : Nat, alpha : Int, beta : Int, order : Orders]
    BY <1>3
  <2>5. window \in [alpha : Int, beta : Int]
    BY DEF NegInfinity, Infinity
  <2>6. best \in [move : 0 .. NMoves, score : 0 .. MaxScore]
    OBVIOUS
  <2>7. DataTyped
    BY <1>3, <2>3, <2>4, <2>5, <2>6 DEF DataTyped, NegInfinity
  <2>8. FlagsTyped
    BY DEF FlagsTyped
  <2> QED BY <2>1, <2>2, <2>7, <2>8 DEF Typed
<1>5. \A m \in Moves : results[m] = None /\ own[m] = None
  BY DEF NoResults
<1>6. Claims
  BY <1>2, <1>5 DEF Claims, ClaimOf, SlotsInOrder
<1>7. Windowing
  BY <1>1, <1>2 DEF Windowing, WindowOf, OneWindow, Holding, Windowed, Pending
<1>8. iter.epoch = 0 /\ iter.alpha = 0 /\ iter.beta = 0
  OBVIOUS
<1>9. Phases
  BY <1>1, <1>5, <1>8 DEF Phases, Stages, Collection
<1>10. Windows
  BY <1>1, <1>8 DEF Windows, Iterating, NegInfinity, Infinity
<1>11. Searching /\ Listed /\ Backed
  BY <1>2, <1>5, <1>8 DEF Searching, Listed, Backed
<1>12. Held
  BY DEF Held, Claimed
<1>13. Failing
  BY <1>1 DEF Failing
<1> QED BY <1>4, <1>6, <1>7, <1>9, <1>10, <1>11, <1>12, <1>13 DEF IInv

\* ... every step keeps it ...
LEMMA NextKeeps ==
  ASSUME IInv, Next
  PROVE  IInv'
<1> USE DEF IInv
<1>1. Typed'
  BY PlacesStep, JobsStep, DataStep, FlagsStep DEF Typed
<1>2. Claims'
  BY ClaimsStep
<1>3. Windowing'
  BY WindowingStep
<1>4. Phases'
  BY StagesStep, CollectionStep DEF Phases
<1>5. Windows'
  BY WindowsStep
<1>6. Searching'
  BY <1>1, SearchingStep
<1>7. Listed'
  BY <1>1, ListedStep
<1>8. Backed'
  BY BackedStep
<1>9. Held'
  BY HeldStep
<1>10. Failing'
  BY FailingStep
<1> QED BY <1>1, <1>2, <1>3, <1>4, <1>5, <1>6, <1>7, <1>8, <1>9, <1>10

\* ... and so does a step that changes nothing.
LEMMA StutterKeeps ==
  ASSUME IInv, UNCHANGED vars
  PROVE  IInv'
<1> USE DEF vars
<1>1. Typed'
  BY DEF IInv, Typed, PlacesTyped, JobsTyped, DataTyped, FlagsTyped
<1>2. Claims'
  BY DEF IInv, Claims, ClaimOf, SlotsInOrder, Claimed, Closed, ShouldAbort
<1>3. Windowing'
  BY DEF IInv, Windowing, WindowOf, OneWindow, Pending
<1>4. Phases'
  BY DEF IInv, Phases, Stages, Collection, Closed, ShouldAbort
<1>5. Windows'
  BY DEF IInv, Windows
<1>6. Searching'
  BY DEF IInv, Searching, SearchOf, HasEntry, Raised
<1>7. Listed' /\ Backed'
  BY DEF IInv, Listed, SoundAt, Backed, Raised, Backs
<1>8. Held'
  BY DEF IInv, Held, Ending, ShouldAbort, Claimed
<1>9. Failing'
  BY DEF IInv, Failing, Joined
<1> QED BY <1>1, <1>2, <1>3, <1>4, <1>5, <1>6, <1>7, <1>8, <1>9 DEF IInv

\* The invariant the theorems rest on holds for any number of helpers, of root moves and
\* of depths, and for every aspiration window (parallel.rs, search.rs).
THEOREM InvariantHolds == Spec => []IInv
<1>1. Init => IInv
  BY InitHolds
<1>2. IInv /\ [Next]_vars => IInv'
  BY NextKeeps, StutterKeeps
<1> QED BY <1>1, <1>2, PTL DEF Spec

\* What the properties of ParallelSearch say follows from the invariant.
LEMMA TypeFollows == IInv => TypeOK
BY DEF IInv, TypeOK, Typed, PlacesTyped, DataTyped, FlagsTyped

\* No slot in two hands.
LEMMA ExclusionFollows == IInv => SlotsAreExclusive
BY DEF IInv, SlotsAreExclusive, Claims, ClaimOf, SlotsInOrder, Windowing, OneWindow,
       Claimants, Holding

\* No slot in none.
LEMMA HeldFollows == IInv => NoSlotIsLost
BY DEF IInv, NoSlotIsLost, Held, Claimants, Holding, Claimed

\* No alpha that no move has.
LEMMA BackingFollows == IInv => AlphaIsBacked
<1> SUFFICES ASSUME IInv, iter.alpha < sharedAlpha, sharedAlpha < iter.beta,
                    pc[Controller] # "begin"
             PROVE  \E m \in Moves : value[m] = sharedAlpha
  BY DEF AlphaIsBacked, At
<1>1. iter.epoch > 0
  BY Bounds DEF IInv, Windows
<1>2. ASSUME NEW w \in Workers, Raised(w) PROVE job[w].move \in Moves
  BY <1>2, SlotOf DEF IInv, Claims, Raised, Holding
<1> QED BY <1>1, <1>2 DEF IInv, Backed, Backs

\* The threads share the root moves soundly: every reachable state has the types, no move
\* is searched twice or lost, and a root move's exact score backs the shared alpha
\* (IterationState::claim, publish and raise_alpha in parallel.rs).
THEOREM Sharing == Spec => []SharingIsSound
<1>1. IInv => SharingIsSound
  BY TypeFollows, ExclusionFollows, HeldFollows, BackingFollows DEF SharingIsSound
<1> QED BY <1>1, InvariantHolds, PTL

\* No thread ever holds a claim of a replaced iteration, so the epochs that publish and
\* window_of compare never differ (parallel.rs).
THEOREM Currency == Spec => []ClaimsAreCurrent
<1>1. IInv => ClaimsAreCurrent
  BY DEF IInv, ClaimsAreCurrent, Claims, ClaimOf, Claimants, Holding
<1> QED BY <1>1, InvariantHolds, PTL

\* Within one iteration the shared alpha only rises (raise_alpha's fetch_max).
THEOREM AlphaRises == Spec => AlphaOnlyRises
<1>1. IInv /\ [Next]_vars => [iter' = iter => sharedAlpha' >= sharedAlpha]_vars
  <2> SUFFICES ASSUME IInv, Next, iter' = iter PROVE sharedAlpha' >= sharedAlpha
    OBVIOUS
  <2>1. Typed
    BY DEF IInv
  <2>2. ~Begin
    BY <2>1, Bounds DEF Begin
  <2> QED BY <2>1, <2>2, Frames, RaiseEffect, Bounds DEF Frame
<1> QED BY <1>1, InvariantHolds, PTL DEF Spec, AlphaOnlyRises

\* What the controller merges to is a best move, at its true score.
LEMMA MergedIsBest ==
  ASSUME IInv, Pvs, pc[Controller] = "merge", NEW m \in Moves,
         IsMerged(m), ~FailsLow(m), ~FailsHigh(m)
  PROVE  own[m].score = value[m] /\ \A n \in Moves : value[n] <= value[m]
<1> DEFINE S == own[m].score
<1>1. \A n \in Moves : own[n] \in Entry0 /\ own[n].score \in Scores /\ own[n].score \in Int
  BY SearchAssumption DEF IInv, Phases, Collection, Listed, SoundAt, Sound, Typed, DataTyped,
     Scores
<1>2. \A n \in Moves : own[n].score <= S
  BY <1>1 DEF IsMerged, Beats
<1>3. /\ iter.epoch > 0 /\ iter.alpha < iter.beta
      /\ iter.alpha = window.alpha /\ iter.beta = window.beta
  BY Bounds DEF IInv, Windows, Iterating, Phases, Stages
<1>4. iter.alpha < S /\ S < iter.beta
  <2>1. CASE Aspiration
    BY <1>1, <1>3, <2>1, Bounds DEF FailsLow, FailsHigh, IInv
  <2>2. CASE ~Aspiration
    BY <1>1, <1>3, <2>2, SearchAssumption
       DEF Aspiration, IInv, Windows, NegInfinity, Infinity, Scores, Typed, DataTyped
  <2> QED BY <2>1, <2>2
<1>5. iter.alpha < sharedAlpha =>
        \E k \in Moves : /\ own[k].score = sharedAlpha
                         /\ sharedAlpha < iter.beta => own[k].exact
  <2>1. \A w \in Workers : ~Raised(w)
    BY MergeIsIdle DEF IInv, Raised, Holding
  <2> QED BY <1>3, <2>1 DEF IInv, Backed, Backs, Phases, Collection
<1>0. sharedAlpha \in Int /\ iter.alpha \in Int /\ iter.beta \in Int /\ S \in Int
  BY <1>1, Bounds DEF IInv
<1>6. sharedAlpha < iter.beta
  <2>1. ASSUME NEW k \in Moves, own[k].score = sharedAlpha PROVE sharedAlpha <= S
    BY <1>2, <2>1
  <2>2. iter.alpha < sharedAlpha => sharedAlpha <= S
    BY <1>5, <2>1
  <2> HIDE DEF S
  <2> QED BY <1>0, <1>3, <1>4, <2>2
<1>7. \A n \in Moves : /\ value[n] <= own[n].score
                       /\ own[n].score > sharedAlpha \/ (own[n].exact /\ own[n].score > iter.alpha)
                            => own[n].score = value[n]
  <2> SUFFICES ASSUME NEW n \in Moves
               PROVE  /\ value[n] <= own[n].score
                      /\ own[n].score > sharedAlpha \/ (own[n].exact /\ own[n].score > iter.alpha)
                           => own[n].score = value[n]
    OBVIOUS
  <2>1. SoundAt(n, own[n])
    BY DEF IInv, Listed, Phases, Collection
  <2>2. own[n].score < iter.beta
    BY <1>1, <1>2, <1>4, Bounds DEF IInv
  <2> QED BY <1>6, <2>1, <2>2 DEF SoundAt, Sound
<1>8. S = value[m]
  <2>1. CASE S > sharedAlpha
    BY <1>7, <2>1
  <2>2. CASE ~(S > sharedAlpha)
    <3>1. PICK k \in Moves : own[k].score = sharedAlpha /\ own[k].exact
      <4>1. iter.alpha < sharedAlpha
        <5> HIDE DEF S
        <5> QED BY <1>0, <1>4, <2>2
      <4> QED BY <1>5, <1>6, <4>1
    <3>2. S = own[k].score
      BY <1>1, <1>2, <2>2, <3>1, Bounds DEF IInv
    <3>3. own[m].exact
      BY <1>1, <3>1, <3>2 DEF IsMerged, Beats
    <3> QED BY <1>4, <1>7, <3>3
  <2> QED BY <2>1, <2>2
<1>9. ASSUME NEW n \in Moves PROVE value[n] <= value[m]
  <2>1. value[n] <= own[n].score /\ own[n].score <= value[m]
    BY <1>2, <1>7, <1>8
  <2>2. value[n] \in Int /\ value[m] \in Int /\ own[n].score \in Int
    BY <1>1, Bounds DEF IInv, Scores
  <2> QED BY <2>1, <2>2
<1> QED BY <1>8, <1>9

\* With the principal variation search the engine has by default, however many threads
\* work on it and however they fail or stop, the search settles, depth by depth, on a move
\* no other root move beats, and it never answers after a failed inference (search.rs).
THEOREM Deepening == ASSUME Pvs PROVE Spec => ImplementsDeepening
<1>1. Init => Abstract!Init
  BY DEF Init, Abstract!Init, Abstract!NoBest
<1>2. ASSUME IInv, Next PROVE [Abstract!Next]_(Abstract!vars)
  <2>1. CASE Accept
    <3>1. PICK m \in Moves : /\ IsMerged(m) /\ ~FailsLow(m) /\ ~FailsHigh(m)
                             /\ best' = [move |-> m, score |-> own[m].score]
      BY <2>1 DEF Accept
    <3>2. own[m].score = value[m] /\ \A n \in Moves : value[n] <= value[m]
      BY <1>2, <2>1, <3>1, MergedIsBest DEF Accept, At
    <3>3. outcome = "running"
      BY <1>2, <2>1 DEF Accept, At, IInv, Failing
    <3>4. value' \in [Moves -> Scores]
      BY <1>2, <2>1 DEF Accept, IInv, Typed, DataTyped
    <3>5. depth' = depth + 1 /\ UNCHANGED <<failed, outcome>>
      BY <2>1 DEF Accept, signals
    <3> QED BY <3>1, <3>2, <3>3, <3>4, <3>5 DEF Abstract!Next, Abstract!Complete
  <2>2. CASE Return
    <3>1. outcome = "running" /\ UNCHANGED <<value, depth, best, failed>>
      BY <1>2, <2>2 DEF Return, At, IInv, Failing, signals
    <3>2. outcome' \in {"answered", "error", "panicked"}
      BY <2>2 DEF Return
    <3>3. ASSUME outcome' = "answered" PROVE ~failed
      <4>1. ~evalFailed /\ term \notin {"error", "panic"}
        BY <2>2, <3>3 DEF Return
      <4>2. \A h \in Helpers : pc[h] \in {"unborn", "gone"}
        BY <2>2 DEF Return, Joined
      <4> QED BY <1>2, <4>1, <4>2 DEF IInv, Failing
    <3> QED BY <3>1, <3>2, <3>3 DEF Abstract!Next, Abstract!Return
  <2>3. CASE ~Accept /\ ~Return
    <3>1. UNCHANGED <<value, depth, best, outcome>>
      BY <1>2, <2>3, Frames DEF Frame
    <3>2. failed' # failed => failed' = TRUE /\ outcome = "running"
      BY <1>2, Frames DEF Frame, IInv, Failing, Joined
    <3> QED BY <3>1, <3>2 DEF Abstract!Next, Abstract!InferenceFails, Abstract!vars
  <2> QED BY <2>1, <2>2, <2>3
<1>3. UNCHANGED vars => UNCHANGED Abstract!vars
  BY DEF vars, Abstract!vars
<1>4. IInv /\ [Next]_vars => [Abstract!Next]_(Abstract!vars)
  BY <1>2, <1>3
<1> QED BY <1>1, <1>4, InvariantHolds, PTL DEF Spec, ImplementsDeepening, Abstract!Spec
=============================================================================

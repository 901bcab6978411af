---------------------------- MODULE TrainingData ----------------------------
(***************************************************************************)
(* The data of a training, from the acquired game records to the examples  *)
(* of a load: normalization (data/normalize.py, data/splits.py), the       *)
(* selection of the positions a teacher labels (labeling/selection.py),    *)
(* the evidence of a self-play generation and its replay buffer            *)
(* (selfplay/starts.py, derivation.py, evidence.py), and the strict join   *)
(* of all of it (models/dataset.py).  Each stage is a pure function of     *)
(* files the stages before it left; what is chosen freely is what hashes,  *)
(* engines and seeds decide.  A position stands for its canonical state:   *)
(* board, side and hands.                                                  *)
(***************************************************************************)
EXTENDS Naturals, FiniteSets, Sequences, SequencesExt, FiniteSetsExt

CONSTANTS
    Record,         \* the positions of each canonical game, a function on games
    Decided,        \* games whose outcome is known
    Archives,       \* acquisitions: sequences of <<raw object, game, Corrupt or Rejected>>
    Initial,        \* the standard initial position
    TerminalTail,   \* terminal_tail_positions
    MaxGames, MaxPositions,         \* caps of a normalization
    MaxLabels, MaxPerGame,          \* caps of a selection
    TeacherLabelLimit,              \* teacher_label_limit
    Capacity, MinimumOlder,         \* of the replay buffer
    HardPriorities,                 \* sums of reason weights
    MaxPlies,       \* bound: positions of one self-play game
    MaxSelections   \* bound: label files made

Games == DOMAIN Record
Positions == UNION {ToSet(Record[g]) : g \in Games}
\* What reading and adapting a raw object can give instead of a game.
Corrupt == "corrupt"
Rejected == "rejected"
\* What stands for a file that is not there.
NoEvidence == [labels |-> {}, rows |-> {}]
NoReplay == [labels |-> {}, entries |-> {}, retained |-> {}]
NoFiles == [labels |-> {}, replay |-> NoReplay]
NoTraining == [files |-> NoFiles, examples |-> {}]

Splits == {"train", "validation", "test"}
SplitPriority == [train |-> 0, validation |-> 1, test |-> 2]
\* The split of a canonical game is a salted hash of it.
AssignGameSplit == [Games -> Splits]

VARIABLES
    archive,    \* what was acquired
    splitOf,    \* the hash
    dataset,    \* the position rows published, {} before
    labels,     \* the teacher's labels, {} before
    selections, \* how many label files there were
    evidence,   \* of the self-play generation
    replay,     \* its replay buffer
    trained,    \* the files and examples of the training
    tested      \* the examples of its test

dataVars == <<archive, splitOf, dataset, labels, selections, evidence, replay, trained, tested>>

DataInit ==
    /\ archive \in Archives
    /\ splitOf \in AssignGameSplit
    /\ dataset = {}
    /\ labels = {}
    /\ selections = 0
    /\ evidence = NoEvidence
    /\ replay = NoReplay
    /\ trained = NoTraining
    /\ tested = {}
-----------------------------------------------------------------------------
(* normalize_aobazero_dataset                                              *)

\* One record at a time: a game the adapter rejects counts as verified, an
\* object whose bytes are not those acquired does not.
StageRecord(acc, record) ==
    IF acc.verified >= MaxGames \/ record[2] = Corrupt \/ record[1] \in acc.seen THEN acc
    ELSE [seen     |-> acc.seen \cup {record[1]},
          verified |-> acc.verified + 1,
          staged   |-> IF record[2] = Rejected THEN acc.staged
                       ELSE Append(acc.staged, record[2])]
StageCandidates ==
    FoldLeft(StageRecord, [seen |-> {}, verified |-> 0, staged |-> <<>>], archive).staged

\* A game that would cross the cap closes the dataset for all games after it.
AssembleGame(acc, game) ==
    IF game \in acc.seen THEN acc
    ELSE LET crosses == acc.full \/ acc.size + Len(Record[game]) > MaxPositions
         IN  [seen  |-> acc.seen \cup {game},
              full  |-> crosses,
              size  |-> IF crosses THEN acc.size ELSE acc.size + Len(Record[game]),
              games |-> IF crosses THEN acc.games ELSE acc.games \cup {game}]
AssembledGames ==
    FoldLeft(AssembleGame, [seen |-> {}, full |-> FALSE, size |-> 0, games |-> {}],
             StageCandidates).games

\* The last position and the tail before it are never eligible.
Row(game, i) ==
    [game     |-> game,
     index    |-> i,
     state    |-> Record[game][i],
     split    |-> splitOf[game],
     eligible |-> i + TerminalTail < Len(Record[game])]
RowsOf(game) == {Row(game, i) : i \in DOMAIN Record[game]}

Normalize ==
    /\ dataset = {}
    /\ AssembledGames # {}
    /\ dataset' = UNION {RowsOf(g) : g \in AssembledGames}
    /\ UNCHANGED <<archive, splitOf, labels, selections, evidence, replay, trained, tested>>
-----------------------------------------------------------------------------
(* select_positions, and the label run that labels the whole selection     *)

Eligible == {r \in dataset : r.eligible}
Precedes(split, other) == SplitPriority[split] >= SplitPriority[other]
\* The rows that can stand for a state: which of them does is a hash's choice.
IsWinner(r) == \A o \in Eligible : o.state = r.state => Precedes(r.split, o.split)

Stage(r) == (3 * (r.index - 1)) \div (Len(Record[r.game]) - 1)
Lane(r) == <<r.split, Stage(r)>>
FromGame(chosen, game) == {r \in chosen : r.game = game}
\* Lanes take turns; one only stays behind when its games are used up.
TakesTurns(winners, chosen) ==
    \A skipped \in winners \ chosen, taken \in chosen :
        \/ Cardinality(FromGame(chosen, skipped.game)) >= MaxPerGame
        \/ Cardinality({r \in chosen : Lane(r) = Lane(taken)})
              <= Cardinality({r \in chosen : Lane(r) = Lane(skipped)}) + 1
IsFull(winners, chosen) ==
    \/ Cardinality(chosen) = MaxLabels
    \/ \A r \in winners \ chosen : Cardinality(FromGame(chosen, r.game)) >= MaxPerGame
IsSelection(winners, chosen) ==
    /\ chosen # {}
    /\ Cardinality(chosen) <= MaxLabels
    /\ \A g \in Games : Cardinality(FromGame(chosen, g)) <= MaxPerGame
    /\ TakesTurns(winners, chosen)
    /\ IsFull(winners, chosen)

OnePerState(winners) ==
    \A r, o \in winners : r.state = o.state => r = o
SelectPositions ==
    /\ dataset # {}
    /\ selections < MaxSelections
    /\ \E winners \in SUBSET {r \in Eligible : IsWinner(r)} :
          /\ OnePerState(winners)
          /\ \A r \in Eligible : \E w \in winners : w.state = r.state
          /\ \E chosen \in SUBSET winners :
                /\ IsSelection(winners, chosen)
                /\ labels' = chosen
    /\ selections' = selections + 1
    /\ UNCHANGED <<archive, splitOf, dataset, evidence, replay, trained, tested>>
-----------------------------------------------------------------------------
(* build_start_positions_from_phase3, the games, build_position_evidence   *)

SplitsOf(state) == {r.split : r \in {e \in Eligible : e.state = state}}
SafeStarts == {state \in Positions : SplitsOf(state) = {"train"}}
\* A state the teacher labelled outside of train is left out of the games.
Protected == {l.state : l \in {r \in labels : r.split # "train"}}

SelfplayRows(visited, known) ==
    {[state |-> s, split |-> "train", game |-> "selfplay", new |-> TRUE, known |-> known] :
        s \in visited \ Protected}
TeacherRows ==
    {[state |-> l.state, split |-> l.split, game |-> l.game, new |-> FALSE,
      known |-> l.game \in Decided] : l \in labels}

Starts == SafeStarts \cup {Initial}
PlayGeneration ==
    /\ labels # {}
    /\ evidence = NoEvidence
    /\ \E start \in Starts, known \in BOOLEAN :
       \E visited \in UNION {kSubset(n, Positions) : n \in 1..MaxPlies} :
          /\ start \in visited
          /\ evidence' = [labels |-> labels,
                          rows |-> TeacherRows \cup SelfplayRows(visited, known)]
    /\ UNCHANGED <<archive, splitOf, dataset, labels, selections, replay, trained, tested>>
-----------------------------------------------------------------------------
(* extract_hard_positions, build_replay_candidates,                        *)
(* build_replay_buffer_manifest                                            *)

HardCandidates == {r.state : r \in {e \in evidence.rows : e.split # "test"}}
Unlabelled(hard) == hard \ {l.state : l \in evidence.labels}
WithinBudget(hard) ==
    Cardinality(Unlabelled(hard)) <= TeacherLabelLimit - Cardinality(evidence.labels)
BasePriority(r) == IF r.new THEN 100 ELSE 30
Higher(a, b) == IF a >= b THEN a ELSE b
Candidate(r, hard, p) ==
    [state |-> r.state, split |-> r.split, game |-> r.game, new |-> r.new,
     priority |-> IF r.state \in hard THEN Higher(BasePriority(r), p) ELSE BasePriority(r)]
Candidates(hard, p) == {Candidate(r, hard, p) : r \in {e \in evidence.rows : e.known}}

\* One entry for a state: the first of its candidates, and the best of each.
Entry(group) ==
    LET top == Max({c.priority : c \in group})
    IN  [state |-> (CHOOSE c \in group : TRUE).state,
         split |-> (CHOOSE c \in group : TRUE).split,
         game  |-> (CHOOSE c \in group : c.priority = top /\
                        (c.new \/ \A d \in group : d.priority = top => ~d.new)).game,
         priority |-> top,
         new   |-> \E c \in group : c.new]
Entries(candidates) ==
    {Entry({c \in candidates : c.state = s}) : s \in {c.state : c \in candidates}}

Ahead(a, b) ==
    \/ a.priority > b.priority
    \/ /\ a.priority = b.priority
       /\ \/ a.new /\ ~b.new
          \/ a.new = b.new /\ a.state < b.state
First(n, entries) == {e \in entries : Cardinality({f \in entries : Ahead(f, e)}) < n}
Older(entries) == {e \in entries : ~e.new}
Retained(entries) ==
    LET reserve == First(IF MinimumOlder <= Capacity THEN MinimumOlder ELSE Capacity, Older(entries))
    IN  reserve \cup First(Capacity - Cardinality(reserve), entries \ reserve)

OneSplitPerState(rows) == \A r, o \in rows : r.state = o.state => r.split = o.split
BuildReplay ==
    /\ evidence # NoEvidence
    /\ replay = NoReplay
    /\ \E hard \in SUBSET HardCandidates, p \in HardPriorities :
          LET candidates == Candidates(hard, p)
          IN  /\ WithinBudget(hard)
              /\ OneSplitPerState(candidates)
              /\ replay' = [labels   |-> evidence.labels,
                            entries  |-> Entries(candidates),
                            retained |-> Retained(Entries(candidates))]
    /\ UNCHANGED <<archive, splitOf, dataset, labels, selections, evidence, trained, tested>>
-----------------------------------------------------------------------------
(* _load_training_examples                                                 *)

HighestSplit(splits) == CHOOSE s \in splits : \A o \in splits : SplitPriority[s] >= SplitPriority[o]
JoinsPositions(l) ==
    /\ l \in dataset
    /\ l.eligible
    /\ l.split = HighestSplit(SplitsOf(l.state))
GamesStayInOneSplit == \A r, o \in dataset : r.game = o.game => r.split = o.split
TeacherExamples == {[kind |-> "teacher", state |-> l.state, game |-> l.game, split |-> l.split] : l \in labels}
ReplayExamples(includeTest) ==
    IF replay = NoReplay THEN {}
    ELSE {[kind |-> "replay", state |-> e.state, game |-> e.game, split |-> e.split] :
             e \in {x \in replay.retained : includeTest \/ x.split # "test"}}
Examples(includeTest) == TeacherExamples \cup ReplayExamples(includeTest)

\* Bug: the states of labels and replay are not compared.
ExposesNothing_PerSource(examples) ==
    \A x, y \in examples : x.kind = y.kind /\ x.state = y.state => x.split = y.split
ExposesNothing(examples) ==
    /\ OneSplitPerState(examples)
    /\ \A x, y \in examples : x.kind = y.kind /\ x.game = y.game => x.split = y.split
Accepts(includeTest) ==
    /\ OnePerState(labels)
    /\ GamesStayInOneSplit
    /\ \A l \in labels : JoinsPositions(l)
    /\ ExposesNothing(Examples(includeTest))

OfSplit(examples, split) == {x \in examples : x.split = split}
Files == [labels |-> labels, replay |-> replay]
\* The identities of a checkpoint are compared with the files of its test.
Train ==
    /\ labels # {}
    /\ trained = NoTraining
    /\ Accepts(FALSE)
    /\ OfSplit(Examples(FALSE), "train") # {}
    /\ trained' = [files |-> Files, examples |-> Examples(FALSE)]
    /\ UNCHANGED <<archive, splitOf, dataset, labels, selections, evidence, replay, tested>>
Test ==
    /\ trained # NoTraining
    /\ tested = {}
    /\ trained.files = Files
    /\ Accepts(TRUE)
    /\ tested' = OfSplit(Examples(TRUE), "test")
    /\ tested' # {}
    /\ UNCHANGED <<archive, splitOf, dataset, labels, selections, evidence, replay, trained>>

DataNext ==
    \/ Normalize
    \/ SelectPositions
    \/ PlayGeneration
    \/ BuildReplay
    \/ Train
    \/ Test
DataSpec == DataInit /\ [][DataNext]_dataVars
-----------------------------------------------------------------------------
(* What a training saw in train is not held out by what it was loaded      *)
(* from: not by another example of the load, not by the test that reads    *)
(* more of the replay buffer than the training did, and not by a label     *)
(* whose position is of the test split in any game, whichever way train    *)
(* reaches it.  A position without a label is not spoken of.               *)
StatesIn(examples, splits) == {x.state : x \in {e \in examples : e.split \in splits}}
HeldOut == {"validation", "test"}
NothingLeaks ==
    trained # NoTraining =>
        LET learned == StatesIn(trained.examples, {"train"})
        IN  /\ learned \cap StatesIn(trained.examples, HeldOut) = {}
            /\ tested # {} => learned \cap StatesIn(tested, {"test"}) = {}
            /\ \A l \in trained.files.labels :
                  "test" \in SplitsOf(l.state) => l.state \notin learned

(* What the policy of the data says (docs/data/handling.md, "Partitioning  *)
(* and semantics"): no collision brings a position of a held-out split     *)
(* into train, labelled or not.  It does: self-play leaves out positions   *)
(* that were labelled outside of train, and no other (derivation.py,       *)
(* build_position_evidence).                                               *)
HoldoutStaysOut ==
    trained # NoTraining =>
        \A s \in StatesIn(trained.examples, {"train"}) : SplitsOf(s) \cap HeldOut = {}

(* The stages agree: labels selected from a dataset, and a replay buffer   *)
(* made with these labels, are never refused by the load of a training or  *)
(* of its test, and evidence is never refused by the replay buffer.        *)
ProducedIsAccepted ==
    /\ labels # {} /\ (replay = NoReplay \/ replay.labels = labels) =>
          Accepts(FALSE) /\ Accepts(TRUE)
    /\ evidence # NoEvidence => OneSplitPerState(evidence.rows)

(* A full replay buffer keeps its reserve of older positions, and within   *)
(* an age only lower-ranked positions are evicted.                         *)
ReplayKeepsOld ==
    replay # NoReplay =>
        LET kept == replay.retained
            all == replay.entries
            reserve == Min({MinimumOlder, Capacity, Cardinality(Older(all))})
        IN  /\ Cardinality(kept) = Min({Capacity, Cardinality(all)})
            /\ Cardinality(Older(kept)) >= reserve
            /\ \A e \in all \ kept, k \in kept : Ahead(e, k) => k \in Older(kept) /\ e.new
=============================================================================

----------------------------- MODULE C4Dataset -----------------------------
(***************************************************************************)
(* The datasets of the C4 generations (r4_c4_data.py, build): every        *)
(* position has one owner in an index that outlives the generations, and   *)
(* only the owner's split may use it.  A generation's games enter the      *)
(* index in one transaction; the dataset is then written beside its place  *)
(* and renamed into it.  The process may be killed in between and builds   *)
(* the dataset again.                                                      *)
(*                                                                         *)
(* A position stands for its symmetry class; its label is the strength of  *)
(* the search that gave it.  The splits that are not trained on are one.   *)
(***************************************************************************)
EXTENDS Naturals, Sequences, SequencesExt

CONSTANTS
    Positions,
    PlannedGames,   \* spec.games of each generation, a sequence
    Ancestors,      \* the rows of the replay dataset: [position |-> split or "none"]
    Guarded,        \* positions of the guard file and of the exclusions
    MaxKills        \* bound: kills of the process

Generations == 1..Len(PlannedGames)
Splits == {"train", "test"}

VARIABLES
    games,    \* the finished games of every generation
    index,    \* position-index.sqlite3: whether its base is in, and the owners
    staged,   \* dataset-building/rows.sqlite3
    dataset,  \* dataset/ of every generation
    start,    \* confirmation/starts.json
    proc,     \* the process and the generation it builds
    kills

vars == <<games, index, staged, dataset, start, proc, kills>>

Unowned == [split |-> "none", gen |-> 0]
NoRow == [split |-> "none", strong |-> FALSE, novel |-> FALSE]
Nothing == [p \in Positions |-> NoRow]
Unbuilt == [made |-> FALSE, rows |-> Nothing]
NoStart == [made |-> FALSE, at |-> {}]

\* What a game does with one of its positions; each position of a longer game
\* goes through the index on its own.
Games == [split : Splits, at : Positions, label : {"none", "broad", "strong"}]

Init ==
    /\ games = [g \in Generations |-> <<>>]
    /\ index = [based |-> FALSE, owner |-> [p \in Positions |-> Unowned]]
    /\ staged = Nothing
    /\ dataset = [g \in Generations |-> Unbuilt]
    /\ start = NoStart
    /\ proc = [pc |-> "play", gen |-> 1] /\ kills = 0

Go(pc) == proc' = [proc EXCEPT !.pc = pc]

\* generate: shards once written stay.
Play ==
    /\ proc.pc = "play"
    /\ LET g == proc.gen
       IN IF Len(games[g]) = PlannedGames[g] THEN Go("base") /\ UNCHANGED games
          ELSE /\ \E game \in Games : games' = [games EXCEPT ![g] = Append(@, game)]
               /\ UNCHANGED proc
    /\ UNCHANGED <<index, staged, dataset, start, kills>>

\* A dataset that is there is verified and used.
Reuse ==
    /\ proc.pc = "base" /\ dataset[proc.gen].made
    /\ Go("built")
    /\ UNCHANGED <<games, index, staged, dataset, start, kills>>

\* The first build takes the ancestors and what is guarded into the index.
Base ==
    /\ proc.pc = "base" /\ ~dataset[proc.gen].made
    /\ index' = IF index.based THEN index
                ELSE [based |-> TRUE,
                      owner |-> [p \in Positions |->
                          IF p \in Guarded THEN [split |-> "blocked", gen |-> 0]
                          ELSE [split |-> Ancestors[p], gen |-> 0]]]
    /\ staged' = Nothing
    /\ Go("enter")
    /\ UNCHANGED <<games, dataset, start, kills>>

\* Bug: a position seen without a label is not remembered.
Owned_LabelledOnly(owner, game, g) ==
    IF owner[game.at] = Unowned /\ game.label # "none"
    THEN [owner EXCEPT ![game.at] = [split |-> game.split, gen |-> g]] ELSE owner

\* The first game that meets a position owns it, labelled or not.
Owned(owner, game, g) ==
    IF owner[game.at] = Unowned
    THEN [owner EXCEPT ![game.at] = [split |-> game.split, gen |-> g]] ELSE owner

\* A row of another split's position is left out, and of two rows of one
\* position the strong one is kept.
Entered(rows, owner, game, g) ==
    LET p == game.at
    IN IF game.label = "none" \/ owner[p].split # game.split \/ rows[p].strong
          \/ (rows[p] # NoRow /\ game.label = "broad")
       THEN rows
       ELSE [rows EXCEPT ![p] = [split |-> game.split, strong |-> game.label = "strong",
                                 novel |-> owner[p].gen = g]]

\* One transaction over all the games of the generation.
Enter ==
    /\ proc.pc = "enter"
    /\ LET g == proc.gen
           Take(acc, game) ==
               LET owner == Owned(acc.owner, game, g)
               IN [owner |-> owner, rows |-> Entered(acc.rows, owner, game, g)]
           all == FoldLeft(Take, [owner |-> index.owner, rows |-> Nothing], games[g])
       IN index' = [index EXCEPT !.owner = all.owner] /\ staged' = all.rows
    /\ Go("write")
    /\ UNCHANGED <<games, dataset, start, kills>>

\* The rows of the replay dataset, and those earlier generations trained on.
Replayed(p) ==
    IF Ancestors[p] # "none" THEN [NoRow EXCEPT !.split = Ancestors[p]]
    ELSE IF \E g \in 1..(proc.gen - 1) : dataset[g].rows[p].split = "train"
         THEN [NoRow EXCEPT !.split = "train"] ELSE NoRow

\* Historical rows only as far as their split owns the position.
Selected(p) ==
    IF staged[p] # NoRow THEN staged[p]
    ELSE IF Replayed(p).split = index.owner[p].split THEN Replayed(p) ELSE NoRow

\* The finished directory is renamed into its place.
Publish ==
    /\ proc.pc = "write"
    /\ dataset' = [dataset EXCEPT ![proc.gen] =
                      [made |-> TRUE, rows |-> [p \in Positions |-> Selected(p)]]]
    /\ Go("built")
    /\ UNCHANGED <<games, index, staged, start, kills>>

NextGeneration ==
    /\ proc.pc = "built"
    /\ proc' = IF proc.gen < Len(PlannedGames)
               THEN [pc |-> "play", gen |-> proc.gen + 1]
               ELSE [proc EXCEPT !.pc = "confirm"]
    /\ UNCHANGED <<games, index, staged, dataset, start, kills>>

\* confirmation_starts: positions of games of their own that nobody owns.
Confirm ==
    /\ proc.pc = "confirm" /\ ~start.made
    /\ start' = [made |-> TRUE, at |-> {p \in Positions : index.owner[p] = Unowned}]
    /\ UNCHANGED <<games, index, staged, dataset, proc, kills>>

\* Killed and run again from the first generation.
Kill ==
    /\ kills < MaxKills /\ ~start.made /\ kills' = kills + 1
    /\ proc' = [pc |-> "play", gen |-> 1]
    /\ UNCHANGED <<games, index, staged, dataset, start>>

Next == Play \/ Reuse \/ Base \/ Enter \/ Publish \/ NextGeneration \/ Confirm \/ Kill

Spec == Init /\ [][Next]_vars

-----------------------------------------------------------------------------
\* The games of all generations in the order they were played.
Meets(game, p) == p = game.at
MetBefore(g, i, p) ==
    \E h \in Generations : \E j \in DOMAIN games[h] :
        (h < g \/ (h = g /\ j < i)) /\ Meets(games[h][j], p)
FirstMet(g, i, p) == Meets(games[g][i], p) /\ ~MetBefore(g, i, p)

(* No position is in a split that its first game, or the history before    *)
(* all games, did not give it to; so none is trained on in one generation  *)
(* and tested in another.                                                  *)
NothingCrosses ==
    \A g \in Generations, p \in Positions :
        LET s == dataset[g].rows[p].split
        IN s # "none" =>
              /\ p \notin Guarded
              /\ IF Ancestors[p] # "none" THEN s = Ancestors[p]
                 ELSE \E h \in 1..g : \E i \in DOMAIN games[h] :
                         FirstMet(h, i, p) /\ games[h][i].split = s

(* What counts as new was met by no earlier generation, whether or not the *)
(* generation was built twice; and no strong label gives way to a broad    *)
(* one.                                                                    *)
NoveltyIsTrue ==
    \A g \in Generations, p \in Positions :
        LET r == dataset[g].rows[p]
            allowed == {i \in DOMAIN games[g] :
                           /\ Meets(games[g][i], p) /\ games[g][i].label # "none"
                           /\ games[g][i].split = r.split}
        IN r # NoRow =>
              /\ r.novel = (/\ allowed # {} /\ Ancestors[p] = "none"
                            /\ \A h \in 1..(g - 1) : \A j \in DOMAIN games[h] :
                                  ~Meets(games[h][j], p))
              /\ r.strong = (\E i \in allowed : games[g][i].label = "strong")

(* A confirmation starts where no generation was.                          *)
ConfirmationIsNovel ==
    \A p \in start.at :
        /\ p \notin Guarded /\ Ancestors[p] = "none"
        /\ \A g \in Generations : \A i \in DOMAIN games[g] : ~Meets(games[g][i], p)

\* The variables keep their types and bounds.
TypeOK ==
    /\ proc.gen \in Generations /\ kills \in 0..MaxKills
    /\ \A p \in Positions : index.owner[p].split \in Splits \cup {"none", "blocked"}

\* The datasets of a run agree with each other over kills: splits, novelty, confirmation.
DatasetsAreSound == TypeOK /\ NothingCrosses /\ NoveltyIsTrue /\ ConfirmationIsNovel
=============================================================================

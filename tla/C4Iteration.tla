---------------------------- MODULE C4Iteration ----------------------------
(***************************************************************************)
(* The generations of a C4 run (r4_c4.py): each one lets the current actor *)
(* play, labels its games, fits a candidate, audits it and plays it        *)
(* against the actor; a candidate that passes becomes the next actor.      *)
(* execute always begins at the beginning and finds its way by the files   *)
(* it left: it may be stopped or killed at any point and run again.        *)
(*                                                                         *)
(* Folder 0 is the bootstrap, folder i generation i.  Model 0 is the       *)
(* initial one and model i + 1 the candidate fitted in folder i.           *)
(***************************************************************************)
EXTENDS Naturals, Sequences

CONSTANTS
    MinGenerations, MaxGenerations,   \* iteration.minimum/maximum_generations
    Baselines,                        \* the final comparisons
    MaxStops                          \* bound: stops and kills of one behaviour

\* A run has a generation at least, and no minimum it may not reach.
ASSUME IterationAssumption ==
    /\ MinGenerations \in Nat /\ MaxGenerations \in Nat /\ MaxStops \in Nat
    /\ 1 <= MinGenerations /\ MinGenerations <= MaxGenerations

VARIABLES
    spec,          \* spec.json of each folder
    data,          \* trajectories and dataset: how many new labels there are
    model,         \* fit: whether the candidate differs from its initial model
    evidence,      \* audit, groups.json and arena.json of each generation
    decision,      \* decision.json of each generation
    selection,     \* selection.json
    confirmation,  \* starts.json or missing.json
    finals,        \* the final comparisons that were played
    result,        \* c4-result.json
    run,           \* execute: where it is and its local variables
    stop, stops

files == <<spec, data, model, evidence, decision, selection, confirmation, finals, result>>
iterationVars == <<files, run, stop, stops>>

Folders == 0..MaxGenerations
Initial == 0
Candidate(i) == i + 1
NoSpec == [actor |-> 0, initial |-> 0, stagnation |-> 0, bound |-> FALSE]
NoDecision == [made |-> FALSE, updated |-> FALSE, actor |-> 0, trained |-> 0,
               stagnation |-> 0, branch |-> "normal", rich |-> FALSE]
NoFit == [made |-> FALSE, differs |-> FALSE, lowered |-> FALSE]
NoSelection == [made |-> FALSE, candidate |-> 0, generations |-> 0]

\* What an arena can end with: scores and bounds above the reviewed thresholds
\* in a clean complete match, the same in one that was cut short or had an
\* adverse attempt, or scores below them.
Arenas == {"won", "spoilt", "lost"}
NoEvidence == [audit |-> FALSE, groups |-> "none", arena |-> "none"]

Down == [pc |-> "down", at |-> 0, actor |-> Initial, start |-> Initial,
         stagnation |-> 0, decisions |-> <<>>]

IterationInit ==
    /\ spec = [i \in Folders |-> NoSpec] /\ data = [i \in Folders |-> "none"]
    /\ model = [i \in Folders |-> NoFit] /\ evidence = [i \in Folders |-> NoEvidence]
    /\ decision = [i \in Folders |-> NoDecision]
    /\ selection = NoSelection /\ confirmation = "none" /\ finals = {} /\ result = FALSE
    /\ run = Down /\ stop = FALSE /\ stops = 0

Go(pc) == run' = [run EXCEPT !.pc = pc]
i0 == run.at

\* execute, from the top; resume clears STOP.
Launch ==
    /\ run.pc = "down" /\ ~result
    /\ run' = [Down EXCEPT !.pc = "spec"] /\ stop' = FALSE
    /\ UNCHANGED <<files, stops>>

\* bind: a file that exists must be the one that would be written.
SpecOf(i) ==
    IF i = 0 THEN [NoSpec EXCEPT !.bound = TRUE]
    ELSE [actor |-> run.actor, initial |-> run.start,
          stagnation |-> run.stagnation, bound |-> TRUE]

BindSpec ==
    /\ run.pc = "spec" /\ ~(stop /\ i0 > 0)
    /\ IF spec[i0] \in {NoSpec, SpecOf(i0)}
       THEN /\ spec' = [spec EXCEPT ![i0] = SpecOf(i0)]
            /\ Go(IF decision[i0].made THEN "take" ELSE "games")
       ELSE UNCHANGED spec /\ Go("failed")
    /\ UNCHANGED <<data, model, evidence, decision, selection, confirmation,
                   finals, result, stop, stops>>

\* generate and build: finished games and a finished dataset are kept.
PlayAndLabel ==
    /\ run.pc = "games" /\ ~stop
    /\ \E labels \in (IF data[i0] = "none" THEN {"rich", "poor"} ELSE {data[i0]}) :
          data' = [data EXCEPT ![i0] = labels]
    /\ Go("fit")
    /\ UNCHANGED <<spec, model, evidence, decision, selection, confirmation,
                   finals, result, stop, stops>>

\* training_config: after two generations without an update the rate is halved.
Lowered(i) == spec[i].stagnation >= 2

\* train and changed: a candidate without a quantized update ends the run.
Fit ==
    /\ run.pc = "fit" /\ ~stop
    /\ \E differs \in (IF model[i0].made THEN {model[i0].differs} ELSE BOOLEAN) :
          model' = [model EXCEPT ![i0] =
                       [made |-> TRUE, differs |-> differs, lowered |-> Lowered(i0)]]
    /\ run' = IF ~model'[i0].differs THEN [run EXCEPT !.pc = "failed"]
              ELSE IF i0 = 0 THEN [run EXCEPT !.pc = "next", !.start = Candidate(0)]
              ELSE [run EXCEPT !.pc = "audit"]
    /\ UNCHANGED <<spec, data, evidence, decision, selection, confirmation,
                   finals, result, stop, stops>>

Audit ==
    /\ run.pc = "audit"
    /\ evidence' = [evidence EXCEPT ![i0].audit = TRUE] /\ Go("groups")
    /\ UNCHANGED <<spec, data, model, decision, selection, confirmation, finals,
                   result, stop, stops>>

\* evaluate_groups of the actor and of the candidate: the same files give the
\* same losses whenever they are computed.
Groups ==
    /\ run.pc = "groups"
    /\ \E g \in (IF evidence[i0].groups = "none" THEN {"preserved", "worse"}
                 ELSE {evidence[i0].groups}) :
          evidence' = [evidence EXCEPT ![i0].groups = g]
    /\ Go("arena")
    /\ UNCHANGED <<spec, data, model, decision, selection, confirmation, finals,
                   result, stop, stops>>

\* compare: an arena that ended is not played again.
Compare ==
    /\ run.pc = "arena" /\ ~stop
    /\ \E a \in (IF evidence[i0].arena = "none" THEN Arenas ELSE {evidence[i0].arena}) :
          evidence' = [evidence EXCEPT ![i0].arena = a]
    /\ Go("decide")
    /\ UNCHANGED <<spec, data, model, decision, selection, confirmation, finals,
                   result, stop, stops>>

Admitted(i) == evidence[i].arena = "won" /\ evidence[i].groups = "preserved"

Transition(i) ==
    LET ok == Admitted(i)
        stagnant == IF ok THEN 0 ELSE run.stagnation + 1
    IN [made |-> TRUE, updated |-> ok, trained |-> Candidate(i),
        actor |-> IF ok THEN Candidate(i) ELSE run.actor,
        stagnation |-> stagnant,
        branch |-> IF stagnant >= 2 THEN "lower" ELSE "normal",
        rich |-> data[i] = "rich"]

Decide ==
    /\ run.pc = "decide"
    /\ decision' = [decision EXCEPT ![i0] = Transition(i0)] /\ Go("take")
    /\ UNCHANGED <<spec, data, model, evidence, selection, confirmation, finals,
                   result, stop, stops>>

\* Bug: every generation is fitted from the bootstrap's model.
Taken_KeepsStart(d) ==
    [run EXCEPT !.pc = "next", !.actor = d.actor, !.stagnation = d.stagnation,
                !.decisions = Append(@, d)]

\* The chain goes on from the decision, fresh or found.
Taken(d) ==
    [run EXCEPT !.pc = "next", !.actor = d.actor, !.stagnation = d.stagnation,
                !.start = d.actor, !.decisions = Append(@, d)]

Take ==
    /\ run.pc = "take" /\ run' = Taken(decision[i0])
    /\ UNCHANGED <<files, stop, stops>>

\* Beyond the minimum only new signal and an actor that still moves go on.
Extends(i) ==
    i <= MinGenerations \/
        LET last == run.decisions[Len(run.decisions)]
        IN last.rich /\ (last.updated \/ last.stagnation < 3)

NextFolder ==
    /\ run.pc = "next"
    /\ run' = IF i0 < MaxGenerations /\ Extends(i0 + 1)
              THEN [run EXCEPT !.pc = "spec", !.at = i0 + 1]
              ELSE [run EXCEPT !.pc = "select"]
    /\ UNCHANGED <<files, stop, stops>>

\* The latest admitted candidate, or the last one.
Selected(ds) ==
    LET updated == {k \in DOMAIN ds : ds[k].updated}
    IN IF updated = {} THEN ds[Len(ds)].trained
       ELSE ds[CHOOSE k \in updated : \A j \in updated : j <= k].trained

Select ==
    /\ run.pc = "select"
    /\ LET s == [made |-> TRUE, candidate |-> Selected(run.decisions),
                 generations |-> Len(run.decisions)]
       IN IF selection \in {NoSelection, s}
          THEN selection' = s /\ Go("confirm") ELSE UNCHANGED selection /\ Go("failed")
    /\ UNCHANGED <<spec, data, model, evidence, decision, confirmation, finals,
                   result, stop, stops>>

\* confirmation_starts: fresh series nobody trained on, or the note that there
\* are too few.
Confirm ==
    /\ run.pc = "confirm" /\ (confirmation = "none" => ~stop)
    /\ \E c \in (IF confirmation = "none" THEN {"starts", "missing"} ELSE {confirmation}) :
          confirmation' = c
    /\ Go("final")
    /\ UNCHANGED <<spec, data, model, evidence, decision, selection, finals,
                   result, stop, stops>>

Final(b) ==
    /\ run.pc = "final" /\ ~stop /\ b \notin finals /\ finals' = finals \union {b}
    /\ UNCHANGED <<spec, data, model, evidence, decision, selection, confirmation,
                   result, run, stop, stops>>

\* register and the report.
Report ==
    /\ run.pc = "final" /\ finals = Baselines
    /\ result' = TRUE /\ Go("down")
    /\ UNCHANGED <<spec, data, model, evidence, decision, selection, confirmation,
                   finals, stop, stops>>

RequestStop ==
    /\ ~stop /\ stops < MaxStops /\ stop' = TRUE /\ stops' = stops + 1
    /\ UNCHANGED <<files, run>>

\* stopped: asked before a folder, a game, an update and a comparison.
Stopped ==
    /\ stop
    /\ \/ run.pc = "spec" /\ i0 > 0
       \/ run.pc \in {"games", "fit", "arena"}
       \/ run.pc = "confirm" /\ confirmation = "none"
       \/ run.pc = "final" /\ finals # Baselines
    /\ run' = Down
    /\ UNCHANGED <<files, stop, stops>>

Kill ==
    /\ run.pc \notin {"down", "failed"} /\ stops < MaxStops /\ stops' = stops + 1
    /\ run' = Down
    /\ UNCHANGED <<files, stop>>

Execute ==
    \/ BindSpec \/ PlayAndLabel \/ Fit \/ Audit \/ Groups \/ Compare \/ Decide
    \/ Take \/ NextFolder \/ Select \/ Confirm \/ Report
    \/ \E b \in Baselines : Final(b)

IterationNext == Launch \/ Execute \/ RequestStop \/ Stopped \/ Kill

IterationSpec == IterationInit /\ [][IterationNext]_iterationVars

-----------------------------------------------------------------------------
Before(i) == IF i = 1 THEN Initial ELSE decision[i - 1].actor
Made(i) == decision[i].made

(* However often it was stopped and run again, the run finds the chain it  *)
(* began: no spec and no selection conflicts with the file on disk.        *)
RestartsAgree ==
    run.pc = "failed" => \E i \in Folders : model[i].made /\ ~model[i].differs

(* Every generation was played by the actor the decision before it named   *)
(* and fitted from that model (the first one from the bootstrap's); a      *)
(* model acts only if an unbroken arena and preserved groups admitted it;  *)
(* the training rate follows the branch the decision announced.            *)
ChainIsUnbroken ==
    \A i \in 1..MaxGenerations :
        /\ spec[i].bound =>
              /\ i > 1 => Made(i - 1)
              /\ spec[i].actor = Before(i)
              /\ spec[i].initial = IF i = 1 THEN Candidate(0) ELSE Before(i)
        /\ Made(i) /\ decision[i].actor # Before(i) =>
              /\ decision[i].actor = Candidate(i)
              /\ evidence[i].arena = "won"
              /\ evidence[i].groups = "preserved"
        /\ i > 1 /\ model[i].made =>
              (model[i].lowered <=> decision[i - 1].branch = "lower")

(* The confirmation and the final comparisons come after the choice, which *)
(* is the model of an actor, or of the last generation where none was ever *)
(* admitted, after at least the minimum number of generations.             *)
FinalsFollowTheChoice ==
    /\ confirmation # "none" \/ finals # {} => selection.made
    /\ selection.made =>
          /\ selection.generations >= MinGenerations
          /\ \A i \in 1..MaxGenerations : Made(i) <=> i <= selection.generations
          /\ selection.candidate =
                LET last == decision[selection.generations]
                IN IF last.actor = Initial THEN last.trained ELSE last.actor
    /\ result => finals = Baselines /\ confirmation # "none"

\* The variables keep their types and bounds.
IterationTypeOK ==
    /\ run.at \in Folders /\ run.actor \in 0..(MaxGenerations + 1)
    /\ data \in [Folders -> {"none", "rich", "poor"}]
    /\ confirmation \in {"none", "starts", "missing"}
    /\ finals \subseteq Baselines /\ result \in BOOLEAN /\ stop \in BOOLEAN
    /\ stops \in 0..MaxStops

\* Files, chain of actors and choice are those of a run without stops and kills.
IterationIsSound == IterationTypeOK /\ RestartsAgree /\ ChainIsUnbroken /\ FinalsFollowTheChoice
=============================================================================

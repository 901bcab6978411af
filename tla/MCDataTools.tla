---- MODULE MCDataTools ----
(***************************************************************************)
(* Small instances of the modules about data, labels and models.  They do  *)
(* not share state: every behaviour is of one part.  The modules with proofs   *)
(* have their own variables here; those of any other part are v1, v2, ...  *)
(* in the order of the INSTANCE.                                           *)
(***************************************************************************)
EXTENDS Naturals, Sequences, TLC, TeacherEngine, PopulationScan, LeakageScan, AtomicArtifacts, ModelTraining, ModelExport

CONSTANTS
    Parts   \* the parts to check

VARIABLES
    part,   \* the part this behaviour is of
    \* the variables of that part; those it does not use stay 0
    v1, v2, v3, v4, v5, v6, v7, v8, v9, v10, v11, v12, v13

all == <<part, v1, v2, v3, v4, v5, v6, v7, v8, v9, v10, v11, v12, v13, teacherVars,
populationVars, scanVars, artifactVars, trainingVars, exportVars>>

\* The games of an archive: a prefix in common, a position in common, and a play
\* met twice, rejected or not read.
GameRecords == [g1 |-> <<1, 2, 3, 4, 7>>, g2 |-> <<1, 2, 5, 6>>, g3 |-> <<1, 5, 3>>]
Archived ==
    {<< <<1, "g1">>, <<2, "g2">>, <<3, "g3">> >>,
     << <<1, "g1">>, <<1, "g1">>, <<2, "g1">>, <<3, "rejected">>, <<5, "corrupt">>,
        <<4, "g2">>, <<6, "g3">> >>}

\* One play twice in a stream, in two streams, and again among the protected.
Played == {<<1, 2, 3>>, <<1, 4, 3>>, <<1, 2, 5>>}
Populated ==
    {<<p>> \o games : p \in Played, games \in
        {<<<<1, 2, 3>>, <<1, 2, 3>>, <<1, 4, 3>>, <<1, 2, 5>>>>,
         <<<<1, 4, 3>>, <<1, 2, 5>>, <<1, 2, 3>>, <<1, 2, 3>>>>,
         <<<<1, 2, 3>>, <<1, 4, 3>>, <<1, 2, 5>>, <<1, 4, 3>>>>}}
Hashed ==
    {<<1, 2, 3>> :> n @@ <<1, 4, 3>> :> (n % 3) + 1 @@ <<1, 2, 5>> :> ((n + 1) % 3) + 1 :
        n \in 1..3}

\* What can be read of three artifacts: a game in two splits, a game in two
\* artifacts, a row without its key.
Game(record, positions, legacy) ==
    [record |-> record, positions |-> positions, legacy |-> legacy, keyed |-> TRUE]
Exports == <<
    {<<Game("r1", {1, 2}, "train"), Game("r2", {3}, "test")>>,
     <<Game("r1", {1, 2}, "train"), Game("r2", {1}, "test")>>},
    {<<Game("r3", {4}, "train"), Game("r4", {5}, "train"), Game("r5", {6}, "train")>>,
     <<[Game("r3", {4}, "train") EXCEPT !.keyed = FALSE], Game("r4", {5}, "train")>>},
    {<<Game("r6", {7}, "train")>>, <<Game("r5", {6}, "train")>>, <<Game("r7", {4}, "train")>>}>>
ArtifactSources == <<"aobazero", "floodgate", "wcsc">>

\* The stream of each record, and what stays fixed while another part runs.
RecordStreams == <<1, 2, 2, 3, 3>>
IsSettled ==
    /\ plays = CHOOSE p \in Populations : TRUE
    /\ hash = CHOOSE h \in Hashes : TRUE
    /\ fixed = [r \in GuardedRecords |-> "train"]
    /\ accepted = [rev \in Revisions |-> Records]

LR == INSTANCE LabelRun WITH
    Commands <- {"c1", "c2"}, Selected <- 3, Inputs <- {"i1", "i2"},
    MaxQuarantined <- 2, ManifestInterval <- 2, MaxFaults <- 2,
    labels <- v1, quarantine <- v2, torn <- v3, manifest <- v4, evidence <- v5,
    command <- v6, benchmarks <- v7, mishaps <- v8

TD == INSTANCE TrainingData WITH
    Record <- GameRecords, Decided <- {"g1", "g3"}, Archives <- Archived,
    Initial <- 1, TerminalTail <- 1, MaxGames <- 4, MaxPositions <- 9,
    MaxLabels <- 3, MaxPerGame <- 2, TeacherLabelLimit <- 3, Capacity <- 2,
    MinimumOlder <- 1, HardPriorities <- {145}, MaxPlies <- 2, MaxSelections <- 2,
    archive <- v1, splitOf <- v2, dataset <- v3, labels <- v4, selections <- v5,
    evidence <- v6, replay <- v7, trained <- v8, tested <- v9

CD == INSTANCE CatalogDownload WITH
    Items <- {"x", "y"}, Versions <- {1, 2}, Length <- 2, MaxKills <- 1,
    MaxChanges <- 1,
    entity <- v1, terms <- v2, completed <- v3, partial <- v4, torn <- v5,
    objects <- v6, saved <- v7, thread <- v8, kills <- v9, changes <- v10

AD == INSTANCE ArtifactDownload WITH
    Versions <- {1, 2}, Length <- 3, MaxKills <- 2, MaxChanges <- 1,
    remote <- v1, pinned <- v2, sized <- v3, part <- v4, checkpoint <- v5,
    temporary <- v6, destination <- v7, listed <- v8, fetch <- v9, measured <- v10,
    spliced <- v11, deaths <- v12, replacements <- v13

CG == INSTANCE C4Games WITH
    PlannedGames <- 2, Plies <- 2, SampledPlies <- {1}, TeacherPlies <- <<{2},
    {1}>>, StrongPlies <- {}, Contested <- {1}, StrongRoots <- 1, MaxExits <- 1,
    Streak <- 2, MaxKills <- 1,
    task <- v1, exits <- v2, closed <- v3, cursor <- v4, shard <- v5, receipt <- v6,
    report <- v7, proc <- v8, kills <- v9

DS == INSTANCE C4Dataset WITH
    Positions <- 1..3, PlannedGames <- <<2, 1>>, Ancestors <- <<"none", "train",
    "test">>, Guarded <- {3}, MaxKills <- 1,
    games <- v1, index <- v2, staged <- v3, dataset <- v4, start <- v5, proc <- v6,
    kills <- v7

Init ==
    /\ part \in Parts
    /\ TeacherInit
    /\ PopulationInit
    /\ part # "population" => IsSettled
    /\ ScanInit
    /\ part # "leakage" => input = [a \in SourceArtifacts |-> <<>>]
    /\ ArtifactInit
    /\ TrainingInit
    /\ ExportInit
    /\ \/ /\ part = "labels" /\ LR!LabelInit
          /\ v9 = 0 /\ v10 = 0 /\ v11 = 0 /\ v12 = 0 /\ v13 = 0
       \/ /\ part = "teacher"
          /\ v1 = 0 /\ v2 = 0 /\ v3 = 0 /\ v4 = 0 /\ v5 = 0 /\ v6 = 0 /\ v7 = 0 /\
             v8 = 0 /\ v9 = 0 /\ v10 = 0 /\ v11 = 0 /\ v12 = 0 /\ v13 = 0
       \/ /\ part = "datasets" /\ TD!DataInit
          /\ v10 = 0 /\ v11 = 0 /\ v12 = 0 /\ v13 = 0
       \/ /\ part = "catalog" /\ CD!DownloadInit
          /\ v11 = 0 /\ v12 = 0 /\ v13 = 0
       \/ /\ part = "artifact" /\ AD!ArtifactInit
       \/ /\ part = "population"
          /\ v1 = 0 /\ v2 = 0 /\ v3 = 0 /\ v4 = 0 /\ v5 = 0 /\ v6 = 0 /\ v7 = 0 /\
             v8 = 0 /\ v9 = 0 /\ v10 = 0 /\ v11 = 0 /\ v12 = 0 /\ v13 = 0
       \/ /\ part = "leakage"
          /\ v1 = 0 /\ v2 = 0 /\ v3 = 0 /\ v4 = 0 /\ v5 = 0 /\ v6 = 0 /\ v7 = 0 /\
             v8 = 0 /\ v9 = 0 /\ v10 = 0 /\ v11 = 0 /\ v12 = 0 /\ v13 = 0
       \/ /\ part = "files"
          /\ v1 = 0 /\ v2 = 0 /\ v3 = 0 /\ v4 = 0 /\ v5 = 0 /\ v6 = 0 /\ v7 = 0 /\
             v8 = 0 /\ v9 = 0 /\ v10 = 0 /\ v11 = 0 /\ v12 = 0 /\ v13 = 0
       \/ /\ part = "training"
          /\ v1 = 0 /\ v2 = 0 /\ v3 = 0 /\ v4 = 0 /\ v5 = 0 /\ v6 = 0 /\ v7 = 0 /\
             v8 = 0 /\ v9 = 0 /\ v10 = 0 /\ v11 = 0 /\ v12 = 0 /\ v13 = 0
       \/ /\ part = "export"
          /\ v1 = 0 /\ v2 = 0 /\ v3 = 0 /\ v4 = 0 /\ v5 = 0 /\ v6 = 0 /\ v7 = 0 /\
             v8 = 0 /\ v9 = 0 /\ v10 = 0 /\ v11 = 0 /\ v12 = 0 /\ v13 = 0
       \/ /\ part = "games" /\ CG!Init
          /\ v10 = 0 /\ v11 = 0 /\ v12 = 0 /\ v13 = 0
       \/ /\ part = "generations" /\ DS!Init
          /\ v8 = 0 /\ v9 = 0 /\ v10 = 0 /\ v11 = 0 /\ v12 = 0 /\ v13 = 0

Next ==
    /\ UNCHANGED part
    /\ \/ /\ part = "labels" /\ LR!LabelNext
          /\ UNCHANGED <<v9, v10, v11, v12, v13, teacherVars, populationVars,
             scanVars, artifactVars, trainingVars, exportVars>>
       \/ /\ part = "teacher" /\ TeacherNext
          /\ UNCHANGED <<v1, v2, v3, v4, v5, v6, v7, v8, v9, v10, v11, v12, v13,
             populationVars, scanVars, artifactVars, trainingVars, exportVars>>
       \/ /\ part = "datasets" /\ TD!DataNext
          /\ UNCHANGED <<v10, v11, v12, v13, teacherVars, populationVars, scanVars,
             artifactVars, trainingVars, exportVars>>
       \/ /\ part = "catalog" /\ CD!DownloadNext
          /\ UNCHANGED <<v11, v12, v13, teacherVars, populationVars, scanVars,
             artifactVars, trainingVars, exportVars>>
       \/ /\ part = "artifact" /\ AD!ArtifactNext
          /\ UNCHANGED <<teacherVars, populationVars, scanVars, artifactVars,
             trainingVars, exportVars>>
       \/ /\ part = "population" /\ PopulationNext
          /\ UNCHANGED <<v1, v2, v3, v4, v5, v6, v7, v8, v9, v10, v11, v12, v13,
             teacherVars, scanVars, artifactVars, trainingVars, exportVars>>
       \/ /\ part = "leakage" /\ ScanNext
          /\ UNCHANGED <<v1, v2, v3, v4, v5, v6, v7, v8, v9, v10, v11, v12, v13,
             teacherVars, populationVars, artifactVars, trainingVars, exportVars>>
       \/ /\ part = "files" /\ ArtifactNext
          /\ UNCHANGED <<v1, v2, v3, v4, v5, v6, v7, v8, v9, v10, v11, v12, v13,
             teacherVars, populationVars, scanVars, trainingVars, exportVars>>
       \/ /\ part = "training" /\ TrainingNext
          /\ UNCHANGED <<v1, v2, v3, v4, v5, v6, v7, v8, v9, v10, v11, v12, v13,
             teacherVars, populationVars, scanVars, artifactVars, exportVars>>
       \/ /\ part = "export" /\ ExportNext
          /\ UNCHANGED <<v1, v2, v3, v4, v5, v6, v7, v8, v9, v10, v11, v12, v13,
             teacherVars, populationVars, scanVars, artifactVars, trainingVars>>
       \/ /\ part = "games" /\ CG!Next
          /\ UNCHANGED <<v10, v11, v12, v13, teacherVars, populationVars, scanVars,
             artifactVars, trainingVars, exportVars>>
       \/ /\ part = "generations" /\ DS!Next
          /\ UNCHANGED <<v8, v9, v10, v11, v12, v13, teacherVars, populationVars,
             scanVars, artifactVars, trainingVars, exportVars>>

Spec == Init /\ [][Next]_all

(* A label directory holds one label per position, all under one semantic  *)
(* origin, and no checkpoint takes back what an earlier one had, over      *)
(* interrupted runs, audits and migrations (labeling/pipeline.py).         *)
LabelsAreKept ==
    /\ [](part = "labels" => LR!LabelsAreSound)
    /\ [][part = "labels" => LR!CheckpointsGrow]_all

(* A position labelled in a held-out split is not learned in train, whether   *)
(* another game or self-play brings it there, no example of a load holds out *)
(* what another has in train, what one stage writes the next accepts, and    *)
(* the replay buffer keeps its share of older entries (data/normalize.py,    *)
(* models/dataset.py, selfplay/derivation.py).                               *)
TrainingDataIsSound ==
    part = "datasets" => TD!NothingLeaks /\ TD!ProducedIsAccepted /\ TD!ReplayKeepsOld

(* No position of a held-out split is learned in train (docs/data/           *)
(* handling.md:30-33): what the code does not keep, for self-play may bring   *)
(* one that the teacher has not labelled.                                     *)
HoldoutStaysOut == part = "datasets" => TD!HoldoutStaysOut

(* What the catalog lists as completed is one entity of the server, whole    *)
(* when a length was announced, and completed by a run that had read terms   *)
(* which allow it; a published archive is the pinned entity when one is      *)
(* pinned, whole when a length was known, and of one entity unless a server  *)
(* answered a range with another's (data/downloader.py,                      *)
(* phase10r_acquisition.py).                                                 *)
DownloadsAreGenuine ==
    /\ [](part = "catalog" => CD!CompletedIsGenuine)
    /\ [](part = "artifact" => AD!VerifiedIsGenuine)

(* No position changes its split between generations, novelty is counted the  *)
(* same when a dataset is built again (r4_c4_data.py).                        *)
DatasetsAreSound == part = "generations" => DS!DatasetsAreSound

(* A generation's games lose no label and count none twice, attempts stay      *)
(* bounded over restarts, and accepted labels are final (r4_c4_data.py).       *)
GamesAreSound ==
    /\ [](part = "games" => CG!GamesAreSound)
    /\ [][part = "games" => CG!LabelsAreFinal]_all
============================================================

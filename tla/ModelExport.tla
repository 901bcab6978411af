----------------------------- MODULE ModelExport ----------------------------
(***************************************************************************)
(* The publication of an exported evaluator (models/export.py): the        *)
(* feature schema, the quantized variants and the metadata of one base     *)
(* name, between a transaction file and a commit marker.  Nothing locks    *)
(* the directory: several exports may run in it, each may be killed, and   *)
(* each file is created only if it is not there.                           *)
(***************************************************************************)
EXTENDS Naturals, FiniteSets

CONSTANTS
    Exporters,   \* processes of the export command
    Models,      \* checkpoints exported under the same base name
    ExportFiles, \* 1..n, in the order they are written
    Shared,      \* files that are the same for every model (the feature schema)
    MaxDeaths    \* bound: exports killed

None == "none"

\* The files are numbered in the order they are written, and no model has the
\* name that stands for an absent file.
ASSUME ExportAssumption ==
    /\ IsFiniteSet(ExportFiles) /\ ExportFiles = 1..Cardinality(ExportFiles)
    /\ Models # {} /\ None \notin Models

Idle == [pc |-> "idle"]

VARIABLES
    artifacts,    \* what each file holds, or None
    transaction,  \* the model of export-transaction.json, or None
    marker,       \* the model of export-commit.json, or None
    exporter,     \* what each process is at
    deaths        \* how many there were

published == <<artifacts, transaction, marker>>
exportVars == <<published, exporter, deaths>>

Content(model, f) == IF f \in Shared THEN "shared" ELSE model

ExportInit ==
    /\ artifacts = [f \in ExportFiles |-> None]
    /\ transaction = None
    /\ marker = None
    /\ exporter = [x \in Exporters |-> Idle]
    /\ deaths = 0

At(x, pc) == exporter[x].pc = pc
Goto(x, pc) == exporter' = [exporter EXCEPT ![x].pc = pc]
Raise(x) == exporter' = [exporter EXCEPT ![x] = Idle]
Model(x) == exporter[x].model
-----------------------------------------------------------------------------
(* export_model_artifacts, then _publish_export_transaction                *)

Begin(x, model) ==
    /\ exporter[x] = Idle
    /\ exporter' = [exporter EXCEPT ![x] = [pc |-> "marker", model |-> model, file |-> 1]]
    /\ UNCHANGED <<published, deaths>>

FindMarker(x) ==
    /\ At(x, "marker")
    /\ IF marker = None THEN Goto(x, "transaction")
       ELSE IF marker = Model(x) THEN Goto(x, "verify") ELSE Raise(x)
    /\ UNCHANGED <<published, deaths>>
\* A committed export is compared in full, and its transaction retired.
Verify(x) ==
    /\ At(x, "verify")
    /\ IF /\ \A f \in ExportFiles : artifacts[f] = Content(Model(x), f)
          /\ transaction \in {None, Model(x)}
       THEN transaction' = None ELSE UNCHANGED transaction
    /\ Raise(x)
    /\ UNCHANGED <<artifacts, marker, deaths>>

NothingIsThere == \A f \in ExportFiles : artifacts[f] = None
FindTransaction(x) ==
    /\ At(x, "transaction")
    /\ IF transaction = None
       THEN IF NothingIsThere THEN Goto(x, "journal") ELSE Raise(x)
       ELSE IF transaction = Model(x) THEN Goto(x, "files") ELSE Raise(x)
    /\ UNCHANGED <<published, deaths>>
WriteTransaction(x) ==
    /\ At(x, "journal")
    /\ IF transaction = None
       THEN transaction' = Model(x) /\ Goto(x, "files")
       ELSE UNCHANGED transaction /\ Raise(x)
    /\ UNCHANGED <<artifacts, marker, deaths>>

\* Bug: the last file is left out.
AllWritten_OffByOne(x) == exporter[x].file = Cardinality(ExportFiles)
AllWritten(x) == exporter[x].file > Cardinality(ExportFiles)
NextFile(x) == exporter' = [exporter EXCEPT ![x].file = @ + 1]
CheckFile(x) ==
    /\ At(x, "files") /\ ~AllWritten(x)
    /\ artifacts[exporter[x].file] # None
    /\ IF artifacts[exporter[x].file] = Content(Model(x), exporter[x].file)
       THEN NextFile(x) ELSE Raise(x)
    /\ UNCHANGED <<published, deaths>>
\* Seen missing: it may be there by the time it is created.
MissFile(x) ==
    /\ At(x, "files") /\ ~AllWritten(x)
    /\ artifacts[exporter[x].file] = None
    /\ Goto(x, "create")
    /\ UNCHANGED <<published, deaths>>
CreateFile(x) ==
    /\ At(x, "create")
    /\ IF artifacts[exporter[x].file] = None
       THEN /\ artifacts' = [artifacts EXCEPT ![exporter[x].file] =
                                Content(Model(x), exporter[x].file)]
            /\ exporter' = [exporter EXCEPT ![x].pc = "files", ![x].file = @ + 1]
       ELSE UNCHANGED artifacts /\ Raise(x)
    /\ UNCHANGED <<transaction, marker, deaths>>
WriteMarker(x) ==
    /\ At(x, "files") /\ AllWritten(x)
    /\ IF marker = None
       THEN marker' = Model(x) /\ Goto(x, "retire")
       ELSE UNCHANGED marker /\ Raise(x)
    /\ UNCHANGED <<artifacts, transaction, deaths>>
\* The name is unlinked, whatever is under it by now.
Retire(x) ==
    /\ At(x, "retire")
    /\ transaction' = None
    /\ Raise(x)
    /\ UNCHANGED <<artifacts, marker, deaths>>

Die(x) ==
    /\ exporter[x] # Idle
    /\ deaths < MaxDeaths
    /\ deaths' = deaths + 1
    /\ Raise(x)
    /\ UNCHANGED published

ExportNext ==
    \E x \in Exporters :
        \/ \E m \in Models : Begin(x, m)
        \/ FindMarker(x) \/ Verify(x)
        \/ FindTransaction(x) \/ WriteTransaction(x)
        \/ CheckFile(x) \/ MissFile(x) \/ CreateFile(x)
        \/ WriteMarker(x) \/ Retire(x)
        \/ Die(x)
ExportSpec == ExportInit /\ [][ExportNext]_exportVars
-----------------------------------------------------------------------------
(* Exports that race or die never mix: the files of a base name are of one *)
(* model, all of them are there once the marker is, and the marker is      *)
(* theirs.                                                                 *)
ExportIsWhole ==
    /\ \E m \in Models : \A f \in ExportFiles : artifacts[f] \in {None, Content(m, f)}
    /\ marker # None => \A f \in ExportFiles : artifacts[f] = Content(marker, f)
=============================================================================

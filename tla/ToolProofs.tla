----------------------------- MODULE ToolProofs -----------------------------
(***************************************************************************)
(* Proofs about nine tools that have no module of proofs of their own:     *)
(* ModelExport, StageGroup, C4Iteration, AtomicArtifacts, CommandProcess,  *)
(* CommandRuntime, TeacherEngine, EngineBuild and OfficialEvaluation.      *)
(* They share nothing but this file and ProcessTable.                      *)
(*                                                                         *)
(* ModelExport: until the marker is there the transaction file is the      *)
(* lock.  It is set only over None, nothing but a marked export retires    *)
(* it, and whoever writes files has read it with its own model.  An export *)
(* whose checks are older than another's commit can set the transaction    *)
(* again, but finds no file to create.                                     *)
(*                                                                         *)
(* StageGroup: a group is signalled only while its leader is the runner's  *)
(* child, so that no other program has its number; no member but the       *)
(* leader is there without the active receipt, which keeps the next stage  *)
(* back.                                                                   *)
(*                                                                         *)
(* C4Iteration: what a folder is to begin with is a function of the        *)
(* decisions before it, decisions are final, and the locals of execute are *)
(* those of the decisions it has passed, however it came to be there.      *)
(*                                                                         *)
(* AtomicArtifacts: a file has one name, and what a write knows of the one *)
(* it found depends on its place alone, whatever others rename meanwhile.  *)
(*                                                                         *)
(* CommandProcess: an identity is of a process of the command, or of one   *)
(* that came to its pid where nobody could tell, whoever has it by now;    *)
(* the leader's pid is its own until it is reaped, and nobody inherits its *)
(* group before.  What was sampled is signalled, and what runs on was      *)
(* running on before.                                                      *)
(*                                                                         *)
(* CommandRuntime: what has not moved since it was opened is what was      *)
(* hashed, and a node that has moved shows it for good, so that the last   *)
(* check speaks for everything the child has loaded.                       *)
(*                                                                         *)
(* TeacherEngine: a teacher has one question at a time or gives one        *)
(* answer; whatever a late search leaves behind goes with its process.     *)
(*                                                                         *)
(* EngineBuild: a private copy that nobody has touched is what was         *)
(* recorded, and the copies are looked at once more after they have run,   *)
(* so that whatever is published was made by the recorded tools.           *)
(*                                                                         *)
(* OfficialEvaluation: a row is searched by no older teacher than it       *)
(* names, so that rows which name the present one are all of it; with one  *)
(* command at a time, and no exporter beside that of a killed command,     *)
(* only a kill leaves an attempt that cannot be used.                      *)
(***************************************************************************)
EXTENDS AtomicArtifacts, ModelExport, StageGroup, C4Iteration, CommandProcess,
        CommandRuntime, TeacherEngine, EngineBuild, OfficialEvaluation, SequenceTheorems, FiniteSetTheorems, TLAPS

-----------------------------------------------------------------------------
(* ModelExport: the inductive invariant                                   *)

ExporterPcs == {"marker", "verify", "transaction", "journal", "files", "create", "retire"}
ExporterType == [pc : ExporterPcs, model : Models, file : Nat \ {0}]

ExportTyped ==
  /\ artifacts \in [ExportFiles -> Models \union {None, "shared"}]
  /\ transaction \in Models \union {None}
  /\ marker \in Models \union {None}
  /\ \A x \in Exporters : exporter[x] = Idle \/ exporter[x] \in ExporterType
  /\ exporter = [x \in Exporters |-> exporter[x]]

\* What the process at x has seen of the files it has passed, while there is no marker.
Wrote(p) == \A f \in ExportFiles : f < p.file => artifacts[f] = Content(p.model, f)

\* A process is where the transaction of its own model, or the marker, let it.
Placed(p) ==
  /\ p.pc \in {"marker", "verify", "transaction", "journal"} => p.file = 1
  /\ p.pc = "create" => p.file \in ExportFiles
  /\ p.pc \in {"verify", "retire"} => marker # None
  /\ p.pc \in {"files", "create"} /\ marker = None => transaction = p.model /\ Wrote(p)

\* The files before the marker: none without a transaction, and else only its model's.
Unmarked ==
  marker = None =>
    /\ transaction = None => \A f \in ExportFiles : artifacts[f] = None
    /\ transaction # None =>
         \A f \in ExportFiles : artifacts[f] \in {None, Content(transaction, f)}

Marked == marker # None => \A f \in ExportFiles : artifacts[f] = Content(marker, f)

ExportInv ==
  /\ ExportTyped
  /\ \A x \in Exporters : exporter[x] # Idle => Placed(exporter[x])
  /\ Unmarked
  /\ Marked

-----------------------------------------------------------------------------
(* One step of one process. *)

\* What the assumption says of the files, as the provers take it.
LEMMA ExportFacts ==
  /\ \E n \in Nat : ExportFiles = 1..n
  /\ Models # {}
  /\ None \notin Models
  BY ExportAssumption, FS_CardinalityType DEF ExportAssumption

LEMMA Absent ==
  ASSUME NEW m \in Models, NEW f \in ExportFiles
  PROVE  /\ Content(m, f) # None
         /\ Content(m, f) \in Models \union {None, "shared"}
  BY ExportFacts DEF Content, None

LEMMA ExportStart == ASSUME ExportInit PROVE ExportInv
  BY DEF ExportInit, ExportInv, ExportTyped, Placed, Unmarked, Marked, Idle

\* A process that has not written all has a file to write, one that has is past them.
LEMMA FileOf ==
  ASSUME NEW x \in Exporters, exporter[x] \in ExporterType
  PROVE  /\ ~AllWritten(x) => exporter[x].file \in ExportFiles
         /\ AllWritten(x) => \A f \in ExportFiles : f < exporter[x].file
  <1>1. PICK n \in Nat : ExportFiles = 1..n
    BY ExportFacts
  <1>2. Cardinality(ExportFiles) = n
    BY <1>1, FS_Interval
  <1> QED
    BY <1>1, <1>2 DEF AllWritten, ExporterType

\* Steps that leave the files, the transaction and the marker alone.
LEMMA Looking ==
  ASSUME ExportInv, NEW x \in Exporters, UNCHANGED published,
         NEW p, exporter' = [exporter EXCEPT ![x] = p],
         p \in ExporterType, Placed(p)
  PROVE  ExportInv'
  <1>1. ExportTyped'
    BY DEF ExportInv, ExportTyped, published
  <1>2. ASSUME NEW y \in Exporters, exporter'[y] # Idle PROVE Placed(exporter[y])'
    <2>1. exporter'[y] = IF y = x THEN p ELSE exporter[y]
      BY DEF ExportInv, ExportTyped
    <2> QED
      BY <1>2, <2>1 DEF ExportInv, Placed, Wrote, published
  <1>3. Unmarked' /\ Marked'
    BY DEF ExportInv, Unmarked, Marked, published
  <1> QED
    BY <1>1, <1>2, <1>3 DEF ExportInv

LEMMA NextOf ==
  ASSUME ExportInv, NEW x \in Exporters, exporter[x] # Idle, NEW q \in ExporterPcs
  PROVE  /\ exporter[x] \in ExporterType
         /\ Placed(exporter[x])
         /\ [exporter[x] EXCEPT !.pc = q] \in ExporterType
         /\ [exporter[x] EXCEPT !.pc = q] =
              [pc |-> q, model |-> exporter[x].model, file |-> exporter[x].file]
         /\ Goto(x, q) <=> exporter' = [exporter EXCEPT ![x] = [@ EXCEPT !.pc = q]]
         /\ Raise(x) <=> exporter' = [exporter EXCEPT ![x] = Idle]
  BY DEF ExportInv, ExportTyped, ExporterType, ExporterPcs, Goto, Raise

\* The two ways a process moves without writing: back to the start, or on.
LEMMA Raising ==
  ASSUME ExportInv, NEW x \in Exporters, UNCHANGED published, Raise(x)
  PROVE  ExportInv'
  <1>1. ExportTyped'
    BY DEF ExportInv, ExportTyped, published, Raise
  <1>2. ASSUME NEW y \in Exporters, exporter'[y] # Idle PROVE Placed(exporter[y])'
    <2>1. exporter'[y] = IF y = x THEN Idle ELSE exporter[y]
      BY DEF ExportInv, ExportTyped, Raise
    <2> QED
      BY <1>2, <2>1 DEF ExportInv, Placed, Wrote, published
  <1>3. Unmarked' /\ Marked'
    BY DEF ExportInv, Unmarked, Marked, published
  <1> QED
    BY <1>1, <1>2, <1>3 DEF ExportInv

LEMMA Going ==
  ASSUME ExportInv, NEW x \in Exporters, UNCHANGED published,
         exporter[x] # Idle, NEW q \in ExporterPcs, Goto(x, q),
         Placed([exporter[x] EXCEPT !.pc = q])
  PROVE  ExportInv'
  BY NextOf, Looking

LEMMA LookingStep ==
  ASSUME ExportInv, NEW x \in Exporters,
         \/ \E m \in Models : Begin(x, m)
         \/ FindMarker(x) \/ FindTransaction(x) \/ CheckFile(x) \/ MissFile(x) \/ Die(x)
  PROVE  ExportInv'
  <1> DEFINE p == exporter[x]
  <1>1. ASSUME NEW m \in Models, Begin(x, m) PROVE ExportInv'
    <2>1. [pc |-> "marker", model |-> m, file |-> 1] \in ExporterType
      BY DEF ExporterType, ExporterPcs
    <2>2. Placed([pc |-> "marker", model |-> m, file |-> 1])
      BY DEF Placed
    <2> QED
      BY <1>1, <2>1, <2>2, Looking DEF Begin
  <1>2. CASE FindMarker(x)
    <2>1. p # Idle /\ p.pc = "marker" /\ p \in ExporterType /\ Placed(p) /\ UNCHANGED published
      BY <1>2 DEF FindMarker, At, Idle, ExportInv, ExportTyped
    <2>2. CASE Goto(x, "transaction")
      <3>1. Placed([p EXCEPT !.pc = "transaction"])
        BY <2>1 DEF Placed, ExporterType
      <3> QED
        BY <2>1, <2>2, <3>1, Going DEF ExporterPcs
    <2>3. CASE marker # None /\ Goto(x, "verify")
      <3>1. Placed([p EXCEPT !.pc = "verify"])
        BY <2>1, <2>3 DEF Placed, ExporterType
      <3> QED
        BY <2>1, <2>3, <3>1, Going DEF ExporterPcs
    <2> QED
      BY <1>2, <2>1, <2>2, <2>3, Raising DEF FindMarker
  <1>3. CASE FindTransaction(x)
    <2>1. p # Idle /\ p.pc = "transaction" /\ p \in ExporterType /\ Placed(p)
         /\ UNCHANGED published
      BY <1>3 DEF FindTransaction, At, Idle, ExportInv, ExportTyped
    <2>2. CASE Goto(x, "journal")
      <3>1. Placed([p EXCEPT !.pc = "journal"])
        BY <2>1 DEF Placed, ExporterType
      <3> QED
        BY <2>1, <2>2, <3>1, Going DEF ExporterPcs
    <2>3. CASE transaction = Model(x) /\ Goto(x, "files")
      \* nothing is known yet of the files before its first
      <3>1. p.file = 1
        BY <2>1 DEF ExportInv, Placed
      <3>2. Placed([p EXCEPT !.pc = "files"])
        BY <2>1, <2>3, <3>1, ExportFacts DEF Placed, ExporterType, Wrote, Model
      <3> QED
        BY <2>1, <2>3, <3>2, Going DEF ExporterPcs
    <2> QED
      BY <1>3, <2>1, <2>2, <2>3, Raising DEF FindTransaction
  <1>4. CASE CheckFile(x)
    <2>1. p # Idle /\ p.pc = "files" /\ p \in ExporterType /\ UNCHANGED published /\ Placed(p)
      BY <1>4 DEF CheckFile, At, Idle, ExportInv, ExportTyped
    <2>2. CASE NextFile(x) /\ artifacts[p.file] = Content(p.model, p.file)
      <3>1. /\ [p EXCEPT !.file = @ + 1] \in ExporterType
            /\ [p EXCEPT !.file = @ + 1] =
                 [pc |-> p.pc, model |-> p.model, file |-> p.file + 1]
        BY <2>1 DEF ExporterType
      <3>2. Placed([p EXCEPT !.file = @ + 1])
        BY <2>1, <2>2, <3>1, ExportFacts DEF Placed, Wrote, ExporterType
      <3> QED
        BY <2>1, <2>2, <3>1, <3>2, Looking DEF NextFile
    <2> QED
      BY <1>4, <2>1, <2>2, Raising DEF CheckFile, Model
  <1>5. CASE MissFile(x)
    <2>1. p # Idle /\ p.pc = "files" /\ p \in ExporterType /\ UNCHANGED published /\ Placed(p)
      BY <1>5 DEF MissFile, At, Idle, ExportInv, ExportTyped
    <2>2. p.file \in ExportFiles
      BY <1>5, <2>1, FileOf DEF MissFile
    <2>3. Placed([p EXCEPT !.pc = "create"])
      BY <2>1, <2>2 DEF Placed, Wrote, ExporterType
    <2> QED
      BY <1>5, <2>1, <2>3, Going DEF MissFile, ExporterPcs
  <1>6. CASE Die(x)
    BY <1>6, Raising DEF Die
  <1> QED
    BY <1>1, <1>2, <1>3, <1>4, <1>5, <1>6

-----------------------------------------------------------------------------
(* The steps that write. *)

\* Only a process that stands for the marker ends with the transaction retired.
LEMMA Retiring ==
  ASSUME ExportInv, NEW x \in Exporters, Verify(x) \/ Retire(x)
  PROVE  ExportInv'
  <1>1. /\ exporter[x] # Idle /\ exporter[x].pc \in {"verify", "retire"}
        /\ UNCHANGED <<artifacts, marker>>
        /\ transaction' \in {transaction, None}
        /\ exporter' = [exporter EXCEPT ![x] = Idle]
    BY DEF Verify, Retire, At, Idle, Raise
  <1>2. marker # None
    BY <1>1 DEF ExportInv, Placed
  <1>3. ExportTyped'
    BY <1>1 DEF ExportInv, ExportTyped
  <1>4. ASSUME NEW y \in Exporters, exporter'[y] # Idle PROVE Placed(exporter[y])'
    <2>1. exporter'[y] = exporter[y] /\ exporter[y] # Idle
      BY <1>1, <1>4 DEF ExportInv, ExportTyped
    <2> QED
      BY <1>1, <1>2, <2>1 DEF ExportInv, Placed
  <1>5. Unmarked' /\ Marked'
    BY <1>1, <1>2 DEF ExportInv, Unmarked, Marked
  <1> QED
    BY <1>3, <1>4, <1>5 DEF ExportInv

\* A transaction is set where none is: before the marker, no file is there yet.
LEMMA Journaling ==
  ASSUME ExportInv, NEW x \in Exporters, WriteTransaction(x)
  PROVE  ExportInv'
  <1> DEFINE p == exporter[x]
  <1>1. p # Idle /\ p.pc = "journal" /\ p \in ExporterType /\ Placed(p) /\ p.file = 1
    BY DEF WriteTransaction, At, Idle, ExportInv, ExportTyped, Placed
  <1>2. CASE transaction # None
    BY <1>2, Raising DEF WriteTransaction, published
  <1>3. CASE transaction = None
    <2>1. /\ transaction' = p.model /\ UNCHANGED <<artifacts, marker>>
          /\ exporter' = [exporter EXCEPT ![x] =
                            [pc |-> "files", model |-> p.model, file |-> 1]]
      BY <1>1, <1>3 DEF WriteTransaction, Model, Goto, ExporterType
    <2>2. ExportTyped'
      BY <1>1, <2>1 DEF ExportInv, ExportTyped, ExporterType, ExporterPcs
    <2>3. ASSUME NEW y \in Exporters, exporter'[y] # Idle PROVE Placed(exporter[y])'
      <3>1. CASE y = x
        BY <1>1, <2>1, <3>1, ExportFacts DEF ExportInv, ExportTyped, Placed, Wrote
      <3>2. CASE y # x
        \* no other process is past its transaction, or there is a marker
        <4>1. exporter'[y] = exporter[y] /\ exporter[y] \in ExporterType /\ Placed(exporter[y])
          BY <2>1, <2>3, <3>2 DEF ExportInv, ExportTyped
        <4>2. exporter[y].model # None
          BY <4>1, ExportFacts DEF ExporterType
        <4> QED
          BY <1>3, <2>1, <4>1, <4>2 DEF Placed
      <3> QED
        BY <3>1, <3>2
    <2>4. Unmarked' /\ Marked'
      BY <1>3, <2>1 DEF ExportInv, Unmarked, Marked
    <2> QED
      BY <2>2, <2>3, <2>4 DEF ExportInv
  <1> QED
    BY <1>2, <1>3

\* Whoever creates a file holds the transaction, so that the file is of its model.
LEMMA Creating ==
  ASSUME ExportInv, NEW x \in Exporters, CreateFile(x)
  PROVE  ExportInv'
  <1> DEFINE p == exporter[x]
             c == Content(p.model, p.file)
  <1>1. p # Idle /\ p.pc = "create" /\ p \in ExporterType /\ Placed(p) /\ p.file \in ExportFiles
    BY DEF CreateFile, At, Idle, ExportInv, ExportTyped, Placed
  <1>2. CASE artifacts[p.file] # None
    BY <1>2, Raising DEF CreateFile, published
  <1>3. CASE artifacts[p.file] = None
    <2>1. /\ artifacts' = [artifacts EXCEPT ![p.file] = c]
          /\ UNCHANGED <<transaction, marker>>
          /\ exporter' = [exporter EXCEPT ![x] =
                            [pc |-> "files", model |-> p.model, file |-> p.file + 1]]
      BY <1>1, <1>3 DEF CreateFile, Model, ExporterType
    <2>2. marker = None
      BY <1>1, <1>3, Absent DEF ExportInv, ExportTyped, Marked
    <2>3. transaction = p.model /\ Wrote(p) /\ transaction # None
      BY <1>1, <2>2, ExportFacts DEF Placed, ExporterType
    <2>4. c \in Models \union {None, "shared"}
      BY <1>1, Absent DEF ExporterType
    <2>5. ExportTyped'
      <3>1. [pc |-> "files", model |-> p.model, file |-> p.file + 1] \in ExporterType
        BY <1>1 DEF ExporterType, ExporterPcs
      <3> QED
        BY <1>1, <2>1, <2>4, <3>1 DEF ExportInv, ExportTyped
    <2>6. \A f \in ExportFiles : artifacts'[f] = IF f = p.file THEN c ELSE artifacts[f]
      BY <1>1, <2>1 DEF ExportInv, ExportTyped
    <2>7. ASSUME NEW y \in Exporters, exporter'[y] # Idle PROVE Placed(exporter[y])'
      <3>1. CASE y = x
        <4>1. exporter'[y] = [pc |-> "files", model |-> p.model, file |-> p.file + 1]
          BY <2>1, <3>1 DEF ExportInv, ExportTyped
        <4>2. \A f \in ExportFiles : f < p.file + 1 => artifacts'[f] = Content(p.model, f)
          BY <1>1, <2>3, <2>6, ExportFacts DEF Wrote, ExporterType
        <4> QED
          BY <2>1, <2>3, <4>1, <4>2 DEF Placed, Wrote
      <3>2. CASE y # x
        <4>1. exporter'[y] = exporter[y] /\ exporter[y] \in ExporterType /\ Placed(exporter[y])
          BY <2>1, <2>7, <3>2 DEF ExportInv, ExportTyped
        <4>2. exporter[y].pc \in {"files", "create"} =>
                exporter[y].model = p.model /\ Wrote(exporter[y])
          BY <2>2, <2>3, <4>1 DEF Placed
        <4> QED
          BY <2>1, <2>2, <2>3, <2>6, <4>1, <4>2 DEF Placed, Wrote
      <3> QED
        BY <3>1, <3>2
    <2>8. Unmarked' /\ Marked'
      BY <2>1, <2>2, <2>3, <2>6 DEF ExportInv, Unmarked, Marked
    <2> QED
      BY <2>5, <2>7, <2>8 DEF ExportInv
  <1> QED
    BY <1>2, <1>3

\* The marker is written by a process that has seen or written every file.
LEMMA Marking ==
  ASSUME ExportInv, NEW x \in Exporters, WriteMarker(x)
  PROVE  ExportInv'
  <1> DEFINE p == exporter[x]
  <1>1. p # Idle /\ p.pc = "files" /\ p \in ExporterType /\ Placed(p)
    BY DEF WriteMarker, At, Idle, ExportInv, ExportTyped
  <1>2. CASE marker # None
    BY <1>2, Raising DEF WriteMarker, published
  <1>3. CASE marker = None
    <2>1. /\ marker' = p.model /\ UNCHANGED <<artifacts, transaction>>
          /\ exporter' = [exporter EXCEPT ![x] =
                            [pc |-> "retire", model |-> p.model, file |-> p.file]]
      BY <1>1, <1>3 DEF WriteMarker, Model, Goto, ExporterType
    <2>2. p.model # None /\ p.model \in Models
      BY <1>1, ExportFacts DEF ExporterType
    <2>3. \A f \in ExportFiles : artifacts[f] = Content(p.model, f)
      BY <1>1, <1>3, FileOf DEF WriteMarker, Placed, Wrote
    <2>4. ExportTyped'
      BY <1>1, <2>1 DEF ExportInv, ExportTyped, ExporterType, ExporterPcs
    <2>5. ASSUME NEW y \in Exporters, exporter'[y] # Idle PROVE Placed(exporter[y])'
      <3>1. CASE y = x
        BY <1>1, <2>1, <2>2, <3>1 DEF ExportInv, ExportTyped, Placed
      <3>2. CASE y # x
        BY <2>1, <2>2, <2>5, <3>2 DEF ExportInv, ExportTyped, Placed
      <3> QED
        BY <3>1, <3>2
    <2>6. Unmarked' /\ Marked'
      BY <2>1, <2>2, <2>3 DEF Unmarked, Marked
    <2> QED
      BY <2>4, <2>5, <2>6 DEF ExportInv
  <1> QED
    BY <1>2, <1>3

LEMMA ExportStep ==
  ASSUME ExportInv, [ExportNext]_exportVars
  PROVE  ExportInv'
  <1>1. ASSUME NEW x \in Exporters,
               \/ \E m \in Models : Begin(x, m)
               \/ FindMarker(x) \/ Verify(x)
               \/ FindTransaction(x) \/ WriteTransaction(x)
               \/ CheckFile(x) \/ MissFile(x) \/ CreateFile(x)
               \/ WriteMarker(x) \/ Retire(x)
               \/ Die(x)
        PROVE  ExportInv'
    BY <1>1, LookingStep, Retiring, Journaling, Creating, Marking
  <1>2. CASE UNCHANGED exportVars
    BY <1>2
       DEF exportVars, published, ExportInv, ExportTyped, Placed, Wrote, Unmarked, Marked
  <1> QED
    BY <1>1, <1>2 DEF ExportNext

\* Racing and killed exports never mix two models under one name, and a marker is never
\* without all of its files: for any exporters, models and shared files, and any number of
\* deaths.
THEOREM ExportWhole == ExportSpec => []ExportIsWhole
  <1>1. ExportInv => ExportIsWhole
    <2> SUFFICES ASSUME ExportInv PROVE ExportIsWhole
      OBVIOUS
    <2>1. CASE marker # None
      BY <2>1 DEF ExportInv, ExportTyped, Marked, ExportIsWhole
    <2>2. CASE marker = None /\ transaction # None
      BY <2>2 DEF ExportInv, ExportTyped, Unmarked, ExportIsWhole
    <2>3. CASE marker = None /\ transaction = None
      BY <2>3, ExportFacts DEF ExportInv, Unmarked, ExportIsWhole
    <2> QED
      BY <2>1, <2>2, <2>3
  <1> QED
    BY <1>1, ExportStart, ExportStep, PTL DEF ExportSpec

-----------------------------------------------------------------------------
(* StageGroup: the inductive invariant                                     *)

Whos == {Programs[n] : n \in 1..Len(Programs)} \union {"none", "stranger"}
ProcessType ==
    [who : Whos, zombie : BOOLEAN, parent : Pids \union {Nobody, Runner},
     group : Pids \union {Nobody}, birth : Nat, pipe : BOOLEAN, deaf : BOOLEAN]
StageTyped ==
    /\ table \in [Pids -> ProcessType]
    /\ receipt \in [pid : Pids \union {Nobody}, birth : Nat,
                    status : {"none", "active", "cleaned"}]
    /\ sup \in {"idle", "watch", "grace", "termed", "mark", "lost"}
    /\ stage \in Pids \union {Nobody}
    /\ launched \in 0..Len(Programs)
    /\ hit = FALSE

\* Where a supervisor may have a child.
Holding == {"watch", "grace", "termed"}

\* What is free is nothing; other programs live in groups of their own; only a
\* process with a parent waits as a zombie; a parent that is not the runner
\* lives, in the group and of the program of its child; the runner's child is
\* the stage.
ProcessIsSound(p) ==
    LET r == table[p] IN
    /\ r.who = "none" => r = Free(r.birth)
    /\ r.who = "stranger" => ~r.zombie /\ r.group = p /\ r.parent = Nobody
    /\ r.zombie => r.parent # Nobody
    /\ r.parent \in Pids =>
         /\ IsLive(r.parent)
         /\ table[r.parent].who = r.who /\ table[r.parent].group = r.group
    /\ r.parent = Runner => p = stage /\ sup \in Holding

\* Whatever is left of a stage is of the last one and in its group.  Its leader
\* is no process's child; the others are there only under the receipt.
StageIsKnown(p) ==
    IsStage(p) =>
        /\ launched > 0 /\ table[p].who = Programs[launched]
        /\ table[p].group = stage /\ stage \in Pids
        /\ sup # "mark"
        /\ p = stage => table[p].parent \in {Runner, Nobody} /\ sup # "idle"
        /\ p # stage => receipt.status = "active" /\ receipt.pid = stage

StageInv == /\ StageTyped
            /\ \A p \in Pids : ProcessIsSound(p) /\ StageIsKnown(p)
-----------------------------------------------------------------------------
(* What a step does to a process                                           *)

LEMMA Numbers ==
    /\ Nobody \notin Pids /\ Runner \notin Pids /\ Nobody # Runner
    /\ Len(Programs) \in Nat
    /\ \A n \in 1..Len(Programs) :
         Programs[n] \in Whos /\ Programs[n] \notin {"none", "stranger"}
BY StageAssumption, LenProperties DEF Nobody, Runner, Whos

LEMMA ProcessFacts ==
    ASSUME StageInv, NEW p \in Pids
    PROVE  /\ table[p] \in ProcessType /\ DOMAIN table = Pids
           /\ table[p].parent \in Pids \union {Nobody, Runner}
           /\ ProcessIsSound(p) /\ StageIsKnown(p)
BY DEF StageInv, StageTyped, ProcessType

LEMMA FreeIs ==
    ASSUME NEW birth \in Nat
    PROVE  /\ Free(birth) \in ProcessType
           /\ Free(birth).who = "none" /\ ~Free(birth).zombie
           /\ Free(birth).parent = Nobody /\ Free(birth).birth = birth
BY DEF Free, ProcessType, Whos

\* The four things a signal or a wait can do to a process.
Gone(S, W, p) ==
    /\ p \in S \/ p \in W \/ table[p].zombie
    /\ table'[p] = Free(table[p].birth)
Dead(S, p) ==
    /\ p \in S /\ table[p].parent \notin S /\ table[p].parent # Nobody
    /\ table'[p] = [table[p] EXCEPT !.zombie = TRUE]
Orphaned(S, W, p) ==
    /\ p \notin W /\ ~table[p].zombie /\ table[p].parent \in S
    /\ table'[p] = [table[p] EXCEPT !.parent = Nobody]
Same(S, W, p) ==
    /\ p \notin W /\ table[p].parent \notin S
    /\ table'[p] = table[p]

LEMMA AfterIs ==
    ASSUME StageInv, NEW S \in SUBSET Pids, NEW W \in SUBSET Pids,
           \A q \in S : IsLive(q),
           table' = After(S, W), NEW p \in Pids
    PROVE  Gone(S, W, p) \/ Dead(S, p) \/ Orphaned(S, W, p) \/ Same(S, W, p)
<1> DEFINE r == table[p]
           Waits == r.parent = Runner
                    \/ (r.parent \in Pids \ S /\ IsLive(r.parent))
<1>1. table'[p] =
        CASE p \in W \/ (~IsFree(p) /\ ~Waits /\ (p \in S \/ r.zombie))
               -> Free(r.birth)
          [] p \in S /\ p \notin W /\ Waits -> [r EXCEPT !.zombie = TRUE]
          [] OTHER -> IF r.parent \in S THEN [r EXCEPT !.parent = Nobody] ELSE r
    BY DEF After
<1>2. /\ r.zombie => ~IsFree(p)
      /\ p \in S => ~IsFree(p)
      /\ ~Waits => r.parent # Runner
      /\ Waits => r.parent \notin S /\ r.parent # Nobody
  <2>1. ProcessIsSound(p) /\ r \in ProcessType
      BY ProcessFacts
  <2>2. r.zombie => ~IsFree(p)
      BY <2>1 DEF ProcessIsSound, IsFree, Free
  <2> QED
      BY <2>2, Numbers, SMT DEF IsLive
<1> HIDE DEF Waits
<1>3. CASE p \in W \/ (~IsFree(p) /\ ~Waits /\ (p \in S \/ r.zombie))
    BY <1>1, <1>3 DEF Gone
<1>4. CASE /\ ~(p \in W \/ (~IsFree(p) /\ ~Waits /\ (p \in S \/ r.zombie)))
           /\ p \in S /\ Waits
    BY <1>1, <1>2, <1>4 DEF Dead
<1>5. CASE /\ ~(p \in W \/ (~IsFree(p) /\ ~Waits /\ (p \in S \/ r.zombie)))
           /\ ~(p \in S /\ Waits)
  <2>1. table'[p] = IF r.parent \in S THEN [r EXCEPT !.parent = Nobody] ELSE r
      BY <1>1, <1>5
  <2>2. r.parent \in S => ~r.zombie
      BY <1>2, <1>5
  <2> QED
      BY <1>5, <2>1, <2>2 DEF Orphaned, Same
<1> QED
    BY <1>3, <1>4, <1>5

\* Signals that reach only the living of the stage and waits that reap only
\* zombies leave the rest as it was.
LEMMA AfterIsSound ==
    ASSUME StageInv, NEW S \in SUBSET Pids, NEW W \in SUBSET Pids,
           \A q \in S : IsLive(q) /\ table[q].who # "stranger",
           \A q \in W : table[q].zombie,
           table' = After(S, W), stage' = stage,
           sup' \in Holding \/ \A q \in Pids \ W : table[q].parent # Runner
    PROVE  /\ table' \in [Pids -> ProcessType]
           /\ \A p \in Pids : ProcessIsSound(p)'
           /\ \A p \in Pids : IsStage(p)' =>
                /\ IsStage(p) /\ p \notin W
                /\ table'[p].who = table[p].who /\ table'[p].group = table[p].group
                /\ table'[p].parent \in {table[p].parent, Nobody}
<1>1. \A p \in Pids :
        Gone(S, W, p) \/ Dead(S, p) \/ Orphaned(S, W, p) \/ Same(S, W, p)
    BY AfterIs
<1>2. \A p \in Pids : table'[p] \in ProcessType
  <2> TAKE p \in Pids
  <2>1. table[p] \in ProcessType
      BY ProcessFacts
  <2>2. table[p].birth \in Nat
      BY <2>1 DEF ProcessType
  <2>3. Gone(S, W, p) => table'[p] \in ProcessType
      BY <2>2, FreeIs DEF Gone
  <2>4. Dead(S, p) \/ Orphaned(S, W, p) \/ Same(S, W, p) => table'[p] \in ProcessType
      BY <2>1 DEF Dead, Orphaned, Same, ProcessType
  <2> QED
      BY <1>1, <2>3, <2>4
<1>3. table' \in [Pids -> ProcessType]
  <2>1. table' = [p \in Pids |-> table'[p]]
      BY DEF After
  <2> QED
      BY <1>2, <2>1
<1>4. ASSUME NEW p \in Pids, p \notin S, IsLive(p)
      PROVE  IsLive(p)' /\ table'[p].who = table[p].who
             /\ table'[p].group = table[p].group
  <2>1. table[p] \in ProcessType /\ ~table[p].zombie /\ p \notin W
      BY <1>4, ProcessFacts DEF IsLive
  <2>2. Orphaned(S, W, p) \/ Same(S, W, p)
      BY <1>1, <1>4, <2>1 DEF Gone, Dead
  <2> QED
      BY <1>4, <2>1, <2>2 DEF Orphaned, Same, IsLive, IsFree, ProcessType
<1>5. ASSUME NEW p \in Pids PROVE ProcessIsSound(p)'
  <2> DEFINE r == table[p]
  <2>1. /\ r \in ProcessType /\ r.birth \in Nat
        /\ ProcessIsSound(p)
      BY ProcessFacts DEF ProcessType
  <2>2. CASE Gone(S, W, p)
    <3>1. table'[p] = Free(r.birth)
        BY <2>2 DEF Gone
    <3> QED
        BY <2>1, <3>1, FreeIs, Numbers DEF ProcessIsSound
  <2>3. CASE Dead(S, p)
    <3>1. /\ table'[p].who = r.who /\ table'[p].parent = r.parent
          /\ table'[p].group = r.group /\ r.parent # Nobody
          /\ r.who # "none" /\ r.who # "stranger" /\ r.parent \notin S
        BY <2>1, <2>3 DEF Dead, ProcessType, IsLive, IsFree
    <3>2. p \notin W
        BY <2>3 DEF Dead, IsLive
    <3> QED
        BY <1>4, <2>1, <3>1, <3>2 DEF ProcessIsSound, IsLive
  <2>4. CASE Orphaned(S, W, p)
    <3>1. /\ table'[p].who = r.who /\ table'[p].parent = Nobody
          /\ table'[p].zombie = r.zombie /\ ~r.zombie
          /\ table'[p].group = r.group /\ r.parent \in Pids
        BY <2>1, <2>4 DEF Orphaned, ProcessType
    <3>2. r.who # "none"
        BY <2>1, <3>1, FreeIs, Numbers DEF ProcessIsSound
    <3> QED
        BY <2>1, <3>1, <3>2, Numbers DEF ProcessIsSound
  <2>5. CASE Same(S, W, p)
    <3>1. table'[p] = r /\ p \notin W /\ r.parent \notin S
        BY <2>5 DEF Same
    <3> QED
        BY <1>4, <2>1, <3>1 DEF ProcessIsSound
  <2> QED
      BY <1>1, <2>2, <2>3, <2>4, <2>5
<1>6. ASSUME NEW p \in Pids, IsStage(p)'
      PROVE  /\ IsStage(p) /\ p \notin W
             /\ table'[p].who = table[p].who /\ table'[p].group = table[p].group
             /\ table'[p].parent \in {table[p].parent, Nobody}
  <2>1. table[p] \in ProcessType /\ table[p].birth \in Nat
      BY ProcessFacts DEF ProcessType
  <2>2. ~Gone(S, W, p)
      BY <1>6, <2>1, FreeIs DEF Gone, IsStage, IsFree
  <2>3. Dead(S, p) \/ Orphaned(S, W, p) \/ Same(S, W, p)
      BY <1>1, <2>2
  <2>4. p \notin W
      BY <2>3 DEF Dead, Orphaned, Same, IsLive
  <2> QED
      BY <1>6, <2>1, <2>3, <2>4 DEF Dead, Orphaned, Same, IsStage, IsFree, ProcessType
<1> QED
    BY <1>3, <1>5, <1>6

\* A process that begins under a free pid changes nothing about the others.
LEMMA TakeIsSound ==
    ASSUME StageInv, NEW q \in Pids, MayTake(q), NEW new \in ProcessType,
           table' = [table EXCEPT ![q] = new],
           NEW p \in Pids, p # q,
           (stage' = stage /\ sup' = sup) \/ table[p].parent # Runner
    PROVE  table'[p] = table[p] /\ ProcessIsSound(p)'
<1>1. /\ table' = [table EXCEPT ![q] = new]
      /\ table'[p] = table[p] /\ DOMAIN table = Pids /\ ProcessIsSound(p)
    BY ProcessFacts
<1>2. table[p].parent \in Pids => table[p].parent # q
    BY <1>1 DEF ProcessIsSound, MayTake, IsLive
<1>3. table[p].parent \in Pids => table'[table[p].parent] = table[table[p].parent]
    BY <1>1, <1>2
<1>4. ASSUME table[p].parent \in Pids
      PROVE  /\ IsLive(table[p].parent)'
             /\ table'[table[p].parent].who = table[p].who
             /\ table'[table[p].parent].group = table[p].group
  <2>1. /\ IsLive(table[p].parent)
        /\ table[table[p].parent].who = table[p].who
        /\ table[table[p].parent].group = table[p].group
      BY <1>1, <1>4 DEF ProcessIsSound
  <2> QED
      BY <1>1, <1>3, <1>4, <2>1 DEF IsLive, IsFree
<1>5. table'[p].parent = Runner => p = stage' /\ sup' \in Holding
    BY <1>1 DEF ProcessIsSound
<1> QED
    BY <1>1, <1>4, <1>5 DEF ProcessIsSound

\* A step after which the stage is at most what it was.
LEMMA LessOfStage ==
    ASSUME StageInv, table' \in [Pids -> ProcessType],
           \A p \in Pids : ProcessIsSound(p)',
           \A p \in Pids : IsStage(p)' =>
                /\ IsStage(p)
                /\ table'[p].who = table[p].who /\ table'[p].group = table[p].group
                /\ table'[p].parent \in {table[p].parent, Nobody}
                /\ sup' # "mark" /\ (sup' = "idle" => p # stage),
           UNCHANGED <<receipt, stage, launched, hit>>,
           sup' \in {"idle", "watch", "grace", "termed", "mark", "lost"}
    PROVE  StageInv'
<1>1. StageTyped'
    BY DEF StageInv, StageTyped
<1>2. ASSUME NEW p \in Pids PROVE StageIsKnown(p)'
  <2>1. StageIsKnown(p)
      BY DEF StageInv
  <2> QED
      BY <2>1 DEF StageIsKnown
<1> QED
    BY <1>1, <1>2 DEF StageInv
-----------------------------------------------------------------------------
(* The supervisor's steps                                                  *)

LEMMA LaunchStageSound == ASSUME StageInv, LaunchStage PROVE StageInv'
<1>1. PICK q \in Pids, deaf \in BOOLEAN :
        /\ MayTake(q) /\ stage' = q
        /\ table' = [table EXCEPT ![q] =
              Process(Programs[launched + 1], q, Runner, q, FALSE, deaf)]
    BY DEF LaunchStage
<1> DEFINE new == Process(Programs[launched + 1], q, Runner, q, FALSE, deaf)
<1>2. /\ launched + 1 \in 1..Len(Programs) /\ launched' = launched + 1
      /\ launched \in Nat /\ sup = "idle" /\ sup' = "watch"
      /\ UNCHANGED <<receipt, hit>>
    BY Numbers DEF LaunchStage, StageInv, StageTyped
<1>3. /\ new \in ProcessType /\ new.who = Programs[launched + 1]
      /\ new.parent = Runner /\ new.group = q /\ new.zombie = FALSE
      /\ new.who \notin {"none", "stranger"}
  <2>1. table[q].birth + 1 \in Nat
      BY ProcessFacts DEF ProcessType
  <2>2. Programs[launched + 1] \in Whos \ {"none", "stranger"}
      BY <1>2, Numbers
  <2> QED
      BY <2>1, <2>2 DEF Process, ProcessType
<1> HIDE DEF new
<1>4. table' = [table EXCEPT ![q] = new] /\ table \in [Pids -> ProcessType]
    BY <1>1 DEF new, StageInv, StageTyped
<1>5. ASSUME NEW p \in Pids PROVE ~IsStage(p)
  <2>1. IsStage(p) => /\ p # stage
                      /\ receipt.status = "active" /\ receipt.pid = stage
                      /\ table[p].group = stage
      BY <1>2 DEF StageInv, StageIsKnown
  <2> QED
      BY <2>1 DEF LaunchStage, Residual, IsStage
<1>6. ASSUME NEW p \in Pids, p # q
      PROVE  table'[p] = table[p] /\ ProcessIsSound(p)'
  <2>1. table[p].parent # Runner
      BY <1>2, ProcessFacts DEF ProcessIsSound, Holding
  <2> QED
      BY <1>1, <1>3, <1>4, <1>6, <2>1, TakeIsSound
<1>7. ProcessIsSound(q)'
    BY <1>1, <1>2, <1>3, <1>4, Numbers DEF ProcessIsSound, Holding
<1>8. ASSUME NEW p \in Pids PROVE StageIsKnown(p)'
  <2>1. p # q => ~IsStage(p)'
      BY <1>5, <1>6 DEF IsStage, IsFree
  <2>2. table'[q] = new
      BY <1>4
  <2>3. launched' > 0 /\ new.who = Programs[launched']
      BY <1>2, <1>3
  <2> QED
      BY <1>1, <1>2, <1>3, <2>1, <2>2, <2>3 DEF StageIsKnown
<1>9. StageTyped'
  <2>1. table' \in [Pids -> ProcessType]
      BY <1>3, <1>4
  <2>2. launched' \in 0..Len(Programs) /\ stage' \in Pids
      BY <1>1, <1>2, Numbers
  <2> QED
      BY <1>2, <2>1, <2>2 DEF StageInv, StageTyped
<1> QED
    BY <1>6, <1>7, <1>8, <1>9 DEF StageInv

LEMMA BeginCleanupSound == ASSUME StageInv, BeginCleanup PROVE StageInv'
<1>1. \A p \in Pids : ProcessIsSound(p)'
    BY DEF BeginCleanup, StageInv, ProcessIsSound, Holding, IsLive, IsFree
<1> QED
    BY <1>1, LessOfStage DEF BeginCleanup, StageInv, StageTyped, IsStage, IsFree

\* While the supervisor holds the leader, the group is all of this stage.
LEMMA GroupIsOwn ==
    ASSUME StageInv, IsAuthentic, NEW p \in Active
    PROVE  IsLive(p) /\ table[p].who # "stranger" /\ IsStage(p)
<1>1. /\ p \in Pids /\ IsLive(p) /\ table[p].group = stage
      /\ stage \in Pids /\ table[stage].parent = Runner
    BY DEF Active, MembersOf, IsAuthentic
<1>2. ProcessIsSound(p) /\ ProcessIsSound(stage)
    BY <1>1, ProcessFacts
<1> QED
    BY <1>1, <1>2, Numbers DEF ProcessIsSound, IsStage, IsLive

LEMMA SignalSound ==
    ASSUME StageInv, IsAuthentic, NEW S \in SUBSET Active, Signal(S),
           sup' \in {"grace", "termed"}, sup \in Holding,
           UNCHANGED <<receipt, stage, launched>>
    PROVE  StageInv'
<1>1. S \in SUBSET Pids
    BY DEF Active, MembersOf
<1>2. \A q \in S : IsLive(q) /\ table[q].who # "stranger"
    BY GroupIsOwn
<1>3. hit' = hit
    BY <1>2 DEF Signal, StageInv, StageTyped
<1>4. table' = After(S, {}) /\ sup' \in Holding
    BY DEF Signal, Holding
<1>5. /\ table' \in [Pids -> ProcessType]
      /\ \A p \in Pids : ProcessIsSound(p)'
      /\ \A p \in Pids : IsStage(p)' =>
           /\ IsStage(p) /\ p \notin {}
           /\ table'[p].who = table[p].who /\ table'[p].group = table[p].group
           /\ table'[p].parent \in {table[p].parent, Nobody}
  <2>1. {} \in SUBSET Pids /\ \A q \in {} : table[q].zombie
      OBVIOUS
  <2>2. stage' = stage
      OBVIOUS
  <2> QED
      BY <1>1, <1>2, <1>4, <2>1, <2>2, AfterIsSound, Zenon
<1> QED
    BY <1>3, <1>5, LessOfStage

LEMMA ReapLeaderSound == ASSUME StageInv, ReapLeader PROVE StageInv'
<1>1. /\ IsAuthentic /\ Active = {} /\ sup \in Holding
      /\ table' = After({}, {stage}) /\ sup' = "mark" /\ stage \in Pids
      /\ UNCHANGED <<receipt, stage, launched, hit>>
    BY DEF ReapLeader, IsAuthentic, Holding
\* Nothing lives in the group, and only the leader may wait there.
<1>2. ASSUME NEW p \in Pids, IsStage(p) PROVE p = stage /\ table[p].zombie
  <2>1. table[p].group = stage /\ ~IsLive(p) /\ table[p].zombie
      BY <1>1, <1>2, ProcessFacts
      DEF StageIsKnown, Active, MembersOf, IsLive, IsStage
  <2>2. table[p].parent \notin Pids
      BY <1>1, <2>1, ProcessFacts DEF ProcessIsSound, Active, MembersOf
  <2>3. table[p].parent = Runner
      BY <2>1, <2>2, ProcessFacts DEF ProcessIsSound
  <2> QED
      BY <2>1, <2>3, ProcessFacts DEF ProcessIsSound
<1>3. IsStage(stage)
  <2>1. ProcessIsSound(stage)
      BY <1>1, ProcessFacts
  <2> QED
      BY <1>1, <2>1, Numbers DEF IsAuthentic, ProcessIsSound, IsStage, IsFree, Free
<1>4. \A q \in Pids \ {stage} : table[q].parent # Runner
    BY ProcessFacts DEF ProcessIsSound
<1>5. /\ table' \in [Pids -> ProcessType]
      /\ \A p \in Pids : ProcessIsSound(p)'
      /\ \A p \in Pids : IsStage(p)' =>
           /\ IsStage(p) /\ p \notin {stage}
           /\ table'[p].who = table[p].who /\ table'[p].group = table[p].group
           /\ table'[p].parent \in {table[p].parent, Nobody}
  <2>1. {stage} \in SUBSET Pids /\ \A q \in {stage} : table[q].zombie
      BY <1>1, <1>2, <1>3
  <2>2. {} \in SUBSET Pids /\ \A q \in {} : IsLive(q) /\ table[q].who # "stranger"
      OBVIOUS
  <2>3. stage' = stage
      BY <1>1
  <2> QED
      BY <1>1, <1>4, <2>1, <2>2, <2>3, AfterIsSound, Zenon
<1> QED
    BY <1>1, <1>2, <1>5, LessOfStage

LEMMA MarkCleanedSound == ASSUME StageInv, MarkCleaned PROVE StageInv'
<1>1. /\ sup = "mark" /\ sup' = "idle" /\ UNCHANGED <<table, stage, launched, hit>>
      /\ receipt' \in {receipt, [receipt EXCEPT !.status = "cleaned"]}
    BY DEF MarkCleaned
<1>2. StageTyped'
    BY <1>1 DEF StageInv, StageTyped
<1>3. ASSUME NEW p \in Pids PROVE ProcessIsSound(p)' /\ StageIsKnown(p)'
    BY <1>1, ProcessFacts
    DEF ProcessIsSound, StageIsKnown, Holding, IsStage, IsLive, IsFree
<1> QED
    BY <1>2, <1>3 DEF StageInv

LEMMA SupervisorDiesSound == ASSUME StageInv, SupervisorDies PROVE StageInv'
<1>1. /\ sup' = "lost" /\ UNCHANGED <<receipt, stage, launched, hit>>
      /\ table' = [p \in Pids |->
            IF table[p].parent # Runner THEN table[p]
            ELSE IF table[p].zombie THEN Free(table[p].birth)
            ELSE [table[p] EXCEPT !.parent = Nobody]]
    BY DEF SupervisorDies
<1>2. ASSUME NEW p \in Pids
      PROVE  /\ table'[p] \in ProcessType
             /\ \/ table'[p] = table[p] /\ table[p].parent # Runner
                \/ table'[p] = Free(table[p].birth) /\ table[p].zombie
                \/ table'[p] = [table[p] EXCEPT !.parent = Nobody]
                   /\ ~table[p].zombie /\ table[p].parent = Runner
  <2>1. table[p] \in ProcessType /\ table[p].birth \in Nat
      BY ProcessFacts DEF ProcessType
  <2>2. \/ table'[p] = table[p] /\ table[p].parent # Runner
        \/ table'[p] = Free(table[p].birth) /\ table[p].zombie
        \/ table'[p] = [table[p] EXCEPT !.parent = Nobody]
           /\ ~table[p].zombie /\ table[p].parent = Runner
      BY <1>1
  <2>3. [table[p] EXCEPT !.parent = Nobody] \in ProcessType
      BY <2>1 DEF ProcessType
  <2> QED
      BY <2>1, <2>2, <2>3, FreeIs
<1>3. table' \in [Pids -> ProcessType]
  <2>1. table' = [p \in Pids |-> table'[p]]
      BY <1>1
  <2> QED
      BY <1>2, <2>1
<1>4. ASSUME NEW p \in Pids, IsLive(p)
      PROVE  IsLive(p)' /\ table'[p].who = table[p].who
             /\ table'[p].group = table[p].group
    BY <1>2, <1>4, ProcessFacts DEF IsLive, IsFree, ProcessType
<1>5. ASSUME NEW p \in Pids PROVE ProcessIsSound(p)'
  <2>1. ProcessIsSound(p) /\ table[p] \in ProcessType /\ table[p].birth \in Nat
      BY ProcessFacts DEF ProcessType
  <2>2. CASE table'[p] = table[p] /\ table[p].parent # Runner
      BY <1>4, <2>1, <2>2 DEF ProcessIsSound
  <2>3. CASE table'[p] = Free(table[p].birth)
      BY <2>1, <2>3, FreeIs, Numbers DEF ProcessIsSound
  <2>4. CASE table'[p] = [table[p] EXCEPT !.parent = Nobody]
             /\ ~table[p].zombie /\ table[p].parent = Runner
    <3>1. /\ table'[p].who = table[p].who /\ table'[p].parent = Nobody
          /\ table'[p].zombie = FALSE /\ table'[p].group = table[p].group
        BY <2>1, <2>4 DEF ProcessType
    <3>2. table[p].who # "none"
        BY <2>1, <2>4, FreeIs, Numbers DEF ProcessIsSound
    <3> QED
        BY <2>1, <3>1, <3>2, Numbers DEF ProcessIsSound
  <2> QED
      BY <1>2, <2>2, <2>3, <2>4
<1>6. ASSUME NEW p \in Pids, IsStage(p)'
      PROVE  /\ IsStage(p)
             /\ table'[p].who = table[p].who /\ table'[p].group = table[p].group
             /\ table'[p].parent \in {table[p].parent, Nobody}
  <2>1. table[p] \in ProcessType /\ table[p].birth \in Nat
      BY ProcessFacts DEF ProcessType
  <2>2. table'[p] # Free(table[p].birth)
      BY <1>6, <2>1, FreeIs DEF IsStage, IsFree
  <2> QED
      BY <1>2, <1>6, <2>1, <2>2 DEF IsStage, IsFree, ProcessType
<1> QED
    BY <1>1, <1>3, <1>5, <1>6, LessOfStage

LEMMA RestartSound == ASSUME StageInv, Restart PROVE StageInv'
<1>1. /\ sup = "lost" /\ sup' = "idle" /\ ~(IsLive(stage) /\ IsStage(stage))
      /\ UNCHANGED <<table, receipt, stage, launched, hit>>
    BY DEF Restart
\* A dead leader is nobody's zombie.
<1>2. ASSUME NEW p \in Pids, IsStage(p) PROVE p # stage
  <2>1. SUFFICES ASSUME p = stage PROVE FALSE
      OBVIOUS
  <2>2. table[p].zombie /\ table[p].parent = Runner
      BY <1>1, <1>2, <2>1, ProcessFacts
      DEF IsLive, IsStage, ProcessIsSound, StageIsKnown
  <2> QED
      BY <1>1, <2>2, ProcessFacts DEF ProcessIsSound, Holding
<1>3. \A p \in Pids : ProcessIsSound(p)'
    BY <1>1, ProcessFacts DEF ProcessIsSound, Holding, IsLive, IsFree
<1> QED
    BY <1>1, <1>2, <1>3, LessOfStage DEF StageInv, StageTyped, IsStage, IsFree
-----------------------------------------------------------------------------
(* What the processes do                                                   *)

LEMMA RegisterSound ==
    ASSUME StageInv, NEW p \in Pids, Register(p) PROVE StageInv'
<1>1. /\ IsLive(p) /\ IsStage(p) /\ table[p].group = p /\ ~Residual
      /\ receipt' = [pid |-> p, birth |-> table[p].birth, status |-> "active"]
      /\ UNCHANGED <<table, sup, stage, launched, hit>>
    BY DEF Register
<1>2. p = stage /\ table[p].birth \in Nat
    BY <1>1, ProcessFacts DEF StageIsKnown, ProcessType
<1>3. StageTyped'
    BY <1>1, <1>2 DEF StageInv, StageTyped
<1>4. ASSUME NEW q \in Pids PROVE ProcessIsSound(q)' /\ StageIsKnown(q)'
    BY <1>1, <1>2, ProcessFacts
    DEF ProcessIsSound, StageIsKnown, IsStage, IsLive, IsFree
<1> QED
    BY <1>3, <1>4 DEF StageInv

LEMMA ForkSound ==
    ASSUME StageInv, NEW p \in Pids, NEW q \in Pids, Fork(p, q),
           table[p].group = p => Registered(p),
           UNCHANGED <<receipt, sup, stage, launched, hit>>
    PROVE  StageInv'
<1>1. PICK deaf \in BOOLEAN, pipe \in {FALSE, table[p].pipe} :
        table' = [table EXCEPT ![q] =
            Process(table[p].who, q, p, table[p].group, pipe, deaf)]
    BY DEF Fork
<1> DEFINE new == Process(table[p].who, q, p, table[p].group, pipe, deaf)
<1>2. /\ MayTake(q) /\ IsLive(p) /\ IsStage(p) /\ p # q
      /\ table[p] \in ProcessType
    BY ProcessFacts DEF Fork, Runs, MayTake, IsLive, IsStage
\* The parent is of the stage, so the child is, and the receipt names it.
<1>3. /\ launched > 0 /\ table[p].who = Programs[launched]
      /\ table[p].group = stage /\ sup # "mark"
      /\ receipt.status = "active" /\ receipt.pid = stage
      /\ stage \in Pids
  <2>1. StageIsKnown(p)
      BY ProcessFacts
  <2>2. p = stage => receipt.status = "active" /\ receipt.pid = stage
      BY <1>2, <2>1 DEF StageIsKnown, Registered
  <2> QED
      BY <1>2, <2>1, <2>2 DEF StageIsKnown
<1>4. /\ new \in ProcessType /\ new.who = table[p].who /\ new.parent = p
      /\ new.group = stage /\ new.zombie = FALSE
      /\ new.who \notin {"none", "stranger"}
  <2>1. table[p].who \in Whos /\ pipe \in BOOLEAN /\ table[p].group \in Pids
      BY <1>2, <1>3 DEF ProcessType
  <2>2. table[p].who \notin {"none", "stranger"}
      BY <1>2 DEF IsStage, IsFree
  <2>3. table[q].birth + 1 \in Nat
      BY ProcessFacts DEF ProcessType
  <2> QED
      BY <1>3, <2>1, <2>2, <2>3 DEF Process, ProcessType
<1> HIDE DEF new
<1>5. table' = [table EXCEPT ![q] = new] /\ table \in [Pids -> ProcessType]
    BY <1>1 DEF new, StageInv, StageTyped
<1>6. ASSUME NEW r \in Pids, r # q
      PROVE  table'[r] = table[r] /\ ProcessIsSound(r)'
    BY <1>2, <1>4, <1>5, <1>6, TakeIsSound
<1>7. ProcessIsSound(q)'
  <2>1. table'[q] = new /\ table'[p] = table[p]
      BY <1>2, <1>5, <1>6
  <2>2. IsLive(p)'
      BY <1>2, <2>1 DEF IsLive, IsFree
  <2> QED
      BY <1>3, <1>4, <2>1, <2>2, Numbers DEF ProcessIsSound
<1>8. q # stage
    BY <1>2, <1>3 DEF MayTake, IsStage
<1>9. ASSUME NEW r \in Pids PROVE StageIsKnown(r)'
  <2>1. CASE r = q
    <3>1. table'[q] = new
        BY <1>5
    <3> QED
        BY <1>3, <1>4, <1>8, <2>1, <3>1 DEF StageIsKnown
  <2>2. CASE r # q
      BY <1>6, <2>2, ProcessFacts DEF StageIsKnown, IsStage, IsFree
  <2> QED
      BY <2>1, <2>2
<1>10. StageTyped'
    BY <1>4, <1>5 DEF StageInv, StageTyped
<1> QED
    BY <1>6, <1>7, <1>9, <1>10 DEF StageInv

LEMMA ReuseSound ==
    ASSUME StageInv, NEW q \in Pids, Reuse(q),
           UNCHANGED <<receipt, sup, stage, launched, hit>>
    PROVE  StageInv'
<1> DEFINE new == Process("stranger", q, Nobody, q, FALSE, FALSE)
<1>1. /\ new \in ProcessType /\ new.who = "stranger" /\ new.parent = Nobody
      /\ new.group = q /\ new.zombie = FALSE
  <2>1. table[q].birth + 1 \in Nat
      BY ProcessFacts DEF ProcessType
  <2> QED
      BY <2>1 DEF Process, ProcessType, Whos
<1>2. MayTake(q) /\ table' = [table EXCEPT ![q] = new]
      /\ table \in [Pids -> ProcessType]
    BY DEF Reuse, StageInv, StageTyped
<1> HIDE DEF new
<1>3. ASSUME NEW r \in Pids, r # q
      PROVE  table'[r] = table[r] /\ ProcessIsSound(r)'
    BY <1>1, <1>2, <1>3, TakeIsSound
<1>4. ProcessIsSound(q)'
    BY <1>1, <1>2, Numbers DEF ProcessIsSound
<1>5. ASSUME NEW r \in Pids, IsStage(r)'
      PROVE  IsStage(r) /\ table'[r] = table[r]
    BY <1>1, <1>2, <1>3, <1>5 DEF IsStage, IsFree
<1>6. table' \in [Pids -> ProcessType]
    BY <1>1, <1>2
<1>7. \A r \in Pids : IsStage(r) => sup # "mark" /\ (sup = "idle" => r # stage)
    BY ProcessFacts DEF StageIsKnown
<1> QED
    BY <1>3, <1>4, <1>5, <1>6, <1>7, LessOfStage DEF StageInv, StageTyped

LEMMA OthersSound == ASSUME StageInv, Others PROVE StageInv'
<1>1. UNCHANGED <<receipt, sup, stage, launched, hit>>
    BY DEF Others
<1>2. ASSUME NEW p \in Pids, NEW q \in Pids,
             table[p].group = p => Registered(p), Fork(p, q)
      PROVE  StageInv'
    BY <1>1, <1>2, ForkSound
<1>3. ASSUME NEW S \in SUBSET Pids, NEW W \in SUBSET Pids,
             \A p \in S : IsLive(p) /\ table[p].who # "stranger",
             \A p \in W : table[p].zombie /\ table[p].parent # Runner,
             table' = After(S, W)
      PROVE  StageInv'
  <2>1. sup' \in Holding \/ \A p \in Pids \ W : table[p].parent # Runner
      BY <1>1, ProcessFacts DEF ProcessIsSound
  <2>2. \A p \in Pids : IsStage(p) => sup # "mark" /\ (sup = "idle" => p # stage)
      BY ProcessFacts DEF StageIsKnown
  <2>3. /\ table' \in [Pids -> ProcessType]
        /\ \A p \in Pids : ProcessIsSound(p)'
        /\ \A p \in Pids : IsStage(p)' =>
             /\ IsStage(p) /\ p \notin W
             /\ table'[p].who = table[p].who /\ table'[p].group = table[p].group
             /\ table'[p].parent \in {table[p].parent, Nobody}
      BY <1>1, <1>3, <2>1, AfterIsSound
  <2> QED
      BY <1>1, <2>2, <2>3, LessOfStage DEF StageInv, StageTyped
<1>4. ASSUME NEW p \in Pids, Exit(p) PROVE StageInv'
    BY <1>3, <1>4 DEF Exit, Runs
<1>5. ASSUME NEW p \in Pids, ReapChild(p) PROVE StageInv'
    BY <1>3, <1>5 DEF ReapChild
<1>6. ASSUME NEW p \in Pids, Reuse(p) PROVE StageInv'
    BY <1>1, <1>6, ReuseSound
<1> QED
    BY <1>2, <1>4, <1>5, <1>6 DEF Others

LEMMA StageStep == ASSUME StageInv, StageNext PROVE StageInv'
<1>1. CASE TermGroup
  <2>1. Hearing(Active) \in SUBSET Active
      BY DEF Hearing
  <2> QED
      BY <1>1, <2>1, SignalSound DEF TermGroup, Holding
<1>2. CASE KillGroup
    BY <1>2, SignalSound DEF KillGroup, Holding
<1> QED
    BY <1>1, <1>2, LaunchStageSound, BeginCleanupSound, ReapLeaderSound,
       MarkCleanedSound, SupervisorDiesSound, RestartSound, OthersSound,
       RegisterSound DEF StageNext

LEMMA StageStart == StageInit => StageInv
<1> SUFFICES ASSUME StageInit PROVE StageInv
    OBVIOUS
<1>1. \A p \in Pids : table[p] = Free(0)
    BY DEF StageInit, TableInit
<1>2. Free(0) \in ProcessType /\ Free(0).who = "none" /\ Free(0).parent = Nobody
      /\ ~Free(0).zombie /\ Free(0).birth = 0
    BY FreeIs
<1>3. StageTyped
    BY <1>2, Numbers DEF StageTyped, StageInit, TableInit, NoReceipt
<1>4. ASSUME NEW p \in Pids PROVE ProcessIsSound(p) /\ StageIsKnown(p)
    BY <1>1, <1>2, Numbers DEF ProcessIsSound, StageIsKnown, IsStage, IsFree
<1> QED
    BY <1>3, <1>4 DEF StageInv

(* The stage's processes are told from all others by its group: a signal    *)
(* reaches no other program, and no stage starts beside what is left of     *)
(* another, whichever supervisor is lost (_residual_stage_group, _cleanup). *)
THEOREM StageGroups == StageSpec => []StageGroupsAreExclusive
<1>1. ASSUME StageInv, [StageNext]_stageVars PROVE StageInv'
  <2>1. CASE UNCHANGED stageVars
    <3>1. StageTyped'
        BY <1>1, <2>1 DEF StageInv, StageTyped, stageVars
    <3>2. ASSUME NEW p \in Pids PROVE ProcessIsSound(p)' /\ StageIsKnown(p)'
        BY <1>1, <2>1, ProcessFacts
        DEF stageVars, ProcessIsSound, StageIsKnown, IsStage, IsLive, IsFree
    <3> QED
        BY <3>1, <3>2 DEF StageInv
  <2> QED
      BY <1>1, <2>1, StageStep
<1>2. StageInv => StageGroupsAreExclusive
  <2> SUFFICES ASSUME StageInv PROVE StageGroupsAreExclusive
      OBVIOUS
  <2>1. OnlyTheGroupIsSignalled
      BY DEF StageInv, StageTyped, OnlyTheGroupIsSignalled
  <2>2. StagesNeverOverlap
      BY DEF StageInv, StageIsKnown, StagesNeverOverlap
  <2> QED
      BY <2>1, <2>2 DEF StageGroupsAreExclusive
<1> QED
    BY <1>1, <1>2, StageStart, PTL DEF StageSpec

-----------------------------------------------------------------------------
(* C4Iteration: the inductive invariant                                    *)

Generations == 1..MaxGenerations
Actors == 0..(MaxGenerations + 1)
DecisionType ==
    [made : BOOLEAN, updated : BOOLEAN, actor : Actors, trained : Actors,
     stagnation : Nat, branch : {"normal", "lower"}, rich : BOOLEAN]
Busy == {"games", "fit", "audit", "groups", "arena", "decide"}
Chosen == {"select", "confirm", "final"}
IterationTyped ==
    /\ spec \in [Folders -> [actor : Actors, initial : Actors,
                             stagnation : Nat, bound : BOOLEAN]]
    /\ data \in [Folders -> {"none", "rich", "poor"}]
    /\ model \in [Folders -> [made : BOOLEAN, differs : BOOLEAN, lowered : BOOLEAN]]
    /\ evidence \in [Folders -> [audit : BOOLEAN,
                                 groups : {"none", "preserved", "worse"},
                                 arena : Arenas \union {"none"}]]
    /\ decision \in [Folders -> DecisionType]
    /\ selection \in [made : BOOLEAN, candidate : Actors, generations : Nat]
    /\ confirmation \in {"none", "starts", "missing"}
    /\ finals \subseteq Baselines /\ result \in BOOLEAN
    /\ run \in [pc : {"down", "failed", "spec", "take", "next"} \union Busy \union Chosen,
                at : Folders, actor : Actors, start : Actors, stagnation : Nat,
                decisions : Seq(DecisionType)]
    /\ stop \in BOOLEAN /\ stops \in 0..MaxStops

\* What generation i is to begin with, and whether it comes at all, is decided
\* by the generation before it.
FirstModel(i) == IF i = 1 THEN Candidate(0) ELSE Before(i)
StagnationBefore(i) == IF i = 1 THEN 0 ELSE decision[i - 1].stagnation
Comes(i) ==
    i <= MinGenerations \/
        /\ decision[i - 1].rich
        /\ decision[i - 1].updated \/ decision[i - 1].stagnation < 3
Ended(n) == n = MaxGenerations \/ ~Comes(n + 1)

Bootstrap == /\ spec[0] \in {NoSpec, [NoSpec EXCEPT !.bound = TRUE]}
             /\ ~Made(0)
SpecFits(i) ==
    IF spec[i].bound
    THEN /\ \A k \in 1..(i - 1) : Made(k)
         /\ spec[i].actor = Before(i) /\ spec[i].initial = FirstModel(i)
         /\ spec[i].stagnation = StagnationBefore(i)
         /\ Comes(i)
    ELSE spec[i] = NoSpec
FitFits(i) ==
    model[i].made =>
        spec[i].bound /\ (model[i].lowered <=> spec[i].stagnation >= 2)
DecisionFits(i) ==
    Made(i) =>
        /\ spec[i].bound
        /\ decision[i].updated <=> Admitted(i)
        /\ decision[i].trained = Candidate(i)
        /\ decision[i].actor = IF Admitted(i) THEN Candidate(i) ELSE Before(i)
        /\ decision[i].branch = "lower" <=> decision[i].stagnation >= 2
\* The actor is the latest model that was admitted.
ActorIsLatest(i) ==
    Made(i) =>
        \/ /\ decision[i].actor = Initial
           /\ \A k \in 1..i : ~decision[k].updated
        \/ \E k \in 1..i : /\ decision[k].updated
                           /\ decision[i].actor = Candidate(k)
                           /\ \A j \in (k + 1)..i : ~decision[j].updated
FolderFits(i) == SpecFits(i) /\ FitFits(i) /\ DecisionFits(i) /\ ActorIsLatest(i)

\* How many decisions execute has been through.
Passed == IF run.pc \in Chosen \union {"next"} \/ run.at = 0
          THEN run.at ELSE run.at - 1
RunKnows ==
    run.pc \notin {"down", "failed"} =>
        /\ Len(run.decisions) = Passed
        /\ \A k \in 1..Passed : Made(k) /\ run.decisions[k] = decision[k]
        /\ run.actor = IF Passed = 0 THEN Initial ELSE decision[Passed].actor
        /\ run.stagnation = IF Passed = 0 THEN 0 ELSE decision[Passed].stagnation
        /\ run.at > 0 \/ run.pc = "next" =>
             run.start = IF Passed = 0 THEN Candidate(0) ELSE decision[Passed].actor
RunIsPlaced ==
    /\ run.pc = "spec" /\ run.at > 0 => Comes(run.at)
    /\ run.pc \in Busy => spec[run.at].bound /\ ~Made(run.at)
    /\ run.pc \in Busy \ {"games", "fit"} => run.at > 0
    /\ run.pc = "take" => Made(run.at)
    /\ run.pc \in Chosen => run.at > 0 /\ Ended(run.at)
    /\ run.pc \in {"confirm", "final"} => selection.made
    /\ run.pc = "final" => confirmation # "none"
Choice(n) ==
    IF decision[n].actor = Initial THEN decision[n].trained ELSE decision[n].actor
SelectionFits ==
    IF selection.made
    THEN LET n == selection.generations IN
         /\ n \in Generations /\ Made(n) /\ Ended(n)
         /\ selection.candidate = Choice(n)
    ELSE selection = NoSelection
EndFits ==
    /\ confirmation # "none" \/ finals # {} => selection.made
    /\ result => finals = Baselines /\ confirmation # "none"

IterationInv ==
    /\ IterationTyped /\ Bootstrap /\ \A i \in Generations : FolderFits(i)
    /\ RunKnows /\ RunIsPlaced /\ RestartsAgree /\ SelectionFits /\ EndFits
-----------------------------------------------------------------------------
(* What the files keep                                                     *)

LEMMA GenerationsAre ==
    /\ MinGenerations \in Nat /\ MaxGenerations \in Nat
    /\ 1 <= MinGenerations /\ MinGenerations <= MaxGenerations
    /\ MaxStops \in Nat
    /\ Folders = 0..MaxGenerations
    /\ Generations = 1..MaxGenerations
    /\ \A i \in Folders : i \in Nat /\ i <= MaxGenerations
                          /\ Candidate(i) \in Actors /\ Candidate(i) = i + 1
    /\ \A i \in Generations : i \in Folders /\ i - 1 \in Folders
    /\ Initial = 0 /\ Initial \in Actors /\ 0 \in Folders /\ 1 \in Generations
BY IterationAssumption DEF Folders, Generations, Candidate, Actors, Initial

LEMMA RunIs ==
    ASSUME IterationInv
    PROVE  /\ run.at \in Folders /\ run.at \in Nat /\ run.actor \in Actors
           /\ run.start \in Actors /\ run.stagnation \in Nat
           /\ run.decisions \in Seq(DecisionType)
           /\ run.pc \in {"down", "failed", "spec", "take", "next"}
                         \union Busy \union Chosen
           /\ run = [pc |-> run.pc, at |-> run.at, actor |-> run.actor,
                     start |-> run.start, stagnation |-> run.stagnation,
                     decisions |-> run.decisions]
<1>1. run \in [pc : {"down", "failed", "spec", "take", "next"} \union Busy \union Chosen,
               at : Folders, actor : Actors, start : Actors, stagnation : Nat,
               decisions : Seq(DecisionType)]
    BY DEF IterationInv, IterationTyped
<1> QED
    BY <1>1, GenerationsAre

LEMMA GoIs ==
    ASSUME IterationInv, NEW pc, Go(pc),
           pc \in {"down", "failed", "spec", "take", "next"} \union Busy \union Chosen
    PROVE  /\ run' \in [pc : {"down", "failed", "spec", "take", "next"}
                             \union Busy \union Chosen,
                        at : Folders, actor : Actors, start : Actors,
                        stagnation : Nat, decisions : Seq(DecisionType)]
           /\ run'.pc = pc /\ run'.at = run.at /\ run'.actor = run.actor
           /\ run'.start = run.start /\ run'.stagnation = run.stagnation
           /\ run'.decisions = run.decisions
<1>1. run' = [pc |-> pc, at |-> run.at, actor |-> run.actor,
              start |-> run.start, stagnation |-> run.stagnation,
              decisions |-> run.decisions]
    BY RunIs DEF Go
<1> QED
    BY <1>1, RunIs

LEMMA DecisionIs ==
    ASSUME IterationInv, NEW i \in Folders
    PROVE  /\ decision[i] \in DecisionType
           /\ decision[i].actor \in Actors /\ decision[i].stagnation \in Nat
           /\ decision[i].trained \in Actors
           /\ Made(i) \in BOOLEAN /\ decision[i].updated \in BOOLEAN
BY DEF IterationInv, IterationTyped, DecisionType, Made

\* A decision settles its folder: what is written later belongs to folders
\* without one.
LEMMA FolderKept ==
    ASSUME IterationInv, NEW i \in Generations,
           UNCHANGED <<spec, decision>>,
           Made(i) => evidence'[i] = evidence[i],
           \/ model'[i] = model[i]
           \/ spec[i].bound /\ (model'[i].lowered <=> spec[i].stagnation >= 2)
    PROVE  FolderFits(i)'
<1>1. FolderFits(i)
    BY DEF IterationInv
<1>2. SpecFits(i)'
    BY <1>1 DEF FolderFits, SpecFits, FirstModel, StagnationBefore, Comes, Before,
       Made
<1>3. FitFits(i)'
    BY <1>1 DEF FolderFits, FitFits
<1>4. DecisionFits(i)'
    BY <1>1 DEF FolderFits, DecisionFits, Made, Admitted, Before
<1>5. ActorIsLatest(i)'
    BY <1>1 DEF FolderFits, ActorIsLatest, Made
<1> QED
    BY <1>2, <1>3, <1>4, <1>5 DEF FolderFits

LEMMA FilesStay ==
    ASSUME IterationInv, UNCHANGED files
    PROVE  /\ Bootstrap' /\ \A i \in Generations : FolderFits(i)'
           /\ SelectionFits' /\ EndFits'
<1>1. \A i \in Generations : FolderFits(i)'
    BY FolderKept DEF files
<1>2. Bootstrap' /\ SelectionFits' /\ EndFits'
    BY DEF files, IterationInv, Bootstrap, Made, SelectionFits, Ended, Comes, Choice,
       EndFits
<1> QED
    BY <1>1, <1>2

LEMMA ChoiceKept ==
    ASSUME IterationInv, UNCHANGED <<spec, decision, selection>>
    PROVE  SelectionFits' /\ Bootstrap'
BY DEF IterationInv, Bootstrap, Made, SelectionFits, Ended, Comes, Choice

\* Decisions are made in order, so that the one after a settled run is none.
LEMMA MadeInOrder ==
    ASSUME IterationInv, NEW i \in Generations, NEW k \in 1..i, Made(i)
    PROVE  Made(k) /\ k \in Generations
<1>1. spec[i].bound /\ \A j \in 1..(i - 1) : Made(j)
    BY DEF IterationInv, FolderFits, DecisionFits, SpecFits
<1> QED
    BY <1>1, GenerationsAre

LEMMA NothingAfterEnd ==
    ASSUME IterationInv, NEW n \in Generations, Made(n), Ended(n),
           NEW i \in Generations, Made(i)
    PROVE  i <= n
<1> SUFFICES ASSUME ~(i <= n) PROVE FALSE
    OBVIOUS
<1>1. n + 1 \in 1..i /\ n \in Nat /\ i \in Nat /\ n # MaxGenerations
    BY GenerationsAre
<1>2. Made(n + 1) /\ n + 1 \in Generations
    BY <1>1, MadeInOrder
<1>3. Comes(n + 1)
    BY <1>2 DEF IterationInv, FolderFits, DecisionFits, SpecFits
<1> QED
    BY <1>1, <1>3 DEF Ended

\* A step of execute inside a folder, or after the last.
LEMMA GoKeeps ==
    ASSUME IterationInv, NEW pc, Go(pc), run.pc \notin {"down", "failed"},
           \/ pc \in {"take"} \union Busy /\ run.pc \in {"spec"} \union Busy
           \/ pc \in Chosen /\ run.pc \in {"next"} \union Chosen /\ run.at > 0,
           \A k \in 1..Passed : decision'[k] = decision[k]
    PROVE  RunKnows'
<1>1. pc \in {"down", "failed", "spec", "take", "next"} \union Busy \union Chosen
    OBVIOUS
<1>2. /\ run'.pc = pc /\ run'.at = run.at /\ run'.actor = run.actor
      /\ run'.start = run.start /\ run'.stagnation = run.stagnation
      /\ run'.decisions = run.decisions
    BY <1>1, GoIs
<1>3. Passed' = Passed /\ Passed \in Nat
  <2>1. run.at = 0 \/ run.at - 1 \in Nat
      BY RunIs
  <2> QED
      BY <1>2, <2>1, RunIs DEF Passed, Busy, Chosen
<1>4. RunKnows
    BY DEF IterationInv
<1>5. /\ Len(run.decisions) = Passed
      /\ \A k \in 1..Passed : Made(k) /\ run.decisions[k] = decision[k]
      /\ run.actor = IF Passed = 0 THEN Initial ELSE decision[Passed].actor
      /\ run.stagnation = IF Passed = 0 THEN 0 ELSE decision[Passed].stagnation
      /\ run.at > 0 \/ run.pc = "next" =>
           run.start = IF Passed = 0 THEN Candidate(0) ELSE decision[Passed].actor
    BY <1>4 DEF RunKnows
<1>6. Passed # 0 => decision'[Passed] = decision[Passed]
    BY <1>3
<1>7. pc # "next"
    BY DEF Busy, Chosen
<1>8. \A k \in 1..Passed : Made(k)' /\ run.decisions[k] = decision'[k]
    BY <1>5 DEF Made
<1> QED
    BY <1>2, <1>3, <1>5, <1>6, <1>7, <1>8 DEF RunKnows
-----------------------------------------------------------------------------
(* The steps of execute                                                    *)

LEMMA LaunchSound == ASSUME IterationInv, Launch PROVE IterationInv'
<1>1. /\ UNCHANGED <<files, stops>> /\ stop' = FALSE /\ ~result
      /\ run' = [pc |-> "spec", at |-> 0, actor |-> Initial, start |-> Initial,
                 stagnation |-> 0, decisions |-> <<>>]
    BY DEF Launch, Down
<1>2. IterationTyped'
  <2>1. <<>> \in Seq(DecisionType)
      OBVIOUS
  <2>2. run' \in [pc : {"down", "failed", "spec", "take", "next"}
                       \union Busy \union Chosen,
                  at : Folders, actor : Actors, start : Actors,
                  stagnation : Nat, decisions : Seq(DecisionType)]
      BY <1>1, <2>1, GenerationsAre
  <2> QED
      BY <1>1, <2>2 DEF IterationInv, IterationTyped, files
<1>3. RunKnows'
  <2>1. Passed' = 0
      BY <1>1 DEF Passed, Chosen
  <2> QED
      BY <1>1, <2>1 DEF RunKnows
<1>4. RunIsPlaced' /\ RestartsAgree'
    BY <1>1 DEF RunIsPlaced, RestartsAgree, Busy, Chosen
<1> QED
    BY <1>1, <1>2, <1>3, <1>4, FilesStay DEF IterationInv

\* What BindSpec would write is what the decision before says, so that a file
\* that is there is the same.
LEMMA SpecIsExpected ==
    ASSUME IterationInv, run.pc = "spec", run.at > 0
    PROVE  /\ run.at \in Generations /\ Passed = run.at - 1
           /\ \A k \in 1..(run.at - 1) : Made(k)
           /\ SpecOf(run.at) = [actor |-> Before(run.at), initial |-> FirstModel(run.at),
                                stagnation |-> StagnationBefore(run.at), bound |-> TRUE]
<1>1. run.at \in Generations /\ Passed = run.at - 1
    BY RunIs, GenerationsAre DEF Passed, Chosen
<1>2. RunKnows
    BY DEF IterationInv
<1>3. /\ \A k \in 1..(run.at - 1) : Made(k)
      /\ run.actor = Before(run.at) /\ run.start = FirstModel(run.at)
      /\ run.stagnation = StagnationBefore(run.at)
    BY <1>1, <1>2, GenerationsAre DEF RunKnows, Before, FirstModel, StagnationBefore
<1> QED
    BY <1>1, <1>3 DEF SpecOf

LEMMA BindSpecSound == ASSUME IterationInv, BindSpec PROVE IterationInv'
<1> DEFINE i == run.at
<1>1. /\ run.pc = "spec" /\ i \in Folders
      /\ UNCHANGED <<data, model, evidence, decision, selection, confirmation,
                     finals, result, stop, stops>>
    BY RunIs DEF BindSpec
<1>2. /\ SpecOf(i).bound = TRUE
      /\ SpecOf(i) \in [actor : Actors, initial : Actors, stagnation : Nat,
                        bound : BOOLEAN]
    BY RunIs, GenerationsAre DEF SpecOf, NoSpec
<1>3. spec[i] \in {NoSpec, SpecOf(i)}
  <2>1. CASE i = 0
      BY <2>1 DEF IterationInv, Bootstrap, SpecOf
  <2>2. CASE i # 0
    <3>1. i > 0 /\ i \in Generations
        BY <1>1, <2>2, GenerationsAre
    <3>2. SpecFits(i)
        BY <3>1 DEF IterationInv, FolderFits
    <3>3. spec[i].bound =>
            spec[i] = [actor |-> Before(i), initial |-> FirstModel(i),
                       stagnation |-> StagnationBefore(i), bound |-> TRUE]
      <4>1. spec[i] \in [actor : Actors, initial : Actors, stagnation : Nat,
                         bound : BOOLEAN]
          BY <1>1 DEF IterationInv, IterationTyped
      <4> QED
          BY <3>2, <4>1 DEF SpecFits
    <3>4. SpecOf(i) = [actor |-> Before(i), initial |-> FirstModel(i),
                       stagnation |-> StagnationBefore(i), bound |-> TRUE]
        BY <1>1, <3>1, SpecIsExpected
    <3> QED
        BY <3>2, <3>3, <3>4 DEF SpecFits
  <2> QED
      BY <2>1, <2>2
<1>4. /\ spec' = [spec EXCEPT ![i] = SpecOf(i)]
      /\ Go(IF decision[i].made THEN "take" ELSE "games")
    BY <1>3 DEF BindSpec, i0
<1> DEFINE pc == IF decision[i].made THEN "take" ELSE "games"
<1>5. /\ pc \in {"take"} \union Busy /\ Go(pc)
      /\ pc \in {"down", "failed", "spec", "take", "next"} \union Busy \union Chosen
    BY <1>4 DEF Busy
<1>6. /\ run' \in [pc : {"down", "failed", "spec", "take", "next"}
                        \union Busy \union Chosen,
                   at : Folders, actor : Actors, start : Actors,
                   stagnation : Nat, decisions : Seq(DecisionType)]
      /\ run'.pc = pc /\ run'.at = i
    BY <1>5, GoIs
<1>7. RunKnows'
  <2>1. \A k \in 1..Passed : decision'[k] = decision[k]
      BY <1>1
  <2>2. pc \in {"take"} \union Busy /\ run.pc \in {"spec"} \union Busy
        /\ run.pc \notin {"down", "failed"}
      BY <1>1, <1>5
  <2> HIDE DEF pc
  <2> QED
      BY <1>5, <2>1, <2>2, GoKeeps, Zenon
<1>8. spec' \in [Folders -> [actor : Actors, initial : Actors,
                             stagnation : Nat, bound : BOOLEAN]]
      /\ DOMAIN spec = Folders
    BY <1>2, <1>4 DEF IterationInv, IterationTyped
<1>9. IterationTyped'
    BY <1>1, <1>6, <1>8 DEF IterationInv, IterationTyped
\* Either the file was there, or nothing of the folder was.
<1>10. ASSUME NEW j \in Generations PROVE FolderFits(j)'
  <2>1. FolderFits(j)
      BY DEF IterationInv
  <2>2. CASE spec'[j] = spec[j]
    <3>1. SpecFits(j)'
        BY <1>1, <2>1, <2>2
        DEF FolderFits, SpecFits, FirstModel, StagnationBefore, Comes, Before, Made
    <3>2. FitFits(j)'
        BY <1>1, <2>1, <2>2 DEF FolderFits, FitFits
    <3>3. DecisionFits(j)'
        BY <1>1, <2>1, <2>2 DEF FolderFits, DecisionFits, Made, Admitted, Before
    <3>4. ActorIsLatest(j)'
        BY <1>1, <2>1 DEF FolderFits, ActorIsLatest, Made
    <3> QED
        BY <3>1, <3>2, <3>3, <3>4 DEF FolderFits
  <2>3. CASE spec'[j] # spec[j]
    <3>1. j = i /\ spec'[j] = SpecOf(i) /\ spec[j] = NoSpec /\ i > 0
        BY <1>1, <1>3, <1>4, <1>8, <2>3, GenerationsAre
    <3>2. ~Made(j) /\ ~model[j].made
        BY <2>1, <3>1 DEF FolderFits, DecisionFits, FitFits, NoSpec
    <3>3. SpecFits(j)'
      <4>1. Comes(j)
          BY <1>1, <3>1 DEF IterationInv, RunIsPlaced
      <4> QED
          BY <1>1, <3>1, <4>1, SpecIsExpected
          DEF SpecFits, FirstModel, StagnationBefore, Comes, Before, Made
    <3>4. FitFits(j)' /\ DecisionFits(j)' /\ ActorIsLatest(j)'
        BY <1>1, <3>2 DEF FitFits, DecisionFits, ActorIsLatest, Made
    <3> QED
        BY <3>3, <3>4 DEF FolderFits
  <2> QED
      BY <2>2, <2>3
<1>11. Bootstrap'
  <2>1. ~Made(0)'
      BY <1>1 DEF IterationInv, Bootstrap, Made
  <2>2. i = 0 => SpecOf(i) = [NoSpec EXCEPT !.bound = TRUE]
      BY DEF SpecOf
  <2>3. spec'[0] \in {NoSpec, [NoSpec EXCEPT !.bound = TRUE]}
      BY <1>4, <1>8, <2>2, GenerationsAre DEF IterationInv, Bootstrap
  <2> QED
      BY <2>1, <2>3 DEF Bootstrap
<1>12. RunIsPlaced'
  <2>1. pc = "take" => Made(i)'
      BY <1>1, <1>6 DEF Made
  <2>2. pc = "games" => spec'[i].bound /\ ~Made(i)'
      BY <1>1, <1>2, <1>4, <1>6, <1>8 DEF Made
  <2>3. pc = "take" \/ pc = "games"
      OBVIOUS
  <2> HIDE DEF pc
  <2> QED
      BY <1>6, <2>1, <2>2, <2>3 DEF RunIsPlaced, Busy, Chosen
<1>13. RestartsAgree'
  <2>1. run'.pc # "failed"
      BY <1>5, <1>6 DEF Busy
  <2> QED
      BY <2>1 DEF RestartsAgree
<1>14. SelectionFits' /\ EndFits'
    BY <1>1 DEF IterationInv, SelectionFits, Ended, Comes, Choice, Made, EndFits
<1> QED
    BY <1>7, <1>9, <1>10, <1>11, <1>12, <1>13, <1>14 DEF IterationInv

\* A step inside a folder that leaves its spec and the decisions alone.
LEMMA InsideSound ==
    ASSUME IterationInv, NEW pc, Go(pc), run.pc \in Busy, pc \in Busy,
           pc \in {"games", "fit"} \/ run.at > 0,
           IterationTyped',
           UNCHANGED <<spec, decision, selection, confirmation, finals, result>>,
           \A i \in Generations :
              /\ Made(i) => evidence'[i] = evidence[i]
              /\ \/ model'[i] = model[i]
                 \/ spec[i].bound /\ (model'[i].lowered <=> spec[i].stagnation >= 2)
    PROVE  IterationInv'
<1>1. run'.pc = pc /\ run'.at = run.at
    BY GoIs
<1>2. Bootstrap' /\ SelectionFits' /\ \A i \in Generations : FolderFits(i)'
    BY FolderKept, ChoiceKept
<1>3. RunKnows'
  <2>1. run.pc \notin {"down", "failed"}
      BY DEF Busy
  <2>2. \A k \in 1..Passed : decision'[k] = decision[k]
      OBVIOUS
  <2>3. pc \in {"take"} \union Busy /\ run.pc \in {"spec"} \union Busy
      OBVIOUS
  <2> QED
      BY <2>1, <2>2, <2>3, GoKeeps, Zenon
<1>4. RunIsPlaced'
    BY <1>1 DEF IterationInv, RunIsPlaced, Busy, Chosen, Made
<1>5. RestartsAgree' /\ EndFits'
    BY <1>1 DEF IterationInv, RestartsAgree, EndFits, Busy
<1> QED
    BY <1>2, <1>3, <1>4, <1>5 DEF IterationInv

LEMMA PlayAndLabelSound == ASSUME IterationInv, PlayAndLabel PROVE IterationInv'
<1>1. PICK labels \in (IF data[i0] = "none" THEN {"rich", "poor"} ELSE {data[i0]}) :
        data' = [data EXCEPT ![i0] = labels]
    BY DEF PlayAndLabel
<1>2. /\ run.pc = "games" /\ Go("fit")
      /\ UNCHANGED <<spec, model, evidence, decision, selection, confirmation,
                     finals, result, stop, stops>>
    BY DEF PlayAndLabel
<1>3. IterationTyped'
  <2>1. labels \in {"none", "rich", "poor"} /\ data \in [Folders -> {"none", "rich", "poor"}]
      BY <1>1, RunIs DEF IterationInv, IterationTyped, i0
  <2>2. data' \in [Folders -> {"none", "rich", "poor"}]
      BY <1>1, <2>1
  <2> QED
      BY <1>2, <2>2, GoIs DEF IterationInv, IterationTyped, Busy
<1> QED
    BY <1>2, <1>3, InsideSound DEF Busy

LEMMA FitSound == ASSUME IterationInv, Fit PROVE IterationInv'
<1> DEFINE i == run.at
<1>1. PICK differs \in (IF model[i].made THEN {model[i].differs} ELSE BOOLEAN) :
        model' = [model EXCEPT ![i] =
                     [made |-> TRUE, differs |-> differs, lowered |-> Lowered(i)]]
    BY DEF Fit, i0
<1>2. /\ run.pc = "fit" /\ i \in Folders /\ DOMAIN model = Folders
      /\ differs \in BOOLEAN
      /\ run' = IF ~model'[i].differs THEN [run EXCEPT !.pc = "failed"]
                ELSE IF i = 0 THEN [run EXCEPT !.pc = "next", !.start = Candidate(0)]
                ELSE [run EXCEPT !.pc = "audit"]
      /\ UNCHANGED <<spec, data, evidence, decision, selection, confirmation,
                     finals, result, stop, stops>>
  <2>1. model \in [Folders -> [made : BOOLEAN, differs : BOOLEAN, lowered : BOOLEAN]]
      BY DEF IterationInv, IterationTyped
  <2>2. model[i] \in [made : BOOLEAN, differs : BOOLEAN, lowered : BOOLEAN]
      BY <2>1, RunIs
  <2>3. differs \in BOOLEAN
      BY <1>1, <2>2
  <2> QED
      BY <2>1, <2>3, RunIs DEF Fit, i0
<1>3. /\ model'[i] = [made |-> TRUE, differs |-> differs, lowered |-> Lowered(i)]
      /\ \A j \in Folders : j # i => model'[j] = model[j]
      /\ model' \in [Folders -> [made : BOOLEAN, differs : BOOLEAN, lowered : BOOLEAN]]
    BY <1>1, <1>2 DEF IterationInv, IterationTyped, Lowered
<1>4. spec[i].bound /\ ~Made(i)
    BY <1>2 DEF IterationInv, RunIsPlaced, Busy
<1>5. \A j \in Generations :
        /\ Made(j) => evidence'[j] = evidence[j]
        /\ \/ model'[j] = model[j]
           \/ spec[j].bound /\ (model'[j].lowered <=> spec[j].stagnation >= 2)
    BY <1>2, <1>3, <1>4, GenerationsAre DEF Lowered
<1>6. CASE ~differs
  <2>1. Go("failed")
      BY <1>2, <1>3, <1>6 DEF Go
  <2>2. run'.pc = "failed" /\ IterationTyped'
      BY <1>2, <1>3, <2>1, GoIs DEF IterationInv, IterationTyped
  <2>3. RestartsAgree'
      BY <1>2, <1>3, <1>6 DEF RestartsAgree
  <2>4. RunKnows' /\ RunIsPlaced' /\ EndFits'
      BY <1>2, <2>2 DEF RunKnows, RunIsPlaced, Busy, Chosen, IterationInv, EndFits
  <2> QED
      BY <1>2, <1>5, <2>2, <2>3, <2>4, FolderKept, ChoiceKept DEF IterationInv
<1>7. CASE differs /\ i = 0
  <2>1. run' = [pc |-> "next", at |-> 0, actor |-> run.actor, start |-> Candidate(0),
                stagnation |-> run.stagnation, decisions |-> run.decisions]
    <3>1. run' = [run EXCEPT !.pc = "next", !.start = Candidate(0)]
        BY <1>2, <1>3, <1>7
    <3> QED
        BY <1>7, <3>1, RunIs
  <2>2. IterationTyped'
      BY SMTT(30), <1>2, <1>3, <2>1, RunIs, GenerationsAre DEF IterationInv, IterationTyped
  <2>3. RunKnows'
    <3>1. Passed = 0 /\ Passed' = 0
        BY <1>7, <2>1 DEF Passed, Chosen
    <3> QED
        BY <1>2, <2>1, <3>1 DEF IterationInv, RunKnows
  <2>4. RunIsPlaced' /\ RestartsAgree' /\ EndFits'
      BY <1>2, <2>1 DEF RunIsPlaced, RestartsAgree, Busy, Chosen, IterationInv, EndFits
  <2> QED
      BY <1>2, <1>5, <2>2, <2>3, <2>4, FolderKept, ChoiceKept DEF IterationInv
<1>8. CASE differs /\ i # 0
  <2>1. Go("audit") /\ run.at > 0
      BY <1>2, <1>3, <1>8, RunIs DEF Go
  <2>2. IterationTyped'
      BY <1>2, <1>3, <2>1, GoIs DEF IterationInv, IterationTyped, Busy
  <2> QED
      BY <1>2, <1>5, <2>1, <2>2, InsideSound DEF Busy
<1> QED
    BY <1>2, <1>6, <1>7, <1>8

LEMMA EvidenceSound ==
    ASSUME IterationInv, NEW pc, Go(pc),
           run.pc \in {"audit", "groups", "arena"}, pc \in {"groups", "arena", "decide"},
           NEW new \in [audit : BOOLEAN, groups : {"none", "preserved", "worse"},
                        arena : Arenas \union {"none"}],
           evidence' = [evidence EXCEPT ![run.at] = new],
           UNCHANGED <<spec, data, model, decision, selection, confirmation, finals,
                       result, stop, stops>>
    PROVE  IterationInv'
<1>1. run.at > 0 /\ ~Made(run.at) /\ run.at \in Folders
    BY RunIs DEF IterationInv, RunIsPlaced, Busy
<1>2. evidence' \in [Folders -> [audit : BOOLEAN, groups : {"none", "preserved", "worse"},
                                 arena : Arenas \union {"none"}]]
      /\ \A i \in Folders : Made(i) => evidence'[i] = evidence[i]
    BY <1>1 DEF IterationInv, IterationTyped
<1>3. IterationTyped'
    BY <1>2, GoIs DEF IterationInv, IterationTyped, Busy
<1> QED
    BY <1>1, <1>2, <1>3, InsideSound, GenerationsAre DEF Busy

LEMMA AuditSound == ASSUME IterationInv, Audit PROVE IterationInv'
<1>1. /\ run.pc = "audit" /\ Go("groups")
      /\ evidence' = [evidence EXCEPT ![run.at] = [evidence[run.at] EXCEPT !.audit = TRUE]]
    BY DEF Audit, i0
<1>2. [evidence[run.at] EXCEPT !.audit = TRUE]
        \in [audit : BOOLEAN, groups : {"none", "preserved", "worse"},
             arena : Arenas \union {"none"}]
  <2>1. evidence[run.at] \in [audit : BOOLEAN, groups : {"none", "preserved", "worse"},
                             arena : Arenas \union {"none"}]
      BY RunIs DEF IterationInv, IterationTyped
  <2> QED
      BY <1>1, <2>1 DEF i0
<1> QED
    BY <1>1, <1>2, EvidenceSound DEF Audit

LEMMA GroupsSound == ASSUME IterationInv, Groups PROVE IterationInv'
<1>1. PICK g \in (IF evidence[i0].groups = "none" THEN {"preserved", "worse"}
                  ELSE {evidence[i0].groups}) :
        evidence' = [evidence EXCEPT ![run.at] = [evidence[run.at] EXCEPT !.groups = g]]
    BY DEF Groups, i0
<1>2. [evidence[run.at] EXCEPT !.groups = g]
        \in [audit : BOOLEAN, groups : {"none", "preserved", "worse"},
             arena : Arenas \union {"none"}]
  <2>1. evidence[run.at] \in [audit : BOOLEAN, groups : {"none", "preserved", "worse"},
                             arena : Arenas \union {"none"}]
      BY RunIs DEF IterationInv, IterationTyped
  <2> QED
      BY <1>1, <2>1 DEF i0
<1> QED
    BY <1>1, <1>2, EvidenceSound DEF Groups

LEMMA CompareSound == ASSUME IterationInv, Compare PROVE IterationInv'
<1>1. PICK a \in (IF evidence[i0].arena = "none" THEN Arenas ELSE {evidence[i0].arena}) :
        evidence' = [evidence EXCEPT ![run.at] = [evidence[run.at] EXCEPT !.arena = a]]
    BY DEF Compare, i0
<1>2. [evidence[run.at] EXCEPT !.arena = a]
        \in [audit : BOOLEAN, groups : {"none", "preserved", "worse"},
             arena : Arenas \union {"none"}]
  <2>1. evidence[run.at] \in [audit : BOOLEAN, groups : {"none", "preserved", "worse"},
                             arena : Arenas \union {"none"}]
      BY RunIs DEF IterationInv, IterationTyped
  <2> QED
      BY <1>1, <2>1 DEF i0
<1> QED
    BY <1>1, <1>2, EvidenceSound DEF Compare

\* What a decision is made from is what stands in its folder and the decision
\* before it.
LEMMA DecideKnows ==
    ASSUME IterationInv, run.pc = "decide"
    PROVE  /\ run.at \in Generations /\ Passed = run.at - 1 /\ ~Made(run.at)
           /\ spec[run.at].bound
           /\ run.actor = Before(run.at)
           /\ run.at > 1 => Made(run.at - 1) /\ run.at - 1 \in Generations
           /\ \A k \in 1..Passed : Made(k)
           /\ Transition(run.at) \in DecisionType
<1>1. run.at > 0 /\ ~Made(run.at) /\ spec[run.at].bound
    BY DEF IterationInv, RunIsPlaced, Busy
<1>2. run.at \in Generations /\ Passed = run.at - 1
    BY <1>1, RunIs, GenerationsAre DEF Passed, Chosen
<1>3. /\ \A k \in 1..Passed : Made(k)
      /\ run.actor = IF Passed = 0 THEN Initial ELSE decision[Passed].actor
    BY DEF IterationInv, RunKnows
<1>4. /\ run.actor = Before(run.at)
      /\ run.at > 1 => Made(run.at - 1) /\ run.at - 1 \in Generations
    BY <1>2, <1>3, GenerationsAre DEF Before
<1>5. Transition(run.at) \in DecisionType
    BY <1>2, RunIs, GenerationsAre DEF Transition, DecisionType, Admitted
<1> QED
    BY <1>1, <1>2, <1>3, <1>4, <1>5

LEMMA DecideSound == ASSUME IterationInv, Decide PROVE IterationInv'
<1>1. /\ run.pc = "decide" /\ Go("take")
      /\ decision' = [decision EXCEPT ![run.at] = Transition(run.at)]
      /\ UNCHANGED <<spec, data, model, evidence, selection, confirmation, finals,
                     result, stop, stops>>
    BY DEF Decide, i0
<1>2. /\ run.at \in Generations /\ Passed = run.at - 1 /\ ~Made(run.at)
      /\ spec[run.at].bound
      /\ run.actor = Before(run.at)
      /\ run.at > 1 => Made(run.at - 1) /\ run.at - 1 \in Generations
      /\ \A k \in 1..Passed : Made(k)
      /\ Transition(run.at) \in DecisionType
    BY <1>1, DecideKnows
<1>3. PICK i \in Generations : i = run.at
    BY <1>2
<1>4. /\ decision' \in [Folders -> DecisionType]
      /\ decision'[i] = Transition(i)
      /\ \A j \in Folders : j # i => decision'[j] = decision[j]
      /\ i \in Nat /\ i > 0 /\ i \in Folders
    BY SMTT(30), <1>1, <1>2, <1>3, GenerationsAre DEF IterationInv, IterationTyped
<1>5. /\ Transition(i).made = TRUE /\ Transition(i).updated = Admitted(i)
      /\ Transition(i).trained = Candidate(i)
      /\ Transition(i).actor = IF Admitted(i) THEN Candidate(i) ELSE Before(i)
      /\ Transition(i).branch = IF Transition(i).stagnation >= 2
                                THEN "lower" ELSE "normal"
    BY <1>2, <1>3 DEF Transition
<1>6. /\ run'.pc = "take" /\ run'.at = i
      /\ IterationTyped'
    BY <1>1, <1>3, <1>4, GoIs DEF IterationInv, IterationTyped
<1>7. ASSUME NEW j \in Generations, Made(j)
      PROVE  /\ j # i /\ decision'[j] = decision[j]
             /\ \A k \in 1..j : k # i /\ decision'[k] = decision[k]
  <2>1. \A k \in 1..j : Made(k) /\ k \in Folders
      BY <1>7, MadeInOrder, GenerationsAre
  <2> QED
      BY <1>2, <1>3, <1>4, <1>7, <2>1, GenerationsAre
<1>8. RunKnows'
  <2>1. \A k \in 1..Passed : decision'[k] = decision[k]
      BY <1>2, <1>3, <1>4, GenerationsAre
  <2>2. "take" \in {"take"} \union Busy /\ run.pc \in {"spec"} \union Busy
        /\ run.pc \notin {"down", "failed"}
      BY <1>1 DEF Busy
  <2> QED
      BY <1>1, <2>1, <2>2, GoKeeps, Zenon
\* A folder whose files rest on a decision rests on one made before.
<1>9. ASSUME NEW j \in Generations PROVE SpecFits(j)'
  <2>1. SpecFits(j)
      BY DEF IterationInv, FolderFits
  <2>2. CASE ~spec[j].bound
      BY <1>1, <2>1, <2>2 DEF SpecFits
  <2>3. CASE spec[j].bound
    <3>1. \A k \in 1..(j - 1) : Made(k) /\ k \in Generations
        BY <2>1, <2>3, GenerationsAre DEF SpecFits
    <3>2. \A k \in 1..(j - 1) : decision'[k] = decision[k]
        BY <1>7, <3>1
    <3>3. j = 1 \/ j - 1 \in 1..(j - 1)
        BY GenerationsAre
    <3>4. j = 1 \/ decision'[j - 1] = decision[j - 1]
        BY <3>2, <3>3
    <3>5. j = 1 => Comes(j)'
        BY GenerationsAre DEF Comes
    <3> QED
        BY <1>1, <2>1, <2>3, <3>1, <3>2, <3>4, <3>5
        DEF SpecFits, FirstModel, StagnationBefore, Comes, Before, Made
  <2> QED
      BY <2>2, <2>3
<1>10. ASSUME NEW j \in Generations PROVE FitFits(j)'
    BY <1>1 DEF IterationInv, FolderFits, FitFits
<1>11. Before(i)' = Before(i)
  <2>1. i = 1 \/ decision'[i - 1] = decision[i - 1]
      BY <1>4, GenerationsAre
  <2> QED
      BY <2>1 DEF Before
<1>12. ASSUME NEW j \in Generations PROVE DecisionFits(j)'
  <2>1. CASE j = i
      BY <1>1, <1>2, <1>3, <1>4, <1>5, <1>11, <2>1 DEF DecisionFits, Made, Admitted
  <2>2. CASE j # i /\ Made(j)
    <3>1. DecisionFits(j) /\ decision'[j] = decision[j]
        BY <1>7, <2>2 DEF IterationInv, FolderFits
    <3>2. j = 1 \/ j - 1 \in 1..j
        BY GenerationsAre
    <3>3. Before(j)' = Before(j)
        BY <1>7, <2>2, <3>2 DEF Before
    <3> QED
        BY <1>1, <2>2, <3>1, <3>3 DEF DecisionFits, Made, Admitted
  <2>3. CASE j # i /\ ~Made(j)
      BY <1>4, <2>3, GenerationsAre DEF DecisionFits, Made
  <2> QED
      BY <2>1, <2>2, <2>3
<1>13. ASSUME NEW j \in Generations PROVE ActorIsLatest(j)'
  <2>1. CASE j # i /\ Made(j)
    <3>1. ActorIsLatest(j) /\ \A k \in 1..j : decision'[k] = decision[k]
        BY <1>7, <2>1 DEF IterationInv, FolderFits
    <3>2. j \in 1..j
        BY GenerationsAre
    <3>3. CASE /\ decision[j].actor = Initial
               /\ \A k \in 1..j : ~decision[k].updated
        BY <3>1, <3>2, <3>3 DEF ActorIsLatest
    <3>4. CASE \E k \in 1..j : /\ decision[k].updated
                               /\ decision[j].actor = Candidate(k)
                               /\ \A l \in (k + 1)..j : ~decision[l].updated
      <4>1. PICK k \in 1..j : /\ decision[k].updated
                              /\ decision[j].actor = Candidate(k)
                              /\ \A l \in (k + 1)..j : ~decision[l].updated
          BY <3>4
      <4>2. \A l \in (k + 1)..j : l \in 1..j
          BY GenerationsAre
      <4> QED
          BY <3>1, <3>2, <4>1, <4>2 DEF ActorIsLatest, Candidate
    <3> QED
        BY <2>1, <3>1, <3>3, <3>4 DEF ActorIsLatest
  <2>2. CASE j # i /\ ~Made(j)
      BY <1>4, <2>2, GenerationsAre DEF ActorIsLatest, Made
  <2>3. CASE j = i /\ Admitted(i)
    <3>1. decision'[i].updated /\ decision'[i].actor = Candidate(i)
        BY <1>4, <1>5, <2>3
    <3>2. i \in 1..i /\ (i + 1)..i = {}
        BY <1>4
    <3>3. Candidate(i)' = Candidate(i)
        BY DEF Candidate
    <3> QED
        BY <2>3, <3>1, <3>2, <3>3 DEF ActorIsLatest
  <2>4. CASE j = i /\ ~Admitted(i) /\ i = 1
    <3>1. /\ ~decision'[i].updated /\ decision'[i].actor = Initial
          /\ \A k \in 1..i : k = i
        BY <1>4, <1>5, <2>4 DEF Before
    <3> QED
        BY <2>4, <3>1 DEF ActorIsLatest
  <2>5. CASE j = i /\ ~Admitted(i) /\ i > 1
    <3>1. /\ ~decision'[i].updated /\ decision'[i].actor = decision[i - 1].actor
        BY <1>4, <1>5, <2>5 DEF Before
    <3>2. Made(i - 1) /\ i - 1 \in Generations /\ ActorIsLatest(i - 1)
        BY <1>2, <1>3, <2>5 DEF IterationInv, FolderFits
    <3>3. \A k \in 1..(i - 1) : decision'[k] = decision[k]
        BY <1>7, <3>2
    <3>4. \A k \in 1..i : k \in 1..(i - 1) \/ k = i
        BY <1>4
    <3>5. CASE /\ decision[i - 1].actor = Initial
               /\ \A k \in 1..(i - 1) : ~decision[k].updated
        BY <2>5, <3>1, <3>3, <3>4, <3>5 DEF ActorIsLatest
    <3>6. CASE \E k \in 1..(i - 1) :
                  /\ decision[k].updated
                  /\ decision[i - 1].actor = Candidate(k)
                  /\ \A l \in (k + 1)..(i - 1) : ~decision[l].updated
      <4>1. PICK k \in 1..(i - 1) :
                  /\ decision[k].updated
                  /\ decision[i - 1].actor = Candidate(k)
                  /\ \A l \in (k + 1)..(i - 1) : ~decision[l].updated
          BY <3>6
      <4>2. /\ k \in 1..i /\ decision'[k].updated
            /\ decision'[i].actor = Candidate(k)
          BY <1>4, <3>1, <3>3, <4>1
      <4>3. ASSUME NEW l \in (k + 1)..i PROVE ~decision'[l].updated
        <5>1. l = i \/ (l \in (k + 1)..(i - 1) /\ l \in 1..(i - 1))
            BY <1>4
        <5> QED
            BY <3>1, <3>3, <4>1, <5>1
      <4>4. Candidate(k)' = Candidate(k)
          BY DEF Candidate
      <4> QED
          BY <2>5, <4>2, <4>3, <4>4 DEF ActorIsLatest
    <3> QED
        BY <3>2, <3>5, <3>6 DEF ActorIsLatest
  <2> QED
      BY <1>4, <2>1, <2>2, <2>3, <2>4, <2>5
<1>14. Bootstrap' /\ EndFits' /\ RestartsAgree'
  <2>1. decision'[0] = decision[0]
      BY <1>4, GenerationsAre
  <2> QED
      BY <1>1, <1>6, <2>1 DEF IterationInv, Bootstrap, Made, EndFits, RestartsAgree
<1>15. RunIsPlaced'
    BY <1>4, <1>5, <1>6 DEF RunIsPlaced, Busy, Chosen, Made
\* The run that chose had ended, and so has this generation.
<1>16. SelectionFits'
  <2>1. CASE selection.made
    <3>1. PICK n \in Generations :
            /\ n = selection.generations /\ Made(n) /\ Ended(n)
            /\ selection.candidate = Choice(n)
        BY <2>1 DEF IterationInv, SelectionFits
    <3>2. decision'[n] = decision[n] /\ selection' = selection
        BY <1>1, <1>7, <3>1
    <3>3. n \in Nat /\ n + 1 - 1 = n
        BY GenerationsAre
    <3>4. Comes(n + 1)' = Comes(n + 1)
        BY <3>2, <3>3 DEF Comes
    <3>5. Ended(n)'
        BY <3>1, <3>4 DEF Ended
    <3>6. Made(n)' /\ selection'.candidate = Choice(n)'
        BY <3>1, <3>2 DEF Made, Choice
    <3> QED
        BY <2>1, <3>1, <3>2, <3>5, <3>6 DEF SelectionFits
  <2>2. CASE ~selection.made
      BY <1>1, <2>2 DEF IterationInv, SelectionFits
  <2> QED
      BY <2>1, <2>2
<1> QED
    BY <1>6, <1>8, <1>9, <1>10, <1>12, <1>13, <1>14, <1>15, <1>16
    DEF IterationInv, FolderFits

LEMMA TakeSound == ASSUME IterationInv, Take PROVE IterationInv'
<1> DEFINE d == decision[run.at]
<1>1. /\ run.pc = "take" /\ UNCHANGED <<files, stop, stops>>
      /\ run' = [pc |-> "next", at |-> run.at, actor |-> d.actor, start |-> d.actor,
                 stagnation |-> d.stagnation, decisions |-> Append(run.decisions, d)]
    BY RunIs DEF Take, Taken, i0
<1>2. Made(run.at) /\ run.at > 0 /\ Passed = run.at - 1 /\ run.at \in Generations
  <2>1. Made(run.at) /\ ~Made(0)
      BY <1>1 DEF IterationInv, RunIsPlaced, Bootstrap
  <2>2. run.at # 0
      BY <2>1
  <2> QED
      BY <1>1, <2>1, <2>2, RunIs, GenerationsAre DEF Passed, Chosen
<1>3. /\ Len(run.decisions) = Passed
      /\ \A k \in 1..Passed : Made(k) /\ run.decisions[k] = decision[k]
    BY <1>1 DEF IterationInv, RunKnows
<1>4. /\ d \in DecisionType /\ d.actor \in Actors /\ d.stagnation \in Nat
      /\ run.decisions \in Seq(DecisionType) /\ run.at \in Nat /\ run.at \in Folders
    BY DecisionIs, RunIs
<1>5. /\ Append(run.decisions, d) \in Seq(DecisionType)
      /\ Len(Append(run.decisions, d)) = run.at
      /\ \A k \in 1..run.at :
           Append(run.decisions, d)[k] = IF k = run.at THEN d ELSE run.decisions[k]
    BY <1>2, <1>3, <1>4
<1>6. IterationTyped'
  <2> HIDE DEF d
  <2> QED
      BY <1>1, <1>4, <1>5 DEF IterationInv, IterationTyped, files
<1>7. RunKnows'
  <2>1. Passed' = run.at /\ run'.decisions = Append(run.decisions, d)
        /\ run'.actor = d.actor /\ run'.start = d.actor /\ run'.stagnation = d.stagnation
      BY <1>1 DEF Passed
  <2>2. decision' = decision
      BY <1>1 DEF files
  <2>3. \A k \in 1..run.at : Made(k) /\ Append(run.decisions, d)[k] = decision[k]
      BY <1>2, <1>3, <1>4, <1>5
  <2>4. \A k \in 1..run.at : Made(k)'
      BY <2>2, <2>3 DEF Made
  <2> QED
      BY <1>2, <1>5, <2>1, <2>2, <2>3, <2>4 DEF RunKnows
<1>8. RunIsPlaced' /\ RestartsAgree'
    BY <1>1 DEF RunIsPlaced, RestartsAgree, Busy, Chosen
<1> QED
    BY <1>1, <1>6, <1>7, <1>8, FilesStay DEF IterationInv

LEMMA NextFolderSound == ASSUME IterationInv, NextFolder PROVE IterationInv'
<1>1. run.pc = "next" /\ UNCHANGED <<files, stop, stops>> /\ Passed = run.at
    BY DEF NextFolder, Passed
<1>2. /\ Len(run.decisions) = run.at
      /\ \A k \in 1..run.at : Made(k) /\ run.decisions[k] = decision[k]
      /\ run.actor = IF run.at = 0 THEN Initial ELSE decision[run.at].actor
      /\ run.stagnation = IF run.at = 0 THEN 0 ELSE decision[run.at].stagnation
      /\ run.start = IF run.at = 0 THEN Candidate(0) ELSE decision[run.at].actor
    BY <1>1 DEF IterationInv, RunKnows
<1>3. run.at < MaxGenerations => (Extends(run.at + 1) <=> Comes(run.at + 1))
  <2>1. run.at \in Nat /\ run.at + 1 - 1 = run.at
      BY RunIs
  <2>2. CASE run.at = 0
      BY <2>2, GenerationsAre DEF Extends, Comes
  <2>3. CASE run.at # 0
    <3>1. run.decisions[Len(run.decisions)] = decision[run.at]
        BY <1>2, <2>1, <2>3
    <3> QED
        BY <2>1, <3>1 DEF Extends, Comes
  <2> QED
      BY <2>2, <2>3
<1>4. CASE run.at < MaxGenerations /\ Comes(run.at + 1)
  <2>1. run' = [pc |-> "spec", at |-> run.at + 1, actor |-> run.actor, start |-> run.start,
                stagnation |-> run.stagnation, decisions |-> run.decisions]
      BY <1>3, <1>4, RunIs DEF NextFolder, i0
  <2>2. run.at + 1 \in Folders /\ run.at \in Nat
      BY <1>4, RunIs, GenerationsAre
  <2>3. IterationTyped'
      BY <1>1, <2>1, <2>2, RunIs DEF IterationInv, IterationTyped, files
  <2>4. Passed' = run.at
      BY <2>1, <2>2 DEF Passed, Chosen
  <2>5. RunKnows'
    <3>1. decision' = decision
        BY <1>1 DEF files
    <3> QED
        BY <1>2, <2>1, <2>2, <2>4, <3>1 DEF RunKnows, Made
  <2>6. RunIsPlaced' /\ RestartsAgree'
    <3>1. Comes(run.at)'
        BY <1>1, <1>4, <2>1 DEF Comes, files
    <3> QED
        BY <2>1, <3>1 DEF RunIsPlaced, RestartsAgree, Busy, Chosen
  <2> QED
      BY <1>1, <2>3, <2>5, <2>6, FilesStay DEF IterationInv
<1>5. CASE ~(run.at < MaxGenerations /\ Comes(run.at + 1))
  <2>1. Go("select")
      BY <1>3, <1>5, RunIs DEF NextFolder, i0, Go
  <2>2. run.at > 0 /\ Ended(run.at)
      BY <1>5, RunIs, GenerationsAre DEF Ended, Comes
  <2>3. run'.pc = "select" /\ run'.at = run.at /\ IterationTyped'
      BY <1>1, <2>1, GoIs DEF IterationInv, IterationTyped, files, Chosen
  <2>4. RunKnows'
    <3>1. \A k \in 1..Passed : decision'[k] = decision[k]
        BY <1>1 DEF files
    <3>2. "select" \in Chosen /\ run.pc \in {"next"} \union Chosen
          /\ run.pc \notin {"down", "failed"}
        BY <1>1 DEF Chosen
    <3> QED
        BY <2>1, <2>2, <3>1, <3>2, GoKeeps, Zenon
  <2>5. RunIsPlaced' /\ RestartsAgree'
    <3>1. Ended(run.at)'
        BY <1>1, <2>2, <2>3 DEF Ended, Comes, files
    <3> QED
        BY <2>2, <2>3, <3>1 DEF RunIsPlaced, RestartsAgree, Busy, Chosen
  <2> QED
      BY <1>1, <2>3, <2>4, <2>5, FilesStay DEF IterationInv
<1> QED
    BY <1>4, <1>5

\* The latest admitted candidate of a chain is the actor the chain ends with.
LEMMA SelectedIs ==
    ASSUME IterationInv, NEW n \in Generations, Made(n), NEW ds, Len(ds) = n,
           DOMAIN ds = 1..n, \A k \in 1..n : ds[k] = decision[k]
    PROVE  Selected(ds) = Choice(n)
<1> DEFINE updated == {k \in 1..n : ds[k].updated}
<1>1. Selected(ds) = IF updated = {} THEN ds[n].trained
                     ELSE ds[CHOOSE k \in updated : \A j \in updated : j <= k].trained
    BY DEF Selected
<1>2. n \in Nat /\ n \in 1..n /\ Initial = 0
    BY GenerationsAre
<1>3. ActorIsLatest(n) /\ Made(n)
    BY DEF IterationInv, FolderFits
<1>4. CASE /\ decision[n].actor = Initial
           /\ \A k \in 1..n : ~decision[k].updated
  <2>1. updated = {} /\ ds[n].trained = decision[n].trained
      BY <1>2, <1>4
  <2> QED
      BY <1>1, <1>4, <2>1 DEF Choice
<1>5. CASE \E k \in 1..n : /\ decision[k].updated
                           /\ decision[n].actor = Candidate(k)
                           /\ \A j \in (k + 1)..n : ~decision[j].updated
  <2>1. PICK k \in 1..n : /\ decision[k].updated
                          /\ decision[n].actor = Candidate(k)
                          /\ \A j \in (k + 1)..n : ~decision[j].updated
      BY <1>5
  <2>2. k \in updated /\ \A j \in updated : j <= k
    <3>1. ASSUME NEW j \in updated PROVE j <= k
      <4>1. j \in 1..n /\ decision[j].updated
          OBVIOUS
      <4> QED
          BY <1>2, <2>1, <4>1
    <3> QED
        BY <2>1, <3>1
  <2>3. (CHOOSE l \in updated : \A j \in updated : j <= l) = k
    <3>1. \A l \in updated : (\A j \in updated : j <= l) => l = k
        BY <1>2, <2>1, <2>2
    <3> HIDE DEF updated
    <3> QED
        BY <2>2, <3>1
  <2>4. Selected(ds) = ds[k].trained
    <3> HIDE DEF updated
    <3> QED
        BY <1>1, <2>2, <2>3
  <2>5. decision[k].trained = Candidate(k)
      BY <2>1, MadeInOrder DEF IterationInv, FolderFits, DecisionFits
  <2>6. decision[n].actor # Initial
      BY <1>2, <2>1 DEF Candidate
  <2> QED
      BY <2>1, <2>4, <2>5, <2>6 DEF Choice
<1> QED
    BY <1>3, <1>4, <1>5 DEF ActorIsLatest

LEMMA SelectSound == ASSUME IterationInv, Select PROVE IterationInv'
<1> DEFINE s == [made |-> TRUE, candidate |-> Selected(run.decisions),
                 generations |-> Len(run.decisions)]
<1>1. /\ run.pc = "select" /\ Passed = run.at /\ run.at > 0 /\ Ended(run.at)
      /\ UNCHANGED <<spec, data, model, evidence, decision, confirmation, finals,
                     result, stop, stops>>
    BY DEF Select, Passed, IterationInv, RunIsPlaced, Chosen
<1>2. PICK n \in Generations : n = run.at
    BY <1>1, RunIs, GenerationsAre
<1>3. /\ Len(run.decisions) = n /\ DOMAIN run.decisions = 1..n
      /\ \A k \in 1..n : Made(k) /\ run.decisions[k] = decision[k]
      /\ n \in 1..n /\ n \in Nat
  <2>1. /\ Len(run.decisions) = n
        /\ \A k \in 1..n : Made(k) /\ run.decisions[k] = decision[k]
      BY <1>1, <1>2 DEF IterationInv, RunKnows
  <2> QED
      BY <2>1, RunIs, LenProperties, GenerationsAre
<1>4. Made(n) /\ Ended(n) /\ Selected(run.decisions) = Choice(n)
    BY <1>1, <1>2, <1>3, SelectedIs
<1>5. Choice(n) \in Actors
    BY <1>2, DecisionIs, GenerationsAre DEF Choice
<1>6. s = [made |-> TRUE, candidate |-> Choice(n), generations |-> n]
    BY <1>3, <1>4
\* What was selected before was selected from the same chain.
<1>7. selection \in {NoSelection, s}
  <2>1. CASE ~selection.made
      BY <2>1 DEF IterationInv, SelectionFits
  <2>2. CASE selection.made
    <3>1. PICK m \in Generations :
            /\ m = selection.generations /\ Made(m) /\ Ended(m)
            /\ selection.candidate = Choice(m)
        BY <2>2 DEF IterationInv, SelectionFits
    <3>2. m = n
      <4>1. m <= n /\ n <= m
          BY <1>4, <3>1, NothingAfterEnd
      <4> QED
          BY <4>1, GenerationsAre
    <3>3. selection = [made |-> selection.made, candidate |-> selection.candidate,
                       generations |-> selection.generations]
          /\ selection.made = TRUE
        BY <2>2 DEF IterationInv, IterationTyped
    <3> QED
        BY <1>6, <3>1, <3>2, <3>3
  <2> QED
      BY <2>1, <2>2
<1>8. selection' = s /\ Go("confirm")
    BY <1>7 DEF Select
<1> HIDE DEF s
<1>9. run'.pc = "confirm" /\ run'.at = run.at /\ IterationTyped'
  <2>1. s \in [made : BOOLEAN, candidate : Actors, generations : Nat]
      BY <1>3, <1>5, <1>6
  <2> QED
      BY <1>1, <1>8, <2>1, GoIs DEF IterationInv, IterationTyped, Chosen
<1>10. RunKnows'
  <2>1. \A k \in 1..Passed : decision'[k] = decision[k]
      BY <1>1
  <2>2. "confirm" \in Chosen /\ run.pc \in {"next"} \union Chosen
        /\ run.pc \notin {"down", "failed"}
      BY <1>1 DEF Chosen
  <2> QED
      BY <1>1, <1>8, <2>1, <2>2, GoKeeps, Zenon
<1>11. selection'.made /\ selection'.generations = n /\ selection'.candidate = Choice(n)
    BY <1>6, <1>8
<1>12. Ended(n)' /\ Made(n)' /\ Choice(n)' = Choice(n)
    BY <1>1, <1>4 DEF Ended, Comes, Made, Choice
<1>13. SelectionFits'
    BY <1>11, <1>12 DEF SelectionFits
<1>14. RunIsPlaced' /\ RestartsAgree'
    BY <1>1, <1>2, <1>9, <1>11, <1>12 DEF RunIsPlaced, RestartsAgree, Busy, Chosen
<1>15. EndFits' /\ Bootstrap' /\ \A i \in Generations : FolderFits(i)'
  <2>1. Bootstrap'
      BY <1>1 DEF IterationInv, Bootstrap, Made
  <2> QED
      BY <1>1, <1>11, <2>1, FolderKept DEF IterationInv, EndFits
<1> QED
    BY <1>9, <1>10, <1>13, <1>14, <1>15 DEF IterationInv

LEMMA ConfirmSound == ASSUME IterationInv, Confirm PROVE IterationInv'
<1>1. PICK c \in (IF confirmation = "none" THEN {"starts", "missing"}
                  ELSE {confirmation}) : confirmation' = c
    BY DEF Confirm
<1>2. /\ run.pc = "confirm" /\ Go("final")
      /\ UNCHANGED <<spec, data, model, evidence, decision, selection, finals,
                     result, stop, stops>>
    BY DEF Confirm
<1>3. confirmation' \in {"none", "starts", "missing"} /\ confirmation' # "none"
    BY <1>1 DEF IterationInv, IterationTyped
<1>4. run'.pc = "final" /\ run'.at = run.at /\ IterationTyped'
    BY <1>2, <1>3, GoIs DEF IterationInv, IterationTyped, Chosen
<1>5. run.at > 0 /\ Ended(run.at) /\ selection.made
    BY <1>2 DEF IterationInv, RunIsPlaced, Chosen
<1>6. RunKnows'
  <2>1. \A k \in 1..Passed : decision'[k] = decision[k]
      BY <1>2
  <2>2. "final" \in Chosen /\ run.pc \in {"next"} \union Chosen
        /\ run.pc \notin {"down", "failed"}
      BY <1>2 DEF Chosen
  <2> QED
      BY <1>2, <1>5, <2>1, <2>2, GoKeeps, Zenon
<1>7. Ended(run.at)'
    BY <1>2, <1>4, <1>5 DEF Ended, Comes
<1>8. RunIsPlaced' /\ RestartsAgree'
    BY <1>2, <1>3, <1>4, <1>5, <1>7 DEF RunIsPlaced, RestartsAgree, Busy, Chosen
<1>9. EndFits' /\ Bootstrap' /\ SelectionFits' /\ \A i \in Generations : FolderFits(i)'
    BY <1>2, <1>3, <1>5, FolderKept, ChoiceKept DEF IterationInv, EndFits
<1> QED
    BY <1>4, <1>6, <1>8, <1>9 DEF IterationInv

LEMMA FinalSound ==
    ASSUME IterationInv, NEW b \in Baselines, Final(b) PROVE IterationInv'
<1>1. /\ run.pc = "final" /\ finals' = finals \union {b}
      /\ UNCHANGED <<spec, data, model, evidence, decision, selection, confirmation,
                     result, run, stop, stops>>
    BY DEF Final
<1>2. IterationTyped'
    BY <1>1 DEF IterationInv, IterationTyped
<1>3. selection.made
    BY <1>1 DEF IterationInv, RunIsPlaced
<1>4. EndFits'
  <2>1. result => finals' = Baselines
      BY <1>1 DEF IterationInv, EndFits
  <2> QED
      BY <1>1, <1>3, <2>1 DEF IterationInv, EndFits
<1>5. RunKnows' /\ RunIsPlaced' /\ RestartsAgree'
    BY <1>1 DEF IterationInv, RunKnows, Passed, RunIsPlaced, RestartsAgree, Ended, Comes,
       Made
<1> QED
    BY <1>1, <1>2, <1>4, <1>5, FolderKept, ChoiceKept DEF IterationInv

\* However execute goes down, it leaves the files; only the report is one more.
LEMMA DownSound ==
    ASSUME IterationInv, run'.pc = "down", IterationTyped',
           UNCHANGED <<spec, data, model, evidence, decision, selection, confirmation,
                       finals>>,
           result' = result \/ (finals = Baselines /\ confirmation # "none")
    PROVE  IterationInv'
<1>1. RunKnows' /\ RunIsPlaced' /\ RestartsAgree'
    BY DEF RunKnows, RunIsPlaced, RestartsAgree, Busy, Chosen
<1>2. EndFits'
    BY DEF IterationInv, EndFits
<1> QED
    BY <1>1, <1>2, FolderKept, ChoiceKept DEF IterationInv

LEMMA ReportSound == ASSUME IterationInv, Report PROVE IterationInv'
<1>1. run'.pc = "down" /\ IterationTyped'
    BY GoIs DEF Report, IterationInv, IterationTyped
<1>2. confirmation # "none"
    BY DEF Report, IterationInv, RunIsPlaced
<1> QED
    BY <1>1, <1>2, DownSound DEF Report

LEMMA LeaveSound ==
    ASSUME IterationInv, run' = Down, UNCHANGED files,
           stop' \in BOOLEAN, stops' \in 0..MaxStops
    PROVE  IterationInv'
<1>1. <<>> \in Seq(DecisionType)
    OBVIOUS
<1>2. run'.pc = "down" /\ IterationTyped'
    BY <1>1, GenerationsAre DEF Down, IterationInv, IterationTyped, files
<1> QED
    BY <1>2, DownSound DEF files

LEMMA StopsAre ==
    ASSUME IterationInv
    PROVE  stop \in BOOLEAN /\ stops \in 0..MaxStops
           /\ (stops < MaxStops => stops + 1 \in 0..MaxStops)
BY GenerationsAre DEF IterationInv, IterationTyped

LEMMA RequestStopSound == ASSUME IterationInv, RequestStop PROVE IterationInv'
<1>1. UNCHANGED <<files, run>> /\ stop' \in BOOLEAN /\ stops' \in 0..MaxStops
    BY StopsAre DEF RequestStop
<1>2. IterationTyped'
    BY <1>1 DEF IterationInv, IterationTyped, files
<1>3. RunKnows' /\ RunIsPlaced' /\ RestartsAgree'
    BY <1>1 DEF files, IterationInv, RunKnows, Passed, RunIsPlaced, RestartsAgree,
       Ended, Comes, Made
<1> QED
    BY <1>1, <1>2, <1>3, FilesStay DEF IterationInv

LEMMA IterationStep ==
    ASSUME IterationInv, [IterationNext]_iterationVars PROVE IterationInv'
<1>1. CASE UNCHANGED iterationVars
  <2>1. UNCHANGED <<files, run, stop, stops>>
      BY <1>1 DEF iterationVars
  <2>2. IterationTyped'
      BY <2>1 DEF IterationInv, IterationTyped, files
  <2>3. RunKnows' /\ RunIsPlaced' /\ RestartsAgree'
      BY <2>1 DEF files, IterationInv, RunKnows, Passed, RunIsPlaced, RestartsAgree,
         Ended, Comes, Made
  <2> QED
      BY <2>1, <2>2, <2>3, FilesStay DEF IterationInv
<1>2. CASE Execute
    BY <1>2, BindSpecSound, PlayAndLabelSound, FitSound, AuditSound, GroupsSound,
       CompareSound, DecideSound, TakeSound, NextFolderSound, SelectSound,
       ConfirmSound, ReportSound, FinalSound DEF Execute
<1>3. CASE Stopped
    BY <1>3, StopsAre, LeaveSound DEF Stopped
<1>4. CASE Kill
    BY <1>4, StopsAre, LeaveSound DEF Kill
<1> QED
    BY <1>1, <1>2, <1>3, <1>4, LaunchSound, RequestStopSound DEF IterationNext

LEMMA IterationStart == IterationInit => IterationInv
<1> SUFFICES ASSUME IterationInit PROVE IterationInv
    OBVIOUS
<1>1. <<>> \in Seq(DecisionType)
    OBVIOUS
<1>2. Down \in [pc : {"down", "failed", "spec", "take", "next"} \union Busy \union Chosen,
                at : Folders, actor : Actors, start : Actors, stagnation : Nat,
                decisions : Seq(DecisionType)]
    BY <1>1, GenerationsAre DEF Down
<1>3. NoSpec \in [actor : Actors, initial : Actors, stagnation : Nat, bound : BOOLEAN]
      /\ NoDecision \in DecisionType
      /\ NoSelection \in [made : BOOLEAN, candidate : Actors, generations : Nat]
      /\ NoFit \in [made : BOOLEAN, differs : BOOLEAN, lowered : BOOLEAN]
      /\ NoEvidence \in [audit : BOOLEAN, groups : {"none", "preserved", "worse"},
                         arena : Arenas \union {"none"}]
    BY GenerationsAre DEF NoSpec, NoDecision, NoSelection, DecisionType, NoFit,
       NoEvidence
<1>4. IterationTyped
  <2>1. spec \in [Folders -> [actor : Actors, initial : Actors, stagnation : Nat,
                              bound : BOOLEAN]]
      BY <1>3 DEF IterationInit
  <2>2. data \in [Folders -> {"none", "rich", "poor"}]
      BY DEF IterationInit
  <2>3. model \in [Folders -> [made : BOOLEAN, differs : BOOLEAN, lowered : BOOLEAN]]
      BY <1>3 DEF IterationInit
  <2>4. evidence \in [Folders -> [audit : BOOLEAN, groups : {"none", "preserved", "worse"},
                                  arena : Arenas \union {"none"}]]
      BY <1>3 DEF IterationInit
  <2>5. decision \in [Folders -> DecisionType]
      BY <1>3 DEF IterationInit
  <2>6. /\ confirmation = "none" /\ finals = {} /\ result = FALSE /\ run = Down
        /\ stop = FALSE /\ stops \in 0..MaxStops /\ selection = NoSelection
      BY GenerationsAre DEF IterationInit
  <2> QED
      BY <1>2, <1>3, <2>1, <2>2, <2>3, <2>4, <2>5, <2>6 DEF IterationTyped
<1>5. \A i \in Folders : /\ spec[i] = NoSpec /\ ~spec[i].bound
                         /\ ~model[i].made /\ ~Made(i)
    BY DEF IterationInit, NoSpec, NoFit, NoDecision, Made
<1>6. Bootstrap /\ \A i \in Generations : FolderFits(i)
    BY <1>5, GenerationsAre
    DEF Bootstrap, FolderFits, SpecFits, FitFits, DecisionFits, ActorIsLatest
<1>7. RunKnows /\ RunIsPlaced /\ RestartsAgree /\ SelectionFits /\ EndFits
    BY DEF IterationInit, Down, NoSelection, RunKnows, RunIsPlaced, RestartsAgree,
       SelectionFits, EndFits, Busy, Chosen
<1> QED
    BY <1>4, <1>6, <1>7 DEF IterationInv

LEMMA IterationImplied == IterationInv => IterationIsSound
<1> SUFFICES ASSUME IterationInv PROVE IterationIsSound
    OBVIOUS
<1>1. IterationTypeOK
    BY RunIs DEF IterationInv, IterationTyped, IterationTypeOK, Actors
<1>2. ASSUME NEW i \in Generations
      PROVE  /\ spec[i].bound =>
                   /\ i > 1 => Made(i - 1)
                   /\ spec[i].actor = Before(i)
                   /\ spec[i].initial = IF i = 1 THEN Candidate(0) ELSE Before(i)
             /\ Made(i) /\ decision[i].actor # Before(i) =>
                   /\ decision[i].actor = Candidate(i)
                   /\ evidence[i].arena = "won"
                   /\ evidence[i].groups = "preserved"
             /\ i > 1 /\ model[i].made =>
                   (model[i].lowered <=> decision[i - 1].branch = "lower")
  <2>1. FolderFits(i)
      BY DEF IterationInv
  <2>2. i > 1 => i - 1 \in 1..(i - 1) /\ i - 1 \in Generations
      BY GenerationsAre
  <2>3. spec[i].bound => /\ i > 1 => Made(i - 1)
                         /\ spec[i].actor = Before(i)
                         /\ spec[i].initial = IF i = 1 THEN Candidate(0) ELSE Before(i)
      BY <2>1, <2>2 DEF FolderFits, SpecFits, FirstModel
  <2>4. Made(i) /\ decision[i].actor # Before(i) =>
          /\ decision[i].actor = Candidate(i)
          /\ evidence[i].arena = "won" /\ evidence[i].groups = "preserved"
      BY <2>1 DEF FolderFits, DecisionFits, Admitted
  <2>5. ASSUME i > 1, model[i].made
        PROVE  model[i].lowered <=> decision[i - 1].branch = "lower"
    <3>1. /\ model[i].lowered <=> spec[i].stagnation >= 2
          /\ spec[i].stagnation = decision[i - 1].stagnation
          /\ Made(i - 1) /\ i - 1 \in Generations
        BY <2>1, <2>2, <2>5
        DEF FolderFits, FitFits, SpecFits, StagnationBefore
    <3>2. decision[i - 1].branch = "lower" <=> decision[i - 1].stagnation >= 2
        BY <3>1 DEF IterationInv, FolderFits, DecisionFits
    <3> QED
        BY <3>1, <3>2
  <2> QED
      BY <2>3, <2>4, <2>5
<1>3. ChainIsUnbroken
    BY <1>2 DEF ChainIsUnbroken, Generations
<1>4. ASSUME selection.made
      PROVE  /\ selection.generations >= MinGenerations
             /\ \A i \in 1..MaxGenerations : Made(i) <=> i <= selection.generations
             /\ selection.candidate =
                   LET last == decision[selection.generations]
                   IN IF last.actor = Initial THEN last.trained ELSE last.actor
  <2>1. PICK n \in Generations :
          /\ n = selection.generations /\ Made(n) /\ Ended(n)
          /\ selection.candidate = Choice(n)
      BY <1>4 DEF IterationInv, SelectionFits
  <2>2. n >= MinGenerations
      BY <2>1, GenerationsAre DEF Ended, Comes
  <2>3. ASSUME NEW i \in Generations PROVE Made(i) <=> i <= n
    <3>1. Made(i) => i <= n
        BY <2>1, NothingAfterEnd
    <3>2. i <= n => i \in 1..n
        BY GenerationsAre
    <3> QED
        BY <2>1, <3>1, <3>2, MadeInOrder
  <2> QED
      BY <2>1, <2>2, <2>3 DEF Choice, Generations
<1>5. FinalsFollowTheChoice
    BY <1>4 DEF FinalsFollowTheChoice, IterationInv, EndFits
<1> QED
    BY <1>1, <1>3, <1>5 DEF IterationInv, IterationIsSound

(* However often it is stopped, killed and run again, an iteration finds    *)
(* the chain it began, and ends with the choice of one that was not (execute *)
(* of r4_c4.py).                                                            *)
THEOREM Iteration == IterationSpec => []IterationIsSound
<1> QED
    BY IterationStart, IterationStep, IterationImplied, PTL DEF IterationSpec

-----------------------------------------------------------------------------
(* AtomicArtifacts: the inductive invariant                                *)

MadeFiles == 1..made
WriterPcs == {"publish", "rename", "exchange", "compare", "undo", "retire",
              "dispose", "verify", "fail"}
WriterType ==
    [pc : WriterPcs, own : MadeFiles, found : MadeFiles \union {NoFile},
     old : MadeFiles \union {NoFile}, seen : Nat]
FilesTyped ==
    /\ made \in 0..MaxFiles
    /\ entry \in MadeFiles \union {NoFile}
    /\ temporary \in [Writers -> MadeFiles \union {NoFile}]
    /\ litter \subseteq MadeFiles /\ retired \subseteq MadeFiles /\ disposed \subseteq MadeFiles
    /\ stamp \in [Files -> Nat]
    /\ line \in Seq(MadeFiles)
    /\ entry = IF line = <<>> THEN NoFile ELSE line[Len(line)]
    /\ reports \subseteq [file : MadeFiles, found : MadeFiles \union {NoFile}, raised : BOOLEAN]
    /\ writer \in [Writers -> WriterType \union {Unused}]

\* A file has one name: the path, a temporary one, or one in the quarantine.
OnePlace ==
    /\ entry # NoFile => entry \notin litter \union retired \union disposed
    /\ litter \intersect retired = {}
    /\ disposed \intersect (litter \union retired) = {}
    /\ \A w \in Writers : temporary[w] # NoFile =>
          /\ temporary[w] \notin {entry} \union litter \union retired \union disposed
          /\ \A v \in Writers \ {w} : temporary[v] # temporary[w]
    /\ \A v, w \in Writers :
          writer[v].pc = "dispose" /\ writer[w].pc = "dispose"
              /\ writer[v].old = writer[w].old => v = w

\* The file came to the path once q was there.
Came(f, q) ==
    \E i \in DOMAIN line :
        /\ line[i] = f /\ \A j \in 1..(i - 1) : line[j] # f
        /\ q = IF i = 1 THEN NoFile ELSE line[i - 1]
IsNew(f) == \A i \in DOMAIN line : line[i] # f

\* What a write knows, by its place.
WriterKnows(w) ==
    LET own == writer[w].own
        found == writer[w].found
        pc == writer[w].pc
    IN  /\ writer[w] = Unused => temporary[w] = NoFile
        /\ pc \in {"publish", "rename", "exchange"} => temporary[w] = own /\ IsNew(own)
        /\ pc = "exchange" => entry # NoFile
        /\ writer[w] # Unused /\ found # NoFile => entry # NoFile
        /\ pc = "compare" => Came(own, temporary[w])
        /\ pc \in {"compare", "undo"} => temporary[w] \notin {NoFile, own}
        /\ pc = "retire" => temporary[w] = found /\ found \notin {NoFile, own}
        /\ pc = "dispose" => /\ writer[w].old = found /\ found \notin {NoFile, own}
                             /\ found \in retired
        /\ pc \in {"dispose", "verify"} => temporary[w] = NoFile
        /\ pc \in {"retire", "dispose", "verify"} => Came(own, found)

\* Nothing leads the file back to the path.
IsGone(f) == f # entry /\ \A w \in Writers : temporary[w] # f
IsKept(f) == /\ f \in litter \union retired
             /\ \A w \in Writers : writer[w].pc = "dispose" => writer[w].old # f

\* Under the lock: one write at a time, and one that fails has left no file of
\* its own behind, or has kept what it replaced.
LockedKnows ==
    Locked =>
        /\ \A v, w \in Writers : writer[v] # Unused /\ writer[w] # Unused => v = w
        /\ \A w \in Writers : writer[w].pc = "fail" =>
              LET found == writer[w].found
              IN  \/ temporary[w] = writer[w].own
                  \/ IsGone(writer[w].own)
                  \/ found = NoFile \/ found = temporary[w] \/ found \in litter \union retired
        /\ \A r \in reports : r.raised =>
              IsGone(r.file) \/ r.found = NoFile \/ IsKept(r.found) \/ stamp[r.file] > 0

ReportsFit == \A r \in reports : ~r.raised => Came(r.file, r.found)
DisposedFit ==
    \A f \in disposed : \E i \in DOMAIN line : i > 1 /\ line[i - 1] = f /\ line[i] # f

\* What was read is of the file as it was at one time or later, in order.
ReaderKnows ==
    reader # Unused =>
        /\ reader \in [pc : {"read", "check", "done"}, file : MadeFiles, opened : Nat, bytes : Seq(Nat)]
        /\ Len(reader.bytes) = 0 \/ Len(reader.bytes) = 1 \/ Len(reader.bytes) = 2
        /\ reader.pc # "read" => Len(reader.bytes) = 2
        /\ reader.pc = "read" => Len(reader.bytes) < 2
        /\ reader.opened <= stamp[reader.file]
        /\ \A i \in DOMAIN reader.bytes :
              reader.opened <= reader.bytes[i] /\ reader.bytes[i] <= stamp[reader.file]
        /\ reader.pc = "done" => \A i \in DOMAIN reader.bytes : reader.bytes[i] = reader.opened

ArtifactInv ==
    /\ FilesTyped /\ OnePlace /\ \A w \in Writers : WriterKnows(w)
    /\ LockedKnows /\ ReportsFit /\ DisposedFit /\ ReaderKnows
-----------------------------------------------------------------------------
(* What the line keeps                                                     *)

LEMMA LineBy ==
    ASSUME FilesTyped, NEW g \in Nat, line' = Append(line, g)
    PROVE  /\ line \in Seq(Nat) /\ Len(line) \in Nat /\ DOMAIN line = 1..Len(line)
           /\ DOMAIN line' = 1..(Len(line) + 1) /\ line'[Len(line) + 1] = g
           /\ \A i \in 1..Len(line) : line'[i] = line[i]
<1>1. line \in Seq(Nat) /\ Len(line) \in Nat /\ DOMAIN line = 1..Len(line)
    BY LenProperties DEF FilesTyped, MadeFiles
<1> QED BY <1>1, AppendProperties

LEMMA CameStays ==
    ASSUME FilesTyped, NEW f, NEW q, NEW g \in Nat, Came(f, q),
           line' = line \/ line' = Append(line, g)
    PROVE  Came(f, q)'
<1>1. PICK i \in DOMAIN line :
          /\ line[i] = f /\ \A j \in 1..(i - 1) : line[j] # f
          /\ q = IF i = 1 THEN NoFile ELSE line[i - 1]
    BY DEF Came
<1>2. line \in Seq(Nat) /\ i \in 1..Len(line) /\ Len(line) \in Nat
    BY <1>1, LenProperties DEF FilesTyped, MadeFiles
<1>3. \A j \in 1..Len(line) : j \in DOMAIN line' /\ line'[j] = line[j]
    <2>1. CASE line' = line
        BY <2>1, LenProperties DEF FilesTyped
    <2>2. CASE line' = Append(line, g)
        BY <1>2, <2>2, AppendProperties
    <2> QED BY <2>1, <2>2
<1>4. i # 1 => i - 1 \in 1..Len(line)
    BY <1>2
<1>5. \A j \in 1..(i - 1) : j \in 1..Len(line)
    BY <1>2
<1>6. /\ i \in DOMAIN line' /\ line'[i] = f /\ \A j \in 1..(i - 1) : line'[j] # f
      /\ q = IF i = 1 THEN NoFile ELSE line'[i - 1]
    BY <1>1, <1>2, <1>3, <1>4, <1>5
<1> QED BY <1>6 DEF Came

LEMMA CameNow ==
    ASSUME FilesTyped, NEW f \in Nat, NEW q, q = entry, IsNew(f), line' = Append(line, f)
    PROVE  Came(f, q)'
<1>1. line \in Seq(Nat) /\ Len(line) \in Nat /\ DOMAIN line = 1..Len(line)
    BY LenProperties DEF FilesTyped, MadeFiles
<1>2. /\ DOMAIN line' = 1..(Len(line) + 1) /\ line'[Len(line) + 1] = f
      /\ \A j \in 1..Len(line) : line'[j] = line[j]
    BY <1>1, AppendProperties
<1>3. line = <<>> <=> Len(line) = 0
    BY <1>1, EmptySeq
<1> DEFINE i == Len(line) + 1
<1>4. q = IF i = 1 THEN NoFile ELSE line[i - 1]
    BY <1>1, <1>3 DEF FilesTyped
<1>5. i # 1 => i - 1 \in 1..Len(line)
    BY <1>1
<1>6. \A j \in 1..(i - 1) : line'[j] # f
    BY <1>1, <1>2 DEF IsNew
<1>7. i \in DOMAIN line' /\ line'[i] = f
    BY <1>1, <1>2
<1>8. q = IF i = 1 THEN NoFile ELSE line'[i - 1]
    BY <1>2, <1>4, <1>5
<1> QED BY <1>6, <1>7, <1>8 DEF Came

\* A file has come to the path for the first time only once.
LEMMA CameIs ==
    ASSUME FilesTyped, NEW f, NEW q, Came(f, q)
    PROVE  BeforeIt(f) = q
<1>1. PICK i \in DOMAIN line :
          /\ line[i] = f /\ \A j \in 1..(i - 1) : line[j] # f
          /\ q = IF i = 1 THEN NoFile ELSE line[i - 1]
    BY DEF Came
<1>2. DOMAIN line = 1..Len(line) /\ Len(line) \in Nat
    BY LenProperties DEF FilesTyped
<1>3. \A k \in DOMAIN line :
          line[k] = f /\ (\A j \in 1..(k - 1) : line[j] # f) => k = i
    BY <1>1, <1>2
<1>4. FirstShown(f) = i
    BY <1>1, <1>3 DEF FirstShown
<1> QED BY <1>1, <1>4 DEF BeforeIt

\* What came after another file has a place behind it.
LEMMA CameAfter ==
    ASSUME FilesTyped, NEW f, NEW q, Came(f, q), q # NoFile, q # f
    PROVE  \E i \in DOMAIN line : i > 1 /\ line[i - 1] = q /\ line[i] # q
<1>1. PICK i \in DOMAIN line :
          line[i] = f /\ q = IF i = 1 THEN NoFile ELSE line[i - 1]
    BY DEF Came
<1>2. i > 1
    BY <1>1, LenProperties DEF FilesTyped
<1> QED BY <1>1, <1>2

\* The line grows by what comes to the path; what is told of it stays true.
LEMMA LineGrows ==
    ASSUME FilesTyped, NEW g \in Nat, line' = line \/ line' = Append(line, g)
    PROVE  /\ ReportsFit /\ reports' = reports => ReportsFit'
           /\ DisposedFit /\ disposed' = disposed => DisposedFit'
<1>1. ASSUME ReportsFit, reports' = reports PROVE ReportsFit'
    BY <1>1, CameStays DEF ReportsFit
<1>2. ASSUME DisposedFit, disposed' = disposed PROVE DisposedFit'
    <2>1. line \in Seq(Nat) /\ Len(line) \in Nat /\ DOMAIN line = 1..Len(line)
        BY LenProperties DEF FilesTyped, MadeFiles
    <2>2. \A i \in DOMAIN line : i \in DOMAIN line' /\ line'[i] = line[i]
        BY <2>1, AppendProperties
    <2> SUFFICES ASSUME NEW f \in disposed
                 PROVE  \E i \in DOMAIN line' : i > 1 /\ line'[i - 1] = f /\ line'[i] # f
        BY <1>2 DEF DisposedFit
    <2>3. PICK i \in DOMAIN line : i > 1 /\ line[i - 1] = f /\ line[i] # f
        BY <1>2 DEF DisposedFit
    <2>4. i - 1 \in DOMAIN line
        BY <2>1, <2>3
    <2> QED BY <2>2, <2>3, <2>4
<1> QED BY <1>1, <1>2

LEMMA ReaderStays ==
    ASSUME FilesTyped, ReaderKnows, reader' = reader, made' \in Nat, made <= made',
           \A f \in Files : stamp[f] <= stamp'[f], stamp' \in [Files -> Nat]
    PROVE  ReaderKnows'
<1>1. CASE reader = Unused
    BY <1>1 DEF ReaderKnows
<1>2. CASE reader # Unused
    <2>1. reader.file \in MadeFiles' /\ reader.file \in Files
        BY <1>2, ArtifactAssumption DEF ReaderKnows, FilesTyped, MadeFiles, Files
    <2>2. stamp[reader.file] \in Nat /\ stamp'[reader.file] \in Nat
        BY <2>1 DEF FilesTyped
    <2>3. reader.bytes \in Seq(Nat) /\ \A i \in DOMAIN reader.bytes : reader.bytes[i] \in Nat
        BY <1>2, ElementOfSeq, LenProperties DEF ReaderKnows
    <2>4. /\ reader.opened \in Nat /\ reader.opened <= stamp'[reader.file]
          /\ \A i \in DOMAIN reader.bytes : reader.bytes[i] <= stamp'[reader.file]
        BY <1>2, <2>1, <2>2, <2>3 DEF ReaderKnows
    <2>5. reader \in [pc : {"read", "check", "done"}, file : MadeFiles', opened : Nat, bytes : Seq(Nat)]
        BY <1>2, <2>1 DEF ReaderKnows
    <2> QED BY <1>2, <2>4, <2>5 DEF ReaderKnows
<1> QED BY <1>1, <1>2

-----------------------------------------------------------------------------
(* One step of one writer                                                  *)

LEMMA WriterIs ==
    ASSUME FilesTyped, NEW w \in Writers
    PROVE  /\ writer[w].pc = "idle" <=> writer[w] = Unused
           /\ writer[w] # Unused =>
                /\ writer[w] \in WriterType
                /\ writer[w].own \in MadeFiles /\ writer[w].found \in MadeFiles \union {NoFile}
                /\ writer[w].old \in MadeFiles \union {NoFile}
           /\ temporary[w] \in MadeFiles \union {NoFile}
BY DEF FilesTyped, WriterType, WriterPcs, Unused

\* What another process's step leaves of a write's knowledge.
LEMMA OtherKnows ==
    ASSUME FilesTyped, NEW v \in Writers, WriterKnows(v),
           writer'[v] = writer[v], temporary'[v] = temporary[v],
           NEW g \in Nat, line' = line \/ (line' = Append(line, g) /\ g # temporary[v]),
           entry # NoFile => entry' # NoFile,
           writer[v].pc = "dispose" /\ writer[v].old \in retired => writer[v].old \in retired'
    PROVE  WriterKnows(v)'
<1>1. \A f, q : Came(f, q) => Came(f, q)'
    BY CameStays
<1>2. IsNew(temporary[v]) => IsNew(temporary[v])'
    <2>1. line \in Seq(Nat) /\ DOMAIN line = 1..Len(line) /\ Len(line) \in Nat
        BY LenProperties DEF FilesTyped, MadeFiles
    <2>2. CASE line' = line
        BY <2>2 DEF IsNew
    <2>3. CASE line' = Append(line, g) /\ g # temporary[v]
        <3>1. line' = Append(line, g)
            BY <2>3
        <3>2. /\ DOMAIN line' = 1..(Len(line) + 1) /\ line'[Len(line) + 1] = g
              /\ \A i \in 1..Len(line) : line'[i] = line[i]
            BY <3>1, LineBy
        <3>3. \A i \in DOMAIN line' : i = Len(line) + 1 \/ i \in DOMAIN line
            BY <2>1, <3>2
        <3>4. IsNew(temporary[v]) => \A i \in DOMAIN line' : line'[i] # temporary[v]
            BY <2>1, <2>3, <3>2, <3>3 DEF IsNew
        <3> QED BY <3>4 DEF IsNew
    <2> QED BY <2>2, <2>3
<1> QED BY <1>1, <1>2 DEF WriterKnows

LEMMA WriteTemporarySound ==
    ASSUME ArtifactInv, NEW w \in Writers, WriteTemporary(w)
    PROVE  ArtifactInv'
<1> DEFINE W == [pc |-> "publish", own |-> made + 1, found |-> NoFile,
                 old |-> NoFile, seen |-> 0]
<1>1. /\ writer[w] = Unused /\ FilesTyped /\ made + 1 \in MadeFiles' /\ made \in Nat
      /\ made' = made + 1 /\ made < MaxFiles /\ MayEnter(w)
      /\ temporary' = [temporary EXCEPT ![w] = made + 1]
      /\ writer' = [writer EXCEPT ![w] = W]
      /\ UNCHANGED <<entry, litter, retired, disposed, stamp, line, reports, reader>>
    BY SMTT(30), WriterIs DEF ArtifactInv, WriteTemporary, WriterAt, FilesTyped, MadeFiles
<1>2. FilesTyped'
    BY <1>1, ArtifactAssumption DEF FilesTyped, WriterType, WriterPcs, MadeFiles, NoFile
<1>3. made + 1 # NoFile /\ made + 1 \notin MadeFiles
    BY <1>1 DEF MadeFiles, NoFile
<1>4. \A v \in Writers : /\ temporary'[v] = IF v = w THEN made + 1 ELSE temporary[v]
                         /\ writer'[v] = IF v = w THEN W ELSE writer[v]
    BY <1>1 DEF FilesTyped
<1>5. OnePlace'
    BY <1>1, <1>3, <1>4 DEF ArtifactInv, OnePlace, FilesTyped
<1>6. ASSUME NEW v \in Writers PROVE WriterKnows(v)'
    <2>1. CASE v = w
        <3>1. \A i \in DOMAIN line : line[i] # made + 1
            BY <1>1, <1>3, ElementOfSeq, LenProperties DEF FilesTyped
        <3> QED BY <1>1, <1>4, <2>1, <3>1 DEF WriterKnows, IsNew, Unused
    <2>2. CASE v # w
        BY <1>1, <1>4, <2>2, OtherKnows DEF ArtifactInv
    <2> QED BY <2>1, <2>2
<1>7. LockedKnows'
    <2> SUFFICES ASSUME Locked PROVE LockedKnows'
        BY <1>1 DEF LockedKnows
    <2>1. \A v \in Writers : writer[v] = Unused
        BY <1>1, WriterIs DEF MayEnter, WriterAt
    <2>2. \A v \in Writers : writer'[v].pc \notin {"fail", "dispose"}
        BY <1>4, <2>1 DEF Unused
    <2>3. ASSUME NEW r \in reports, r.raised
          PROVE  IsGone(r.file)' \/ r.found = NoFile \/ IsKept(r.found)' \/ stamp'[r.file] > 0
        <3>1. r.file # made + 1
            BY <1>1, <1>3 DEF FilesTyped
        <3> QED BY <1>1, <1>4, <2>2, <2>3, <3>1 DEF ArtifactInv, LockedKnows, IsGone, IsKept
    <2> QED BY <1>1, <1>4, <2>1, <2>2, <2>3 DEF LockedKnows
<1>8. ReportsFit' /\ DisposedFit'
    BY <1>1, LineGrows DEF ArtifactInv
<1>9. ReaderKnows'
    BY <1>1, ReaderStays DEF ArtifactInv, FilesTyped
<1> QED BY <1>2, <1>5, <1>6, <1>7, <1>8, <1>9 DEF ArtifactInv

\* Steps of a writer that touch no file: on the way, or back to the start.
LEMMA LookingOn ==
    ASSUME ArtifactInv, NEW w \in Writers, UNCHANGED <<fileVars, reader>>,
           NEW W \in WriterType \union {Unused}, writer[w] # Unused,
           writer' = [writer EXCEPT ![w] = W], WriterKnows(w)',
           W.pc # "dispose",
           Locked /\ W.pc = "fail" =>
               \/ temporary[w] = W.own
               \/ IsGone(W.own)
               \/ W.found = NoFile \/ W.found = temporary[w] \/ W.found \in litter \union retired,
           NEW R \in [file : MadeFiles, found : MadeFiles \union {NoFile}, raised : BOOLEAN],
           reports' = reports \/ reports' = reports \union {R},
           reports' # reports /\ ~R.raised => Came(R.file, R.found),
           reports' # reports /\ Locked /\ R.raised =>
               IsGone(R.file) \/ R.found = NoFile \/ R.found \in litter \union retired
                   \/ stamp[R.file] > 0
    PROVE  ArtifactInv'
<1>1. /\ FilesTyped /\ made' = made /\ stamp' = stamp /\ line' = line
      /\ made \in Nat
      /\ \A v \in Writers : writer'[v] = IF v = w THEN W ELSE writer[v]
    BY DEF ArtifactInv, FilesTyped, fileVars
<1>2. FilesTyped'
    BY <1>1 DEF FilesTyped, WriterType, MadeFiles, fileVars
<1>3. OnePlace'
    BY <1>1 DEF ArtifactInv, OnePlace, fileVars
<1>4. ASSUME NEW v \in Writers PROVE WriterKnows(v)'
    <2>1. CASE v # w
        BY <1>1, <2>1, OtherKnows DEF ArtifactInv, fileVars
    <2> QED BY <2>1
<1>5. LockedKnows'
    <2> SUFFICES ASSUME Locked PROVE LockedKnows'
        BY DEF LockedKnows
    <2>1. \A v \in Writers : writer[v] # Unused => v = w
        BY DEF ArtifactInv, LockedKnows
    <2>2. \A v \in Writers : writer'[v].pc # "dispose"
        BY <1>1, <2>1, WriterIs DEF Unused
    <2>3. \A v, u \in Writers : writer'[v] # Unused /\ writer'[u] # Unused => v = u
        BY <1>1, <2>1
    <2>4. \A v \in Writers : writer'[v].pc = "fail" => v = w
        BY <1>1, <2>1 DEF Unused
    <2>5. \A f : IsGone(f) <=> IsGone(f)'
        BY DEF IsGone, fileVars
    <2>6. \A f : f \in litter \union retired => IsKept(f)'
        BY <2>2 DEF IsKept, fileVars
    <2>7. ASSUME NEW r \in reports', r.raised
          PROVE  IsGone(r.file)' \/ r.found = NoFile \/ IsKept(r.found)' \/ stamp'[r.file] > 0
        <3>1. CASE r \in reports
            BY <1>1, <2>5, <2>6, <2>7, <3>1 DEF ArtifactInv, LockedKnows, IsKept
        <3>2. CASE r \notin reports
            BY <1>1, <2>5, <2>6, <2>7, <3>2
        <3> QED BY <3>1, <3>2
    <2>8. ASSUME NEW v \in Writers, writer'[v].pc = "fail"
          PROVE  \/ temporary'[v] = writer'[v].own
                 \/ IsGone(writer[v].own)'
                 \/ writer'[v].found = NoFile \/ writer'[v].found = temporary'[v]
                 \/ writer'[v].found \in litter' \union retired'
        BY <1>1, <2>4, <2>5, <2>8 DEF fileVars, IsGone
    <2> QED BY <2>3, <2>7, <2>8 DEF LockedKnows
<1>6. ReportsFit'
    BY <1>1 DEF ArtifactInv, ReportsFit, Came
<1>7. DisposedFit'
    BY <1>1 DEF ArtifactInv, DisposedFit, fileVars
<1>8. ReaderKnows'
    BY <1>1, ReaderStays DEF ArtifactInv, FilesTyped
<1> QED BY <1>2, <1>3, <1>4, <1>5, <1>6, <1>7, <1>8 DEF ArtifactInv

\* Where a writer stands, and the record it stands there with.
LEMMA WriterHere ==
    ASSUME ArtifactInv, NEW w \in Writers, NEW pc \in WriterPcs, WriterAt(w, pc)
    PROVE  /\ FilesTyped /\ made \in Nat /\ writer[w] # Unused /\ writer[w] \in WriterType
           /\ WriterKnows(w) /\ writer[w].pc = pc
           /\ writer[w].own \in MadeFiles /\ writer[w].own # NoFile
           /\ writer[w].found \in MadeFiles \union {NoFile}
           /\ [file |-> writer[w].own, found |-> writer[w].found, raised |-> TRUE]
                \in [file : MadeFiles, found : MadeFiles \union {NoFile}, raised : BOOLEAN]
           /\ \A q \in WriterPcs :
                /\ WriterGoes(w, q) <=> writer' = [writer EXCEPT ![w] = [@ EXCEPT !.pc = q]]
                /\ [writer[w] EXCEPT !.pc = q] =
                     [pc |-> q, own |-> writer[w].own, found |-> writer[w].found,
                      old |-> writer[w].old, seen |-> writer[w].seen]
                /\ [writer[w] EXCEPT !.pc = q] \in WriterType
<1>1. FilesTyped /\ made \in Nat /\ writer[w].pc = pc /\ pc # "idle"
    BY DEF ArtifactInv, FilesTyped, WriterAt, WriterPcs
<1>2. writer[w] \in WriterType /\ writer[w] # Unused
    BY <1>1, WriterIs
<1>3. \A q \in WriterPcs :
        /\ [writer[w] EXCEPT !.pc = q] =
             [pc |-> q, own |-> writer[w].own, found |-> writer[w].found,
              old |-> writer[w].old, seen |-> writer[w].seen]
        /\ [writer[w] EXCEPT !.pc = q] \in WriterType
    BY <1>2 DEF WriterType
<1>4. \A q \in WriterPcs :
        WriterGoes(w, q) <=> writer' = [writer EXCEPT ![w] = [@ EXCEPT !.pc = q]]
    BY DEF WriterGoes
<1>5. writer[w].own \in MadeFiles /\ writer[w].own # NoFile /\ writer[w].found \in MadeFiles \union {NoFile}
    BY <1>2 DEF WriterType, MadeFiles, NoFile
<1> QED BY <1>1, <1>2, <1>3, <1>4, <1>5 DEF ArtifactInv

\* A writer goes on without a report.
LEMMA WriterGoing ==
    ASSUME ArtifactInv, NEW w \in Writers, NEW pc \in WriterPcs, WriterAt(w, pc),
           UNCHANGED <<fileVars, reader, reports>>,
           NEW q \in WriterPcs \ {"dispose"}, WriterGoes(w, q), WriterKnows(w)',
           q = "fail" =>
               \/ temporary[w] = writer[w].own
               \/ writer[w].found = NoFile \/ writer[w].found = temporary[w]
               \/ IsGone(writer[w].own) \/ writer[w].found \in litter \union retired
    PROVE  ArtifactInv'
<1>1. [writer[w] EXCEPT !.pc = q] \in WriterType \union {Unused}
    BY WriterHere
<1>2. /\ [writer[w] EXCEPT !.pc = q].pc = q
      /\ [writer[w] EXCEPT !.pc = q].own = writer[w].own
      /\ [writer[w] EXCEPT !.pc = q].found = writer[w].found
    BY WriterHere
<1>3. /\ writer[w] # Unused /\ writer' = [writer EXCEPT ![w] = [writer[w] EXCEPT !.pc = q]]
      /\ [file |-> writer[w].own, found |-> writer[w].found, raised |-> TRUE]
                \in [file : MadeFiles, found : MadeFiles \union {NoFile}, raised : BOOLEAN]
    BY WriterHere
<1> QED BY <1>1, <1>2, <1>3, LookingOn

LEMMA FindSound ==
    ASSUME ArtifactInv, NEW w \in Writers, Find(w)
    PROVE  ArtifactInv'
<1> DEFINE q == IF IsFull THEN "fail"
                ELSE IF w \in Replacers /\ entry # NoFile THEN "exchange" ELSE "rename"
           W == [pc |-> q, own |-> writer[w].own, found |-> entry,
                 old |-> writer[w].old, seen |-> writer[w].seen]
<1>1. /\ FilesTyped /\ writer[w] \in WriterType /\ writer[w] # Unused /\ WriterKnows(w)
      /\ writer[w].pc = "publish" /\ UNCHANGED <<fileVars, reports, reader>>
      /\ [file |-> writer[w].own, found |-> writer[w].found, raised |-> TRUE]
                \in [file : MadeFiles, found : MadeFiles \union {NoFile}, raised : BOOLEAN]
    BY WriterHere DEF Find, WriterPcs, WriterAt
<1>2. writer' = [writer EXCEPT ![w] = W] /\ W \in WriterType
    BY <1>1 DEF Find, WriterType, WriterPcs, FilesTyped
<1>3. temporary[w] = writer[w].own /\ IsNew(writer[w].own)
    BY <1>1 DEF WriterKnows
<1>4. writer'[w] = W
    BY <1>1, <1>2 DEF FilesTyped
<1>5. WriterKnows(w)'
    BY <1>1, <1>3, <1>4 DEF WriterKnows, IsNew, fileVars, Unused
<1>6. W.pc # "dispose" /\ temporary[w] = W.own /\ W \in WriterType \union {Unused}
    BY <1>2, <1>3
<1> HIDE DEF W
<1> QED BY <1>1, <1>2, <1>5, <1>6, LookingOn

LEMMA CompareFoundSound ==
    ASSUME ArtifactInv, NEW w \in Writers, CompareFound(w)
    PROVE  ArtifactInv'
<1> DEFINE q == IF IsExchanged(w) THEN "retire" ELSE "undo"
<1>1. /\ FilesTyped /\ writer[w] \in WriterType /\ WriterKnows(w)
      /\ writer[w].pc = "compare" /\ UNCHANGED <<fileVars, reports, reader>>
      /\ q \in WriterPcs \ {"dispose"} /\ WriterGoes(w, q) /\ WriterAt(w, "compare")
    BY WriterHere DEF CompareFound, WriterPcs, WriterAt
<1>2. writer'[w] = [pc |-> q, own |-> writer[w].own, found |-> writer[w].found,
                    old |-> writer[w].old, seen |-> writer[w].seen]
    BY <1>1 DEF FilesTyped, WriterGoes, WriterType
<1>3. WriterKnows(w)'
    BY <1>1, <1>2 DEF WriterKnows, IsExchanged, Own, fileVars, Came, Unused
<1> QED BY <1>1, <1>3, WriterGoing DEF WriterPcs

LEMMA VerifyPublishedSound ==
    ASSUME ArtifactInv, NEW w \in Writers, VerifyPublished(w)
    PROVE  ArtifactInv'
<1> DEFINE raised == entry # writer[w].own \/ stamp[writer[w].own] # 0
           R == [file |-> writer[w].own, found |-> writer[w].found, raised |-> raised]
<1>1. /\ FilesTyped /\ writer[w] \in WriterType /\ WriterKnows(w) /\ writer[w] # Unused
      /\ writer[w].pc = "verify" /\ UNCHANGED <<fileVars, reader>>
      /\ writer[w].own \in MadeFiles /\ writer[w].own # NoFile
      /\ writer[w].found \in MadeFiles \union {NoFile}
      /\ writer' = [writer EXCEPT ![w] = Unused] /\ reports' = reports \union {R}
    BY WriterHere DEF VerifyPublished, WriterPcs, WriterAt, End, Own
<1>2. R \in [file : MadeFiles, found : MadeFiles \union {NoFile}, raised : BOOLEAN]
    BY <1>1
<1>3. temporary[w] = NoFile /\ Came(R.file, R.found)
    BY <1>1 DEF WriterKnows
<1>4. Locked /\ R.raised => IsGone(R.file) \/ stamp[R.file] > 0
    <2> SUFFICES ASSUME Locked, entry # writer[w].own \/ stamp[writer[w].own] # 0
                 PROVE  IsGone(writer[w].own) \/ stamp[writer[w].own] > 0
        OBVIOUS
    <2>1. \A v \in Writers : temporary[v] = NoFile
        BY <1>1, <1>3 DEF ArtifactInv, LockedKnows, WriterKnows
    <2>2. stamp[writer[w].own] \in Nat
        BY <1>1, ArtifactAssumption DEF FilesTyped, MadeFiles, Files
    <2> QED BY <1>1, <2>1, <2>2 DEF IsGone
<1>5. writer'[w] = Unused /\ WriterKnows(w)'
    BY <1>1, <1>3 DEF FilesTyped, WriterKnows, Unused, fileVars
<1>6. Unused.pc \notin {"dispose", "fail"} /\ Unused \in WriterType \union {Unused}
    BY DEF Unused
<1>7. reports' # reports /\ ~R.raised => Came(R.file, R.found)
    BY <1>3
<1>8. reports' # reports /\ Locked /\ R.raised =>
          IsGone(R.file) \/ R.found = NoFile \/ R.found \in litter \union retired
              \/ stamp[R.file] > 0
    BY <1>4
<1> HIDE DEF R
<1> QED BY <1>1, <1>2, <1>5, <1>6, <1>7, <1>8, LookingOn

-----------------------------------------------------------------------------
(* The steps of a writer that move files                                   *)

\* Under the lock nothing of what was told of failed writes is undone.
LEMMA LockedStays ==
    ASSUME ArtifactInv, NEW w \in Writers, writer[w] # Unused, stamp' = stamp,
           NEW W \in WriterType \union {Unused}, writer' = [writer EXCEPT ![w] = W],
           NEW R, reports' = reports \/ reports' = reports \union {R},
           \A f \in MadeFiles : IsGone(f) => IsGone(f)',
           \A f : IsKept(f) => f \in litter' \union retired' /\ (W.pc = "dispose" => W.old # f),
           Locked /\ W.pc = "fail" =>
               \/ temporary'[w] = W.own \/ IsGone(W.own)'
               \/ W.found = NoFile \/ W.found = temporary'[w]
               \/ W.found \in litter' \union retired',
           reports' # reports => W = Unused,
           reports' # reports /\ Locked /\ R.raised =>
               IsGone(R.file)' \/ R.found = NoFile \/ R.found \in litter' \union retired'
                   \/ stamp[R.file] > 0
    PROVE  LockedKnows'
<1> SUFFICES ASSUME Locked PROVE LockedKnows'
    BY DEF LockedKnows
<1>1. FilesTyped /\ \A v \in Writers : writer'[v] = IF v = w THEN W ELSE writer[v]
    BY DEF ArtifactInv, FilesTyped
<1>2. \A v \in Writers : writer[v] # Unused => v = w
    BY DEF ArtifactInv, LockedKnows
<1>3. \A v \in Writers : writer'[v].pc = "dispose" => v = w /\ W.pc = "dispose"
    BY <1>1, <1>2 DEF Unused
<1>4. \A v, u \in Writers : writer'[v] # Unused /\ writer'[u] # Unused => v = u
    BY <1>1, <1>2
<1>5. ASSUME NEW v \in Writers, writer'[v].pc = "fail"
      PROVE  \/ temporary'[v] = writer'[v].own
             \/ IsGone(writer[v].own)'
             \/ writer'[v].found = NoFile \/ writer'[v].found = temporary'[v]
             \/ writer'[v].found \in litter' \union retired'
    <2>1. v = w /\ writer'[v] = W /\ W.pc = "fail"
        BY <1>1, <1>2, <1>5 DEF Unused
    <2> QED BY <2>1 DEF IsGone
<1>6. \A f : IsKept(f) => IsKept(f)'
    BY <1>1, <1>3 DEF IsKept
<1>7. ASSUME NEW r \in reports', r.raised
      PROVE  IsGone(r.file)' \/ r.found = NoFile \/ IsKept(r.found)' \/ stamp'[r.file] > 0
    <2>1. CASE r \in reports
        <3>1. r.file \in MadeFiles
            BY <1>1, <2>1 DEF FilesTyped
        <3> QED BY <1>6, <1>7, <2>1, <3>1 DEF ArtifactInv, LockedKnows
    <2>2. CASE r \notin reports
        <3>1. r = R /\ W = Unused
            BY <2>2
        <3>2. \A v \in Writers : writer'[v].pc # "dispose"
            BY <1>3, <3>1 DEF Unused
        <3> QED BY <1>7, <2>2, <3>1, <3>2 DEF IsKept
    <2> QED BY <2>1, <2>2
<1> QED BY <1>4, <1>5, <1>7 DEF LockedKnows

\* The path and the temporary entry are exchanged; a rename to the free path is
\* an exchange with nothing.
LEMMA SwapSound ==
    ASSUME ArtifactInv, NEW w \in Writers, writer[w] # Unused, temporary[w] # NoFile,
           Swap(w), UNCHANGED <<litter, retired, disposed, made, stamp, reports, reader>>,
           NEW W \in WriterType, writer' = [writer EXCEPT ![w] = W], W.pc # "dispose",
           WriterKnows(w)', Locked /\ W.pc = "fail" => W.own = entry \/ IsGone(W.own)
    PROVE  ArtifactInv'
<1> DEFINE g == temporary[w]
<1>1. /\ FilesTyped /\ made \in Nat /\ g \in MadeFiles /\ g \in Nat
      /\ entry' = g /\ line' = Append(line, g)
      /\ \A v \in Writers : /\ temporary'[v] = IF v = w THEN entry ELSE temporary[v]
                            /\ writer'[v] = IF v = w THEN W ELSE writer[v]
    BY WriterIs DEF ArtifactInv, FilesTyped, MadeFiles, Swap, Show
<1>2. /\ g \notin {entry} \union litter \union retired \union disposed
      /\ \A v \in Writers \ {w} : temporary[v] # g
    BY DEF ArtifactInv, OnePlace
<1>3. FilesTyped'
    <2>1. line' \in Seq(MadeFiles) /\ line' # <<>> /\ line'[Len(line')] = g
        BY <1>1, AppendProperties, LenProperties DEF FilesTyped
    <2>2. temporary' \in [Writers -> MadeFiles \union {NoFile}]
        BY <1>1 DEF FilesTyped, Swap
    <2>3. writer' \in [Writers -> WriterType \union {Unused}]
        BY <1>1 DEF FilesTyped
    <2> QED BY <1>1, <2>1, <2>2, <2>3 DEF FilesTyped, MadeFiles, WriterType
<1>4. OnePlace'
    <2>1. ASSUME NEW u \in Writers, temporary'[u] # NoFile
          PROVE  /\ temporary'[u] \notin {entry'} \union litter \union retired \union disposed
                 /\ \A v \in Writers \ {u} : temporary'[v] # temporary'[u]
        BY <1>1, <1>2, <2>1 DEF ArtifactInv, OnePlace
    <2>2. \A v, u \in Writers :
              writer'[v].pc = "dispose" /\ writer'[u].pc = "dispose"
                  /\ writer'[v].old = writer'[u].old => v = u
        BY <1>1 DEF ArtifactInv, OnePlace
    <2> QED BY <1>1, <1>2, <2>1, <2>2 DEF ArtifactInv, OnePlace
<1>5. ASSUME NEW v \in Writers PROVE WriterKnows(v)'
    <2>1. CASE v # w
        BY <1>1, <1>2, <2>1, OtherKnows DEF ArtifactInv
    <2> QED BY <2>1
<1>6. \A f \in MadeFiles : IsGone(f) => IsGone(f)'
    BY <1>1 DEF IsGone
<1>7. LockedKnows'
    <2>1. \A f : IsKept(f) => f \in litter' \union retired'
        BY DEF IsKept
    <2>2. Locked /\ W.pc = "fail" => temporary'[w] = W.own \/ IsGone(W.own)'
        BY <1>1, <1>6 DEF WriterType
    <2> QED BY <1>6, <2>1, <2>2, LockedStays
<1>8. ReportsFit' /\ DisposedFit'
    BY <1>1, LineGrows DEF ArtifactInv
<1>9. ReaderKnows'
    BY <1>1, ReaderStays DEF ArtifactInv, FilesTyped
<1> QED BY <1>3, <1>4, <1>5, <1>7, <1>8, <1>9 DEF ArtifactInv

LEMMA RenameNoReplaceSound ==
    ASSUME ArtifactInv, NEW w \in Writers, RenameNoReplace(w)
    PROVE  ArtifactInv'
<1>1. /\ FilesTyped /\ writer[w] \in WriterType /\ WriterKnows(w) /\ writer[w] # Unused
      /\ writer[w].pc = "rename" /\ WriterAt(w, "rename") /\ made \in Nat
      /\ writer[w].own \in MadeFiles /\ writer[w].own # NoFile
    BY WriterHere DEF RenameNoReplace, WriterPcs, WriterAt
<1>2. PICK own \in MadeFiles : own = writer[w].own
    BY <1>1
<1>3. own \in Nat
    BY <1>1 DEF MadeFiles
<1>4. temporary[w] = own /\ IsNew(own) /\ (writer[w].found # NoFile => entry # NoFile)
    BY <1>1, <1>2 DEF WriterKnows
<1>5. CASE entry # NoFile
    <2>1. UNCHANGED <<fileVars, reader, reports>> /\ WriterGoes(w, "fail")
        BY <1>5 DEF RenameNoReplace, fileVars
    <2>2. writer'[w] = [pc |-> "fail", own |-> own, found |-> writer[w].found,
                        old |-> writer[w].old, seen |-> writer[w].seen]
        BY <1>1, <1>2, <2>1 DEF FilesTyped, WriterGoes, WriterType
    <2>3. WriterKnows(w)'
        BY <1>5, <2>1, <2>2 DEF WriterKnows, fileVars, Unused
    <2> QED BY <1>1, <1>2, <1>4, <2>1, <2>3, WriterGoing DEF WriterPcs
<1>6. CASE entry = NoFile
    <2> DEFINE W == [writer[w] EXCEPT !.pc = "verify"]
    <2>1. /\ UNCHANGED <<litter, retired, disposed, made, stamp, reports, reader>>
          /\ Swap(w) /\ writer' = [writer EXCEPT ![w] = W]
        BY <1>6 DEF RenameNoReplace, Swap, WriterGoes
    <2>2. /\ W \in WriterType /\ W.pc = "verify" /\ W.own = own
          /\ W.found = writer[w].found /\ writer'[w] = W
        BY <1>1, <1>2, <2>1 DEF WriterType, WriterPcs, FilesTyped
    <2>3. temporary'[w] = NoFile /\ entry' = own /\ line' = Append(line, own)
        BY <1>1, <1>4, <1>6, <2>1 DEF Swap, Show, FilesTyped
    <2>4. Came(own, NoFile)'
        BY <1>1, <1>3, <1>4, <1>6, <2>3, CameNow
    <2>5. WriterKnows(w)'
        BY <1>1, <1>2, <1>4, <1>6, <2>2, <2>3, <2>4 DEF WriterKnows, Unused
    <2> HIDE DEF W
    <2> QED BY <1>1, <1>2, <1>4, <2>1, <2>2, <2>5, SwapSound
<1> QED BY <1>5, <1>6

LEMMA ExchangeSound ==
    ASSUME ArtifactInv, NEW w \in Writers, Exchange(w)
    PROVE  ArtifactInv'
<1> DEFINE W == [writer[w] EXCEPT !.pc = "compare"]
<1>1. /\ FilesTyped /\ writer[w] \in WriterType /\ WriterKnows(w) /\ writer[w] # Unused
      /\ writer[w].pc = "exchange" /\ made \in Nat
      /\ writer[w].own \in MadeFiles /\ writer[w].own # NoFile
    BY WriterHere DEF Exchange, WriterPcs, WriterAt
<1>2. PICK own \in MadeFiles, q \in MadeFiles \union {NoFile} : own = writer[w].own /\ q = entry
    BY <1>1 DEF FilesTyped
<1>3. own \in Nat
    BY <1>1 DEF MadeFiles
<1>4. temporary[w] = own /\ IsNew(own) /\ q # NoFile
    BY <1>1, <1>2 DEF WriterKnows
<1>5. /\ UNCHANGED <<litter, retired, disposed, made, stamp, reports, reader>>
      /\ Swap(w) /\ writer' = [writer EXCEPT ![w] = W]
    BY DEF Exchange, WriterGoes
<1>6. /\ W \in WriterType /\ W.pc = "compare" /\ W.own = own
      /\ W.found = writer[w].found /\ writer'[w] = W
    BY <1>1, <1>2, <1>5 DEF WriterType, WriterPcs, FilesTyped
<1>7. temporary'[w] = q /\ entry' = own /\ line' = Append(line, own)
    BY <1>1, <1>2, <1>4, <1>5 DEF Swap, Show, FilesTyped
<1>8. Came(own, q)'
    BY <1>1, <1>2, <1>3, <1>4, <1>7, CameNow
<1>9. q # own
    BY <1>1, <1>2, <1>4 DEF ArtifactInv, OnePlace
<1>10. WriterKnows(w)'
    BY <1>1, <1>2, <1>4, <1>6, <1>7, <1>8, <1>9 DEF WriterKnows, Unused
<1> HIDE DEF W
<1> QED BY <1>1, <1>2, <1>4, <1>5, <1>6, <1>10, SwapSound

LEMMA UndoSound ==
    ASSUME ArtifactInv, NEW w \in Writers, Undo(w)
    PROVE  ArtifactInv'
<1> DEFINE W == [writer[w] EXCEPT !.pc = "fail"]
<1>1. /\ FilesTyped /\ writer[w] \in WriterType /\ WriterKnows(w) /\ writer[w] # Unused
      /\ writer[w].pc = "undo" /\ writer[w].own \in MadeFiles /\ writer[w].own # NoFile
    BY WriterHere DEF Undo, WriterPcs, WriterAt
<1>2. temporary[w] \notin {NoFile, writer[w].own}
    BY <1>1 DEF WriterKnows
<1>3. /\ UNCHANGED <<litter, retired, disposed, made, stamp, reports, reader>>
      /\ Swap(w) /\ writer' = [writer EXCEPT ![w] = W]
    BY DEF Undo, WriterGoes
<1>4. /\ W \in WriterType /\ W.pc = "fail" /\ W.own = writer[w].own
      /\ W.found = writer[w].found /\ writer'[w] = W
    BY <1>1, <1>3 DEF WriterType, WriterPcs, FilesTyped
<1>5. entry' = temporary[w]
    BY <1>3 DEF Swap, Show
<1>6. WriterKnows(w)'
    BY <1>1, <1>2, <1>4, <1>5 DEF WriterKnows, Unused
<1>7. Locked => W.own = entry \/ IsGone(W.own)
    <2> SUFFICES ASSUME Locked, writer[w].own # entry PROVE IsGone(writer[w].own)
        BY <1>4
    <2>1. \A v \in Writers \ {w} : temporary[v] = NoFile
        BY <1>1 DEF ArtifactInv, LockedKnows, WriterKnows
    <2> QED BY <1>1, <1>2, <2>1 DEF IsGone
<1> HIDE DEF W
<1> QED BY <1>1, <1>2, <1>3, <1>4, <1>6, <1>7, SwapSound

\* A writer lets go of its temporary entry, which has become another one, or
\* was none.
LEMMA StepsAside ==
    ASSUME ArtifactInv, NEW w \in Writers, writer[w] # Unused,
           temporary' = [temporary EXCEPT ![w] = NoFile],
           UNCHANGED <<entry, line, made, stamp, reader>>,
           litter' \subseteq MadeFiles, retired' \subseteq MadeFiles, disposed' \subseteq MadeFiles,
           NEW W \in WriterType \union {Unused}, writer' = [writer EXCEPT ![w] = W],
           NEW R \in [file : MadeFiles, found : MadeFiles \union {NoFile}, raised : BOOLEAN],
           reports' = reports \/ reports' = reports \union {R},
           OnePlace', WriterKnows(w)', DisposedFit',
           \A v \in Writers \ {w} :
              writer[v].pc = "dispose" /\ writer[v].old \in retired => writer[v].old \in retired',
           \A f : IsKept(f) => f \in litter' \union retired' /\ (W.pc = "dispose" => W.old # f),
           W.pc = "fail" => W.found = NoFile \/ W.found \in litter' \union retired',
           reports' # reports => W = Unused /\ R.raised,
           reports' # reports /\ Locked =>
               IsGone(R.file)' \/ R.found = NoFile \/ R.found \in litter' \union retired'
    PROVE  ArtifactInv'
<1>1. /\ FilesTyped /\ made \in Nat /\ line' = line
      /\ \A v \in Writers : /\ temporary'[v] = IF v = w THEN NoFile ELSE temporary[v]
                            /\ writer'[v] = IF v = w THEN W ELSE writer[v]
    BY DEF ArtifactInv, FilesTyped
<1>2. FilesTyped'
    <2>1. temporary' \in [Writers -> MadeFiles \union {NoFile}]
        BY <1>1 DEF FilesTyped
    <2>2. writer' \in [Writers -> WriterType \union {Unused}]
        BY <1>1 DEF FilesTyped
    <2> QED BY <1>1, <2>1, <2>2 DEF FilesTyped, MadeFiles, WriterType
<1>3. ASSUME NEW v \in Writers PROVE WriterKnows(v)'
    <2>1. CASE v # w
        BY <1>1, <2>1, OtherKnows DEF ArtifactInv
    <2> QED BY <2>1
<1>4. LockedKnows'
    <2>1. \A f \in MadeFiles : IsGone(f) => IsGone(f)'
        BY <1>1 DEF IsGone, MadeFiles, NoFile
    <2> QED BY <2>1, LockedStays
<1>5. ReportsFit'
    <2>1. ASSUME NEW r \in reports', ~r.raised PROVE r \in reports
        BY <2>1
    <2> QED BY <1>1, <2>1 DEF ArtifactInv, ReportsFit, Came
<1>6. ReaderKnows'
    BY <1>1, ReaderStays DEF ArtifactInv, FilesTyped
<1> QED BY <1>2, <1>3, <1>4, <1>5, <1>6 DEF ArtifactInv

LEMMA WithOld ==
    ASSUME NEW r \in WriterType, NEW q, NEW f, NEW n
    PROVE  [r EXCEPT !.pc = q, !.old = f, !.seen = n] =
               [pc |-> q, own |-> r.own, found |-> r.found, old |-> f, seen |-> n]
<1>1. r = [pc |-> r.pc, own |-> r.own, found |-> r.found, old |-> r.old, seen |-> r.seen]
    BY DEF WriterType
<1>2. PICK s : s = [pc |-> q, own |-> r.own, found |-> r.found, old |-> r.old, seen |-> r.seen]
    OBVIOUS
<1>3. [r EXCEPT !.pc = q] = s
    BY <1>1, <1>2
<1>4. PICK t : t = [pc |-> q, own |-> r.own, found |-> r.found, old |-> f, seen |-> r.seen]
    OBVIOUS
<1>5. [s EXCEPT !.old = f] = t
    BY <1>2, <1>4
<1>6. [t EXCEPT !.seen = n] =
          [pc |-> q, own |-> r.own, found |-> r.found, old |-> f, seen |-> n]
    BY <1>4
<1>7. [r EXCEPT !.pc = q, !.old = f, !.seen = n] =
          [[[r EXCEPT !.pc = q] EXCEPT !.old = f] EXCEPT !.seen = n]
    OBVIOUS
<1> QED BY <1>3, <1>5, <1>6, <1>7

LEMMA RetirePredecessorSound ==
    ASSUME ArtifactInv, NEW w \in Writers, RetirePredecessor(w)
    PROVE  ArtifactInv'
<1>1. /\ FilesTyped /\ writer[w] \in WriterType /\ WriterKnows(w) /\ writer[w] # Unused
      /\ writer[w].pc = "retire" /\ WriterAt(w, "retire") /\ made \in Nat
      /\ [file |-> writer[w].own, found |-> writer[w].found, raised |-> TRUE]
                \in [file : MadeFiles, found : MadeFiles \union {NoFile}, raised : BOOLEAN]
    BY WriterHere DEF RetirePredecessor, WriterPcs, WriterAt
<1>2. PICK old \in MadeFiles : old = temporary[w]
    BY <1>1 DEF WriterKnows, FilesTyped
<1>3. /\ writer[w].found = old /\ old # NoFile /\ old # writer[w].own
      /\ Came(writer[w].own, old) /\ entry # NoFile
    BY <1>1, <1>2 DEF WriterKnows
<1>4. CASE IsFull
    <2>1. UNCHANGED <<fileVars, reader, reports>> /\ WriterGoes(w, "fail")
        BY <1>4 DEF RetirePredecessor, fileVars
    <2>2. writer'[w] = [pc |-> "fail", own |-> writer[w].own, found |-> writer[w].found,
                        old |-> writer[w].old, seen |-> writer[w].seen]
        BY <1>1, <2>1 DEF FilesTyped, WriterGoes, WriterType
    <2>3. WriterKnows(w)'
        BY <1>3, <2>1, <2>2 DEF WriterKnows, fileVars, Unused
    <2> QED BY <1>1, <1>2, <1>3, <2>1, <2>3, WriterGoing DEF WriterPcs
<1>5. CASE ~IsFull
    <2> DEFINE W == [pc |-> "dispose", own |-> writer[w].own, found |-> old,
                     old |-> old, seen |-> stamp[old]]
    <2>1. /\ retired' = retired \union {old} /\ temporary' = [temporary EXCEPT ![w] = NoFile]
          /\ UNCHANGED <<entry, line, made, stamp, reader, litter, disposed, reports>>
          /\ writer' = [writer EXCEPT ![w].pc = "dispose", ![w].old = old,
                                      ![w].seen = stamp[old]]
        BY <1>2, <1>5 DEF RetirePredecessor
    <2>2. writer' = [writer EXCEPT ![w] = W]
        <3>1. PICK r \in WriterType, n \in Nat : r = writer[w] /\ n = stamp[old]
            BY <1>1, ArtifactAssumption DEF FilesTyped, MadeFiles, Files
        <3>2. [r EXCEPT !.pc = "dispose", !.old = old, !.seen = n] =
                  [pc |-> "dispose", own |-> r.own, found |-> r.found, old |-> old, seen |-> n]
            BY WithOld
        <3>3. W = [pc |-> "dispose", own |-> r.own, found |-> r.found, old |-> old, seen |-> n]
            BY <1>3, <3>1
        <3> HIDE DEF W
        <3>4. writer' = [writer EXCEPT ![w] =
                  [r EXCEPT !.pc = "dispose", !.old = old, !.seen = n]]
            BY <1>1, <2>1, <3>1 DEF FilesTyped
        <3> QED BY <3>2, <3>3, <3>4
    <2>3. W \in WriterType
        <3>1. stamp[old] \in Nat
            BY <1>1, ArtifactAssumption DEF FilesTyped, MadeFiles, Files
        <3> QED BY <1>1, <3>1 DEF WriterType, WriterPcs
    <2>4. \A v \in Writers : /\ temporary'[v] = IF v = w THEN NoFile ELSE temporary[v]
                             /\ writer'[v] = IF v = w THEN W ELSE writer[v]
        BY <1>1, <2>1, <2>2 DEF FilesTyped
    <2>5. /\ old \notin {entry} \union litter \union retired \union disposed
          /\ \A v \in Writers \ {w} : temporary[v] # old
        BY <1>2, <1>3 DEF ArtifactInv, OnePlace
    <2>6. \A v \in Writers \ {w} : writer[v].pc = "dispose" => writer[v].old # old
        BY <2>5 DEF ArtifactInv, WriterKnows
    <2>7. OnePlace'
        <3>1. \A v, u \in Writers :
                  writer'[v].pc = "dispose" /\ writer'[u].pc = "dispose"
                      /\ writer'[v].old = writer'[u].old => v = u
            BY <2>4, <2>6 DEF ArtifactInv, OnePlace
        <3>2. ASSUME NEW u \in Writers, temporary'[u] # NoFile
              PROVE  /\ temporary'[u] \notin {entry} \union litter \union retired' \union disposed
                     /\ \A v \in Writers \ {u} : temporary'[v] # temporary'[u]
            BY <2>1, <2>4, <2>5, <3>2 DEF ArtifactInv, OnePlace
        <3> QED BY <2>1, <2>5, <3>1, <3>2 DEF ArtifactInv, OnePlace
    <2>8. WriterKnows(w)'
        <3>1. PICK own : own = writer[w].own /\ Came(own, old)'
            BY <1>3, <2>1 DEF Came
        <3>2. writer'[w] = W /\ temporary'[w] = NoFile /\ old \in retired' /\ entry' # NoFile
            BY <1>3, <2>1, <2>4
        <3> QED BY <1>3, <3>1, <3>2 DEF WriterKnows, Unused
    <2>9. DisposedFit'
        BY <2>1 DEF ArtifactInv, DisposedFit
    <2>10. \A f : IsKept(f) => f \in litter' \union retired' /\ (W.pc = "dispose" => W.old # f)
        BY <2>1, <2>5 DEF IsKept
    <2>11. W.pc # "fail"
        OBVIOUS
    <2>12. litter' \subseteq MadeFiles /\ retired' \subseteq MadeFiles /\ disposed' \subseteq MadeFiles
        BY <1>1, <2>1 DEF FilesTyped
    <2> HIDE DEF W
    <2> QED BY <1>1, <2>1, <2>2, <2>3, <2>7, <2>8, <2>9, <2>10, <2>11, <2>12, StepsAside
<1> QED BY <1>4, <1>5

LEMMA DisposeSound ==
    ASSUME ArtifactInv, NEW w \in Writers, Dispose(w)
    PROVE  ArtifactInv'
<1>1. /\ FilesTyped /\ writer[w] \in WriterType /\ WriterKnows(w) /\ writer[w] # Unused
      /\ writer[w].pc = "dispose" /\ WriterAt(w, "dispose") /\ made \in Nat
      /\ [file |-> writer[w].own, found |-> writer[w].found, raised |-> TRUE]
                \in [file : MadeFiles, found : MadeFiles \union {NoFile}, raised : BOOLEAN]
    BY WriterHere DEF Dispose, WriterPcs, WriterAt
<1>2. PICK old \in MadeFiles : old = writer[w].old
    BY <1>1 DEF WriterKnows, FilesTyped
<1>3. /\ writer[w].found = old /\ old # NoFile /\ old # writer[w].own /\ old \in retired
      /\ Came(writer[w].own, old) /\ entry # NoFile /\ temporary[w] = NoFile
    BY <1>1, <1>2 DEF WriterKnows
<1>4. CASE stamp[old] # writer[w].seen
    <2>1. UNCHANGED <<fileVars, reader, reports>> /\ WriterGoes(w, "fail")
        BY <1>2, <1>4 DEF Dispose, fileVars
    <2>2. writer'[w] = [pc |-> "fail", own |-> writer[w].own, found |-> writer[w].found,
                        old |-> writer[w].old, seen |-> writer[w].seen]
        BY <1>1, <2>1 DEF FilesTyped, WriterGoes, WriterType
    <2>3. WriterKnows(w)'
        BY <1>3, <2>1, <2>2 DEF WriterKnows, fileVars, Unused
    <2> QED BY <1>1, <1>2, <1>3, <2>1, <2>3, WriterGoing DEF WriterPcs
<1>5. CASE stamp[old] = writer[w].seen
    <2> DEFINE W == [writer[w] EXCEPT !.pc = "verify"]
    <2>1. /\ retired' = retired \ {old} /\ disposed' = disposed \union {old}
          /\ UNCHANGED <<entry, line, made, stamp, reader, litter, temporary, reports>>
          /\ writer' = [writer EXCEPT ![w] = W]
        BY <1>2, <1>5 DEF Dispose, WriterGoes
    <2>2. /\ W \in WriterType /\ W.pc = "verify" /\ W.own = writer[w].own /\ W.found = old
          /\ writer'[w] = W
        BY <1>1, <1>3, <2>1 DEF WriterType, WriterPcs, FilesTyped
    <2>3. \A v \in Writers : writer'[v] = IF v = w THEN W ELSE writer[v]
        BY <1>1, <2>1 DEF FilesTyped
    <2>4. temporary' = [temporary EXCEPT ![w] = NoFile]
        BY <1>1, <1>3, <2>1 DEF FilesTyped
    <2>5. \A v \in Writers \ {w} : writer[v].pc = "dispose" => writer[v].old # old
        BY <1>1, <1>2 DEF ArtifactInv, OnePlace
    <2>6. OnePlace'
        <3>1. \A v, u \in Writers :
                  writer'[v].pc = "dispose" /\ writer'[u].pc = "dispose"
                      /\ writer'[v].old = writer'[u].old => v = u
            BY ZenonT(60), <2>2, <2>3 DEF ArtifactInv, OnePlace
        <3>2. old # entry /\ old \notin litter /\ \A v \in Writers : temporary[v] # old
            BY <1>3 DEF ArtifactInv, OnePlace
        <3> QED BY <2>1, <3>1, <3>2 DEF ArtifactInv, OnePlace
    <2>7. WriterKnows(w)'
        <3>1. Came(writer[w].own, old)'
            BY <1>3, <2>1 DEF Came
        <3> QED BY <1>3, <2>1, <2>2, <3>1 DEF WriterKnows, Unused
    <2>8. DisposedFit'
        <3>1. \E i \in DOMAIN line : i > 1 /\ line[i - 1] = old /\ line[i] # old
            BY <1>1, <1>3, CameAfter
        <3> QED BY <2>1, <3>1 DEF ArtifactInv, DisposedFit
    <2>9. \A f : IsKept(f) => f \in litter' \union retired' /\ W.pc # "dispose"
        BY <1>1, <1>2, <2>1, <2>2 DEF IsKept
    <2>10. W.pc # "fail" /\ W.pc # "dispose"
        BY <2>2
    <2>11. litter' \subseteq MadeFiles /\ retired' \subseteq MadeFiles /\ disposed' \subseteq MadeFiles
        BY <1>1, <2>1 DEF FilesTyped
    <2>12. \A v \in Writers \ {w} :
              writer[v].pc = "dispose" /\ writer[v].old \in retired => writer[v].old \in retired'
        BY <2>1, <2>5
    <2> HIDE DEF W
    <2> QED BY <1>1, <2>1, <2>2, <2>4, <2>6, <2>7, <2>8, <2>9, <2>10, <2>11, <2>12, StepsAside
<1> QED BY <1>4, <1>5

\* A writer ends, and its temporary entry stays beside the path or in the
\* quarantine.
LEMMA TemporaryKept ==
    ASSUME ArtifactInv, NEW w \in Writers, writer[w] # Unused,
           temporary' = [temporary EXCEPT ![w] = NoFile],
           NEW M, M = {temporary[w]} \ {NoFile},
           \/ litter' = litter \union M /\ retired' = retired
           \/ retired' = retired \union M /\ litter' = litter,
           UNCHANGED <<entry, line, made, stamp, reader, disposed>>,
           writer' = [writer EXCEPT ![w] = Unused],
           NEW R, R = [file |-> writer[w].own, found |-> writer[w].found, raised |-> TRUE],
           reports' = reports \/ reports' = reports \union {R},
           reports' # reports => writer[w].pc = "fail"
    PROVE  ArtifactInv'
<1>1. /\ FilesTyped /\ R \in [file : MadeFiles, found : MadeFiles \union {NoFile}, raised : BOOLEAN]
      /\ writer[w].own # NoFile
      /\ \A v \in Writers : /\ temporary'[v] = IF v = w THEN NoFile ELSE temporary[v]
                            /\ writer'[v] = IF v = w THEN Unused ELSE writer[v]
    BY WriterIs DEF ArtifactInv, FilesTyped, MadeFiles, NoFile
<1>2. Unused \in WriterType \union {Unused} /\ Unused.pc \notin {"fail", "dispose"}
    BY DEF Unused
<1>3. /\ litter' \subseteq MadeFiles /\ retired' \subseteq MadeFiles /\ disposed' \subseteq MadeFiles
      /\ litter' \union retired' = litter \union retired \union M
      /\ retired \subseteq retired' /\ M \subseteq {temporary[w]} /\ NoFile \notin M
    BY <1>1 DEF FilesTyped
<1>4. /\ M \intersect ({entry} \union litter \union retired \union disposed) = {}
      /\ \A v \in Writers \ {w} : temporary[v] \notin M
    BY DEF ArtifactInv, OnePlace
<1>5. OnePlace'
    <2>1. \A v, u \in Writers :
              writer'[v].pc = "dispose" /\ writer'[u].pc = "dispose"
                  /\ writer'[v].old = writer'[u].old => v = u
        BY <1>1, <1>2 DEF ArtifactInv, OnePlace
    <2>2. litter' \intersect retired' = {} /\ disposed' \intersect (litter' \union retired') = {}
        BY <1>3, <1>4 DEF ArtifactInv, OnePlace
    <2>3. ASSUME NEW u \in Writers, temporary'[u] # NoFile
          PROVE  /\ temporary'[u] \notin {entry} \union litter' \union retired' \union disposed
                 /\ \A v \in Writers \ {u} : temporary'[v] # temporary'[u]
        <3>1. u # w /\ temporary'[u] = temporary[u]
            BY <1>1, <2>3
        <3>2. temporary[u] \notin {entry} \union litter \union retired \union disposed
            BY <2>3, <3>1 DEF ArtifactInv, OnePlace
        <3>3. temporary[u] \notin litter' \union retired'
            BY <1>3, <1>4, <3>1, <3>2
        <3>4. \A v \in Writers \ {u} : temporary'[v] # temporary'[u]
            BY <1>1, <2>3, <3>1 DEF ArtifactInv, OnePlace
        <3> QED BY <3>1, <3>2, <3>3, <3>4
    <2>4. entry # NoFile => entry \notin litter' \union retired' \union disposed
        BY <1>3, <1>4 DEF ArtifactInv, OnePlace
    <2> QED BY <2>1, <2>2, <2>3, <2>4 DEF OnePlace
<1>6. WriterKnows(w)'
    BY <1>1 DEF WriterKnows, Unused
<1>7. DisposedFit'
    BY DEF ArtifactInv, DisposedFit
<1>8. \A f : IsKept(f) => f \in litter' \union retired' /\ (Unused.pc = "dispose" => Unused.old # f)
    BY <1>2, <1>3 DEF IsKept
<1>9. ASSUME reports' # reports, Locked
      PROVE  IsGone(R.file)' \/ R.found = NoFile \/ R.found \in litter' \union retired'
    <2>1. \/ temporary[w] = writer[w].own
          \/ IsGone(writer[w].own)
          \/ R.found = NoFile \/ R.found = temporary[w] \/ R.found \in litter \union retired
        BY <1>9 DEF ArtifactInv, LockedKnows
    <2>2. CASE temporary[w] = writer[w].own
        <3>1. /\ temporary[w] # entry
              /\ \A v \in Writers \ {w} : temporary[v] # temporary[w]
            BY <1>1, <2>2 DEF ArtifactInv, OnePlace
        <3>2. PICK f : f = R.file
            OBVIOUS
        <3>3. IsGone(f)'
            BY <1>1, <2>2, <3>1, <3>2 DEF IsGone
        <3> QED BY <3>2, <3>3 DEF IsGone
    <2>3. CASE IsGone(writer[w].own)
        <3>1. PICK f : f = R.file
            OBVIOUS
        <3>2. IsGone(f)'
            BY <1>1, <2>3, <3>1 DEF IsGone
        <3> QED BY <3>1, <3>2 DEF IsGone
    <2>4. CASE R.found = temporary[w]
        BY <1>3, <2>4
    <2> QED BY <1>3, <2>1, <2>2, <2>3, <2>4
<1>10. R.raised
    OBVIOUS
<1>11. \A v \in Writers \ {w} :
          writer[v].pc = "dispose" /\ writer[v].old \in retired => writer[v].old \in retired'
    BY <1>3
<1>12. PICK W : W = Unused
    OBVIOUS
<1>13. /\ W \in WriterType \union {Unused} /\ writer' = [writer EXCEPT ![w] = W]
       /\ W.pc # "fail" /\ W.pc # "dispose"
    BY <1>2, <1>12
<1>14. /\ \A f : IsKept(f) => f \in litter' \union retired' /\ (W.pc = "dispose" => W.old # f)
       /\ W.pc = "fail" => W.found = NoFile \/ W.found \in litter' \union retired'
    BY <1>8, <1>13
<1>15. reports' # reports => W = Unused /\ R.raised
    BY <1>10, <1>12
<1>16. reports' # reports /\ Locked =>
          IsGone(R.file)' \/ R.found = NoFile \/ R.found \in litter' \union retired'
    BY <1>9
<1>17. R \in [file : MadeFiles, found : MadeFiles \union {NoFile}, raised : BOOLEAN]
    BY <1>1
<1> QED BY <1>3, <1>5, <1>6, <1>7, <1>11, <1>13, <1>14, <1>15, <1>16, <1>17, StepsAside

LEMMA FailSound ==
    ASSUME ArtifactInv, NEW w \in Writers, Fail(w)
    PROVE  ArtifactInv'
<1>1. /\ writer[w] # Unused /\ writer[w].pc = "fail" /\ writer[w].own # NoFile
    BY WriterHere DEF Fail, WriterPcs, WriterAt
<1>2. PICK M : M = {temporary[w]} \ {NoFile}
    OBVIOUS
<1>3. \/ litter' = litter \union M /\ retired' = retired
      \/ retired' = retired \union M /\ litter' = litter
    <2>1. IsOwn(w) => M = {Own(w)}
        BY <1>1, <1>2 DEF IsOwn, Own
    <2> QED BY <1>2, <2>1 DEF Fail
<1>4. PICK R : R = [file |-> writer[w].own, found |-> writer[w].found, raised |-> TRUE]
    OBVIOUS
<1>5. reports' = reports \union {R} /\ writer' = [writer EXCEPT ![w] = Unused]
    BY <1>4 DEF Fail, End, Own
<1>6. /\ UNCHANGED <<entry, line, made, stamp, reader, disposed>>
      /\ temporary' = [temporary EXCEPT ![w] = NoFile]
    BY DEF Fail
<1> QED BY <1>1, <1>2, <1>3, <1>4, <1>5, <1>6, TemporaryKept

LEMMA KillWriterSound ==
    ASSUME ArtifactInv, NEW w \in Writers, KillWriter(w)
    PROVE  ArtifactInv'
<1>1. writer[w] # Unused
    BY WriterIs DEF ArtifactInv, KillWriter, WriterAt
<1>2. PICK M : M = {temporary[w]} \ {NoFile}
    OBVIOUS
<1>3. PICK R : R = [file |-> writer[w].own, found |-> writer[w].found, raised |-> TRUE]
    OBVIOUS
<1>4. /\ litter' = litter \union M /\ retired' = retired /\ reports' = reports
      /\ UNCHANGED <<entry, line, made, stamp, reader, disposed>>
      /\ temporary' = [temporary EXCEPT ![w] = NoFile]
      /\ writer' = [writer EXCEPT ![w] = Unused]
    BY <1>2 DEF KillWriter
<1> QED BY <1>1, <1>2, <1>3, <1>4, TemporaryKept

-----------------------------------------------------------------------------
(* Readers and other programs                                              *)

\* What readers do touches nothing that writers rely on.
LEMMA OnlyReader ==
    ASSUME ArtifactInv, UNCHANGED <<fileVars, writer, reports>>, ReaderKnows'
    PROVE  ArtifactInv'
BY DEF ArtifactInv, fileVars, FilesTyped, MadeFiles, OnePlace, WriterKnows, Came, IsNew,
       LockedKnows, IsGone, IsKept, ReportsFit, DisposedFit, WriterType

LEMMA OpenReaderSound ==
    ASSUME ArtifactInv, OpenReader
    PROVE  ArtifactInv'
<1>1. /\ FilesTyped /\ entry \in MadeFiles /\ made' = made /\ stamp' = stamp
      /\ reader' = [pc |-> "read", file |-> entry, opened |-> stamp[entry], bytes |-> <<>>]
    BY DEF ArtifactInv, FilesTyped, OpenReader, fileVars
<1>2. stamp[entry] \in Nat
    BY <1>1, ArtifactAssumption DEF FilesTyped, MadeFiles, Files
<1>3. <<>> \in Seq(Nat) /\ Len(<<>>) = 0 /\ DOMAIN <<>> = {}
    BY EmptySeq
<1>4. ReaderKnows'
    BY <1>1, <1>2, <1>3 DEF ReaderKnows, MadeFiles
<1> QED BY <1>4, OnlyReader DEF OpenReader

LEMMA ReadChunkSound ==
    ASSUME ArtifactInv, ReadChunk
    PROVE  ArtifactInv'
<1> DEFINE b == stamp[reader.file]
<1>1. reader # Unused /\ FilesTyped /\ reader.pc = "read"
    BY DEF ReadChunk, Unused, ArtifactInv
<1>2. ReaderKnows
    BY DEF ArtifactInv
<1>3. /\ reader \in [pc : {"read", "check", "done"}, file : MadeFiles, opened : Nat, bytes : Seq(Nat)]
      /\ Len(reader.bytes) = 0 \/ Len(reader.bytes) = 1
      /\ reader.opened <= b
      /\ \A i \in DOMAIN reader.bytes : reader.opened <= reader.bytes[i] /\ reader.bytes[i] <= b
    BY <1>1, <1>2 DEF ReaderKnows
<1>4. reader.opened \in Nat /\ reader.bytes \in Seq(Nat) /\ b \in Nat
    BY <1>1, <1>3, ArtifactAssumption DEF FilesTyped, MadeFiles, Files
<1>5. PICK q \in {"read", "check"} : q = IF Len(reader.bytes) = 1 THEN "check" ELSE "read"
    OBVIOUS
<1>6. /\ Append(reader.bytes, b) \in Seq(Nat)
      /\ Len(Append(reader.bytes, b)) = Len(reader.bytes) + 1
      /\ \A i \in DOMAIN Append(reader.bytes, b) :
            \/ i \in DOMAIN reader.bytes /\ Append(reader.bytes, b)[i] = reader.bytes[i]
            \/ Append(reader.bytes, b)[i] = b
    BY <1>4, AppendProperties, LenProperties
<1>7. reader' = [pc |-> q, file |-> reader.file, opened |-> reader.opened,
                 bytes |-> Append(reader.bytes, b)]
    BY <1>3, <1>5 DEF ReadChunk
<1>8. made' = made /\ stamp' = stamp
    BY DEF ReadChunk, fileVars
<1>9. PICK bytes : bytes = Append(reader.bytes, b)
    OBVIOUS
<1>10. /\ reader'.pc = q /\ reader'.file = reader.file /\ reader'.opened = reader.opened
       /\ reader'.bytes = bytes /\ stamp'[reader'.file] = b
       /\ reader' \in [pc : {"read", "check", "done"}, file : MadeFiles', opened : Nat, bytes : Seq(Nat)]
    BY <1>3, <1>4, <1>6, <1>7, <1>8, <1>9 DEF MadeFiles
<1>11. /\ Len(bytes) = 1 \/ Len(bytes) = 2
       /\ q # "read" => Len(bytes) = 2
       /\ q = "read" => Len(bytes) < 2
       /\ q # "done"
    BY SMTT(30), <1>3, <1>5, <1>6, <1>9
<1>12. \A i \in DOMAIN bytes : reader.opened <= bytes[i] /\ bytes[i] <= b
    BY <1>3, <1>4, <1>6, <1>9
<1>13. ReaderKnows'
    BY <1>3, <1>10, <1>11, <1>12 DEF ReaderKnows
<1> QED BY <1>13, OnlyReader DEF ReadChunk

\* A reader returns what it read only if the file is what it was at the start.
LEMMA EndReadSound ==
    ASSUME ArtifactInv, EndRead
    PROVE  ArtifactInv'
<1>1. /\ reader # Unused /\ FilesTyped /\ reader.pc = "check" /\ ReaderKnows
      /\ UNCHANGED <<fileVars, writer, reports>> /\ made' = made /\ stamp' = stamp
    BY DEF EndRead, Unused, ArtifactInv, fileVars
<1>2. CASE IsStable(reader.file, reader.opened)
    <2>1. /\ reader \in [pc : {"read", "check", "done"}, file : MadeFiles, opened : Nat, bytes : Seq(Nat)]
          /\ Len(reader.bytes) = 2
          /\ reader.opened = stamp[reader.file]
          /\ \A i \in DOMAIN reader.bytes :
                reader.opened <= reader.bytes[i] /\ reader.bytes[i] <= stamp[reader.file]
        BY <1>1, <1>2 DEF ReaderKnows, IsStable
    <2>2. /\ reader.opened \in Nat /\ reader.bytes \in Seq(Nat)
          /\ \A i \in DOMAIN reader.bytes : reader.bytes[i] \in Nat
        BY <2>1, ElementOfSeq, LenProperties
    <2>3. \A i \in DOMAIN reader.bytes : reader.bytes[i] = reader.opened
        BY <2>1, <2>2
    <2>4. PICK next : next = [reader EXCEPT !.pc = "done"]
        OBVIOUS
    <2>5. /\ reader' = next
          /\ next \in [pc : {"read", "check", "done"}, file : MadeFiles, opened : Nat, bytes : Seq(Nat)]
          /\ next.pc = "done" /\ next.file = reader.file /\ next.opened = reader.opened
          /\ next.bytes = reader.bytes
        BY <1>2, <2>1, <2>4 DEF EndRead
    <2>6. ReaderKnows'
        BY <1>1, <2>1, <2>3, <2>5 DEF ReaderKnows, MadeFiles
    <2> QED BY <1>1, <2>6, OnlyReader
<1>3. CASE ~IsStable(reader.file, reader.opened)
    <2>1. ReaderKnows'
        BY <1>3 DEF EndRead, ReaderKnows
    <2> QED BY <1>1, <2>1, OnlyReader
<1> QED BY <1>2, <1>3

LEMMA CloseReaderSound ==
    ASSUME ArtifactInv, CloseReader
    PROVE  ArtifactInv'
<1>1. ReaderKnows'
    BY DEF CloseReader, ReaderKnows
<1> QED BY <1>1, OnlyReader DEF CloseReader

LEMMA ForeignRenameSound ==
    ASSUME ArtifactInv, ForeignRename
    PROVE  ArtifactInv'
<1>1. PICK g : g = made + 1
    OBVIOUS
<1>2. /\ FilesTyped /\ made \in Nat /\ g \in Nat /\ g \in MadeFiles' /\ g \notin MadeFiles /\ g # NoFile
      /\ made' = g /\ made < MaxFiles /\ entry' = g /\ line' = Append(line, g)
      /\ UNCHANGED <<temporary, litter, retired, disposed, stamp, writer, reports, reader>>
    BY <1>1 DEF ArtifactInv, FilesTyped, ForeignRename, Show, MadeFiles, NoFile
<1>3. MadeFiles \subseteq MadeFiles'
    BY <1>1, <1>2 DEF MadeFiles
<1>4. FilesTyped'
    <2>1. line' \in Seq(MadeFiles') /\ line' # <<>> /\ line'[Len(line')] = g
        <3>1. line \in Seq(MadeFiles')
            BY <1>1, <1>2 DEF FilesTyped, MadeFiles
        <3> QED BY <1>2, <3>1, AppendProperties, LenProperties
    <2>2. WriterType \subseteq WriterType'
        BY <1>3 DEF WriterType
    <2>3. made' \in 0..MaxFiles
        BY <1>1, <1>2, ArtifactAssumption
    <2>4. reports' \subseteq [file : MadeFiles', found : MadeFiles' \union {NoFile}, raised : BOOLEAN]
        BY <1>2, <1>3 DEF FilesTyped
    <2>5. /\ temporary' \in [Writers -> MadeFiles' \union {NoFile}]
          /\ writer' \in [Writers -> WriterType' \union {Unused}]
        BY <1>2, <1>3, <2>2 DEF FilesTyped
    <2> QED BY <1>2, <1>3, <2>1, <2>3, <2>4, <2>5 DEF FilesTyped
<1>5. g \notin litter \union retired \union disposed /\ \A v \in Writers : temporary[v] # g
    BY <1>2 DEF FilesTyped
<1>6. OnePlace'
    BY <1>2, <1>5 DEF ArtifactInv, OnePlace
<1>7. ASSUME NEW v \in Writers PROVE WriterKnows(v)'
    BY <1>2, <1>5, OtherKnows DEF ArtifactInv
<1>8. LockedKnows'
    <2>1. \A f \in MadeFiles : IsGone(f) => IsGone(f)'
        BY <1>2 DEF IsGone
    <2>2. \A f : IsKept(f) => IsKept(f)'
        BY <1>2 DEF IsKept
    <2>3. \A w \in Writers : writer[w].pc = "fail" => writer[w].own \in MadeFiles
        BY <1>2, WriterIs DEF Unused
    <2>4. \A r \in reports : r.file \in MadeFiles
        BY <1>2 DEF FilesTyped
    <2>5. ASSUME Locked, NEW r \in reports, r.raised
          PROVE  IsGone(r.file)' \/ r.found = NoFile \/ IsKept(r.found)' \/ stamp[r.file] > 0
        BY <2>1, <2>2, <2>4, <2>5 DEF ArtifactInv, LockedKnows
    <2>6. ASSUME Locked, NEW w \in Writers, writer[w].pc = "fail"
          PROVE  \/ temporary[w] = writer[w].own
                 \/ IsGone(writer[w].own)'
                 \/ writer[w].found = NoFile \/ writer[w].found = temporary[w]
                 \/ writer[w].found \in litter \union retired
        <3>1. PICK own \in MadeFiles : own = writer[w].own
            BY <2>3, <2>6
        <3>2. IsGone(own) => IsGone(own)'
            BY <2>1
        <3>3. IsGone(own)' => IsGone(writer[w].own)'
            BY <1>2, <3>1 DEF IsGone
        <3> QED BY <2>6, <3>1, <3>2, <3>3 DEF ArtifactInv, LockedKnows
    <2> QED BY <1>2, <2>5, <2>6 DEF ArtifactInv, LockedKnows
<1>9. ReportsFit' /\ DisposedFit'
    BY <1>2, LineGrows DEF ArtifactInv
<1>10. ReaderKnows'
    <2>1. \A f \in Files : stamp[f] \in Nat
        BY <1>2 DEF FilesTyped
    <2> QED BY <1>1, <1>2, <2>1, ReaderStays DEF ArtifactInv, FilesTyped
<1> QED BY <1>4, <1>6, <1>7, <1>8, <1>9, <1>10 DEF ArtifactInv

LEMMA ForeignWriteSound ==
    ASSUME ArtifactInv, NEW f \in Files, ForeignWrite(f)
    PROVE  ArtifactInv'
<1>1. /\ FilesTyped /\ made \in Nat
      /\ stamp' = [stamp EXCEPT ![f] = @ + 1] /\ made' = made
      /\ UNCHANGED <<entry, temporary, litter, retired, disposed, made, line, writer, reports,
                     reader>>
    BY DEF ArtifactInv, FilesTyped, ForeignWrite
<1>2. /\ stamp' \in [Files -> Nat] /\ \A h \in Files : stamp[h] <= stamp'[h]
      /\ \A h \in Files : stamp[h] \in Nat /\ stamp'[h] \in Nat
    BY <1>1 DEF FilesTyped
<1>3. FilesTyped'
    BY <1>1, <1>2 DEF FilesTyped, MadeFiles, WriterType
<1>4. OnePlace' /\ ReportsFit' /\ DisposedFit' /\ \A w \in Writers : WriterKnows(w)'
    BY <1>1 DEF ArtifactInv, OnePlace, ReportsFit, DisposedFit, WriterKnows, Came, IsNew
<1>5. LockedKnows'
    <2>1. \A r \in reports : r.file \in Files
        BY <1>1, ArtifactAssumption DEF FilesTyped, MadeFiles, Files
    <2>2. \A r \in reports : stamp[r.file] > 0 => stamp'[r.file] > 0
        BY <1>2, <2>1
    <2> QED BY <1>1, <2>2 DEF ArtifactInv, LockedKnows, IsGone, IsKept
<1>6. ReaderKnows'
    BY <1>1, <1>2, ReaderStays DEF ArtifactInv
<1> QED BY <1>3, <1>4, <1>5, <1>6 DEF ArtifactInv

-----------------------------------------------------------------------------
(* Files are exchanged                                                     *)

LEMMA ArtifactStart == ArtifactInit => ArtifactInv
<1> SUFFICES ASSUME ArtifactInit PROVE ArtifactInv
    OBVIOUS
<1>1. FilesTyped
    BY EmptySeq, ArtifactAssumption DEF ArtifactInit, FilesTyped, Files, MadeFiles, NoFile
<1>2. OnePlace /\ LockedKnows /\ ReportsFit /\ DisposedFit /\ ReaderKnows
    BY DEF ArtifactInit, OnePlace, LockedKnows, ReportsFit, DisposedFit, ReaderKnows, Unused
<1>3. \A w \in Writers : WriterKnows(w)
    BY DEF ArtifactInit, WriterKnows, Unused
<1> QED BY <1>1, <1>2, <1>3 DEF ArtifactInv

LEMMA ArtifactStep == ArtifactInv /\ [ArtifactNext]_artifactVars => ArtifactInv'
<1> SUFFICES ASSUME ArtifactInv, [ArtifactNext]_artifactVars PROVE ArtifactInv'
    OBVIOUS
<1>1. ASSUME NEW w \in Writers,
             \/ WriteTemporary(w) \/ Find(w)
             \/ RenameNoReplace(w) \/ Exchange(w) \/ CompareFound(w) \/ Undo(w)
             \/ RetirePredecessor(w) \/ Dispose(w) \/ VerifyPublished(w) \/ Fail(w)
             \/ KillWriter(w)
      PROVE  ArtifactInv'
    BY <1>1, WriteTemporarySound, FindSound, RenameNoReplaceSound, ExchangeSound,
       CompareFoundSound, UndoSound, RetirePredecessorSound, DisposeSound,
       VerifyPublishedSound, FailSound, KillWriterSound
<1>2. CASE OpenReader \/ ReadChunk \/ EndRead \/ CloseReader
    BY <1>2, OpenReaderSound, ReadChunkSound, EndReadSound, CloseReaderSound
<1>3. CASE ForeignRename
    BY <1>3, ForeignRenameSound
<1>4. ASSUME NEW f \in Files, ForeignWrite(f) PROVE ArtifactInv'
    BY <1>4, ForeignWriteSound
<1>5. CASE UNCHANGED artifactVars
    <2>1. ReaderKnows'
        BY <1>5 DEF artifactVars, fileVars, ArtifactInv, ReaderKnows, MadeFiles
    <2> QED BY <1>5, <2>1, OnlyReader DEF artifactVars
<1> QED BY <1>1, <1>2, <1>3, <1>4, <1>5 DEF ArtifactNext

LEMMA InvIsExchanged == ArtifactInv => FilesAreExchanged
<1> SUFFICES ASSUME ArtifactInv PROVE FilesAreExchanged
    OBVIOUS
<1>1. FilesTyped
    BY DEF ArtifactInv
<1>2. \A r \in reports : ~r.raised => BeforeIt(r.file) = r.found
    BY <1>1, CameIs DEF ArtifactInv, ReportsFit
<1>3. \A f \in disposed : \E i \in DOMAIN line : i > 1 /\ line[i - 1] = f /\ line[i] # f
    BY DEF ArtifactInv, DisposedFit
<1>4. \A f \in disposed : f # entry
    BY <1>1 DEF ArtifactInv, OnePlace, FilesTyped, MadeFiles, NoFile
<1>5. FailureKeepsTheOld
    BY DEF ArtifactInv, LockedKnows, FailureKeepsTheOld, IsGone, IsKept, Linked
<1>6. ReadsAreWhole
    <2> SUFFICES ASSUME reader.pc = "done" PROVE reader.bytes[1] = reader.bytes[2]
        BY DEF ReadsAreWhole
    <2>1. ReaderKnows /\ reader # Unused
        BY DEF ArtifactInv, Unused
    <2>2. /\ reader.bytes \in Seq(Nat) /\ Len(reader.bytes) = 2
          /\ \A i \in DOMAIN reader.bytes : reader.bytes[i] = reader.opened
        BY <2>1 DEF ReaderKnows
    <2> QED BY <2>2, LenProperties
<1> QED BY <1>2, <1>3, <1>4, <1>5, <1>6
        DEF FilesAreExchanged, PublicationIsCompareAndSwap, SuccessReplacesWhatItFound

\* Whatever the writers, however many files are made and however often other
\* programs write and writers are killed, a write that succeeds replaced the
\* file it had found, one that fails under the lock has kept it, and a read
\* sees one moment of one file (labeling/artifacts.py, selfplay/common.py).
THEOREM Exchanges == ArtifactSpec => []FilesAreExchanged
<1>1. ArtifactInit => ArtifactInv
    BY ArtifactStart
<1>2. ArtifactInv /\ [ArtifactNext]_artifactVars => ArtifactInv'
    BY ArtifactStep
<1>3. ArtifactInv => FilesAreExchanged
    BY InvIsExchanged
<1> QED BY <1>1, <1>2, <1>3, PTL DEF ArtifactSpec

-----------------------------------------------------------------------------
(* CommandProcess: the inductive invariant                                 *)

CommandProcessType ==
    [who : {"none", "ours", "stranger"}, zombie : BOOLEAN,
     parent : Pids \union {Nobody, Runner}, group : Pids \union {Nobody}, birth : Nat,
     pipe : BOOLEAN, deaf : BOOLEAN]
Stations ==
    {"spawn", "guard", "bind", "sample", "identify", "decide", "settle", "term", "kill",
     "strike", "look", "grace", "wait", "closing", "unbinding", "done", "refused", "unbound"}
CommandTyped ==
    /\ table \in [Pids -> CommandProcessType]
    /\ rows \in [Pids -> CommandProcessType]
    /\ live \subseteq Pids /\ lastLive \subseteq Pids /\ queue \subseteq Pids \ {Leader}
    /\ ids = [p \in Pids |-> ids[p]]
    /\ where \in Stations
    /\ reaped \in BOOLEAN /\ force \in BOOLEAN

\* Other programs have parents among themselves, and what begins under whoever
\* has the leader's number, or joins the group of that number, is an heir.
IsApart(p) ==
    /\ table[p].who = "stranger" =>
          /\ table[p].group = Leader => IsHeir(p)
          /\ \/ table[p].parent = Nobody
             \/ LET q == table[p].parent
                IN /\ q \in Pids /\ table[q].who = "stranger" /\ ~table[q].zombie
                   /\ IsHeir(q) => IsHeir(p)
    /\ table[p].who = "none" => table[p].parent = Nobody /\ ~table[p].zombie

\* A process that the history variables name: it cannot be told apart.
IsTaken(p) == <<p, table[p].birth>> \in mistaken \union heirs

\* An identity is of a process of the command, or of one that cannot be told
\* apart, whatever has its pid since; a process that leads its group stays
\* there.  The leader's number apart.
IdIsOurs(p) ==
    \/ ids[p] = <<>>
    \/ \E g \in Pids \union {Nobody}, b \in Nat :
          /\ ids[p] = <<p, g, b>>
          /\ b <= table[p].birth
          /\ b = table[p].birth /\ IsLive(p) =>
                /\ p # Leader /\ table[p].who = "stranger" => IsTaken(p)
                /\ g = p => table[p].group = p

\* Until it is reaped, the leader's pid is the leader's, and nobody inherits it.
LeaderIsOurs ==
    \/ reaped
    \/ /\ heirs = {}
       /\ where = "spawn" => table[Leader].who = "none"
       /\ where # "spawn" => table[Leader].who = "ours" /\ table[Leader].parent = Runner
                               /\ table[Leader].group = Leader

\* Between ps and the identities, and between an identity and the signal.
RowsAreTaken ==
    where = "identify" =>
        \A p \in Tree(rows) \ {Leader} : table[p].who = "stranger" => IsTaken(p)
AimIsTaken ==
    where = "strike" =>
        /\ aim \in Pids /\ (aim = Leader => ~reaped)
        /\ aim # Leader /\ table[aim].who = "stranger" => IsTaken(aim)

\* What has been sampled is not there any more once it was signalled.
Survives(p) == IsSame(p) /\ p # Leader
Signalling == {"term", "strike", "look", "grace", "kill"}
LoopKnows ==
    /\ where \in {"settle", "wait", "closing", "unbinding", "done"} => reaped
    /\ where \in {"spawn", "guard", "bind"} => lastLive = {} /\ ~cut /\ ~reaped
    /\ where \in Signalling => onward \in {"wait", "settle", "refused", "closing"}
    /\ where \in Signalling /\ onward = "closing" =>
          where = "kill" \/ (where \in {"strike", "look"} /\ force)
    /\ where = "look" => aim = Nobody
    /\ cut => /\ where \in Signalling \union {"wait", "closing", "done"}
              /\ where \in Signalling => onward \in {"wait", "closing"}
    /\ where \in {"strike", "look"} =>
          \A p \in lastLive : Survives(p) /\ p \notin queue /\ p # aim =>
              table[p].deaf /\ ~force
    /\ cut /\ where \notin {"term", "strike", "look"} =>
          \A p \in lastLive : Survives(p) => table[p].deaf
    /\ where = "closing" => \A p \in lastLive : Survives(p) => ~HoldsPipe(p)

CommandInv ==
    /\ CommandTyped
    /\ \A p \in Pids : IsApart(p) /\ IdIsOurs(p)
    /\ LeaderIsOurs /\ RowsAreTaken /\ AimIsTaken /\ LoopKnows
    /\ OnlyTheMistakenAreSignalled
-----------------------------------------------------------------------------
(* CommandProcess: what a step does to a process                           *)

LEMMA CommandNumbers ==
    Leader \in Pids /\ Nobody \notin Pids /\ Runner \notin Pids /\ Nobody # Runner
BY CommandAssumption DEF Nobody, Runner

LEMMA RowIs ==
    ASSUME CommandTyped, NEW p \in Pids
    PROVE  /\ table[p] \in CommandProcessType
           /\ table[p].who \in {"none", "ours", "stranger"} /\ table[p].zombie \in BOOLEAN
           /\ table[p].birth \in Nat /\ table[p].parent \in Pids \union {Nobody, Runner}
           /\ table[p].group \in Pids \union {Nobody}
           /\ Free(table[p].birth) \in CommandProcessType
           /\ Free(table[p].birth).who = "none" /\ Free(table[p].birth).birth = table[p].birth
           /\ Free(table[p].birth).parent = Nobody /\ ~Free(table[p].birth).zombie
BY DEF CommandTyped, CommandProcessType, Free

\* What a signal and a wait leave of a process.
AfterOf(S, W, p) ==
    \/ /\ p \in W \/ (table[p].parent # Runner /\ (p \in S \/ table[p].zombie))
       /\ table'[p] = Free(table[p].birth)
    \/ /\ p \in S /\ p \notin W /\ table[p].parent \notin S
       /\ table'[p] = [table[p] EXCEPT !.zombie = TRUE]
    \/ /\ p \notin S /\ p \notin W
       /\ \/ table[p].parent \notin S /\ table'[p] = table[p]
          \/ table[p].parent # Runner /\ table'[p] = [table[p] EXCEPT !.parent = Nobody]

LEMMA CommandAfter ==
    ASSUME CommandTyped, NEW S \in SUBSET Pids, NEW W \in SUBSET Pids,
           \A q \in S : ~IsFree(q), table' = After(S, W), NEW p \in Pids
    PROVE  AfterOf(S, W, p)
<1> DEFINE r == table[p]
           Waits == r.parent = Runner
                    \/ (r.parent \in Pids \ S /\ IsLive(r.parent))
<1>1. table'[p] =
        CASE p \in W \/ (~IsFree(p) /\ ~Waits /\ (p \in S \/ r.zombie))
               -> Free(r.birth)
          [] p \in S /\ p \notin W /\ Waits -> [r EXCEPT !.zombie = TRUE]
          [] OTHER -> IF r.parent \in S THEN [r EXCEPT !.parent = Nobody] ELSE r
    BY DEF After
<1>2. /\ (p \in S => ~IsFree(p)) /\ (~Waits => r.parent # Runner) /\ Runner \notin S
      /\ Waits => r.parent \notin S
    BY CommandNumbers
<1> HIDE DEF Waits
<1>3. CASE p \in W \/ (~IsFree(p) /\ ~Waits /\ (p \in S \/ r.zombie))
    BY <1>1, <1>2, <1>3 DEF AfterOf
<1>4. CASE /\ ~(p \in W \/ (~IsFree(p) /\ ~Waits /\ (p \in S \/ r.zombie)))
           /\ p \in S /\ Waits
    BY <1>1, <1>2, <1>4 DEF AfterOf
<1>5. CASE /\ ~(p \in W \/ (~IsFree(p) /\ ~Waits /\ (p \in S \/ r.zombie)))
           /\ ~(p \in S /\ Waits)
    <2>1. table'[p] = IF r.parent \in S THEN [r EXCEPT !.parent = Nobody] ELSE r
        BY <1>1, <1>5
    <2>2. p \notin S /\ p \notin W
        BY <1>2, <1>5
    <2> QED BY <1>2, <2>1, <2>2 DEF AfterOf
<1> QED BY <1>3, <1>4, <1>5

\* The three things that can become of a pid.
Begun(p) ==
    /\ table'[p].birth > table[p].birth
    /\ table'[p].who = "stranger" /\ IsInBetween(p) => IsTaken(p)'
DiedOff(p) ==
    /\ ~IsLive(p)' /\ table'[p].birth = table[p].birth
    /\ table'[p].who \in {table[p].who, "none"}
RanOn(p) ==
    /\ IsLive(p) /\ IsLive(p)' /\ table'[p].birth = table[p].birth
    /\ table'[p].who = table[p].who
    /\ table'[p].deaf = table[p].deaf /\ table'[p].pipe = table[p].pipe
    /\ \/ table'[p].group = table[p].group
       \/ table[p].group # p /\ table'[p].group = p

\* What a step may do to the table at most.
ProcessesMoved ==
    /\ table' \in [Pids -> CommandProcessType]
    /\ \A p \in Pids : IsApart(p)'
    /\ \A p \in Pids : Begun(p) \/ DiedOff(p) \/ RanOn(p)
    /\ mistaken \subseteq mistaken' /\ heirs \subseteq heirs'

\* Identities outlive no process, and a process that leads its group stays.
LEMMA TableOn ==
    ASSUME CommandInv, NEW p \in Pids, table' \in [Pids -> CommandProcessType], ids' = ids,
           mistaken \subseteq mistaken', heirs \subseteq heirs',
           Begun(p) \/ DiedOff(p) \/ RanOn(p)
    PROVE  /\ IdIsOurs(p)'
           /\ IsSame(p)' => RanOn(p) /\ IsSame(p)
<1>1. CASE ids[p] = <<>>
    BY <1>1 DEF IdIsOurs, IsSame
<1>2. CASE ids[p] # <<>>
    <2>1. PICK g \in Pids \union {Nobody}, b \in Nat :
              /\ ids[p] = <<p, g, b>>
              /\ b <= table[p].birth
              /\ b = table[p].birth /\ IsLive(p) =>
                    /\ p # Leader /\ table[p].who = "stranger" => IsTaken(p)
                    /\ g = p => table[p].group = p
        BY <1>2 DEF CommandInv, IdIsOurs
    <2>2. table[p].birth \in Nat /\ table'[p].birth \in Nat
        BY RowIs DEF CommandInv, CommandTyped, CommandProcessType
    <2>3. CASE Begun(p)
        <3>1. b < table'[p].birth
            BY <2>1, <2>2, <2>3 DEF Begun
        <3>2. IdIsOurs(p)'
            BY <2>1, <2>2, <3>1 DEF IdIsOurs
        <3>3. ~IsSame(p)'
            BY <2>1, <2>2, <3>1 DEF IsSame, IdentityOf
        <3> QED BY <3>2, <3>3
    <2>4. CASE DiedOff(p)
        <3>1. IdIsOurs(p)'
            BY <2>1, <2>4 DEF IdIsOurs, DiedOff
        <3>2. ~IsSame(p)'
            BY <2>4 DEF IsSame, IdentityOf, DiedOff
        <3> QED BY <3>1, <3>2
    <2>5. CASE RanOn(p)
        <3>1. IsTaken(p) => IsTaken(p)'
            BY <2>5 DEF RanOn, IsTaken
        <3>2. IdIsOurs(p)'
            BY <2>1, <2>5, <3>1 DEF IdIsOurs, RanOn
        <3>3. IsSame(p)' => g = table'[p].group /\ b = table[p].birth
            BY <2>1, <2>5 DEF IsSame, IdentityOf, RanOn
        <3>4. IsSame(p)' => table'[p].group = table[p].group
            BY <2>1, <2>5, <3>3 DEF RanOn
        <3>5. IsSame(p)' => IsSame(p)
            BY <1>2, <2>1, <2>5, <3>3, <3>4 DEF IsSame, IdentityOf, RanOn
        <3> QED BY <2>5, <3>2, <3>5
    <2> QED BY <2>3, <2>4, <2>5
<1> QED BY <1>1, <1>2

\* The table moves, and what is known of it moves along.
LEMMA TableKnown ==
    ASSUME CommandInv, ProcessesMoved, ids' = ids
    PROVE  /\ \A p \in Pids : IsApart(p)' /\ IdIsOurs(p)'
           /\ \A p \in Pids : Survives(p)' => RanOn(p) /\ Survives(p)
<1>1. \A p \in Pids : IdIsOurs(p)' /\ (IsSame(p)' => RanOn(p) /\ IsSame(p))
    BY TableOn DEF ProcessesMoved
<1> QED BY <1>1 DEF Survives, ProcessesMoved

\* Who cannot be told apart stays so, and who comes in between joins them.
LEMMA TakenOn ==
    ASSUME CommandInv, ProcessesMoved, NEW p \in Pids,
           table[p].who = "stranger" => IsTaken(p), IsInBetween(p)
    PROVE  table'[p].who = "stranger" => IsTaken(p)'
<1> SUFFICES ASSUME table'[p].who = "stranger" PROVE IsTaken(p)'
    OBVIOUS
<1>1. CASE Begun(p)
    BY <1>1 DEF Begun
<1>2. CASE DiedOff(p) \/ RanOn(p)
    BY <1>2 DEF DiedOff, RanOn, IsTaken, ProcessesMoved
<1> QED BY <1>1, <1>2 DEF ProcessesMoved

LEMMA RowsStayTaken ==
    ASSUME CommandInv, ProcessesMoved, rows' = rows, where' = where
    PROVE  RowsAreTaken'
<1> SUFFICES ASSUME where = "identify", NEW p \in Tree(rows) \ {Leader}
             PROVE  table'[p].who = "stranger" => IsTaken(p)'
    BY DEF RowsAreTaken, Tree, FirstRows, ChildRows
<1>1. p \in Pids /\ IsInBetween(p) /\ (table[p].who = "stranger" => IsTaken(p))
    BY DEF Tree, IsInBetween, CommandInv, RowsAreTaken
<1> QED BY <1>1, TakenOn

LEMMA AimStaysTaken ==
    ASSUME CommandInv, ProcessesMoved, where' = where, aim' = aim, reaped' = reaped
    PROVE  AimIsTaken'
<1> SUFFICES ASSUME where = "strike"
             PROVE  aim # Leader /\ table'[aim].who = "stranger" => IsTaken(aim)'
    BY DEF AimIsTaken, CommandInv
<1>1. /\ aim \in Pids /\ IsInBetween(aim)
      /\ aim # Leader /\ table[aim].who = "stranger" => IsTaken(aim)
    BY DEF IsInBetween, CommandInv, AimIsTaken
<1> QED BY <1>1, TakenOn

\* A signal, and a wait for the leader or for a process that has ended.
LEMMA AfterKnown ==
    ASSUME CommandInv, NEW S \in SUBSET Pids, NEW W \in SUBSET Pids,
           \A q \in S : ~IsFree(q),
           \A q \in W : table[q].zombie \/ table[q].who = "ours",
           table' = After(S, W), mistaken' = mistaken, heirs' = heirs
    PROVE  /\ ProcessesMoved
           /\ \A p \in Pids : RanOn(p) => p \notin S
           /\ where # "spawn" /\ where' # "spawn" /\ (Leader \in W => reaped') /\ (reaped => reaped')
                 => LeaderIsOurs'
<1>1. CommandTyped /\ Leader \in Pids
    BY CommandNumbers DEF CommandInv
<1>2. \A p \in Pids : AfterOf(S, W, p)
    BY <1>1, CommandAfter
<1> DEFINE Apart(p) ==
        /\ table'[p].who = "none" => table'[p].parent = Nobody /\ ~table'[p].zombie
        /\ table'[p].who = "stranger" =>
              /\ table[p].who = "stranger" /\ table'[p].group = table[p].group
              /\ \/ table'[p].parent = Nobody
                 \/ table'[p].parent = table[p].parent /\ table[p].parent \notin S
        /\ table[p].who = "stranger" /\ ~table[p].zombie /\ p \notin S =>
              table'[p].who = "stranger" /\ ~table'[p].zombie
<1>3. ASSUME NEW p \in Pids
      PROVE  /\ table'[p] \in CommandProcessType /\ Apart(p)
             /\ table'[p].birth = table[p].birth
             /\ DiedOff(p) \/ (RanOn(p) /\ p \notin S)
             /\ p \notin W /\ table[p].parent = Runner =>
                   table'[p].who = table[p].who /\ table'[p].group = table[p].group
                       /\ table'[p].parent = Runner
    <2>1. /\ table[p] \in CommandProcessType /\ IsApart(p)
          /\ table[p].birth \in Nat
          /\ Free(table[p].birth) \in CommandProcessType
          /\ Free(table[p].birth).who = "none" /\ Free(table[p].birth).birth = table[p].birth
          /\ Free(table[p].birth).parent = Nobody /\ ~Free(table[p].birth).zombie
        BY <1>1, RowIs DEF CommandInv
    <2>2. CASE /\ p \in W \/ (table[p].parent # Runner /\ (p \in S \/ table[p].zombie))
               /\ table'[p] = Free(table[p].birth)
        <3>1. DiedOff(p)
            BY <2>1, <2>2 DEF DiedOff, IsLive, IsFree
        <3>2. table[p].who = "stranger" => table[p].zombie \/ p \in S
            BY <2>2
        <3>3. Apart(p)
            BY <2>1, <2>2, <3>2
        <3> QED BY <2>1, <2>2, <3>1, <3>3
    <2>3. CASE /\ p \in S /\ p \notin W /\ table[p].parent \notin S
               /\ table'[p] = [table[p] EXCEPT !.zombie = TRUE]
        <3>1. /\ table'[p] \in CommandProcessType /\ table'[p].zombie
              /\ table'[p].who = table[p].who /\ table'[p].birth = table[p].birth
              /\ table'[p].group = table[p].group /\ table'[p].parent = table[p].parent
            BY <2>1, <2>3 DEF CommandProcessType
        <3>2. table[p].who # "none"
            BY <2>3 DEF IsFree
        <3> QED BY <2>3, <3>1, <3>2 DEF DiedOff, IsLive
    <2>4. CASE /\ p \notin S /\ p \notin W
               /\ \/ table[p].parent \notin S /\ table'[p] = table[p]
                  \/ /\ table[p].parent # Runner
                     /\ table'[p] = [table[p] EXCEPT !.parent = Nobody]
        <3>1. /\ table'[p] \in CommandProcessType /\ table'[p].zombie = table[p].zombie
              /\ table'[p].who = table[p].who /\ table'[p].birth = table[p].birth
              /\ table'[p].group = table[p].group
              /\ table'[p].deaf = table[p].deaf /\ table'[p].pipe = table[p].pipe
              /\ \/ table'[p].parent = table[p].parent /\ table[p].parent \notin S
                 \/ table'[p].parent = Nobody /\ table[p].parent # Runner
            BY <2>1, <2>4 DEF CommandProcessType
        <3>2. Apart(p)
            BY <2>1, <3>1 DEF IsApart
        <3>3. IsLive(p)' <=> IsLive(p)
            BY <3>1 DEF IsLive, IsFree
        <3>4. CASE IsLive(p)
            <4>1. RanOn(p)
                BY <3>1, <3>3, <3>4 DEF RanOn
            <4> QED BY <2>4, <3>1, <3>2, <4>1
        <3>5. CASE ~IsLive(p)
            <4>1. ~IsLive(p)'
                BY <3>3, <3>5
            <4>2. DiedOff(p)
                BY <3>1, <4>1 DEF DiedOff
            <4> QED BY <2>4, <3>1, <3>2, <4>2
        <3> QED BY <3>4, <3>5
    <2> QED BY <1>2, <2>2, <2>3, <2>4 DEF AfterOf
<1>4. table' \in [Pids -> CommandProcessType]
    <2>1. table' = [p \in Pids |-> table'[p]]
        BY DEF After
    <2> QED BY <1>3, <2>1
<1>5. \A p \in Pids : RanOn(p) => p \notin S
    BY <1>3 DEF DiedOff, RanOn
<1>6. ASSUME where # "spawn", where' # "spawn", Leader \in W => reaped', reaped => reaped'
      PROVE  LeaderIsOurs'
    BY <1>1, <1>3, <1>6 DEF LeaderIsOurs, CommandInv
<1>7. \A p \in Pids : IsHeir(p)' <=> IsHeir(p)
    BY <1>3 DEF IsHeir
<1>8. ASSUME NEW p \in Pids PROVE IsApart(p)'
    <2>1. Apart(p) /\ IsApart(p)
        BY <1>3 DEF CommandInv
    <2>2. \A q \in Pids : table[q].who = "stranger" /\ ~table[q].zombie /\ q \notin S =>
              table'[q].who = "stranger" /\ ~table'[q].zombie
        BY <1>3
    <2>3. CASE table'[p].who # "stranger"
        BY <2>1, <2>3 DEF IsApart
    <2>4. CASE table'[p].who = "stranger" /\ table'[p].parent = Nobody
        BY <1>7, <2>1, <2>4 DEF IsApart
    <2>5. CASE table'[p].who = "stranger" /\ table'[p].parent # Nobody
        <3>1. /\ table'[p].parent = table[p].parent /\ table[p].parent \notin S
              /\ table[p].who = "stranger" /\ table'[p].group = table[p].group
            BY <2>1, <2>5
        <3>2. PICK q \in Pids : q = table[p].parent
            BY <2>1, <2>5, <3>1 DEF IsApart
        <3>3. /\ table[q].who = "stranger" /\ ~table[q].zombie /\ (IsHeir(q) => IsHeir(p))
              /\ table[p].group = Leader => IsHeir(p)
            BY <2>1, <2>5, <3>1, <3>2 DEF IsApart
        <3>4. table'[q].who = "stranger" /\ ~table'[q].zombie
            BY <2>2, <3>1, <3>2, <3>3
        <3>5. /\ IsHeir(q)' => IsHeir(p)'
              /\ table'[p].group = Leader => IsHeir(p)'
            BY <1>7, <3>1, <3>3
        <3> QED BY <2>5, <3>1, <3>2, <3>4, <3>5 DEF IsApart
    <2> QED BY <2>3, <2>4, <2>5
<1> QED BY <1>3, <1>4, <1>5, <1>6, <1>8 DEF ProcessesMoved

\* Nothing happens to the processes.
LEMMA TableStill ==
    ASSUME CommandInv, table' = table, mistaken' = mistaken, heirs' = heirs
    PROVE  /\ ProcessesMoved
           /\ where # "spawn" /\ where' # "spawn" /\ reaped' = reaped => LeaderIsOurs'
<1>1. \A p \in Pids : (IsLive(p)' <=> IsLive(p)) /\ (IsHeir(p)' <=> IsHeir(p))
    BY DEF IsLive, IsFree, IsHeir
<1>2. ASSUME NEW p \in Pids PROVE DiedOff(p) \/ RanOn(p)
    <2>1. CASE IsLive(p)
        BY <1>1, <2>1 DEF RanOn
    <2>2. CASE ~IsLive(p)
        <3>1. ~IsLive(p)'
            BY <1>1, <2>2
        <3> QED BY <3>1 DEF DiedOff
    <2> QED BY <2>1, <2>2
<1>3. \A p \in Pids : IsApart(p)'
    BY <1>1 DEF CommandInv, IsApart, IsHeir
<1>4. where # "spawn" /\ where' # "spawn" /\ reaped' = reaped => LeaderIsOurs'
    BY DEF CommandInv, LeaderIsOurs
<1> QED BY <1>2, <1>3, <1>4 DEF CommandInv, CommandTyped, ProcessesMoved

\* Whoever is given a pid, no process of the command is touched by it.
LEMMA GivenAway ==
    ASSUME CommandInv, NEW q \in Pids, NEW r \in CommandProcessType, IsFree(q),
           table' = [table EXCEPT ![q] = r], r.birth = table[q].birth + 1, r.who # "none",
           mistaken \subseteq mistaken', heirs \subseteq heirs',
           heirs' \subseteq heirs \union {<<q, r.birth>>},
           r.who = "stranger" /\ IsInBetween(q) => <<q, r.birth>> \in mistaken',
           IsApart(q)'
    PROVE  /\ ProcessesMoved
           /\ where # "spawn" /\ where' = where /\ reaped' = reaped /\ (~reaped => heirs' = heirs)
                 => LeaderIsOurs'
<1>1. CommandTyped /\ table[q].birth \in Nat
    BY RowIs DEF CommandInv
<1>2. \A p \in Pids : table'[p] = IF p = q THEN r ELSE table[p]
    BY <1>1 DEF CommandTyped
<1>3. Begun(q)
    BY <1>1, <1>2 DEF Begun, IsTaken
<1>4. ASSUME NEW p \in Pids, p # q PROVE DiedOff(p) \/ RanOn(p)
    <2>1. IsLive(p)' <=> IsLive(p)
        BY <1>2, <1>4 DEF IsLive, IsFree
    <2>2. CASE IsLive(p)
        BY <1>2, <1>4, <2>1, <2>2 DEF RanOn
    <2>3. CASE ~IsLive(p)
        <3>1. ~IsLive(p)'
            BY <2>1, <2>3
        <3> QED BY <1>2, <1>4, <3>1 DEF DiedOff
    <2> QED BY <2>2, <2>3
<1>5. where # "spawn" /\ where' = where /\ reaped' = reaped /\ (~reaped => heirs' = heirs)
         => LeaderIsOurs'
    BY <1>2, CommandNumbers DEF CommandInv, LeaderIsOurs, IsFree
<1>6. table' \in [Pids -> CommandProcessType]
    BY <1>1 DEF CommandTyped
<1>7. ASSUME NEW p \in Pids, p # q PROVE IsApart(p)'
    <2>1. IsApart(p) /\ table'[p] = table[p] /\ (IsHeir(p)' <=> IsHeir(p))
        BY <1>2, <1>7 DEF CommandInv, IsHeir
    <2>2. ASSUME NEW x \in Pids, table[x].who = "stranger"
          PROVE  table'[x] = table[x] /\ (IsHeir(x)' <=> IsHeir(x))
        BY <1>2, <2>2 DEF IsFree, IsHeir
    <2>3. CASE table[p].who # "stranger" \/ table[p].parent = Nobody
        BY <2>1, <2>3 DEF IsApart
    <2>4. CASE table[p].who = "stranger" /\ table[p].parent # Nobody
        <3>1. PICK x \in Pids : x = table[p].parent
            BY <2>1, <2>4 DEF IsApart
        <3>2. /\ table[x].who = "stranger" /\ ~table[x].zombie /\ (IsHeir(x) => IsHeir(p))
              /\ table[p].group = Leader => IsHeir(p)
            BY <2>1, <2>4, <3>1 DEF IsApart
        <3>3. table'[x] = table[x] /\ (IsHeir(x)' <=> IsHeir(x))
            BY <2>2, <3>2
        <3> QED BY <2>1, <2>4, <3>1, <3>2, <3>3 DEF IsApart
    <2> QED BY <2>3, <2>4
<1> QED BY <1>2, <1>3, <1>4, <1>5, <1>6, <1>7 DEF ProcessesMoved

\* setsid: a process that leads no group leads one, the leader does already.
LEMMA GroupLeft ==
    ASSUME CommandInv, NEW q \in Pids, LeaveGroup(q), mistaken' = mistaken, heirs' = heirs
    PROVE  /\ ProcessesMoved
           /\ where # "spawn" /\ where' = where /\ reaped' = reaped => LeaderIsOurs'
<1>1. /\ CommandTyped /\ IsLive(q) /\ table[q].who # "stranger" /\ table[q].group # q
      /\ table' = [table EXCEPT ![q].group = q]
    BY DEF CommandInv, LeaveGroup, Runs
<1>2. /\ \A p \in Pids \ {q} : table'[p] = table[p]
      /\ table'[q] = [table[q] EXCEPT !.group = q]
    BY <1>1 DEF CommandTyped
<1>3. /\ table'[q] \in CommandProcessType
      /\ table'[q].who = table[q].who /\ table'[q].zombie = table[q].zombie
      /\ table'[q].birth = table[q].birth /\ table'[q].parent = table[q].parent
      /\ table'[q].pipe = table[q].pipe /\ table'[q].deaf = table[q].deaf
      /\ table'[q].group = q
    BY <1>1, <1>2, RowIs DEF CommandProcessType
<1>4. \A p \in Pids : IsLive(p)' <=> IsLive(p)
    BY <1>2, <1>3 DEF IsLive, IsFree
<1>5. ASSUME NEW p \in Pids PROVE DiedOff(p) \/ RanOn(p)
    <2>1. CASE p = q
        BY <1>1, <1>3, <1>4, <2>1 DEF RanOn
    <2>2. CASE p # q /\ IsLive(p)
        BY <1>2, <1>4, <2>2 DEF RanOn
    <2>3. CASE p # q /\ ~IsLive(p)
        <3>1. ~IsLive(p)'
            BY <1>4, <2>3
        <3> QED BY <1>2, <2>3, <3>1 DEF DiedOff
    <2> QED BY <2>1, <2>2, <2>3
<1>6. ASSUME NEW p \in Pids PROVE IsApart(p)'
    <2>1. \A x \in Pids : /\ table'[x].who = table[x].who /\ table'[x].zombie = table[x].zombie
                          /\ table'[x].parent = table[x].parent
                          /\ table'[x].birth = table[x].birth
                          /\ table[x].who = "stranger" => table'[x] = table[x]
        BY <1>1, <1>2, <1>3
    <2>2. IsApart(p) /\ \A x \in Pids : IsHeir(x)' <=> IsHeir(x)
        BY <2>1 DEF CommandInv, IsHeir
    <2> QED BY <2>1, <2>2 DEF IsApart
<1>7. where # "spawn" /\ where' = where /\ reaped' = reaped => LeaderIsOurs'
    BY <1>1, <1>2, <1>3, CommandNumbers DEF CommandInv, LeaderIsOurs
<1>8. table' \in [Pids -> CommandProcessType]
    BY <1>1, <1>3 DEF CommandTyped
<1> QED BY <1>5, <1>6, <1>7, <1>8 DEF ProcessesMoved

\* A listing selects the leader's number, the command's own, and the heirs.
LEMMA TreeIsOurs ==
    ASSUME CommandInv, NEW q \in Tree(table)
    PROVE  q \in Pids /\ (table[q].who = "stranger" => IsHeir(q))
<1>1. PICK S \in SUBSET Pids : S = {p \in Pids : table[p].who = "stranger" => IsHeir(p)}
    OBVIOUS
<1>2. \A p \in Pids : IsApart(p)
    BY DEF CommandInv
<1>3. FirstRows(table) \subseteq S
    BY <1>1, <1>2 DEF FirstRows, IsApart, IsHeir
<1>4. ASSUME NEW p \in ChildRows(table, S) PROVE p \in S
    <2>1. p \in Pids /\ table[p].parent \in S /\ IsApart(p)
        BY <1>2, <1>4 DEF ChildRows
    <2>2. table[p].parent # Nobody
        BY <1>1, <2>1, CommandNumbers
    <2> QED BY <1>1, <2>1, <2>2 DEF IsApart
<1>5. q \in S
    BY <1>3, <1>4 DEF Tree
<1> QED BY <1>1, <1>5

-----------------------------------------------------------------------------
(* CommandProcess: the steps                                               *)

\* What a step keeps when it leaves the identities and the sample alone.
LEMMA CommandHolds ==
    ASSUME CommandInv, ProcessesMoved,
           ids' = ids, rows' = rows, lastLive' = lastLive, struck' = struck,
           live' \subseteq Pids, queue' \subseteq Pids \ {Leader}, force' \in BOOLEAN,
           where' \in Stations, reaped' \in BOOLEAN, LeaderIsOurs',
           where' = where \/ where' # "identify",
           AimIsTaken' \/ where' # "strike" \/ UNCHANGED <<where, aim, reaped>>,
           UNCHANGED <<where, onward, cut, reaped, queue, aim, force>> \/ LoopKnows'
    PROVE  CommandInv'
<1>1. CommandTyped' /\ OnlyTheMistakenAreSignalled'
    BY DEF CommandInv, CommandTyped, ProcessesMoved, OnlyTheMistakenAreSignalled
<1>2. /\ \A p \in Pids : IsApart(p)' /\ IdIsOurs(p)'
      /\ \A p \in Pids : Survives(p)' => RanOn(p) /\ Survives(p)
    BY TableKnown
<1>3. RowsAreTaken'
    BY RowsStayTaken DEF RowsAreTaken
<1>4. AimIsTaken'
    BY AimStaysTaken DEF AimIsTaken
<1>5. CASE UNCHANGED <<where, onward, cut, reaped, queue, aim, force>>
    <2>1. LoopKnows /\ lastLive \subseteq Pids
        BY DEF CommandInv, CommandTyped
    <2>2. cut /\ where \notin {"term", "strike", "look"} =>
             \A p \in lastLive : Survives(p)' => table'[p].deaf
        BY <1>2, <2>1 DEF LoopKnows, RanOn
    <2>3. where \in {"strike", "look"} =>
             \A p \in lastLive : Survives(p)' /\ p \notin queue /\ p # aim =>
                 table'[p].deaf /\ ~force
        BY <1>2, <2>1 DEF LoopKnows, RanOn
    <2>4. where = "closing" => \A p \in lastLive : Survives(p)' => ~HoldsPipe(p)'
        BY <1>2, <2>1 DEF LoopKnows, RanOn, HoldsPipe
    <2>5. LoopKnows'
        BY <1>5, <2>1, <2>2, <2>3, <2>4 DEF LoopKnows
    <2> QED BY <1>1, <1>2, <1>3, <1>4, <2>5 DEF CommandInv
<1>6. CASE LoopKnows'
    BY <1>1, <1>2, <1>3, <1>4, <1>6 DEF CommandInv
<1> QED BY <1>5, <1>6

\* A step of the runner that leaves the processes alone.
LEMMA RunnerWaits ==
    ASSUME CommandInv, UNCHANGED <<table, ids, rows, lastLive, reaped, struck, mistaken, heirs>>,
           live' \subseteq Pids, queue' \subseteq Pids \ {Leader}, force' \in BOOLEAN, where # "spawn",
           where' \in Stations \ {"spawn", "identify"},
           where' # "strike" \/ AimIsTaken', LoopKnows'
    PROVE  CommandInv'
<1>1. ProcessesMoved /\ reaped' \in BOOLEAN /\ LeaderIsOurs'
    BY TableStill DEF CommandInv, CommandTyped
<1> QED BY <1>1, CommandHolds

LEMMA SpawnKeeps == ASSUME CommandInv, Spawn, UNCHANGED <<mistaken, heirs>> PROVE CommandInv'
<1>1. PICK deaf \in BOOLEAN :
          table' = [table EXCEPT ![Leader] = Process("ours", Leader, Runner, Leader, TRUE, deaf)]
    BY DEF Spawn
<1>2. /\ UNCHANGED supervision /\ where' = "guard" /\ where = "spawn" /\ CommandTyped
      /\ LoopKnows /\ ~reaped /\ IsFree(Leader) /\ heirs = {}
    BY DEF Spawn, CommandInv, LoopKnows, LeaderIsOurs, IsFree
<1>3. PICK r \in CommandProcessType :
          /\ table' = [table EXCEPT ![Leader] = r] /\ r.birth = table[Leader].birth + 1
          /\ r.who = "ours" /\ r.parent = Runner /\ r.group = Leader
    <2>1. table[Leader].birth \in Nat
        BY RowIs, CommandNumbers DEF CommandInv
    <2> DEFINE r == Process("ours", Leader, Runner, Leader, TRUE, deaf)
    <2>2. /\ r \in CommandProcessType /\ r.birth = table[Leader].birth + 1
          /\ r.who = "ours" /\ r.parent = Runner /\ r.group = Leader
        BY <2>1, CommandNumbers DEF Process, CommandProcessType
    <2> QED BY <1>1, <2>2
<1>4. table'[Leader] = r
    BY <1>2, <1>3, CommandNumbers DEF CommandTyped
<1>5. IsApart(Leader)'
    BY <1>3, <1>4 DEF IsApart
<1>6. ProcessesMoved
    BY <1>2, <1>3, <1>5, CommandNumbers, GivenAway
<1>7. LeaderIsOurs'
    BY <1>2, <1>3, <1>4 DEF LeaderIsOurs
<1>8. LoopKnows'
    BY <1>2 DEF LoopKnows, supervision, signalling, Signalling
<1> QED BY <1>2, <1>6, <1>7, <1>8, CommandHolds
        DEF supervision, signalling, CommandTyped, Stations

LEMMA RunsIsOurs ==
    ASSUME CommandInv, NEW p \in Pids, Runs(p)
    PROVE  IsLive(p) /\ table[p].who = "ours"
BY RowIs DEF CommandInv, Runs, IsLive, IsFree

\* Another program is given a free pid, in whatever order.
LEMMA StrangerBegins ==
    ASSUME CommandInv, where # "spawn", where' = where, reaped' = reaped,
           NEW q \in Pids, MayTake(q), Arrives(q),
           NEW parent \in Pids \union {Nobody}, NEW group \in Pids \union {Nobody},
           table' = [table EXCEPT ![q] = Process("stranger", q, parent, group, FALSE, FALSE)],
           heirs \subseteq heirs', heirs' \subseteq heirs \union {Newcomer(q)},
           ~reaped => heirs' = heirs,
           group = Leader => q = Leader \/ Newcomer(q) \in heirs',
           parent # Nobody => /\ table[parent].who = "stranger" /\ ~table[parent].zombie
                              /\ IsHeir(parent) => Newcomer(q) \in heirs'
    PROVE  ProcessesMoved /\ LeaderIsOurs'
<1>1. CommandTyped /\ table[q].birth \in Nat /\ IsFree(q)
    BY RowIs DEF CommandInv, MayTake
<1>2. PICK r \in CommandProcessType :
          /\ r = Process("stranger", q, parent, group, FALSE, FALSE)
          /\ r.birth = table[q].birth + 1 /\ ~r.zombie
          /\ r.parent = parent /\ r.group = group /\ r.who = "stranger"
    <2> DEFINE r == Process("stranger", q, parent, group, FALSE, FALSE)
    <2>1. /\ r.birth = table[q].birth + 1 /\ ~r.zombie
          /\ r.parent = parent /\ r.group = group /\ r.who = "stranger"
        BY DEF Process
    <2>2. r \in CommandProcessType
        BY <1>1 DEF Process, CommandProcessType
    <2> QED BY <2>1, <2>2
<1>3. table' = [table EXCEPT ![q] = r] /\ table'[q] = r /\ Newcomer(q) = <<q, r.birth>>
    BY <1>1, <1>2 DEF CommandTyped, Newcomer
<1>4. parent # Nobody => parent \in Pids /\ parent # q /\ table'[parent] = table[parent]
    BY <1>1, <1>3 DEF CommandTyped, IsFree
<1>5. IsApart(q)'
    <2>1. parent # Nobody /\ IsHeir(parent)' => IsHeir(parent)
        BY <1>3, <1>4 DEF IsHeir
    <2>2. Newcomer(q) \in heirs' => IsHeir(q)'
        BY <1>3 DEF IsHeir
    <2>3. group = Leader => IsHeir(q)'
        BY <2>2 DEF IsHeir
    <2> QED BY <1>2, <1>3, <1>4, <2>1, <2>2, <2>3 DEF IsApart
<1>6. /\ mistaken \subseteq mistaken'
      /\ IsInBetween(q) => Newcomer(q) \in mistaken'
    BY DEF Arrives
<1> QED BY <1>1, <1>2, <1>3, <1>5, <1>6, GivenAway

LEMMA ProcessesRunKeeps == ASSUME CommandInv, ProcessesRun PROVE CommandInv'
<1>1. /\ where # "spawn" /\ UNCHANGED <<where, supervision>> /\ CommandTyped
      /\ LeaderIsOurs
    BY DEF ProcessesRun, CommandInv
<1>2. where' = where /\ reaped' = reaped
    BY <1>1 DEF supervision
<1>3. ASSUME NEW p \in Pids, NEW q \in Pids, Fork(p, q), UNCHANGED <<mistaken, heirs>>
      PROVE  ProcessesMoved /\ LeaderIsOurs'
    <2>1. PICK deaf \in BOOLEAN, pipe \in {FALSE, table[p].pipe} :
              table' = [table EXCEPT ![q] =
                           Process(table[p].who, q, p, table[p].group, pipe, deaf)]
        BY <1>3 DEF Fork
    <2>2. PICK r \in CommandProcessType :
              /\ table' = [table EXCEPT ![q] = r] /\ r.birth = table[q].birth + 1
              /\ r.who = "ours"
        <3>1. /\ table[q].birth \in Nat /\ table[p].group \in Pids \union {Nobody}
              /\ table[p].pipe \in BOOLEAN /\ table[p].who = "ours"
            BY <1>1, <1>3, RowIs, RunsIsOurs DEF Fork, CommandProcessType
        <3> DEFINE r == Process(table[p].who, q, p, table[p].group, pipe, deaf)
        <3>2. r.birth = table[q].birth + 1 /\ r.who = "ours" /\ pipe \in BOOLEAN
            BY <3>1 DEF Process
        <3>3. r \in CommandProcessType
            BY <3>1, <3>2 DEF Process, CommandProcessType
        <3> QED BY <2>1, <3>2, <3>3
    <2>3. IsApart(q)' /\ IsFree(q)
        BY <1>1, <1>3, <2>2 DEF IsApart, Fork, MayTake, CommandTyped
    <2> QED BY <1>1, <1>2, <1>3, <2>2, <2>3, GivenAway
<1>4. ASSUME NEW p \in Pids, Exit(p), UNCHANGED <<mistaken, heirs>>
      PROVE  ProcessesMoved /\ LeaderIsOurs'
    <2>1. /\ {p} \in SUBSET Pids /\ {} \in SUBSET Pids /\ Leader \notin {}
          /\ \A q \in {p} : ~IsFree(q)
          /\ \A q \in {} : table[q].zombie \/ table[q].who = "ours"
        BY <1>4 DEF Exit, Runs, IsLive
    <2> QED BY <1>1, <1>2, <1>4, <2>1, AfterKnown DEF Exit
<1>5. ASSUME NEW p \in Pids, ReapChild(p), UNCHANGED <<mistaken, heirs>>
      PROVE  ProcessesMoved /\ LeaderIsOurs'
    <2>1. /\ {} \in SUBSET Pids /\ {p} \in SUBSET Pids
          /\ \A q \in {} : ~IsFree(q)
          /\ \A q \in {p} : table[q].zombie \/ table[q].who = "ours"
        BY <1>5 DEF ReapChild
    <2>2. Leader \in {p} => reaped'
        BY <1>1, <1>2, <1>5 DEF ReapChild, LeaderIsOurs
    <2> QED BY <1>1, <1>2, <1>5, <2>1, <2>2, AfterKnown DEF ReapChild
<1>6. ASSUME NEW q \in Pids, Reuse(q), Arrives(q), UNCHANGED heirs
      PROVE  ProcessesMoved /\ LeaderIsOurs'
    BY <1>1, <1>2, <1>6, StrangerBegins DEF Reuse
<1>7. ASSUME NEW p \in Pids, NEW q \in Pids, StrangerForks(p, q), Arrives(q),
             heirs' = IF IsHeir(p) THEN heirs \union {Newcomer(q)} ELSE heirs
      PROVE  ProcessesMoved /\ LeaderIsOurs'
    <2>1. /\ table[p].who = "stranger" /\ ~table[p].zombie /\ IsApart(p) /\ MayTake(q)
          /\ table' = [table EXCEPT ![q] =
                          Process("stranger", q, p, table[p].group, FALSE, FALSE)]
        BY <1>7 DEF StrangerForks, CommandInv
    <2>2. /\ heirs \subseteq heirs' /\ heirs' \subseteq heirs \union {Newcomer(q)}
          /\ IsHeir(p) => Newcomer(q) \in heirs'
        BY <1>7
    <2>3. table[p].group = Leader => Newcomer(q) \in heirs'
        BY <2>1, <2>2 DEF IsApart
    <2>4. ~reaped => ~IsHeir(p)
        BY <1>1, <2>1 DEF LeaderIsOurs, IsHeir
    <2>5. table[p].group \in Pids \union {Nobody}
        BY <1>1, RowIs
    <2> QED BY <1>1, <1>2, <1>7, <2>1, <2>2, <2>3, <2>4, <2>5, StrangerBegins
<1>8. ProcessesMoved /\ LeaderIsOurs'
    BY <1>1, <1>2, <1>3, <1>4, <1>5, <1>6, <1>7, GroupLeft DEF ProcessesRun
<1> QED BY <1>1, <1>8, CommandHolds DEF supervision, signalling, CommandTyped

-----------------------------------------------------------------------------
(* CommandProcess: the sample                                              *)

LEMMA SampleKeeps == ASSUME CommandInv, Sample, UNCHANGED <<mistaken, heirs>> PROVE CommandInv'
<1>1. /\ CommandTyped /\ LoopKnows /\ LeaderIsOurs /\ where = "sample"
      /\ where' = "identify" /\ rows' = table
      /\ UNCHANGED <<table, onward, live, lastLive, ids, reaped, overflow, cut, signalling, struck>>
    BY DEF CommandInv, Sample
<1>2. ProcessesMoved /\ LeaderIsOurs'
    BY <1>1, TableStill
<1>3. \A p \in Pids : IsApart(p)' /\ IdIsOurs(p)'
    BY <1>1, <1>2, TableKnown
<1>4. RowsAreTaken'
    <2>1. ASSUME NEW p \in Tree(table) \ {Leader}, table[p].who = "stranger"
          PROVE  IsTaken(p)
        BY <2>1, TreeIsOurs DEF IsHeir, IsTaken
    <2>2. Tree(rows)' = Tree(table)
        BY <1>1 DEF Tree, FirstRows, ChildRows
    <2> QED BY <1>1, <2>1, <2>2 DEF RowsAreTaken, IsTaken
<1>5. CommandTyped' /\ OnlyTheMistakenAreSignalled' /\ AimIsTaken'
    BY <1>1 DEF CommandInv, CommandTyped, Stations, signalling, OnlyTheMistakenAreSignalled,
                AimIsTaken
<1>6. LoopKnows'
    BY <1>1 DEF LoopKnows, Signalling
<1> QED BY <1>2, <1>3, <1>4, <1>5, <1>6 DEF CommandInv

LEMMA ReadIdentitiesKeeps ==
    ASSUME CommandInv, ReadIdentities, UNCHANGED <<mistaken, heirs>>
    PROVE  CommandInv'
<1>1. /\ CommandTyped /\ LoopKnows /\ where = "identify"
      /\ live' = {p \in Tree(rows) : IsLive(p)}
      /\ ids' = [p \in Pids |-> IF p \in live' THEN IdentityOf(p) ELSE ids[p]]
      /\ lastLive' = IF live' = {} THEN lastLive ELSE live'
      /\ where' = (IF onward = "refused" THEN "term" ELSE "decide") /\ rows' = NoRows
      /\ UNCHANGED <<table, onward, reaped, overflow, cut, signalling, struck>>
    BY DEF CommandInv, ReadIdentities
<1>2. live' \subseteq Pids /\ lastLive' \subseteq Pids
    BY <1>1 DEF Tree, CommandTyped
<1>3. ProcessesMoved /\ LeaderIsOurs'
    BY <1>1, TableStill
<1>4. ASSUME NEW p \in Pids PROVE IdIsOurs(p)'
    <2>1. (IsLive(p)' <=> IsLive(p)) /\ (IsTaken(p)' <=> IsTaken(p))
        BY <1>1 DEF IsLive, IsFree, IsTaken
    <2>2. CASE p \in live'
        <3>1. IsLive(p) /\ (p # Leader /\ table[p].who = "stranger" => IsTaken(p))
            BY <1>1, <2>2 DEF CommandInv, RowsAreTaken
        <3>2. ids'[p] = <<p, table[p].group, table[p].birth>>
            BY <1>1, <2>2, <3>1 DEF IdentityOf
        <3>3. table[p].group \in Pids \union {Nobody} /\ table[p].birth \in Nat
            BY <1>1, RowIs
        <3>4. /\ table[p].birth <= table'[p].birth
              /\ p # Leader /\ table'[p].who = "stranger" => IsTaken(p)'
              /\ table[p].group = p => table'[p].group = p
            BY <1>1, <2>1, <3>1, <3>3
        <3> QED BY <3>2, <3>3, <3>4 DEF IdIsOurs
    <2>3. CASE p \notin live'
        <3>1. ids'[p] = ids[p]
            BY <1>1, <2>3
        <3> QED BY <1>1, <2>1, <3>1 DEF CommandInv, IdIsOurs
    <2> QED BY <2>2, <2>3
<1>5. NoRows \in [Pids -> CommandProcessType]
    BY DEF NoRows, Free, CommandProcessType
<1>6. CommandTyped' /\ OnlyTheMistakenAreSignalled' /\ AimIsTaken' /\ RowsAreTaken'
    <2>1. CommandTyped'
        BY <1>1, <1>2, <1>5 DEF CommandTyped, Stations, signalling
    <2> QED BY <1>1, <2>1 DEF CommandInv, OnlyTheMistakenAreSignalled, AimIsTaken, RowsAreTaken
<1>7. LoopKnows'
    BY <1>1 DEF LoopKnows, Signalling
<1> QED BY <1>3, <1>4, <1>6, <1>7 DEF CommandInv, ProcessesMoved

\* The leader's start identity is read before anything is sampled.
LEMMA LeaderBound ==
    ASSUME CommandInv, where \in {"guard", "bind"}, IsLive(Leader),
           UNCHANGED <<table, rows, live, reaped, cut, signalling, struck, mistaken, heirs>>,
           ids' = [ids EXCEPT ![Leader] = IdentityOf(Leader)], lastLive' = {Leader},
           where' = "sample"
    PROVE  CommandInv'
<1>1. CommandTyped /\ LoopKnows /\ Leader \in Pids
    BY CommandNumbers DEF CommandInv
<1>2. /\ ids' = [p \in Pids |-> ids'[p]]
      /\ \A p \in Pids : ids'[p] = IF p = Leader THEN IdentityOf(p) ELSE ids[p]
    BY <1>1 DEF CommandTyped
<1>3. \A p \in Pids : (IsLive(p)' <=> IsLive(p)) /\ (IsTaken(p)' <=> IsTaken(p))
    BY DEF IsLive, IsFree, IsTaken
<1>4. ASSUME NEW p \in Pids PROVE IdIsOurs(p)'
    <2>1. CASE p = Leader
        <3>1. ids'[p] = <<p, table[p].group, table[p].birth>>
            BY <1>2, <2>1 DEF IdentityOf
        <3>2. table[p].group \in Pids \union {Nobody} /\ table[p].birth \in Nat
            BY <1>1, RowIs
        <3>3. /\ table[p].birth <= table'[p].birth
              /\ table[p].group = p => table'[p].group = p
            BY <3>2
        <3> QED BY <2>1, <3>1, <3>2, <3>3 DEF IdIsOurs
    <2>2. CASE p # Leader
        <3>1. ids'[p] = ids[p]
            BY <1>2, <2>2
        <3> QED BY <1>3, <3>1 DEF CommandInv, IdIsOurs
    <2> QED BY <2>1, <2>2
<1>5. ProcessesMoved /\ LeaderIsOurs'
    BY TableStill
<1>6. CommandTyped' /\ OnlyTheMistakenAreSignalled' /\ AimIsTaken' /\ RowsAreTaken'
    <2>1. CommandTyped'
        BY <1>1, <1>2 DEF CommandTyped, Stations, signalling
    <2> QED BY <2>1 DEF CommandInv, OnlyTheMistakenAreSignalled, AimIsTaken, RowsAreTaken
<1>7. LoopKnows'
    BY <1>1 DEF LoopKnows, Signalling
<1> QED BY <1>4, <1>5, <1>6, <1>7 DEF CommandInv, ProcessesMoved

-----------------------------------------------------------------------------
(* CommandProcess: waits                                                   *)

LEMMA LeaderWaited ==
    ASSUME CommandInv, where # "spawn", where' # "spawn", reaped' = TRUE,
           table' = After({}, IF reaped THEN {} ELSE {Leader}), UNCHANGED <<mistaken, heirs>>
    PROVE  ProcessesMoved /\ LeaderIsOurs'
<1>1. PICK W \in SUBSET Pids : W = IF reaped THEN {} ELSE {Leader}
    BY CommandNumbers
<1>2. /\ {} \in SUBSET Pids /\ \A q \in {} : ~IsFree(q)
      /\ \A q \in W : table[q].zombie \/ table[q].who = "ours"
    BY <1>1 DEF CommandInv, LeaderIsOurs
<1> QED BY <1>1, <1>2, AfterKnown

\* The runner waits for a leader that has ended, and goes on.
LEMMA WaitKeeps ==
    ASSUME CommandInv, where # "spawn", reaped' = TRUE,
           table' = After({}, IF reaped THEN {} ELSE {Leader}),
           UNCHANGED <<rows, lastLive, ids, cut, signalling, struck, mistaken, heirs>>,
           live' \subseteq Pids,
           where \notin {"term", "strike", "look"},
           where' \in {"wait", "settle", "decide", "refused", "term"},
           where' = "term" => onward' = "settle",
           cut => where' = "wait"
    PROVE  CommandInv'
<1>1. ProcessesMoved /\ LeaderIsOurs' /\ CommandTyped /\ LoopKnows
    BY LeaderWaited DEF CommandInv
<1>2. \A p \in Pids : Survives(p)' => RanOn(p) /\ Survives(p)
    BY <1>1, TableKnown
<1>3. cut => \A p \in lastLive : Survives(p)' => table'[p].deaf
    BY <1>1, <1>2 DEF LoopKnows, RanOn, CommandTyped
<1>4. LoopKnows'
    BY <1>1, <1>3 DEF LoopKnows, Signalling
<1> QED BY <1>1, <1>4, CommandHolds DEF CommandTyped, Stations, signalling

\* The leader alone is killed and waited for.
LEMMA LeaderKilled ==
    ASSUME CommandInv, where \in {"guard", "bind"}, reaped' = TRUE,
           table' = After({Leader}, {Leader}), where' \in {"refused", "unbinding"},
           UNCHANGED <<rows, live, lastLive, ids, cut, signalling, struck, mistaken, heirs>>
    PROVE  CommandInv'
<1>1. CommandTyped /\ LoopKnows /\ LeaderIsOurs
    BY DEF CommandInv
<1>2. /\ {Leader} \in SUBSET Pids /\ \A q \in {Leader} : ~IsFree(q)
      /\ \A q \in {Leader} : table[q].zombie \/ table[q].who = "ours"
    BY <1>1, CommandNumbers DEF LeaderIsOurs, LoopKnows, IsFree
<1>3. ProcessesMoved /\ LeaderIsOurs'
    BY <1>2, AfterKnown
<1>4. LoopKnows'
    BY <1>1 DEF LoopKnows, Signalling
<1> QED BY <1>1, <1>3, <1>4, CommandHolds DEF CommandTyped, Stations, signalling

LEMMA LaunchKeeps ==
    ASSUME CommandInv, GuardFails \/ Bind \/ BindFails, UNCHANGED <<mistaken, heirs>>
    PROVE  CommandInv'
<1>1. CASE GuardFails
    <2>1. CASE where' = "sample"
        BY <1>1, <2>1, LeaderBound DEF GuardFails
    <2>2. CASE where' = "refused"
        BY <1>1, <2>2, LeaderKilled DEF GuardFails
    <2> QED BY <1>1, <2>1, <2>2 DEF GuardFails
<1>2. CASE Bind
    <2>1. CASE IsLive(Leader)
        BY <1>2, <2>1, LeaderBound DEF Bind
    <2>2. CASE ~IsLive(Leader)
        <3>1. /\ CommandTyped /\ LoopKnows /\ where = "bind" /\ where' = "sample"
              /\ table' = After({}, IF reaped THEN {} ELSE {Leader}) /\ reaped' = TRUE
              /\ lastLive' = {Leader}
              /\ UNCHANGED <<ids, onward, rows, live, overflow, cut, signalling, struck>>
            BY <1>2, <2>2 DEF Bind, CommandInv, LoopKnows
        <3>2. ProcessesMoved /\ LeaderIsOurs'
            BY <3>1, LeaderWaited
        <3>3. \A p \in Pids : IsApart(p)' /\ IdIsOurs(p)'
            BY <3>1, <3>2, TableKnown
        <3>4. /\ CommandTyped' /\ OnlyTheMistakenAreSignalled' /\ AimIsTaken' /\ RowsAreTaken'
              /\ LoopKnows'
            <4>1. CommandTyped'
                BY <3>1, <3>2, CommandNumbers
                   DEF CommandTyped, Stations, signalling, ProcessesMoved
            <4>2. LoopKnows'
                BY <3>1 DEF LoopKnows, Signalling
            <4> QED BY <3>1, <4>1, <4>2
                    DEF CommandInv, OnlyTheMistakenAreSignalled, AimIsTaken, RowsAreTaken
        <3> QED BY <3>2, <3>3, <3>4 DEF CommandInv
    <2> QED BY <2>1, <2>2
<1>3. CASE BindFails
    BY <1>3, LeaderKilled DEF BindFails
<1> QED BY <1>1, <1>2, <1>3

-----------------------------------------------------------------------------
(* CommandProcess: the signals                                             *)

LEMMA CheckGroupKeeps ==
    ASSUME CommandInv, CheckGroup, UNCHANGED <<mistaken, heirs>>
    PROVE  CommandInv'
<1>1. /\ CommandTyped /\ LoopKnows /\ LeaderIsOurs /\ where \in {"term", "kill"}
      /\ force' = (where = "kill") /\ queue' = Owned \ {Leader} /\ reaped' = HasEnded
      /\ where' \in {"strike", "look"}
      /\ where' = "look" => aim' = Nobody
      /\ where' = "strike" => aim' = Leader /\ ~reaped'
      /\ UNCHANGED <<onward, rows, live, lastLive, ids, overflow, cut, struck>>
    BY DEF CommandInv, CheckGroup
<1>2. PICK W \in SUBSET Pids : W = IF table[Leader].zombie /\ ~reaped THEN {Leader} ELSE {}
    BY CommandNumbers
<1>3. table' = After({}, W)
    BY <1>2 DEF CheckGroup
<1>4. reaped' \in BOOLEAN /\ (reaped => reaped') /\ (Leader \in W => reaped')
    <2>1. table[Leader].zombie \in BOOLEAN /\ reaped \in BOOLEAN
        BY <1>1, RowIs, CommandNumbers DEF CommandTyped
    <2> QED BY <1>1, <1>2, <2>1 DEF HasEnded
<1>5. {} \in SUBSET Pids /\ (\A q \in {} : ~IsFree(q)) /\ \A q \in W : table[q].zombie
    BY <1>2
<1>6. ProcessesMoved /\ LeaderIsOurs'
    BY <1>1, <1>3, <1>4, <1>5, AfterKnown
<1>7. AimIsTaken' /\ queue' \subseteq Pids \ {Leader} /\ live' \subseteq Pids /\ force' \in BOOLEAN
    BY <1>1, CommandNumbers DEF AimIsTaken, CommandTyped, Owned
<1>8. LoopKnows'
    <2>1. \A p \in lastLive : Survives(p)' => p \in queue'
        BY <1>1 DEF Survives, Owned
    <2> QED BY <1>1, <1>4, <2>1 DEF LoopKnows, Signalling
<1> QED BY <1>1, <1>4, <1>6, <1>7, <1>8, CommandHolds DEF Stations

LEMMA CheckNextKeeps ==
    ASSUME CommandInv, NEW q \in Pids, CheckNext(q), UNCHANGED <<mistaken, heirs>>
    PROVE  CommandInv'
<1>1. /\ CommandTyped /\ LoopKnows /\ where = "look" /\ q \in queue /\ queue' = queue \ {q}
      /\ \/ IsSame(q) /\ aim' = q /\ where' = "strike"
         \/ ~IsSame(q) /\ aim' = aim /\ where' = "look"
      /\ UNCHANGED <<table, onward, rows, live, lastLive, ids, reaped, overflow, cut, force,
                     struck>>
    BY DEF CommandInv, CheckNext
<1>2. ASSUME IsSame(q), q # Leader, table[q].who = "stranger" PROVE IsTaken(q)
    <2>1. PICK g \in Pids \union {Nobody}, b \in Nat :
              /\ ids[q] = <<q, g, b>>
              /\ b = table[q].birth /\ IsLive(q) => IsTaken(q)
        BY <1>2 DEF CommandInv, IdIsOurs, IsSame
    <2>2. IsLive(q) /\ b = table[q].birth
        BY <1>2, <2>1 DEF IsSame, IdentityOf
    <2> QED BY <2>1, <2>2
<1>3. q # Leader
    BY <1>1 DEF CommandTyped
<1>4. AimIsTaken'
    BY <1>1, <1>2, <1>3 DEF AimIsTaken, IsTaken
<1>5. \A p \in lastLive : Survives(p)' <=> Survives(p)
    BY <1>1 DEF Survives, IsSame, IdentityOf, IsLive, IsFree
<1>6. LoopKnows'
    <2>1. aim = Nobody /\ \A p \in lastLive : p # Nobody
        BY <1>1, CommandNumbers DEF LoopKnows, CommandTyped
    <2>2. \A p \in lastLive : Survives(p)' /\ p \notin queue' /\ p # aim' => table'[p].deaf /\ ~force'
        BY <1>1, <1>5, <2>1 DEF LoopKnows, Survives
    <2> QED BY <1>1, <2>1, <2>2 DEF LoopKnows, Signalling
<1> QED BY <1>1, <1>4, <1>6, RunnerWaits DEF CommandTyped, Stations

\* A signal goes to whom it is for, or to whom nobody could tell apart.
LEMMA StrikeKeeps ==
    ASSUME CommandInv, Strike, UNCHANGED <<mistaken, heirs>>
    PROVE  CommandInv'
<1>1. /\ CommandTyped /\ LoopKnows /\ LeaderIsOurs /\ AimIsTaken
      /\ where = "strike" /\ where' = "look" /\ aim' = Nobody
      /\ struck' = struck \union Strangers(Addressed)
      /\ UNCHANGED <<onward, rows, live, lastLive, ids, reaped, overflow, cut, force, queue>>
    BY DEF CommandInv, Strike
<1>2. PICK S \in SUBSET Pids : S = IF force THEN Addressed ELSE Hearing(Addressed)
    BY <1>1 DEF AimIsTaken, Addressed, Hearing, MembersOf
<1>3. table' = After(S, {}) /\ S \subseteq Addressed /\ \A q \in Addressed : IsLive(q)
    BY <1>2 DEF Strike, Hearing, Addressed, MembersOf
<1>4. ASSUME NEW q \in Addressed, table[q].who = "stranger" PROVE IsTaken(q)
    <2>1. CASE aim = Leader
        <3>1. ~reaped /\ q \in Pids /\ table[q].group = Leader
            BY <1>1, <1>4, <2>1 DEF AimIsTaken, Addressed, MembersOf
        <3>2. IsApart(q) /\ heirs = {} /\ q # Leader
            BY <1>1, <1>4, <3>1 DEF CommandInv, LeaderIsOurs
        <3> QED BY <1>4, <3>1, <3>2 DEF IsApart, IsHeir
    <2>2. CASE aim # Leader
        BY <1>1, <1>4, <2>2 DEF AimIsTaken, Addressed
    <2> QED BY <2>1, <2>2
<1>5. OnlyTheMistakenAreSignalled'
    BY <1>1, <1>4 DEF OnlyTheMistakenAreSignalled, Strangers, CommandInv, IsTaken
<1>6. /\ ProcessesMoved /\ LeaderIsOurs'
      /\ \A p \in Pids : RanOn(p) => p \notin S
    <2>1. \A q \in S : ~IsFree(q)
        BY <1>3 DEF IsLive
    <2>2. {} \in SUBSET Pids /\ \A q \in {} : table[q].zombie \/ table[q].who = "ours"
        OBVIOUS
    <2> QED BY <1>1, <1>3, <2>1, <2>2, AfterKnown
<1>7. /\ \A p \in Pids : IsApart(p)' /\ IdIsOurs(p)'
      /\ \A p \in Pids : Survives(p)' => RanOn(p) /\ Survives(p)
    BY <1>1, <1>6, TableKnown
<1>8. ASSUME NEW p \in lastLive, Survives(p)', p \notin queue
      PROVE  table'[p].deaf /\ ~force
    <2>1. p \in Pids /\ RanOn(p) /\ Survives(p) /\ p \notin S
        BY <1>1, <1>6, <1>7, <1>8 DEF CommandTyped
    <2>2. CASE p = aim
        <3>1. p \in Addressed
            BY <2>1, <2>2 DEF Addressed, RanOn, Survives
        <3> QED BY <1>2, <2>1, <3>1 DEF Hearing, RanOn
    <2>3. CASE p # aim
        BY <1>1, <1>8, <2>1, <2>3 DEF LoopKnows, RanOn
    <2> QED BY <2>2, <2>3
<1>9. LoopKnows'
    BY <1>1, <1>8 DEF LoopKnows, Signalling
<1>10. CommandTyped' /\ AimIsTaken' /\ RowsAreTaken'
    BY <1>1, <1>6 DEF CommandTyped, Stations, ProcessesMoved, AimIsTaken, RowsAreTaken
<1> QED BY <1>5, <1>6, <1>7, <1>9, <1>10 DEF CommandInv

\* Everything that was sampled has been looked at.
LEMMA SignalsEnd ==
    ASSUME CommandInv, EndTerm \/ EndKill, UNCHANGED <<mistaken, heirs>>
    PROVE  CommandInv'
<1>1. /\ CommandTyped /\ LoopKnows /\ where = "look" /\ queue = {}
      /\ UNCHANGED <<onward, rows, live, lastLive, ids, overflow, cut, signalling, struck>>
    BY DEF CommandInv, EndTerm, EndKill, supervision
<1>2. \A p \in lastLive : p \in Pids /\ (Survives(p) => table[p].deaf /\ ~force)
    BY <1>1, CommandNumbers DEF LoopKnows, CommandTyped
<1>3. CASE EndTerm
    <2>1. table' = table /\ reaped' = reaped /\ where' = "grace" /\ ~force
        BY <1>3 DEF EndTerm, supervision
    <2>2. \A p \in lastLive : Survives(p)' <=> Survives(p)
        BY <1>1, <2>1 DEF Survives, IsSame, IdentityOf, IsLive, IsFree
    <2>3. LoopKnows'
        BY <1>1, <1>2, <2>1, <2>2 DEF LoopKnows, Signalling
    <2> QED BY <1>1, <2>1, <2>3, RunnerWaits DEF CommandTyped, Stations, signalling
<1>4. CASE EndKill
    <2>1. /\ where' = onward /\ force
          /\ where' \in {"wait", "settle", "refused", "closing"}
        BY <1>1, <1>4 DEF EndKill, LoopKnows, Signalling
    <2>2. CASE onward = "refused"
        <3>1. table' = table /\ reaped' = reaped
            BY <1>4, <2>2 DEF EndKill
        <3>2. LoopKnows'
            BY <1>1, <2>1, <2>2 DEF LoopKnows, Signalling
        <3> QED BY <1>1, <2>1, <3>1, <3>2, RunnerWaits DEF CommandTyped, Stations, signalling
    <2>3. CASE onward # "refused"
        <3>1. table' = After({}, IF reaped THEN {} ELSE {Leader}) /\ reaped' = TRUE
            BY <1>4, <2>3 DEF EndKill
        <3>2. ProcessesMoved /\ LeaderIsOurs'
            BY <1>1, <2>1, <3>1, LeaderWaited
        <3>3. \A p \in lastLive : ~Survives(p)'
            BY <1>1, <1>2, <2>1, <3>2, TableKnown
        <3>4. LoopKnows'
            BY <1>1, <2>1, <3>1, <3>3 DEF LoopKnows, Signalling
        <3> QED BY <1>1, <2>1, <3>1, <3>2, <3>4, CommandHolds
                DEF CommandTyped, Stations, signalling
    <2> QED BY <2>2, <2>3
<1> QED BY <1>3, <1>4

-----------------------------------------------------------------------------
(* CommandProcess: the supervision                                         *)

\* The command is cut off, or what is left of its tree is to be killed.
LEMMA SignalsBegin ==
    ASSUME CommandInv, where \in {"sample", "decide", "settle", "grace", "wait"},
           UNCHANGED <<table, rows, lastLive, ids, reaped, signalling, struck, mistaken, heirs>>,
           live' \subseteq Pids,
           \/ where' = "term" /\ onward' \in {"wait", "refused"} /\ where \in {"sample", "decide"}
              /\ (cut' => onward' = "wait")
           \/ /\ where' = "kill" /\ cut' = cut
              /\ onward' \in {"wait", "settle", "refused", "closing"}
              /\ cut => onward' \in {"wait", "closing"}
    PROVE  CommandInv'
<1>1. CommandTyped /\ LoopKnows
    BY DEF CommandInv
<1>2. \A p \in lastLive : (Survives(p)' <=> Survives(p)) /\ table'[p].deaf = table[p].deaf
    BY DEF Survives, IsSame, IdentityOf, IsLive, IsFree
<1>3. LoopKnows'
    BY <1>1, <1>2 DEF LoopKnows, Signalling
<1> QED BY <1>1, <1>3, RunnerWaits DEF CommandTyped, Stations, signalling

LEMMA SignalsStart ==
    ASSUME CommandInv, SampleFails \/ CutOff \/ SettleKill \/ Grace \/ JoinTimesOut,
           UNCHANGED <<mistaken, heirs>>
    PROVE  CommandInv'
<1>1. CommandTyped /\ LoopKnows
    BY DEF CommandInv
<1>2. CASE SampleFails
    <2>1. CASE onward # "refused" /\ HasEnded
        BY <1>1, <1>2, <2>1, WaitKeeps DEF SampleFails, LoopKnows, Signalling
    <2>2. CASE ~(onward # "refused" /\ HasEnded)
        <3>1. /\ where = "sample" /\ live' = lastLive /\ where' = "term" /\ onward' \in {"wait", "refused"}
              /\ cut' => onward' = "wait"
              /\ UNCHANGED <<table, reaped, rows, lastLive, ids, signalling, struck>>
            BY <1>1, <1>2, <2>2 DEF SampleFails, LoopKnows, Signalling
        <3> QED BY <1>1, <3>1, SignalsBegin DEF CommandTyped
    <2> QED BY <2>1, <2>2
<1>3. CASE CutOff
    BY <1>1, <1>3, SignalsBegin DEF CutOff, CommandTyped
<1>4. CASE SettleKill
    BY <1>1, <1>4, SignalsBegin DEF SettleKill, KillTree, CommandTyped
<1>5. CASE JoinTimesOut
    BY <1>1, <1>5, SignalsBegin DEF JoinTimesOut, KillTree, CommandTyped
<1>6. CASE Grace
    <2>1. /\ where = "grace" /\ onward \in {"wait", "settle", "refused"}
          /\ cut => onward = "wait"
        BY <1>1, <1>6 DEF Grace, LoopKnows, Signalling
    <2>2. CASE HasEnded
        BY <1>1, <1>6, <2>1, <2>2, WaitKeeps DEF Grace, CommandTyped
    <2>3. CASE ~HasEnded
        BY <1>1, <1>6, <2>1, <2>3, SignalsBegin DEF Grace, KillTree, CommandTyped
    <2> QED BY <2>2, <2>3
<1> QED BY <1>2, <1>3, <1>4, <1>5, <1>6

LEMMA PausesKeep ==
    ASSUME CommandInv,
           GuardHolds \/ Continue \/ LeaderEnded \/ Settle \/ Join \/ Close \/ Flood,
           UNCHANGED <<mistaken, heirs>>
    PROVE  CommandInv'
<1>1. CommandTyped /\ LoopKnows
    BY DEF CommandInv
<1>2. CASE LeaderEnded
    BY <1>1, <1>2, WaitKeeps DEF LeaderEnded, LoopKnows, Signalling, CommandTyped
<1>3. CASE GuardHolds \/ Continue \/ Settle \/ Join \/ Close \/ Flood
    <2>1. /\ where # "spawn" /\ where' # "spawn"
          /\ UNCHANGED <<table, onward, rows, live, lastLive, ids, reaped, cut, signalling, struck>>
        BY <1>3 DEF GuardHolds, Continue, Settle, Join, Close, Flood, supervision
    <2>2. \A p \in lastLive : /\ Survives(p)' <=> Survives(p)
                              /\ table'[p].deaf = table[p].deaf
        BY <2>1 DEF Survives, IsSame, IdentityOf, IsLive, IsFree
    <2>3. CASE GuardHolds \/ Continue \/ Settle
        <3>1. where' \in Stations \ {"spawn", "identify", "strike"} /\ LoopKnows'
            BY <1>1, <2>1, <2>3
               DEF GuardHolds, Continue, Settle, LoopKnows, Signalling, Stations
        <3> QED BY <1>1, <2>1, <3>1, RunnerWaits DEF CommandTyped, signalling
    <2>4. CASE Join \/ Close
        <3>1. /\ where' \in {"done", "unbound"}
              /\ where \in {"wait", "closing", "unbinding"}
              /\ where' = "unbound" <=> where = "unbinding"
            BY <2>4 DEF Join, Close
        <3>2. LoopKnows'
            BY <1>1, <2>1, <2>2, <3>1 DEF LoopKnows, Signalling
        <3> QED BY <1>1, <2>1, <3>1, <3>2, RunnerWaits DEF CommandTyped, signalling, Stations
    <2>5. CASE Flood
        <3>1. where' = where /\ UNCHANGED <<queue, aim, force>>
            BY <2>1, <2>5 DEF Flood, signalling
        <3>2. ProcessesMoved /\ LeaderIsOurs'
            BY <2>1, TableStill
        <3> QED BY <1>1, <2>1, <3>1, <3>2, CommandHolds DEF CommandTyped
    <2> QED BY <1>3, <2>3, <2>4, <2>5
<1> QED BY <1>2, <1>3

-----------------------------------------------------------------------------
(* CommandProcess: the theorem                                             *)

LEMMA CommandBegins == CommandInit => CommandInv
<1> SUFFICES ASSUME CommandInit PROVE CommandInv
    OBVIOUS
<1>1. /\ table = NoRows /\ rows = NoRows /\ live = {} /\ lastLive = {} /\ queue = {}
      /\ ids = [p \in Pids |-> <<>>] /\ where = "spawn" /\ onward = "wait"
      /\ reaped = FALSE /\ cut = FALSE /\ force = FALSE /\ struck = {} /\ heirs = {}
    BY DEF CommandInit, TableInit, NoRows
<1>2. /\ NoRows \in [Pids -> CommandProcessType]
      /\ \A p \in Pids : NoRows[p].who = "none" /\ NoRows[p].parent = Nobody /\ ~NoRows[p].zombie
    BY DEF NoRows, Free, CommandProcessType
<1>3. CommandTyped
    BY <1>1, <1>2 DEF CommandTyped, Stations
<1>4. \A p \in Pids : IdIsOurs(p) /\ IsApart(p)
    BY <1>1, <1>2 DEF IdIsOurs, IsApart
<1>5. LeaderIsOurs /\ RowsAreTaken /\ AimIsTaken /\ LoopKnows /\ OnlyTheMistakenAreSignalled
    BY <1>1, <1>2, CommandNumbers
       DEF LeaderIsOurs, RowsAreTaken, AimIsTaken, LoopKnows, Signalling,
           OnlyTheMistakenAreSignalled
<1> QED BY <1>3, <1>4, <1>5 DEF CommandInv

LEMMA CommandGoesOn == CommandInv /\ [CommandNext]_commandVars => CommandInv'
<1> SUFFICES ASSUME CommandInv, [CommandNext]_commandVars PROVE CommandInv'
    OBVIOUS
<1>1. CASE ProcessesRun
    BY <1>1, ProcessesRunKeeps
<1>2. CASE CommandStep /\ UNCHANGED <<mistaken, heirs>>
    <2>1. CASE Spawn
        BY <1>2, <2>1, SpawnKeeps
    <2>2. CASE GuardFails \/ Bind \/ BindFails
        BY <1>2, <2>2, LaunchKeeps
    <2>3. CASE Sample
        BY <1>2, <2>3, SampleKeeps
    <2>4. CASE ReadIdentities
        BY <1>2, <2>4, ReadIdentitiesKeeps
    <2>5. CASE CheckGroup
        BY <1>2, <2>5, CheckGroupKeeps
    <2>6. CASE \E p \in Pids : CheckNext(p)
        BY <1>2, <2>6, CheckNextKeeps
    <2>7. CASE Strike
        BY <1>2, <2>7, StrikeKeeps
    <2>8. CASE EndTerm \/ EndKill
        BY <1>2, <2>8, SignalsEnd
    <2>9. CASE SampleFails \/ CutOff \/ SettleKill \/ Grace \/ JoinTimesOut
        BY <1>2, <2>9, SignalsStart
    <2>10. CASE GuardHolds \/ Continue \/ LeaderEnded \/ Settle \/ Join \/ Close \/ Flood
        BY <1>2, <2>10, PausesKeep
    <2> QED BY <1>2, <2>1, <2>2, <2>3, <2>4, <2>5, <2>6, <2>7, <2>8, <2>9, <2>10
            DEF CommandStep
<1>3. CASE UNCHANGED commandVars
    <2>1. UNCHANGED <<table, where, onward, rows, live, lastLive, ids, reaped, cut, force, queue,
                      aim, mistaken, heirs, struck>>
        BY <1>3 DEF commandVars, supervision, signalling
    <2>2. ProcessesMoved
        BY <2>1, TableStill
    <2>3. LeaderIsOurs'
        BY <2>1 DEF CommandInv, LeaderIsOurs
    <2> QED BY <2>1, <2>2, <2>3, CommandHolds DEF CommandInv, CommandTyped
<1> QED BY <1>1, <1>2, <1>3 DEF CommandNext

LEMMA CommandIsOwned == CommandInv => ProcessesAreOwned
<1> SUFFICES ASSUME CommandInv PROVE ProcessesAreOwned
    OBVIOUS
<1>1. OnlyTheMistakenAreSignalled
    BY DEF CommandInv
<1>2. CutOffTreeIsStopped
    BY DEF CommandInv, LoopKnows, Survives, CutOffTreeIsStopped
<1>3. HeldUpOnlyByTheUnseen
    BY DEF CommandInv, LoopKnows, Survives, HeldUpOnlyByTheUnseen
<1> QED BY <1>1, <1>2, <1>3 DEF ProcessesAreOwned

\* Whatever the processes of a command do, and whoever is given their pids in
\* whatever order: a signal reaches another program only if that came to its
\* pid between two reads of the runner, or was begun by whoever has the number
\* of the reaped leader; a command that is cut off leaves nothing of its last
\* sample but what ignores SIGTERM, and the runner is held up only by what no
\* sample has shown (_run_bounded_process).
THEOREM Processes == CommandSpec => []ProcessesAreOwned
<1>1. CommandInit => CommandInv
    BY CommandBegins
<1>2. CommandInv /\ [CommandNext]_commandVars => CommandInv'
    BY CommandGoesOn
<1>3. CommandInv => ProcessesAreOwned
    BY CommandIsOwned
<1> QED BY <1>1, <1>2, <1>3, PTL DEF CommandSpec
-----------------------------------------------------------------------------
(* CommandRuntime: the inductive invariant                                *)

RunnerPcs == {"idle", "source", "interpreter", "list", "open", "hash", "bind", "copy",
              "ready", "started", "running", "publish"}
Bytes == 0..2
Identity == [RuntimeFiles -> Bytes]
RunnerType == [pc : RunnerPcs, kind : Kinds, commit : Nat, copy : Bytes,
               listed : SUBSET RuntimeFiles, digest : Identity,
               seen : [RuntimeFiles -> Nat], directory : Nat]

RuntimeTyped ==
  /\ world \in [RuntimeFiles -> [bytes : Bytes, ctime : Nat]]
  /\ directory \in Nat /\ head \in Nat /\ changes \in Nat
  /\ job \in RunnerType
  /\ loaded \subseteq RuntimeFiles \X Bytes
  /\ receipts \in [Kinds -> [runtime : [commit : Nat, digest : Identity],
                             ran : SUBSET (RuntimeFiles \X Bytes), known : BOOLEAN]]

\* A change time is of a change, and only "extra" comes and goes.
FilesAreDated ==
  /\ directory <= changes
  /\ \A f \in RuntimeFiles : /\ world[f].ctime <= changes
                             /\ f # "extra" => world[f].bytes # NoBytes

Binding == {"source", "interpreter", "list", "open", "hash", "bind"}
Held == {"hash", "bind", "copy", "ready", "started", "running", "publish"}
Imported == RuntimeFiles \ {"engine", "interpreter"}

\* What a held node shows of a change: its own time, or its directory's.
IsMoved(f) == IF f \in job.listed THEN job.seen[f] < world[f].ctime
                                  ELSE job.directory < directory

\* The times of the nodes held are of before, what was not listed was not there,
\* and what has not moved is what was hashed.
NodesAreKnown ==
  /\ job.pc \in Binding => ~IsEngine
  /\ job.pc \in Binding \ {"bind"} => \A f \in Imported : job.digest[f] = NoBytes
  /\ job.pc = "open" => job.listed = Present \ {"engine"}
  /\ job.pc \in Held /\ ~IsEngine =>
        /\ job.directory <= directory
        /\ \A f \in job.listed : job.seen[f] <= world[f].ctime
        /\ \A f \in Imported :
              IsMoved(f) \/ (job.pc = "hash" /\ f \in job.listed)
                \/ world[f].bytes = job.digest[f]
        /\ \A f \in Imported \ job.listed : job.digest[f] = NoBytes

\* What the child has loaded is what is bound, or it shows.
LoadedIsKnown ==
  /\ job.pc \in {"ready", "started", "running", "publish"} => job.copy = Expected
  /\ job.pc \in {"started", "running", "publish"} =>
        \A l \in loaded :
            IF IsEngine THEN l = <<"engine", Pinned>>
            ELSE \/ l[2] = job.digest[l[1]]
                 \/ l[1] \in Imported /\ IsMoved(l[1]) /\ job.pc # "publish"

RuntimeInvariant == RuntimeTyped /\ FilesAreDated /\ NodesAreKnown /\ LoadedIsKnown
                      /\ ReceiptIsWhatRan
-----------------------------------------------------------------------------
(* CommandRuntime: every step keeps the invariant                          *)

LEMMA RuntimeStarts == RuntimeInit => RuntimeInvariant
<1> SUFFICES ASSUME RuntimeInit PROVE RuntimeInvariant
  OBVIOUS
<1>1. RuntimeTyped
  BY DEF RuntimeInit, RuntimeTyped, RunnerType, RunnerPcs, Identity, Bytes, NoRun,
         NoIdentity, NoRuntime, NoCommandReceipt, NoBytes, Kinds, RuntimeFiles, RuntimeTree
<1>2. FilesAreDated
  BY DEF RuntimeInit, FilesAreDated, NoBytes, RuntimeFiles, RuntimeTree
<1>3. NodesAreKnown /\ LoadedIsKnown
  BY DEF RuntimeInit, NodesAreKnown, LoadedIsKnown, Binding, Held, NoRun
<1>4. ReceiptIsWhatRan
  BY DEF RuntimeInit, ReceiptIsWhatRan, NoCommandReceipt
<1> QED
  BY <1>1, <1>2, <1>3, <1>4 DEF RuntimeInvariant

\* A runner that starts over holds nothing.
LEMMA RunnerRests ==
  ASSUME RuntimeInvariant, UNCHANGED <<world, directory, head, changes>>,
         job' = NoRun, loaded' = loaded, RuntimeTyped', ReceiptIsWhatRan'
  PROVE  RuntimeInvariant'
<1>1. FilesAreDated'
  BY DEF RuntimeInvariant, FilesAreDated
<1>2. NodesAreKnown' /\ LoadedIsKnown'
  BY DEF NodesAreKnown, LoadedIsKnown, Binding, Held, NoRun
<1> QED
  BY <1>1, <1>2 DEF RuntimeInvariant

LEMMA RunnerDone ==
  ASSUME RuntimeInvariant, ReuseReceipt \/ Publish \/ Abandon
  PROVE  RuntimeInvariant'
<1> USE DEF Rest, Disk
<1>0. NoRun \in RunnerType
  BY DEF NoRun, RunnerType, RunnerPcs, Kinds, NoBytes, Bytes, NoIdentity, Identity
<1>1. ASSUME ReuseReceipt \/ Abandon PROVE RuntimeInvariant'
  <2>1. /\ UNCHANGED <<world, directory, head, changes, loaded, receipts>>
        /\ job' = NoRun
    BY <1>1 DEF ReuseReceipt, Abandon
  <2>2. RuntimeTyped' /\ ReceiptIsWhatRan'
    BY <2>1, <1>0 DEF RuntimeInvariant, RuntimeTyped, ReceiptIsWhatRan
  <2> QED
    BY <2>1, <2>2, RunnerRests
<1>2. ASSUME Publish PROVE RuntimeInvariant'
  <2> DEFINE r == [runtime |-> IF IsEngine THEN NoRuntime ELSE Runtime,
                   ran |-> loaded, known |-> TRUE]
  <2>1. /\ UNCHANGED <<world, directory, head, changes, loaded>>
        /\ job.pc = "publish" /\ job' = NoRun /\ receipts' = [receipts EXCEPT ![job.kind] = r]
    BY <1>2 DEF Publish
  <2>2. job.kind \in Kinds /\ job \in RunnerType /\ receipts' = [receipts EXCEPT ![job.kind] = r]
    BY <2>1 DEF RuntimeInvariant, RuntimeTyped, RunnerType
  <2>3. r \in [runtime : [commit : Nat, digest : Identity],
               ran : SUBSET (RuntimeFiles \X Bytes), known : BOOLEAN]
    <3>1. NoRuntime \in [commit : Nat, digest : Identity]
      BY DEF NoRuntime, NoIdentity, Identity, Bytes, NoBytes
    <3>2. Runtime \in [commit : Nat, digest : Identity]
      BY <2>2 DEF Runtime, RunnerType
    <3>3. loaded \in SUBSET (RuntimeFiles \X Bytes)
      BY DEF RuntimeInvariant, RuntimeTyped
    <3> QED
      BY <3>1, <3>2, <3>3
  <2>4. RuntimeTyped'
    <3> HIDE DEF r
    <3> QED
    BY <2>1, <2>2, <2>3, <1>0 DEF RuntimeInvariant, RuntimeTyped
  <2>5. \A l \in loaded : IF IsEngine THEN l = <<"engine", Pinned>>
                                      ELSE l[2] = job.digest[l[1]]
    BY <2>1 DEF RuntimeInvariant, LoadedIsKnown
  <2>6. ReceiptIsWhatRan'
    <3> SUFFICES ASSUME NEW k \in Kinds, NEW l \in receipts'[k].ran
                 PROVE  IF k = "engine_arena" THEN l = <<"engine", Pinned>>
                        ELSE l[2] = receipts'[k].runtime.digest[l[1]]
      BY DEF ReceiptIsWhatRan
    <3>0. receipts \in [Kinds -> [runtime : [commit : Nat, digest : Identity],
                             ran : SUBSET (RuntimeFiles \X Bytes), known : BOOLEAN]]
      BY DEF RuntimeInvariant, RuntimeTyped
    <3>1. CASE k # job.kind
      <4>1. receipts'[k] = receipts[k]
        BY <2>2, <3>1, <3>0
      <4> QED
        BY <4>1 DEF RuntimeInvariant, ReceiptIsWhatRan
    <3>2. CASE k = job.kind
      <4>1. receipts'[k] = r
        BY <2>2, <3>2, <3>0
      <4>2. l \in loaded
        BY <4>1
      <4>3. receipts'[k].runtime = IF IsEngine THEN NoRuntime ELSE Runtime
        BY <4>1
      <4>4. CASE IsEngine
        BY <4>2, <2>5, <4>4, <3>2 DEF IsEngine
      <4>5. CASE ~IsEngine
        BY <4>2, <2>5, <4>5, <3>2, <4>3 DEF IsEngine, Runtime
      <4> QED
        BY <4>4, <4>5
    <3> QED
      BY <3>1, <3>2
  <2> QED
    BY <2>1, <2>4, <2>6, RunnerRests
<1> QED
  BY <1>1, <1>2

\* While the files rest, so does what they show of a runner that keeps its nodes.
LEMMA RunnerGoesOn ==
  ASSUME RuntimeInvariant, UNCHANGED <<world, directory, head, changes, receipts>>,
         job' \in RunnerType, loaded' \subseteq RuntimeFiles \X Bytes,
         NodesAreKnown', LoadedIsKnown'
  PROVE  RuntimeInvariant'
BY DEF RuntimeInvariant, RuntimeTyped, FilesAreDated, ReceiptIsWhatRan

LEMMA RunnerBinds ==
  ASSUME RuntimeInvariant,
         (\E k \in Kinds : BeginCommand(k)) \/ SnapshotSource \/ HashInterpreter \/ ListTree
  PROVE  RuntimeInvariant'
<1> USE DEF Rest, Disk
<1>0. RuntimeTyped /\ NodesAreKnown /\ LoadedIsKnown /\ job \in RunnerType
  BY DEF RuntimeInvariant, RuntimeTyped
<1>1. ASSUME NEW k \in Kinds, BeginCommand(k) PROVE RuntimeInvariant'
  <2>1. /\ UNCHANGED <<world, directory, head, changes, receipts>> /\ loaded' = {}
        /\ job' = [NoRun EXCEPT !.kind = k, !.commit = head,
                  !.pc = IF k = "engine_arena" THEN "copy" ELSE "source"]
    BY <1>1 DEF BeginCommand
  <2>2. head \in Nat
    BY <1>0 DEF RuntimeTyped
  <2>3. job' \in RunnerType
    <3>1. NoRun \in RunnerType
      BY DEF NoRun, RunnerType, RunnerPcs, Kinds, NoBytes, Bytes, NoIdentity, Identity
    <3>2. (IF k = "engine_arena" THEN "copy" ELSE "source") \in RunnerPcs
      BY DEF RunnerPcs
    <3> QED
      BY <2>1, <2>2, <3>1, <3>2 DEF RunnerType
  <2>4. NodesAreKnown'
    BY <2>1 DEF NodesAreKnown, NoRun, Binding, Held, IsEngine, NoIdentity, Imported, Kinds
  <2>5. LoadedIsKnown'
    BY <2>1 DEF LoadedIsKnown, NoRun
  <2> QED
    BY <2>1, <2>3, <2>4, <2>5, RunnerGoesOn
<1>2. ASSUME SnapshotSource PROVE RuntimeInvariant'
  <2>1. /\ UNCHANGED <<world, directory, head, changes, receipts, loaded>>
        /\ job.pc = "source" /\ job' = [job EXCEPT !.pc = "interpreter"]
    BY <1>2 DEF SnapshotSource, Advance
  <2>2. job' \in RunnerType /\ loaded' \subseteq RuntimeFiles \X Bytes
    BY <2>1, <1>0 DEF RunnerType, RunnerPcs, RuntimeTyped
  <2>3. NodesAreKnown' /\ LoadedIsKnown'
    BY <2>1, <1>0 DEF NodesAreKnown, LoadedIsKnown, RunnerType, Binding, Held, IsEngine
  <2> QED
    BY <2>1, <2>2, <2>3, RunnerGoesOn
<1>3. ASSUME HashInterpreter PROVE RuntimeInvariant'
  <2>1. /\ UNCHANGED <<world, directory, head, changes, receipts, loaded>>
        /\ job.pc = "interpreter"
        /\ job' = [job EXCEPT !.pc = "list",
                  !.digest["interpreter"] = world["interpreter"].bytes]
    BY <1>3 DEF HashInterpreter
  <2>2. world["interpreter"].bytes \in Bytes
    BY <1>0 DEF RuntimeTyped, RuntimeFiles
  <2>3. job' \in RunnerType /\ loaded' \subseteq RuntimeFiles \X Bytes
    BY <2>1, <2>2, <1>0 DEF RunnerType, RunnerPcs, RuntimeTyped, Identity
  <2>4. job'.pc = "list" /\ job'.kind = job.kind
        /\ \A f \in Imported : job'.digest[f] = job.digest[f]
    BY <2>1, <1>0 DEF RunnerType, Imported, Identity
  <2>5. NodesAreKnown' /\ LoadedIsKnown'
    BY <2>1, <2>4, <1>0 DEF NodesAreKnown, LoadedIsKnown, Binding, Held, IsEngine
  <2> QED
    BY <2>1, <2>3, <2>5, RunnerGoesOn
<1>4. ASSUME ListTree PROVE RuntimeInvariant'
  <2>1. /\ UNCHANGED <<world, directory, head, changes, receipts, loaded>>
        /\ job.pc = "list"
        /\ job' = [job EXCEPT !.pc = "open", !.listed = Present \ {"engine"}]
    BY <1>4 DEF ListTree
  <2>2. Present \subseteq RuntimeFiles /\ Present' = Present
    BY <2>1 DEF Present
  <2>3. job' \in RunnerType /\ loaded' \subseteq RuntimeFiles \X Bytes
    BY <2>1, <2>2, <1>0 DEF RunnerType, RunnerPcs, RuntimeTyped
  <2>4. job'.pc = "open" /\ job'.kind = job.kind /\ job'.digest = job.digest
        /\ job'.listed = Present \ {"engine"}
    BY <2>1, <1>0 DEF RunnerType
  <2>5. NodesAreKnown' /\ LoadedIsKnown'
    BY <2>1, <2>2, <2>4, <1>0 DEF NodesAreKnown, LoadedIsKnown, Binding, Held, IsEngine
  <2> QED
    BY <2>1, <2>3, <2>5, RunnerGoesOn
<1> QED
  BY <1>1, <1>2, <1>3, <1>4

LEMMA RunnerOpens == ASSUME RuntimeInvariant, OpenNodes PROVE RuntimeInvariant'
<1>0. RuntimeTyped /\ NodesAreKnown /\ LoadedIsKnown /\ job \in RunnerType
  BY DEF RuntimeInvariant, RuntimeTyped
<1>1. /\ UNCHANGED <<world, directory, head, changes, receipts, loaded>>
      /\ job.pc = "open" /\ directory \in Nat
      /\ job' = [job EXCEPT !.pc = "hash", !.directory = directory,
                  !.seen = [f \in RuntimeFiles |->
                               IF f \in job.listed THEN world[f].ctime ELSE 0]]
  BY <1>0 DEF OpenNodes, Rest, Disk, RuntimeTyped
<1>2. /\ job'.pc = "hash" /\ job'.kind = job.kind /\ job'.listed = job.listed
      /\ job'.digest = job.digest /\ job'.directory = directory
      /\ \A f \in job.listed : job'.seen[f] = world[f].ctime
  BY <1>1, <1>0 DEF RunnerType
<1>3. \A f \in RuntimeFiles : world[f].ctime \in Nat
  BY <1>0 DEF RuntimeTyped
<1>4. [f \in RuntimeFiles |-> IF f \in job.listed THEN world[f].ctime ELSE 0]
         \in [RuntimeFiles -> Nat]
  BY <1>3
<1>5. job' \in RunnerType /\ loaded' \subseteq RuntimeFiles \X Bytes
  BY <1>1, <1>4, <1>0 DEF RunnerType, RunnerPcs, RuntimeTyped
<1>6. NodesAreKnown'
  <2>1. ~IsEngine /\ job.listed = Present \ {"engine"}
        /\ \A f \in Imported : job.digest[f] = NoBytes
    BY <1>0, <1>1 DEF NodesAreKnown, Binding
  <2>2. \A f \in Imported \ job.listed : world[f].bytes = NoBytes
    BY <2>1 DEF Imported, Present
  <2>3. \A f \in job.listed : job'.seen[f] <= world'[f].ctime
    BY <1>1, <1>2, <1>3, <1>0 DEF RunnerType
  <2>4. \A f \in Imported : f \notin job'.listed => world'[f].bytes = job'.digest[f]
    BY <2>1, <2>2, <1>1, <1>2
  <2> QED
    BY <2>1, <2>3, <2>4, <1>1, <1>2 DEF NodesAreKnown, Binding, Held, IsEngine
<1>7. LoadedIsKnown'
  BY <1>2 DEF LoadedIsKnown
<1> QED
  BY <1>1, <1>5, <1>6, <1>7, RunnerGoesOn

LEMMA RunnerHashes == ASSUME RuntimeInvariant, HashNodes PROVE RuntimeInvariant'
<1>0. RuntimeTyped /\ NodesAreKnown /\ LoadedIsKnown /\ job \in RunnerType
  BY DEF RuntimeInvariant, RuntimeTyped
<1>a. job.digest \in Identity /\ \A f \in RuntimeFiles : world[f].bytes \in Bytes
  BY <1>0 DEF RunnerType, RuntimeTyped
<1> DEFINE d == [f \in RuntimeFiles |-> IF f \in job.listed \ {"interpreter"}
                                        THEN world[f].bytes ELSE job.digest[f]]
<1>1. /\ UNCHANGED <<world, directory, head, changes, receipts, loaded>>
      /\ job.pc = "hash" /\ job' = [job EXCEPT !.pc = "bind", !.digest = d]
  BY <1>0 DEF HashNodes, Rest, Disk, RunnerType
<1>2. /\ job'.pc = "bind" /\ job'.kind = job.kind /\ job'.listed = job.listed
      /\ job'.digest = d /\ job'.directory = job.directory /\ job'.seen = job.seen
  BY <1>1, <1>0 DEF RunnerType
<1>3. d \in Identity
  BY <1>a DEF Identity
<1>4. job' \in RunnerType /\ loaded' \subseteq RuntimeFiles \X Bytes
  <2> HIDE DEF d
  <2> QED
    BY <1>1, <1>3, <1>0 DEF RunnerType, RunnerPcs, RuntimeTyped
<1>5. NodesAreKnown'
  <2>1. /\ ~IsEngine /\ job.directory <= directory
        /\ \A f \in job.listed : job.seen[f] <= world[f].ctime
        /\ \A f \in Imported : job.digest[f] = NoBytes
        /\ \A f \in Imported : IsMoved(f) \/ f \in job.listed
                                          \/ world[f].bytes = job.digest[f]
    BY <1>0, <1>1 DEF NodesAreKnown, Binding, Held
  <2>2. \A f \in Imported : IsMoved(f) \/ world[f].bytes = d[f]
    BY <2>1 DEF Imported
  <2>3. \A f \in Imported \ job.listed : d[f] = NoBytes
    BY <2>1 DEF Imported
  <2>4. \A f \in Imported : IsMoved(f)' <=> IsMoved(f)
    BY <1>1, <1>2 DEF IsMoved
  <2> HIDE DEF d
  <2> QED
    BY <2>1, <2>2, <2>3, <2>4, <1>1, <1>2 DEF NodesAreKnown, Binding, Held, IsEngine
<1>6. LoadedIsKnown'
  BY <1>2 DEF LoadedIsKnown
<1> QED
  BY <1>1, <1>4, <1>5, <1>6, RunnerGoesOn

\* Nothing that is held has moved when the metadata are what they were.
LEMMA HeldIsStill ==
  ASSUME RuntimeInvariant, NodesHold, NEW f \in RuntimeFiles
  PROVE  ~IsMoved(f)
<1>1. job.directory \in Nat /\ job.seen[f] \in Nat /\ world[f].ctime \in Nat
  BY DEF RuntimeInvariant, RuntimeTyped, RunnerType
<1> QED
  BY <1>1 DEF NodesHold, IsMoved

LEMMA RunnerLaunches ==
  ASSUME RuntimeInvariant, BindRuntime \/ CopyExecutable \/ LaunchCommand
  PROVE  RuntimeInvariant'
<1> USE DEF Rest, Disk
<1>0. RuntimeTyped /\ NodesAreKnown /\ LoadedIsKnown /\ job \in RunnerType
  BY DEF RuntimeInvariant, RuntimeTyped
<1>1. ASSUME BindRuntime PROVE RuntimeInvariant'
  <2>1. /\ UNCHANGED <<world, directory, head, changes, receipts, loaded>>
        /\ job.pc = "bind" /\ job' = [job EXCEPT !.pc = "copy"]
    BY <1>1 DEF BindRuntime, Advance
  <2>2. job' \in RunnerType /\ loaded' \subseteq RuntimeFiles \X Bytes
    BY <2>1, <1>0 DEF RunnerType, RunnerPcs, RuntimeTyped
  <2>3. /\ job'.pc = "copy" /\ job'.kind = job.kind /\ job'.listed = job.listed
        /\ job'.digest = job.digest /\ job'.directory = job.directory
        /\ job'.seen = job.seen
    BY <2>1, <1>0 DEF RunnerType
  <2>4. NodesAreKnown' /\ LoadedIsKnown'
    BY <2>1, <2>3, <1>0 DEF NodesAreKnown, LoadedIsKnown, IsMoved, Binding, Held, IsEngine
  <2> QED
    BY <2>1, <2>2, <2>4, RunnerGoesOn
<1>2. ASSUME CopyExecutable PROVE RuntimeInvariant'
  <2>0. /\ Executable \in RuntimeFiles /\ world[Executable].ctime \in Nat
        /\ world[Executable].bytes \in Bytes /\ Executable \in {"engine", "interpreter"}
        /\ job.seen \in [RuntimeFiles -> Nat]
    <3>1. Executable \in {"engine", "interpreter"} /\ Executable \in RuntimeFiles
      BY DEF Executable, RuntimeFiles
    <3> QED
    BY <1>0, <3>1 DEF RuntimeTyped, RunnerType
  <2>1. /\ UNCHANGED <<world, directory, head, changes, receipts, loaded>>
        /\ job.pc = "copy" /\ world[Executable].bytes = Expected
        /\ job' = [job EXCEPT !.pc = "ready", !.copy = world[Executable].bytes,
                  !.seen[Executable] = world[Executable].ctime]
    BY <1>2 DEF CopyExecutable
  <2>2. job' \in RunnerType /\ loaded' \subseteq RuntimeFiles \X Bytes
    BY <2>0, <2>1, <1>0 DEF RunnerType, RunnerPcs, RuntimeTyped
  <2>3. /\ job'.pc = "ready" /\ job'.kind = job.kind /\ job'.listed = job.listed
        /\ job'.digest = job.digest /\ job'.directory = job.directory
        /\ job'.copy = world[Executable].bytes
        /\ job'.seen = [job.seen EXCEPT ![Executable] = world[Executable].ctime]
    BY <2>1, <1>0 DEF RunnerType
  <2>4. Expected' = Expected /\ (IsEngine' <=> IsEngine)
    BY <2>3 DEF Expected, IsEngine
  <2>5. \A f \in Imported : /\ IsMoved(f)' <=> IsMoved(f)
                            /\ world'[f] = world[f] /\ job'.digest[f] = job.digest[f]
    BY <2>0, <2>1, <2>3 DEF IsMoved, Imported
  <2>6. NodesAreKnown'
    <3> SUFFICES ASSUME ~IsEngine
                 PROVE  /\ job'.directory <= directory'
                        /\ \A f \in job'.listed : job'.seen[f] <= world'[f].ctime
                        /\ \A f \in Imported :
                              IsMoved(f)' \/ world'[f].bytes = job'.digest[f]
                        /\ \A f \in Imported \ job'.listed : job'.digest[f] = NoBytes
      BY <2>3, <2>4 DEF NodesAreKnown, Binding
    <3>1. /\ job.directory <= directory
          /\ \A f \in job.listed : job.seen[f] <= world[f].ctime
          /\ \A f \in Imported : IsMoved(f) \/ world[f].bytes = job.digest[f]
          /\ \A f \in Imported \ job.listed : job.digest[f] = NoBytes
      BY <1>0, <2>1 DEF NodesAreKnown, Held
    <3>2. \A f \in job.listed : job'.seen[f] <= world'[f].ctime
      <4> TAKE f \in job.listed
      <4>1. f \in RuntimeFiles /\ world[f].ctime \in Nat
        BY <1>0 DEF RunnerType, RuntimeTyped
      <4> QED
        BY <2>0, <2>1, <2>3, <3>1, <4>1
    <3> QED
      BY <2>1, <2>3, <2>5, <3>1, <3>2
  <2>7. LoadedIsKnown'
    BY <2>1, <2>3, <2>4 DEF LoadedIsKnown
  <2> QED
    BY <2>1, <2>2, <2>6, <2>7, RunnerGoesOn
<1>3. ASSUME LaunchCommand PROVE RuntimeInvariant'
  <2>1. /\ UNCHANGED <<world, directory, head, changes, receipts>>
        /\ job.pc = "ready" /\ job' = [job EXCEPT !.pc = "started"]
        /\ loaded' = {<<Executable, job.copy>>}
    BY <1>3 DEF LaunchCommand, Advance
  <2>2. job' \in RunnerType /\ loaded' \subseteq RuntimeFiles \X Bytes
    BY <2>1, <1>0 DEF RunnerType, RunnerPcs, Executable, RuntimeFiles
  <2>3. /\ job'.pc = "started" /\ job'.kind = job.kind /\ job'.listed = job.listed
        /\ job'.digest = job.digest /\ job'.directory = job.directory
        /\ job'.seen = job.seen /\ job'.copy = job.copy
    BY <2>1, <1>0 DEF RunnerType
  <2>4. job.copy = Expected
    BY <2>1, <1>0 DEF LoadedIsKnown
  <2>5. NodesAreKnown'
    BY <2>1, <2>3, <1>0 DEF NodesAreKnown, IsMoved, Binding, Held, IsEngine
  <2>6. LoadedIsKnown'
    BY <2>1, <2>3, <2>4 DEF LoadedIsKnown, Expected, Executable, IsEngine
  <2> QED
    BY <2>1, <2>2, <2>5, <2>6, RunnerGoesOn
<1> QED
  BY <1>1, <1>2, <1>3

LEMMA RunnerChecks ==
  ASSUME RuntimeInvariant, CheckStarted \/ CheckEnd
  PROVE  RuntimeInvariant'
<1>0. RuntimeTyped /\ NodesAreKnown /\ LoadedIsKnown /\ job \in RunnerType
  BY DEF RuntimeInvariant, RuntimeTyped
<1>1. PICK pc \in {"running", "publish"} :
        /\ UNCHANGED <<world, directory, head, changes, receipts, loaded>>
        /\ job.pc \in {"started", "running"} /\ LaunchGuardHolds
        /\ job' = [job EXCEPT !.pc = pc]
  BY DEF CheckStarted, CheckEnd, Advance, Rest, Disk
<1>2. job' \in RunnerType /\ loaded' \subseteq RuntimeFiles \X Bytes
  BY <1>1, <1>0 DEF RunnerType, RunnerPcs, RuntimeTyped
<1>3. /\ job'.pc = pc /\ job'.kind = job.kind /\ job'.listed = job.listed
      /\ job'.digest = job.digest /\ job'.directory = job.directory
      /\ job'.seen = job.seen /\ job'.copy = job.copy
  BY <1>1, <1>0 DEF RunnerType
<1>4. NodesAreKnown'
  BY <1>1, <1>3, <1>0 DEF NodesAreKnown, IsMoved, Binding, Held, IsEngine
<1>5. LoadedIsKnown'
  <2>1. ~IsEngine => \A l \in loaded : l[2] = job.digest[l[1]]
    <3> SUFFICES ASSUME ~IsEngine, NEW l \in loaded PROVE l[2] = job.digest[l[1]]
      OBVIOUS
    <3>1. NodesHold /\ l[1] \in RuntimeFiles
      BY <1>0, <1>1 DEF LaunchGuardHolds, RuntimeTyped
    <3>2. ~IsMoved(l[1])
      BY <3>1, HeldIsStill
    <3> QED
      BY <3>2, <1>0, <1>1 DEF LoadedIsKnown
  <2>2. IsEngine => \A l \in loaded : l = <<"engine", Pinned>>
    BY <1>0, <1>1 DEF LoadedIsKnown
  <2>3. job.copy = Expected
    BY <1>0, <1>1 DEF LoadedIsKnown
  <2> QED
    BY <2>1, <2>2, <2>3, <1>1, <1>3 DEF LoadedIsKnown, IsEngine, Expected
<1> QED
  BY <1>1, <1>2, <1>4, <1>5, RunnerGoesOn

\* What the child finds is what was hashed, or the nodes show it.
LEMMA ChildLoads ==
  ASSUME RuntimeInvariant, NEW f \in RuntimeFiles, Load(f)
  PROVE  RuntimeInvariant'
<1>0. RuntimeTyped /\ NodesAreKnown /\ LoadedIsKnown /\ job \in RunnerType
  BY DEF RuntimeInvariant, RuntimeTyped
<1>1. /\ UNCHANGED <<world, directory, head, changes, receipts, job>>
      /\ job.pc \in {"started", "running"} /\ ~IsEngine /\ f \in Imported
      /\ loaded' = loaded \union {<<f, world[f].bytes>>}
  BY DEF Load, Rest, Disk, Imported
<1>2. job' \in RunnerType /\ loaded' \subseteq RuntimeFiles \X Bytes
  BY <1>1, <1>0 DEF RuntimeTyped
<1>3. NodesAreKnown'
  BY <1>1, <1>0 DEF NodesAreKnown, IsMoved, IsEngine, Present
<1>4. IsMoved(f) \/ world[f].bytes = job.digest[f]
  BY <1>0, <1>1 DEF NodesAreKnown, Held
<1>5. \A l \in loaded' : l[2] = job.digest[l[1]] \/ (l[1] \in Imported /\ IsMoved(l[1]))
  BY <1>0, <1>1, <1>4 DEF LoadedIsKnown
<1>6. \A l : IsMoved(l)' <=> IsMoved(l)
  BY <1>1 DEF IsMoved
<1>7. LoadedIsKnown'
  BY <1>0, <1>1, <1>5, <1>6 DEF LoadedIsKnown, IsEngine, Expected
<1> QED
  BY <1>1, <1>2, <1>3, <1>7, RunnerGoesOn

\* What other programs do to a file, whichever of them it is.
FileChanges(f) ==
  /\ UNCHANGED <<job, loaded, receipts>> /\ job.pc # "open"
  /\ changes' = changes + 1 /\ head' \in Nat
  /\ world' = [world EXCEPT ![f] = world'[f]]
  /\ world'[f] \in [bytes : Bytes, ctime : {changes + 1}]
  /\ directory' \in {directory, changes + 1}
  /\ f # "extra" => world'[f].bytes # NoBytes
  /\ world[f].bytes = NoBytes => directory' = changes + 1

LEMMA WhatIsHeldMoves ==
  ASSUME RuntimeInvariant, NEW f \in RuntimeFiles, FileChanges(f)
  PROVE  RuntimeInvariant'
<1>0. RuntimeTyped /\ FilesAreDated /\ NodesAreKnown /\ LoadedIsKnown
  BY DEF RuntimeInvariant
<1>1. /\ job' = job /\ loaded' = loaded /\ receipts' = receipts /\ job.pc # "open"
      /\ changes' = changes + 1 /\ changes \in Nat /\ directory \in Nat
      /\ directory <= changes /\ directory' \in {directory, changes + 1}
      /\ job \in RunnerType
      /\ \A g \in RuntimeFiles : /\ world[g] \in [bytes : Bytes, ctime : Nat]
                                 /\ world[g].ctime <= changes
                                 /\ g # f => world'[g] = world[g]
      /\ world'[f].bytes \in Bytes /\ world'[f].ctime = changes + 1
  <2>1. world \in [RuntimeFiles -> [bytes : Bytes, ctime : Nat]]
    BY <1>0 DEF RuntimeTyped
  <2>2. \A g \in RuntimeFiles : g # f => world'[g] = world[g]
    <3> TAKE g \in RuntimeFiles
    <3> HAVE g # f
    <3>1. world' = [world EXCEPT ![f] = world'[f]]
      BY DEF FileChanges
    <3>2. \A x : [world EXCEPT ![f] = x][g] = world[g]
      BY <2>1
    <3> QED
      BY <3>1, <3>2
  <2> QED
    BY <1>0, <2>1, <2>2 DEF FileChanges, RuntimeTyped, FilesAreDated
<1>2. RuntimeTyped'
  <2>1. world' \in [RuntimeFiles -> [bytes : Bytes, ctime : Nat]]
    <3>1. world'[f] \in [bytes : Bytes, ctime : Nat]
      BY <1>1 DEF FileChanges
    <3>2. world \in [RuntimeFiles -> [bytes : Bytes, ctime : Nat]]
      BY <1>0 DEF RuntimeTyped
    <3>3. \A x \in [bytes : Bytes, ctime : Nat] :
             [world EXCEPT ![f] = x] \in [RuntimeFiles -> [bytes : Bytes, ctime : Nat]]
      BY <3>2
    <3>4. world' = [world EXCEPT ![f] = world'[f]]
      BY DEF FileChanges
    <3> QED
      BY <3>1, <3>3, <3>4
  <2> QED
    BY <2>1, <1>0, <1>1 DEF RuntimeTyped, FileChanges
<1>3. FilesAreDated'
  BY <1>0, <1>1 DEF FilesAreDated, FileChanges
<1>4. ReceiptIsWhatRan'
  BY <1>1 DEF RuntimeInvariant, ReceiptIsWhatRan
<1>5. ASSUME job.pc \in Held, ~IsEngine
      PROVE  /\ job.directory <= directory'
             /\ \A g \in job.listed : job.seen[g] <= world'[g].ctime
             /\ \A g \in RuntimeFiles : IsMoved(g) => IsMoved(g)'
             /\ \A g \in Imported \ {f} :
                   world[g].bytes = job.digest[g] => world'[g].bytes = job.digest[g]
             /\ f \in job.listed => IsMoved(f)'
             /\ f \notin job.listed /\ world[f].bytes = NoBytes => IsMoved(f)'
  <2>1. /\ job.directory <= directory /\ job.directory \in Nat
        /\ \A g \in job.listed : job.seen[g] <= world[g].ctime
        /\ \A g \in job.listed : g \in RuntimeFiles /\ job.seen[g] \in Nat
    BY <1>0, <1>1, <1>5 DEF NodesAreKnown, RunnerType
  <2>2. job.directory <= directory'
    BY <1>1, <2>1
  <2>3. \A g \in job.listed : job.seen[g] <= world'[g].ctime
    <3> TAKE g \in job.listed
    <3>1. world[g].ctime \in Nat
      BY <1>1, <2>1
    <3> QED
      BY <1>1, <2>1, <3>1
  <2>4. \A g \in RuntimeFiles : IsMoved(g) => IsMoved(g)'
    <3> TAKE g \in RuntimeFiles
    <3>1. world[g].ctime \in Nat
      BY <1>1
    <3> QED
      BY <1>1, <2>1, <3>1 DEF IsMoved
  <2>5. f \in job.listed => IsMoved(f)'
    <3>1. world[f].ctime \in Nat /\ world[f].ctime <= changes
      BY <1>1
    <3> QED
      BY <1>1, <2>1, <3>1 DEF IsMoved
  <2>6. f \notin job.listed /\ world[f].bytes = NoBytes => IsMoved(f)'
    BY <1>1, <2>1 DEF IsMoved, FileChanges
  <2> QED
    BY <1>1, <2>2, <2>3, <2>4, <2>5, <2>6 DEF Imported
<1>6. NodesAreKnown'
  <2>1. (IsEngine' <=> IsEngine) /\ job.pc # "open"
    BY <1>1 DEF IsEngine
  <2>2. ASSUME job.pc \in Held, ~IsEngine, NEW g \in Imported
        PROVE  IsMoved(g)' \/ (job.pc = "hash" /\ g \in job.listed)
                 \/ world'[g].bytes = job.digest[g]
    <3>1. /\ IsMoved(g) \/ (job.pc = "hash" /\ g \in job.listed)
                 \/ world[g].bytes = job.digest[g]
          /\ g \notin job.listed => job.digest[g] = NoBytes
          /\ g \in RuntimeFiles
      BY <1>0, <2>2 DEF NodesAreKnown, Imported
    <3> QED
      BY <3>1, <1>5, <2>2
  <2>3. ASSUME job.pc \in Held, ~IsEngine
        PROVE  \A g \in Imported \ job.listed : job.digest[g] = NoBytes
    BY <1>0, <2>3 DEF NodesAreKnown
  <2>4. /\ job.pc \in Binding => ~IsEngine
        /\ job.pc \in Binding \ {"bind"} => \A g \in Imported : job.digest[g] = NoBytes
    BY <1>0 DEF NodesAreKnown
  <2> QED
    BY <1>1, <1>5, <2>1, <2>2, <2>3, <2>4 DEF NodesAreKnown
<1>7. LoadedIsKnown'
  <2>1. (IsEngine' <=> IsEngine) /\ Expected' = Expected
    BY <1>1 DEF IsEngine, Expected
  <2>2. Imported \subseteq RuntimeFiles
    BY DEF Imported
  <2> QED
    BY <1>0, <1>1, <1>5, <2>1, <2>2 DEF LoadedIsKnown, Held
<1> QED
  BY <1>2, <1>3, <1>4, <1>6, <1>7 DEF RuntimeInvariant

\* Changes outside the window between a listing and its descriptors.
LEMMA OthersChange ==
  ASSUME ~Unlucky, RuntimeInvariant,
         (\E f \in RuntimeFiles : Change(f)) \/ AddOrRemove \/ Checkout
  PROVE  RuntimeInvariant'
<1>0. RuntimeTyped /\ FilesAreDated /\ NodesAreKnown /\ LoadedIsKnown
  BY DEF RuntimeInvariant
<1>1. /\ UNCHANGED <<job, loaded, receipts>> /\ changes' = changes + 1
      /\ job.pc # "open" /\ changes \in Nat /\ head \in Nat
  BY <1>0 DEF Change, AddOrRemove, Checkout, Changes, Disk, RuntimeTyped
<1>2. ASSUME NEW f \in RuntimeFiles, Change(f) PROVE RuntimeInvariant'
  <2>1. /\ world[f].bytes # NoBytes /\ head' = head
        /\ world' = [world EXCEPT ![f] = [bytes |-> 3 - world[f].bytes,
                                          ctime |-> changes + 1]]
        /\ directory' \in {directory, changes + 1}
    BY <1>2 DEF Change
  <2>2. world \in [RuntimeFiles -> [bytes : Bytes, ctime : Nat]]
    BY <1>0 DEF RuntimeTyped
  <2>3. world'[f] = [bytes |-> 3 - world[f].bytes, ctime |-> changes + 1]
    BY <2>1, <2>2
  <2>4. 3 - world[f].bytes \in {1, 2}
    <3>1. world[f].bytes \in 0..2 /\ world[f].bytes # 0
      BY <2>1, <2>2 DEF Bytes, NoBytes
    <3> QED
      BY <3>1
  <2>5. FileChanges(f)
    <3>1. world' = [world EXCEPT ![f] = world'[f]]
      BY <2>1, <2>3
    <3>2. /\ world'[f] \in [bytes : Bytes, ctime : {changes + 1}]
          /\ world'[f].bytes # NoBytes
      BY <2>3, <2>4 DEF Bytes, NoBytes
    <3> QED
      BY <1>1, <2>1, <3>1, <3>2 DEF FileChanges
  <2> QED
    BY <2>5, WhatIsHeldMoves
<1>3. ASSUME AddOrRemove PROVE RuntimeInvariant'
  <2>1. /\ head' = head /\ directory' = changes + 1
        /\ world' = [world EXCEPT !["extra"] =
               [bytes |-> IF world["extra"].bytes = NoBytes THEN 1 ELSE NoBytes,
                ctime |-> changes + 1]]
    BY <1>3 DEF AddOrRemove
  <2>2. world \in [RuntimeFiles -> [bytes : Bytes, ctime : Nat]] /\ "extra" \in RuntimeFiles
    BY <1>0 DEF RuntimeTyped, RuntimeFiles, RuntimeTree
  <2>3. world'["extra"] = [bytes |-> IF world["extra"].bytes = NoBytes THEN 1 ELSE NoBytes,
                           ctime |-> changes + 1]
    BY <2>1, <2>2
  <2>4. FileChanges("extra")
    <3>1. world' = [world EXCEPT !["extra"] = world'["extra"]]
      BY <2>1, <2>3
    <3>2. world'["extra"] \in [bytes : Bytes, ctime : {changes + 1}]
      BY <2>3 DEF Bytes, NoBytes
    <3> QED
      BY <1>1, <2>1, <3>1, <3>2 DEF FileChanges
  <2> QED
    BY <2>2, <2>4, WhatIsHeldMoves
<1>4. ASSUME Checkout PROVE RuntimeInvariant'
  <2>1. UNCHANGED <<world, directory>> /\ head' \in Nat
    BY <1>4 DEF Checkout, Commits
  <2>2. RuntimeTyped' /\ ReceiptIsWhatRan'
    BY <1>0, <1>1, <2>1 DEF RuntimeTyped, RuntimeInvariant, ReceiptIsWhatRan
  <2>3. FilesAreDated'
    <3>1. directory \in Nat /\ \A f \in RuntimeFiles : world[f].ctime \in Nat
      BY <1>0 DEF RuntimeTyped
    <3> QED
      BY <1>0, <1>1, <2>1, <3>1 DEF FilesAreDated
  <2>4. /\ IsEngine' <=> IsEngine
        /\ Present' = Present /\ Expected' = Expected
        /\ \A f : IsMoved(f)' <=> IsMoved(f)
    BY <1>1, <2>1 DEF IsEngine, Present, Expected, IsMoved
  <2>5. NodesAreKnown' /\ LoadedIsKnown'
    BY <1>0, <1>1, <2>1, <2>4 DEF NodesAreKnown, LoadedIsKnown
  <2> QED
    BY <2>2, <2>3, <2>5 DEF RuntimeInvariant
<1> QED
  BY <1>2, <1>3, <1>4

\* ReceiptIsWhatRan, for any number of changes by other programs in any order
\* but one: none falls between the listing of a directory (os.walk) and the
\* opening of its descriptor (_open_node), which the guards cannot see.
THEOREM CommandReceipts == ASSUME ~Unlucky PROVE RuntimeSpec => []ReceiptIsWhatRan
<1>1. RuntimeInit => RuntimeInvariant
  BY RuntimeStarts
<1>2. RuntimeInvariant /\ [RuntimeNext]_runtimeVars => RuntimeInvariant'
  <2> SUFFICES ASSUME RuntimeInvariant, [RuntimeNext]_runtimeVars PROVE RuntimeInvariant'
    OBVIOUS
  <2>1. CASE \/ \E k \in Kinds : BeginCommand(k)
             \/ SnapshotSource \/ HashInterpreter \/ ListTree
    BY <2>1, RunnerBinds
  <2>2. CASE OpenNodes
    BY <2>2, RunnerOpens
  <2>3. CASE HashNodes
    BY <2>3, RunnerHashes
  <2>4. CASE BindRuntime \/ CopyExecutable \/ LaunchCommand
    BY <2>4, RunnerLaunches
  <2>5. CASE CheckStarted \/ CheckEnd
    BY <2>5, RunnerChecks
  <2>6. CASE ReuseReceipt \/ Publish \/ Abandon
    BY <2>6, RunnerDone
  <2>7. CASE \E f \in RuntimeFiles : Load(f)
    BY <2>7, ChildLoads
  <2>8. CASE (\E f \in RuntimeFiles : Change(f)) \/ AddOrRemove \/ Checkout
    BY <2>8, OthersChange
  <2>9. CASE UNCHANGED runtimeVars
    BY <2>9 DEF runtimeVars, RuntimeInvariant, RuntimeTyped, FilesAreDated, NodesAreKnown,
                LoadedIsKnown, ReceiptIsWhatRan, IsEngine, Present, Expected, IsMoved
  <2> QED
    BY <2>1, <2>2, <2>3, <2>4, <2>5, <2>6, <2>7, <2>8, <2>9 DEF RuntimeNext
<1>3. RuntimeInvariant => ReceiptIsWhatRan
  BY DEF RuntimeInvariant
<1> QED
  BY <1>1, <1>2, <1>3, PTL DEF RuntimeSpec
-----------------------------------------------------------------------------
(* TeacherEngine: the inductive invariant                                 *)

ClientPcs == {"idle", "attempt", "start", "spawn", "verify", "newgame", "usi", "isready",
              "search", "stopping", "closing"}
ClientType == [pc : ClientPcs, request : Nat, attempts : Nat, started : Nat,
               error : {"none", "integrity", "protocol", "process", "timeout",
                        "memory_limit"}]
TeacherCommands == [is : {"usi", "isready", "stop"}] \union [is : {"go"}, of : Nat]
TeacherLines == [is : {"usi", "isready", "wrong"}] \union [is : {"bestmove"}, of : Nat]

TeacherTyped ==
  /\ client \in ClientType
  /\ inbox \in Seq(TeacherCommands) /\ searching \in Nat /\ lines \in Seq(TeacherLines)
  /\ excess \in BOOLEAN
  /\ outcome = [r \in Requests |-> outcome[r]]
  /\ client.request \in IF ClientAt("idle") THEN Requests \union {0} ELSE Requests

\* The process held is the last one started, from the approved files; no other
\* process runs.
OneTeacher ==
  /\ \/ teacher = NoTeacher
     \/ teacher = [number |-> client.started, bytes |-> "approved"] /\ client.started # 0
  /\ alive \subseteq {teacher.number} /\ 0 \notin alive
  /\ ClientAt("spawn") => teacher = NoTeacher /\ snapshot = "approved"
  /\ client.pc \in {"verify", "newgame", "usi", "isready", "search"} => teacher # NoTeacher

Question == IF ClientAt("search") THEN [is |-> "go", of |-> client.request]
                                  ELSE [is |-> client.pc]
Answer == IF ClientAt("search") THEN [is |-> "bestmove", of |-> client.request]
                                ELSE [is |-> client.pc]

\* Lines nobody asked for; and one answer among them.
AreWrong(ls) == \A i \in DOMAIN ls : ls[i].is = "wrong"
HasAnswer(ls, answer) ==
  \E i \in DOMAIN ls : ls[i] = answer /\ \A j \in DOMAIN ls \ {i} : ls[j].is = "wrong"

\* Between a question and its answer the teacher has the one or gives the other; at any
\* other time it has nothing to answer.  What a late search leaves behind is cleared.
OneQuestion ==
  /\ ClientWaits =>
        \/ inbox = <<Question>> /\ searching = 0 /\ AreWrong(lines)
        \/ inbox = <<>> /\ searching = client.request /\ ClientAt("search")
             /\ AreWrong(lines)
        \/ inbox = <<>> /\ searching = 0 /\ HasAnswer(lines, Answer)
  /\ client.pc \notin {"usi", "isready", "search", "stopping", "closing"} =>
        inbox = <<>> /\ searching = 0 /\ AreWrong(lines)

\* A search the memory thread has ended is on its way to be reported.
KillIsReported ==
  /\ \A r \in Requests : r > client.request \/ (r = client.request /\ ~ClientAt("idle"))
                            => outcome[r] = Pending
  /\ \A r \in killed : r \in Requests /\ r <= client.request
  /\ \A r \in killed : r # client.request \/ ClientAt("idle")
                          => outcome[r].is = "memory_limit"
  /\ client.request \in killed /\ ~ClientAt("idle") =>
        \/ ClientAt("search") /\ excess
        \/ ClientAt("closing") /\ client.error = "memory_limit"

TeacherInvariant == TeacherTyped /\ OneTeacher /\ OneQuestion /\ KillIsReported
                      /\ AnswersAreOwn
-----------------------------------------------------------------------------
(* TeacherEngine: lines                                                    *)

LEMMA WrongThenOne ==
  ASSUME NEW ls \in Seq(TeacherLines), NEW answer \in TeacherLines, AreWrong(ls)
  PROVE  HasAnswer(Append(ls, answer), answer)
<1>1. /\ DOMAIN Append(ls, answer) = 1..(Len(ls) + 1) /\ DOMAIN ls = 1..Len(ls)
      /\ Len(ls) \in Nat
      /\ Append(ls, answer)[Len(ls) + 1] = answer
      /\ \A j \in 1..Len(ls) : Append(ls, answer)[j] = ls[j]
  OBVIOUS
<1>2. \A j \in (1..(Len(ls) + 1)) \ {Len(ls) + 1} : Append(ls, answer)[j].is = "wrong"
  <2> TAKE j \in (1..(Len(ls) + 1)) \ {Len(ls) + 1}
  <2>1. j \in 1..Len(ls)
    BY <1>1
  <2> QED
    BY <1>1, <2>1 DEF AreWrong
<1>3. Len(ls) + 1 \in 1..(Len(ls) + 1)
  BY <1>1
<1> QED
  BY <1>1, <1>2, <1>3 DEF HasAnswer

LEMMA OneMoreIsWrong ==
  ASSUME NEW ls \in Seq(TeacherLines), NEW extra \in TeacherLines, extra.is = "wrong"
  PROVE  /\ AreWrong(ls) => AreWrong(Append(ls, extra))
         /\ \A a : HasAnswer(ls, a) => HasAnswer(Append(ls, extra), a)
<1>1. /\ DOMAIN Append(ls, extra) = 1..(Len(ls) + 1) /\ DOMAIN ls = 1..Len(ls)
      /\ Len(ls) \in Nat
      /\ Append(ls, extra)[Len(ls) + 1] = extra
      /\ \A j \in 1..Len(ls) : Append(ls, extra)[j] = ls[j]
  OBVIOUS
<1>2. \A j \in 1..(Len(ls) + 1) : j \in 1..Len(ls) \/ j = Len(ls) + 1
  BY <1>1
<1>3. AreWrong(ls) => AreWrong(Append(ls, extra))
  BY <1>1, <1>2 DEF AreWrong
<1>4. ASSUME NEW a, HasAnswer(ls, a) PROVE HasAnswer(Append(ls, extra), a)
  <2>1. PICK i \in 1..Len(ls) : ls[i] = a /\ \A j \in DOMAIN ls \ {i} : ls[j].is = "wrong"
    BY <1>1, <1>4 DEF HasAnswer
  <2>2. i \in 1..(Len(ls) + 1) /\ Append(ls, extra)[i] = a
    BY <1>1, <2>1
  <2>3. \A j \in (1..(Len(ls) + 1)) \ {i} : Append(ls, extra)[j].is = "wrong"
    BY <1>1, <1>2, <2>1
  <2> QED
    BY <1>1, <2>2, <2>3 DEF HasAnswer
<1> QED
  BY <1>3, <1>4

\* The answer once read, nothing is left that anybody asked for.
LEMMA AnswerIsFirst ==
  ASSUME NEW ls \in Seq(TeacherLines), ls # <<>>, Head(ls).is # "wrong",
         NEW a, AreWrong(ls) \/ HasAnswer(ls, a)
  PROVE  Head(ls) = a /\ AreWrong(Tail(ls))
<1>1. /\ DOMAIN ls = 1..Len(ls) /\ Len(ls) \in Nat /\ Len(ls) >= 1 /\ Head(ls) = ls[1]
      /\ DOMAIN Tail(ls) = 1..(Len(ls) - 1)
      /\ \A j \in 1..(Len(ls) - 1) : Tail(ls)[j] = ls[j + 1]
  OBVIOUS
<1>2. 1 \in DOMAIN ls
  BY <1>1
<1>3. PICK i \in DOMAIN ls : ls[i] = a /\ \A j \in DOMAIN ls \ {i} : ls[j].is = "wrong"
  BY <1>1, <1>2 DEF AreWrong, HasAnswer
<1>4. i = 1
  BY <1>1, <1>2, <1>3
<1>5. \A j \in 1..(Len(ls) - 1) : j + 1 \in DOMAIN ls \ {1}
  BY <1>1
<1> QED
  BY <1>1, <1>3, <1>4, <1>5 DEF AreWrong

-----------------------------------------------------------------------------
(* TeacherEngine: every step keeps the invariant                           *)

LEMMA TeacherStarts == TeacherInit => TeacherInvariant
<1> SUFFICES ASSUME TeacherInit PROVE TeacherInvariant
  OBVIOUS
<1>1. TeacherTyped
  <2>1. client \in ClientType /\ excess \in BOOLEAN /\ searching \in Nat
    BY DEF TeacherInit, ClientType, ClientPcs
  <2>2. inbox \in Seq(TeacherCommands) /\ lines \in Seq(TeacherLines)
    BY DEF TeacherInit
  <2>3. outcome = [r \in Requests |-> outcome[r]]
    BY DEF TeacherInit
  <2>4. client.request = 0 /\ ClientAt("idle")
    BY DEF TeacherInit, ClientAt
  <2> QED
    BY <2>1, <2>2, <2>3, <2>4 DEF TeacherTyped
<1>2. OneTeacher
  BY DEF TeacherInit, OneTeacher, NoTeacher, ClientAt
<1>3. OneQuestion
  BY DEF TeacherInit, OneQuestion, ClientWaits, AreWrong
<1>4. KillIsReported /\ AnswersAreOwn
  BY DEF TeacherInit, KillIsReported, AnswersAreOwn, ClientAt, Pending
<1> QED
  BY <1>1, <1>2, <1>3, <1>4 DEF TeacherInvariant

\* The teacher reads, answers and errs: only the pipes change.
LEMMA PipesMove ==
  ASSUME TeacherInvariant, UNCHANGED <<source, snapshot, teacher, alive, excess, client,
                                       outcome, killed>>,
         inbox' \in Seq(TeacherCommands), searching' \in Nat, lines' \in Seq(TeacherLines),
         OneQuestion'
  PROVE  TeacherInvariant'
<1>1. TeacherTyped'
  BY DEF TeacherInvariant, TeacherTyped, ClientAt
<1>2. OneTeacher' /\ KillIsReported' /\ AnswersAreOwn'
  BY DEF TeacherInvariant, OneTeacher, KillIsReported, AnswersAreOwn, ClientAt
<1> QED
  BY <1>1, <1>2 DEF TeacherInvariant

LEMMA TeacherTalks ==
  ASSUME TeacherInvariant, TeacherReads \/ TeacherAnswers \/ TeacherErrs
  PROVE  TeacherInvariant'
<1>0. TeacherTyped /\ OneQuestion /\ client \in ClientType
  BY DEF TeacherInvariant, TeacherTyped
<1>a. /\ inbox \in Seq(TeacherCommands) /\ searching \in Nat /\ lines \in Seq(TeacherLines)
      /\ client.request \in Nat
  BY <1>0 DEF TeacherTyped, ClientType
<1>b. ClientWaits => Answer \in TeacherLines
  BY <1>a DEF ClientWaits, Answer, ClientAt, TeacherLines
<1>1. ASSUME TeacherReads PROVE TeacherInvariant'
  <2>1. /\ UNCHANGED <<source, snapshot, teacher, alive, excess, client, outcome, killed>>
        /\ inbox # <<>> /\ inbox' = Tail(inbox)
    BY <1>1 DEF TeacherReads
  <2> DEFINE c == Head(inbox)
  <2>2. c \in TeacherCommands /\ inbox' \in Seq(TeacherCommands)
    BY <1>a, <2>1
  <2>3. /\ c.is \in {"usi", "isready", "go", "stop"}
        /\ c.is \in {"usi", "isready"} => lines' = Append(lines, [is |-> c.is])
                                          /\ searching' = searching
        /\ c.is = "go" => searching' = c.of /\ c.of \in Nat /\ lines' = lines
        /\ c.is = "stop" => /\ lines' = IF searching = 0 THEN lines
                                   ELSE Append(lines, [is |-> "bestmove", of |-> searching])
                            /\ searching' = 0
    <3>1. c.is \in {"usi", "isready", "go", "stop"} /\ (c.is = "go" => c.of \in Nat)
      BY <2>2 DEF TeacherCommands
    <3>2. CASE c.is \in {"usi", "isready"}
      BY <1>1, <3>1, <3>2 DEF TeacherReads, Reply
    <3>3. CASE c.is = "go"
      BY <1>1, <3>1, <3>3 DEF TeacherReads, Reply
    <3>4. CASE c.is = "stop"
      BY <1>1, <3>1, <3>4 DEF TeacherReads, Reply
    <3> QED
      BY <3>1, <3>2, <3>3, <3>4
  <2>4. lines' \in Seq(TeacherLines) /\ searching' \in Nat
    <3>1. /\ c.is \in {"usi", "isready"} => [is |-> c.is] \in TeacherLines
          /\ [is |-> "bestmove", of |-> searching] \in TeacherLines
      BY <1>a DEF TeacherLines
    <3>2. CASE c.is \in {"usi", "isready"}
      BY <1>a, <2>3, <3>1, <3>2
    <3>3. CASE c.is = "go"
      BY <1>a, <2>3, <3>3
    <3>4. CASE c.is = "stop"
      <4>1. 0 \in Nat /\ searching' = 0
        BY <2>3, <3>4
      <4>2. Append(lines, [is |-> "bestmove", of |-> searching]) \in Seq(TeacherLines)
        BY <1>a, <3>1
      <4>3. lines' = lines \/ lines' = Append(lines, [is |-> "bestmove", of |-> searching])
        BY <2>3, <3>4
      <4> QED
        BY <1>a, <4>1, <4>2, <4>3
    <3> QED
      BY <2>3, <3>2, <3>3, <3>4
  <2>5. OneQuestion'
    <3>1. ASSUME ClientWaits PROVE OneQuestion'
      <4>1. inbox = <<Question>> /\ searching = 0 /\ AreWrong(lines)
        BY <1>0, <2>1, <3>1 DEF OneQuestion
      <4>2. inbox' = <<>> /\ c = Question
        BY <2>1, <4>1
      <4>3. CASE ClientAt("search")
        <5>1. c.is = "go" /\ c.of = client.request
          BY <4>2, <4>3 DEF Question
        <5> QED
          BY <2>1, <2>3, <3>1, <4>1, <4>2, <4>3, <5>1
             DEF OneQuestion, ClientWaits, ClientAt
      <4>4. CASE ~ClientAt("search")
        <5>1. c.is = client.pc /\ c.is \in {"usi", "isready"} /\ Answer = [is |-> c.is]
          BY <4>2, <4>4, <3>1 DEF Question, Answer, ClientWaits, ClientAt
        <5>2. lines' = Append(lines, Answer) /\ searching' = 0
          BY <2>3, <5>1, <4>1
        <5>3. HasAnswer(lines', Answer)
          BY <1>a, <1>b, <3>1, <4>1, <5>2, WrongThenOne
        <5>4. HasAnswer(lines', Answer')
          BY <2>1, <5>3 DEF Answer, ClientAt
        <5> QED
          BY <2>1, <3>1, <4>2, <5>2, <5>4 DEF OneQuestion, ClientWaits
      <4> QED
        BY <4>3, <4>4
    <3>2. ASSUME ~ClientWaits PROVE OneQuestion'
      BY <1>0, <2>1, <3>2 DEF OneQuestion, ClientWaits
    <3> QED
      BY <3>1, <3>2
  <2> QED
    BY <2>1, <2>2, <2>4, <2>5, PipesMove
<1>2. ASSUME TeacherAnswers PROVE TeacherInvariant'
  <2>1. /\ UNCHANGED <<source, snapshot, teacher, alive, excess, client, outcome, killed,
                       inbox>>
        /\ searching # 0 /\ searching' = 0
        /\ lines' = Append(lines, [is |-> "bestmove", of |-> searching])
    BY <1>2 DEF TeacherAnswers, Reply
  <2>2. lines' \in Seq(TeacherLines) /\ searching' \in Nat /\ inbox' \in Seq(TeacherCommands)
    BY <1>a, <2>1 DEF TeacherLines
  <2>3. OneQuestion'
    <3>1. ASSUME ClientWaits PROVE OneQuestion'
      <4>1. inbox = <<>> /\ searching = client.request /\ ClientAt("search") /\ AreWrong(lines)
        BY <1>0, <2>1, <3>1 DEF OneQuestion
      <4>2. lines' = Append(lines, Answer)
        BY <2>1, <4>1 DEF Answer
      <4>3. HasAnswer(lines', Answer)
        BY <1>a, <1>b, <3>1, <4>1, <4>2, WrongThenOne
      <4>4. HasAnswer(lines', Answer')
        BY <2>1, <4>3 DEF Answer, ClientAt
      <4> QED
        BY <2>1, <3>1, <4>1, <4>4 DEF OneQuestion, ClientWaits
    <3>2. ASSUME ~ClientWaits PROVE OneQuestion'
      BY <1>0, <2>1, <3>2 DEF OneQuestion, ClientWaits
    <3> QED
      BY <3>1, <3>2
  <2> QED
    BY <2>1, <2>2, <2>3, PipesMove
<1>3. ASSUME TeacherErrs PROVE TeacherInvariant'
  <2>1. /\ UNCHANGED <<source, snapshot, teacher, alive, excess, client, outcome, killed,
                       inbox, searching>>
        /\ lines' = Append(lines, [is |-> "wrong"])
    BY <1>3 DEF TeacherErrs, Reply
  <2>2. [is |-> "wrong"] \in TeacherLines
    BY DEF TeacherLines
  <2>3. lines' \in Seq(TeacherLines)
    BY <1>a, <2>1, <2>2
  <2>4. /\ AreWrong(lines) => AreWrong(lines')
        /\ \A a : HasAnswer(lines, a) => HasAnswer(lines', a)
    BY <1>a, <2>1, <2>2, OneMoreIsWrong
  <2>5. Question' = Question /\ Answer' = Answer /\ (ClientWaits' <=> ClientWaits)
        /\ (ClientAt("search")' <=> ClientAt("search"))
    BY <2>1 DEF Question, Answer, ClientWaits, ClientAt
  <2>6. OneQuestion'
    BY <1>0, <2>1, <2>4, <2>5 DEF OneQuestion
  <2> QED
    BY <1>a, <2>1, <2>3, <2>6, PipesMove
<1> QED
  BY <1>1, <1>2, <1>3

\* Deaths, replaced files and memory: the client is where it was.
LEMMA WorldMoves ==
  ASSUME TeacherInvariant, TeacherDies \/ ReplaceFiles \/ Exceed \/ KillForExcess
  PROVE  TeacherInvariant'
<1>1. /\ UNCHANGED <<snapshot, teacher, inbox, searching, lines, client, outcome>>
      /\ alive' \subseteq alive /\ (excess => excess') /\ excess' \in BOOLEAN
      /\ killed' = killed \/ (killed' = killed \union {client.request} /\ ClientAt("search")
                              /\ excess)
  BY DEF TeacherDies, ReplaceFiles, Exceed, KillForExcess, KillFor, process,
         TeacherInvariant, TeacherTyped
<1>2. TeacherTyped'
  BY <1>1 DEF TeacherInvariant, TeacherTyped, ClientAt
<1>3. OneTeacher' /\ AnswersAreOwn'
  BY <1>1 DEF TeacherInvariant, OneTeacher, AnswersAreOwn, ClientAt
<1>4. OneQuestion'
  BY <1>1 DEF TeacherInvariant, OneQuestion, ClientWaits, ClientAt, Question, Answer
<1>5. KillIsReported'
  <2>1. ClientAt("search") => ~ClientAt("idle") /\ client.request \in Requests
                              /\ client.request <= client.request
    BY DEF TeacherInvariant, TeacherTyped, ClientType, ClientAt
  <2> QED
    BY <1>1, <2>1 DEF TeacherInvariant, KillIsReported, ClientAt
<1> QED
  BY <1>2, <1>3, <1>4, <1>5 DEF TeacherInvariant

-----------------------------------------------------------------------------
(* TeacherEngine: the steps of the client                                  *)

\* A step of the client within one request that returns nothing.
LEMMA ClientGoesOn ==
  ASSUME TeacherInvariant, UNCHANGED <<outcome, killed>>,
         client' \in ClientType, client.pc # "idle", client'.pc # "idle",
         client'.request = client.request,
         inbox' \in Seq(TeacherCommands), searching' \in Nat, lines' \in Seq(TeacherLines),
         excess' \in BOOLEAN, OneTeacher', OneQuestion',
         client.request \in killed => client'.pc = "closing" /\ client'.error = "memory_limit"
  PROVE  TeacherInvariant'
<1>1. TeacherTyped'
  BY DEF TeacherInvariant, TeacherTyped, ClientAt
<1>2. KillIsReported'
  BY DEF TeacherInvariant, KillIsReported, ClientAt
<1>3. AnswersAreOwn'
  BY DEF TeacherInvariant, AnswersAreOwn
<1> QED
  BY <1>1, <1>2, <1>3 DEF TeacherInvariant

\* Before the search there is nothing to report.
LEMMA NotKilled ==
  ASSUME TeacherInvariant,
         client.pc \in {"attempt", "start", "spawn", "verify", "newgame", "usi", "isready",
                        "stopping"} \/ (ClientAt("search") /\ ~excess)
  PROVE  client.request \notin killed
BY DEF TeacherInvariant, KillIsReported, ClientAt

LEMMA ClientBegins ==
  ASSUME TeacherInvariant, (\E r \in Requests : Call(r)) \/ Attempt \/ Pin \/ SpawnTeacher
  PROVE  TeacherInvariant'
<1> USE DEF process
<1>0. TeacherTyped /\ OneTeacher /\ OneQuestion /\ KillIsReported /\ AnswersAreOwn
      /\ client \in ClientType
  BY DEF TeacherInvariant, TeacherTyped
<1>a. /\ inbox \in Seq(TeacherCommands) /\ searching \in Nat /\ lines \in Seq(TeacherLines)
      /\ client.request \in Nat /\ client.attempts \in Nat /\ client.started \in Nat
      /\ excess \in BOOLEAN
  BY <1>0 DEF TeacherTyped, ClientType
<1>1. ASSUME NEW r \in Requests, Call(r) PROVE TeacherInvariant'
  <2>1. /\ UNCHANGED <<source, snapshot, teacher, alive, inbox, searching, lines, excess,
                       outcome, killed>>
        /\ client.pc = "idle" /\ r = client.request + 1
        /\ client' = [client EXCEPT !.pc = "attempt", !.request = r, !.attempts = 0,
                                    !.error = "none"]
    BY <1>1 DEF Call, ClientAt
  <2>2. client' \in ClientType
    <3>1. r \in Nat /\ "attempt" \in ClientPcs
      BY <1>a, <2>1 DEF ClientPcs
    <3> QED
      BY <1>0, <2>1, <3>1 DEF ClientType
  <2>3. /\ client'.pc = "attempt" /\ client'.request = r /\ client'.started = client.started
    BY <1>0, <2>1 DEF ClientType
  <2>4. TeacherTyped'
    BY <1>0, <1>1, <2>1, <2>2, <2>3 DEF TeacherTyped, ClientAt
  <2>5. OneTeacher'
    BY <1>0, <2>1, <2>3 DEF OneTeacher, ClientAt
  <2>6. OneQuestion'
    BY <1>0, <2>1, <2>3 DEF OneQuestion, ClientWaits
  <2>7. KillIsReported'
    <3>1. \A q \in Requests : q > r \/ q = r => q > client.request
      <4> SUFFICES ASSUME NEW q \in Requests, q > r \/ q = r PROVE q > client.request
        OBVIOUS
      <4>1. q \in Int
        BY DEF Requests
      <4> QED
        BY <1>a, <2>1, <4>1
    <3>2. \A q \in killed : q \in Requests /\ q <= r /\ q # r
      <4> TAKE q \in killed
      <4>1. q \in Requests /\ q <= client.request
        BY <1>0 DEF KillIsReported
      <4>2. q \in Int
        BY <4>1 DEF Requests
      <4> QED
        BY <1>a, <2>1, <4>1, <4>2
    <3> QED
      BY <1>0, <2>1, <2>3, <3>1, <3>2 DEF KillIsReported, ClientAt
  <2>8. AnswersAreOwn'
    BY <1>0, <2>1 DEF AnswersAreOwn
  <2> QED
    BY <2>4, <2>5, <2>6, <2>7, <2>8 DEF TeacherInvariant
<1>2. ASSUME Attempt PROVE TeacherInvariant'
  <2>1. PICK pc \in {"newgame", "start"} :
          /\ UNCHANGED <<source, snapshot, teacher, alive, inbox, searching, lines, excess,
                         outcome, killed>>
          /\ client.pc = "attempt" /\ (pc = "newgame" => TeacherRuns)
          /\ client' = [client EXCEPT !.pc = pc, !.attempts = client.attempts + 1]
    BY <1>2 DEF Attempt, ClientAt
  <2>2. client' \in ClientType
    <3>0. client.attempts \in Nat
      BY <1>a
    <3>1. client.attempts + 1 \in Nat
      BY <3>0
    <3>2. pc \in ClientPcs
      BY <2>1 DEF ClientPcs
    <3> QED
      BY <1>0, <2>1, <3>1, <3>2 DEF ClientType
  <2>3. client'.pc = pc /\ client'.request = client.request
        /\ client'.started = client.started
    BY <1>0, <2>1 DEF ClientType
  <2>4. OneTeacher'
    <3>1. pc = "newgame" => teacher # NoTeacher
      <4>1. pc = "newgame" => teacher.number # 0
        BY <1>0, <2>1 DEF OneTeacher, TeacherRuns
      <4>2. NoTeacher.number = 0
        BY DEF NoTeacher
      <4> QED
        BY <4>1, <4>2
    <3> QED
      BY <1>0, <2>1, <2>3, <3>1 DEF OneTeacher, ClientAt
  <2>5. OneQuestion'
    BY <1>0, <2>1, <2>3 DEF OneQuestion, ClientWaits
  <2>6. client.request \notin killed
    BY <2>1, NotKilled
  <2> QED
    BY <1>a, <2>1, <2>2, <2>3, <2>4, <2>5, <2>6, ClientGoesOn
<1>3. ASSUME Pin PROVE TeacherInvariant'
  <2>1. PICK pc \in {"spawn", "closing"} :
          /\ UNCHANGED <<outcome, killed>> /\ client.pc = "start"
          /\ alive' = alive \ {teacher.number} /\ teacher' = NoTeacher
          /\ inbox' = <<>> /\ searching' = 0 /\ lines' = <<>> /\ excess' = FALSE
          /\ pc = "spawn" => snapshot' = "approved"
          /\ \/ client' = [client EXCEPT !.pc = pc]
             \/ client' = [client EXCEPT !.pc = pc, !.error = "integrity"]
    BY <1>3 DEF Pin, ClientAt, ClientGoes, ClientRaises
  <2>2. client' \in ClientType
    BY <1>0, <1>a, <2>1 DEF ClientType, ClientPcs
  <2>3. client'.pc = pc /\ client'.request = client.request
        /\ client'.started = client.started
    BY <1>0, <2>1 DEF ClientType
  <2>4. alive' = {}
    BY <1>0, <2>1 DEF OneTeacher
  <2>5. OneTeacher'
    BY <2>1, <2>3, <2>4 DEF OneTeacher, ClientAt
  <2>6. OneQuestion'
    BY <2>1, <2>3 DEF OneQuestion, ClientWaits, AreWrong
  <2>7. client.request \notin killed
    BY <2>1, NotKilled
  <2>8. inbox' \in Seq(TeacherCommands) /\ lines' \in Seq(TeacherLines)
    BY <2>1
  <2> QED
    BY <1>a, <2>1, <2>2, <2>3, <2>5, <2>6, <2>7, <2>8, ClientGoesOn
<1>4. ASSUME SpawnTeacher PROVE TeacherInvariant'
  <2>1. /\ UNCHANGED <<snapshot, inbox, searching, lines, excess, outcome, killed>>
        /\ client.pc = "spawn"
        /\ teacher' = [number |-> client.started + 1, bytes |-> snapshot]
        /\ alive' = alive \union {client.started + 1}
        /\ client' = [client EXCEPT !.pc = "verify", !.started = client.started + 1]
    BY <1>4 DEF SpawnTeacher, ClientAt, PinnedExecutable
  <2>2. client' \in ClientType
    <3>1. client.started + 1 \in Nat /\ "verify" \in ClientPcs
      BY <1>a DEF ClientPcs
    <3> QED
      BY <1>0, <2>1, <3>1 DEF ClientType
  <2>3. client'.pc = "verify" /\ client'.request = client.request
        /\ client'.started = client.started + 1
    BY <1>0, <2>1 DEF ClientType
  <2>4. alive = {} /\ snapshot = "approved"
    BY <1>0, <2>1 DEF OneTeacher, ClientAt, NoTeacher
  <2>5. OneTeacher'
    BY <1>a, <2>1, <2>3, <2>4 DEF OneTeacher, ClientAt, NoTeacher
  <2>6. OneQuestion'
    BY <1>0, <2>1, <2>3 DEF OneQuestion, ClientWaits
  <2>7. client.request \notin killed
    BY <2>1, NotKilled
  <2> QED
    BY <1>a, <2>1, <2>2, <2>3, <2>5, <2>6, <2>7, ClientGoesOn
<1> QED
  BY <1>1, <1>2, <1>3, <1>4

\* What the client asks, or gives up; or its late search is told to stop.
LEMMA ClientAsks ==
  ASSUME TeacherInvariant, VerifyCopy \/ NewGame \/ Late \/ AwaitStop
  PROVE  TeacherInvariant'
<1> USE DEF process
<1>0. TeacherTyped /\ OneTeacher /\ OneQuestion /\ client \in ClientType
  BY DEF TeacherInvariant, TeacherTyped
<1>a. /\ inbox \in Seq(TeacherCommands) /\ searching \in Nat /\ lines \in Seq(TeacherLines)
      /\ client.request \in Nat /\ client.started \in Nat /\ excess \in BOOLEAN
  BY <1>0 DEF TeacherTyped, ClientType
<1>b. /\ [is |-> "usi"] \in TeacherCommands /\ [is |-> "isready"] \in TeacherCommands
      /\ [is |-> "stop"] \in TeacherCommands
  BY DEF TeacherCommands
<1>1. ASSUME NEW pc \in {"usi", "isready"}, NEW error,
             client.pc = IF pc = "usi" THEN "verify" ELSE "newgame",
             UNCHANGED <<snapshot, teacher, alive, searching, lines, excess, outcome, killed>>,
             inbox' = Append(inbox, [is |-> pc]),
             client' = [client EXCEPT !.pc = pc]
      PROVE  TeacherInvariant'
  <2>1. client' \in ClientType
    BY <1>0, <1>1 DEF ClientType, ClientPcs
  <2>2. client'.pc = pc /\ client'.request = client.request
        /\ client'.started = client.started
    BY <1>0, <1>1 DEF ClientType
  <2>3. OneTeacher'
    BY <1>0, <1>1, <2>2 DEF OneTeacher, ClientAt
  <2>4. inbox' = <<[is |-> pc]>> /\ inbox' \in Seq(TeacherCommands)
        /\ searching = 0 /\ AreWrong(lines)
    <3>1. inbox = <<>> /\ searching = 0 /\ AreWrong(lines)
      BY <1>0, <1>1 DEF OneQuestion
    <3>2. [is |-> pc] \in TeacherCommands
      BY <1>1, <1>b
    <3>3. \A c \in TeacherCommands : Append(<<>>, c) = <<c>> /\ <<c>> \in Seq(TeacherCommands)
      OBVIOUS
    <3> QED
      BY <1>1, <3>1, <3>2, <3>3
  <2>5. OneQuestion'
    BY <1>1, <2>2, <2>4 DEF OneQuestion, Question, ClientWaits, ClientAt
  <2>6. client.request \notin killed
    BY <1>1, NotKilled
  <2> QED
    BY <1>a, <1>1, <2>1, <2>2, <2>3, <2>4, <2>5, <2>6, ClientGoesOn
<1>2. ASSUME NEW pc \in {"closing", "stopping", "start"},
             client.pc \in {"verify", "newgame", "usi", "isready", "stopping"}
               \/ (client.pc = "search" /\ ~excess),
             pc = "start" => client.pc = "newgame",
             UNCHANGED <<snapshot, teacher, alive, searching, excess, outcome, killed>>,
             inbox' = inbox \/ (inbox' = Append(inbox, [is |-> "stop"]) /\ pc = "stopping"),
             lines' = lines \/ lines' = <<>>,
             client'.pc = pc, client' \in ClientType, client'.request = client.request,
             client'.started = client.started
      PROVE  TeacherInvariant'
  <2>1. OneTeacher'
    BY <1>0, <1>2 DEF OneTeacher, ClientAt
  <2>2. inbox' \in Seq(TeacherCommands) /\ lines' \in Seq(TeacherLines)
    <3>1. Append(inbox, [is |-> "stop"]) \in Seq(TeacherCommands)
      BY <1>a, <1>b
    <3>2. <<>> \in Seq(TeacherLines)
      OBVIOUS
    <3> QED
      BY <1>a, <1>2, <3>1, <3>2
  <2>3. OneQuestion'
    <3>1. CASE pc = "start"
      <4>1. inbox = <<>> /\ searching = 0 /\ AreWrong(lines)
        BY <1>0, <1>2, <3>1 DEF OneQuestion
      <4>2. AreWrong(<<>>)
        BY DEF AreWrong
      <4>3. inbox' = inbox /\ searching' = searching /\ AreWrong(lines')
        BY <1>2, <3>1, <4>1, <4>2
      <4> QED
        BY <1>2, <3>1, <4>1, <4>3 DEF OneQuestion, ClientWaits
    <3>2. CASE pc # "start"
      BY <1>2, <3>2 DEF OneQuestion, ClientWaits
    <3> QED
      BY <3>1, <3>2
  <2>4. client.request \notin killed
    BY <1>2, NotKilled DEF ClientAt
  <2> QED
    BY <1>a, <1>2, <2>1, <2>2, <2>3, <2>4, ClientGoesOn
<1>3. CASE VerifyCopy
  <2>1. CASE IsUnchanged
    BY <1>3, <1>1, <2>1 DEF VerifyCopy, ClientAt, ClientGoes, Send
  <2>2. CASE ~IsUnchanged
    <3>1. client' = [client EXCEPT !.pc = "closing", !.error = "integrity"]
      BY <1>3, <2>2 DEF VerifyCopy, ClientRaises
    <3>2. /\ client'.pc = "closing" /\ client' \in ClientType
          /\ client'.request = client.request /\ client'.started = client.started
      BY <1>0, <3>1 DEF ClientType, ClientPcs
    <3> QED
      BY <1>3, <1>2, <2>2, <3>2 DEF VerifyCopy, ClientAt
  <2> QED
    BY <2>1, <2>2
<1>4. CASE NewGame
  <2>1. CASE TeacherRuns
    BY <1>4, <1>1, <2>1 DEF NewGame, ClientAt, ClientGoes, Send
  <2>2. CASE ~TeacherRuns
    <3>1. client' = [client EXCEPT !.pc = "start"]
      BY <1>4, <2>2 DEF NewGame, ClientGoes
    <3>2. /\ client'.pc = "start" /\ client' \in ClientType
          /\ client'.request = client.request /\ client'.started = client.started
      BY <1>0, <3>1 DEF ClientType, ClientPcs
    <3> QED
      BY <1>4, <1>2, <2>2, <3>2 DEF NewGame, ClientAt
  <2> QED
    BY <2>1, <2>2
<1>5. CASE Late
  <2>1. /\ ~excess /\ client.pc \in {"usi", "isready", "search"}
        /\ UNCHANGED <<snapshot, teacher, alive, searching, lines, excess, outcome, killed>>
    BY <1>5 DEF Late, ClientWaits
  <2>2. CASE client.pc = "usi"
    <3>1. client' = [client EXCEPT !.pc = "closing", !.error = "timeout"] /\ inbox' = inbox
      BY <1>5, <2>2 DEF Late, ClientRaises, ClientAt
    <3>2. /\ client'.pc = "closing" /\ client' \in ClientType
          /\ client'.request = client.request /\ client'.started = client.started
      BY <1>0, <3>1 DEF ClientType, ClientPcs
    <3> QED
      BY <1>2, <2>1, <2>2, <3>1, <3>2
  <2>3. CASE client.pc # "usi"
    <3>1. /\ client' = [client EXCEPT !.pc = "stopping"]
          /\ inbox' = Append(inbox, [is |-> "stop"])
      BY <1>5, <2>3 DEF Late, ClientGoes, ClientAt, Send
    <3>2. /\ client'.pc = "stopping" /\ client' \in ClientType
          /\ client'.request = client.request /\ client'.started = client.started
      BY <1>0, <3>1 DEF ClientType, ClientPcs
    <3> QED
      BY <1>2, <2>1, <2>3, <3>1, <3>2
  <2> QED
    BY <2>2, <2>3
<1>6. CASE AwaitStop
  <2>1. /\ client.pc = "stopping" /\ lines' \in {lines, <<>>}
        /\ client' = [client EXCEPT !.pc = "closing", !.error = "timeout"]
        /\ UNCHANGED <<snapshot, teacher, alive, inbox, searching, excess, outcome, killed>>
    BY <1>6 DEF AwaitStop, ClientAt, ClientRaises
  <2>2. /\ client'.pc = "closing" /\ client' \in ClientType
        /\ client'.request = client.request /\ client'.started = client.started
    BY <1>0, <2>1 DEF ClientType, ClientPcs
  <2> QED
    BY <1>2, <2>1, <2>2
<1> QED
  BY <1>3, <1>4, <1>5, <1>6

\* A line the client awaits is the answer, and the only one.
LEMMA ClientReads == ASSUME TeacherInvariant, ReadLine PROVE TeacherInvariant'
<1>0. TeacherTyped /\ OneTeacher /\ OneQuestion /\ KillIsReported /\ AnswersAreOwn
      /\ client \in ClientType
  BY DEF TeacherInvariant, TeacherTyped
<1>a. /\ inbox \in Seq(TeacherCommands) /\ searching \in Nat /\ lines \in Seq(TeacherLines)
      /\ client.request \in Nat /\ client.started \in Nat /\ excess \in BOOLEAN
      /\ client.request \in Requests
  BY <1>0 DEF TeacherTyped, ClientType, ReadLine, ClientWaits, ClientAt
<1>1. /\ client.pc \in {"usi", "isready", "search"} /\ lines # <<>> /\ lines' = Tail(lines)
      /\ UNCHANGED <<snapshot, teacher, alive, searching, excess, killed>>
      /\ lines' \in Seq(TeacherLines)
  BY <1>a DEF ReadLine, ClientWaits
<1>2. ASSUME NEW error \in {"integrity", "protocol", "memory_limit"},
             client' = [client EXCEPT !.pc = "closing", !.error = error],
             UNCHANGED <<inbox, outcome>>, excess => error = "memory_limit"
      PROVE  TeacherInvariant'
  <2>1. /\ client'.pc = "closing" /\ client' \in ClientType /\ client'.error = error
        /\ client'.request = client.request /\ client'.started = client.started
    BY <1>0, <1>2 DEF ClientType, ClientPcs
  <2>2. OneTeacher'
    BY <1>0, <1>1, <2>1 DEF OneTeacher, ClientAt
  <2>3. OneQuestion'
    BY <2>1 DEF OneQuestion, ClientWaits
  <2>4. client.request \in killed => excess
    BY <1>1, NotKilled DEF ClientAt
  <2> QED
    BY <1>a, <1>1, <1>2, <2>1, <2>2, <2>3, <2>4, ClientGoesOn
<1>3. CASE ~(~excess /\ Head(lines).is = Awaited)
  <2> DEFINE e == IF excess THEN "memory_limit" ELSE "protocol"
  <2>1. client' = [client EXCEPT !.pc = "closing", !.error = e] /\ UNCHANGED <<inbox, outcome>>
    BY <1>3 DEF ReadLine, ClientRaises
  <2>2. e \in {"integrity", "protocol", "memory_limit"} /\ (excess => e = "memory_limit")
    OBVIOUS
  <2> HIDE DEF e
  <2> QED
    BY <1>2, <2>1, <2>2
<1>4. CASE ~excess /\ Head(lines).is = Awaited
  <2>1. Awaited = Answer.is /\ Awaited # "wrong" /\ Proceed(Head(lines))
    <3>1. Proceed(Head(lines))
      BY <1>4 DEF ReadLine
    <3>2. Awaited = IF client.pc = "search" THEN "bestmove" ELSE client.pc
      BY <1>1 DEF Awaited, ClientAt
    <3> QED
      BY <1>1, <3>1, <3>2 DEF Answer, ClientAt
  <2>2. AreWrong(lines) \/ HasAnswer(lines, Answer)
    BY <1>0, <1>1 DEF OneQuestion, ClientWaits
  <2>3. Head(lines) = Answer /\ AreWrong(lines')
    BY <1>4, <1>a, <1>1, <2>1, <2>2, AnswerIsFirst
  <2>4. inbox = <<>> /\ searching = 0
    <3>1. ~AreWrong(lines)
      <4>1. 1 \in DOMAIN lines /\ Head(lines) = lines[1]
        BY <1>a, <1>1
      <4> QED
        BY <1>4, <2>1, <4>1 DEF AreWrong
    <3> QED
      BY <1>0, <1>1, <3>1 DEF OneQuestion, ClientWaits
  <2>5. client.request \notin killed
    BY <1>1, <1>4, NotKilled DEF ClientAt
  <2>6. CASE client.pc = "usi"
    <3>1. UNCHANGED <<inbox, outcome>> /\ IF IsUnchanged THEN ClientGoes("newgame")
                                          ELSE ClientRaises("integrity")
      BY <2>1, <2>6 DEF Proceed, ClientAt
    <3>2. CASE IsUnchanged
      <4>1. client' = [client EXCEPT !.pc = "newgame"]
        BY <3>1, <3>2 DEF ClientGoes
      <4>2. /\ client'.pc = "newgame" /\ client' \in ClientType
            /\ client'.request = client.request /\ client'.started = client.started
        BY <1>0, <4>1 DEF ClientType, ClientPcs
      <4>3. OneTeacher'
        BY <1>0, <1>1, <4>2 DEF OneTeacher, ClientAt
      <4>4. OneQuestion'
        BY <1>1, <2>3, <2>4, <3>1, <4>2 DEF OneQuestion, ClientWaits
      <4> QED
        BY <1>a, <1>1, <2>5, <2>6, <3>1, <4>2, <4>3, <4>4, ClientGoesOn
    <3>3. CASE ~IsUnchanged
      BY <1>2, <1>4, <3>1, <3>3 DEF ClientRaises
    <3> QED
      BY <3>2, <3>3
  <2>7. CASE client.pc = "isready"
    <3>1. /\ inbox' = Append(inbox, [is |-> "go", of |-> client.request])
          /\ client' = [client EXCEPT !.pc = "search"] /\ outcome' = outcome
      BY <2>1, <2>7 DEF Proceed, ClientAt, ClientGoes, Send
    <3>2. /\ client'.pc = "search" /\ client' \in ClientType
          /\ client'.request = client.request /\ client'.started = client.started
      BY <1>0, <3>1 DEF ClientType, ClientPcs
    <3>3. OneTeacher'
      BY <1>0, <1>1, <2>7, <3>2 DEF OneTeacher, ClientAt
    <3>4. /\ inbox' = <<[is |-> "go", of |-> client.request]>>
          /\ inbox' \in Seq(TeacherCommands)
      BY <1>a, <2>4, <3>1 DEF TeacherCommands
    <3>5. OneQuestion'
      BY <1>1, <2>3, <2>4, <3>2, <3>4 DEF OneQuestion, ClientWaits, Question, ClientAt
    <3> QED
      BY <1>a, <1>1, <2>5, <2>7, <3>1, <3>2, <3>3, <3>4, <3>5, ClientGoesOn
  <2>8. CASE client.pc = "search"
    <3>1. IF IsUnchanged
          THEN Return([is |-> "answer", of |-> Head(lines).of, bytes |-> teacher.bytes])
          ELSE UNCHANGED <<inbox, outcome>> /\ ClientRaises("integrity")
      BY <2>1, <2>8 DEF Proceed, ClientAt
    <3>2. CASE IsUnchanged
      <4> DEFINE value == [is |-> "answer", of |-> client.request, bytes |-> "approved"]
      <4>1. Head(lines).of = client.request /\ teacher.bytes = "approved"
        BY <1>0, <2>3, <2>8 DEF Answer, ClientAt, OneTeacher
      <4>2. /\ outcome' = [outcome EXCEPT ![client.request] = value] /\ inbox' = inbox
            /\ client' = [client EXCEPT !.pc = "idle"]
        BY <3>1, <3>2, <4>1 DEF Return, ClientGoes
      <4>3. /\ client'.pc = "idle" /\ client' \in ClientType
            /\ client'.request = client.request /\ client'.started = client.started
        BY <1>0, <4>2 DEF ClientType, ClientPcs
      <4>4. /\ outcome' = [r \in Requests |-> outcome'[r]]
            /\ \A r \in Requests : outcome'[r] = IF r = client.request THEN value
                                                 ELSE outcome[r]
        <5>1. outcome = [r \in Requests |-> outcome[r]]
          BY <1>0 DEF TeacherTyped
        <5> HIDE DEF value
        <5> QED
          BY <4>2, <5>1
      <4>5. TeacherTyped'
        BY <1>a, <1>1, <2>4, <4>2, <4>3, <4>4 DEF TeacherTyped, ClientAt
      <4>6. OneTeacher'
        BY <1>0, <1>1, <4>3 DEF OneTeacher, ClientAt
      <4>7. OneQuestion'
        BY <1>1, <2>3, <2>4, <4>2, <4>3 DEF OneQuestion, ClientWaits
      <4>8. KillIsReported'
        <5>1. \A r \in Requests : r > client.request => r # client.request
          BY <1>a
        <5> QED
          BY <1>0, <1>1, <2>5, <2>8, <4>3, <4>4, <5>1 DEF KillIsReported, ClientAt
      <4>9. AnswersAreOwn'
        BY <1>0, <4>4 DEF AnswersAreOwn
      <4> QED
        BY <4>5, <4>6, <4>7, <4>8, <4>9 DEF TeacherInvariant
    <3>3. CASE ~IsUnchanged
      BY <1>2, <1>4, <3>1, <3>3 DEF ClientRaises
    <3> QED
      BY <3>2, <3>3
  <2> QED
    BY <1>1, <2>6, <2>7, <2>8
<1> QED
  BY <1>3, <1>4

\* The process is gone or is ended, and the request is tried again or has failed.
LEMMA ClientCloses ==
  ASSUME TeacherInvariant, NoticeExit \/ CloseAndRetry \/ CloseAndFail
  PROVE  TeacherInvariant'
<1> USE DEF process
<1>0. TeacherTyped /\ OneTeacher /\ OneQuestion /\ KillIsReported /\ AnswersAreOwn
      /\ client \in ClientType
  BY DEF TeacherInvariant, TeacherTyped
<1>a. /\ inbox \in Seq(TeacherCommands) /\ searching \in Nat /\ lines \in Seq(TeacherLines)
      /\ client.request \in Nat /\ client.started \in Nat /\ excess \in BOOLEAN
  BY <1>0 DEF TeacherTyped, ClientType
<1>1. CASE NoticeExit
  <2> DEFINE e == IF excess THEN "memory_limit" ELSE "process"
  <2>1. /\ client' = [client EXCEPT !.pc = "closing", !.error = e]
        /\ client.pc \in {"usi", "isready", "search"}
        /\ UNCHANGED <<snapshot, teacher, alive, inbox, searching, lines, excess, outcome,
                       killed>>
    BY <1>1 DEF NoticeExit, ClientWaits, ClientRaises
  <2>2. e \in {"process", "memory_limit"} /\ (excess => e = "memory_limit")
    OBVIOUS
  <2> HIDE DEF e
  <2>3. /\ client'.pc = "closing" /\ client' \in ClientType /\ client'.error = e
        /\ client'.request = client.request /\ client'.started = client.started
    BY <1>0, <2>1, <2>2 DEF ClientType, ClientPcs
  <2>4. OneTeacher'
    BY <1>0, <2>1, <2>3 DEF OneTeacher, ClientAt
  <2>5. OneQuestion'
    BY <2>3 DEF OneQuestion, ClientWaits
  <2>6. client.request \in killed => excess
    BY <2>1, NotKilled DEF ClientAt
  <2> QED
    BY <1>a, <2>1, <2>2, <2>3, <2>4, <2>5, <2>6, ClientGoesOn
<1>2. ASSUME CloseTeacher
      PROVE  /\ alive' = {} /\ teacher' = NoTeacher /\ inbox' = <<>> /\ searching' = 0
             /\ lines' = <<>> /\ excess' = FALSE
             /\ inbox' \in Seq(TeacherCommands) /\ lines' \in Seq(TeacherLines)
             /\ AreWrong(lines')
  <2>1. /\ alive' = alive \ {teacher.number} /\ teacher' = NoTeacher /\ inbox' = <<>>
        /\ searching' = 0 /\ lines' = <<>> /\ excess' = FALSE
    BY <1>2 DEF CloseTeacher
  <2>2. alive' = {}
    BY <1>0, <2>1 DEF OneTeacher
  <2>3. <<>> \in Seq(TeacherCommands) /\ <<>> \in Seq(TeacherLines) /\ AreWrong(<<>>)
    BY DEF AreWrong
  <2> QED
    BY <2>1, <2>2, <2>3
<1>3. CASE CloseAndRetry
  <2>1. /\ CloseTeacher /\ client.pc = "closing" /\ client.error # "memory_limit"
        /\ client' = [client EXCEPT !.pc = "attempt"] /\ UNCHANGED <<outcome, killed>>
    BY <1>3 DEF CloseAndRetry, ClientAt, ClientGoes, Retried
  <2>2. /\ client'.pc = "attempt" /\ client' \in ClientType
        /\ client'.request = client.request /\ client'.started = client.started
    BY <1>0, <2>1 DEF ClientType, ClientPcs
  <2>3. OneTeacher' /\ OneQuestion'
    BY <1>2, <2>1, <2>2 DEF OneTeacher, OneQuestion, ClientWaits, ClientAt
  <2>4. client.request \notin killed
    BY <1>0, <2>1 DEF KillIsReported, ClientAt
  <2> QED
    BY <1>a, <1>2, <2>1, <2>2, <2>3, <2>4, ClientGoesOn
<1>4. CASE CloseAndFail
  <2> DEFINE value == [is |-> client.error]
  <2>1. /\ CloseTeacher /\ client.pc = "closing" /\ killed' = killed
        /\ client' = [client EXCEPT !.pc = "idle"]
        /\ outcome' = [outcome EXCEPT ![client.request] = value]
    BY <1>4 DEF CloseAndFail, ClientAt, ClientGoes
  <2>2. /\ client'.pc = "idle" /\ client' \in ClientType
        /\ client'.request = client.request /\ client'.started = client.started
        /\ client.request \in Requests /\ client.error # "answer"
    BY <1>0, <2>1 DEF ClientType, ClientPcs, TeacherTyped, ClientAt
  <2>3. /\ outcome' = [r \in Requests |-> outcome'[r]]
        /\ \A r \in Requests : outcome'[r] = IF r = client.request THEN value ELSE outcome[r]
    <3>1. outcome = [r \in Requests |-> outcome[r]]
      BY <1>0 DEF TeacherTyped
    <3> HIDE DEF value
    <3> QED
      BY <2>1, <3>1
  <2>4. TeacherTyped'
    BY <1>2, <2>1, <2>2, <2>3 DEF TeacherTyped, ClientAt
  <2>5. OneTeacher' /\ OneQuestion'
    BY <1>2, <2>1, <2>2 DEF OneTeacher, OneQuestion, ClientWaits, ClientAt
  <2>6. KillIsReported'
    <3>1. \A r \in Requests : r > client.request => r # client.request
      BY <1>a
    <3>2. client.request \in killed => value.is = "memory_limit"
      BY <1>0, <2>1 DEF KillIsReported, ClientAt
    <3> QED
      BY <1>0, <2>1, <2>2, <2>3, <3>1, <3>2 DEF KillIsReported, ClientAt
  <2>7. AnswersAreOwn'
    BY <1>0, <2>2, <2>3 DEF AnswersAreOwn
  <2> QED
    BY <2>4, <2>5, <2>6, <2>7 DEF TeacherInvariant
<1> QED
  BY <1>1, <1>3, <1>4

LEMMA TeacherInvariantSuffices == TeacherInvariant => TeacherAnswersAreOwn
<1> SUFFICES ASSUME TeacherInvariant PROVE TeacherAnswersAreOwn
  OBVIOUS
<1>1. \A r \in killed : outcome[r].is \in {"pending", "memory_limit"}
  BY DEF TeacherInvariant, KillIsReported, Pending
<1>2. alive \subseteq {teacher.number} /\ 0 \notin alive
  BY DEF TeacherInvariant, OneTeacher
<1>3. Cardinality(alive) <= 1
  <2>1. alive = {} \/ alive = {teacher.number}
    BY <1>2
  <2>2. CASE alive = {}
    BY <2>2, FS_EmptySet
  <2>3. CASE alive = {teacher.number}
    <3>1. Cardinality({teacher.number}) = 1
      BY FS_Singleton
    <3> QED
      BY <2>3, <3>1
  <2> QED
    BY <2>1, <2>2, <2>3
<1>4. teacher = NoTeacher => alive = {}
  BY <1>2 DEF NoTeacher
<1> QED
  BY <1>1, <1>3, <1>4 DEF TeacherInvariant, TeacherAnswersAreOwn, ExcessIsReported

\* TeacherAnswersAreOwn, for any number of requests, retries, deaths, wrong lines,
\* excesses and replaced files: an answer is to that very request, from the
\* approved files; an excess is reported and not retried; one teacher at a time.
THEOREM TeacherAnswering == TeacherSpec => []TeacherAnswersAreOwn
<1>1. TeacherInit => TeacherInvariant
  BY TeacherStarts
<1>2. TeacherInvariant /\ [TeacherNext]_teacherVars => TeacherInvariant'
  <2> SUFFICES ASSUME TeacherInvariant, [TeacherNext]_teacherVars PROVE TeacherInvariant'
    OBVIOUS
  <2>1. CASE TeacherReads \/ TeacherAnswers \/ TeacherErrs
    BY <2>1, TeacherTalks
  <2>2. CASE TeacherDies \/ ReplaceFiles \/ Exceed \/ KillForExcess
    BY <2>2, WorldMoves
  <2>3. CASE (\E r \in Requests : Call(r)) \/ Attempt \/ Pin \/ SpawnTeacher
    BY <2>3, ClientBegins
  <2>4. CASE VerifyCopy \/ NewGame \/ Late \/ AwaitStop
    BY <2>4, ClientAsks
  <2>5. CASE ReadLine
    BY <2>5, ClientReads
  <2>6. CASE NoticeExit \/ CloseAndRetry \/ CloseAndFail
    BY <2>6, ClientCloses
  <2>7. CASE UNCHANGED teacherVars
    <3>1. UNCHANGED <<source, snapshot, teacher, alive, inbox, searching, lines, excess,
                      client, outcome, killed>>
      BY <2>7 DEF teacherVars, process
    <3>2. OneQuestion'
      BY <3>1 DEF TeacherInvariant, OneQuestion, ClientWaits, ClientAt, Question, Answer
    <3>3. TeacherTyped
      BY DEF TeacherInvariant
    <3> QED
      BY <3>1, <3>2, <3>3, PipesMove DEF TeacherTyped
  <2> QED
    BY <2>1, <2>2, <2>3, <2>4, <2>5, <2>6, <2>7 DEF TeacherNext
<1>3. TeacherInvariant => TeacherAnswersAreOwn
  BY TeacherInvariantSuffices
<1> QED
  BY <1>1, <1>2, <1>3, PTL DEF TeacherSpec

-----------------------------------------------------------------------------
(* EngineBuild: the inductive invariant                                    *)

\* Before anything is copied, while the copies run, when all are there, from
\* the publication of the binary, and from that of the receipt on.
Identifying == {"cargo", "ask", "rustc", "runtime", "version", "reuse", "seed"}
Complete == {"launch", "build", "after"}
WithEngine == {"alias", "head", "receipt"}
WithReceipt == {"validate", "point"}
BuilderPcs == Identifying \union {"copy"} \union Complete \union {"publish"}
              \union WithEngine \union WithReceipt

Trees == {SourceOf[c] : c \in BuildCommits} \union {0}
Digests == [Tools -> Nat]
BuiltBytes == [source : Trees, tools : Digests, take : Takes \union {0}]
BuilderType ==
  [pc : BuilderPcs, commit : BuildCommits, source : Trees, tools : Digests,
   private : Digests, touched : BOOLEAN, built : BuiltBytes]

BuildTyped ==
  /\ tool \in [Tools -> Nat \ {0}]
  /\ builder = Resting \/ builder \in BuilderType
  /\ resolver = Resting \/ resolver \in [pc : {"resolve", "resolved"}, receipt : buildReceipts]

\* What the builder holds is of its commit; a private copy that nobody touched
\* is what was recorded, and what was built is of the private copies until they
\* are looked at for the last time, and of the recorded tools from then on.
BuilderHolds ==
  builder # Resting =>
    /\ builder.source = SourceOf[builder.commit]
    /\ builder.pc \in Identifying => builder.private = NoTools
    /\ (~builder.touched) => \A t \in Tools : builder.private[t] \in {0, builder.tools[t]}
    /\ builder.pc \in Complete => \A t \in Tools : builder.private[t] # 0
    /\ builder.pc \notin Identifying \union {"copy", "launch", "build"} =>
         builder.built.source = builder.source
    /\ builder.pc = "after" => builder.built.tools = builder.private
    /\ builder.pc \in {"publish"} \union WithEngine \union WithReceipt =>
         builder.built.tools = builder.tools
    /\ builder.pc \in WithEngine \union WithReceipt => builder.built \in engines
    /\ builder.pc \in WithReceipt => Receipt \in buildReceipts

BuildInvariant == BuildTyped /\ BuilderHolds /\ ReceiptsAreTrue

LEMMA BuildStarts == BuildInit => BuildInvariant
<1> SUFFICES ASSUME BuildInit PROVE BuildInvariant
  OBVIOUS
<1>1. BuildTyped
  BY DEF BuildInit, BuildTyped
<1>2. BuilderHolds /\ ReceiptsAreTrue
  BY DEF BuildInit, BuilderHolds, ReceiptsAreTrue, Resting
<1> QED
  BY <1>1, <1>2 DEF BuildInvariant

\* A builder that is somewhere has a record of its own.
LEMMA BuilderIsOf ==
  ASSUME BuildInvariant, builder.pc # "idle"
  PROVE  builder \in BuilderType /\ builder # Resting
BY DEF BuildInvariant, BuildTyped, Resting

\* A step of the builder that publishes nothing.
LEMMA OnlyBuilderMoves ==
  ASSUME BuildInvariant, tool' = tool, UNCHANGED <<publishedBuilds, resolver>>,
         builder' = Resting \/ (builder' \in BuilderType /\ BuilderHolds')
  PROVE  BuildInvariant'
<1>1. UNCHANGED <<engines, buildReceipts, pointer, resolver>>
  BY DEF publishedBuilds
<1>2. BuildTyped'
  BY <1>1 DEF BuildInvariant, BuildTyped, BuilderType, Trees, Digests, BuiltBytes
<1>3. BuilderHolds'
  BY DEF BuilderHolds, Resting
<1>4. ReceiptsAreTrue'
  BY <1>1 DEF BuildInvariant, ReceiptsAreTrue
<1> QED
  BY <1>2, <1>3, <1>4 DEF BuildInvariant

\* The builder goes on with what it has.
LEMMA BuilderGoesOn ==
  ASSUME BuildInvariant, builder.pc # "idle", NEW next \in BuilderPcs, BuilderGoes(next)
  PROVE  /\ builder' \in BuilderType /\ builder'.pc = next
         /\ builder'.commit = builder.commit /\ builder'.source = builder.source
         /\ builder'.tools = builder.tools /\ builder'.private = builder.private
         /\ builder'.touched = builder.touched /\ builder'.built = builder.built
<1>1. builder \in BuilderType
  BY BuilderIsOf
<1>2. builder' = [builder EXCEPT !.pc = next]
  BY DEF BuilderGoes
<1> QED
  BY <1>1, <1>2 DEF BuilderType

LEMMA BuildBegins ==
  ASSUME BuildInvariant, NEW c \in BuildCommits, BeginBuild(c)
  PROVE  BuildInvariant'
<1>1. /\ builder' = [pc |-> "cargo", commit |-> c, source |-> SourceOf[c], tools |-> NoTools,
                     private |-> NoTools, touched |-> FALSE, built |-> NoBuild]
      /\ UNCHANGED <<repository, publishedBuilds, resolver>>
  BY DEF BeginBuild, Sources
<1>2. NoTools \in Digests
  BY DEF NoTools, Digests
<1>3. NoBuild \in BuiltBytes
  BY <1>2 DEF NoBuild, BuiltBytes, Trees
<1>4. builder' \in BuilderType
  BY <1>1, <1>2, <1>3 DEF BuilderType, BuilderPcs, Identifying, Trees
<1>5. BuilderHolds'
  BY <1>1 DEF BuilderHolds, NoTools, Identifying, Complete, WithEngine, WithReceipt
<1> QED
  BY <1>1, <1>4, <1>5, OnlyBuilderMoves DEF repository

\* A tool is hashed before anything is copied.
LEMMA BuilderHashes ==
  ASSUME BuildInvariant, NEW t \in Tools, NEW next \in Identifying, Hash(t, next),
         builder.pc \in Identifying
  PROVE  BuildInvariant'
<1>1. /\ builder' = [builder EXCEPT !.tools[t] = tool[t], !.pc = next]
      /\ UNCHANGED <<repository, publishedBuilds, resolver>>
  BY DEF Hash
<1>2. builder \in BuilderType /\ builder # Resting
  BY BuilderIsOf DEF Identifying
<1>3. tool[t] \in Nat
  BY DEF BuildInvariant, BuildTyped
<1>4. /\ builder' \in BuilderType /\ builder'.pc = next
      /\ builder'.commit = builder.commit /\ builder'.source = builder.source
      /\ builder'.private = builder.private
  BY <1>1, <1>2, <1>3 DEF BuilderType, BuilderPcs, Digests
<1>5. builder.source = SourceOf[builder.commit] /\ builder.private = NoTools
  BY <1>2 DEF BuildInvariant, BuilderHolds
<1>6. BuilderHolds'
  BY <1>4, <1>5 DEF BuilderHolds, NoTools, Identifying, Complete, WithEngine, WithReceipt
<1> QED
  BY <1>1, <1>4, <1>6, OnlyBuilderMoves DEF repository

\* What is asked of tools and cache before the copies are made.
LEMMA BuilderIdentifies ==
  ASSUME BuildInvariant,
         HashCargo \/ AskCargo \/ HashRustc \/ IdentifyRuntime \/ AskVersion
           \/ ReuseBuild \/ SeedCache
  PROVE  BuildInvariant'
<1>1. CASE HashCargo \/ HashRustc \/ IdentifyRuntime
  BY <1>1, BuilderHashes DEF HashCargo, HashRustc, IdentifyRuntime, BuilderAt, Identifying, Tools
<1>2. CASE AskCargo \/ AskVersion \/ ReuseBuild \/ SeedCache
  <2>1. /\ builder.pc \in Identifying
        /\ builder' = Resting \/ (\E next \in Identifying \union {"copy"} : BuilderGoes(next))
        /\ UNCHANGED <<repository, publishedBuilds, resolver>>
    BY <1>2 DEF AskCargo, AskVersion, ReuseBuild, SeedCache, BuilderAt, BuilderEnds, Identifying
  <2>2. CASE builder' = Resting
    BY <2>1, <2>2, OnlyBuilderMoves DEF repository
  <2>3. CASE \E next \in Identifying \union {"copy"} : BuilderGoes(next)
    <3>1. PICK next \in Identifying \union {"copy"} : BuilderGoes(next)
      BY <2>3
    <3>2. /\ builder' \in BuilderType /\ builder'.pc = next
          /\ builder'.commit = builder.commit /\ builder'.source = builder.source
          /\ builder'.private = builder.private
      BY <2>1, <3>1, BuilderGoesOn DEF BuilderPcs, Identifying
    <3>3. builder.source = SourceOf[builder.commit] /\ builder.private = NoTools
      BY <2>1, BuilderIsOf DEF BuildInvariant, BuilderHolds, Identifying
    <3>4. BuilderHolds'
      BY <3>2, <3>3 DEF BuilderHolds, NoTools, Identifying, Complete, WithEngine, WithReceipt
    <3> QED
      BY <2>1, <3>2, <3>4, OnlyBuilderMoves DEF repository
  <2> QED
    BY <2>1, <2>2, <2>3
<1> QED
  BY <1>1, <1>2

LEMMA BuilderCopies ==
  ASSUME BuildInvariant, NEW t \in Tools, CopyTool(t)
  PROVE  BuildInvariant'
<1>1. /\ builder.pc = "copy" /\ UNCHANGED <<repository, publishedBuilds, resolver>>
      /\ builder' = Resting \/ (tool[t] = builder.tools[t] /\ builder' = Copied(t))
  BY DEF CopyTool, BuilderAt, BuilderEnds, IsAsRecorded
<1>2. CASE builder' = Resting
  BY <1>1, <1>2, OnlyBuilderMoves DEF repository
<1>3. CASE tool[t] = builder.tools[t] /\ builder' = Copied(t)
  <2>1. builder \in BuilderType /\ builder # Resting
    BY <1>1, BuilderIsOf
  <2>2. tool[t] \in Nat
    BY DEF BuildInvariant, BuildTyped
  <2>3. /\ builder' \in BuilderType /\ builder'.pc = "copy"
        /\ builder'.commit = builder.commit /\ builder'.source = builder.source
        /\ builder'.tools = builder.tools /\ builder'.touched = builder.touched
        /\ builder'.private = [builder.private EXCEPT ![t] = builder.tools[t]]
    BY <1>1, <1>3, <2>1, <2>2 DEF Copied, BuilderType, Digests
  <2>4. builder.private \in Digests
    BY <2>1 DEF BuilderType
  <2>5. \A u \in Tools :
          builder'.private[u] = IF u = t THEN builder.tools[t] ELSE builder.private[u]
    BY <2>3, <2>4 DEF Digests
  <2>6. /\ builder.source = SourceOf[builder.commit]
        /\ (~builder.touched) => \A u \in Tools : builder.private[u] \in {0, builder.tools[u]}
    BY <2>1 DEF BuildInvariant, BuilderHolds
  <2>7. BuilderHolds'
    BY <2>3, <2>5, <2>6 DEF BuilderHolds, Identifying, Complete, WithEngine, WithReceipt
  <2> QED
    BY <1>1, <2>3, <2>7, OnlyBuilderMoves DEF repository
<1> QED
  BY <1>1, <1>2, <1>3

\* The copies are looked at, before the build, at its launch and after it.
LEMMA BuilderChecks ==
  ASSUME BuildInvariant, Seal \/ LaunchBuild \/ AssertAfter
  PROVE  BuildInvariant'
<1>1. /\ builder.pc \in {"copy", "launch", "after"}
      /\ UNCHANGED <<repository, publishedBuilds, resolver>>
      /\ \A t \in Tools : builder.private[t] # 0
      /\ \/ builder' = Resting
         \/ /\ ~builder.touched
            /\ \/ builder.pc = "copy" /\ BuilderGoes("launch")
               \/ builder.pc = "launch" /\ BuilderGoes("build")
               \/ builder.pc = "after" /\ BuilderGoes("publish")
  BY BuilderIsOf DEF Seal, LaunchBuild, AssertAfter, BuilderAt, BuilderEnds, IsSealed,
     BuildInvariant, BuilderHolds, Complete
<1>2. CASE builder' = Resting
  BY <1>1, <1>2, OnlyBuilderMoves DEF repository
<1>3. CASE builder' # Resting
  <2>1. PICK next \in {"launch", "build", "publish"} :
          BuilderGoes(next) /\ (next = "publish" <=> builder.pc = "after")
    BY <1>1, <1>3
  <2>2. /\ builder' \in BuilderType /\ builder'.pc = next
        /\ builder'.commit = builder.commit /\ builder'.source = builder.source
        /\ builder'.tools = builder.tools /\ builder'.private = builder.private
        /\ builder'.touched = builder.touched /\ builder'.built = builder.built
    BY <1>1, <2>1, BuilderGoesOn DEF BuilderPcs, Complete
  <2>3. builder \in BuilderType /\ builder # Resting /\ ~builder.touched
    BY <1>1, <1>3, BuilderIsOf
  <2>4. /\ builder.source = SourceOf[builder.commit]
        /\ \A t \in Tools : builder.private[t] = builder.tools[t]
        /\ builder.pc = "after" => /\ builder.built.source = builder.source
                                   /\ builder.built.tools = builder.private
    BY <1>1, <2>3 DEF BuildInvariant, BuilderHolds, Identifying
  <2>5. builder.private = builder.tools
    BY <2>3, <2>4 DEF BuilderType, Digests
  <2>6. BuilderHolds'
    BY <1>1, <2>1, <2>2, <2>4, <2>5
       DEF BuilderHolds, Identifying, Complete, WithEngine, WithReceipt
  <2> QED
    BY <1>1, <2>2, <2>6, OnlyBuilderMoves DEF repository
<1> QED
  BY <1>2, <1>3

LEMMA BuildRuns ==
  ASSUME BuildInvariant, RunBuild
  PROVE  BuildInvariant'
<1>1. /\ builder.pc = "build" /\ UNCHANGED <<repository, publishedBuilds, resolver>>
      /\ builder \in BuilderType /\ builder # Resting
  BY BuilderIsOf DEF RunBuild, BuilderAt
<1>2. CASE builder' = Resting
  BY <1>1, <1>2, OnlyBuilderMoves DEF repository
<1>3. CASE \E k \in Takes :
             builder' = [builder EXCEPT !.pc = "after", !.built =
               [source |-> builder.source, tools |-> builder.private, take |-> k]]
  <2>1. PICK k \in Takes :
          builder' = [builder EXCEPT !.pc = "after", !.built =
            [source |-> builder.source, tools |-> builder.private, take |-> k]]
    BY <1>3
  <2> DEFINE bytes == [source |-> builder.source, tools |-> builder.private, take |-> k]
  <2>2. bytes \in BuiltBytes
    BY <1>1 DEF BuilderType, BuiltBytes
  <2>3. /\ builder' \in BuilderType /\ builder'.pc = "after"
        /\ builder'.commit = builder.commit /\ builder'.source = builder.source
        /\ builder'.tools = builder.tools /\ builder'.private = builder.private
        /\ builder'.touched = builder.touched /\ builder'.built = bytes
    <3> HIDE DEF bytes
    <3>1. builder' = [builder EXCEPT !.pc = "after", !.built = bytes]
      BY <2>1 DEF bytes
    <3> QED
      BY <1>1, <2>2, <3>1 DEF BuilderType, BuilderPcs, Complete
  <2>4. BuilderHolds'
    BY <1>1, <2>3 DEF BuildInvariant, BuilderHolds, Identifying, Complete, WithEngine, WithReceipt
  <2> QED
    BY <1>1, <2>3, <2>4, OnlyBuilderMoves DEF repository
<1> QED
  BY <1>2, <1>3 DEF RunBuild, BuilderEnds

\* The binary and its receipt go to their places; then the pointer is moved.
LEMMA BuilderPublishes ==
  ASSUME BuildInvariant,
         PublishEngine \/ PublishAlias \/ RecheckHead \/ WriteReceipt \/ ValidateReceipt
           \/ MovePointer
  PROVE  BuildInvariant'
<1> DEFINE publishing == {"publish"} \union WithEngine \union WithReceipt
<1>1. builder.pc \in publishing /\ builder.pc # "idle" /\ tool' = tool /\ resolver' = resolver
  BY DEF PublishEngine, PublishAlias, RecheckHead, WriteReceipt, ValidateReceipt, MovePointer,
     BuilderAt, WithEngine, WithReceipt, repository
<1>2. builder \in BuilderType /\ builder # Resting
  BY <1>1, BuilderIsOf
<1>3. /\ builder.source = SourceOf[builder.commit]
      /\ (~builder.touched) => \A t \in Tools : builder.private[t] \in {0, builder.tools[t]}
      /\ builder.built.source = builder.source /\ builder.built.tools = builder.tools
  BY <1>1, <1>2 DEF BuildInvariant, BuilderHolds, Identifying, WithEngine, WithReceipt
<1>4. /\ engines \subseteq engines' /\ buildReceipts \subseteq buildReceipts'
      /\ pointer' \in {pointer, Receipt}
      /\ pointer' # pointer => builder.pc = "point"
      /\ buildReceipts' \subseteq buildReceipts \union {Receipt}
      /\ Receipt \in buildReceipts' => Receipt \in buildReceipts \/ builder.pc = "receipt"
  BY <1>1 DEF PublishEngine, PublishAlias, RecheckHead, WriteReceipt, ValidateReceipt,
     MovePointer, BuilderAt, publishedBuilds
<1>5. Receipt.binary = builder.built /\ Receipt.commit = builder.commit
      /\ Receipt.tools = builder.tools
  BY DEF Receipt
<1>6. ReceiptsAreTrue'
  <2>1. builder.pc \in WithEngine \union WithReceipt => builder.built \in engines
    BY <1>2 DEF BuildInvariant, BuilderHolds
  <2>2. \A r \in buildReceipts' : /\ r.binary \in engines'
                                  /\ r.binary.source = SourceOf[r.commit]
                                  /\ r.binary.tools = r.tools
    BY <1>3, <1>4, <1>5, <2>1 DEF BuildInvariant, ReceiptsAreTrue, WithEngine
  <2>3. builder.pc = "point" => Receipt \in buildReceipts
    BY <1>2 DEF BuildInvariant, BuilderHolds, WithReceipt
  <2> QED
    BY <1>1, <1>4, <2>2, <2>3 DEF BuildInvariant, ReceiptsAreTrue
<1>7. resolver' = Resting \/ resolver' \in [pc : {"resolve", "resolved"}, receipt : buildReceipts']
  BY <1>1, <1>4 DEF BuildInvariant, BuildTyped
<1>8. CASE builder' = Resting
  <2>1. BuildTyped'
    BY <1>1, <1>7, <1>8 DEF BuildInvariant, BuildTyped, Resting
  <2>2. BuilderHolds'
    BY <1>8 DEF BuilderHolds, Resting
  <2> QED
    BY <1>6, <2>1, <2>2 DEF BuildInvariant
<1>9. CASE builder' # Resting
  <2>1. PICK next \in WithEngine \union WithReceipt :
          /\ BuilderGoes(next)
          /\ next \in WithReceipt => Receipt \in buildReceipts'
          /\ builder.built \in engines'
    BY <1>2, <1>9 DEF PublishEngine, PublishAlias, RecheckHead, WriteReceipt, ValidateReceipt,
       MovePointer, BuilderAt, BuilderEnds, WithEngine, WithReceipt, publishedBuilds,
       BuildInvariant, BuilderHolds
  <2>2. /\ builder' \in BuilderType /\ builder'.pc = next
        /\ builder'.commit = builder.commit /\ builder'.source = builder.source
        /\ builder'.tools = builder.tools /\ builder'.private = builder.private
        /\ builder'.touched = builder.touched /\ builder'.built = builder.built
    BY <1>1, <2>1, BuilderGoesOn DEF BuilderPcs
  <2>3. Receipt' = Receipt
    BY <2>2 DEF Receipt
  <2>4. BuilderHolds'
    BY <1>3, <2>1, <2>2, <2>3 DEF BuilderHolds, Identifying, Complete, WithEngine, WithReceipt
  <2>5. BuildTyped'
    BY <1>1, <1>7, <2>2 DEF BuildInvariant, BuildTyped, BuilderType, Trees, Digests, BuiltBytes
  <2> QED
    BY <1>6, <2>4, <2>5 DEF BuildInvariant
<1> QED
  BY <1>8, <1>9

\* The builder is killed, or somebody writes into one of its copies.
LEMMA BuilderIsDisturbed ==
  ASSUME BuildInvariant, KillBuilder \/ \E t \in Tools : TouchPrivate(t)
  PROVE  BuildInvariant'
<1>1. CASE KillBuilder
  BY <1>1, OnlyBuilderMoves DEF KillBuilder, BuilderEnds, repository
<1>2. CASE \E t \in Tools : TouchPrivate(t)
  <2>1. PICK t \in Tools : TouchPrivate(t)
    BY <1>2
  <2>2. /\ builder.pc \in {"copy", "launch", "build"} /\ builder.private[t] # 0
        /\ builder' = [builder EXCEPT !.private[t] = @ + 10, !.touched = TRUE]
        /\ UNCHANGED <<repository, publishedBuilds, resolver>>
    BY <2>1 DEF TouchPrivate
  <2>3. builder \in BuilderType /\ builder # Resting
    BY <2>2, BuilderIsOf
  <2>4. builder.private \in Digests /\ builder.private[t] \in Nat
    BY <2>3 DEF BuilderType, Digests
  <2> DEFINE rewritten == [builder.private EXCEPT ![t] = builder.private[t] + 10]
  <2>5. rewritten \in Digests
    BY <2>4 DEF Digests
  <2>6. \A u \in Tools : builder.private[u] # 0 => rewritten[u] # 0
    BY <2>4 DEF Digests
  <2>7. /\ builder' \in BuilderType /\ builder'.pc = builder.pc /\ builder'.touched = TRUE
        /\ builder'.commit = builder.commit /\ builder'.source = builder.source
        /\ builder'.private = rewritten
    <3>1. builder' = [builder EXCEPT !.private = rewritten, !.touched = TRUE]
      BY <2>2, <2>3 DEF BuilderType
    <3> HIDE DEF rewritten
    <3> QED
      BY <2>3, <2>5, <3>1 DEF BuilderType
  <2>8. BuilderHolds'
    <3> HIDE DEF rewritten
    <3> QED
      BY <2>2, <2>3, <2>6, <2>7
         DEF BuildInvariant, BuilderHolds, Identifying, Complete, WithEngine, WithReceipt
  <2> QED
    BY <2>2, <2>7, <2>8, OnlyBuilderMoves DEF repository
<1> QED
  BY <1>1, <1>2

\* The resolver has the receipt that the pointer named.
LEMMA BuildResolves ==
  ASSUME BuildInvariant, ReadPointer \/ Resolve \/ Release
  PROVE  BuildInvariant'
<1>1. UNCHANGED <<tool, engines, buildReceipts, pointer, builder>>
  BY DEF ReadPointer, Resolve, Release, repository, publishedBuilds
<1>2. resolver' = Resting
      \/ resolver' \in [pc : {"resolve", "resolved"}, receipt : buildReceipts]
  BY DEF BuildInvariant, BuildTyped, ReceiptsAreTrue, ReadPointer, Resolve, Release, Resting
<1>3. BuildTyped'
  BY <1>1, <1>2 DEF BuildInvariant, BuildTyped, BuilderType, Trees, Digests, BuiltBytes
<1>4. Receipt' = Receipt
  BY <1>1 DEF Receipt
<1>5. BuilderHolds'
  BY <1>1, <1>4 DEF BuildInvariant, BuilderHolds
<1>6. ReceiptsAreTrue'
  BY <1>1, <1>2 DEF BuildInvariant, ReceiptsAreTrue, Resting
<1> QED
  BY <1>3, <1>5, <1>6 DEF BuildInvariant

\* HEAD, the work tree, the cache and the tools change under the builder.
LEMMA BuildSurroundings ==
  ASSUME BuildInvariant,
         \/ \E c \in BuildCommits : CheckoutCommit(c)
         \/ EditWorkTree \/ (\E p \in CacheParts : ChangeCache(p))
         \/ \E t \in Tools : UpgradeTool(t)
  PROVE  BuildInvariant'
<1>1. UNCHANGED <<publishedBuilds, builder, resolver>>
  BY DEF CheckoutCommit, EditWorkTree, ChangeCache, UpgradeTool, Move
<1>2. tool' \in [Tools -> Nat \ {0}]
  BY DEF BuildInvariant, BuildTyped, CheckoutCommit, EditWorkTree, ChangeCache, UpgradeTool, Move
<1>3. UNCHANGED <<engines, buildReceipts, pointer>>
  BY <1>1 DEF publishedBuilds
<1>4. BuildTyped'
  BY <1>1, <1>2, <1>3 DEF BuildInvariant, BuildTyped, BuilderType, Trees, Digests, BuiltBytes
<1>5. Receipt' = Receipt
  BY <1>1 DEF Receipt
<1> QED
  BY <1>1, <1>3, <1>4, <1>5 DEF BuildInvariant, BuilderHolds, ReceiptsAreTrue

\* ReceiptsAreTrue, for any commits, outcomes of a build and number of changes,
\* upgrades, touched copies and kills: every receipt is of a binary that is there,
\* made from the sources of its commit by the tools it records; the pointer and
\* the resolver name such a receipt.
THEOREM EngineBuilds == BuildSpec => []ReceiptsAreTrue
<1>1. BuildInit => BuildInvariant
  BY BuildStarts
<1>2. BuildInvariant /\ [BuildNext]_buildVars => BuildInvariant'
  <2> SUFFICES ASSUME BuildInvariant, [BuildNext]_buildVars PROVE BuildInvariant'
    OBVIOUS
  <2>1. CASE \E c \in BuildCommits : BeginBuild(c)
    BY <2>1, BuildBegins
  <2>2. CASE HashCargo \/ AskCargo \/ HashRustc \/ IdentifyRuntime \/ AskVersion
               \/ ReuseBuild \/ SeedCache
    BY <2>2, BuilderIdentifies
  <2>3. CASE \E t \in Tools : CopyTool(t)
    BY <2>3, BuilderCopies
  <2>4. CASE Seal \/ LaunchBuild \/ AssertAfter
    BY <2>4, BuilderChecks
  <2>5. CASE RunBuild
    BY <2>5, BuildRuns
  <2>6. CASE PublishEngine \/ PublishAlias \/ RecheckHead \/ WriteReceipt \/ ValidateReceipt
               \/ MovePointer
    BY <2>6, BuilderPublishes
  <2>7. CASE KillBuilder \/ \E t \in Tools : TouchPrivate(t)
    BY <2>7, BuilderIsDisturbed
  <2>8. CASE ReadPointer \/ Resolve \/ Release
    BY <2>8, BuildResolves
  <2>9. CASE \/ \E c \in BuildCommits : CheckoutCommit(c)
             \/ EditWorkTree \/ (\E p \in CacheParts : ChangeCache(p))
             \/ \E t \in Tools : UpgradeTool(t)
    BY <2>9, BuildSurroundings
  <2>10. CASE UNCHANGED buildVars
    <3>1. UNCHANGED <<tool, engines, buildReceipts, pointer, builder, resolver>>
      BY <2>10 DEF buildVars, repository, publishedBuilds
    <3>2. BuildTyped'
      BY <3>1 DEF BuildInvariant, BuildTyped, BuilderType, Trees, Digests, BuiltBytes
    <3>3. Receipt' = Receipt
      BY <3>1 DEF Receipt
    <3> QED
      BY <3>1, <3>2, <3>3 DEF BuildInvariant, BuilderHolds, ReceiptsAreTrue
  <2> QED
    BY <2>1, <2>2, <2>3, <2>4, <2>5, <2>6, <2>7, <2>8, <2>9, <2>10 DEF BuildNext
<1>3. BuildInvariant => ReceiptsAreTrue
  BY DEF BuildInvariant
<1> QED
  BY <1>1, <1>2, <1>3, PTL DEF BuildSpec

-----------------------------------------------------------------------------
(* OfficialEvaluation: the inductive invariant                             *)

Exporting == {"run", "log", "receipt"}
Analyzing == {"resume", "start", "search", "report"}
EvaluatorPcs == {"idle", "choose", "read", "bind"} \union Exporting \union Analyzing
EvaluatorType ==
  [pc : EvaluatorPcs, attempt : Nat, code : {"none", "ok", "failed"}, named : Nat, by : Nat]
GameType == {NotPlayed} \union [take : Nat \ {0}, registry : Nat]
AttemptType ==
  [exported : BOOLEAN, output : [Games -> GameType], logs : BOOLEAN, receipt : {"none", "ok", "failed"}]

EvaluationTyped ==
  /\ registry \in Nat \ {0} /\ teacherFiles \in Nat /\ plan \in Nat
  /\ evaluatorKills \in Nat /\ timeouts \in Nat /\ replacements \in Nat
  /\ played \in [Games -> GameType]
  /\ attempts \in [Attempts -> AttemptType]
  /\ evaluator \in [Commands -> EvaluatorType]

\* A row was searched by a teacher that was there when, or after, it was named.
RowsAreDated ==
  /\ analyses = [d \in Decisions |-> analyses[d]]
  /\ \A d \in Decisions :
       /\ analyses[d].named \in Nat /\ analyses[d].by \in Nat
       /\ analyses[d].named <= analyses[d].by /\ analyses[d].by <= teacherFiles

ManifestIsPlanned ==
  plan # 0 /\ \A g \in Games : manifest[g].take > 0 /\ manifest[g].registry = plan

\* Whoever analyzes has a manifest of games that were played as planned.
AnalysisIsPlanned ==
  /\ manifest = NoGames \/ ManifestIsPlanned
  /\ \A c \in Commands : evaluator[c].pc \in Analyzing => ManifestIsPlanned
  /\ evaluator["analyze"].pc \in {"start", "search"} =>
       evaluator["analyze"].named <= teacherFiles
  /\ evaluator["analyze"].pc = "search" =>
       /\ evaluator["analyze"].named <= evaluator["analyze"].by
       /\ evaluator["analyze"].by <= teacherFiles

ReportInvariant ==
  /\ EvaluationTyped /\ RowsAreDated /\ AnalysisIsPlanned
  /\ report # NoReport => plan # 0
  /\ ReportIsOneTeacher

\* One command at a time, which alone has an attempt in its hands.
OneCommand ==
  \A c, d \in Commands : c = d \/ EvaluatorAt(c, "idle") \/ EvaluatorAt(d, "idle")
AtWork(a) == \E c \in Commands : evaluator[c].pc \in Exporting /\ evaluator[c].attempt = a
CutShort == {a \in Attempts : ~AttemptIsFree(a) /\ ~AtWork(a)}
\* An exporter whose command was killed may still fill its attempt.
Deserted == {a \in Attempts : orphans[a] > 0}
Lost == CutShort \union Deserted

\* As long as exporters stay apart, only a kill leaves an attempt behind that no
\* command can use, now or when an orphan ends.
AttemptsAreKnown ==
  /\ OneCommand
  /\ orphans \in [Attempts -> Nat] /\ crowded \in BOOLEAN
  /\ \A c \in Commands :
       evaluator[c].pc \in {"read", "bind"} \union Exporting => evaluator[c].attempt \in Attempts
  /\ timeouts = 0 /\ ~crowded =>
       /\ \A c \in Commands :
            /\ EvaluatorAt(c, "run") =>
                 /\ attempts[evaluator[c].attempt] = Untouched
                 /\ orphans[evaluator[c].attempt] = 0
            /\ EvaluatorAt(c, "log") => ~attempts[evaluator[c].attempt].logs
            /\ EvaluatorAt(c, "log") \/ EvaluatorAt(c, "receipt") =>
                 /\ evaluator[c].code = "ok"
                 /\ attempts[evaluator[c].attempt].receipt = "none"
       /\ \A a \in Attempts : attempts[a].receipt # "failed"
       /\ Cardinality(Lost) <= evaluatorKills

LEMMA EvaluationStarts == EvaluationInit => ReportInvariant /\ AttemptsAreKnown
<1> SUFFICES ASSUME EvaluationInit PROVE ReportInvariant /\ AttemptsAreKnown
  OBVIOUS
<1>1. \A c \in Commands : evaluator[c] = Unstarted
  BY DEF EvaluationInit
<1>2. Unstarted \in EvaluatorType /\ Unstarted.pc = "idle"
  BY DEF Unstarted, EvaluatorType, EvaluatorPcs
<1>3. NoGames \in [Games -> GameType]
  BY DEF NoGames, GameType
<1>4. Untouched \in AttemptType
  BY <1>3 DEF Untouched, AttemptType
<1>5. EvaluationTyped
  BY <1>2, <1>3, <1>4 DEF EvaluationInit, EvaluationTyped
<1>6. RowsAreDated
  BY DEF EvaluationInit, RowsAreDated, NoAnalyses, NoRow
<1>7. AnalysisIsPlanned
  BY <1>1, <1>2 DEF EvaluationInit, AnalysisIsPlanned, Analyzing, Commands
<1>8. report = NoReport
  BY DEF EvaluationInit
<1>9. \A a \in Attempts : attempts[a] = Untouched
  BY DEF EvaluationInit
<1>10. Lost = {} /\ orphans \in [Attempts -> Nat] /\ crowded \in BOOLEAN
  <2>1. orphans = [a \in Attempts |-> 0] /\ crowded = FALSE
    BY DEF EvaluationInit
  <2>2. CutShort = {}
    BY <1>9 DEF CutShort, AttemptIsFree
  <2>3. Deserted = {}
    BY <2>1 DEF Deserted
  <2> QED
    BY <2>1, <2>2, <2>3 DEF Lost
<1>11. Cardinality(Lost) <= evaluatorKills
  BY <1>10, FS_EmptySet DEF EvaluationInit
<1>12. AttemptsAreKnown
  BY <1>1, <1>2, <1>9, <1>10, <1>11
     DEF AttemptsAreKnown, OneCommand, EvaluatorAt, Exporting, Untouched
<1> QED
  BY <1>5, <1>6, <1>7, <1>8, <1>12 DEF ReportInvariant, ReportIsOneTeacher

\* What a step of one command makes of it.
LEMMA EvaluatorSteps ==
  ASSUME EvaluationTyped, NEW c \in Commands
  PROVE  /\ evaluator[c] \in EvaluatorType
         /\ \A v : EvaluatorBecomes(c, v) =>
              \A e \in Commands : evaluator'[e] = IF e = c THEN v ELSE evaluator[e]
         /\ \A v \in EvaluatorType : EvaluatorBecomes(c, v) =>
              evaluator' \in [Commands -> EvaluatorType]
         /\ EvaluatorStops(c) =>
              /\ evaluator' \in [Commands -> EvaluatorType]
              /\ \A e \in Commands :
                   evaluator'[e] = IF e = c THEN Unstarted ELSE evaluator[e]
         /\ \A pc \in EvaluatorPcs : EvaluatorGoes(c, pc) =>
              /\ evaluator' \in [Commands -> EvaluatorType]
              /\ evaluator'[c].pc = pc /\ evaluator'[c].attempt = evaluator[c].attempt
              /\ evaluator'[c].code = evaluator[c].code
              /\ evaluator'[c].named = evaluator[c].named /\ evaluator'[c].by = evaluator[c].by
              /\ \A e \in Commands : e # c => evaluator'[e] = evaluator[e]
<1>1. evaluator \in [Commands -> EvaluatorType]
  BY DEF EvaluationTyped
<1>2. Unstarted \in EvaluatorType
  BY DEF Unstarted, EvaluatorType, EvaluatorPcs
<1>3. \A v : EvaluatorBecomes(c, v) =>
        \A e \in Commands : evaluator'[e] = IF e = c THEN v ELSE evaluator[e]
  BY <1>1 DEF EvaluatorBecomes
<1>4. \A v \in EvaluatorType : EvaluatorBecomes(c, v) => evaluator' \in [Commands -> EvaluatorType]
  BY <1>1 DEF EvaluatorBecomes
<1>5. ASSUME NEW pc \in EvaluatorPcs, EvaluatorGoes(c, pc)
      PROVE  /\ evaluator' \in [Commands -> EvaluatorType]
             /\ evaluator'[c].pc = pc /\ evaluator'[c].attempt = evaluator[c].attempt
             /\ evaluator'[c].code = evaluator[c].code
             /\ evaluator'[c].named = evaluator[c].named /\ evaluator'[c].by = evaluator[c].by
             /\ \A e \in Commands : e # c => evaluator'[e] = evaluator[e]
  <2> DEFINE v == [evaluator[c] EXCEPT !.pc = pc]
  <2>1. /\ v \in EvaluatorType /\ v.pc = pc /\ v.attempt = evaluator[c].attempt
        /\ v.code = evaluator[c].code /\ v.named = evaluator[c].named
        /\ v.by = evaluator[c].by
    BY <1>1 DEF EvaluatorType
  <2>2. evaluator' = [evaluator EXCEPT ![c] = v]
    BY <1>1, <1>5 DEF EvaluatorGoes
  <2> HIDE DEF v
  <2> QED
    BY <1>1, <2>1, <2>2
<1> QED
  BY <1>1, <1>2, <1>3, <1>4, <1>5 DEF EvaluatorStops

-----------------------------------------------------------------------------
-----------------------------------------------------------------------------
(* OfficialEvaluation: what the report tells                               *)

\* The plan is made, games come and go, the teacher and the champion change.
LEMMA InputsMove ==
  ASSUME ReportInvariant,
         \/ BuildPlan \/ (\E g \in Games : PlayGame(g) \/ RemoveGame(g))
         \/ Curate \/ PromoteChampion \/ ReplaceTeacher
  PROVE  ReportInvariant'
<1>1. /\ UNCHANGED <<attempts, manifest, analyses, report, evaluator>>
      /\ plan' = plan \/ (plan = 0 /\ plan' = registry)
      /\ teacherFiles' \in {teacherFiles, teacherFiles + 1}
  BY DEF BuildPlan, PlayGame, RemoveGame, Curate, PromoteChampion, ReplaceTeacher,
     ReplaceInput, officials, evaluationFiles
<1>2. EvaluationTyped'
  <2>1. /\ registry' \in Nat \ {0} /\ teacherFiles' \in Nat /\ plan' \in Nat
        /\ evaluatorKills' \in Nat /\ timeouts' \in Nat /\ replacements' \in Nat
    BY <1>1 DEF ReportInvariant, EvaluationTyped, BuildPlan, PlayGame, RemoveGame, Curate,
       PromoteChampion, ReplaceTeacher, ReplaceInput, officials, evaluationFiles, tallies
  <2>2. played' \in [Games -> GameType]
    <3>1. played \in [Games -> GameType] /\ replacements \in Nat /\ registry \in Nat
      BY DEF ReportInvariant, EvaluationTyped
    <3>2. CASE \E g \in Games : PlayGame(g) \/ RemoveGame(g)
      <4>1. PICK g \in Games : PlayGame(g) \/ RemoveGame(g)
        BY <3>2
      <4>2. PICK v \in GameType : played' = [played EXCEPT ![g] = v]
        BY <3>1, <4>1 DEF PlayGame, RemoveGame, GameType
      <4> QED
        BY <3>1, <4>2
    <3>3. CASE BuildPlan \/ Curate \/ PromoteChampion \/ ReplaceTeacher
      BY <3>1, <3>3 DEF BuildPlan, Curate, PromoteChampion, ReplaceTeacher, officials
    <3> QED
      BY <3>2, <3>3
  <2> QED
    BY <1>1, <2>1, <2>2 DEF ReportInvariant, EvaluationTyped
<1>3. RowsAreDated'
  BY <1>1 DEF ReportInvariant, EvaluationTyped, RowsAreDated
<1>4. ManifestIsPlanned => ManifestIsPlanned'
  BY <1>1 DEF ManifestIsPlanned
<1>5. AnalysisIsPlanned'
  <2>1. evaluator["analyze"].named \in Nat /\ evaluator["analyze"].by \in Nat
    BY DEF ReportInvariant, EvaluationTyped, EvaluatorType, Commands
  <2> QED
    BY <1>1, <1>4, <2>1 DEF ReportInvariant, EvaluationTyped, AnalysisIsPlanned
<1>6. (report # NoReport => plan # 0)' /\ ReportIsOneTeacher'
  BY <1>1 DEF ReportInvariant, ReportIsOneTeacher
<1> QED
  BY <1>2, <1>3, <1>5, <1>6 DEF ReportInvariant

\* A command looks at, makes or binds an attempt, or is killed.
LEMMA ExportingKeepsReport ==
  ASSUME ReportInvariant, NEW c \in Commands,
         \/ Start(c) \/ ChooseAttempt(c) \/ Export(c) \/ TimeOutExporter(c)
         \/ WriteLogs(c) \/ WriteAttemptReceipt(c)
         \/ ReadReceipt(c) \/ WriteGamesManifest(c) \/ KillEvaluator(c)
  PROVE  ReportInvariant'
<1>1. /\ UNCHANGED <<officials, plan, analyses, report>>
      /\ evaluatorKills' \in Nat /\ timeouts' \in Nat /\ replacements' \in Nat
  <2>1. evaluatorKills \in Nat /\ timeouts \in Nat /\ replacements \in Nat
    BY DEF ReportInvariant, EvaluationTyped
  <2>2. CASE Export(c) \/ TimeOutExporter(c)
    BY <2>1, <2>2 DEF Export, TimeOutExporter, tallies
  <2>3. CASE KillEvaluator(c)
    BY <2>1, <2>3 DEF KillEvaluator, evaluationFiles
  <2>4. CASE \/ Start(c) \/ ChooseAttempt(c) \/ WriteLogs(c) \/ WriteAttemptReceipt(c)
             \/ ReadReceipt(c) \/ WriteGamesManifest(c)
    BY <2>1, <2>4 DEF Start, ChooseAttempt, WriteLogs, WriteAttemptReceipt, ReadReceipt,
       WriteGamesManifest, evaluationFiles, tallies
  <2> QED
    BY <2>2, <2>3, <2>4
<1>2. EvaluationTyped
  BY DEF ReportInvariant
<1>3. evaluator[c] \in EvaluatorType /\ Attempts \subseteq Nat
  BY <1>2 DEF EvaluationTyped, Attempts
<1>4. PICK v \in EvaluatorType :
        /\ EvaluatorBecomes(c, v)
        /\ v.pc \in Analyzing =>
             /\ v.pc = "resume"
             /\ \/ manifest # NoGames /\ manifest' = manifest
                \/ manifest' = played /\ Binds(evaluator[c].attempt)
  <2>1. Unstarted \in EvaluatorType /\ Unstarted.pc = "idle"
    BY DEF Unstarted, EvaluatorType, EvaluatorPcs
  <2>2. CASE Start(c)
    <3> DEFINE v == [evaluator[c] EXCEPT !.pc = IF manifest = NoGames THEN "choose" ELSE "resume"]
    <3>1. v \in EvaluatorType /\ (v.pc \in Analyzing => v.pc = "resume" /\ manifest # NoGames)
      BY <1>3 DEF EvaluatorType, EvaluatorPcs, Analyzing
    <3>2. EvaluatorBecomes(c, v) /\ manifest' = manifest
      BY <1>2, <2>2 DEF Start, EvaluatorGoes, EvaluatorBecomes, evaluationFiles, EvaluationTyped
    <3> QED
      BY <3>1, <3>2
  <2>3. CASE ChooseAttempt(c)
    <3>1. CASE EvaluatorStops(c)
      BY <2>1, <3>1 DEF EvaluatorStops, Analyzing
    <3>2. CASE ~EvaluatorStops(c)
      <4>1. PICK a \in Attempts : EvaluatorBecomes(c, [Unstarted EXCEPT !.attempt = a,
                !.pc = IF attempts[a].receipt # "none" THEN "read" ELSE "run"])
        BY <2>3, <3>2 DEF ChooseAttempt
      <4> DEFINE v == [Unstarted EXCEPT !.attempt = a,
                         !.pc = IF attempts[a].receipt # "none" THEN "read" ELSE "run"]
      <4>2. v \in EvaluatorType /\ v.pc \notin Analyzing
        BY <1>3 DEF Unstarted, EvaluatorType, EvaluatorPcs, Exporting, Analyzing
      <4> QED
        BY <4>1, <4>2
    <3> QED
      BY <3>1, <3>2
  <2>4. CASE Export(c) \/ TimeOutExporter(c)
    <3>1. PICK code \in {"ok", "failed"} : Exported(c, code)
      BY <2>4 DEF Export, TimeOutExporter
    <3> DEFINE v == [evaluator[c] EXCEPT !.pc = "log", !.code = code]
    <3>2. v \in EvaluatorType /\ v.pc \notin Analyzing
      BY <1>3 DEF EvaluatorType, EvaluatorPcs, Exporting, Analyzing
    <3> QED
      BY <3>1, <3>2 DEF Exported
  <2>5. CASE WriteLogs(c) \/ WriteAttemptReceipt(c) \/ ReadReceipt(c)
    <3>1. CASE EvaluatorStops(c)
      BY <2>1, <3>1 DEF EvaluatorStops, Analyzing
    <3>2. CASE ~EvaluatorStops(c)
      <4>1. PICK pc \in {"receipt", "read", "bind"} : EvaluatorGoes(c, pc)
        BY <2>5, <3>2 DEF WriteLogs, WriteAttemptReceipt, ReadReceipt
      <4> DEFINE v == [evaluator[c] EXCEPT !.pc = pc]
      <4>2. v \in EvaluatorType /\ v.pc \notin Analyzing
        BY <1>3 DEF EvaluatorType, EvaluatorPcs, Exporting, Analyzing
      <4>3. EvaluatorBecomes(c, v)
        BY <1>2, <4>1 DEF EvaluatorGoes, EvaluatorBecomes, EvaluationTyped
      <4> QED
        BY <4>2, <4>3
    <3> QED
      BY <3>1, <3>2
  <2>6. CASE WriteGamesManifest(c)
    <3>1. CASE EvaluatorStops(c)
      BY <2>1, <3>1 DEF EvaluatorStops, Analyzing
    <3>2. CASE ~EvaluatorStops(c)
      <4> DEFINE v == [Unstarted EXCEPT !.pc = "resume"]
      <4>1. v \in EvaluatorType /\ v.pc = "resume"
        BY DEF Unstarted, EvaluatorType, EvaluatorPcs, Analyzing
      <4>2. EvaluatorBecomes(c, v) /\ manifest' = played /\ Binds(evaluator[c].attempt)
        BY <2>6, <3>2 DEF WriteGamesManifest
      <4> QED
        BY <4>1, <4>2
    <3> QED
      BY <3>1, <3>2
  <2>7. CASE KillEvaluator(c)
    BY <2>1, <2>7 DEF KillEvaluator, EvaluatorStops, Analyzing
  <2> QED
    BY <2>2, <2>3, <2>4, <2>5, <2>6, <2>7
<1>5. /\ evaluator' \in [Commands -> EvaluatorType]
      /\ \A e \in Commands : evaluator'[e] = IF e = c THEN v ELSE evaluator[e]
  BY <1>2, <1>4, EvaluatorSteps
<1>6. attempts' \in [Attempts -> AttemptType]
  <2>0. attempts \in [Attempts -> AttemptType] /\ played \in [Games -> GameType]
        /\ evaluator[c].code \in {"none", "ok", "failed"}
    BY <1>2, <1>3 DEF EvaluationTyped, EvaluatorType
  <2> DEFINE a == evaluator[c].attempt
  <2>1. CASE a \in Attempts
    <3>1. \/ attempts' = attempts
          \/ attempts' = [attempts EXCEPT ![a].exported = TRUE, ![a].output = played]
          \/ attempts' = [attempts EXCEPT ![a].logs = TRUE]
          \/ attempts' = [attempts EXCEPT ![a].receipt = evaluator[c].code]
      BY DEF Start, ChooseAttempt, Export, TimeOutExporter, PlaceOutput, WriteLogs,
         WriteAttemptReceipt, ReadReceipt, WriteGamesManifest, KillEvaluator, evaluationFiles
    <3>2. /\ [attempts[a] EXCEPT !.exported = TRUE, !.output = played] \in AttemptType
          /\ [attempts[a] EXCEPT !.logs = TRUE] \in AttemptType
          /\ [attempts[a] EXCEPT !.receipt = evaluator[c].code] \in AttemptType
      BY <2>0, <2>1 DEF AttemptType
    <3>3. \A w \in AttemptType : [attempts EXCEPT ![a] = w] \in [Attempts -> AttemptType]
      BY <2>0
    <3>4. /\ [attempts EXCEPT ![a].exported = TRUE, ![a].output = played]
               = [attempts EXCEPT ![a] = [attempts[a] EXCEPT !.exported = TRUE, !.output = played]]
          /\ [attempts EXCEPT ![a].logs = TRUE] = [attempts EXCEPT ![a] = [attempts[a] EXCEPT !.logs = TRUE]]
          /\ [attempts EXCEPT ![a].receipt = evaluator[c].code]
               = [attempts EXCEPT ![a] = [attempts[a] EXCEPT !.receipt = evaluator[c].code]]
      BY <2>0, <2>1
    <3> QED
      BY <2>0, <3>1, <3>2, <3>3, <3>4
  <2>2. CASE a \notin Attempts
    BY <2>0, <2>2 DEF Start, ChooseAttempt, Export, TimeOutExporter, PlaceOutput, WriteLogs,
       WriteAttemptReceipt, ReadReceipt, WriteGamesManifest, KillEvaluator, evaluationFiles
  <2> QED
    BY <2>1, <2>2
<1>7. EvaluationTyped'
  BY <1>1, <1>2, <1>5, <1>6 DEF EvaluationTyped, officials
<1>8. RowsAreDated' /\ (report # NoReport => plan # 0)' /\ ReportIsOneTeacher'
  BY <1>1 DEF ReportInvariant, RowsAreDated, ReportIsOneTeacher, officials
<1>9. \/ manifest' = manifest
      \/ manifest' = played /\ Binds(evaluator[c].attempt) /\ manifest = NoGames
  BY DEF Start, ChooseAttempt, Export, TimeOutExporter, WriteLogs, WriteAttemptReceipt,
     ReadReceipt, WriteGamesManifest, KillEvaluator, evaluationFiles
<1>10. ManifestIsPlanned => ManifestIsPlanned'
  <2> SUFFICES ASSUME ManifestIsPlanned, manifest' = played, Binds(evaluator[c].attempt)
               PROVE  ManifestIsPlanned'
    BY <1>1, <1>9 DEF ManifestIsPlanned
  <2> QED
    BY <1>1, <1>2 DEF Binds, IsPlanned, ManifestIsPlanned, PlanHolds, EvaluationTyped,
       GameType, NotPlayed
<1>11. manifest' = played /\ Binds(evaluator[c].attempt) => ManifestIsPlanned'
  BY <1>1, <1>2 DEF Binds, IsPlanned, ManifestIsPlanned, PlanHolds, EvaluationTyped,
     GameType, NotPlayed
<1>12. AnalysisIsPlanned'
  <2>1. manifest' = NoGames \/ ManifestIsPlanned'
    BY <1>9, <1>10, <1>11 DEF ReportInvariant, AnalysisIsPlanned
  <2>2. v.pc \in Analyzing => v.pc = "resume" /\ ManifestIsPlanned'
    BY <1>4, <1>10, <1>11 DEF ReportInvariant, AnalysisIsPlanned
  <2> QED
    BY <1>1, <1>5, <1>10, <2>1, <2>2
       DEF ReportInvariant, AnalysisIsPlanned, Commands, Analyzing, officials
<1> QED
  BY <1>7, <1>8, <1>12 DEF ReportInvariant

\* An exporter that has lost its command fills its attempt, or dies.
LEMMA OrphansKeepReport ==
  ASSUME ReportInvariant, NEW a \in Attempts, OrphanEnds(a)
  PROVE  ReportInvariant'
<1>1. /\ UNCHANGED <<officials, plan, manifest, analyses, report, evaluator, tallies>>
      /\ attempts' = attempts \/ PlaceOutput(a)
  BY DEF OrphanEnds
<1>2. attempts \in [Attempts -> AttemptType] /\ played \in [Games -> GameType]
  BY DEF ReportInvariant, EvaluationTyped
<1>3. attempts' \in [Attempts -> AttemptType]
  <2> DEFINE w == [attempts[a] EXCEPT !.exported = TRUE, !.output = played]
  <2>1. w \in AttemptType
    BY <1>2 DEF AttemptType
  <2>2. PlaceOutput(a) => attempts' = [attempts EXCEPT ![a] = w]
    BY <1>2 DEF PlaceOutput
  <2> HIDE DEF w
  <2> QED
    BY <1>1, <1>2, <2>1, <2>2
<1>4. EvaluationTyped'
  BY <1>1, <1>3 DEF ReportInvariant, EvaluationTyped, officials, tallies
<1> QED
  BY <1>1, <1>4 DEF ReportInvariant, RowsAreDated, AnalysisIsPlanned, ManifestIsPlanned,
     ReportIsOneTeacher, officials

\* The analysis resumes, starts its teacher, ends its search and reports.
LEMMA AnalyzingKeepsReport ==
  ASSUME ReportInvariant, Resume \/ StartTeacher \/ EndSearch \/ WriteReport
  PROVE  ReportInvariant'
<1> DEFINE c == "analyze"
<1>1. /\ UNCHANGED <<officials, plan, attempts, manifest, analyses, tallies>>
      /\ evaluator[c].pc \in Analyzing
  BY DEF Resume, StartTeacher, EndSearch, WriteReport, evaluationFiles, EvaluatorAt, Analyzing
<1>2. EvaluationTyped /\ c \in Commands /\ teacherFiles \in Nat
  BY DEF ReportInvariant, EvaluationTyped, Commands
<1>3. evaluator[c] \in EvaluatorType
  BY <1>2, EvaluatorSteps
<1>4. ManifestIsPlanned /\ ManifestIsPlanned'
  BY <1>1, <1>2 DEF ReportInvariant, AnalysisIsPlanned, ManifestIsPlanned
<1>5. PICK v \in EvaluatorType :
        /\ EvaluatorBecomes(c, v)
        /\ v.pc \in {"start", "search"} => v.named <= teacherFiles
        /\ v.pc = "search" => v.named <= v.by /\ v.by <= teacherFiles
  <2>1. Unstarted \in EvaluatorType /\ Unstarted.pc = "idle"
    BY DEF Unstarted, EvaluatorType, EvaluatorPcs
  <2>2. CASE EvaluatorStops(c)
    BY <2>1, <2>2 DEF EvaluatorStops
  <2>3. CASE Resume /\ ~EvaluatorStops(c)
    <3> DEFINE v == [Unstarted EXCEPT !.pc = IF Written = Decisions THEN "report" ELSE "start",
                                      !.named = teacherFiles]
    <3>1. EvaluatorBecomes(c, v)
      BY <2>3 DEF Resume
    <3>2. v \in EvaluatorType /\ v.named = teacherFiles /\ v.pc # "search"
      BY <1>2 DEF Unstarted, EvaluatorType, EvaluatorPcs, Analyzing
    <3> HIDE DEF v
    <3> QED
      BY <1>2, <3>1, <3>2
  <2>4. CASE StartTeacher
    <3> DEFINE v == [evaluator[c] EXCEPT !.pc = "search", !.by = teacherFiles]
    <3>1. EvaluatorBecomes(c, v) /\ evaluator[c].pc = "start"
      BY <2>4 DEF StartTeacher, EvaluatorAt
    <3>2. /\ v \in EvaluatorType /\ v.named = evaluator[c].named /\ v.by = teacherFiles
      BY <1>2, <1>3 DEF EvaluatorType, EvaluatorPcs, Analyzing
    <3>3. evaluator[c].named <= teacherFiles
      BY <3>1 DEF ReportInvariant, AnalysisIsPlanned
    <3> HIDE DEF v
    <3> QED
      BY <1>2, <3>1, <3>2, <3>3
  <2>5. CASE EndSearch
    <3> DEFINE v == [evaluator[c] EXCEPT !.pc = "report"]
    <3>1. EvaluatorBecomes(c, v)
      BY <1>2, <2>5 DEF EndSearch, EvaluatorGoes, EvaluatorBecomes, EvaluationTyped
    <3>2. v \in EvaluatorType /\ v.pc = "report"
      BY <1>3 DEF EvaluatorType, EvaluatorPcs, Analyzing
    <3> HIDE DEF v
    <3> QED
      BY <3>1, <3>2
  <2> QED
    BY <2>2, <2>3, <2>4, <2>5 DEF WriteReport
<1>6. /\ evaluator' \in [Commands -> EvaluatorType]
      /\ \A e \in Commands : evaluator'[e] = IF e = c THEN v ELSE evaluator[e]
  BY <1>2, <1>5, EvaluatorSteps
<1>7. EvaluationTyped' /\ RowsAreDated'
  BY <1>1, <1>6 DEF ReportInvariant, EvaluationTyped, RowsAreDated, officials, tallies
<1>8. AnalysisIsPlanned'
  BY <1>1, <1>2, <1>4, <1>5, <1>6 DEF AnalysisIsPlanned, officials
<1>9. plan' # 0
  BY <1>4 DEF ManifestIsPlanned
<1>10. ReportIsOneTeacher'
  <2>1. CASE report' = report
    BY <1>1, <2>1 DEF ReportInvariant, ReportIsOneTeacher
  <2>2. CASE report' # report
    <3> DEFINE named == evaluator[c].named
    <3>1. /\ ReportHolds(named)
          /\ report' = [games |-> manifest, rows |-> analyses, teacher |-> named]
      BY <2>2 DEF Resume, StartTeacher, EndSearch, WriteReport, evaluationFiles
    <3>2. \A d \in Decisions : analyses[d].of = manifest[d[1]] /\ analyses[d].by = named
      BY <1>2, <3>1 DEF ReportHolds, IsRowOf, ReportInvariant, RowsAreDated
    <3>3. /\ report'.games = manifest /\ report'.rows = analyses /\ report'.teacher = named
      BY <3>1
    <3> QED
      BY <1>1, <1>4, <3>2, <3>3 DEF ReportIsOneTeacher, ManifestIsPlanned
  <2> QED
    BY <2>1, <2>2
<1> QED
  BY <1>7, <1>8, <1>9, <1>10 DEF ReportInvariant

\* A position is analyzed by the teacher of the search.
LEMMA SearchKeepsReport ==
  ASSUME ReportInvariant, NEW d \in Decisions, AnalyzePosition(d)
  PROVE  ReportInvariant'
<1> DEFINE c == "analyze"
<1>1. /\ UNCHANGED <<officials, plan, attempts, manifest, report, tallies>>
      /\ evaluator[c].pc = "search"
  BY DEF AnalyzePosition, EvaluatorAt
<1>2. EvaluationTyped /\ c \in Commands
  BY DEF ReportInvariant, Commands
<1>3. ManifestIsPlanned => ManifestIsPlanned'
  BY <1>1 DEF ManifestIsPlanned
<1>4. (report # NoReport => plan # 0)' /\ ReportIsOneTeacher'
  BY <1>1 DEF ReportInvariant, ReportIsOneTeacher
<1>5. CASE EvaluatorStops(c) /\ UNCHANGED analyses
  <2>1. /\ evaluator' \in [Commands -> EvaluatorType]
        /\ \A e \in Commands : evaluator'[e] = IF e = c THEN Unstarted ELSE evaluator[e]
    BY <1>2, <1>5, EvaluatorSteps
  <2>2. EvaluationTyped' /\ RowsAreDated'
    BY <1>1, <1>5, <2>1 DEF ReportInvariant, EvaluationTyped, RowsAreDated, officials, tallies
  <2>3. AnalysisIsPlanned'
    BY <1>1, <1>2, <1>3, <2>1
       DEF ReportInvariant, AnalysisIsPlanned, officials, Unstarted, Analyzing
  <2> QED
    BY <1>4, <2>2, <2>3 DEF ReportInvariant
<1>6. CASE UNCHANGED evaluator /\ analyses' = [analyses EXCEPT ![d] = Row(d)]
  <2>1. EvaluationTyped' /\ AnalysisIsPlanned'
    BY <1>1, <1>3, <1>6
       DEF ReportInvariant, EvaluationTyped, AnalysisIsPlanned, officials, tallies
  <2>2. /\ Row(d).named = evaluator[c].named /\ Row(d).by = evaluator[c].by
    BY DEF Row
  <2>3. /\ evaluator[c].named \in Nat /\ evaluator[c].by \in Nat
        /\ evaluator[c].named <= evaluator[c].by /\ evaluator[c].by <= teacherFiles
    BY <1>1, <1>2, EvaluatorSteps DEF ReportInvariant, AnalysisIsPlanned, EvaluatorType
  <2>4. /\ analyses' = [e \in Decisions |-> analyses'[e]]
        /\ \A e \in Decisions : analyses'[e] = IF e = d THEN Row(d) ELSE analyses[e]
    <3>1. analyses = [e \in Decisions |-> analyses[e]]
      BY DEF ReportInvariant, RowsAreDated
    <3> QED
      BY <1>6, <3>1
  <2>5. RowsAreDated'
    BY <1>1, <2>2, <2>3, <2>4 DEF ReportInvariant, RowsAreDated, officials
  <2> QED
    BY <1>4, <2>1, <2>5 DEF ReportInvariant
<1> QED
  BY <1>5, <1>6 DEF AnalyzePosition

LEMMA ReportStep ==
  ASSUME ReportInvariant, [EvaluationNext]_evaluationVars
  PROVE  ReportInvariant'
<1>1. CASE \/ BuildPlan \/ (\E g \in Games : PlayGame(g) \/ RemoveGame(g))
           \/ Curate \/ PromoteChampion \/ ReplaceTeacher
  BY <1>1, InputsMove
<1>2. CASE \E c \in Commands :
             \/ Start(c) \/ ChooseAttempt(c) \/ Export(c) \/ TimeOutExporter(c)
             \/ WriteLogs(c) \/ WriteAttemptReceipt(c) \/ ReadReceipt(c)
             \/ WriteGamesManifest(c) \/ KillEvaluator(c)
  BY <1>2, ExportingKeepsReport
<1>3. CASE Resume \/ StartTeacher \/ EndSearch \/ WriteReport
  BY <1>3, AnalyzingKeepsReport
<1>4. CASE \E d \in Decisions : AnalyzePosition(d)
  BY <1>4, SearchKeepsReport
<1>5. CASE UNCHANGED evaluationVars
  BY <1>5 DEF evaluationVars, officials, evaluationFiles, tallies, ReportInvariant,
     EvaluationTyped, RowsAreDated, AnalysisIsPlanned, ManifestIsPlanned, ReportIsOneTeacher
<1>6. CASE \E a \in Attempts : OrphanEnds(a)
  BY <1>6, OrphansKeepReport
<1> QED
  BY <1>1, <1>2, <1>3, <1>4, <1>5, <1>6 DEF EvaluationNext

\* ReportIsOneTeacher, for any games, plies, attempts and number of kills, time-outs
\* and replacements, whether or not prepare-games runs beside analyze.
THEOREM EvaluationReports == EvaluationSpec => []ReportIsOneTeacher
<1>1. EvaluationInit => ReportInvariant
  BY EvaluationStarts
<1>2. ReportInvariant /\ [EvaluationNext]_evaluationVars => ReportInvariant'
  BY ReportStep
<1>3. ReportInvariant => ReportIsOneTeacher
  BY DEF ReportInvariant
<1> QED
  BY <1>1, <1>2, <1>3, PTL DEF EvaluationSpec

-----------------------------------------------------------------------------
(* OfficialEvaluation: what is left of the attempts                        *)

\* Nothing is added to what is lost, or a kill has added one.
LEMMA CutsCounted ==
  ASSUME Cardinality(Lost) <= evaluatorKills, evaluatorKills \in Nat,
         \/ Lost' \subseteq Lost /\ evaluatorKills' = evaluatorKills
         \/ /\ \E a \in Attempts : Lost' \subseteq Lost \union {a}
            /\ evaluatorKills' = evaluatorKills + 1
  PROVE  (Cardinality(Lost) <= evaluatorKills)'
<1>1. IsFiniteSet(Attempts) /\ Lost \subseteq Attempts
  BY EvaluationAssumption, FS_Interval DEF Attempts, Lost, CutShort, Deserted
<1>2. IsFiniteSet(Lost) /\ Cardinality(Lost) \in Nat
  BY <1>1, FS_Subset, FS_CardinalityType
<1>3. CASE Lost' \subseteq Lost /\ evaluatorKills' = evaluatorKills
  <2>1. Cardinality(Lost') <= Cardinality(Lost) /\ Cardinality(Lost') \in Nat
    BY <1>2, <1>3, FS_Subset, FS_CardinalityType
  <2> QED
    BY <1>2, <1>3, <2>1
<1>4. CASE /\ \E a \in Attempts : Lost' \subseteq Lost \union {a}
           /\ evaluatorKills' = evaluatorKills + 1
  <2>1. PICK a \in Attempts : Lost' \subseteq Lost \union {a}
    BY <1>4
  <2>2. /\ IsFiniteSet(Lost \union {a})
        /\ Cardinality(Lost \union {a}) <= Cardinality(Lost) + 1
        /\ Cardinality(Lost \union {a}) \in Nat
    <3>1. /\ IsFiniteSet(Lost \union {a})
          /\ Cardinality(Lost \union {a}) =
               IF a \in Lost THEN Cardinality(Lost) ELSE Cardinality(Lost) + 1
      BY <1>2, FS_AddElement
    <3> QED
      BY <1>2, <3>1
  <2>3. Cardinality(Lost') <= Cardinality(Lost \union {a})
        /\ Cardinality(Lost') \in Nat
    BY <2>1, <2>2, FS_Subset, FS_CardinalityType
  <2> QED
    BY <1>2, <1>4, <2>2, <2>3
<1> QED
  BY <1>3, <1>4

\* A step that touches no attempt and gives none to a command.
LEMMA NoAttemptMoves ==
  ASSUME EvaluationTyped, AttemptsAreKnown,
         UNCHANGED <<attempts, evaluatorKills, timeouts, exporters>>,
         NEW c \in Commands,
         \A e \in Commands : e # c => evaluator'[e] = evaluator[e],
         OneCommand', evaluator[c].pc \notin Exporting, evaluator'[c].pc \notin Exporting,
         evaluator'[c].pc \in {"read", "bind"} => evaluator'[c].attempt \in Attempts
  PROVE  AttemptsAreKnown'
<1>1. \A a : AtWork(a)' <=> AtWork(a)
  BY DEF AtWork
<1>2. Lost' = Lost /\ orphans' = orphans /\ crowded' = crowded
  BY <1>1 DEF Lost, CutShort, Deserted, AttemptIsFree, exporters
<1>3. timeouts = 0 /\ ~crowded => (Cardinality(Lost) <= evaluatorKills)'
  BY <1>2 DEF AttemptsAreKnown
<1>4. \A e \in Commands : evaluator'[e].pc \in {"read", "bind"} \union Exporting =>
        evaluator'[e].attempt \in Attempts
  BY DEF AttemptsAreKnown
<1>5. timeouts = 0 /\ ~crowded => \A e \in Commands :
        /\ EvaluatorAt(e, "run")' =>
             /\ attempts[evaluator'[e].attempt] = Untouched
             /\ orphans[evaluator'[e].attempt] = 0
        /\ EvaluatorAt(e, "log")' => ~attempts[evaluator'[e].attempt].logs
        /\ EvaluatorAt(e, "log")' \/ EvaluatorAt(e, "receipt")' =>
             /\ evaluator'[e].code = "ok"
             /\ attempts[evaluator'[e].attempt].receipt = "none"
  BY DEF AttemptsAreKnown, EvaluatorAt, Exporting
<1> QED
  BY <1>2, <1>3, <1>4, <1>5 DEF AttemptsAreKnown

\* One command at a time goes on as one command.
LEMMA OneGoesOn ==
  ASSUME OneCommand, NEW c \in Commands, ~EvaluatorAt(c, "idle"),
         \A e \in Commands : e # c => evaluator'[e] = evaluator[e]
  PROVE  OneCommand'
BY DEF OneCommand, EvaluatorAt

\* A command whose attempt is its own works on it.
LEMMA AttemptIsMade ==
  ASSUME EvaluationTyped, AttemptsAreKnown, NEW c \in Commands,
         Export(c) \/ WriteLogs(c) \/ WriteAttemptReceipt(c)
  PROVE  AttemptsAreKnown'
<1> DEFINE a == evaluator[c].attempt
<1>1. evaluator[c].pc \in Exporting /\ ~EvaluatorAt(c, "idle") /\ a \in Attempts
  BY DEF Export, WriteLogs, WriteAttemptReceipt, EvaluatorAt, Exporting, AttemptsAreKnown
<1>2. /\ attempts \in [Attempts -> AttemptType] /\ evaluator \in [Commands -> EvaluatorType]
      /\ evaluatorKills \in Nat /\ UNCHANGED <<evaluatorKills, timeouts, orphans, crowded>>
      /\ orphans \in [Attempts -> Nat] /\ crowded \in BOOLEAN
  BY DEF EvaluationTyped, AttemptsAreKnown, Export, WriteLogs, WriteAttemptReceipt, exporters, tallies
<1>3. /\ \A e \in Commands : e # c => evaluator'[e] = evaluator[e]
      /\ evaluator'[c] = Unstarted \/ evaluator'[c].attempt = a
      /\ evaluator'[c].pc \in {"idle", "log", "receipt", "read"}
  <2>1. CASE EvaluatorStops(c)
    BY <2>1, EvaluatorSteps DEF Unstarted
  <2>2. CASE \E code \in {"ok", "failed"} : Exported(c, code)
    <3>1. PICK code \in {"ok", "failed"} : Exported(c, code)
      BY <2>2
    <3> DEFINE v == [evaluator[c] EXCEPT !.pc = "log", !.code = code]
    <3>2. v.pc = "log" /\ v.attempt = a
      BY <1>2 DEF EvaluatorType
    <3>3. EvaluatorBecomes(c, v)
      BY <3>1 DEF Exported
    <3> HIDE DEF v
    <3> QED
      BY <3>2, <3>3, EvaluatorSteps
  <2>3. CASE \E pc \in {"receipt", "read"} : EvaluatorGoes(c, pc)
    BY <2>3, EvaluatorSteps DEF EvaluatorPcs, Exporting
  <2> QED
    BY <2>1, <2>2, <2>3 DEF Export, WriteLogs, WriteAttemptReceipt
<1>4. OneCommand' /\ \A e \in Commands : e # c => EvaluatorAt(e, "idle") /\ EvaluatorAt(e, "idle")'
  BY <1>1, <1>3, OneGoesOn DEF AttemptsAreKnown, OneCommand, EvaluatorAt
<1>5. \A e \in Commands : evaluator'[e].pc \in {"read", "bind"} \union Exporting =>
        evaluator'[e].attempt \in Attempts
  BY <1>1, <1>3, <1>4 DEF EvaluatorAt, Exporting, Unstarted
<1>6. \A b \in Attempts : b # a => attempts'[b] = attempts[b]
  BY <1>2 DEF Export, PlaceOutput, WriteLogs, WriteAttemptReceipt
<1>7. SUFFICES ASSUME timeouts' = 0, ~crowded'
      PROVE  /\ \A e \in Commands :
                  /\ EvaluatorAt(e, "run")' =>
                       /\ attempts'[evaluator'[e].attempt] = Untouched
                       /\ orphans'[evaluator'[e].attempt] = 0
                  /\ EvaluatorAt(e, "log")' => ~attempts'[evaluator'[e].attempt].logs
                  /\ EvaluatorAt(e, "log")' \/ EvaluatorAt(e, "receipt")' =>
                       /\ evaluator'[e].code = "ok"
                       /\ attempts'[evaluator'[e].attempt].receipt = "none"
             /\ \A b \in Attempts : attempts'[b].receipt # "failed"
             /\ (Cardinality(Lost) <= evaluatorKills)'
  BY <1>2, <1>4, <1>5 DEF AttemptsAreKnown
<1>8. timeouts = 0 /\ ~crowded
  BY <1>2, <1>7
<1>9. attempts[a] \in AttemptType /\ evaluator[c] \in EvaluatorType
  BY <1>1, <1>2
<1>10. CASE Export(c)
  <2>1. attempts[a] = Untouched
    BY <1>8, <1>10 DEF Export, AttemptsAreKnown
  <2>2. Exported(c, "ok") /\ attempts' = [attempts EXCEPT ![a].exported = TRUE, ![a].output = played]
    BY <1>10, <2>1 DEF Export, IsExported, PlaceOutput, Untouched
  <2>3. attempts'[a].logs = FALSE /\ attempts'[a].receipt = "none"
    BY <1>1, <1>2, <1>9, <2>1, <2>2 DEF Untouched, AttemptType
  <2> DEFINE v == [evaluator[c] EXCEPT !.pc = "log", !.code = "ok"]
  <2>4. v.pc = "log" /\ v.attempt = a /\ v.code = "ok"
    BY <1>9 DEF EvaluatorType
  <2>5. evaluator'[c] = v
    <3>1. EvaluatorBecomes(c, v)
      BY <2>2 DEF Exported
    <3> HIDE DEF v
    <3> QED
      BY <3>1, EvaluatorSteps
  <2> HIDE DEF v
  <2>6. \A b : AtWork(b)' <=> AtWork(b)
    BY <1>1, <1>3, <2>4, <2>5 DEF AtWork, Exporting
  <2>7. AtWork(a)
    BY <1>1 DEF AtWork
  <2>8. Lost' \subseteq Lost
    BY <1>2, <1>6, <2>6, <2>7 DEF Lost, CutShort, Deserted, AttemptIsFree
  <2>9. (Cardinality(Lost) <= evaluatorKills)'
    BY <1>2, <1>8, <2>8, CutsCounted DEF AttemptsAreKnown
  <2>10. \A b \in Attempts : attempts'[b].receipt # "failed"
    BY <1>6, <1>8, <2>3 DEF AttemptsAreKnown
  <2> QED
    BY <1>4, <2>3, <2>4, <2>5, <2>9, <2>10 DEF EvaluatorAt
<1>11. CASE WriteLogs(c)
  <2>1. /\ ~attempts[a].logs /\ attempts[a].receipt = "none" /\ evaluator[c].code = "ok"
    BY <1>8, <1>11 DEF WriteLogs, AttemptsAreKnown
  <2>2. EvaluatorGoes(c, "receipt") /\ attempts' = [attempts EXCEPT ![a].logs = TRUE]
    BY <1>11, <2>1 DEF WriteLogs
  <2>3. attempts'[a].receipt = "none"
    BY <1>1, <1>2, <1>9, <2>1, <2>2 DEF AttemptType
  <2>4. evaluator'[c].pc = "receipt" /\ evaluator'[c].attempt = a /\ evaluator'[c].code = "ok"
    BY <2>1, <2>2, EvaluatorSteps DEF EvaluatorPcs, Exporting
  <2>5. \A b : AtWork(b)' <=> AtWork(b)
    BY <1>1, <1>3, <2>4 DEF AtWork, Exporting
  <2>6. AtWork(a)
    BY <1>1 DEF AtWork
  <2>7. Lost' \subseteq Lost
    BY <1>2, <1>6, <2>5, <2>6 DEF Lost, CutShort, Deserted, AttemptIsFree
  <2>8. (Cardinality(Lost) <= evaluatorKills)'
    BY <1>2, <1>8, <2>7, CutsCounted DEF AttemptsAreKnown
  <2>9. \A b \in Attempts : attempts'[b].receipt # "failed"
    BY <1>6, <1>8, <2>3 DEF AttemptsAreKnown
  <2> QED
    BY <1>4, <2>3, <2>4, <2>8, <2>9 DEF EvaluatorAt
<1>12. CASE WriteAttemptReceipt(c)
  <2>1. evaluator[c].code = "ok"
    BY <1>8, <1>12 DEF WriteAttemptReceipt, AttemptsAreKnown
  <2>2. EvaluatorGoes(c, "read") /\ attempts' = [attempts EXCEPT ![a].receipt = "ok"]
    BY <1>12, <2>1 DEF WriteAttemptReceipt
  <2>3. attempts'[a].receipt = "ok"
    BY <1>1, <1>2, <1>9, <2>2 DEF AttemptType
  <2>4. evaluator'[c].pc = "read"
    BY <2>2, EvaluatorSteps DEF EvaluatorPcs
  <2>5. \A b : b # a => (AtWork(b)' <=> AtWork(b))
    BY <1>1, <1>3, <1>4, <2>4 DEF AtWork, Exporting, EvaluatorAt
  <2>6. Lost' \subseteq Lost
    BY <1>2, <1>6, <2>3, <2>5 DEF Lost, CutShort, Deserted, AttemptIsFree
  <2>7. (Cardinality(Lost) <= evaluatorKills)'
    BY <1>2, <1>8, <2>6, CutsCounted DEF AttemptsAreKnown
  <2>8. \A b \in Attempts : attempts'[b].receipt # "failed"
    BY <1>6, <1>8, <2>3 DEF AttemptsAreKnown
  <2> QED
    BY <1>4, <2>4, <2>7, <2>8 DEF EvaluatorAt
<1> QED
  BY <1>10, <1>11, <1>12

\* An attempt is taken that nobody has begun, or that has a receipt.
LEMMA AttemptIsChosen ==
  ASSUME EvaluationTyped, AttemptsAreKnown, NEW c \in Commands, ChooseAttempt(c)
  PROVE  AttemptsAreKnown'
<1>1. /\ EvaluatorAt(c, "choose") /\ UNCHANGED <<attempts, evaluatorKills, timeouts, orphans>>
      /\ evaluatorKills \in Nat /\ orphans \in [Attempts -> Nat] /\ crowded \in BOOLEAN
  BY DEF ChooseAttempt, evaluationFiles, tallies, EvaluationTyped, AttemptsAreKnown
<1>0. Unstarted.pc = "idle" /\ Unstarted.attempt = 0
  BY DEF Unstarted
<1>2. CASE EvaluatorStops(c) /\ UNCHANGED crowded
  <2>1. \A e \in Commands : evaluator'[e] = IF e = c THEN Unstarted ELSE evaluator[e]
    BY <1>2, EvaluatorSteps
  <2>2. OneCommand'
    BY <1>1, <2>1, OneGoesOn DEF AttemptsAreKnown, EvaluatorAt
  <2> QED
    BY <1>0, <1>1, <1>2, <2>1, <2>2, NoAttemptMoves DEF EvaluatorAt, Exporting, exporters
<1>3. CASE ~(EvaluatorStops(c) /\ UNCHANGED crowded)
  <2>1. PICK a \in Attempts :
          /\ AttemptIsFree(a)
          /\ EvaluatorBecomes(c, [Unstarted EXCEPT !.attempt = a,
               !.pc = IF attempts[a].receipt # "none" THEN "read" ELSE "run"])
          /\ crowded' = (crowded \/ (attempts[a].receipt = "none" /\ ExporterRuns(a)))
    BY <1>3 DEF ChooseAttempt
  <2> DEFINE v == [Unstarted EXCEPT !.attempt = a,
                     !.pc = IF attempts[a].receipt # "none" THEN "read" ELSE "run"]
  <2>2. v.attempt = a /\ v.pc = IF attempts[a].receipt # "none" THEN "read" ELSE "run"
    BY DEF Unstarted
  <2>3. \A e \in Commands : evaluator'[e] = IF e = c THEN v ELSE evaluator[e]
    <3> HIDE DEF v
    <3>1. EvaluatorBecomes(c, v)
      BY <2>1 DEF v
    <3> QED
      BY <3>1, EvaluatorSteps
  <2> HIDE DEF v
  <2>4. OneCommand' /\ \A e \in Commands : e # c => EvaluatorAt(e, "idle")
    BY <1>1, <2>3, OneGoesOn DEF AttemptsAreKnown, EvaluatorAt, OneCommand
  <2>5. CASE attempts[a].receipt # "none"
    BY <1>1, <2>1, <2>2, <2>3, <2>4, <2>5, NoAttemptMoves DEF EvaluatorAt, Exporting, exporters
  <2>6. CASE attempts[a].receipt = "none"
    <3>1. attempts[a] = Untouched /\ v.pc = "run"
      BY <2>1, <2>2, <2>6 DEF AttemptIsFree
    <3>2. \A b \in Attempts : b # a => (AtWork(b)' <=> AtWork(b))
      BY <1>1, <2>2, <2>3, <3>1 DEF AtWork, EvaluatorAt, Exporting
    <3>3. Lost' \subseteq Lost
      BY <1>1, <2>1, <3>2 DEF Lost, CutShort, Deserted, AttemptIsFree
    <3>4. timeouts' = 0 /\ ~crowded' => (Cardinality(Lost) <= evaluatorKills)'
      BY <1>1, <2>1, <3>3, CutsCounted DEF AttemptsAreKnown
    <3>5. \A e \in Commands : evaluator'[e].pc \in {"read", "bind"} \union Exporting =>
            evaluator'[e].attempt \in Attempts
      BY <2>2, <2>3 DEF AttemptsAreKnown
    <3>6. timeouts' = 0 /\ ~crowded' => \A e \in Commands :
            /\ EvaluatorAt(e, "run")' =>
                 /\ attempts[evaluator'[e].attempt] = Untouched
                 /\ orphans[evaluator'[e].attempt] = 0
            /\ EvaluatorAt(e, "log")' => ~attempts[evaluator'[e].attempt].logs
            /\ EvaluatorAt(e, "log")' \/ EvaluatorAt(e, "receipt")' =>
                 /\ evaluator'[e].code = "ok"
                 /\ attempts[evaluator'[e].attempt].receipt = "none"
      <4>1. ~crowded' => orphans[a] = 0
        <5>1. ExporterRuns(a) => crowded'
          BY <2>1, <2>6
        <5>2. orphans[a] > 0 => ExporterRuns(a)
          BY DEF ExporterRuns
        <5>3. orphans[a] \in Nat
          BY <1>1
        <5> QED
          BY <5>1, <5>2, <5>3
      <4> QED
        BY <1>1, <2>1, <2>2, <2>3, <2>4, <3>1, <4>1 DEF AttemptsAreKnown, EvaluatorAt
    <3>7. crowded' \in BOOLEAN
      BY <2>1
    <3>8. \A b \in Attempts : timeouts' = 0 /\ ~crowded' => attempts'[b].receipt # "failed"
      BY <1>1, <2>1 DEF AttemptsAreKnown
    <3> QED
      BY <1>1, <2>4, <3>4, <3>5, <3>6, <3>7, <3>8 DEF AttemptsAreKnown
  <2> QED
    BY <2>5, <2>6
<1> QED
  BY <1>2, <1>3

\* A killed command leaves at most the attempt it had in its hands.
LEMMA KillLeavesOne ==
  ASSUME EvaluationTyped, AttemptsAreKnown, NEW c \in Commands, KillEvaluator(c)
  PROVE  AttemptsAreKnown'
<1> DEFINE a == evaluator[c].attempt
<1>1. /\ ~EvaluatorAt(c, "idle") /\ UNCHANGED <<attempts, timeouts, crowded>>
      /\ evaluatorKills' = evaluatorKills + 1 /\ evaluatorKills \in Nat /\ EvaluatorStops(c)
      /\ orphans' = IF EvaluatorAt(c, "run") THEN [orphans EXCEPT ![a] = @ + 1] ELSE orphans
      /\ orphans \in [Attempts -> Nat] /\ crowded \in BOOLEAN
  BY DEF KillEvaluator, evaluationFiles, EvaluationTyped, AttemptsAreKnown
<1>0. orphans' \in [Attempts -> Nat] /\ \A b \in Attempts : b # a => orphans'[b] = orphans[b]
  <2>1. [orphans EXCEPT ![a] = @ + 1] \in [Attempts -> Nat]
    <3>1. CASE a \in Attempts
      BY <1>1, <3>1
    <3>2. CASE a \notin Attempts
      BY <1>1, <3>2
    <3> QED
      BY <3>1, <3>2
  <2>2. \A b \in Attempts : b # a => [orphans EXCEPT ![a] = @ + 1][b] = orphans[b]
    BY <1>1
  <2> QED
    BY <1>1, <2>1, <2>2
<1>2. \A e \in Commands : evaluator'[e] = IF e = c THEN Unstarted ELSE evaluator[e]
  BY <1>1, EvaluatorSteps
<1>3. OneCommand' /\ \A e \in Commands : EvaluatorAt(e, "idle")'
  BY <1>1, <1>2, OneGoesOn DEF AttemptsAreKnown, OneCommand, EvaluatorAt, Unstarted
<1>4. timeouts = 0 /\ ~crowded => (Cardinality(Lost) <= evaluatorKills)'
  <2>1. Lost' \subseteq Lost \union {a}
    BY <1>0, <1>1, <1>2 DEF Lost, CutShort, Deserted, AttemptIsFree, AtWork
  <2>2. CASE a \in Attempts
    BY <1>1, <2>1, <2>2, CutsCounted DEF AttemptsAreKnown
  <2>3. CASE a \notin Attempts
    <3>1. Lost' \subseteq Attempts
      BY DEF Lost, CutShort, Deserted
    <3>2. Lost' \subseteq Lost
      BY <2>1, <2>3, <3>1
    <3>3. timeouts = 0 /\ ~crowded => Cardinality(Lost) <= evaluatorKills
      BY DEF AttemptsAreKnown
    <3>4. IsFiniteSet(Lost)
      <4>1. IsFiniteSet(Attempts) /\ Lost \subseteq Attempts
        BY EvaluationAssumption, FS_Interval DEF Attempts, Lost, CutShort, Deserted
      <4> QED
        BY <4>1, FS_Subset
    <3>5. /\ Cardinality(Lost') <= Cardinality(Lost)
          /\ Cardinality(Lost') \in Nat /\ Cardinality(Lost) \in Nat
      BY <3>2, <3>4, FS_Subset, FS_CardinalityType
    <3> QED
      BY <1>1, <3>3, <3>5
  <2> QED
    BY <2>2, <2>3
<1> QED
  BY <1>0, <1>1, <1>3, <1>4 DEF AttemptsAreKnown, EvaluatorAt, Exporting

\* An exporter that ran into its deadline: nothing more is claimed of the attempts.
LEMMA LateExporter ==
  ASSUME EvaluationTyped, AttemptsAreKnown, NEW c \in Commands, TimeOutExporter(c)
  PROVE  AttemptsAreKnown'
<1> DEFINE a == evaluator[c].attempt
           v == [evaluator[c] EXCEPT !.pc = "log", !.code = "failed"]
<1>1. /\ EvaluatorAt(c, "run") /\ timeouts' = timeouts + 1 /\ timeouts \in Nat
      /\ UNCHANGED <<orphans, crowded>> /\ a \in Attempts
      /\ orphans \in [Attempts -> Nat] /\ crowded \in BOOLEAN /\ OneCommand
  BY DEF TimeOutExporter, exporters, EvaluationTyped, AttemptsAreKnown, EvaluatorAt, Exporting
<1>2. v.attempt = a /\ v.pc = "log"
  BY DEF EvaluationTyped, EvaluatorType
<1>3. \A e \in Commands : evaluator'[e] = IF e = c THEN v ELSE evaluator[e]
  <2>1. EvaluatorBecomes(c, v)
    BY DEF TimeOutExporter, Exported
  <2> HIDE DEF v
  <2> QED
    BY <2>1, EvaluatorSteps
<1> HIDE DEF v
<1>4. OneCommand'
  BY <1>1, <1>3, OneGoesOn DEF EvaluatorAt
<1>5. \A e \in Commands : evaluator'[e].pc \in {"read", "bind"} \union Exporting =>
        evaluator'[e].attempt \in Attempts
  BY <1>1, <1>2, <1>3 DEF AttemptsAreKnown
<1> QED
  BY <1>1, <1>4, <1>5 DEF AttemptsAreKnown

\* An exporter that has lost its command, and had its attempt for itself.
LEMMA OrphanLosesNone ==
  ASSUME EvaluationTyped, AttemptsAreKnown, NEW a \in Attempts, OrphanEnds(a)
  PROVE  AttemptsAreKnown'
<1>1. /\ UNCHANGED <<evaluator, crowded, evaluatorKills, timeouts>> /\ evaluatorKills \in Nat
      /\ orphans[a] > 0 /\ orphans' = [orphans EXCEPT ![a] = @ - 1]
      /\ orphans \in [Attempts -> Nat]
      /\ attempts' = attempts \/ PlaceOutput(a)
      /\ attempts \in [Attempts -> AttemptType]
  BY DEF OrphanEnds, tallies, EvaluationTyped, AttemptsAreKnown
<1>2. orphans' \in [Attempts -> Nat] /\ \A b \in Attempts : b # a => orphans'[b] = orphans[b]
  BY <1>1
<1>3. /\ \A b \in Attempts : b # a => attempts'[b] = attempts[b]
      /\ attempts'[a].receipt = attempts[a].receipt /\ attempts'[a].logs = attempts[a].logs
  <2>1. attempts[a] \in AttemptType
    BY <1>1
  <2>2. CASE PlaceOutput(a)
    <3>1. attempts' = [attempts EXCEPT ![a] = [attempts[a] EXCEPT !.exported = TRUE, !.output = played]]
      BY <1>1, <2>2 DEF PlaceOutput
    <3> DEFINE w == [attempts[a] EXCEPT !.exported = TRUE, !.output = played]
    <3>2. w.receipt = attempts[a].receipt /\ w.logs = attempts[a].logs
      BY <2>1 DEF AttemptType
    <3>3. attempts' = [attempts EXCEPT ![a] = w]
      BY <3>1
    <3> HIDE DEF w
    <3> QED
      BY <1>1, <3>2, <3>3
  <2> QED
    BY <1>1, <2>2
<1>4. Lost' \subseteq Lost
  BY <1>1, <1>2, <1>3 DEF Lost, CutShort, Deserted, AttemptIsFree, AtWork
<1>5. timeouts = 0 /\ ~crowded => (Cardinality(Lost) <= evaluatorKills)'
  BY <1>1, <1>4, CutsCounted DEF AttemptsAreKnown
<1>6. timeouts = 0 /\ ~crowded => \A e \in Commands :
        /\ EvaluatorAt(e, "run") =>
             /\ attempts'[evaluator[e].attempt] = Untouched
             /\ orphans'[evaluator[e].attempt] = 0
        /\ EvaluatorAt(e, "log") => ~attempts'[evaluator[e].attempt].logs
        /\ EvaluatorAt(e, "log") \/ EvaluatorAt(e, "receipt") =>
             /\ evaluator[e].code = "ok"
             /\ attempts'[evaluator[e].attempt].receipt = "none"
  <2> SUFFICES ASSUME timeouts = 0, ~crowded, NEW e \in Commands, evaluator[e].pc \in Exporting
               PROVE  /\ EvaluatorAt(e, "run") =>
                           /\ attempts'[evaluator[e].attempt] = Untouched
                           /\ orphans'[evaluator[e].attempt] = 0
                      /\ EvaluatorAt(e, "log") => ~attempts'[evaluator[e].attempt].logs
                      /\ EvaluatorAt(e, "log") \/ EvaluatorAt(e, "receipt") =>
                           /\ evaluator[e].code = "ok"
                           /\ attempts'[evaluator[e].attempt].receipt = "none"
    BY DEF EvaluatorAt, Exporting
  <2> DEFINE b == evaluator[e].attempt
  <2>1. b \in Attempts
    BY DEF AttemptsAreKnown
  <2>2. EvaluatorAt(e, "run") => b # a
    BY <1>1 DEF AttemptsAreKnown
  <2> QED
    BY <1>2, <1>3, <2>1, <2>2 DEF AttemptsAreKnown
<1>7. timeouts = 0 /\ ~crowded => \A b \in Attempts : attempts'[b].receipt # "failed"
  BY <1>3 DEF AttemptsAreKnown
<1> QED
  BY <1>1, <1>2, <1>5, <1>6, <1>7 DEF AttemptsAreKnown, OneCommand, EvaluatorAt

\* Every other step of a command.
LEMMA OtherStepsKeepAttempts ==
  ASSUME ~Overlaps, EvaluationTyped, AttemptsAreKnown,
         \/ \E c \in Commands : Start(c) \/ ReadReceipt(c) \/ WriteGamesManifest(c)
         \/ Resume \/ StartTeacher \/ EndSearch \/ WriteReport
         \/ \E d \in Decisions : AnalyzePosition(d)
  PROVE  AttemptsAreKnown'
<1>0. UNCHANGED <<attempts, evaluatorKills, timeouts, exporters>>
  BY DEF Start, ReadReceipt, WriteGamesManifest, Resume, StartTeacher, EndSearch, WriteReport,
     AnalyzePosition, evaluationFiles, tallies
<1>1. "analyze" \in Commands
  BY DEF Commands
<1>2. ASSUME NEW c \in Commands, Start(c)
      PROVE  AttemptsAreKnown'
  <2>1. /\ \A e \in Commands : EvaluatorAt(e, "idle")
        /\ EvaluatorGoes(c, IF manifest = NoGames THEN "choose" ELSE "resume")
    BY <1>2 DEF Start
  <2>2. /\ evaluator'[c].pc \in {"choose", "resume"}
        /\ \A e \in Commands : e # c => evaluator'[e] = evaluator[e]
    BY <2>1, EvaluatorSteps DEF EvaluatorPcs, Analyzing
  <2>3. OneCommand'
    BY <2>1, <2>2 DEF OneCommand, EvaluatorAt
  <2> QED
    BY <1>0, <2>1, <2>2, <2>3, NoAttemptMoves DEF EvaluatorAt, Exporting
<1>3. ASSUME NEW c \in Commands, NEW v, EvaluatorBecomes(c, v),
             ~EvaluatorAt(c, "idle"), evaluator[c].pc \notin Exporting,
             v.pc \notin Exporting \union {"read", "bind"}
      PROVE  AttemptsAreKnown'
  <2>1. \A e \in Commands : evaluator'[e] = IF e = c THEN v ELSE evaluator[e]
    BY <1>3, EvaluatorSteps
  <2>2. OneCommand'
    BY <1>3, <2>1, OneGoesOn DEF AttemptsAreKnown
  <2> QED
    BY <1>0, <1>3, <2>1, <2>2, NoAttemptMoves
<1>4. ASSUME NEW c \in Commands, EvaluatorStops(c),
             ~EvaluatorAt(c, "idle"), evaluator[c].pc \notin Exporting
      PROVE  AttemptsAreKnown'
  BY <1>3, <1>4 DEF EvaluatorStops, Unstarted, Exporting
<1>5. ASSUME NEW c \in Commands, ReadReceipt(c)
      PROVE  AttemptsAreKnown'
  <2>1. EvaluatorAt(c, "read")
    BY <1>5 DEF ReadReceipt
  <2>2. CASE EvaluatorStops(c)
    BY <1>4, <2>1, <2>2 DEF EvaluatorAt, Exporting
  <2>3. CASE EvaluatorGoes(c, "bind")
    <3>1. /\ evaluator'[c].pc = "bind" /\ evaluator'[c].attempt = evaluator[c].attempt
          /\ \A e \in Commands : e # c => evaluator'[e] = evaluator[e]
      BY <2>3, EvaluatorSteps DEF EvaluatorPcs
    <3>2. evaluator[c].attempt \in Attempts
      BY <2>1 DEF AttemptsAreKnown, EvaluatorAt
    <3>3. OneCommand'
      BY <2>1, <3>1, OneGoesOn DEF AttemptsAreKnown, EvaluatorAt
    <3> QED
      BY <1>0, <2>1, <3>1, <3>2, <3>3, NoAttemptMoves DEF EvaluatorAt, Exporting
  <2> QED
    BY <1>5, <2>2, <2>3 DEF ReadReceipt
<1>6. ASSUME NEW c \in Commands, WriteGamesManifest(c)
      PROVE  AttemptsAreKnown'
  <2>1. EvaluatorAt(c, "bind")
    BY <1>6 DEF WriteGamesManifest
  <2>2. CASE EvaluatorStops(c)
    BY <1>4, <2>1, <2>2 DEF EvaluatorAt, Exporting
  <2>3. CASE EvaluatorBecomes(c, [Unstarted EXCEPT !.pc = "resume"])
    <3> DEFINE v == [Unstarted EXCEPT !.pc = "resume"]
    <3>1. v.pc = "resume"
      BY DEF Unstarted
    <3> HIDE DEF v
    <3>2. EvaluatorBecomes(c, v)
      BY <2>3 DEF v
    <3> QED
      BY <1>3, <2>1, <3>1, <3>2 DEF EvaluatorAt, Exporting
  <2> QED
    BY <1>6, <2>2, <2>3 DEF WriteGamesManifest
<1>7. CASE Resume \/ StartTeacher \/ EndSearch \/ WriteReport
  <2> DEFINE c == "analyze"
  <2>1. /\ ~EvaluatorAt(c, "idle") /\ evaluator[c].pc \notin Exporting
    BY <1>7 DEF Resume, StartTeacher, EndSearch, WriteReport, EvaluatorAt, Exporting
  <2>2. CASE EvaluatorStops(c)
    BY <1>1, <1>4, <2>1, <2>2
  <2>3. CASE ~EvaluatorStops(c)
    <3>0. evaluator[c] \in EvaluatorType /\ evaluator \in [Commands -> EvaluatorType]
      BY <1>1 DEF EvaluationTyped
    <3>1. \E v : EvaluatorBecomes(c, v) /\ v.pc \in {"start", "search", "report"}
      <4>1. CASE Resume
        <5> DEFINE v == [Unstarted EXCEPT !.pc = IF Written = Decisions THEN "report" ELSE "start",
                                          !.named = teacherFiles]
        <5>1. v.pc \in {"start", "report"}
          BY DEF Unstarted
        <5>2. EvaluatorBecomes(c, v)
          BY <2>3, <4>1 DEF Resume
        <5> QED
          BY <5>1, <5>2
      <4>2. CASE StartTeacher
        <5> DEFINE v == [evaluator[c] EXCEPT !.pc = "search", !.by = teacherFiles]
        <5>1. v.pc = "search"
          BY <3>0 DEF EvaluatorType
        <5>2. EvaluatorBecomes(c, v)
          BY <4>2 DEF StartTeacher
        <5> QED
          BY <5>1, <5>2
      <4>3. CASE EndSearch
        <5> DEFINE v == [evaluator[c] EXCEPT !.pc = "report"]
        <5>1. v.pc = "report"
          BY <3>0 DEF EvaluatorType
        <5>2. EvaluatorBecomes(c, v)
          BY <3>0, <4>3 DEF EndSearch, EvaluatorGoes, EvaluatorBecomes
        <5> QED
          BY <5>1, <5>2
      <4> QED
        BY <1>7, <2>3, <4>1, <4>2, <4>3 DEF WriteReport
    <3>2. PICK v : EvaluatorBecomes(c, v) /\ v.pc \in {"start", "search", "report"}
      BY <3>1
    <3> QED
      BY <1>1, <1>3, <2>1, <3>2 DEF Exporting
  <2> QED
    BY <2>2, <2>3
<1>8. CASE \E d \in Decisions : AnalyzePosition(d)
  <2>1. EvaluatorAt("analyze", "search")
    BY <1>8 DEF AnalyzePosition
  <2>2. CASE EvaluatorStops("analyze")
    BY <1>1, <1>4, <2>1, <2>2 DEF EvaluatorAt, Exporting
  <2>3. CASE UNCHANGED evaluator
    <3>1. OneCommand'
      BY <2>3 DEF AttemptsAreKnown, OneCommand, EvaluatorAt
    <3> QED
      BY <1>0, <1>1, <2>1, <2>3, <3>1, NoAttemptMoves DEF EvaluatorAt, Exporting
  <2> QED
    BY <1>8, <2>2, <2>3 DEF AnalyzePosition
<1> QED
  BY <1>2, <1>5, <1>6, <1>7, <1>8

\* With the analysis and the preparation one after the other, a state is recoverable.
LEMMA RecoverableSuffices ==
  ASSUME EvaluationTyped, AttemptsAreKnown
  PROVE  KillsAreRecoverable
<1> SUFFICES ASSUME evaluatorKills < MaxAttempts, timeouts = 0, ~crowded,
                    \A c \in Commands : EvaluatorAt(c, "idle")
             PROVE  /\ \E a \in Attempts : AttemptIsFree(a)
                    /\ \A a \in Attempts : attempts[a].receipt # "failed"
  BY DEF KillsAreRecoverable
<1>1. \A a \in Attempts : attempts[a].receipt # "failed"
  BY DEF AttemptsAreKnown
<1>2. Cardinality(Lost) <= evaluatorKills /\ evaluatorKills \in Nat
  BY DEF AttemptsAreKnown, EvaluationTyped
<1>3. IsFiniteSet(Attempts) /\ Cardinality(Attempts) = MaxAttempts
  BY <1>2, EvaluationAssumption, FS_Interval DEF Attempts
<1>4. Lost # Attempts
  BY <1>2, <1>3, EvaluationAssumption
<1>5. \A a \in Attempts : ~AtWork(a)
  BY DEF AtWork, EvaluatorAt, Exporting
<1>6. \E a \in Attempts : AttemptIsFree(a)
  BY <1>4, <1>5 DEF Lost, CutShort, Deserted
<1> QED
  BY <1>1, <1>6

\* EvaluationIsSound, for any games, plies and attempts and any number of kills,
\* time-outs and replacements, while prepare-games does not run beside analyze:
\* a report is of planned games and one teacher.  An exporter outlives the command
\* that is killed; as long as none is started in the attempt of such a one and none
\* meets its deadline, fewer kills than there are attempts leave one to go on with
\* and no failed receipt.
THEOREM OfficialEvaluations ==
  ASSUME ~Overlaps
  PROVE  EvaluationSpec => []EvaluationIsSound
<1>1. EvaluationInit => ReportInvariant /\ AttemptsAreKnown
  BY EvaluationStarts
<1>2. ReportInvariant /\ AttemptsAreKnown /\ [EvaluationNext]_evaluationVars =>
        ReportInvariant' /\ AttemptsAreKnown'
  <2> SUFFICES ASSUME ReportInvariant, AttemptsAreKnown, [EvaluationNext]_evaluationVars
               PROVE  ReportInvariant' /\ AttemptsAreKnown'
    OBVIOUS
  <2>1. ReportInvariant'
    BY ReportStep
  <2>2. EvaluationTyped
    BY DEF ReportInvariant
  <2>3. CASE \/ BuildPlan \/ (\E g \in Games : PlayGame(g) \/ RemoveGame(g))
             \/ Curate \/ PromoteChampion \/ ReplaceTeacher \/ UNCHANGED evaluationVars
    <3>1. UNCHANGED <<attempts, evaluator, evaluatorKills, timeouts, orphans, crowded>>
      BY <2>3 DEF BuildPlan, PlayGame, RemoveGame, Curate, PromoteChampion, ReplaceTeacher,
         ReplaceInput, evaluationFiles, exporters, tallies, evaluationVars
    <3>2. AttemptsAreKnown'
      BY <3>1 DEF AttemptsAreKnown, OneCommand, EvaluatorAt, Lost, CutShort, Deserted,
         AttemptIsFree, AtWork
    <3> QED
      BY <2>1, <3>2
  <2>4. CASE \E c \in Commands : Export(c) \/ WriteLogs(c) \/ WriteAttemptReceipt(c)
    BY <2>1, <2>2, <2>4, AttemptIsMade
  <2>5. CASE \E c \in Commands : ChooseAttempt(c)
    BY <2>1, <2>2, <2>5, AttemptIsChosen
  <2>6. CASE \E c \in Commands : KillEvaluator(c)
    BY <2>1, <2>2, <2>6, KillLeavesOne
  <2>7. CASE \/ \E c \in Commands : Start(c) \/ ReadReceipt(c) \/ WriteGamesManifest(c)
             \/ Resume \/ StartTeacher \/ EndSearch \/ WriteReport
             \/ \E d \in Decisions : AnalyzePosition(d)
    BY <2>1, <2>2, <2>7, OtherStepsKeepAttempts
  <2>8. CASE \E c \in Commands : TimeOutExporter(c)
    BY <2>1, <2>2, <2>8, LateExporter
  <2>9. CASE \E a \in Attempts : OrphanEnds(a)
    BY <2>1, <2>2, <2>9, OrphanLosesNone
  <2> QED
    BY <2>3, <2>4, <2>5, <2>6, <2>7, <2>8, <2>9 DEF EvaluationNext
<1>3. ReportInvariant /\ AttemptsAreKnown => EvaluationIsSound
  BY RecoverableSuffices DEF ReportInvariant, EvaluationIsSound
<1> QED
  BY <1>1, <1>2, <1>3, PTL DEF EvaluationSpec
=============================================================================

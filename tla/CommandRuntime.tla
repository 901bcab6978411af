--------------------------- MODULE CommandRuntime ---------------------------
(***************************************************************************)
(* What a repository command runs on (selfplay/execution.py CommandRunner, *)
(* selfplay/runtime_receipt.py, labeling/execution.py ExecutableSnapshot): *)
(* an engine command runs a private copy of its pinned executable; a       *)
(* Python command runs a private copy of the interpreter on the tracked    *)
(* sources of HEAD, with the framework library and the dependency trees    *)
(* held open and compared before the launch, after it and at the end.      *)
(*                                                                         *)
(* The trees are one directory with the file "module" and, at times, the   *)
(* file "extra" that shadows a module.  A file is its bytes and its change *)
(* time, which nobody can set; 0 bytes stand for an absent file.           *)
(***************************************************************************)
EXTENDS Naturals, FiniteSets

CONSTANTS
    MaxChanges,   \* bound: what other programs change
    Unlucky       \* whether they change a directory just after its listing

VARIABLES
    world,      \* the files: their bytes and change time
    directory,  \* the change time of the directory of the tree
    head,       \* the commit that is checked out, of a clean work tree
    job,        \* the runner
    loaded,     \* what the running child has loaded: file and bytes
    receipts,   \* the command receipts, one per kind
    runtimes,   \* the immutable runtime receipts
    changes     \* changes so far

runtimeVars == <<world, directory, head, job, loaded, receipts, runtimes, changes>>

Kinds == {"engine_arena", "model_cli"}
RuntimeTree == {"module", "extra"}
RuntimeFiles == RuntimeTree \union {"engine", "interpreter", "library"}
NoBytes == 0
Commits == {1, 2}
Pinned == 1      \* the bytes of the planned executable
NoIdentity == [f \in RuntimeFiles |-> NoBytes]
NoRuntime == [commit |-> 0, digest |-> NoIdentity]
NoCommandReceipt == [runtime |-> NoRuntime, ran |-> {}, known |-> FALSE]
NoRun == [pc |-> "idle", kind |-> "model_cli", commit |-> 0, copy |-> NoBytes,
          listed |-> {}, digest |-> NoIdentity, seen |-> NoIdentity,
          directory |-> 0]

RuntimeInit ==
    /\ world = [f \in RuntimeFiles |->
                   [bytes |-> IF f = "extra" THEN NoBytes ELSE 1, ctime |-> 0]]
    /\ directory = 0 /\ head = 1 /\ job = NoRun /\ loaded = {}
    /\ receipts = [k \in Kinds |-> NoCommandReceipt] /\ runtimes = {} /\ changes = 0

IsEngine == job.kind = "engine_arena"
Executable == IF IsEngine THEN "engine" ELSE "interpreter"
Present == {f \in RuntimeFiles : world[f].bytes # NoBytes}
-----------------------------------------------------------------------------
(* The grammar of a command                                                *)

Required(kind) ==
    IF kind = "engine_arena"
    THEN {"--games", "--nodes", "--seed", "--sfen", "--git-commit",
          "--output-dir"}
    ELSE {"--features", "--training", "--labels", "--dataset-manifest",
          "--output-dir"}
Optional(kind) ==
    IF kind = "engine_arena" THEN {"--a-model", "--b-model"} ELSE {"--resume"}

\* _parse_closed_options: no option twice, none unknown, none missing.
IsClosed(kind, options) ==
    /\ \A i, j \in DOMAIN options : options[i] = options[j] => i = j
    /\ {options[i] : i \in DOMAIN options}
          \subseteq Required(kind) \union Optional(kind)
    /\ Required(kind) \subseteq {options[i] : i \in DOMAIN options}

\* CommandRunner.run: only an arena command is resumed, by the runner itself.
MayRun(kind, options, resume) ==
    IsClosed(kind, options) /\ (resume => kind = "engine_arena")

Options(kind) ==
    IF kind = "engine_arena"
    THEN <<"--games", "--nodes", "--seed", "--sfen", "--git-commit",
           "--output-dir", "--a-model">>
    ELSE <<"--features", "--training", "--labels", "--dataset-manifest",
           "--output-dir">>
-----------------------------------------------------------------------------
(* What is bound                                                           *)

Advance(pc) == job' = [job EXCEPT !.pc = pc]
Rest == <<world, directory, head, changes>>
Disk == <<receipts, runtimes>>

\* CommandRunner.run: the command is closed, HEAD is clean.
BeginCommand(kind) ==
    /\ job.pc = "idle" /\ MayRun(kind, Options(kind), FALSE)
    /\ job' = [NoRun EXCEPT !.kind = kind, !.commit = head,
                  !.pc = IF kind = "engine_arena" THEN "copy" ELSE "source"]
    /\ loaded' = {}
    /\ UNCHANGED <<Rest, Disk>>

\* _snapshot_python_runtime: the blobs of the commit, while it is HEAD.
SnapshotSource == /\ job.pc = "source" /\ head = job.commit
                  /\ Advance("interpreter") /\ UNCHANGED <<Rest, loaded, Disk>>

\* _hash_file of the interpreter
HashInterpreter ==
    /\ job.pc = "interpreter"
    /\ job' = [job EXCEPT !.pc = "list",
                  !.digest["interpreter"] = world["interpreter"].bytes]
    /\ UNCHANGED <<Rest, loaded, Disk>>

\* os.walk lists a directory and then _open_node opens it.
ListTree == /\ job.pc = "list"
            /\ job' = [job EXCEPT !.pc = "open", !.listed = Present \ {"engine"}]
            /\ UNCHANGED <<Rest, loaded, Disk>>

\* _open_node, RuntimeFileGuard.create: the directory and the files listed.
OpenNodes ==
    /\ job.pc = "open" /\ job.listed \subseteq Present
    /\ job' = [job EXCEPT !.pc = "hash", !.directory = directory,
                  !.seen = [f \in RuntimeFiles |->
                               IF f \in job.listed THEN world[f].ctime ELSE 0]]
    /\ UNCHANGED <<Rest, loaded, Disk>>

\* _hash_descriptor, through the descriptor that was opened.
HashNodes ==
    /\ job.pc = "hash"
    /\ job' = [job EXCEPT !.pc = "bind",
                  !.digest = [f \in RuntimeFiles |->
                      IF f \in job.listed \ {"interpreter"}
                      THEN world[f].bytes ELSE @[f]]]
    /\ UNCHANGED <<Rest, loaded, Disk>>

\* Bug: the directories of the tree are not compared.
NodesHold_FilesOnly ==
    \A f \in job.listed : f \in Present /\ world[f].ctime = job.seen[f]

\* RuntimeDependencyGuard.assert_unchanged, RuntimeFileGuard.assert_unchanged:
\* every file and every directory has the metadata it was opened with.
NodesHold ==
    /\ \A f \in job.listed : f \in Present /\ world[f].ctime = job.seen[f]
    /\ directory = job.directory

Runtime == [commit |-> job.commit, digest |-> job.digest]

\* validate_python_runtime_receipt
IsAuthorized(r, known) == r.commit = job.commit /\ r \in known

\* PythonRuntimeAuthority.create: the receipt under its own digest.
BindRuntime == /\ job.pc = "bind" /\ NodesHold
               /\ runtimes' = runtimes \union {Runtime}
               /\ IsAuthorized(Runtime, runtimes') /\ Advance("copy")
               /\ UNCHANGED <<Rest, loaded, receipts>>

Expected == IF IsEngine THEN Pinned ELSE job.digest["interpreter"]

\* ExecutableSnapshot.create: a private copy with the expected bytes.
CopyExecutable ==
    /\ job.pc = "copy" /\ world[Executable].bytes = Expected
    /\ job' = [job EXCEPT !.pc = "ready", !.copy = world[Executable].bytes,
                  !.seen[Executable] = world[Executable].ctime]
    /\ UNCHANGED <<Rest, loaded, Disk>>

\* ExecutableSnapshot.assert_source_unchanged
SourceHolds == world[Executable].ctime = job.seen[Executable]

\* launch_guard: the copy's source, the trees, the library and HEAD.
LaunchGuardHolds == /\ SourceHolds
                    /\ ~IsEngine => NodesHold /\ head = job.commit
-----------------------------------------------------------------------------
(* The launch and its receipt                                              *)

\* validate_command_receipt: a recorded run of the very same runtime.
ReceiptHolds ==
    /\ receipts[job.kind].known
    /\ ~IsEngine => /\ receipts[job.kind].runtime = Runtime
                    /\ IsAuthorized(receipts[job.kind].runtime, runtimes)

ReuseReceipt == /\ job.pc = "ready" /\ ReceiptHolds /\ job' = NoRun
                /\ UNCHANGED <<Rest, loaded, Disk>>

\* The guard before the launch, and again once the child runs.
LaunchCommand == /\ job.pc = "ready" /\ ~receipts[job.kind].known
                 /\ LaunchGuardHolds
                 /\ Advance("started") /\ loaded' = {<<Executable, job.copy>>}
                 /\ UNCHANGED <<Rest, Disk>>

CheckStarted == /\ job.pc = "started" /\ LaunchGuardHolds /\ Advance("running")
                /\ UNCHANGED <<Rest, loaded, Disk>>

\* The child imports what it finds, when it needs it.
Load(f) ==
    /\ job.pc \in {"started", "running"} /\ ~IsEngine
    /\ f \in Present \ {"engine", "interpreter"}
    /\ loaded' = loaded \union {<<f, world[f].bytes>>}
    /\ UNCHANGED <<Rest, job, Disk>>

\* The child has ended; the guard is checked once more.
CheckEnd == /\ job.pc = "running" /\ LaunchGuardHolds /\ Advance("publish")
            /\ UNCHANGED <<Rest, loaded, Disk>>

\* The logs, and then the receipt of the command.
Publish == /\ job.pc = "publish"
           /\ receipts' = [receipts EXCEPT ![job.kind] =
                 [runtime |-> IF IsEngine THEN NoRuntime ELSE Runtime,
                  ran |-> loaded, known |-> TRUE]]
           /\ job' = NoRun
           /\ UNCHANGED <<Rest, loaded, runtimes>>

\* A check fails, or the runner is killed: the copies are disposed of.
Abandon == /\ job.pc # "idle" /\ job' = NoRun
           /\ UNCHANGED <<Rest, loaded, Disk>>
-----------------------------------------------------------------------------
(* Other programs                                                          *)

Changes == /\ changes < MaxChanges /\ changes' = changes + 1
           /\ job.pc = "open" => Unlucky
           /\ UNCHANGED <<job, loaded, Disk>>

\* A file is written in place, or replaced, which its directory shows.
Change(f) ==
    /\ Changes /\ world[f].bytes # NoBytes
    /\ world' = [world EXCEPT ![f] = [bytes |-> 3 - @.bytes,
                                      ctime |-> changes + 1]]
    /\ directory' \in {directory} \union IF f \in RuntimeTree THEN {changes + 1} ELSE {}
    /\ head' = head

\* An installer adds or removes a file of the tree.
AddOrRemove ==
    /\ Changes
    /\ world' = [world EXCEPT !["extra"] =
          [bytes |-> IF @.bytes = NoBytes THEN 1 ELSE NoBytes,
           ctime |-> changes + 1]]
    /\ directory' = changes + 1 /\ head' = head

Checkout == /\ Changes /\ head' \in Commits \ {head}
            /\ UNCHANGED <<world, directory>>

RuntimeNext ==
    \/ \E k \in Kinds : BeginCommand(k)
    \/ SnapshotSource \/ HashInterpreter \/ ListTree \/ OpenNodes \/ HashNodes
    \/ BindRuntime \/ CopyExecutable \/ ReuseReceipt \/ LaunchCommand \/ CheckStarted
    \/ CheckEnd \/ Publish \/ Abandon
    \/ \E f \in RuntimeFiles : Load(f) \/ Change(f)
    \/ AddOrRemove \/ Checkout

RuntimeSpec == RuntimeInit /\ [][RuntimeNext]_runtimeVars
-----------------------------------------------------------------------------
(* Properties                                                              *)

\* A recorded command ran what its receipt names and nothing else, whatever
\* was installed, upgraded and put back beside it (launch_guard).
ReceiptIsWhatRan ==
    \A k \in Kinds : \A l \in receipts[k].ran :
        IF k = "engine_arena" THEN l = <<"engine", Pinned>>
        ELSE l[2] = receipts[k].runtime.digest[l[1]]
=============================================================================

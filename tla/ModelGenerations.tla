-------------------------- MODULE ModelGenerations --------------------------
(***************************************************************************)
(* The model registry (selfplay/registry.py), which says who is champion,  *)
(* the arenas whose verdicts may replace it (selfplay/arena.py), and the   *)
(* pipeline of a generation (selfplay/pipeline.py), which records each     *)
(* stage's artifact after checking what it is bound to.  The registry is   *)
(* updated by a transaction under a directory lock: a snapshot of the new  *)
(* revision, a journal, the registry itself, and the end of the journal;   *)
(* whoever opens the registry next completes it.  Operators run commands   *)
(* concurrently and may be killed at any step.                             *)
(***************************************************************************)
EXTENDS Naturals, Sequences

CONSTANTS
    None,
    Operators,          \* processes that run commands
    Lineages,           \* self-play plans, each with all that is derived from it
    Arenas,             \* arena plans, each with its results and its decision
    MaxGenerations,     \* MAX_GENERATIONS, the initial one included
    MaxCrashes          \* bound: how many operators are killed

ASSUME GenerationsAssumption ==
    /\ MaxGenerations \in Nat \ {0} /\ MaxCrashes \in Nat
    /\ None \notin Lineages \union Arenas \union Operators \union Nat
    /\ "initial" \notin Lineages

\* A model is named for the lineage that trained it; the first comes from elsewhere.
Models == {"initial"} \union Lineages
Revisions == 1..(2 * MaxGenerations)

VARIABLES
    registry,   \* the registry file; revision 0 while there is none
    journal,    \* the transaction file: the revision it follows and its candidate
    snapshot,   \* the immutable snapshot of each revision
    lock,       \* who holds the lock of the registry's directory
    op,         \* the command each operator runs
    plans,      \* the registry each self-play plan was made from
    arenas,     \* what each arena was played for, and its decision
    pipe,       \* the state file of each generation's pipeline, and its manifest
    crashes

store == <<registry, journal, snapshot>>
vars == <<store, lock, op, plans, arenas, pipe, crashes>>

Generation(champion, challenger, manifests) ==
    [champion |-> champion, challenger |-> challenger, manifests |-> manifests,
     arena |-> None, status |-> "arena"]
InitialRegistry ==
    [revision |-> 1, challenger |-> None, champion |-> "initial", generations |->
        <<[Generation("initial", None, None) EXCEPT !.status = "complete"]>>]
Absent == [InitialRegistry EXCEPT !.revision = 0]
Idle == [pc |-> "idle", base |-> Absent, candidate |-> Absent]
Stages == <<"modelRegistry", "selfplayPlan", "selfplayManifest", "positionEvidence",
    "hardPositions", "teacherLabelingManifest", "replayManifest", "trainingPlan",
    "trainingRunManifest", "challengerExportMetadata", "challengerModel", "arenaPlan",
    "arenaResults", "arenaAnalysis", "promotionDecision", "finalModelRegistry">>
Fresh == [status |-> "absent", manifest |-> FALSE,
          of |-> [s \in {Stages[i] : i \in 1..Len(Stages)} |-> None]]
Targets == 1..(MaxGenerations - 1)      \* the generations that have a pipeline

RegistryType ==
    [revision : Nat, champion : Models, challenger : Lineages \union {None},
     generations : Seq([champion : Models, challenger : Lineages \union {None},
                        manifests : Lineages \union {None}, arena : Arenas \union {None},
                        status : {"arena", "complete"}])]
JournalType == [expected : Nat, candidate : RegistryType]
PlanType == [generation : Targets, revision : Revisions]
ArenaType ==
    [generation : 1..MaxGenerations, champion : Models, challenger : Lineages,
     revision : Revisions, promotes : BOOLEAN, win : BOOLEAN]

\* What is not there is told from all that is.
ASSUME NothingAssumption ==
    None \notin RegistryType \union JournalType \union PlanType \union ArenaType

Init ==
    /\ registry = Absent
    /\ journal = None
    /\ snapshot = [r \in Revisions |-> None]
    /\ lock = None
    /\ op = [p \in Operators |-> Idle]
    /\ plans = [l \in Lineages |-> None]
    /\ arenas = [a \in Arenas |-> None]
    /\ pipe = [g \in Targets |-> Fresh]
    /\ crashes = 0
-----------------------------------------------------------------------------
(* What a registry says                                                    *)

Last(s) == s[Len(s)]
Latest(reg) == Last(reg.generations)
ModelsOf(reg) == {"initial"} \union
    {reg.generations[i].challenger : i \in 2..Len(reg.generations)}

\* The champion a generation leaves behind.
Outcome(gen) ==
    IF gen.status = "complete" /\ gen.arena # None /\ arenas[gen.arena].promotes
    THEN gen.challenger ELSE gen.champion

\* The promotion evidence behind a completed generation is about its own models.
IsEvidenceFor(a, gen, i) ==
    /\ arenas[a] # None /\ arenas[a].generation = i
    /\ arenas[a].champion = gen.champion /\ arenas[a].challenger = gen.challenger

\* Each generation starts from the outcome of the one before; only the last is open,
\* and its challenger is the registry's.
IsValid(reg) ==
    /\ \A i \in 2..Len(reg.generations) :
          LET gen == reg.generations[i] IN
          /\ gen.champion = Outcome(reg.generations[i - 1])
          /\ gen.status = "arena" <=> gen.arena = None
          /\ gen.status = "complete" => IsEvidenceFor(gen.arena, gen, i)
          /\ gen.status = "arena" =>
                i = Len(reg.generations) /\ reg.challenger = gen.challenger
    /\ Latest(reg).status = "complete" => reg.challenger = None
    /\ reg.champion = Outcome(Latest(reg))

\* _validate_registry_delta: one generation is appended, or the last one is finished.
Appends(current, next) ==
    /\ Len(next.generations) = Len(current.generations) + 1
    /\ SubSeq(next.generations, 1, Len(current.generations)) = current.generations
    /\ next.champion = current.champion /\ Latest(next).status = "arena"
Finishes(current, next) ==
    LET n == Len(current.generations) IN
    /\ Len(next.generations) = n
    /\ SubSeq(next.generations, 1, n - 1) = SubSeq(current.generations, 1, n - 1)
    /\ Latest(current).status = "arena"
    /\ Latest(next) = [Latest(current) EXCEPT !.status = "complete", !.arena = Latest(next).arena]
    /\ next.challenger = None
IsDelta(current, next) ==
    /\ next.revision = current.revision + 1
    /\ Appends(current, next) \/ Finishes(current, next)
-----------------------------------------------------------------------------
(* ModelRegistryStore: every session first completes a pending transaction *)

Goto(p, place) == op' = [op EXCEPT ![p].pc = place]
Leaves(p) == op' = [op EXCEPT ![p] = Idle] /\ lock' = None
Holds(p, pcs) == lock = p /\ op[p].pc \in pcs
Recovering == {"load", "update", "publish"}

\* The lock is not waited for: a command that finds it taken fails.
OpenToLoad(p) ==
    /\ op[p].pc = "idle" /\ lock = None
    /\ lock' = p /\ Goto(p, "load")
    /\ UNCHANGED <<store, plans, arenas, pipe, crashes>>

\* _recover_transaction: the candidate replaces the revision it follows.
ApplyJournal(p) ==
    /\ Holds(p, Recovering) /\ journal # None
    /\ registry.revision = journal.expected
    /\ IF registry.revision = 0 \/ IsDelta(registry, journal.candidate)
       THEN registry' = journal.candidate /\ UNCHANGED <<lock, op>>
       ELSE Leaves(p) /\ UNCHANGED registry
    /\ UNCHANGED <<journal, snapshot, plans, arenas, pipe, crashes>>

RetireJournal(p) ==
    /\ Holds(p, Recovering) /\ journal # None
    /\ registry.revision # journal.expected
    /\ IF registry = journal.candidate
       THEN journal' = None /\ UNCHANGED <<lock, op>>
       ELSE Leaves(p) /\ UNCHANGED journal
    /\ UNCHANGED <<registry, snapshot, plans, arenas, pipe, crashes>>

Load(p) ==
    /\ Holds(p, {"load"}) /\ journal = None
    /\ op' = [op EXCEPT ![p] = [@ EXCEPT !.pc = "compute", !.base = registry]]
    /\ lock' = None
    /\ UNCHANGED <<store, plans, arenas, pipe, crashes>>

Computes(p, candidate) ==
    /\ op' = [op EXCEPT ![p] = [@ EXCEPT !.pc = "write", !.candidate = candidate]]
    /\ UNCHANGED <<store, lock, plans, arenas, pipe, crashes>>

\* init-registry; the file must still be absent when the lock is taken.
InitRegistry(p) ==
    /\ op[p].pc = "compute" /\ op[p].base.revision = 0
    /\ Computes(p, InitialRegistry)

\* register-challenger names a model and manifests that exist; that they belong
\* together is left to the pipeline.
RegisterChallenger(p, model, manifests) ==
    LET base == op[p].base
        candidate == [revision |-> base.revision + 1, challenger |-> model,
                      champion |-> base.champion, generations |->
                        Append(base.generations, Generation(base.champion, model, manifests))]
    IN
    /\ op[p].pc = "compute" /\ base.revision # 0
    /\ plans[model] # None /\ plans[manifests] # None
    /\ Latest(base).status = "complete" /\ model \notin ModelsOf(base)
    /\ Len(base.generations) < MaxGenerations
    /\ IsValid(candidate)
    /\ Computes(p, candidate)

\* record_generation_promotion first validates the registry without its artifacts,
\* which no registry with a finished challenger generation passes.
PassesUnrooted(reg) ==
    \A i \in 2..Len(reg.generations) : reg.generations[i].status = "arena"

RecordPromotion(p, a) ==
    LET base == op[p].base
        n == Len(base.generations)
        finished == [Latest(base) EXCEPT !.status = "complete", !.arena = a]
        candidate == [revision |-> base.revision + 1, challenger |-> None,
                      champion |-> Outcome(finished),
                      generations |-> [base.generations EXCEPT ![n] = finished]]
    IN
    /\ op[p].pc = "compute" /\ base.revision # 0
    /\ PassesUnrooted(base) /\ Latest(base).status = "arena"
    /\ IsEvidenceFor(a, Latest(base), n)
    /\ IsValid(candidate)
    /\ Computes(p, candidate)

\* The command is refused, or was one that only reads.
GiveUp(p) ==
    /\ op[p].pc \in {"compute", "write"}
    /\ op' = [op EXCEPT ![p] = Idle]
    /\ UNCHANGED <<store, lock, plans, arenas, pipe, crashes>>

OpenToWrite(p) ==
    /\ op[p].pc = "write" /\ lock = None
    /\ lock' = p /\ Goto(p, "update")
    /\ UNCHANGED <<store, plans, arenas, pipe, crashes>>

\* Bug: the revision that was loaded is trusted.
CheckRevision_Trusts(p) ==
    /\ Holds(p, {"update"}) /\ journal = None
    /\ Goto(p, "snapshot")
    /\ UNCHANGED <<store, lock, plans, arenas, pipe, crashes>>

\* update, create: nothing may have been published since the command loaded.
CheckRevision(p) ==
    /\ Holds(p, {"update"}) /\ journal = None
    /\ IF registry.revision = op[p].base.revision
          /\ (registry.revision = 0 \/ IsDelta(registry, op[p].candidate))
       THEN Goto(p, "snapshot") /\ UNCHANGED lock
       ELSE Leaves(p)
    /\ UNCHANGED <<store, plans, arenas, pipe, crashes>>

\* A snapshot that is there, from a command that was killed, must be the same.
PublishSnapshot(p) ==
    LET r == op[p].candidate.revision IN
    /\ Holds(p, {"snapshot"})
    /\ IF snapshot[r] \in {None, op[p].candidate}
       THEN /\ snapshot' = [snapshot EXCEPT ![r] = op[p].candidate]
            /\ Goto(p, "journal") /\ UNCHANGED lock
       ELSE Leaves(p) /\ UNCHANGED snapshot
    /\ UNCHANGED <<registry, journal, plans, arenas, pipe, crashes>>

WriteJournal(p) ==
    /\ Holds(p, {"journal"})
    /\ journal' = [expected |-> op[p].base.revision, candidate |-> op[p].candidate]
    /\ Goto(p, "publish")
    /\ UNCHANGED <<registry, snapshot, lock, plans, arenas, pipe, crashes>>

EndUpdate(p) ==
    /\ Holds(p, {"publish"}) /\ journal = None
    /\ Leaves(p)
    /\ UNCHANGED <<store, plans, arenas, pipe, crashes>>

Crash(p) ==
    /\ op[p].pc # "idle" /\ crashes < MaxCrashes
    /\ crashes' = crashes + 1
    /\ op' = [op EXCEPT ![p] = Idle]
    /\ lock' = IF lock = p THEN None ELSE lock
    /\ UNCHANGED <<store, plans, arenas, pipe>>
-----------------------------------------------------------------------------
(* Plans and arenas: they read the registry file without its lock          *)

PlanSelfplay(l, g) ==
    /\ registry.revision # 0 /\ plans[l] = None
    /\ plans' = [plans EXCEPT ![l] = [generation |-> g, revision |-> registry.revision]]
    /\ UNCHANGED <<store, lock, op, arenas, pipe, crashes>>

\* The classes of an arena's result that decide_promotion tells apart.
Evidence == [unsafe : BOOLEAN,      \* too many illegal moves or crashes
             enough : BOOLEAN,      \* games, decisive games, games of each group
             speed : {"ok", "slow", "unknown"},
             score : {"win", "loss", "close"}]

Decide(e) ==
    IF e.unsafe \/ e.speed = "slow" THEN "rejected"
    ELSE IF ~e.enough \/ e.speed = "unknown" THEN "inconclusive"
    ELSE IF e.score = "loss" THEN "rejected"
    ELSE IF e.score = "win" THEN "promoted" ELSE "inconclusive"
IsWin(e) == ~e.unsafe /\ e.enough /\ e.speed = "ok" /\ e.score = "win"

Decisions == {[promotes |-> Decide(e) = "promoted", win |-> IsWin(e)] : e \in Evidence}

PlayArena(a) ==
    /\ arenas[a] = None /\ registry.revision # 0 /\ registry.challenger # None
    /\ \E d \in Decisions :
          arenas' = [arenas EXCEPT ![a] =
             [generation |-> Len(registry.generations), champion |-> registry.champion,
              challenger |-> registry.challenger, revision |-> registry.revision,
              promotes |-> d.promotes, win |-> d.win]]
    /\ UNCHANGED <<store, lock, op, plans, pipe, crashes>>
-----------------------------------------------------------------------------
(* GenerationPipeline: generation g follows the g generations before it    *)

\* An artifact is known by what it comes from: a registry by its revision, all that is
\* derived from a self-play plan by its lineage, and an arena's files by the arena.
Artifacts == Revisions \union Lineages \union Arenas
Recorded(g, stage) == pipe[g].of[stage]
IsMissing(g, i) == Recorded(g, Stages[i]) = None

Initialize(g) ==
    /\ pipe[g].status = "absent"
    /\ pipe' = [pipe EXCEPT ![g].status = "initialized"]
    /\ UNCHANGED <<store, lock, op, plans, arenas, crashes>>

\* The contracts of _validate_stage_contract: what stage x is bound to must be recorded.
Follows(g, x, parents) == x \in Lineages /\ \A s \in parents : Recorded(g, s) = x
BeginsAt(g, r) ==
    LET reg == snapshot[r] IN
    /\ reg # None /\ IsValid(reg) /\ Len(reg.generations) = g
    /\ Latest(reg).status = "complete" /\ reg.challenger = None
PlanFits(g, l) == plans[l] = [generation |-> g, revision |-> Recorded(g, "modelRegistry")]
SelfplayFits(g, stage, x) ==
    \/ stage = "selfplayManifest" /\ Follows(g, x, {"selfplayPlan"})
    \/ stage = "positionEvidence" /\ Follows(g, x, {"selfplayPlan", "selfplayManifest"})
    \/ stage = "hardPositions" /\ Follows(g, x, {"positionEvidence"})
\* A complete set of labels is taken whatever was labelled; the training plan minds.
LabelsFit(stage, x) == stage = "teacherLabelingManifest" /\ x \in Lineages
ReplayFits(g, stage, x) ==
    stage = "replayManifest" /\ Follows(g, x, {"positionEvidence", "hardPositions"})
TrainingFits(g, stage, x) ==
    \/ /\ stage = "trainingPlan"
       /\ Follows(g, x, {"replayManifest", "teacherLabelingManifest", "selfplayPlan"})
    \/ /\ stage = "trainingRunManifest"
       /\ Follows(g, x, {"trainingPlan", "teacherLabelingManifest", "replayManifest",
                         "selfplayPlan"})
ExportFits(g, stage, x) ==
    \/ /\ stage = "challengerExportMetadata"
       /\ Follows(g, x, {"trainingPlan", "trainingRunManifest"})
    \/ stage = "challengerModel" /\ Follows(g, x, {"challengerExportMetadata"})

ArenaFits(g, a) ==
    LET reg == snapshot[arenas[a].revision] IN
    /\ arenas[a] # None /\ reg # None
    /\ IsDelta(snapshot[Recorded(g, "modelRegistry")], reg)
    /\ Latest(reg).status = "arena" /\ Len(reg.generations) = g + 1
    /\ \A s \in {"selfplayManifest", "teacherLabelingManifest", "trainingRunManifest"} :
          Recorded(g, s) = Latest(reg).manifests
    /\ Recorded(g, "challengerModel") = reg.challenger
ResultsFit(g, stage, a) ==
    \/ stage = "arenaResults" /\ a = Recorded(g, "arenaPlan")
    \/ stage = "arenaAnalysis" /\ a = Recorded(g, "arenaResults")
    \/ stage = "promotionDecision" /\ a = Recorded(g, "arenaAnalysis")
EndsAt(g, r) ==
    LET reg == snapshot[r] IN
    /\ reg # None /\ IsValid(reg)
    /\ IsDelta(snapshot[arenas[Recorded(g, "arenaPlan")].revision], reg)
    /\ Latest(reg).status = "complete"
    /\ \A s \in {"arenaResults", "promotionDecision"} : Recorded(g, s) = Latest(reg).arena
Fits(g, stage, x) ==
    \/ stage = "modelRegistry" /\ x \in Revisions /\ BeginsAt(g, x)
    \/ stage = "selfplayPlan" /\ x \in Lineages /\ PlanFits(g, x)
    \/ SelfplayFits(g, stage, x) \/ LabelsFit(stage, x) \/ ReplayFits(g, stage, x)
    \/ TrainingFits(g, stage, x) \/ ExportFits(g, stage, x)
    \/ stage = "arenaPlan" /\ x \in Arenas /\ ArenaFits(g, x)
    \/ ResultsFit(g, stage, x)
    \/ stage = "finalModelRegistry" /\ x \in Revisions /\ EndsAt(g, x)

\* record_stage: only the next stage, and only an artifact that fits the chain.
RecordStage(g) ==
    /\ pipe[g].status # "absent"
    /\ \E i \in 1..Len(Stages), x \in Artifacts :
          /\ IsMissing(g, i) /\ \A j \in 1..(i - 1) : ~IsMissing(g, j)
          /\ Fits(g, Stages[i], x)
          /\ pipe' = [pipe EXCEPT ![g] =
                 [@ EXCEPT !.of[Stages[i]] = x, !.status = "running"]]
    /\ UNCHANGED <<store, lock, op, plans, arenas, crashes>>

Interrupt(g) ==
    /\ pipe[g].status \in {"initialized", "running"}
    /\ pipe' = [pipe EXCEPT ![g].status = "interrupted"]
    /\ UNCHANGED <<store, lock, op, plans, arenas, crashes>>

\* finalize: the whole chain is checked again, the state is published, and then the
\* manifest; a command killed in between is run again.
Complete(g) ==
    /\ \A i \in 1..Len(Stages) : ~IsMissing(g, i) /\ Fits(g, Stages[i], Recorded(g, Stages[i]))
    /\ pipe[g].status # "complete"
    /\ pipe' = [pipe EXCEPT ![g].status = "complete"]
    /\ UNCHANGED <<store, lock, op, plans, arenas, crashes>>
PublishManifest(g) ==
    /\ pipe[g].status = "complete" /\ ~pipe[g].manifest
    /\ pipe' = [pipe EXCEPT ![g].manifest = TRUE]
    /\ UNCHANGED <<store, lock, op, plans, arenas, crashes>>
-----------------------------------------------------------------------------
Session(p) ==
    \/ ApplyJournal(p) \/ RetireJournal(p) \/ Load(p) \/ CheckRevision(p)
    \/ PublishSnapshot(p) \/ WriteJournal(p) \/ EndUpdate(p)
Command(p) ==
    \/ OpenToLoad(p) \/ OpenToWrite(p) \/ InitRegistry(p) \/ GiveUp(p)
    \/ \E m, l \in Lineages : RegisterChallenger(p, m, l)
    \/ \E a \in Arenas : RecordPromotion(p, a)
Pipeline(g) ==
    Initialize(g) \/ RecordStage(g) \/ Interrupt(g) \/ Complete(g) \/ PublishManifest(g)

Next ==
    \/ \E p \in Operators : Session(p) \/ Command(p) \/ Crash(p)
    \/ \E l \in Lineages, g \in Targets : PlanSelfplay(l, g)
    \/ \E a \in Arenas : PlayArena(a)
    \/ \E g \in Targets : Pipeline(g)

Spec == Init /\ [][Next]_vars
-----------------------------------------------------------------------------
(* Properties                                                              *)

TypeOK ==
    /\ registry \in RegistryType
    /\ journal \in JournalType \union {None}
    /\ snapshot \in [Revisions -> RegistryType \union {None}]
    /\ lock \in Operators \union {None}
    /\ plans \in [Lineages -> PlanType \union {None}]
    /\ arenas \in [Arenas -> ArenaType \union {None}]
    /\ \A p \in Operators : op[p].base \in RegistryType /\ op[p].candidate \in RegistryType
    /\ \A g \in Targets, i \in 1..Len(Stages) : IsMissing(g, i) \/ Recorded(g, Stages[i]) \in Artifacts

(* A champion is earned: it is the model the registry began with, or one   *)
(* that won an arena, with enough games, against the champion of its time. *)
ChampionIsEarned ==
    registry.revision # 0 =>
        \A i \in 1..Len(registry.generations) :
            LET gen == registry.generations[i]
                reigns == IF i = Len(registry.generations) THEN registry.champion
                          ELSE registry.generations[i + 1].champion IN
            reigns # gen.champion =>
                /\ reigns = gen.challenger /\ gen.arena # None
                /\ arenas[gen.arena].win /\ arenas[gen.arena].champion = gen.champion
                /\ arenas[gen.arena].challenger = gen.challenger

(* A transaction can always be completed, by whoever opens the registry    *)
(* next: its candidate is the snapshot of its revision, it follows the     *)
(* registry or is the registry, and no other operator is inside.           *)
JournalIsRecoverable ==
    /\ journal # None =>
          /\ snapshot[journal.expected + 1] = journal.candidate
          /\ \/ registry = journal.candidate
             \/ /\ registry.revision = journal.expected
                /\ registry.revision = 0 \/ IsDelta(registry, journal.candidate)
    /\ \A p \in Operators : op[p].pc \in Recovering \union {"snapshot", "journal"} => lock = p

(* A generation whose manifest is out agrees with the registry for good:   *)
(* the registry it began with, the one it played its arena in and the one  *)
(* it ended with were published in a row, all that was derived between the *)
(* plan and the model is of one lineage, played from the champion it names, *)
(* and the registry holds that lineage's manifests and its arena.          *)
ManifestAgrees ==
    \A g \in Targets : pipe[g].manifest =>
        LET r == Recorded(g, "modelRegistry")
            gen == registry.generations[g + 1] IN
        /\ arenas[Recorded(g, "arenaPlan")].revision = r + 1
        /\ Recorded(g, "finalModelRegistry") = r + 2 /\ registry.revision >= r + 1
        /\ plans[Recorded(g, "selfplayPlan")].revision = r
        /\ \A i \in 2..11 : Recorded(g, Stages[i]) = gen.challenger
        /\ gen.manifests = gen.challenger
        /\ registry.revision >= r + 2 =>
              /\ gen.status = "complete"
              /\ \A i \in 12..15 : Recorded(g, Stages[i]) = gen.arena

(* The registry moves by single valid revisions, each as its snapshot says, *)
(* and neither an interrupted update nor a second operator takes one back.  *)
RevisionsAreFinal ==
    [][/\ registry' # registry =>
             /\ registry'.revision = registry.revision + 1
             /\ snapshot[registry'.revision] = registry' /\ IsValid(registry')
       /\ \A r \in Revisions : snapshot[r] # None => snapshot'[r] = snapshot[r]]_vars

(* The registry, its journal and snapshots, and the manifests of the        *)
(* pipeline tell one story, in which a champion is replaced only by a       *)
(* challenger that won its arena (selfplay/registry.py, pipeline.py).      *)
RegistryIsSound ==
    [](TypeOK /\ ChampionIsEarned /\ JournalIsRecoverable /\ ManifestAgrees) /\ RevisionsAreFinal
=============================================================================

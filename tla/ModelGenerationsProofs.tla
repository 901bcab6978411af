----------------------- MODULE ModelGenerationsProofs ----------------------
(***************************************************************************)
(* The registry, its journal and snapshots, and the manifests of the       *)
(* pipelines tell one story, for any number of operators, lineages,        *)
(* arenas, generations and kills.                                          *)
(*                                                                         *)
(* The argument is about the snapshots, which nobody changes: they are the *)
(* revisions from the first on, each a valid step from the one before, and *)
(* reach the registry's own or one further.  What a command has loaded is  *)
(* one of them; what it is about to publish follows one; and what a        *)
(* pipeline has recorded it read from plans, arenas and snapshots, which   *)
(* stay.  A registry that still holds a generation is compared with the    *)
(* manifest through the snapshots between (Extends).                       *)
(*                                                                         *)
(* The last part is about a training's output directory (ModelTraining).   *)
(***************************************************************************)
EXTENDS ModelGenerations, ModelTraining, SequenceTheorems, TLAPS

GenerationType ==
    [champion : Models, challenger : Lineages \union {None},
     manifests : Lineages \union {None}, arena : Arenas \union {None},
     status : {"arena", "complete"}]
StageNames == {Stages[i] : i \in 1..Len(Stages)}
Places == {"idle", "load", "compute", "write", "update", "snapshot", "journal",
           "publish"}
OpType == [pc : Places, base : RegistryType, candidate : RegistryType]
PipeType ==
    [status : {"absent", "initialized", "running", "interrupted", "complete"},
     manifest : BOOLEAN, of : [StageNames -> Artifacts \union {None}]]
Typed ==
    /\ registry \in RegistryType
    /\ journal \in JournalType \union {None}
    /\ snapshot \in [Revisions -> RegistryType \union {None}]
    /\ lock \in Operators \union {None}
    /\ op \in [Operators -> OpType]
    /\ plans \in [Lineages -> PlanType \union {None}]
    /\ arenas \in [Arenas -> ArenaType \union {None}]
    /\ pipe \in [Targets -> PipeType]

\* Validity as a function of the arenas that are there, and the shape of a
\* registry that was published or is about to be.
OutcomeIn(ar, gen) ==
    IF gen.status = "complete" /\ gen.arena # None /\ ar[gen.arena].promotes
    THEN gen.challenger ELSE gen.champion
EvidenceIn(ar, gen, i) ==
    /\ ar[gen.arena] # None /\ ar[gen.arena].generation = i
    /\ ar[gen.arena].champion = gen.champion
    /\ ar[gen.arena].challenger = gen.challenger
GenerationIsValid(ar, reg, i) ==
    LET gen == reg.generations[i] IN
    /\ gen.champion = OutcomeIn(ar, reg.generations[i - 1])
    /\ gen.status = "arena" <=> gen.arena = None
    /\ gen.status = "complete" => EvidenceIn(ar, gen, i)
    /\ gen.status = "arena" =>
         i = Len(reg.generations) /\ reg.challenger = gen.challenger
IsValidIn(ar, reg) ==
    /\ \A i \in 2..Len(reg.generations) : GenerationIsValid(ar, reg, i)
    /\ Latest(reg).status = "complete" => reg.challenger = None
    /\ reg.champion = OutcomeIn(ar, Latest(reg))
IsNumbered(reg) ==
    LET n == Len(reg.generations) IN
    /\ n \in 1..MaxGenerations
    /\ Latest(reg).status = "arena" => n > 1 /\ reg.revision = 2 * n - 2
    /\ Latest(reg).status = "complete" => reg.revision = 2 * n - 1
IsRooted(reg) ==
    LET first == reg.generations[1] IN
    first.status = "complete" /\ first.arena = None
IsGood(ar, reg) ==
    /\ reg \in RegistryType /\ IsNumbered(reg) /\ IsRooted(reg)
    /\ IsValidIn(ar, reg)
Succeeds(old, new) ==
    /\ new.revision = old.revision + 1
    /\ old.revision = 0 \/ IsDelta(old, new)

\* A generation stays as it is once it is complete, and before that keeps its
\* models.
Extends(old, new) ==
    /\ Len(old.generations) <= Len(new.generations)
    /\ \A i \in 1..Len(old.generations) :
         LET was == old.generations[i]
             is == new.generations[i] IN
         /\ was.status = "complete" => is = was
         /\ is.challenger = was.challenger /\ is.manifests = was.manifests

ArenasAreFair == \A a \in Arenas : arenas[a] # None =>
                     (arenas[a].promotes => arenas[a].win)
\* The snapshots reach from the first revision to the registry's or the next.
SnapshotsAreChained ==
    /\ \A r \in Revisions : snapshot[r] # None =>
         /\ IsGood(arenas, snapshot[r]) /\ snapshot[r].revision = r
         /\ r <= registry.revision + 1
    /\ registry.revision \in Revisions \union {0}
    /\ \A r \in Revisions : r <= registry.revision => snapshot[r] # None
    /\ registry = IF registry.revision = 0 THEN Absent
                  ELSE snapshot[registry.revision]
SnapshotsExtend ==
    \A q, r \in Revisions : q <= r /\ snapshot[r] # None =>
        snapshot[q] # None /\ Extends(snapshot[q], snapshot[r])
JournalFollows ==
    journal # None =>
        /\ journal.expected + 1 \in Revisions
        /\ snapshot[journal.expected + 1] = journal.candidate
        /\ \/ registry = journal.candidate
           \/ registry.revision = journal.expected
              /\ Succeeds(registry, journal.candidate)

\* What a command read is a revision; what it computed is a registry that
\* follows.
Inside == Recovering \union {"snapshot", "journal"}
IsRevision(reg) ==
    \/ reg = Absent
    \/ reg.revision \in Revisions /\ reg = snapshot[reg.revision]
CommandIsSound(p) ==
    LET o == op[p] IN
    /\ o.pc \in Inside => lock = p
    /\ o.pc \in {"compute", "write", "update", "snapshot", "journal"} =>
         IsRevision(o.base)
    /\ o.pc \in {"write", "update", "snapshot", "journal"} =>
         /\ IsGood(arenas, o.candidate)
         /\ o.candidate.revision = o.base.revision + 1
    /\ o.pc \in {"snapshot", "journal"} =>
         /\ journal = None /\ registry.revision = o.base.revision
         /\ Succeeds(registry, o.candidate)
    /\ o.pc = "journal" => snapshot[o.candidate.revision] = o.candidate

\* What stands in a pipeline that is complete.
Story(g) ==
    LET r == Recorded(g, "modelRegistry")
        l == Recorded(g, "selfplayPlan")
        a == Recorded(g, "arenaPlan") IN
    /\ r \in Revisions /\ r + 1 \in Revisions /\ r + 2 \in Revisions
    /\ l \in Lineages /\ a \in Arenas
    /\ \A i \in 2..11 : Recorded(g, Stages[i]) = l
    /\ \A i \in 12..15 : Recorded(g, Stages[i]) = a
    /\ Recorded(g, "finalModelRegistry") = r + 2
    /\ plans[l] # None /\ plans[l].revision = r
    /\ arenas[a] # None /\ arenas[a].revision = r + 1
    /\ snapshot[r + 1] # None /\ Len(snapshot[r + 1].generations) = g + 1
    /\ Latest(snapshot[r + 1]).challenger = l
    /\ Latest(snapshot[r + 1]).manifests = l
    /\ snapshot[r + 2] # None /\ Len(snapshot[r + 2].generations) = g + 1
    /\ Latest(snapshot[r + 2]).status = "complete"
    /\ Latest(snapshot[r + 2]).arena = a
PipelineIsSound(g) ==
    /\ pipe[g].manifest => pipe[g].status = "complete"
    /\ pipe[g].status = "complete" => Story(g)

IInv == /\ Typed /\ ArenasAreFair
        /\ SnapshotsAreChained /\ SnapshotsExtend /\ JournalFollows
        /\ \A p \in Operators : CommandIsSound(p)
        /\ \A g \in Targets : PipelineIsSound(g)
-----------------------------------------------------------------------------
(* Types                                                                   *)

LEMMA Constants ==
    /\ MaxGenerations \in Nat /\ MaxGenerations > 0
    /\ Revisions \subseteq Nat /\ Revisions = 1..(2 * MaxGenerations)
    /\ Targets \subseteq Nat /\ Targets = 1..(MaxGenerations - 1)
    /\ None \notin Lineages /\ None \notin Arenas /\ None \notin Operators
    /\ None \notin Nat /\ "initial" \notin Lineages
BY GenerationsAssumption DEF Revisions, Targets

LEMMA Nothing ==
    /\ None \notin RegistryType /\ None \notin JournalType
    /\ None \notin PlanType /\ None \notin ArenaType
BY NothingAssumption

LEMMA RegistryTypeIs ==
    RegistryType = [revision : Nat, champion : Models,
                    challenger : Lineages \union {None},
                    generations : Seq(GenerationType)]
BY DEF RegistryType, GenerationType

LEMMA RegistryFacts ==
    ASSUME NEW reg \in RegistryType
    PROVE  /\ reg.revision \in Nat /\ reg.champion \in Models
           /\ reg.challenger \in Lineages \union {None}
           /\ reg.generations \in Seq(GenerationType)
           /\ Len(reg.generations) \in Nat
           /\ \A i \in 1..Len(reg.generations) :
                reg.generations[i] \in GenerationType
<1>1. reg.generations \in Seq(GenerationType)
    BY RegistryTypeIs
<1> QED
    BY <1>1, RegistryTypeIs, LenProperties, ElementOfSeq

LEMMA GenerationFacts ==
    ASSUME NEW gen \in GenerationType
    PROVE  /\ gen.champion \in Models /\ gen.arena \in Arenas \union {None}
           /\ gen.challenger \in Lineages \union {None}
           /\ gen.manifests \in Lineages \union {None}
           /\ gen.status \in {"arena", "complete"}
BY DEF GenerationType

LEMMA LatestIs ==
    ASSUME NEW reg PROVE Latest(reg) = reg.generations[Len(reg.generations)]
BY DEF Latest, Last

First == [Generation("initial", None, None) EXCEPT !.status = "complete"]
LEMMA InitialIs ==
    /\ InitialRegistry \in RegistryType /\ InitialRegistry.revision = 1
    /\ InitialRegistry.champion = "initial"
    /\ InitialRegistry.challenger = None
    /\ InitialRegistry.generations = <<First>>
    /\ Absent \in RegistryType /\ Absent.revision = 0
    /\ First \in GenerationType
    /\ First.status = "complete" /\ First.arena = None
    /\ First.champion = "initial"
<1>1. /\ First \in GenerationType /\ First.status = "complete"
      /\ First.arena = None /\ First.champion = "initial"
    BY DEF First, Generation, GenerationType, Models
<1>2. <<First>> \in Seq(GenerationType)
    BY <1>1
<1>3. InitialRegistry = [revision |-> 1, challenger |-> None,
                         champion |-> "initial", generations |-> <<First>>]
    BY DEF InitialRegistry, First
<1> HIDE DEF First
<1>4. InitialRegistry \in RegistryType
    BY <1>2, <1>3, RegistryTypeIs DEF Models
<1>5. Absent \in RegistryType /\ Absent.revision = 0
    BY <1>3, <1>4, RegistryTypeIs DEF Absent
<1> QED
    BY <1>1, <1>3, <1>4, <1>5

\* The first registry is good, whatever arenas there are.
LEMMA InitialIsGood ==
    ASSUME NEW ar PROVE IsGood(ar, InitialRegistry)
<1> DEFINE reg == InitialRegistry
<1>1. /\ Len(reg.generations) = 1 /\ reg.generations[1] = First
      /\ Latest(reg) = First
  <2>1. reg.generations = <<First>>
      BY InitialIs
  <2>2. Len(<<First>>) = 1 /\ <<First>>[1] = First
      OBVIOUS
  <2> QED
      BY <2>1, <2>2, LatestIs
<1>2. IsNumbered(reg) /\ IsRooted(reg)
    BY <1>1, InitialIs, Constants DEF IsNumbered, IsRooted
<1>3. IsValidIn(ar, reg)
  <2>1. OutcomeIn(ar, First) = "initial"
      BY InitialIs DEF OutcomeIn
  <2>2. \A i \in 2..Len(reg.generations) : GenerationIsValid(ar, reg, i)
      BY <1>1
  <2> QED
      BY <1>1, <2>1, <2>2, InitialIs DEF IsValidIn
<1> QED
    BY <1>2, <1>3, InitialIs DEF IsGood

LEMMA ValidIs ==
    ASSUME NEW reg PROVE IsValid(reg) <=> IsValidIn(arenas, reg)
BY DEF IsValid, IsValidIn, GenerationIsValid, IsEvidenceFor, EvidenceIn,
   Outcome, OutcomeIn

\* Arenas that are added leave a good registry good.
Grown(old, new) == \A a \in Arenas : old[a] # None => new[a] = old[a]
LEMMA GoodStays ==
    ASSUME NEW old, NEW new, Grown(old, new), NEW reg, IsGood(old, reg)
    PROVE  IsGood(new, reg)
<1> DEFINE gens == reg.generations
           n == Len(gens)
<1>1. /\ n \in Nat /\ n > 0 /\ reg \in RegistryType
      /\ \A i \in 1..n : gens[i] \in GenerationType
    BY RegistryFacts DEF IsGood, IsNumbered
<1>2. IsValidIn(old, reg) /\ IsRooted(reg)
    BY DEF IsGood
<1>3. ASSUME NEW i \in 1..n
      PROVE  /\ OutcomeIn(new, gens[i]) = OutcomeIn(old, gens[i])
             /\ i > 1 /\ EvidenceIn(old, gens[i], i) /\ gens[i].arena # None
                => EvidenceIn(new, gens[i], i)
  <2>1. gens[i].arena # None =>
          gens[i].arena \in Arenas
          /\ (old[gens[i].arena] # None =>
                new[gens[i].arena] = old[gens[i].arena])
      BY <1>1, GenerationFacts DEF Grown
  <2>2. CASE i = 1
      BY <1>2, <2>2 DEF IsRooted, OutcomeIn
  <2>3. CASE i > 1
    <3>1. GenerationIsValid(old, reg, i)
        BY <1>1, <1>2, <2>3 DEF IsValidIn
    <3> QED
        BY <2>1, <2>3, <3>1 DEF GenerationIsValid, OutcomeIn, EvidenceIn
  <2> QED
      BY <1>1, <2>2, <2>3
<1>4. Latest(reg) = gens[n] /\ n \in 1..n
    BY <1>1, LatestIs
<1>5. ASSUME NEW i \in 2..n PROVE GenerationIsValid(new, reg, i)
  <2>1. /\ GenerationIsValid(old, reg, i) /\ i \in 1..n /\ i - 1 \in 1..n
        /\ gens[i] \in GenerationType
      BY <1>1, <1>2 DEF IsValidIn
  <2>2. gens[i].status = "complete" => gens[i].arena # None
      BY <2>1 DEF GenerationIsValid
  <2> QED
      BY <1>3, <2>1, <2>2 DEF GenerationIsValid
<1>6. IsValidIn(new, reg)
    BY <1>2, <1>3, <1>4, <1>5 DEF IsValidIn
<1> QED
    BY <1>6 DEF IsGood
-----------------------------------------------------------------------------
(* What a step from one registry to the next leaves as it was              *)

LEMMA DeltaIs ==
    ASSUME NEW old \in RegistryType, NEW new \in RegistryType,
           Len(old.generations) > 0, IsDelta(old, new)
    PROVE  LET n == Len(old.generations)
               m == Len(new.generations) IN
           /\ n \in Nat /\ m \in {n, n + 1}
           /\ \A i \in 1..n : i < n \/ m = n + 1 =>
                new.generations[i] = old.generations[i]
           /\ m = n + 1 => Latest(new).status = "arena"
           /\ m = n => /\ old.generations[n].status = "arena"
                       /\ new.generations[n].status = "complete"
                       /\ new.generations[n].challenger
                            = old.generations[n].challenger
                       /\ new.generations[n].manifests
                            = old.generations[n].manifests
<1> DEFINE n == Len(old.generations)
           m == Len(new.generations)
<1>1. /\ n \in Nat /\ m \in Nat
      /\ old.generations \in Seq(GenerationType)
      /\ new.generations \in Seq(GenerationType)
      /\ old.generations[n] \in GenerationType
    BY RegistryFacts
<1>2. CASE Appends(old, new)
  <2>1. m = n + 1 /\ SubSeq(new.generations, 1, n) = old.generations
        /\ Latest(new).status = "arena"
      BY <1>2 DEF Appends
  <2>2. \A i \in 1..n : new.generations[i] = old.generations[i]
      BY <1>1, <2>1, SubSeqProperties
  <2> QED
      BY <1>1, <2>1, <2>2
<1>3. CASE Finishes(old, new)
  <2>1. /\ m = n
        /\ SubSeq(new.generations, 1, n - 1)
             = SubSeq(old.generations, 1, n - 1)
        /\ Latest(old).status = "arena"
        /\ Latest(new) = [Latest(old) EXCEPT !.status = "complete",
                                             !.arena = Latest(new).arena]
      BY <1>3 DEF Finishes
  <2>2. Latest(old) = old.generations[n] /\ Latest(new) = new.generations[n]
      BY <2>1, LatestIs
  <2>3. /\ new.generations[n].status = "complete"
        /\ new.generations[n].challenger = old.generations[n].challenger
        /\ new.generations[n].manifests = old.generations[n].manifests
      BY <1>1, <2>1, <2>2 DEF GenerationType
  <2>4. ASSUME NEW i \in 1..n, i < n
        PROVE  new.generations[i] = old.generations[i]
    <3>1. /\ SubSeq(new.generations, 1, n - 1)[i] = new.generations[i]
          /\ SubSeq(old.generations, 1, n - 1)[i] = old.generations[i]
        BY <1>1, <2>1, <2>4, SubSeqProperties
    <3> QED
        BY <2>1, <3>1
  <2> QED
      BY <1>1, <2>1, <2>2, <2>3, <2>4
<1> QED
    BY <1>2, <1>3 DEF IsDelta

LEMMA DeltaExtends ==
    ASSUME NEW old \in RegistryType, NEW new \in RegistryType,
           Len(old.generations) > 0, IsDelta(old, new)
    PROVE  Extends(old, new)
<1> DEFINE n == Len(old.generations)
           m == Len(new.generations)
<1>1. /\ n \in Nat /\ m \in {n, n + 1}
      /\ \A i \in 1..n : i < n \/ m = n + 1 =>
           new.generations[i] = old.generations[i]
      /\ m = n => /\ old.generations[n].status = "arena"
                  /\ new.generations[n].challenger
                       = old.generations[n].challenger
                  /\ new.generations[n].manifests
                       = old.generations[n].manifests
    BY DeltaIs
<1> QED
    BY <1>1 DEF Extends

LEMMA ExtendsTwice ==
    ASSUME NEW r \in RegistryType, NEW s \in RegistryType,
           NEW t \in RegistryType, Extends(r, s), Extends(s, t)
    PROVE  Extends(r, t)
BY RegistryFacts DEF Extends

LEMMA ExtendsItself ==
    ASSUME NEW r \in RegistryType PROVE Extends(r, r)
BY RegistryFacts DEF Extends
-----------------------------------------------------------------------------
(* The steps of a command                                                  *)

LEMMA InitHolds == Init => IInv
<1> SUFFICES ASSUME Init PROVE IInv
    OBVIOUS
<1>1. Typed
  <2>1. Idle \in OpType
      BY InitialIs DEF Idle, OpType, Places
  <2>2. Fresh \in PipeType
      BY DEF Fresh, PipeType, StageNames
  <2> QED
      BY <2>1, <2>2, InitialIs DEF Init, Typed
<1>2. ArenasAreFair
    BY DEF Init, ArenasAreFair
<1>3. SnapshotsAreChained /\ SnapshotsExtend
    BY InitialIs, Constants DEF Init, SnapshotsAreChained, SnapshotsExtend
<1>4. JournalFollows
    BY DEF Init, JournalFollows
<1>5. \A p \in Operators : CommandIsSound(p)
    BY DEF Init, CommandIsSound, Idle, Inside, Recovering
<1>6. \A g \in Targets : PipelineIsSound(g)
    BY DEF Init, PipelineIsSound, Fresh
<1> QED
    BY <1>1, <1>2, <1>3, <1>4, <1>5, <1>6 DEF IInv

\* With the store as it was, it is as sound as it was.
StoreIsSound == ArenasAreFair /\ SnapshotsAreChained /\ SnapshotsExtend
                /\ JournalFollows
LEMMA StoreStays ==
    ASSUME StoreIsSound, UNCHANGED <<store, arenas>>
    PROVE  StoreIsSound'
BY DEF StoreIsSound, ArenasAreFair, SnapshotsAreChained, SnapshotsExtend,
   JournalFollows, store, Succeeds

\* A command that does not move is as sound as before.
LEMMA CommandStays ==
    ASSUME NEW p, CommandIsSound(p), op'[p] = op[p],
           op[p].pc \in Inside => lock' = lock,
           op[p].pc \in Inside \ Recovering => UNCHANGED <<journal, registry>>,
           UNCHANGED <<snapshot, arenas>>
    PROVE  CommandIsSound(p)'
BY DEF CommandIsSound, IsRevision, Inside, Recovering

LEMMA PipelineStays ==
    ASSUME \A g \in Targets : PipelineIsSound(g),
           UNCHANGED <<pipe, plans, arenas, snapshot>>
    PROVE  \A g \in Targets : PipelineIsSound(g)'
BY DEF PipelineIsSound, Story, Recorded

LEMMA OpFacts ==
    ASSUME Typed, NEW p \in Operators
    PROVE  /\ op \in [Operators -> OpType] /\ op[p] \in OpType
           /\ op[p].pc \in Places /\ op[p].base \in RegistryType
           /\ op[p].candidate \in RegistryType
           /\ Idle \in OpType /\ Idle.pc = "idle" /\ p # None
BY InitialIs, Constants DEF Typed, OpType, Idle, Places

\* Only who holds the lock, or takes it while it is free, is inside.
LEMMA CommandMoves ==
    ASSUME IInv, NEW p \in Operators, UNCHANGED <<store, plans, arenas, pipe>>,
           op' \in [Operators -> OpType],
           \A q \in Operators \ {p} : op'[q] = op[q],
           lock' \in Operators \union {None},
           lock' = lock \/ lock \in {None, p}, CommandIsSound(p)'
    PROVE  IInv'
<1>1. Typed'
    BY DEF IInv, Typed, OpType, store
<1>2. StoreIsSound'
    BY StoreStays DEF IInv, StoreIsSound
<1>3. ASSUME NEW q \in Operators PROVE CommandIsSound(q)'
  <2>1. CASE q = p
      BY <2>1
  <2>2. CASE q # p
    <3>1. CommandIsSound(q) /\ op'[q] = op[q]
        BY <2>2 DEF IInv
    <3>2. op[q].pc \in Inside => lock' = lock
        BY <2>2, <3>1, Constants DEF CommandIsSound
    <3> QED
        BY <3>1, <3>2, CommandStays DEF store
  <2> QED
      BY <2>1, <2>2
<1>4. \A g \in Targets : PipelineIsSound(g)'
    BY PipelineStays DEF IInv, store
<1> QED
    BY <1>1, <1>2, <1>3, <1>4 DEF IInv, StoreIsSound

\* Moves that keep what the command has read and computed.
LEMMA GotoIs ==
    ASSUME Typed, NEW p \in Operators, NEW pc \in Places, Goto(p, pc)
    PROVE  /\ op' \in [Operators -> OpType]
           /\ \A q \in Operators \ {p} : op'[q] = op[q]
           /\ op'[p].pc = pc /\ op'[p].base = op[p].base
           /\ op'[p].candidate = op[p].candidate
<1>1. op \in [Operators -> OpType]
    BY OpFacts
<1>2. op' = [op EXCEPT ![p] = [op[p] EXCEPT !.pc = pc]]
    BY DEF Goto
<1> QED
    BY <1>1, <1>2 DEF OpType

LEMMA IdleIs ==
    ASSUME Typed, NEW p \in Operators, op' = [op EXCEPT ![p] = Idle]
    PROVE  /\ op' \in [Operators -> OpType]
           /\ \A q \in Operators \ {p} : op'[q] = op[q]
           /\ op'[p].pc = "idle" /\ CommandIsSound(p)'
<1>1. op \in [Operators -> OpType] /\ Idle \in OpType /\ Idle.pc = "idle"
    BY OpFacts
<1>2. op'[p] = Idle
    BY <1>1
<1> QED
    BY <1>1, <1>2 DEF CommandIsSound, Inside, Recovering

LEMMA LeaveStep ==
    ASSUME IInv, NEW p \in Operators, UNCHANGED <<store, plans, arenas, pipe>>,
           op' = [op EXCEPT ![p] = Idle],
           (lock' = None /\ lock = p) \/ lock' = lock
    PROVE  IInv'
<1>1. Typed
    BY DEF IInv
<1>2. lock' \in Operators \union {None}
    BY <1>1 DEF Typed
<1> QED
    BY <1>1, <1>2, IdleIs, CommandMoves

LEMMA CommandSteps ==
    ASSUME IInv, NEW p \in Operators,
           \/ OpenToLoad(p) \/ OpenToWrite(p) \/ Load(p) \/ CheckRevision(p)
           \/ GiveUp(p) \/ EndUpdate(p) \/ Crash(p)
    PROVE  IInv'
<1>1. Typed /\ CommandIsSound(p) /\ op[p] \in OpType /\ p # None
    BY OpFacts DEF IInv
<1>2. CASE OpenToLoad(p)
  <2>1. /\ op'[p].pc = "load" /\ op' \in [Operators -> OpType]
        /\ \A q \in Operators \ {p} : op'[q] = op[q]
      BY <1>1, <1>2, GotoIs DEF OpenToLoad, Places
  <2>2. lock = None /\ lock' = p
      BY <1>2 DEF OpenToLoad
  <2>3. CommandIsSound(p)'
      BY <2>1, <2>2 DEF CommandIsSound
  <2> QED
      BY <1>2, <2>1, <2>2, <2>3, CommandMoves DEF OpenToLoad
<1>3. CASE OpenToWrite(p)
  <2>1. /\ op'[p].pc = "update" /\ op' \in [Operators -> OpType]
        /\ \A q \in Operators \ {p} : op'[q] = op[q]
        /\ op'[p].base = op[p].base /\ op'[p].candidate = op[p].candidate
      BY <1>1, <1>3, GotoIs DEF OpenToWrite, Places
  <2>2. lock = None /\ lock' = p /\ op[p].pc = "write"
      BY <1>3 DEF OpenToWrite
  <2>3. UNCHANGED <<store, plans, arenas, pipe>>
      BY <1>3 DEF OpenToWrite
  <2>4. CommandIsSound(p)'
      BY <1>1, <2>1, <2>2, <2>3 DEF CommandIsSound, IsRevision, store
  <2> QED
      BY <2>1, <2>2, <2>3, <2>4, CommandMoves
<1>4. CASE Load(p)
  <2> DEFINE o == [op[p] EXCEPT !.pc = "compute", !.base = registry]
  <2>1. op' = [op EXCEPT ![p] = o] /\ lock = p /\ lock' = None
        /\ UNCHANGED <<store, plans, arenas, pipe>>
      BY <1>4 DEF Load, Holds
  <2>2. o \in OpType /\ o.pc = "compute" /\ o.base = registry
      BY <1>1 DEF OpType, Places, Typed
  <2>3. /\ op' \in [Operators -> OpType] /\ op'[p] = o
        /\ \A q \in Operators \ {p} : op'[q] = op[q]
      BY <1>1, <2>1, <2>2, OpFacts
  <2>4. IsRevision(registry)'
      BY <2>1, Constants DEF IInv, SnapshotsAreChained, IsRevision, store
  <2>5. CommandIsSound(p)'
      BY <2>1, <2>2, <2>3, <2>4
         DEF CommandIsSound, Inside, Recovering, store
  <2> QED
      BY <2>1, <2>3, <2>5, CommandMoves
<1>5. CASE CheckRevision(p)
  <2>1. /\ op[p].pc = "update" /\ lock = p /\ journal = None
        /\ UNCHANGED <<store, plans, arenas, pipe>>
      BY <1>5 DEF CheckRevision, Holds
  <2>2. CASE Leaves(p)
      BY <2>1, <2>2, LeaveStep DEF Leaves
  <2>3. CASE ~Leaves(p)
    <3>1. /\ Goto(p, "snapshot") /\ lock' = lock
          /\ registry.revision = op[p].base.revision
          /\ registry.revision = 0 \/ IsDelta(registry, op[p].candidate)
        BY <1>5, <2>3 DEF CheckRevision
    <3>2. /\ op'[p].pc = "snapshot" /\ op' \in [Operators -> OpType]
          /\ \A q \in Operators \ {p} : op'[q] = op[q]
          /\ op'[p].base = op[p].base /\ op'[p].candidate = op[p].candidate
        BY <1>1, <3>1, GotoIs DEF Places
    <3>3. Succeeds(registry, op[p].candidate)
        BY <1>1, <2>1, <3>1 DEF CommandIsSound, Succeeds
    <3>4. CommandIsSound(p)'
        BY <1>1, <2>1, <3>1, <3>2, <3>3
           DEF CommandIsSound, IsRevision, store, Succeeds
    <3> QED
        BY <1>1, <2>1, <3>1, <3>2, <3>4, CommandMoves
  <2> QED
      BY <2>2, <2>3
<1>6. CASE GiveUp(p)
    BY <1>6, LeaveStep DEF GiveUp
<1>7. CASE EndUpdate(p)
    BY <1>7, LeaveStep DEF EndUpdate, Leaves, Holds
<1>8. CASE Crash(p)
    BY <1>8, LeaveStep DEF Crash
<1> QED
    BY <1>2, <1>3, <1>4, <1>5, <1>6, <1>7, <1>8

\* What was computed is a good registry of the next revision.
LEMMA ComputesStep ==
    ASSUME IInv, NEW p \in Operators, op[p].pc = "compute",
           NEW candidate, Computes(p, candidate), IsGood(arenas, candidate),
           candidate.revision = op[p].base.revision + 1
    PROVE  IInv'
<1>1. Typed /\ CommandIsSound(p) /\ op[p] \in OpType
    BY OpFacts DEF IInv
<1> DEFINE o == [op[p] EXCEPT !.pc = "write", !.candidate = candidate]
<1>2. /\ op' = [op EXCEPT ![p] = o]
      /\ UNCHANGED <<store, lock, plans, arenas, pipe>>
    BY DEF Computes
<1>3. o \in OpType /\ o.pc = "write" /\ o.base = op[p].base
      /\ o.candidate = candidate
    BY <1>1 DEF OpType, Places, IsGood
<1> HIDE DEF o
<1>4. /\ op' \in [Operators -> OpType] /\ op'[p] = o
      /\ \A q \in Operators \ {p} : op'[q] = op[q]
    BY <1>1, <1>2, <1>3, OpFacts
<1>5. o.base = Absent \/ (/\ o.base.revision \in Revisions
                           /\ o.base = snapshot'[o.base.revision])
    BY <1>1, <1>2, <1>3 DEF CommandIsSound, IsRevision, store
<1>6. CommandIsSound(p)'
    BY <1>1, <1>2, <1>3, <1>4, <1>5
       DEF CommandIsSound, Inside, Recovering, IsRevision, store
<1>7. lock' \in Operators \union {None}
    BY <1>1, <1>2 DEF Typed
<1> QED
    BY <1>2, <1>4, <1>6, <1>7, CommandMoves

\* What a command has read is a good registry.
LEMMA BaseIsGood ==
    ASSUME IInv, NEW p \in Operators, op[p].pc = "compute",
           op[p].base.revision # 0
    PROVE  LET base == op[p].base IN
           /\ IsGood(arenas, base) /\ base \in RegistryType
           /\ Len(base.generations) \in 1..MaxGenerations
           /\ base.generations \in Seq(GenerationType)
           /\ Latest(base) = base.generations[Len(base.generations)]
           /\ Latest(base) \in GenerationType
<1>1. op[p].base \in RegistryType
    BY OpFacts DEF IInv
<1>2. op[p].base.revision \in Revisions
      /\ op[p].base = snapshot[op[p].base.revision]
    BY InitialIs DEF IInv, CommandIsSound, IsRevision
<1>3. IsGood(arenas, op[p].base)
    BY <1>1, <1>2, Nothing DEF IInv, SnapshotsAreChained
<1>4. Len(op[p].base.generations) \in 1..MaxGenerations
    BY <1>3 DEF IsGood, IsNumbered
<1> QED
    BY <1>1, <1>3, <1>4, RegistryFacts, LatestIs

LEMMA InitRegistryStep ==
    ASSUME IInv, NEW p \in Operators, InitRegistry(p) PROVE IInv'
<1>1. op[p].pc = "compute" /\ op[p].base.revision = 0
      /\ Computes(p, InitialRegistry)
    BY DEF InitRegistry
<1> QED
    BY <1>1, InitialIs, InitialIsGood, ComputesStep

LEMMA RegisterStep ==
    ASSUME IInv, NEW p \in Operators, NEW model \in Lineages,
           NEW manifests \in Lineages, RegisterChallenger(p, model, manifests)
    PROVE  IInv'
<1> DEFINE base == op[p].base
           n == Len(base.generations)
           gen == Generation(base.champion, model, manifests)
           candidate == [revision |-> base.revision + 1, challenger |-> model,
                         champion |-> base.champion,
                         generations |-> Append(base.generations, gen)]
<1>1. /\ op[p].pc = "compute" /\ base.revision # 0
      /\ Latest(base).status = "complete" /\ n < MaxGenerations
      /\ IsValid(candidate) /\ Computes(p, candidate)
    BY DEF RegisterChallenger
<1>2. /\ IsGood(arenas, base) /\ base \in RegistryType
      /\ n \in 1..MaxGenerations /\ base.generations \in Seq(GenerationType)
      /\ base.revision \in Nat /\ base.champion \in Models
    BY <1>1, BaseIsGood, RegistryFacts
<1>3. gen \in GenerationType /\ gen.status = "arena"
    BY <1>2 DEF Generation, GenerationType
<1> HIDE DEF gen
<1> DEFINE gens == Append(base.generations, gen)
<1>4. /\ gens \in Seq(GenerationType) /\ Len(gens) = n + 1
      /\ gens[n + 1] = gen /\ \A i \in 1..n : gens[i] = base.generations[i]
    BY <1>2, <1>3, AppendProperties
<1> HIDE DEF gens
<1>5. candidate \in RegistryType
    BY <1>2, <1>4, RegistryTypeIs DEF gens
<1>6. candidate.generations = gens
    BY DEF gens
<1>7. base.revision = 2 * n - 1
    BY <1>1, <1>2 DEF IsGood, IsNumbered
<1>8. IsNumbered(candidate)
  <2>1. Latest(candidate) = gen /\ Len(candidate.generations) = n + 1
      BY <1>4, <1>6, LatestIs
  <2>2. candidate.revision = 2 * (n + 1) - 2
      BY <1>2, <1>7
  <2> HIDE DEF candidate
  <2> QED
      BY <1>1, <1>2, <1>3, <2>1, <2>2, Constants DEF IsNumbered
<1>9. IsRooted(candidate)
    BY <1>2, <1>4, <1>6 DEF IsGood, IsRooted
<1>10. IsValidIn(arenas, candidate)
    BY <1>1, ValidIs
<1>11. IsGood(arenas, candidate)
    BY <1>5, <1>8, <1>9, <1>10 DEF IsGood
<1>12. candidate.revision = base.revision + 1
    OBVIOUS
<1> HIDE DEF candidate
<1> QED
    BY <1>1, <1>11, <1>12, ComputesStep

LEMMA PromotionStep ==
    ASSUME IInv, NEW p \in Operators, NEW a \in Arenas, RecordPromotion(p, a)
    PROVE  IInv'
<1> DEFINE base == op[p].base
           n == Len(base.generations)
           gen == [Latest(base) EXCEPT !.status = "complete", !.arena = a]
           gens == [base.generations EXCEPT ![n] = gen]
           candidate == [revision |-> base.revision + 1, challenger |-> None,
                         champion |-> Outcome(gen), generations |-> gens]
<1>1. /\ op[p].pc = "compute" /\ base.revision # 0
      /\ Latest(base).status = "arena"
      /\ IsEvidenceFor(a, Latest(base), n)
      /\ IsValid(candidate) /\ Computes(p, candidate)
    BY DEF RecordPromotion
<1>2. /\ IsGood(arenas, base) /\ base \in RegistryType
      /\ n \in 1..MaxGenerations /\ base.generations \in Seq(GenerationType)
      /\ base.revision \in Nat /\ Latest(base) \in GenerationType
    BY <1>1, BaseIsGood, RegistryFacts
<1>3. /\ gen \in GenerationType /\ gen.status = "complete"
      /\ gen.champion = Latest(base).champion
      /\ gen.challenger = Latest(base).challenger
    BY <1>2 DEF GenerationType
<1>4. arenas[a].challenger \in Models
    BY <1>1 DEF IInv, Typed, ArenaType, IsEvidenceFor, Models
<1>5. Outcome(gen) \in Models
    BY <1>1, <1>3, <1>4 DEF Outcome, GenerationType, IsEvidenceFor
<1>6. n > 1 /\ base.revision = 2 * n - 2
    BY <1>1, <1>2 DEF IsGood, IsNumbered
<1> HIDE DEF gen
<1>7. /\ gens \in Seq(GenerationType) /\ Len(gens) = n
      /\ gens[n] = gen
      /\ \A i \in 1..n : i # n => gens[i] = base.generations[i]
    BY <1>2, <1>3, ExceptSeq, LenProperties
<1> HIDE DEF gens
<1>8. candidate \in RegistryType
    BY <1>2, <1>5, <1>7, RegistryTypeIs
<1>9. IsNumbered(candidate)
  <2>1. Latest(candidate) = gen /\ Len(candidate.generations) = n
      BY <1>7, LatestIs
  <2>2. candidate.revision = 2 * n - 1
      BY <1>2, <1>6
  <2> HIDE DEF candidate
  <2> QED
      BY <1>2, <1>3, <2>1, <2>2 DEF IsNumbered
<1>10. IsRooted(candidate)
  <2>1. gens[1] = base.generations[1]
      BY <1>2, <1>6, <1>7
  <2> QED
      BY <1>2, <2>1 DEF IsGood, IsRooted
<1>11. IsValidIn(arenas, candidate)
    BY <1>1, ValidIs
<1>12. IsGood(arenas, candidate)
    BY <1>8, <1>9, <1>10, <1>11 DEF IsGood
<1>13. candidate.revision = base.revision + 1
    OBVIOUS
<1> HIDE DEF candidate
<1> QED
    BY <1>1, <1>12, <1>13, ComputesStep
-----------------------------------------------------------------------------
(* The steps of a session that change the store                            *)

\* Snapshots, arenas and plans that are there stay.
SnapshotsStay ==
    \A r \in Revisions : snapshot[r] # None => snapshot'[r] = snapshot[r]
LEMMA CommandKept ==
    ASSUME Typed, NEW q \in Operators, CommandIsSound(q), op'[q] = op[q],
           SnapshotsStay, Grown(arenas, arenas'),
           op[q].pc \in Inside => lock' = lock,
           op[q].pc \in Inside \ Recovering =>
              UNCHANGED <<journal, registry, snapshot>>
    PROVE  CommandIsSound(q)'
<1> DEFINE o == op[q]
<1>1. o.base \in RegistryType /\ o.candidate \in RegistryType
    BY OpFacts
<1>2. IsRevision(o.base) => \/ o.base = Absent
                            \/ /\ o.base.revision \in Revisions
                               /\ o.base = snapshot'[o.base.revision]
    BY <1>1, Nothing DEF IsRevision, SnapshotsStay
<1>3. IsGood(arenas, o.candidate) => IsGood(arenas', o.candidate)
    BY GoodStays
<1> QED
    BY <1>2, <1>3 DEF CommandIsSound, IsRevision, Inside, Recovering

LEMMA PipelineKept ==
    ASSUME Typed, \A g \in Targets : PipelineIsSound(g), pipe' = pipe,
           SnapshotsStay, Grown(arenas, arenas'),
           \A l \in Lineages : plans[l] # None => plans'[l] = plans[l]
    PROVE  \A g \in Targets : PipelineIsSound(g)'
<1> SUFFICES ASSUME NEW g \in Targets, pipe[g].status = "complete"
             PROVE  Story(g)'
    BY DEF PipelineIsSound
<1>1. Story(g)
    BY DEF PipelineIsSound
<1> DEFINE r == Recorded(g, "modelRegistry")
           l == Recorded(g, "selfplayPlan")
           a == Recorded(g, "arenaPlan")
<1>2. \A s : Recorded(g, s)' = Recorded(g, s)
    BY DEF Recorded
<1>3. plans'[l] = plans[l] /\ arenas'[a] = arenas[a]
      /\ snapshot'[r + 1] = snapshot[r + 1]
      /\ snapshot'[r + 2] = snapshot[r + 2]
    BY <1>1 DEF Story, SnapshotsStay, Grown
<1> QED
    BY ZenonT(60), <1>1, <1>2, <1>3 DEF Story, Latest, Last

\* Who is inside while p is, is p.
LEMMA Alone ==
    ASSUME IInv, NEW p \in Operators, lock = p, NEW q \in Operators, q # p
    PROVE  op[q].pc \notin Inside
BY DEF IInv, CommandIsSound

LEMMA ApplyStep ==
    ASSUME IInv, NEW p \in Operators, ApplyJournal(p) PROVE IInv'
<1>1. /\ Typed /\ lock = p /\ op[p].pc \in Recovering /\ journal # None
      /\ registry.revision = journal.expected
      /\ UNCHANGED <<journal, snapshot, plans, arenas, pipe, crashes>>
    BY DEF IInv, ApplyJournal, Holds
<1>2. CASE Leaves(p) /\ UNCHANGED registry
    BY <1>1, <1>2, LeaveStep DEF Leaves, store
<1>3. CASE registry' = journal.candidate /\ UNCHANGED <<lock, op>>
  <2> DEFINE e == journal.expected
             c == journal.candidate
  <2>1. /\ journal \in JournalType /\ e \in Nat /\ c \in RegistryType
        /\ e + 1 \in Revisions /\ snapshot[e + 1] = c
      BY <1>1 DEF IInv, JournalFollows, Typed, JournalType
  <2>2. c # None /\ c.revision = e + 1
      BY <1>1, <2>1, Nothing DEF IInv, SnapshotsAreChained
  <2>3. Typed'
      BY <1>1, <1>3, <2>1 DEF Typed
  <2>4. SnapshotsAreChained'
    <3>1. registry' = c /\ registry'.revision = e + 1 /\ e + 1 # 0
        BY <1>3, <2>1, <2>2
    <3>2. ASSUME NEW r \in Revisions, r <= e + 1 PROVE snapshot[r] # None
        BY <1>1, <2>1, <2>2, <3>2, Nothing, Constants
           DEF IInv, SnapshotsAreChained
    <3>3. ASSUME NEW r \in Revisions, snapshot[r] # None
          PROVE  r <= e + 2 /\ IsGood(arenas, snapshot[r])
                 /\ snapshot[r].revision = r
      <4>1. r <= e + 1
          BY <1>1, <3>3 DEF IInv, SnapshotsAreChained
      <4> QED
          BY <2>1, <3>3, <4>1, Constants DEF IInv, SnapshotsAreChained
    <3> QED
        BY <1>1, <2>1, <3>1, <3>2, <3>3 DEF SnapshotsAreChained
  <2>5. JournalFollows'
      BY <1>1, <1>3, <2>1 DEF JournalFollows
  <2>6. ArenasAreFair' /\ SnapshotsExtend'
      BY <1>1 DEF IInv, ArenasAreFair, SnapshotsExtend
  <2>7. ASSUME NEW q \in Operators PROVE CommandIsSound(q)'
    <3>1. op[q].pc \notin Inside \ Recovering
        BY <1>1, Alone DEF Inside, Recovering
    <3> QED
        BY <1>1, <1>3, <3>1, CommandStays DEF IInv
  <2>8. \A g \in Targets : PipelineIsSound(g)'
      BY <1>1, PipelineStays DEF IInv
  <2> QED
      BY <2>3, <2>4, <2>5, <2>6, <2>7, <2>8 DEF IInv
<1> QED
    BY <1>2, <1>3 DEF ApplyJournal

LEMMA RetireStep ==
    ASSUME IInv, NEW p \in Operators, RetireJournal(p) PROVE IInv'
<1>1. /\ Typed /\ lock = p /\ op[p].pc \in Recovering
      /\ UNCHANGED <<registry, snapshot, plans, arenas, pipe, crashes>>
    BY DEF IInv, RetireJournal, Holds
<1>2. CASE Leaves(p) /\ UNCHANGED journal
    BY <1>1, <1>2, LeaveStep DEF Leaves, store
<1>3. CASE journal' = None /\ UNCHANGED <<lock, op>>
  <2>1. Typed' /\ JournalFollows'
      BY <1>1, <1>3 DEF Typed, JournalFollows
  <2>2. ArenasAreFair' /\ SnapshotsExtend' /\ SnapshotsAreChained'
      BY <1>1 DEF IInv, ArenasAreFair, SnapshotsExtend, SnapshotsAreChained
  <2>3. ASSUME NEW q \in Operators PROVE CommandIsSound(q)'
    <3>1. op[q].pc \notin Inside \ Recovering
        BY <1>1, Alone DEF Inside, Recovering
    <3> QED
        BY <1>1, <1>3, <3>1, CommandStays DEF IInv
  <2>4. \A g \in Targets : PipelineIsSound(g)'
      BY <1>1, PipelineStays DEF IInv
  <2> QED
      BY <2>1, <2>2, <2>3, <2>4 DEF IInv
<1> QED
    BY <1>2, <1>3 DEF RetireJournal

LEMMA GoodRevision ==
    ASSUME NEW ar, NEW reg, IsGood(ar, reg) PROVE reg.revision \in Revisions
<1> DEFINE n == Len(reg.generations)
<1>1. reg \in RegistryType /\ n \in 1..MaxGenerations
    BY DEF IsGood, IsNumbered
<1>2. Latest(reg).status \in {"arena", "complete"}
    BY <1>1, RegistryFacts, LatestIs, GenerationFacts
<1>3. /\ Latest(reg).status = "arena" => n > 1 /\ reg.revision = 2 * n - 2
      /\ Latest(reg).status = "complete" => reg.revision = 2 * n - 1
    BY DEF IsGood, IsNumbered
<1> HIDE DEF n
<1>4. \/ n > 1 /\ reg.revision = 2 * n - 2
      \/ reg.revision = 2 * n - 1
    BY <1>2, <1>3
<1> QED
    BY <1>1, <1>4, Constants

LEMMA WriteJournalStep ==
    ASSUME IInv, NEW p \in Operators, WriteJournal(p) PROVE IInv'
<1> DEFINE o == op[p]
           j == [expected |-> o.base.revision, candidate |-> o.candidate]
<1>1. /\ Typed /\ lock = p /\ o.pc = "journal" /\ journal' = j
      /\ Goto(p, "publish")
      /\ UNCHANGED <<registry, snapshot, lock, plans, arenas, pipe>>
    BY DEF IInv, WriteJournal, Holds
<1>2. /\ o.base \in RegistryType /\ o.candidate \in RegistryType
      /\ o.base.revision \in Nat
    BY <1>1, OpFacts, RegistryFacts
<1>3. /\ o.candidate.revision = o.base.revision + 1
      /\ registry.revision = o.base.revision /\ Succeeds(registry, o.candidate)
      /\ snapshot[o.candidate.revision] = o.candidate
      /\ IsGood(arenas, o.candidate)
    BY <1>1 DEF IInv, CommandIsSound
<1>4. o.candidate.revision \in Revisions
    BY <1>3, GoodRevision
<1>5. /\ op' \in [Operators -> OpType] /\ op'[p].pc = "publish"
      /\ \A q \in Operators \ {p} : op'[q] = op[q]
    BY <1>1, GotoIs DEF Places
<1>6. Typed'
    BY <1>1, <1>2, <1>5 DEF Typed, OpType, JournalType
<1>7. JournalFollows'
  <2>1. /\ journal'.expected = o.base.revision
        /\ journal'.candidate = o.candidate
      BY <1>1
  <2>2. Succeeds(registry', journal'.candidate)
      BY <1>1, <1>3, <2>1
  <2> QED
      BY <1>1, <1>3, <1>4, <2>1, <2>2 DEF JournalFollows, Succeeds
<1>8. ArenasAreFair' /\ SnapshotsExtend' /\ SnapshotsAreChained'
    BY <1>1 DEF IInv, ArenasAreFair, SnapshotsExtend, SnapshotsAreChained
<1>9. ASSUME NEW q \in Operators PROVE CommandIsSound(q)'
  <2>1. CASE q = p
      BY <1>1, <1>5, <2>1 DEF CommandIsSound
  <2>2. CASE q # p
    <3>1. op[q].pc \notin Inside /\ op'[q] = op[q]
        BY <1>1, <1>5, <2>2, Alone
    <3> QED
        BY <1>1, <3>1, CommandStays DEF IInv
  <2> QED
      BY <2>1, <2>2
<1>10. \A g \in Targets : PipelineIsSound(g)'
    BY <1>1, PipelineStays DEF IInv
<1> QED
    BY <1>6, <1>7, <1>8, <1>9, <1>10 DEF IInv

\* A snapshot that is published follows the registry, and all before it.
LEMMA PublishStep ==
    ASSUME IInv, NEW p \in Operators, PublishSnapshot(p) PROVE IInv'
<1> DEFINE o == op[p]
           c == op[p].candidate
           r == op[p].candidate.revision
<1>1. /\ Typed /\ lock = p /\ o.pc = "snapshot"
      /\ UNCHANGED <<registry, journal, plans, arenas, pipe>>
    BY DEF IInv, PublishSnapshot, Holds
<1>2. CASE Leaves(p) /\ UNCHANGED snapshot
    BY <1>1, <1>2, LeaveStep DEF Leaves, store
<1>3. CASE /\ snapshot[r] \in {None, c}
           /\ snapshot' = [snapshot EXCEPT ![r] = c]
           /\ Goto(p, "journal") /\ UNCHANGED lock
  <2>1. /\ c \in RegistryType /\ c # None /\ registry \in RegistryType
        /\ IsGood(arenas, c) /\ r \in Revisions /\ journal = None
        /\ r = registry.revision + 1 /\ r = o.base.revision + 1
        /\ registry.revision = o.base.revision
        /\ Succeeds(registry, c) /\ registry.revision \in Nat
      BY <1>1, OpFacts, GoodRevision, Nothing, RegistryFacts
         DEF IInv, CommandIsSound, Succeeds, Typed
  <2>2. /\ snapshot \in [Revisions -> RegistryType \union {None}]
        /\ snapshot' \in [Revisions -> RegistryType \union {None}]
        /\ snapshot'[r] = c
        /\ \A q \in Revisions : q # r => snapshot'[q] = snapshot[q]
      BY <1>1, <1>3, <2>1 DEF Typed
  <2>3. SnapshotsStay
      BY <1>3, <2>1, <2>2 DEF SnapshotsStay
  <2>4. /\ op' \in [Operators -> OpType] /\ op'[p].pc = "journal"
        /\ op'[p].base = o.base /\ op'[p].candidate = c
        /\ \A q \in Operators \ {p} : op'[q] = op[q]
      BY <1>1, <1>3, GotoIs DEF Places
  <2>5. Typed'
      BY <1>1, <1>3, <2>2, <2>4 DEF Typed, OpType
  <2> HIDE DEF c, r
  <2>6. SnapshotsAreChained'
    <3>1. ASSUME NEW q \in Revisions, snapshot'[q] # None
          PROVE  /\ IsGood(arenas, snapshot'[q])
                 /\ snapshot'[q].revision = q /\ q <= registry.revision + 1
      <4>1. CASE q = r
          BY <2>1, <2>2, <4>1, Constants DEF r, c
      <4>2. CASE q # r
          BY <2>2, <3>1, <4>2 DEF IInv, SnapshotsAreChained
      <4> QED
          BY <4>1, <4>2
    <3>2. ASSUME NEW q \in Revisions, q <= registry.revision
          PROVE  snapshot'[q] # None
        BY <2>1, <2>2, <3>2, Constants DEF IInv, SnapshotsAreChained
    <3>3. registry.revision # 0 =>
            snapshot'[registry.revision] = snapshot[registry.revision]
        BY <2>1, <2>2 DEF IInv, SnapshotsAreChained
    <3> QED
        BY <1>1, <3>1, <3>2, <3>3 DEF IInv, SnapshotsAreChained
  <2>7. SnapshotsExtend'
    <3> SUFFICES ASSUME NEW q \in Revisions, NEW s \in Revisions, q <= s,
                        snapshot'[s] # None
                 PROVE  snapshot'[q] # None
                        /\ Extends(snapshot'[q], snapshot'[s])
        BY DEF SnapshotsExtend
    <3>1. CASE s # r
      <4>1. s <= registry.revision + 1
          BY <2>2, <3>1 DEF IInv, SnapshotsAreChained
      <4>2. q # r
          BY <2>1, <3>1, <4>1, Constants
      <4> QED
          BY <2>2, <3>1, <4>2 DEF IInv, SnapshotsExtend
    <3>2. CASE s = r /\ q = r
        BY <2>1, <2>2, <3>2, ExtendsItself
    <3>3. CASE s = r /\ q # r
      <4> DEFINE n == registry.revision
      <4>1. /\ q <= n /\ n \in Revisions /\ registry = snapshot[n]
            /\ snapshot[n] # None
          BY <2>1, <3>3, Constants DEF IInv, SnapshotsAreChained
      <4>2. snapshot[q] # None /\ Extends(snapshot[q], registry)
          BY <4>1 DEF IInv, SnapshotsExtend
      <4>3. n # 0 /\ Len(registry.generations) > 0
          BY <4>1, Constants DEF IInv, SnapshotsAreChained, IsGood, IsNumbered
      <4>4. Extends(registry, c)
          BY <2>1, <4>3, DeltaExtends DEF Succeeds
      <4>5. snapshot[q] \in RegistryType
          BY <2>2, <4>2
      <4>6. Extends(snapshot[q], c)
          BY <2>1, <4>2, <4>4, <4>5, ExtendsTwice
      <4> QED
          BY <2>2, <3>3, <4>2, <4>6
    <3> QED
        BY <3>1, <3>2, <3>3
  <2>8. ArenasAreFair' /\ JournalFollows'
      BY <1>1, <2>1 DEF IInv, ArenasAreFair, JournalFollows
  <2>9. Grown(arenas, arenas')
      BY <1>1 DEF Grown
  <2>10. ASSUME NEW q \in Operators PROVE CommandIsSound(q)'
    <3>1. CASE q = p
      <4>1. CommandIsSound(p) /\ IsRevision(o.base)
          BY <1>1 DEF IInv, CommandIsSound
      <4>2. o.base = Absent \/ (/\ o.base.revision \in Revisions
                                /\ o.base = snapshot'[o.base.revision])
          BY <1>1, <2>3, <4>1, OpFacts, Nothing
             DEF IsRevision, SnapshotsStay
      <4>3. Succeeds(registry', c)
          BY <1>1, <2>1
      <4> QED
          BY <1>1, <1>3, <2>1, <2>2, <2>4, <3>1, <4>2, <4>3
             DEF CommandIsSound, IsRevision, Succeeds, r, c, Inside, Recovering
    <3>2. CASE q # p
      <4>1. op[q].pc \notin Inside /\ op'[q] = op[q]
          BY <1>1, <2>4, <3>2, Alone
      <4> QED
          BY <1>1, <2>3, <2>9, <4>1, CommandKept DEF IInv
    <3> QED
        BY <3>1, <3>2
  <2>11. \A g \in Targets : PipelineIsSound(g)'
      BY <1>1, <2>3, <2>9, PipelineKept DEF IInv
  <2> QED
      BY <2>5, <2>6, <2>7, <2>8, <2>10, <2>11 DEF IInv
<1> QED
    BY <1>2, <1>3 DEF PublishSnapshot

LEMMA PlanStep ==
    ASSUME IInv, NEW l \in Lineages, NEW g \in Targets, PlanSelfplay(l, g)
    PROVE  IInv'
<1>1. /\ Typed /\ registry.revision # 0 /\ plans[l] = None
      /\ plans' = [plans EXCEPT ![l] = [generation |-> g,
                                        revision |-> registry.revision]]
      /\ UNCHANGED <<store, lock, op, arenas, pipe>>
    BY DEF IInv, PlanSelfplay
<1>2. registry.revision \in Revisions
    BY <1>1 DEF IInv, SnapshotsAreChained
<1>3. Typed' /\ \A m \in Lineages : plans[m] # None => plans'[m] = plans[m]
    BY <1>1, <1>2 DEF Typed, PlanType, store
<1>4. StoreIsSound'
    BY <1>1, StoreStays DEF IInv, StoreIsSound
<1>5. ASSUME NEW q \in Operators PROVE CommandIsSound(q)'
    BY <1>1, CommandStays DEF IInv, store
<1>6. SnapshotsStay /\ Grown(arenas, arenas')
    BY <1>1 DEF SnapshotsStay, Grown, store
<1>7. \A h \in Targets : PipelineIsSound(h)'
    BY <1>1, <1>3, <1>6, PipelineKept DEF IInv
<1> QED
    BY <1>3, <1>4, <1>5, <1>7 DEF IInv, StoreIsSound

\* The verdict on an arena promotes only a challenger that won it.
LEMMA PromotionsAreWins ==
    ASSUME NEW d \in Decisions
    PROVE  d.promotes \in BOOLEAN /\ d.win \in BOOLEAN
           /\ (d.promotes => d.win)
<1>1. PICK e \in Evidence : d = [promotes |-> Decide(e) = "promoted",
                                 win |-> IsWin(e)]
    BY DEF Decisions
<1>2. Decide(e) = "promoted" => IsWin(e)
    BY DEF Decide, IsWin, Evidence
<1>3. IsWin(e) \in BOOLEAN
    BY DEF IsWin, Evidence
<1> QED
    BY <1>1, <1>2, <1>3

LEMMA ArenaStep ==
    ASSUME IInv, NEW a \in Arenas, PlayArena(a) PROVE IInv'
<1>1. PICK d \in Decisions :
        arenas' = [arenas EXCEPT ![a] =
            [generation |-> Len(registry.generations),
             champion |-> registry.champion,
             challenger |-> registry.challenger,
             revision |-> registry.revision,
             promotes |-> d.promotes, win |-> d.win]]
    BY DEF PlayArena
<1> DEFINE new == [generation |-> Len(registry.generations),
                   champion |-> registry.champion,
                   challenger |-> registry.challenger,
                   revision |-> registry.revision,
                   promotes |-> d.promotes, win |-> d.win]
<1>2. /\ Typed /\ arenas[a] = None /\ registry.revision # 0
      /\ registry.challenger # None
      /\ UNCHANGED <<store, lock, op, plans, pipe>>
    BY DEF IInv, PlayArena
<1>3. /\ registry.revision \in Revisions /\ registry \in RegistryType
      /\ IsGood(arenas, registry)
    BY <1>2, Constants DEF IInv, SnapshotsAreChained, Typed
<1>4. Len(registry.generations) \in 1..MaxGenerations
    BY <1>3 DEF IsGood, IsNumbered
<1>5. /\ d.promotes \in BOOLEAN /\ d.win \in BOOLEAN
      /\ d.promotes => d.win
    BY PromotionsAreWins
<1>6. new \in ArenaType /\ new # None
    BY <1>2, <1>3, <1>4, <1>5, RegistryFacts, Nothing DEF ArenaType
<1>7. /\ arenas' \in [Arenas -> ArenaType \union {None}]
      /\ arenas'[a] = new
      /\ \A b \in Arenas : b # a => arenas'[b] = arenas[b]
    BY <1>1, <1>2, <1>6 DEF Typed
<1>8. Typed'
    BY <1>2, <1>7 DEF Typed, store
<1>9. ArenasAreFair'
    BY <1>5, <1>7 DEF IInv, ArenasAreFair
<1>10. Grown(arenas, arenas') /\ SnapshotsStay
    BY <1>2, <1>7 DEF Grown, SnapshotsStay, store
<1>11. SnapshotsAreChained'
  <2>1. \A r \in Revisions : snapshot[r] # None => IsGood(arenas', snapshot[r])
      BY <1>10, GoodStays DEF IInv, SnapshotsAreChained
  <2> QED
      BY <1>2, <2>1 DEF IInv, SnapshotsAreChained, store
<1>12. SnapshotsExtend' /\ JournalFollows'
    BY <1>2 DEF IInv, SnapshotsExtend, JournalFollows, store, Succeeds
<1>13. ASSUME NEW q \in Operators PROVE CommandIsSound(q)'
    BY <1>2, <1>10, CommandKept DEF IInv, store
<1>14. \A h \in Targets : PipelineIsSound(h)'
    BY <1>2, <1>10, PipelineKept DEF IInv
<1> QED
    BY <1>8, <1>9, <1>11, <1>12, <1>13, <1>14 DEF IInv
-----------------------------------------------------------------------------
(* The steps of a pipeline                                                 *)

LEMMA StagesAre ==
    /\ Len(Stages) = 16
    /\ Stages[1] = "modelRegistry" /\ Stages[2] = "selfplayPlan"
    /\ Stages[3] = "selfplayManifest" /\ Stages[4] = "positionEvidence"
    /\ Stages[5] = "hardPositions" /\ Stages[6] = "teacherLabelingManifest"
    /\ Stages[7] = "replayManifest" /\ Stages[8] = "trainingPlan"
    /\ Stages[9] = "trainingRunManifest"
    /\ Stages[10] = "challengerExportMetadata"
    /\ Stages[11] = "challengerModel" /\ Stages[12] = "arenaPlan"
    /\ Stages[13] = "arenaResults" /\ Stages[14] = "arenaAnalysis"
    /\ Stages[15] = "promotionDecision" /\ Stages[16] = "finalModelRegistry"
BY DEF Stages

\* The checks of a whole chain say that it is the artifacts of one lineage and
\* one arena, between three revisions in a row.
AllFit(g) ==
    \A i \in 1..Len(Stages) : Fits(g, Stages[i], Recorded(g, Stages[i]))
LEMMA LineageIsOne ==
    ASSUME NEW g \in Targets, AllFit(g)
    PROVE  LET l == Recorded(g, "selfplayPlan") IN
           /\ l \in Lineages /\ PlanFits(g, l)
           /\ \A i \in 2..11 : Recorded(g, Stages[i]) = l
<1> DEFINE l == Recorded(g, "selfplayPlan")
<1>1. /\ Fits(g, "selfplayPlan", Recorded(g, "selfplayPlan"))
      /\ Fits(g, "selfplayManifest", Recorded(g, "selfplayManifest"))
      /\ Fits(g, "positionEvidence", Recorded(g, "positionEvidence"))
      /\ Fits(g, "hardPositions", Recorded(g, "hardPositions"))
      /\ Fits(g, "teacherLabelingManifest",
              Recorded(g, "teacherLabelingManifest"))
      /\ Fits(g, "replayManifest", Recorded(g, "replayManifest"))
      /\ Fits(g, "trainingPlan", Recorded(g, "trainingPlan"))
      /\ Fits(g, "trainingRunManifest", Recorded(g, "trainingRunManifest"))
      /\ Fits(g, "challengerExportMetadata",
              Recorded(g, "challengerExportMetadata"))
      /\ Fits(g, "challengerModel", Recorded(g, "challengerModel"))
    BY StagesAre DEF AllFit
<1>2. l \in Lineages /\ PlanFits(g, l)
    BY <1>1 DEF Fits, SelfplayFits, LabelsFit, ReplayFits, TrainingFits,
                ExportFits, ResultsFit
<1>3. /\ Recorded(g, "selfplayManifest") = l
      /\ Recorded(g, "positionEvidence") = l
    BY <1>1 DEF Fits, SelfplayFits, LabelsFit, ReplayFits, TrainingFits,
                ExportFits, ResultsFit, Follows
<1>4. Recorded(g, "hardPositions") = l
    BY <1>1, <1>3 DEF Fits, SelfplayFits, LabelsFit, ReplayFits, TrainingFits,
                      ExportFits, ResultsFit, Follows
<1>5. Recorded(g, "replayManifest") = l
    BY <1>1, <1>3 DEF Fits, SelfplayFits, LabelsFit, ReplayFits, TrainingFits,
                      ExportFits, ResultsFit, Follows
<1>6. /\ Recorded(g, "trainingPlan") = l
      /\ Recorded(g, "teacherLabelingManifest") = l
    BY <1>1 DEF Fits, SelfplayFits, LabelsFit, ReplayFits, TrainingFits,
                ExportFits, ResultsFit, Follows
<1>7. Recorded(g, "trainingRunManifest") = l
    BY <1>1 DEF Fits, SelfplayFits, LabelsFit, ReplayFits, TrainingFits,
                ExportFits, ResultsFit, Follows
<1>8. Recorded(g, "challengerExportMetadata") = l
    BY <1>1, <1>6 DEF Fits, SelfplayFits, LabelsFit, ReplayFits, TrainingFits,
                      ExportFits, ResultsFit, Follows
<1>9. Recorded(g, "challengerModel") = l
    BY <1>1, <1>8 DEF Fits, SelfplayFits, LabelsFit, ReplayFits, TrainingFits,
                      ExportFits, ResultsFit, Follows
<1>10. \A i \in 2..11 : i \in {2, 3, 4, 5, 6, 7, 8, 9, 10, 11}
    OBVIOUS
<1> QED
    BY <1>2, <1>3, <1>4, <1>5, <1>6, <1>7, <1>8, <1>9, <1>10, StagesAre

LEMMA ArenaIsOne ==
    ASSUME NEW g \in Targets, AllFit(g)
    PROVE  LET a == Recorded(g, "arenaPlan") IN
           /\ a \in Arenas /\ ArenaFits(g, a)
           /\ \A i \in 12..15 : Recorded(g, Stages[i]) = a
<1> DEFINE a == Recorded(g, "arenaPlan")
<1>1. /\ Fits(g, "arenaPlan", Recorded(g, "arenaPlan"))
      /\ Fits(g, "arenaResults", Recorded(g, "arenaResults"))
      /\ Fits(g, "arenaAnalysis", Recorded(g, "arenaAnalysis"))
      /\ Fits(g, "promotionDecision", Recorded(g, "promotionDecision"))
    BY StagesAre DEF AllFit
<1>2. a \in Arenas /\ ArenaFits(g, a)
    BY <1>1 DEF Fits, SelfplayFits, LabelsFit, ReplayFits, TrainingFits,
                ExportFits, ResultsFit
<1>3. /\ Recorded(g, "arenaResults") = a
      /\ Recorded(g, "arenaAnalysis") = a
      /\ Recorded(g, "promotionDecision") = a
    BY <1>1 DEF Fits, SelfplayFits, LabelsFit, ReplayFits, TrainingFits,
                ExportFits, ResultsFit
<1>4. \A i \in 12..15 : i \in {12, 13, 14, 15}
    OBVIOUS
<1> QED
    BY <1>2, <1>3, <1>4, StagesAre

LEMMA EndsAreRegistries ==
    ASSUME NEW g \in Targets, AllFit(g)
    PROVE  LET r == Recorded(g, "modelRegistry")
               f == Recorded(g, "finalModelRegistry") IN
           r \in Revisions /\ BeginsAt(g, r) /\ f \in Revisions /\ EndsAt(g, f)
<1>1. /\ Fits(g, "modelRegistry", Recorded(g, "modelRegistry"))
      /\ Fits(g, "finalModelRegistry", Recorded(g, "finalModelRegistry"))
    BY StagesAre DEF AllFit
<1> QED
    BY <1>1 DEF Fits, SelfplayFits, LabelsFit, ReplayFits, TrainingFits,
                ExportFits, ResultsFit

\* The registry of a revision is that revision, and a good one.
LEMMA SnapshotIs ==
    ASSUME IInv, NEW r \in Revisions, snapshot[r] # None
    PROVE  /\ snapshot[r] \in RegistryType /\ snapshot[r].revision = r
           /\ IsGood(arenas, snapshot[r])
           /\ Len(snapshot[r].generations) \in 1..MaxGenerations
BY DEF IInv, Typed, SnapshotsAreChained, IsGood, IsNumbered

\* The challenger of an open generation is the registry's.
LEMMA OpenChallenger ==
    ASSUME NEW ar, NEW reg, IsGood(ar, reg), Latest(reg).status = "arena"
    PROVE  Latest(reg).challenger = reg.challenger
<1> DEFINE n == Len(reg.generations)
<1>1. n \in 1..MaxGenerations /\ n > 1
    BY DEF IsGood, IsNumbered
<1>2. GenerationIsValid(ar, reg, n)
    BY <1>1, Constants DEF IsGood, IsValidIn
<1> QED
    BY <1>2, LatestIs DEF GenerationIsValid

LEMMA ChainIsStory ==
    ASSUME IInv, NEW g \in Targets, AllFit(g) PROVE Story(g)
<1> DEFINE r == Recorded(g, "modelRegistry")
           l == Recorded(g, "selfplayPlan")
           a == Recorded(g, "arenaPlan")
           f == Recorded(g, "finalModelRegistry")
           s == arenas[a].revision
<1>1. /\ r \in Revisions /\ BeginsAt(g, r) /\ f \in Revisions /\ EndsAt(g, f)
      /\ l \in Lineages /\ PlanFits(g, l)
      /\ \A i \in 2..11 : Recorded(g, Stages[i]) = l
      /\ a \in Arenas /\ ArenaFits(g, a)
      /\ \A i \in 12..15 : Recorded(g, Stages[i]) = a
    BY LineageIsOne, ArenaIsOne, EndsAreRegistries
<1> HIDE DEF r, l, a, f
<1>2. plans[l] # None /\ plans[l].revision = r
  <2>1. [generation |-> g, revision |-> r] \in PlanType
      BY <1>1 DEF PlanType
  <2>2. plans[l] = [generation |-> g, revision |-> r]
      BY <1>1 DEF PlanFits, r
  <2> QED
      BY <2>1, <2>2, Nothing
<1>3. /\ arenas[a] # None /\ s \in Revisions /\ snapshot[s] # None
      /\ IsDelta(snapshot[r], snapshot[s])
      /\ Latest(snapshot[s]).status = "arena"
      /\ Len(snapshot[s].generations) = g + 1
      /\ Latest(snapshot[s]).manifests = Recorded(g, "selfplayManifest")
      /\ snapshot[s].challenger = Recorded(g, "challengerModel")
    BY <1>1 DEF ArenaFits, IInv, Typed, ArenaType, r
<1>4. /\ Recorded(g, "selfplayManifest") = l
      /\ Recorded(g, "challengerModel") = l
      /\ Recorded(g, "promotionDecision") = a
    BY <1>1, StagesAre
<1>5. snapshot[r] # None /\ snapshot[r].revision = r /\ s = r + 1
    BY <1>1, <1>3, SnapshotIs DEF BeginsAt, IsDelta
<1>6. Latest(snapshot[s]).challenger = l
    BY <1>3, <1>4, SnapshotIs, OpenChallenger
<1>7. /\ snapshot[f] # None /\ IsDelta(snapshot[s], snapshot[f])
      /\ Latest(snapshot[f]).status = "complete"
      /\ Latest(snapshot[f]).arena = a
    BY <1>1, <1>4 DEF EndsAt, a
<1>8. f = s + 1
    BY <1>1, <1>3, <1>7, SnapshotIs DEF IsDelta
<1>9. Len(snapshot[f].generations) = g + 1
    BY <1>3, <1>7 DEF IsDelta, Appends, Finishes
<1>10. s + 1 = r + 2
    BY <1>1, <1>5, Constants
<1> QED
    BY <1>1, <1>2, <1>3, <1>4, <1>5, <1>6, <1>7, <1>8, <1>9, <1>10
       DEF Story, r, l, a, f

LEMMA PipelineMoves ==
    ASSUME IInv, NEW g \in Targets,
           UNCHANGED <<store, lock, op, plans, arenas>>,
           NEW new \in PipeType, pipe' = [pipe EXCEPT ![g] = new],
           new.manifest => new.status = "complete",
           new.status = "complete" => Story(g) /\ new.of = pipe[g].of
    PROVE  IInv'
<1>1. /\ pipe \in [Targets -> PipeType] /\ pipe'[g] = new
      /\ \A h \in Targets : h # g => pipe'[h] = pipe[h]
    BY DEF IInv, Typed
<1>2. Typed'
    BY <1>1 DEF IInv, Typed, store
<1>3. StoreIsSound'
    BY StoreStays DEF IInv, StoreIsSound
<1>4. ASSUME NEW q \in Operators PROVE CommandIsSound(q)'
    BY CommandStays DEF IInv, store
<1>5. ASSUME NEW h \in Targets PROVE PipelineIsSound(h)'
  <2>1. ASSUME Story(h), pipe'[h].of = pipe[h].of PROVE Story(h)'
      BY <2>1 DEF Story, Recorded, Latest, Last, store
  <2> QED
      BY <1>1, <2>1 DEF IInv, PipelineIsSound
<1> QED
    BY <1>2, <1>3, <1>4, <1>5 DEF IInv, StoreIsSound

LEMMA PipelineSteps ==
    ASSUME IInv, NEW g \in Targets, Pipeline(g) PROVE IInv'
<1>1. pipe \in [Targets -> PipeType] /\ pipe[g] \in PipeType
      /\ PipelineIsSound(g)
    BY DEF IInv, Typed
<1>2. CASE Initialize(g)
  <2> DEFINE new == [pipe[g] EXCEPT !.status = "initialized"]
  <2>1. /\ new \in PipeType /\ new.status = "initialized"
        /\ new.manifest = pipe[g].manifest
      BY <1>1 DEF PipeType
  <2>2. pipe[g].status = "absent" /\ pipe' = [pipe EXCEPT ![g] = new]
      BY <1>2 DEF Initialize
  <2> HIDE DEF new
  <2>3. ~new.manifest
      BY <1>1, <2>1, <2>2 DEF PipelineIsSound
  <2> QED
      BY <1>2, <2>1, <2>2, <2>3, PipelineMoves DEF Initialize
<1>3. CASE RecordStage(g)
  <2>1. PICK i \in 1..Len(Stages), x \in Artifacts :
          /\ IsMissing(g, i)
          /\ pipe' = [pipe EXCEPT ![g] = [pipe[g] EXCEPT
                        !.of[Stages[i]] = x, !.status = "running"]]
      BY <1>3 DEF RecordStage
  <2> DEFINE of == [pipe[g].of EXCEPT ![Stages[i]] = x]
             new == [pipe[g] EXCEPT !.of = of, !.status = "running"]
  <2>2. of \in [StageNames -> Artifacts \union {None}]
      BY <1>1 DEF PipeType
  <2> HIDE DEF of
  <2>3. /\ new \in PipeType /\ new.status = "running"
        /\ new.manifest = pipe[g].manifest
      BY <1>1, <2>2 DEF PipeType
  <2>4. pipe' = [pipe EXCEPT ![g] = new]
      BY <2>1 DEF of
  <2> HIDE DEF new
  <2>5. pipe[g].status # "complete"
    <3> SUFFICES ASSUME Story(g) PROVE FALSE
        BY <1>1 DEF PipelineIsSound
    <3>1. \/ i = 1 \/ i = 16 \/ i \in 2..11 \/ i \in 12..15
        BY StagesAre
    <3>2. Recorded(g, Stages[i]) \in Revisions \union Lineages \union Arenas
        BY <3>1, StagesAre DEF Story
    <3> QED
        BY <2>1, <3>2, Constants DEF IsMissing
  <2>6. ~new.manifest
      BY <1>1, <2>3, <2>5 DEF PipelineIsSound
  <2> QED
      BY <1>3, <2>3, <2>4, <2>6, PipelineMoves DEF RecordStage
<1>4. CASE Interrupt(g)
  <2> DEFINE new == [pipe[g] EXCEPT !.status = "interrupted"]
  <2>1. /\ new \in PipeType /\ new.status = "interrupted"
        /\ new.manifest = pipe[g].manifest
      BY <1>1 DEF PipeType
  <2>2. /\ pipe[g].status \in {"initialized", "running"}
        /\ pipe' = [pipe EXCEPT ![g] = new]
      BY <1>4 DEF Interrupt
  <2> HIDE DEF new
  <2>3. ~new.manifest
      BY <1>1, <2>1, <2>2 DEF PipelineIsSound
  <2> QED
      BY <1>4, <2>1, <2>2, <2>3, PipelineMoves DEF Interrupt
<1>5. CASE Complete(g)
  <2> DEFINE new == [pipe[g] EXCEPT !.status = "complete"]
  <2>1. /\ new \in PipeType /\ new.status = "complete" /\ new.of = pipe[g].of
        /\ pipe' = [pipe EXCEPT ![g] = new]
      BY <1>1, <1>5 DEF PipeType, Complete
  <2>2. Story(g)
      BY <1>5, ChainIsStory DEF Complete, AllFit
  <2> HIDE DEF new
  <2> QED
      BY <1>5, <2>1, <2>2, PipelineMoves DEF Complete
<1>6. CASE PublishManifest(g)
  <2> DEFINE new == [pipe[g] EXCEPT !.manifest = TRUE]
  <2>1. /\ new \in PipeType /\ new.status = pipe[g].status
        /\ new.of = pipe[g].of /\ pipe[g].status = "complete"
        /\ pipe' = [pipe EXCEPT ![g] = new]
      BY <1>1, <1>6 DEF PipeType, PublishManifest
  <2>2. Story(g)
      BY <1>1, <2>1 DEF PipelineIsSound
  <2> HIDE DEF new
  <2> QED
      BY <1>6, <2>1, <2>2, PipelineMoves DEF PublishManifest
<1> QED
    BY <1>2, <1>3, <1>4, <1>5, <1>6 DEF Pipeline
-----------------------------------------------------------------------------
(* The theorems                                                            *)

LEMMA StepHolds == IInv /\ [Next]_vars => IInv'
<1> SUFFICES ASSUME IInv, [Next]_vars PROVE IInv'
    OBVIOUS
<1>1. ASSUME NEW p \in Operators, Session(p) PROVE IInv'
    BY <1>1, ApplyStep, RetireStep, CommandSteps, PublishStep,
       WriteJournalStep DEF Session
<1>2. ASSUME NEW p \in Operators, Command(p) PROVE IInv'
    BY <1>2, CommandSteps, InitRegistryStep, RegisterStep, PromotionStep
       DEF Command
<1>3. ASSUME NEW p \in Operators, Crash(p) PROVE IInv'
    BY <1>3, CommandSteps
<1>4. CASE UNCHANGED vars
  <2>1. Typed'
      BY <1>4 DEF IInv, Typed, vars, store
  <2>2. StoreIsSound'
      BY <1>4, StoreStays DEF IInv, StoreIsSound, vars
  <2>3. ASSUME NEW q \in Operators PROVE CommandIsSound(q)'
      BY <1>4, CommandStays DEF IInv, vars, store
  <2>4. \A g \in Targets : PipelineIsSound(g)'
      BY <1>4, PipelineStays DEF IInv, vars, store
  <2> QED
      BY <2>1, <2>2, <2>3, <2>4 DEF IInv, StoreIsSound
<1> QED
    BY <1>1, <1>2, <1>3, <1>4, PlanStep, ArenaStep, PipelineSteps DEF Next

\* Whatever the operators, the lineages and the arenas, and wherever a command
\* is killed, the registry's snapshots are a chain of good registries, the
\* registry is the last of them or the last but one, what a command is about
\* to publish follows it, and what a complete pipeline has recorded is one
\* story that the snapshots tell (ModelRegistryStore, GenerationPipeline).
THEOREM InvariantHolds == Spec => []IInv
<1>1. Init => IInv
    BY InitHolds
<1>2. IInv /\ [Next]_vars => IInv'
    BY StepHolds
<1> QED
    BY <1>1, <1>2, PTL DEF Spec

LEMMA TypesFollow == IInv => TypeOK
<1> SUFFICES ASSUME IInv PROVE TypeOK
    OBVIOUS
<1>1. Typed
    BY DEF IInv
<1>2. \A p \in Operators :
        op[p].base \in RegistryType /\ op[p].candidate \in RegistryType
    BY <1>1, OpFacts
<1>3. ASSUME NEW g \in Targets, NEW i \in 1..Len(Stages)
      PROVE  IsMissing(g, i) \/ Recorded(g, Stages[i]) \in Artifacts
  <2>1. pipe[g] \in PipeType /\ Stages[i] \in StageNames
      BY <1>1 DEF Typed, StageNames
  <2> QED
      BY <2>1 DEF PipeType, IsMissing, Recorded
<1> QED
    BY <1>1, <1>2, <1>3 DEF Typed, TypeOK

\* A registry that is there is a good one, and the snapshot of its revision.
LEMMA RegistryIsGood ==
    ASSUME IInv, registry.revision # 0
    PROVE  /\ registry.revision \in Revisions /\ IsGood(arenas, registry)
           /\ registry = snapshot[registry.revision]
           /\ snapshot[registry.revision] # None
BY Constants DEF IInv, SnapshotsAreChained

\* The champion that follows a generation of a good registry.
LEMMA OutcomeIsEarned ==
    ASSUME IInv, NEW reg, IsGood(arenas, reg),
           NEW i \in 1..Len(reg.generations),
           OutcomeIn(arenas, reg.generations[i]) # reg.generations[i].champion
    PROVE  LET gen == reg.generations[i] IN
           /\ OutcomeIn(arenas, gen) = gen.challenger /\ gen.arena # None
           /\ arenas[gen.arena].win
           /\ arenas[gen.arena].champion = gen.champion
           /\ arenas[gen.arena].challenger = gen.challenger
<1> DEFINE gen == reg.generations[i]
<1>1. /\ gen.status = "complete" /\ gen.arena # None
      /\ arenas[gen.arena].promotes /\ OutcomeIn(arenas, gen) = gen.challenger
    BY DEF OutcomeIn
<1>2. reg \in RegistryType /\ gen \in GenerationType /\ gen.arena \in Arenas
    BY <1>1, RegistryFacts, GenerationFacts DEF IsGood
<1>3. i # 1
    BY <1>1 DEF IsGood, IsRooted
<1>4. Len(reg.generations) \in Nat /\ i \in 2..Len(reg.generations)
    BY <1>2, <1>3, RegistryFacts
<1>5. EvidenceIn(arenas, gen, i)
    BY <1>1, <1>4 DEF IsGood, IsValidIn, GenerationIsValid
<1>6. arenas[gen.arena].win
    BY <1>1, <1>2, <1>5 DEF IInv, ArenasAreFair, EvidenceIn
<1> QED
    BY <1>1, <1>5, <1>6 DEF EvidenceIn

LEMMA ChampionsAreEarned == IInv => ChampionIsEarned
<1> SUFFICES ASSUME IInv, registry.revision # 0,
                    NEW i \in 1..Len(registry.generations)
             PROVE  LET gen == registry.generations[i]
                        reigns == IF i = Len(registry.generations)
                                  THEN registry.champion
                                  ELSE registry.generations[i + 1].champion IN
                    reigns # gen.champion =>
                      /\ reigns = gen.challenger /\ gen.arena # None
                      /\ arenas[gen.arena].win
                      /\ arenas[gen.arena].champion = gen.champion
                      /\ arenas[gen.arena].challenger = gen.challenger
    BY DEF ChampionIsEarned
<1> DEFINE n == Len(registry.generations)
           gen == registry.generations[i]
           reigns == IF i = n THEN registry.champion
                     ELSE registry.generations[i + 1].champion
<1>1. IsGood(arenas, registry)
    BY RegistryIsGood
<1>2. n \in Nat
    BY <1>1, RegistryFacts DEF IsGood
<1>3. reigns = OutcomeIn(arenas, gen)
  <2>1. CASE i = n
      BY <1>1, <2>1, LatestIs DEF IsGood, IsValidIn
  <2>2. CASE i # n
    <3>1. i + 1 \in 2..n /\ (i + 1) - 1 = i
        BY <1>2, <2>2
    <3>2. GenerationIsValid(arenas, registry, i + 1)
        BY <1>1, <3>1 DEF IsGood, IsValidIn
    <3> QED
        BY <2>2, <3>1, <3>2 DEF GenerationIsValid
  <2> QED
      BY <2>1, <2>2
<1> QED
    BY <1>1, <1>3, OutcomeIsEarned

LEMMA JournalsAreRecoverable == IInv => JournalIsRecoverable
BY DEF IInv, JournalFollows, JournalIsRecoverable, CommandIsSound, Succeeds,
       Inside

\* A registry that comes later holds the generation as the snapshot has it.
LEMMA ManifestsAgree == IInv => ManifestAgrees
<1> SUFFICES ASSUME IInv, NEW g \in Targets, pipe[g].manifest
             PROVE  LET r == Recorded(g, "modelRegistry")
                        gen == registry.generations[g + 1] IN
                    /\ arenas[Recorded(g, "arenaPlan")].revision = r + 1
                    /\ Recorded(g, "finalModelRegistry") = r + 2
                    /\ registry.revision >= r + 1
                    /\ plans[Recorded(g, "selfplayPlan")].revision = r
                    /\ \A i \in 2..11 : Recorded(g, Stages[i]) = gen.challenger
                    /\ gen.manifests = gen.challenger
                    /\ registry.revision >= r + 2 =>
                          /\ gen.status = "complete"
                          /\ \A i \in 12..15 :
                               Recorded(g, Stages[i]) = gen.arena
    BY DEF ManifestAgrees
<1> DEFINE r == Recorded(g, "modelRegistry")
           l == Recorded(g, "selfplayPlan")
           a == Recorded(g, "arenaPlan")
           n == registry.revision
           gen == registry.generations[g + 1]
           open == snapshot[r + 1].generations[g + 1]
           done == snapshot[r + 2].generations[g + 1]
<1>1. Story(g)
    BY DEF IInv, PipelineIsSound
<1>2. /\ r \in Revisions /\ r + 1 \in Revisions /\ r + 2 \in Revisions
      /\ snapshot[r + 1] # None /\ snapshot[r + 2] # None
      /\ Len(snapshot[r + 1].generations) = g + 1
      /\ Len(snapshot[r + 2].generations) = g + 1
      /\ open.challenger = l /\ open.manifests = l
      /\ done.status = "complete" /\ done.arena = a
    BY <1>1, LatestIs DEF Story
<1>3. n >= r + 1 /\ n # 0 /\ n \in Nat
  <2>1. r + 2 <= n + 1 /\ n \in Revisions \union {0}
      BY <1>2 DEF IInv, SnapshotsAreChained
  <2> QED
      BY <1>2, <2>1, Constants
<1>4. n \in Revisions /\ registry = snapshot[n] /\ snapshot[n] # None
    BY <1>3, RegistryIsGood
<1> HIDE DEF r, n
<1>5. g + 1 \in 1..(g + 1)
    BY Constants
<1>6. gen.challenger = l /\ gen.manifests = l
  <2>1. Extends(snapshot[r + 1], registry)
      BY <1>2, <1>3, <1>4 DEF IInv, SnapshotsExtend
  <2> QED
      BY <1>2, <1>5, <2>1 DEF Extends
<1>7. n >= r + 2 => gen = done
  <2>1. n >= r + 2 => Extends(snapshot[r + 2], registry)
      BY <1>2, <1>4, Constants DEF IInv, SnapshotsExtend
  <2> QED
      BY <1>2, <1>5, <2>1 DEF Extends
<1> QED
    BY <1>1, <1>2, <1>3, <1>6, <1>7 DEF Story, r, n

\* The registry moves to the snapshot of the next revision.
RegistryMoves ==
    /\ registry' # registry =>
         /\ registry'.revision = registry.revision + 1
         /\ snapshot[registry'.revision] = registry' /\ IsValid(registry')
    /\ SnapshotsStay
LEMMA RevisionsStep == IInv /\ [Next]_vars => RegistryMoves
<1> SUFFICES ASSUME IInv, [Next]_vars PROVE RegistryMoves
    OBVIOUS
<1>1. CASE UNCHANGED <<registry, snapshot>>
    BY <1>1 DEF RegistryMoves, SnapshotsStay
<1>2. ASSUME NEW p \in Operators, ApplyJournal(p) PROVE RegistryMoves
  <2>1. /\ journal # None /\ registry.revision = journal.expected
        /\ UNCHANGED snapshot
        /\ registry' = registry \/ registry' = journal.candidate
      BY <1>2 DEF ApplyJournal
  <2> DEFINE e == journal.expected
             c == journal.candidate
  <2>2. e + 1 \in Revisions /\ snapshot[e + 1] = c /\ c \in RegistryType
      BY <2>1 DEF IInv, JournalFollows, Typed, JournalType
  <2>3. c # None /\ c.revision = e + 1 /\ IsGood(arenas, c)
      BY <2>2, Nothing DEF IInv, SnapshotsAreChained
  <2>4. IsValid(c)
      BY <2>3, ValidIs DEF IsGood
  <2>5. UNCHANGED arenas
      BY <1>2 DEF ApplyJournal
  <2>6. registry' = c => IsValid(registry')
      BY <2>4
  <2> QED
      BY <2>1, <2>2, <2>3, <2>6 DEF RegistryMoves, SnapshotsStay
<1>3. ASSUME NEW p \in Operators, PublishSnapshot(p) PROVE RegistryMoves
  <2> DEFINE c == op[p].candidate
  <2>1. UNCHANGED registry
      BY <1>3 DEF PublishSnapshot
  <2>2. \/ UNCHANGED snapshot
        \/ /\ snapshot[c.revision] \in {None, c}
           /\ snapshot' = [snapshot EXCEPT ![c.revision] = c]
      BY <1>3 DEF PublishSnapshot
  <2>3. snapshot \in [Revisions -> RegistryType \union {None}]
      BY DEF IInv, Typed
  <2> HIDE DEF c
  <2>4. SnapshotsStay
      BY <2>2, <2>3 DEF SnapshotsStay
  <2> QED
      BY <2>1, <2>4 DEF RegistryMoves
<1>4. ASSUME NEW p \in Operators, Session(p) PROVE RegistryMoves
    BY <1>1, <1>2, <1>3, <1>4
       DEF Session, RetireJournal, Load, CheckRevision, WriteJournal,
           EndUpdate, store
<1>5. ASSUME NEW p \in Operators, Command(p) PROVE RegistryMoves
    BY <1>1, <1>5
       DEF Command, OpenToLoad, OpenToWrite, InitRegistry, GiveUp,
           RegisterChallenger, RecordPromotion, Computes, store
<1>6. ASSUME NEW p \in Operators, Crash(p) PROVE RegistryMoves
    BY <1>1, <1>6 DEF Crash, store
<1>7. ASSUME NEW g \in Targets, Pipeline(g) PROVE RegistryMoves
    BY <1>1, <1>7
       DEF Pipeline, Initialize, RecordStage, Interrupt, Complete,
           PublishManifest, store
<1>8. ASSUME NEW l \in Lineages, NEW g \in Targets, PlanSelfplay(l, g)
      PROVE  RegistryMoves
    BY <1>1, <1>8 DEF PlanSelfplay, store
<1>9. ASSUME NEW a \in Arenas, PlayArena(a) PROVE RegistryMoves
    BY <1>1, <1>9 DEF PlayArena, store
<1>10. CASE UNCHANGED vars
    BY <1>1, <1>10 DEF vars, store
<1> QED
    BY <1>4, <1>5, <1>6, <1>7, <1>8, <1>9, <1>10 DEF Next

\* The registry, its journal and its snapshots, and the manifests of the
\* pipelines tell one story: a champion was always earned, a transaction can
\* always be completed, a manifest agrees with the registry for good, and no
\* step takes a revision back (selfplay/registry.py, arena.py, pipeline.py).
THEOREM Registry == Spec => RegistryIsSound
<1>1. IInv => TypeOK /\ ChampionIsEarned /\ JournalIsRecoverable
              /\ ManifestAgrees
    BY TypesFollow, ChampionsAreEarned, JournalsAreRecoverable, ManifestsAgree
<1>2. IInv /\ [Next]_vars =>
        [/\ registry' # registry =>
              /\ registry'.revision = registry.revision + 1
              /\ snapshot[registry'.revision] = registry'
              /\ IsValid(registry')
         /\ \A r \in Revisions :
              snapshot[r] # None => snapshot'[r] = snapshot[r]]_vars
    BY RevisionsStep DEF RegistryMoves, SnapshotsStay
<1> QED
    BY <1>1, <1>2, InvariantHolds, PTL
       DEF Spec, RegistryIsSound, RevisionsAreFinal

-----------------------------------------------------------------------------
(* The output directory of a training                                      *)
(*                                                                         *)
(* The argument is about the journal, which tells by itself what it was    *)
(* written from: the files and the record before the epoch were one        *)
(* history, and its checkpoint adds one row to it (JournalIsTrue).  Every  *)
(* file is then what the journal found or what it leaves.  What a process  *)
(* relies on at each place is what it has read since it opened the         *)
(* directory, which it holds alone (TrainingKnows).                        *)

Histories == {l \in Seq(Losses) : Len(l) <= Epochs}
Checkpoints == [kind : {"checkpoint"}, setup : Setups, losses : Histories]
Executions == [from : Nat, to : Nat]
OutputTypes == [best : Checkpoints \union {NotThere}, last : Checkpoints \union {NotThere},
                log : Seq(Losses)]
Experiments == [kind : {"experiment"}, completed : Nat, artifacts : OutputTypes,
                executions : Seq(Executions)]
Journals ==
    [kind : {"journal"}, status : {"prepared", "published"}, checkpoint : Checkpoints,
     publishBest : BOOLEAN, bestBefore : Checkpoints \union {NotThere},
     lastBefore : Checkpoints \union {NotThere}, logBefore : Seq(Losses),
     experimentBefore : Experiments \union {NotThere},
     experimentAfter : Experiments \union {NotThere}]
RecoveryPlaces == {"recover best", "recover last", "recover log", "publish"}
TrainingPlaces ==
    RecoveryPlaces \union {"opened", "refused", "ready", "epochs", "close", "closed", "save",
        "journal", "recover experiment", "experiment", "finish", "finished", "returned"}
Trainings ==
    [pc : TrainingPlaces, then : {"opened", "epochs", "close"}, setup : Setups,
     resume : BOOLEAN, stop : 1..Epochs, losses : Histories, start : Nat,
     prior : Seq(Executions), recovered : BOOLEAN, closed : Journals \union {NotThere}]
TrainingTypes ==
    /\ generations \in [1..Epochs -> Checkpoints \union {NotThere}]
    /\ last \in Checkpoints \union {NotThere} /\ best \in Checkpoints \union {NotThere}
    /\ log \in Seq(Losses) /\ partial \in BOOLEAN
    /\ epochJournal \in Journals \union {NotThere}
    /\ experiment \in Experiments \union {NotThere}
    /\ training \in Trainings \union {NoTraining}

\* What a journal was written from, whatever became of the files since.
JournalIsTrue(j) ==
    /\ TellOneHistory(j.bestBefore, j.lastBefore, j.logBefore, j.experimentBefore)
    /\ j.checkpoint.losses = LogAfter(j)
    /\ j.lastBefore # NotThere => j.checkpoint.setup = j.lastBefore.setup
    /\ j.publishBest <=> Improves(j.checkpoint.losses)
    /\ j.experimentAfter # NotThere =>
         /\ j.status = "published"
         /\ j.experimentBefore # NotThere =>
              IsStartOf(j.experimentBefore.executions, j.experimentAfter.executions)
\* A generation beside the one the journal names.
Beside(kept, j, e) ==
    \/ kept[e] = NotThere
    \/ /\ e <= Len(j.logBefore)
       /\ kept[e] = Checkpoint(j.checkpoint.setup, SubSeq(j.logBefore, 1, e))
JournalHolds ==
    epochJournal # NotThere =>
        /\ JournalIsTrue(epochJournal)
        /\ epochJournal.status = "published" => log = LogAfter(epochJournal)
        /\ epochJournal.experimentAfter = NotThere => experiment = epochJournal.experimentBefore
        /\ \A e \in 1..Epochs : e # Epoch(epochJournal.checkpoint) => Beside(generations, epochJournal, e)

\* What a training relies on at each place.
IsPrior == experiment # NotThere => experiment.executions = training.prior
KeepsSetup == last # NotThere => last.setup = training.setup
IsOneMore(losses, rows) == \E l \in Losses : losses = Append(rows, l)
AsPublished ==
    epochJournal # NotThere =>
        epochJournal.status = "published" /\ epochJournal.experimentAfter = NotThere
KnowsAlone ==
    training.pc \in {"save", "journal", "closed"} =>
        /\ epochJournal = NotThere /\ IsPrior /\ KeepsSetup
        /\ IsOneMore(training.losses, log)
KnowsClosed ==
    training.pc \in {"closed", "finished"} =>
        /\ epochJournal = NotThere
        /\ training.closed # NotThere /\ last = training.closed.checkpoint
KnowsEpochs ==
    training.pc \in {"ready", "epochs"} =>
        AsPublished /\ IsPrior /\ KeepsSetup /\ training.losses = log
KnowsRecovery ==
    training.pc \in RecoveryPlaces \union {"close"} =>
        /\ epochJournal # NotThere
        /\ training.then = "opened" => training.losses = <<>>
        /\ training.then # "opened" =>
             /\ IsPrior /\ epochJournal.experimentAfter = NotThere
             /\ training.setup = epochJournal.checkpoint.setup
        /\ training.then = "epochs" => training.losses = epochJournal.checkpoint.losses
        /\ training.then = "close" =>
             /\ epochJournal.status = "published"
             /\ IsOneMore(training.losses, epochJournal.checkpoint.losses)
KnowsProgress ==
    /\ training.pc \in {"recover last", "recover log", "publish"} => best = BestAfter(epochJournal)
    /\ training.pc \in {"recover log", "publish"} => last = epochJournal.checkpoint
    /\ training.pc = "publish" => log = LogAfter(epochJournal)
TrainingKnows ==
    training # NoTraining =>
        /\ training.pc = "opened" => AsPublished /\ training.losses = <<>>
        /\ KnowsAlone /\ KnowsClosed /\ KnowsEpochs /\ KnowsRecovery /\ KnowsProgress
        /\ training.pc = "journal" => generations[Len(training.losses)] = Trained
        /\ training.pc = "close" => training.then = "close"
        /\ training.pc \in {"experiment", "finish", "recover experiment"} =>
             epochJournal # NotThere /\ epochJournal.experimentAfter # NotThere
        /\ training.pc = "finish" => experiment = epochJournal.experimentAfter
TrainingInvariant ==
    TrainingTypes /\ JournalHolds /\ FilesAgree /\ EpochIsRecoverable /\ TrainingKnows

-----------------------------------------------------------------------------
LEMMA NothingIsNoFile ==
  /\ NotThere \notin Checkpoints /\ NotThere \notin Experiments
  /\ NotThere \notin Journals /\ NoTraining \notin Trainings
<1>1. NotThere \notin Checkpoints BY DEF NotThere, Checkpoints
<1>2. NotThere \notin Experiments BY DEF NotThere, Experiments
<1>3. NotThere \notin Journals BY DEF NotThere, Journals
<1>4. NoTraining \notin Trainings BY DEF NoTraining, Trainings, TrainingPlaces, RecoveryPlaces
<1> QED BY <1>1, <1>2, <1>3, <1>4

LEMMA StartOfAppend ==
  ASSUME NEW S, NEW s \in Seq(S), NEW x \in S
  PROVE  IsStartOf(s, s) /\ IsStartOf(s, Append(s, x))
BY DEF IsStartOf

\* One row more: the first of the lowest losses is the new one, if it improves
\* on all of them, and the earlier one otherwise.
LEMMA LowestOfAppended ==
  ASSUME NEW rows \in Seq(Losses), NEW x \in Losses, Losses \subseteq Nat
  PROVE  /\ Improves(Append(rows, x)) => IsFirstLowest(Len(rows) + 1, Append(rows, x))
         /\ ~Improves(Append(rows, x)) => rows # <<>>
         /\ \A n \in DOMAIN rows :
              IsFirstLowest(n, rows) /\ ~Improves(Append(rows, x)) =>
                 IsFirstLowest(n, Append(rows, x))
<1> DEFINE more == Append(rows, x)
<1>1. /\ more \in Seq(Losses) /\ Len(more) = Len(rows) + 1 /\ more[Len(rows) + 1] = x
      /\ \A i \in 1..Len(rows) : more[i] = rows[i]
      /\ DOMAIN more = 1..Len(rows) + 1 /\ DOMAIN rows = 1..Len(rows) /\ Len(rows) \in Nat
  OBVIOUS
<1>2. \A i \in 1..Len(rows) : rows[i] \in Nat BY ElementOfSeq
<1>3. x \in Nat OBVIOUS
<1> HIDE DEF more
<1>4. Improves(more) <=> \A i \in 1..Len(rows) : x < rows[i]
  BY <1>1, <1>2, <1>3 DEF Improves
<1>5. Improves(more) => IsFirstLowest(Len(rows) + 1, more)
  BY <1>1, <1>2, <1>3, <1>4 DEF IsFirstLowest
<1>6. ~Improves(more) => rows # <<>> BY <1>1, <1>4
<1>7. ASSUME NEW n \in DOMAIN rows, IsFirstLowest(n, rows), ~Improves(more)
      PROVE  IsFirstLowest(n, more)
  <2>1. PICK i \in 1..Len(rows) : rows[i] <= x BY <1>2, <1>3, <1>4, <1>7
  <2>2. rows[n] <= rows[i] BY <1>1, <1>7 DEF IsFirstLowest
  <2>3. rows[n] <= x BY <2>1, <2>2, <1>1, <1>2, <1>3
  <2>4. n \in DOMAIN more /\ more[n] = rows[n] BY <1>1
  <2>5. \A k \in DOMAIN more : more[n] <= more[k]
    BY <1>1, <1>2, <1>7, <2>3, <2>4 DEF IsFirstLowest
  <2>6. \A k \in 1..n-1 : more[n] < more[k]
    BY <1>1, <1>2, <1>7, <2>4 DEF IsFirstLowest
  <2> QED BY <2>4, <2>5, <2>6 DEF IsFirstLowest
<1> QED BY <1>5, <1>6, <1>7 DEF more

LEMMA StartOfRows ==
  ASSUME NEW rows \in Seq(Losses), NEW x \in Losses, NEW n \in 0..Len(rows)
  PROVE  /\ SubSeq(Append(rows, x), 1, n) = SubSeq(rows, 1, n)
         /\ SubSeq(Append(rows, x), 1, Len(rows) + 1) = Append(rows, x)
BY SubSeqFull

\* What a journal leaves is again one history.
LEMMA JournalTells ==
  ASSUME NEW j \in Journals, JournalIsTrue(j)
  PROVE  /\ TellOneHistory(BestAfter(j), j.checkpoint, LogAfter(j), j.experimentBefore)
         /\ \E x \in Losses : LogAfter(j) = Append(j.logBefore, x)
         /\ LogAfter(j) \in Seq(Losses) /\ Epoch(j.checkpoint) \in 1..Epochs
         /\ Len(LogAfter(j)) = Len(j.logBefore) + 1 /\ Epoch(j.checkpoint) = Len(LogAfter(j))
         /\ LogAfter(j) # j.logBefore /\ LogAfter(j) # <<>>
         /\ j.checkpoint = Checkpoint(j.checkpoint.setup, LogAfter(j))
         /\ BestAfter(j) \in Checkpoints
         /\ j.lastBefore # NotThere =>
              /\ j.lastBefore.setup = j.checkpoint.setup
              /\ j.lastBefore.losses = j.logBefore
         /\ j.lastBefore = NotThere => j.logBefore = <<>>
<1> DEFINE rows == j.logBefore
           losses == j.checkpoint.losses
           x == losses[Len(losses)]
<1>1. /\ rows \in Seq(Losses) /\ losses \in Seq(Losses) /\ Len(losses) <= Epochs
      /\ j.checkpoint = Checkpoint(j.checkpoint.setup, losses)
      /\ j.checkpoint \in Checkpoints
      /\ j.lastBefore \in Checkpoints \union {NotThere}
      /\ j.bestBefore \in Checkpoints \union {NotThere}
      /\ j.experimentBefore \in Experiments \union {NotThere}
  BY DEF Journals, Checkpoints, Histories, Checkpoint
<1>2. losses = Append(rows, x) BY DEF JournalIsTrue, LogAfter, Epoch
<1> HIDE DEF x
<1>3. Len(losses) = Len(rows) + 1 /\ losses # rows /\ losses # <<>> /\ losses[Len(rows) + 1] = x
  <2>1. Len(Append(rows, x)) = Len(rows) + 1 /\ Len(rows) \in Nat BY <1>1
  <2>2. Append(rows, x)[Len(rows) + 1] = x BY <1>1
  <2> QED BY <2>1, <2>2, <1>2, <1>1, SMTT(30)
<1>4. x \in Losses BY <1>1, <1>3, ElementOfSeq
<1>5. j.lastBefore # NotThere =>
        /\ j.lastBefore.setup = j.checkpoint.setup
        /\ j.lastBefore.losses = rows
  BY <1>1 DEF JournalIsTrue, TellOneHistory, Checkpoint
<1>6. j.lastBefore = NotThere => rows = <<>>
  BY NothingIsNoFile, <1>1 DEF JournalIsTrue, TellOneHistory, Checkpoint, NotThere
<1>7. LogAfter(j) = losses BY DEF JournalIsTrue
<1>8. \E n \in DOMAIN losses :
        IsFirstLowest(n, losses)
        /\ BestAfter(j) = Checkpoint(j.checkpoint.setup, SubSeq(losses, 1, n))
  <2>1. CASE j.publishBest
    <3>1. Len(rows) + 1 \in DOMAIN losses BY <1>1, <1>3
    <3>2. IsFirstLowest(Len(rows) + 1, losses)
      BY <2>1, <1>1, <1>2, <1>4, LowestOfAppended, TrainingAssumption DEF JournalIsTrue
    <3>3. SubSeq(losses, 1, Len(rows) + 1) = losses BY <1>1, <1>2, <1>4, StartOfRows
    <3>4. BestAfter(j) = j.checkpoint BY <2>1 DEF BestAfter
    <3> QED BY <3>1, <3>2, <3>3, <3>4, <1>1
  <2>2. CASE ~j.publishBest
    <3>1. ~Improves(losses) BY <2>2 DEF JournalIsTrue
    <3>2. rows # <<>> BY <3>1, <1>1, <1>2, <1>4, LowestOfAppended, TrainingAssumption
    <3>3. j.lastBefore # NotThere
      BY <3>2, <1>1, NothingIsNoFile DEF JournalIsTrue, TellOneHistory, Checkpoint, NotThere
    <3>4. PICK n \in DOMAIN rows :
            IsFirstLowest(n, rows)
            /\ j.bestBefore = Checkpoint(j.lastBefore.setup, SubSeq(rows, 1, n))
      BY <3>2 DEF JournalIsTrue, TellOneHistory
    <3>5. IsFirstLowest(n, losses)
      BY <3>1, <3>4, <1>1, <1>2, <1>4, LowestOfAppended, TrainingAssumption
    <3>6. SubSeq(losses, 1, n) = SubSeq(rows, 1, n) BY <1>1, <1>2, <1>4, StartOfRows
    <3>7. n \in DOMAIN losses BY <3>5 DEF IsFirstLowest
    <3>8. BestAfter(j) = j.bestBefore BY <2>2 DEF BestAfter
    <3> QED BY <3>3, <3>4, <3>5, <3>6, <3>7, <3>8, <1>5
  <2> QED BY <2>1, <2>2
<1>9. BestAfter(j) \in Checkpoints
  <2>1. PICK n \in DOMAIN losses :
          BestAfter(j) = Checkpoint(j.checkpoint.setup, SubSeq(losses, 1, n)) BY <1>8
  <2>2. BestAfter(j) # NotThere BY <2>1 DEF Checkpoint, NotThere
  <2> QED BY <2>2, <1>1 DEF BestAfter
<1>10. j.experimentBefore # NotThere => j.experimentBefore.completed < Len(losses)
  <2>1. SUFFICES ASSUME j.experimentBefore # NotThere
                 PROVE  j.experimentBefore.completed < Len(losses)
    OBVIOUS
  <2>2. j.experimentBefore.completed <= Len(rows) BY <2>1 DEF JournalIsTrue, TellOneHistory
  <2>3. j.experimentBefore.completed \in Nat BY <2>1, <1>1 DEF Experiments
  <2> QED BY <2>2, <2>3, <1>1, <1>3
<1>11. TellOneHistory(BestAfter(j), j.checkpoint, losses, j.experimentBefore)
  <2>1. j.experimentBefore # NotThere =>
          /\ j.experimentBefore.completed <= Len(losses)
          /\ j.experimentBefore.completed # Len(losses)
    <3>1. SUFFICES ASSUME j.experimentBefore # NotThere
                   PROVE  /\ j.experimentBefore.completed <= Len(losses)
                          /\ j.experimentBefore.completed # Len(losses)
      OBVIOUS
    <3>2. j.experimentBefore.completed \in Nat BY <3>1, <1>1 DEF Experiments
    <3> QED BY <3>1, <3>2, <1>1, <1>10
  <2> QED BY <2>1, <1>8, <1>1, <1>3 DEF TellOneHistory
<1>12. Epoch(j.checkpoint) \in 1..Epochs
  BY <1>1, <1>3, TrainingAssumption DEF Epoch
<1> QED BY <1>1, <1>2, <1>3, <1>4, <1>5, <1>6, <1>7, <1>9, <1>11, <1>12 DEF Epoch

-----------------------------------------------------------------------------
(* The types                                                               *)

LEMMA HoldsDirectory ==
  ASSUME TrainingTypes, training.pc \in TrainingPlaces
  PROVE  training \in Trainings /\ training # NoTraining
<1>1. NoTraining.pc \notin TrainingPlaces BY DEF NoTraining, TrainingPlaces, RecoveryPlaces
<1>2. training # NoTraining BY <1>1
<1> QED BY <1>2 DEF TrainingTypes

LEMMA TrainingGoesOn ==
  ASSUME training \in Trainings, NEW pc \in TrainingPlaces, TrainingGoes(pc)
  PROVE  training' \in Trainings
BY DEF TrainingGoes, Trainings

\* A step of the training itself keeps the types of the files.
LEMMA TypesOfPlace ==
  ASSUME TrainingTypes, UNCHANGED directory,
         training' \in Trainings \union {NoTraining}
  PROVE  TrainingTypes'
BY DEF TrainingTypes, directory

LEMMA OutputsTyped ==
  ASSUME TrainingTypes, training \in Trainings
  PROVE  /\ Outputs \in OutputTypes
         /\ Trained \in Checkpoints
         /\ PriorExecutions \in Seq(Executions)
         /\ ExperimentRecord \in Experiments
<1>1. Outputs \in OutputTypes BY DEF TrainingTypes, Outputs, OutputTypes
<1>2. Trained \in Checkpoints BY DEF Trained, Checkpoint, Checkpoints, Trainings
<1>3. PriorExecutions \in Seq(Executions)
  BY DEF PriorExecutions, TrainingTypes, Experiments
<1>4. ThisExecution \in Executions BY DEF ThisExecution, Executions, Trainings
<1>5. training.prior \in Seq(Executions) /\ training.stop \in Nat BY DEF Trainings
<1>6. Append(training.prior, ThisExecution) \in Seq(Executions) BY <1>4, <1>5
<1>7. ExperimentRecord \in Experiments
  BY <1>1, <1>5, <1>6 DEF ExperimentRecord, Experiments
<1> QED BY <1>1, <1>2, <1>3, <1>7

LEMMA TypesAtStart ==
  ASSUME TrainingInit PROVE TrainingTypes
BY EmptySeq DEF TrainingInit, TrainingTypes

LEMMA TypesKept ==
  ASSUME TrainingInvariant, [TrainingNext]_trainingVars
  PROVE  TrainingTypes'
<1>0. TrainingTypes BY DEF TrainingInvariant
<1> USE <1>0, HoldsDirectory, OutputsTyped, TypesOfPlace
<1>a. RecoveryPlaces \union {"ready", "epochs", "refused", "journal", "finish"}
        \subseteq TrainingPlaces
  BY DEF TrainingPlaces
<1>1. ASSUME NEW s \in Setups, NEW r \in BOOLEAN, NEW e \in 1..Epochs, StartTraining(s, r, e)
      PROVE  TrainingTypes'
  <2>1. <<>> \in Histories /\ <<>> \in Seq(Executions)
    BY TrainingAssumption DEF Histories
  <2>2. training' \in Trainings
    BY <1>1, <2>1 DEF StartTraining, Trainings, TrainingPlaces, RecoveryPlaces
  <2> QED BY <1>1, <2>2 DEF StartTraining
<1>2. ASSUME EndTraining PROVE TrainingTypes' BY <1>2 DEF EndTraining
<1>3. CASE StartsAnew
  <2>1. training \in Trainings BY <1>3 DEF StartsAnew, TrainingAt, TrainingPlaces
  <2>2. training' \in Trainings
    BY <1>3, <2>1 DEF StartsAnew, TrainingGoes, Trainings, TrainingPlaces
  <2> QED BY <1>3, <2>2 DEF StartsAnew
<1>4. CASE Resumes
  <2>1. training \in Trainings BY <1>4 DEF Resumes, TrainingAt, TrainingPlaces
  <2>2. last \in Checkpoints BY <1>4 DEF Resumes, IsOurs, Loads, TrainingTypes
  <2>3. last.losses \in Histories /\ Epoch(last) \in Nat
    BY <2>2 DEF Checkpoints, Epoch, Histories
  <2>4. training' \in Trainings
    BY <1>4, <2>1, <2>3 DEF Resumes, Trainings, TrainingPlaces
  <2> QED BY <1>4, <2>4 DEF Resumes
<1>5. CASE Refuse
  <2>1. training \in Trainings BY <1>5 DEF Refuse, TrainingAt, TrainingPlaces
  <2>2. training' \in Trainings
    BY <1>5, <2>1 DEF Refuse, TrainingGoes, Trainings, TrainingPlaces
  <2> QED BY <1>5, <2>2 DEF Refuse
<1>6. CASE BeginEpochs
  <2>1. training \in Trainings BY <1>6 DEF BeginEpochs, TrainingAt, TrainingPlaces
  <2>2. training' \in Trainings \union {NoTraining}
    BY <1>6, <2>1, <1>a, TrainingGoesOn DEF BeginEpochs
  <2> QED BY <1>6, <2>2 DEF BeginEpochs
<1>7. ASSUME NEW l \in Losses, Train(l) PROVE TrainingTypes'
  <2>1. training \in Trainings BY <1>7 DEF Train, TrainingAt, TrainingPlaces
  <2>2. Append(training.losses, l) \in Histories
    BY <1>7, <2>1, TrainingAssumption DEF Train, Trainings, Histories
  <2>3. training' \in Trainings
    BY <1>7, <2>1, <2>2 DEF Train, Trainings, TrainingPlaces, RecoveryPlaces
  <2> QED BY <1>7, <2>3 DEF Train
<1>8. CASE ClosePrior
  <2>1. training \in Trainings BY <1>8 DEF ClosePrior, TrainingAt, TrainingPlaces
  <2>2. epochJournal \in Journals \union {NotThere} BY DEF TrainingTypes
  <2>3. training' \in Trainings
    BY <1>8, <2>1, <2>2 DEF ClosePrior, Trainings, TrainingPlaces
  <2> QED BY <1>8, <2>3 DEF ClosePrior, CloseFirst, TrainingTypes
<1>9. ASSUME NEW from \in {"closed", "finished"}, NEW next \in {"save", "opened", "returned"},
             DropClosed(from, next)
      PROVE  TrainingTypes'
  <2>1. training \in Trainings BY <1>9 DEF DropClosed, TrainingAt, TrainingPlaces
  <2>2. training' \in Trainings
    BY <1>9, <2>1 DEF DropClosed, Trainings, TrainingPlaces
  <2>3. generations' \in [1..Epochs -> Checkpoints \union {NotThere}]
    BY <1>9 DEF DropClosed, DropGeneration, TrainingTypes
  <2> QED BY <1>9, <2>2, <2>3 DEF DropClosed, TrainingTypes
<1>10. CASE SaveGeneration
  <2>1. training \in Trainings BY <1>10 DEF SaveGeneration, TrainingAt, TrainingPlaces
  <2>2. training' \in Trainings \union {NoTraining}
    BY <1>10, <2>1, <1>a, TrainingGoesOn DEF SaveGeneration
  <2>3. generations' \in [1..Epochs -> Checkpoints \union {NotThere}]
    BY <1>10, <2>1 DEF SaveGeneration, TrainingTypes
  <2> QED BY <1>10, <2>2, <2>3 DEF SaveGeneration, TrainingTypes
<1>11. CASE WriteEpochJournal
  <2>1. training \in Trainings BY <1>11 DEF WriteEpochJournal, TrainingAt, TrainingPlaces
  <2>2. training' \in Trainings
    BY <1>11, <2>1 DEF WriteEpochJournal, Trainings, TrainingPlaces, RecoveryPlaces
  <2>3. Improves(training.losses) \in BOOLEAN BY DEF Improves
  <2>4. epochJournal' \in Journals
    BY <1>11, <2>1, <2>3 DEF WriteEpochJournal, Journals, TrainingTypes
  <2> QED BY <1>11, <2>2, <2>4 DEF WriteEpochJournal, TrainingTypes
<1>12. CASE RecoverBest \/ RecoverLast \/ RecoverLog
  <2>1. training \in Trainings /\ training # NoTraining /\ training.pc \in RecoveryPlaces
    BY <1>12 DEF RecoverBest, RecoverLast, RecoverLog, TrainingAt, TrainingPlaces, RecoveryPlaces
  <2>2. epochJournal \in Journals /\ JournalIsTrue(epochJournal)
    BY <2>1 DEF TrainingInvariant, JournalHolds, TrainingKnows, KnowsRecovery, TrainingTypes
  <2>3. BestAfter(epochJournal) \in Checkpoints /\ LogAfter(epochJournal) \in Seq(Losses)
    BY <2>2, JournalTells
  <2>4. epochJournal.checkpoint \in Checkpoints BY <2>2 DEF Journals
  <2>5. training' \in Trainings
    BY <1>12, <2>1, <1>a, TrainingGoesOn
       DEF RecoverBest, RecoverLast, RecoverLog, RecoveryPlaces
  <2> QED
    BY <1>12, <2>3, <2>4, <2>5
       DEF RecoverBest, RecoverLast, RecoverLog, RecoveredLog, TrainingTypes
<1>13. CASE MarkPublished
  <2>1. training \in Trainings /\ training # NoTraining /\ training.pc \in RecoveryPlaces
    BY <1>13 DEF MarkPublished, TrainingAt, TrainingPlaces, RecoveryPlaces
  <2>2. epochJournal \in Journals
    BY <2>1 DEF TrainingInvariant, TrainingKnows, KnowsRecovery, TrainingTypes
  <2>3. training' \in Trainings
    BY <1>13, <2>1 DEF MarkPublished, TrainingGoes, Trainings, TrainingPlaces
  <2>4. epochJournal' \in Journals BY <1>13, <2>2 DEF MarkPublished, Journals
  <2> QED BY <1>13, <2>3, <2>4 DEF MarkPublished, TrainingTypes
<1>14. CASE RecoverExperiment \/ WriteExperiment
  <2>1. training \in Trainings /\ training # NoTraining
        /\ training.pc \in {"recover experiment", "experiment"}
    BY <1>14 DEF RecoverExperiment, WriteExperiment, TrainingAt, TrainingPlaces
  <2>2. epochJournal \in Journals
    BY <2>1 DEF TrainingInvariant, TrainingKnows, TrainingTypes
  <2>3. training' \in Trainings
    <3>1. CASE WriteExperiment BY <2>1, <3>1, <1>a, TrainingGoesOn DEF WriteExperiment
    <3>2. CASE RecoverExperiment
      BY <2>1, <3>2, <1>a DEF RecoverExperiment, Trainings
    <3> QED BY <1>14, <3>1, <3>2
  <2>4. epochJournal.experimentAfter \in Experiments \union {NotThere}
    BY <2>2 DEF Journals
  <2> QED BY <1>14, <2>3, <2>4 DEF RecoverExperiment, WriteExperiment, TrainingTypes
<1>15. CASE PrepareExperiment
  <2>1. training \in Trainings BY <1>15 DEF PrepareExperiment, TrainingAt, TrainingPlaces
  <2>2. epochJournal \in Journals BY <1>15 DEF PrepareExperiment, TrainingTypes
  <2>3. training' \in Trainings
    BY <1>15, <2>1 DEF PrepareExperiment, TrainingGoes, Trainings, TrainingPlaces
  <2>4. epochJournal' \in Journals BY <1>15, <2>1, <2>2 DEF PrepareExperiment, Journals
  <2> QED BY <1>15, <2>3, <2>4 DEF PrepareExperiment, TrainingTypes
<1>16. CASE FinishEpochJournal
  <2>1. training \in Trainings BY <1>16 DEF FinishEpochJournal, TrainingAt, TrainingPlaces
  <2>2. epochJournal \in Journals \union {NotThere} BY DEF TrainingTypes
  <2>3. training' \in Trainings
    BY <1>16, <2>1, <2>2 DEF FinishEpochJournal, Trainings, TrainingPlaces
  <2> QED BY <1>16, <2>3 DEF FinishEpochJournal, TrainingTypes
<1>17. CASE KillTraining BY <1>17 DEF KillTraining
<1>18. CASE TearLog BY <1>18 DEF TearLog, TrainingTypes
<1>19. CASE UNCHANGED trainingVars BY <1>19 DEF trainingVars, TrainingTypes, directory
<1> QED
  BY <1>1, <1>2, <1>3, <1>4, <1>5, <1>6, <1>7, <1>8, <1>9, <1>10, <1>11, <1>12, <1>13, <1>14,
     <1>15, <1>16, <1>17, <1>18, <1>19
     DEF TrainingNext, Decline, ReturnRecovered, ReturnSummary

-----------------------------------------------------------------------------
(* The journal and the files                                               *)

LEMMA FilesStay ==
  ASSUME TrainingInvariant, UNCHANGED directory
  PROVE  JournalHolds' /\ EpochIsRecoverable' /\ FilesAgree'
<1>1. JournalHolds' BY DEF TrainingInvariant, JournalHolds, directory, Beside
<1>2. EpochIsRecoverable'
  BY DEF TrainingInvariant, EpochIsRecoverable, directory, GenerationStands
<1>3. FilesAgree' BY DEF TrainingInvariant, FilesAgree, directory, LeftOver
<1> QED BY <1>1, <1>2, <1>3

\* The facts of the pending journal.
LEMMA JournalStands ==
  ASSUME TrainingInvariant, epochJournal # NotThere
  PROVE  /\ epochJournal \in Journals /\ JournalIsTrue(epochJournal)
         /\ EpochIsRecoverable
         /\ epochJournal.status = "published" =>
              /\ log = LogAfter(epochJournal) /\ last = epochJournal.checkpoint
              /\ best = BestAfter(epochJournal) /\ ~partial
<1>1. epochJournal \in Journals /\ JournalIsTrue(epochJournal) /\ EpochIsRecoverable
  BY DEF TrainingInvariant, TrainingTypes, JournalHolds
<1>2. LogAfter(epochJournal) # epochJournal.logBefore BY <1>1, JournalTells
<1> QED BY <1>1, <1>2 DEF TrainingInvariant, JournalHolds, EpochIsRecoverable

\* Only the fields that a journal is filled in with differ.
LEMMA JournalOfSameEpoch ==
  ASSUME NEW j \in Journals, NEW k \in Journals,
         k.checkpoint = j.checkpoint, k.publishBest = j.publishBest,
         k.bestBefore = j.bestBefore, k.lastBefore = j.lastBefore,
         k.logBefore = j.logBefore, k.experimentBefore = j.experimentBefore
  PROVE  /\ BestAfter(k) = BestAfter(j) /\ LogAfter(k) = LogAfter(j)
         /\ \A e \in 1..Epochs : Beside(generations, j, e) => Beside(generations, k, e)
         /\ JournalIsTrue(j) =>
              /\ TellOneHistory(k.bestBefore, k.lastBefore, k.logBefore, k.experimentBefore)
              /\ k.checkpoint.losses = LogAfter(k)
              /\ k.lastBefore # NotThere => k.checkpoint.setup = k.lastBefore.setup
              /\ k.publishBest <=> Improves(k.checkpoint.losses)
<1>1. BestAfter(k) = BestAfter(j) /\ LogAfter(k) = LogAfter(j) BY DEF BestAfter, LogAfter
<1>2. \A e \in 1..Epochs : Beside(generations, j, e) => Beside(generations, k, e) BY DEF Beside
<1> QED BY <1>1, <1>2 DEF JournalIsTrue

LEMMA JournalIsWritten ==
  ASSUME TrainingInvariant, WriteEpochJournal
  PROVE  JournalHolds' /\ EpochIsRecoverable'
<1> DEFINE j == epochJournal'
           losses == training.losses
<1>1. training \in Trainings /\ training # NoTraining /\ training.pc = "journal"
  BY HoldsDirectory DEF TrainingInvariant, WriteEpochJournal, TrainingAt, TrainingPlaces
<1>2. /\ epochJournal = NotThere /\ IsPrior /\ KeepsSetup
      /\ IsOneMore(losses, log) /\ generations[Len(losses)] = Trained
  BY <1>1 DEF TrainingInvariant, TrainingKnows, KnowsAlone
<1>3. PICK x \in Losses : losses = Append(log, x) BY <1>2 DEF IsOneMore
<1>4. log \in Seq(Losses) /\ experiment \in Experiments \union {NotThere}
      /\ last \in Checkpoints \union {NotThere}
  BY DEF TrainingInvariant, TrainingTypes
<1>5. Len(losses) = Len(log) + 1 /\ losses[Len(losses)] = x /\ losses # log
      /\ Len(log) \in Nat
  <2>1. Len(Append(log, x)) = Len(log) + 1 /\ Len(log) \in Nat BY <1>4
  <2>2. Append(log, x)[Len(log) + 1] = x BY <1>4
  <2> QED BY <2>1, <2>2, <1>3
<1>6. ~partial /\ TellOneHistory(best, last, log, experiment) /\ \A e \in 1..Epochs : LeftOver(e)
  BY <1>2 DEF TrainingInvariant, FilesAgree
<1>7. /\ j.status = "prepared" /\ j.checkpoint = Trained /\ j.publishBest = Improves(losses)
      /\ j.bestBefore = best /\ j.lastBefore = last /\ j.logBefore = log
      /\ j.experimentBefore = experiment /\ j.experimentAfter = NotThere
  BY DEF WriteEpochJournal
<1>8. UNCHANGED <<generations, last, best, log, partial, experiment>>
  BY DEF WriteEpochJournal
<1> HIDE DEF j
<1>9. Trained.losses = losses /\ Trained.setup = training.setup /\ Epoch(Trained) = Len(losses)
  BY DEF Trained, Checkpoint, Epoch
<1>10. LogAfter(j) = losses BY <1>3, <1>5, <1>7, <1>9 DEF LogAfter
<1>11. JournalIsTrue(j)
  BY <1>2, <1>6, <1>7, <1>9, <1>10 DEF JournalIsTrue, KeepsSetup
<1>12. ASSUME NEW e \in 1..Epochs, e # Len(losses) PROVE Beside(generations', j, e)
  <2>1. CASE generations[e] = NotThere BY <2>1, <1>8 DEF Beside
  <2>2. CASE generations[e] # NotThere
    <3>1. e <= Len(log) /\ generations[e] = Checkpoint(last.setup, SubSeq(log, 1, e))
      BY <2>2, <1>5, <1>6, <1>12 DEF LeftOver
    <3>2. log # <<>> BY <3>1, <1>4
    <3>3. last # NotThere
      BY <3>2, <1>6 DEF TellOneHistory, Checkpoint, NotThere
    <3>4. last.setup = training.setup BY <3>3, <1>2 DEF KeepsSetup
    <3> QED BY <3>1, <3>4, <1>7, <1>8, <1>9 DEF Beside
  <2> QED BY <2>1, <2>2
<1>13. JournalHolds'
  <2>1. JournalIsTrue(epochJournal') BY <1>11 DEF j
  <2>2. \A e \in 1..Epochs : e # Epoch(j.checkpoint) => Beside(generations', j, e)
    BY <1>7, <1>9, <1>12
  <2> QED BY <2>1, <2>2, <1>7, <1>8 DEF JournalHolds, j, Beside
<1>14. last # Trained
  <2>1. CASE last = NotThere BY <2>1 DEF NotThere, Trained, Checkpoint
  <2>2. CASE last # NotThere
    <3>1. last.losses = log BY <2>2, <1>6 DEF TellOneHistory, Checkpoint
    <3> QED BY <3>1, <1>5, <1>9
  <2> QED BY <2>1, <2>2
<1>15. (GenerationStands)' BY <1>2, <1>7, <1>8, <1>9 DEF GenerationStands, j
<1>16. EpochIsRecoverable'
  BY <1>5, <1>6, <1>7, <1>8, <1>10, <1>14, <1>15 DEF EpochIsRecoverable, CanMove, j
<1> QED BY <1>13, <1>16

LEMMA JournalKept ==
  ASSUME TrainingInvariant, TrainingTypes', [TrainingNext]_trainingVars
  PROVE  JournalHolds' /\ EpochIsRecoverable'
<1>1. CASE UNCHANGED directory BY <1>1, FilesStay
<1>2. CASE epochJournal' = NotThere BY <1>2 DEF JournalHolds, EpochIsRecoverable
<1>3. CASE WriteEpochJournal BY <1>3, JournalIsWritten
<1>4. CASE SaveGeneration
  <2>1. training \in Trainings /\ training # NoTraining /\ training.pc = "save"
    BY <1>4, HoldsDirectory
       DEF TrainingInvariant, SaveGeneration, TrainingAt, TrainingPlaces
  <2>2. epochJournal = NotThere BY <2>1 DEF TrainingInvariant, TrainingKnows, KnowsAlone
  <2> QED BY <1>2, <1>4, <2>2 DEF SaveGeneration
<1>5. CASE RecoverBest \/ RecoverLast \/ RecoverLog \/ MarkPublished
  <2>1. training # NoTraining /\ training.pc \in RecoveryPlaces
    BY <1>5, HoldsDirectory
       DEF TrainingInvariant, RecoverBest, RecoverLast, RecoverLog, MarkPublished, TrainingAt,
           TrainingPlaces, RecoveryPlaces
  <2>2. epochJournal # NotThere /\ KnowsProgress
    BY <2>1 DEF TrainingInvariant, TrainingKnows, KnowsRecovery
  <2>3. /\ epochJournal \in Journals /\ JournalIsTrue(epochJournal)
        /\ EpochIsRecoverable /\ JournalHolds
    BY <2>2, JournalStands DEF TrainingInvariant
  <2>4. LogAfter(epochJournal) # epochJournal.logBefore BY <2>3, JournalTells
  <2>5. CASE RecoverBest
    <3>1. JournalHolds' BY <2>3, <2>5 DEF RecoverBest, JournalHolds, Beside
    <3>2. EpochIsRecoverable'
      BY <2>2, <2>3, <2>5 DEF RecoverBest, EpochIsRecoverable, GenerationStands, CanMove
    <3> QED BY <3>1, <3>2
  <2>6. CASE RecoverLast
    <3>1. best = BestAfter(epochJournal)
      BY <2>2, <2>6 DEF KnowsProgress, RecoverLast, TrainingAt
    <3>2. JournalHolds' BY <2>3, <2>6 DEF RecoverLast, JournalHolds, Beside
    <3>3. EpochIsRecoverable'
      BY <2>2, <2>3, <2>6, <3>1
         DEF RecoverLast, EpochIsRecoverable, GenerationStands, CanMove
    <3> QED BY <3>2, <3>3
  <2>7. CASE RecoverLog
    <3>1. last = epochJournal.checkpoint
      BY <2>2, <2>7 DEF KnowsProgress, RecoverLog, TrainingAt
    <3>2. JournalHolds' BY <2>3, <2>7 DEF RecoverLog, RecoveredLog, JournalHolds, Beside
    <3>3. EpochIsRecoverable'
      BY <2>2, <2>3, <2>7, <3>1
         DEF RecoverLog, RecoveredLog, EpochIsRecoverable, GenerationStands, CanMove
    <3> QED BY <3>2, <3>3
  <2>8. CASE MarkPublished
    <3>1. log = LogAfter(epochJournal)
      BY <2>2, <2>8 DEF KnowsProgress, MarkPublished, TrainingAt
    <3> DEFINE k == epochJournal'
    <3>2. /\ k = [epochJournal EXCEPT !.status = "published"] /\ k \in Journals
          /\ UNCHANGED <<generations, last, best, log, partial, experiment>>
      BY <2>3, <2>8 DEF MarkPublished, Journals
    <3>3. /\ k.checkpoint = epochJournal.checkpoint
          /\ k.publishBest = epochJournal.publishBest
          /\ k.bestBefore = epochJournal.bestBefore /\ k.lastBefore = epochJournal.lastBefore
          /\ k.logBefore = epochJournal.logBefore
          /\ k.experimentBefore = epochJournal.experimentBefore
          /\ k.experimentAfter = epochJournal.experimentAfter /\ k.status = "published"
      BY <2>3, <3>2 DEF Journals
    <3> HIDE DEF k
    <3>4. /\ BestAfter(k) = BestAfter(epochJournal) /\ LogAfter(k) = LogAfter(epochJournal)
          /\ JournalIsTrue(k)
          /\ \A e \in 1..Epochs : Beside(generations, epochJournal, e) => Beside(generations, k, e)
      BY <2>3, <3>2, <3>3, JournalOfSameEpoch DEF JournalIsTrue
    <3>5. JournalHolds'
      BY <2>2, <2>3, <3>1, <3>2, <3>3, <3>4 DEF JournalHolds, k, Beside
    <3>6. EpochIsRecoverable'
      BY <2>2, <2>3, <3>2, <3>3, <3>4 DEF EpochIsRecoverable, GenerationStands, CanMove, k
    <3> QED BY <3>5, <3>6
  <2> QED BY <1>5, <2>5, <2>6, <2>7, <2>8
<1>6. CASE PrepareExperiment
  <2>1. training \in Trainings /\ training # NoTraining /\ training.pc = "epochs"
    BY <1>6, HoldsDirectory
       DEF TrainingInvariant, PrepareExperiment, TrainingAt, TrainingPlaces
  <2>2. epochJournal # NotThere /\ IsPrior
    BY <1>6, <2>1 DEF PrepareExperiment, TrainingInvariant, TrainingKnows, KnowsEpochs
  <2>3. /\ epochJournal \in Journals /\ JournalIsTrue(epochJournal)
        /\ EpochIsRecoverable /\ JournalHolds
    BY <2>2, JournalStands DEF TrainingInvariant
  <2> DEFINE k == epochJournal'
  <2>4. /\ k = [epochJournal EXCEPT !.experimentAfter = ExperimentRecord]
        /\ k \in Journals
        /\ UNCHANGED <<generations, last, best, log, partial, experiment>>
        /\ epochJournal.status = "published" /\ epochJournal.experimentBefore = experiment
    BY <1>6, <2>1, <2>3, OutputsTyped DEF PrepareExperiment, Journals, TrainingInvariant
  <2>5. /\ k.checkpoint = epochJournal.checkpoint
        /\ k.publishBest = epochJournal.publishBest
        /\ k.bestBefore = epochJournal.bestBefore /\ k.lastBefore = epochJournal.lastBefore
        /\ k.logBefore = epochJournal.logBefore
        /\ k.experimentBefore = experiment
        /\ k.experimentAfter = ExperimentRecord /\ k.status = "published"
    BY <2>3, <2>4 DEF Journals
  <2>6. IsStartOf(training.prior, ExperimentRecord.executions)
    <3>1. training.prior \in Seq(Executions) /\ ThisExecution \in Executions
      BY <2>1 DEF Trainings, ThisExecution, Executions
    <3> QED BY <3>1, StartOfAppend DEF ExperimentRecord
  <2>7. ExperimentRecord # NotThere
    BY DEF ExperimentRecord, NotThere
  <2> HIDE DEF k
  <2>8. /\ BestAfter(k) = BestAfter(epochJournal) /\ LogAfter(k) = LogAfter(epochJournal)
        /\ \A e \in 1..Epochs : Beside(generations, epochJournal, e) => Beside(generations, k, e)
    BY <2>3, <2>4, <2>5, JournalOfSameEpoch
  <2>9. JournalIsTrue(k)
    <3>1. /\ TellOneHistory(k.bestBefore, k.lastBefore, k.logBefore, k.experimentBefore)
          /\ k.checkpoint.losses = LogAfter(k)
          /\ k.lastBefore # NotThere => k.checkpoint.setup = k.lastBefore.setup
          /\ k.publishBest <=> Improves(k.checkpoint.losses)
      BY <2>3, <2>4, <2>5, JournalOfSameEpoch
    <3>2. k.experimentBefore # NotThere =>
            IsStartOf(k.experimentBefore.executions, k.experimentAfter.executions)
      BY <2>2, <2>5, <2>6 DEF IsPrior
    <3> QED BY <2>5, <3>1, <3>2 DEF JournalIsTrue
  <2>10. JournalHolds'
    BY <2>2, <2>3, <2>4, <2>5, <2>7, <2>8, <2>9 DEF JournalHolds, k, Beside
  <2>11. EpochIsRecoverable'
    BY <2>2, <2>3, <2>4, <2>5, <2>8 DEF EpochIsRecoverable, GenerationStands, CanMove, k
  <2> QED BY <2>10, <2>11
<1>7. CASE RecoverExperiment \/ WriteExperiment
  <2>1. training \in Trainings /\ training # NoTraining
        /\ training.pc \in {"recover experiment", "experiment"}
    BY <1>7, HoldsDirectory
       DEF TrainingInvariant, RecoverExperiment, WriteExperiment, TrainingAt, TrainingPlaces
  <2>2. epochJournal # NotThere /\ epochJournal.experimentAfter # NotThere
    BY <2>1 DEF TrainingInvariant, TrainingKnows
  <2>3. EpochIsRecoverable /\ JournalHolds BY DEF TrainingInvariant
  <2>4. /\ experiment' = epochJournal.experimentAfter
        /\ UNCHANGED <<generations, last, best, log, partial, epochJournal>>
    BY <1>7 DEF RecoverExperiment, WriteExperiment
  <2>5. JournalHolds' BY <2>2, <2>3, <2>4 DEF JournalHolds, Beside
  <2>6. EpochIsRecoverable'
    BY <2>2, <2>3, <2>4 DEF EpochIsRecoverable, GenerationStands, CanMove
  <2> QED BY <2>5, <2>6
<1>8. CASE TearLog
  <2>1. JournalHolds /\ EpochIsRecoverable BY DEF TrainingInvariant
  <2>2. JournalHolds' BY <1>8, <2>1 DEF TearLog, JournalHolds, Beside
  <2>3. EpochIsRecoverable'
    BY <1>8, <2>1 DEF TearLog, EpochIsRecoverable, GenerationStands, CanMove
  <2> QED BY <2>2, <2>3
<1>9. CASE ClosePrior BY <1>2, <1>9 DEF ClosePrior, CloseFirst
<1>10. CASE FinishEpochJournal BY <1>2, <1>10 DEF FinishEpochJournal
<1>11. ASSUME NEW from, NEW next, DropClosed(from, next)
       PROVE  JournalHolds' /\ EpochIsRecoverable'
  BY <1>2, <1>11 DEF DropClosed
<1>12. CASE UNCHANGED trainingVars BY <1>1, <1>12 DEF trainingVars
<1> QED
  BY <1>1, <1>3, <1>4, <1>5, <1>6, <1>7, <1>8, <1>9, <1>10, <1>11, <1>12
     DEF TrainingNext, Decline, ReturnRecovered, ReturnSummary, EndTraining, StartTraining,
         StartsAnew, Resumes, Refuse, BeginEpochs, Train, KillTraining

LEMMA FilesKept ==
  ASSUME TrainingInvariant, TrainingTypes', [TrainingNext]_trainingVars
  PROVE  FilesAgree'
<1>1. CASE UNCHANGED directory BY <1>1, FilesStay
<1>2. CASE epochJournal' # NotThere BY <1>2 DEF FilesAgree
<1>3. ASSUME epochJournal # NotThere, UNCHANGED epochJournal PROVE FilesAgree'
  BY <1>2, <1>3
<1>4. ASSUME epochJournal # NotThere, epochJournal.status = "published",
             epochJournal' = NotThere,
             UNCHANGED <<generations, last, best, log, partial, experiment>>,
             TellOneHistory(best, last, log, experiment)
      PROVE  FilesAgree'
  <2>1. /\ epochJournal \in Journals /\ JournalIsTrue(epochJournal) /\ EpochIsRecoverable
        /\ log = LogAfter(epochJournal) /\ last = epochJournal.checkpoint /\ ~partial
    BY <1>4, JournalStands
  <2>2. /\ last = Checkpoint(last.setup, log) /\ log \in Seq(Losses)
        /\ Len(log) = Len(epochJournal.logBefore) + 1 /\ Epoch(last) = Len(log)
    BY <2>1, JournalTells
  <2>3. PICK x \in Losses : log = Append(epochJournal.logBefore, x) BY <2>1, JournalTells
  <2>4. epochJournal.logBefore \in Seq(Losses) BY <2>1 DEF Journals
  <2>5. ASSUME NEW e \in 1..Epochs PROVE LeftOver(e)'
    <3>1. CASE e = Len(log)
      <4>1. generations[e] = last
        BY <2>1, <2>2, <3>1, <1>4 DEF EpochIsRecoverable, GenerationStands
      <4>2. SubSeq(log, 1, e) = log BY <2>2, <3>1, SubSeqFull
      <4>3. generations[e] = Checkpoint(last.setup, SubSeq(log, 1, e)) BY <2>2, <4>1, <4>2
      <4>4. e <= Len(log) BY <2>2, <3>1
      <4> QED BY <1>4, <4>3, <4>4 DEF LeftOver
    <3>2. CASE e # Len(log) /\ generations[e] # NotThere
      <4>1. /\ e <= Len(epochJournal.logBefore)
            /\ generations[e] = Checkpoint(last.setup, SubSeq(epochJournal.logBefore, 1, e))
        BY <1>4, <2>1, <2>2, <3>2 DEF TrainingInvariant, JournalHolds, Beside
      <4>2. SubSeq(log, 1, e) = SubSeq(epochJournal.logBefore, 1, e)
        BY <2>3, <2>4, <4>1, StartOfRows
      <4>3. e <= Len(log) BY <2>2, <2>4, <4>1
      <4> QED BY <1>4, <4>1, <4>2, <4>3 DEF LeftOver
    <3>3. CASE generations[e] = NotThere BY <3>3, <1>4 DEF LeftOver
    <3> QED BY <3>1, <3>2, <3>3
  <2>6. TellOneHistory(best, last, log, experiment)' BY <1>4 DEF TellOneHistory
  <2> QED BY <2>1, <2>5, <2>6, <1>4 DEF FilesAgree
<1>5. CASE ClosePrior
  <2>1. training # NoTraining /\ training.pc = "close"
    BY <1>5, HoldsDirectory DEF TrainingInvariant, ClosePrior, TrainingAt, TrainingPlaces
  <2>2. /\ epochJournal # NotThere /\ epochJournal.experimentAfter = NotThere
        /\ epochJournal.status = "published"
    BY <1>5, <2>1 DEF ClosePrior, TrainingInvariant, TrainingKnows, KnowsRecovery
  <2>3. /\ epochJournal \in Journals /\ JournalIsTrue(epochJournal)
        /\ log = LogAfter(epochJournal) /\ last = epochJournal.checkpoint
        /\ best = BestAfter(epochJournal)
    BY <2>2, JournalStands
  <2>4. experiment = epochJournal.experimentBefore
    BY <2>2 DEF TrainingInvariant, JournalHolds
  <2>5. TellOneHistory(best, last, log, experiment) BY <2>3, <2>4, JournalTells
  <2> QED BY <1>4, <1>5, <2>2, <2>5 DEF ClosePrior, CloseFirst
<1>6. CASE FinishEpochJournal
  <2>1. training # NoTraining /\ training.pc = "finish"
    BY <1>6, HoldsDirectory
       DEF TrainingInvariant, FinishEpochJournal, TrainingAt, TrainingPlaces
  <2>2. epochJournal # NotThere /\ epochJournal.experimentAfter # NotThere
    BY <2>1 DEF TrainingInvariant, TrainingKnows
  <2>3. /\ epochJournal \in Journals /\ JournalIsTrue(epochJournal)
        /\ epochJournal.status = "published"
        /\ log = LogAfter(epochJournal) /\ last = epochJournal.checkpoint
        /\ best = BestAfter(epochJournal)
    BY <2>2, JournalStands DEF JournalIsTrue
  <2>4. /\ TellOneHistory(best, last, log, epochJournal.experimentBefore)
        /\ log # <<>> /\ log \in Seq(Losses) /\ Epoch(epochJournal.checkpoint) = Len(log)
    BY <2>3, JournalTells
  <2>5. /\ experiment.completed = Len(log)
        /\ experiment.artifacts = [best |-> best, last |-> last, log |-> log]
    BY <1>6, <2>3, <2>4 DEF FinishEpochJournal, IsCommitted
  <2>6. TellOneHistory(best, last, log, experiment) BY <2>4, <2>5 DEF TellOneHistory
  <2> QED BY <1>4, <1>6, <2>2, <2>3, <2>6 DEF FinishEpochJournal
<1>7. ASSUME NEW from \in {"closed", "finished"}, NEW next, DropClosed(from, next)
      PROVE  FilesAgree'
  <2>1. training # NoTraining /\ training.pc \in {"closed", "finished"}
    BY <1>7, HoldsDirectory DEF TrainingInvariant, DropClosed, TrainingAt, TrainingPlaces
  <2>2. epochJournal = NotThere
    BY <2>1 DEF TrainingInvariant, TrainingKnows, KnowsClosed
  <2>3. ~partial /\ TellOneHistory(best, last, log, experiment) /\ \A e \in 1..Epochs : LeftOver(e)
    BY <2>2 DEF TrainingInvariant, FilesAgree
  <2>4. UNCHANGED <<last, best, log, partial, experiment>> BY <1>7 DEF DropClosed
  <2>5. ASSUME NEW e \in 1..Epochs PROVE LeftOver(e)'
    <3>1. generations'[e] \in {generations[e], NotThere}
      BY <1>7 DEF DropClosed, DropGeneration, TrainingInvariant, TrainingTypes
    <3> QED BY <2>3, <2>4, <3>1 DEF LeftOver
  <2> QED BY <2>3, <2>4, <2>5 DEF FilesAgree
<1>8. CASE SaveGeneration
  <2>1. training \in Trainings /\ training # NoTraining /\ training.pc = "save"
    BY <1>8, HoldsDirectory
       DEF TrainingInvariant, SaveGeneration, TrainingAt, TrainingPlaces
  <2>2. epochJournal = NotThere /\ IsOneMore(training.losses, log)
    BY <2>1 DEF TrainingInvariant, TrainingKnows, KnowsAlone
  <2>3. ~partial /\ TellOneHistory(best, last, log, experiment) /\ \A e \in 1..Epochs : LeftOver(e)
    BY <2>2 DEF TrainingInvariant, FilesAgree
  <2>4. UNCHANGED <<last, best, log, partial, epochJournal, experiment>>
    BY <1>8 DEF SaveGeneration
  <2>5. PICK x \in Losses : training.losses = Append(log, x) BY <2>2 DEF IsOneMore
  <2>6. log \in Seq(Losses) BY DEF TrainingInvariant, TrainingTypes
  <2>7. Len(training.losses) = Len(log) + 1 /\ IsStartOf(log, training.losses)
    BY <2>5, <2>6, StartOfAppend
  <2>8. ASSUME NEW e \in 1..Epochs PROVE LeftOver(e)'
    <3>1. CASE generations'[e] = generations[e] BY <2>3, <2>4, <3>1 DEF LeftOver
    <3>2. CASE e = Len(training.losses) /\ generations'[e] = Trained
      BY <2>4, <2>7, <3>2 DEF LeftOver, Trained, Checkpoint
    <3> QED BY <1>8, <3>1, <3>2 DEF SaveGeneration, TrainingInvariant, TrainingTypes
  <2> QED BY <2>3, <2>4, <2>8 DEF FilesAgree
<1>9. CASE WriteEpochJournal
  BY <1>2, <1>9 DEF WriteEpochJournal, NotThere
<1>10. CASE PrepareExperiment \/ MarkPublished
  <2>1. epochJournal # NotThere
    <3>1. CASE MarkPublished
      <4>1. training # NoTraining /\ training.pc = "publish"
        BY <3>1, HoldsDirectory
           DEF TrainingInvariant, MarkPublished, TrainingAt, TrainingPlaces, RecoveryPlaces
      <4> QED BY <4>1 DEF TrainingInvariant, TrainingKnows, KnowsRecovery, RecoveryPlaces
    <3>2. CASE PrepareExperiment BY <3>2 DEF PrepareExperiment
    <3> QED BY <1>10, <3>1, <3>2
  <2>2. epochJournal \in Journals BY <2>1, JournalStands
  <2>3. epochJournal' \in Journals \/ epochJournal'.kind = "journal"
    BY <1>10, <2>2 DEF PrepareExperiment, MarkPublished, Journals
  <2> QED BY <1>2, <2>3, NothingIsNoFile DEF NotThere
<1>11. CASE RecoverBest \/ RecoverLast \/ RecoverLog
  <2>1. training # NoTraining /\ training.pc \in RecoveryPlaces
    BY <1>11, HoldsDirectory
       DEF TrainingInvariant, RecoverBest, RecoverLast, RecoverLog, TrainingAt,
           TrainingPlaces, RecoveryPlaces
  <2>2. epochJournal # NotThere BY <2>1 DEF TrainingInvariant, TrainingKnows, KnowsRecovery
  <2> QED BY <1>3, <1>11, <2>2 DEF RecoverBest, RecoverLast, RecoverLog
<1>12. CASE RecoverExperiment \/ WriteExperiment
  <2>1. training # NoTraining /\ training.pc \in {"recover experiment", "experiment"}
    BY <1>12, HoldsDirectory
       DEF TrainingInvariant, RecoverExperiment, WriteExperiment, TrainingAt, TrainingPlaces
  <2>2. epochJournal # NotThere BY <2>1 DEF TrainingInvariant, TrainingKnows
  <2> QED BY <1>3, <1>12, <2>2 DEF RecoverExperiment, WriteExperiment
<1>13. CASE TearLog
  <2>1. training # NoTraining /\ training.pc \in RecoveryPlaces
    BY <1>13, HoldsDirectory
       DEF TrainingInvariant, TearLog, TrainingAt, TrainingPlaces, RecoveryPlaces
  <2>2. epochJournal # NotThere BY <2>1 DEF TrainingInvariant, TrainingKnows, KnowsRecovery
  <2> QED BY <1>3, <1>13, <2>2 DEF TearLog
<1>14. CASE UNCHANGED trainingVars BY <1>1, <1>14 DEF trainingVars
<1> QED
  BY <1>1, <1>5, <1>6, <1>7, <1>8, <1>9, <1>10, <1>11, <1>12, <1>13, <1>14
     DEF TrainingNext, Decline, ReturnRecovered, ReturnSummary, EndTraining, StartTraining,
         StartsAnew, Resumes, Refuse, BeginEpochs, Train, KillTraining

-----------------------------------------------------------------------------
(* What a training relies on                                               *)

LEMMA KnowsKept ==
  ASSUME TrainingInvariant, TrainingTypes', [TrainingNext]_trainingVars
  PROVE  TrainingKnows'
<1> DEFINE StandsAt(pcs) == training # NoTraining /\ training.pc \in pcs
<1>0. TrainingTypes /\ TrainingKnows BY DEF TrainingInvariant
<1>1. CASE training' = NoTraining BY <1>1 DEF TrainingKnows
<1>2. ASSUME NEW s \in Setups, NEW r \in BOOLEAN, NEW e \in 1..Epochs, StartTraining(s, r, e)
      PROVE  TrainingKnows'
  <2>1. UNCHANGED <<epochJournal, experiment>> BY <1>2 DEF StartTraining, directory
  <2>2. CASE epochJournal = NotThere
    <3>1. training'.pc = "opened" /\ training'.losses = <<>>
      BY <1>2, <2>2 DEF StartTraining
    <3> QED
      BY <2>1, <2>2, <3>1 DEF TrainingKnows, AsPublished, KnowsAlone, KnowsClosed, KnowsEpochs,
         KnowsRecovery, KnowsProgress, RecoveryPlaces
  <2>3. CASE epochJournal # NotThere
    <3>1. training'.pc = "recover best" /\ training'.then = "opened" /\ training'.losses = <<>>
      BY <1>2, <2>3 DEF StartTraining
    <3> QED
      BY <2>1, <2>3, <3>1 DEF TrainingKnows, KnowsAlone, KnowsClosed, KnowsEpochs,
         KnowsRecovery, KnowsProgress, RecoveryPlaces
  <2> QED BY <2>2, <2>3
<1>3. CASE StartsAnew
  <2>1. StandsAt({"opened"}) /\ training \in Trainings
    BY <1>0, <1>3, HoldsDirectory DEF StartsAnew, TrainingAt, TrainingPlaces
  <2>2. /\ training'.pc = "ready" /\ training'.losses = training.losses
        /\ training'.prior = training.prior /\ training'.setup = training.setup
        /\ UNCHANGED directory
    BY <1>3, <2>1 DEF StartsAnew, TrainingGoes, Trainings
  <2>3. epochJournal = NotThere /\ log = <<>> /\ last = NotThere /\ experiment = NotThere
    BY <1>3 DEF StartsAnew, IsNew
  <2>4. training.losses = <<>> BY <1>0, <2>1 DEF TrainingKnows
  <2>5. KnowsEpochs'
    BY <2>2, <2>3, <2>4 DEF KnowsEpochs, AsPublished, IsPrior, KeepsSetup, directory
  <2> QED
    BY <2>2, <2>5 DEF TrainingKnows, KnowsAlone, KnowsClosed, KnowsRecovery, KnowsProgress,
       RecoveryPlaces
<1>4. CASE Resumes
  <2>1. StandsAt({"opened"}) /\ training \in Trainings
    BY <1>0, <1>4, HoldsDirectory DEF Resumes, TrainingAt, TrainingPlaces
  <2>2. /\ training'.pc = "ready" /\ training'.losses = last.losses
        /\ training'.prior = PriorExecutions /\ training'.setup = training.setup
        /\ UNCHANGED directory
    BY <1>4, <2>1 DEF Resumes, Trainings
  <2>3. AsPublished BY <1>0, <2>1 DEF TrainingKnows
  <2>4. last # NotThere BY <1>4 DEF Resumes, IsOurs, Loads
  <2>5. last.losses = log
    <3>1. CASE epochJournal = NotThere
      BY <2>4, <3>1 DEF TrainingInvariant, FilesAgree, TellOneHistory, Checkpoint
    <3>2. CASE epochJournal # NotThere
      BY <2>3, <3>2, JournalStands DEF AsPublished, JournalIsTrue
    <3> QED BY <3>1, <3>2
  <2>6. last.setup = training.setup
    <3>1. last.setup \in Setups /\ training.setup \in Setups
      BY <1>0, <2>1, <2>4 DEF TrainingTypes, Checkpoints, Trainings
    <3> QED
      BY <1>4, <3>1 DEF Resumes, IsOurs, SameIdentity, SameRuntime, Setups
  <2>7. KnowsEpochs'
    BY <2>2, <2>3, <2>5, <2>6
       DEF KnowsEpochs, AsPublished, IsPrior, KeepsSetup, directory, PriorExecutions
  <2> QED
    BY <2>2, <2>7 DEF TrainingKnows, KnowsAlone, KnowsClosed, KnowsRecovery, KnowsProgress,
       RecoveryPlaces
<1>5. CASE Refuse
  <2>1. StandsAt({"opened"}) /\ training \in Trainings
    BY <1>0, <1>5, HoldsDirectory DEF Refuse, TrainingAt, TrainingPlaces
  <2>2. training'.pc = "refused" BY <1>5, <2>1 DEF Refuse, TrainingGoes, Trainings
  <2> QED
    BY <2>2 DEF TrainingKnows, KnowsAlone, KnowsClosed, KnowsEpochs, KnowsRecovery,
       KnowsProgress, RecoveryPlaces
<1>6. CASE BeginEpochs
  <2>1. StandsAt({"ready"}) /\ training \in Trainings
    BY <1>0, <1>6, HoldsDirectory DEF BeginEpochs, TrainingAt, TrainingPlaces
  <2>2. CASE StopIsLegal
    <3>1. /\ training'.pc = "epochs" /\ training'.losses = training.losses
          /\ training'.prior = training.prior /\ training'.setup = training.setup
          /\ UNCHANGED directory
      BY <1>6, <2>1, <2>2 DEF BeginEpochs, TrainingGoes, Trainings
    <3>2. KnowsEpochs'
      BY <1>0, <2>1, <3>1
         DEF TrainingKnows, KnowsEpochs, AsPublished, IsPrior, KeepsSetup, directory
    <3> QED
      BY <3>1, <3>2 DEF TrainingKnows, KnowsAlone, KnowsClosed, KnowsRecovery, KnowsProgress,
         RecoveryPlaces
  <2> QED BY <1>1, <1>6, <2>2 DEF BeginEpochs
<1>7. ASSUME NEW l \in Losses, Train(l) PROVE TrainingKnows'
  <2>1. StandsAt({"epochs"}) /\ training \in Trainings
    BY <1>0, <1>7, HoldsDirectory DEF Train, TrainingAt, TrainingPlaces
  <2>2. AsPublished /\ IsPrior /\ KeepsSetup /\ training.losses = log
    BY <1>0, <2>1 DEF TrainingKnows, KnowsEpochs
  <2>3. /\ training'.losses = Append(log, l) /\ training'.then = "close"
        /\ training'.pc = IF epochJournal = NotThere THEN "save" ELSE "recover best"
        /\ training'.prior = training.prior /\ training'.setup = training.setup
        /\ UNCHANGED directory
    BY <1>7, <2>1, <2>2 DEF Train, Trainings
  <2>4. CASE epochJournal = NotThere
    <3>1. KnowsAlone'
      BY <2>2, <2>3, <2>4 DEF KnowsAlone, IsPrior, KeepsSetup, IsOneMore, directory
    <3> QED
      BY <2>3, <2>4, <3>1 DEF TrainingKnows, KnowsClosed, KnowsEpochs, KnowsRecovery,
         KnowsProgress, RecoveryPlaces
  <2>5. CASE epochJournal # NotThere
    <3>1. /\ epochJournal.status = "published" /\ epochJournal.experimentAfter = NotThere
          /\ log = LogAfter(epochJournal) /\ last = epochJournal.checkpoint
          /\ epochJournal \in Journals /\ JournalIsTrue(epochJournal)
      BY <2>2, <2>5, JournalStands DEF AsPublished
    <3>2. epochJournal.checkpoint.losses = log BY <3>1 DEF JournalIsTrue
    <3>3. training.setup = epochJournal.checkpoint.setup
      BY <2>2, <3>1, NothingIsNoFile DEF KeepsSetup, Journals
    <3>4. KnowsRecovery'
      BY <2>2, <2>3, <2>5, <3>1, <3>2, <3>3
         DEF KnowsRecovery, IsPrior, IsOneMore, directory
    <3> QED
      BY <2>3, <2>5, <3>4 DEF TrainingKnows, KnowsAlone, KnowsClosed, KnowsEpochs,
         KnowsProgress, RecoveryPlaces
  <2> QED BY <2>4, <2>5
<1>8. CASE ClosePrior
  <2>1. StandsAt({"close"}) /\ training \in Trainings
    BY <1>0, <1>8, HoldsDirectory DEF ClosePrior, TrainingAt, TrainingPlaces
  <2>2. /\ epochJournal # NotThere /\ IsPrior /\ training.then = "close"
        /\ training.setup = epochJournal.checkpoint.setup
        /\ epochJournal.status = "published"
        /\ IsOneMore(training.losses, epochJournal.checkpoint.losses)
    BY <1>0, <2>1 DEF TrainingKnows, KnowsRecovery
  <2>3. /\ epochJournal.checkpoint.losses = log /\ last = epochJournal.checkpoint
    BY <2>2, JournalStands DEF JournalIsTrue
  <2>4. /\ training'.pc = "closed" /\ training'.closed = epochJournal
        /\ training'.losses = training.losses
        /\ training'.prior = training.prior /\ training'.setup = training.setup
        /\ epochJournal' = NotThere /\ UNCHANGED <<last, log, experiment>>
    BY <1>8, <2>1 DEF ClosePrior, CloseFirst, Trainings
  <2>5. KnowsAlone' /\ KnowsClosed'
    BY <2>2, <2>3, <2>4 DEF KnowsAlone, KnowsClosed, IsPrior, KeepsSetup
  <2> QED
    BY <2>4, <2>5 DEF TrainingKnows, KnowsEpochs, KnowsRecovery, KnowsProgress, RecoveryPlaces
<1>9. CASE DropClosed("closed", "save")
  <2>1. StandsAt({"closed"}) /\ training \in Trainings
    BY <1>0, <1>9, HoldsDirectory DEF DropClosed, TrainingAt, TrainingPlaces
  <2>2. /\ training'.pc = "save" /\ training'.losses = training.losses
        /\ training'.prior = training.prior /\ training'.setup = training.setup
        /\ epochJournal' = NotThere /\ UNCHANGED <<last, log, experiment>>
    BY <1>9, <2>1 DEF DropClosed, Trainings
  <2>3. KnowsAlone' BY <1>0, <2>1, <2>2 DEF TrainingKnows, KnowsAlone, IsPrior, KeepsSetup
  <2> QED
    BY <2>2, <2>3 DEF TrainingKnows, KnowsClosed, KnowsEpochs, KnowsRecovery, KnowsProgress,
       RecoveryPlaces
<1>10. ASSUME NEW next \in {"opened", "returned"}, DropClosed("finished", next),
              next = "opened" => training.losses = <<>>
       PROVE  TrainingKnows'
  <2>1. StandsAt({"finished"}) /\ training \in Trainings
    BY <1>0, <1>10, HoldsDirectory DEF DropClosed, TrainingAt, TrainingPlaces
  <2>2. /\ training'.pc = next /\ epochJournal' = NotThere
        /\ training'.losses = training.losses
    BY <1>10, <2>1 DEF DropClosed, Trainings
  <2> QED
    BY <1>10, <2>2 DEF TrainingKnows, AsPublished, KnowsAlone, KnowsClosed, KnowsEpochs,
       KnowsRecovery, KnowsProgress, RecoveryPlaces
<1>11. CASE SaveGeneration
  <2>1. StandsAt({"save"}) /\ training \in Trainings
    BY <1>0, <1>11, HoldsDirectory DEF SaveGeneration, TrainingAt, TrainingPlaces
  <2>2. CASE generations[Len(training.losses)] \in {NotThere, Trained}
    <3>1. /\ training'.pc = "journal" /\ training'.losses = training.losses
          /\ training'.prior = training.prior /\ training'.setup = training.setup
          /\ UNCHANGED <<last, log, epochJournal, experiment>>
          /\ generations' = [generations EXCEPT ![Len(training.losses)] = Trained]
      BY <1>11, <2>1, <2>2 DEF SaveGeneration, TrainingGoes, Trainings
    <3>2. KnowsAlone'
      BY <1>0, <2>1, <3>1 DEF TrainingKnows, KnowsAlone, IsPrior, KeepsSetup
    <3>3. Len(training.losses) \in 1..Epochs
      <4>1. PICK x \in Losses : training.losses = Append(log, x)
        BY <1>0, <2>1 DEF TrainingKnows, KnowsAlone, IsOneMore
      <4>2. log \in Seq(Losses) /\ Len(training.losses) <= Epochs
        BY <1>0, <2>1 DEF TrainingTypes, Trainings, Histories
      <4> QED BY <4>1, <4>2
    <3>4. generations'[Len(training.losses)] = Trained
      BY <1>0, <3>1, <3>3 DEF TrainingTypes
    <3>5. Trained' = Trained BY <3>1 DEF Trained
    <3> QED
      BY <3>1, <3>2, <3>4, <3>5 DEF TrainingKnows, KnowsClosed, KnowsEpochs, KnowsRecovery,
         KnowsProgress, RecoveryPlaces
  <2> QED BY <1>1, <1>11, <2>2 DEF SaveGeneration
<1>12. CASE WriteEpochJournal
  <2>1. StandsAt({"journal"}) /\ training \in Trainings
    BY <1>0, <1>12, HoldsDirectory DEF WriteEpochJournal, TrainingAt, TrainingPlaces
  <2>2. /\ training'.pc = "recover best" /\ training'.then = "epochs"
        /\ training'.losses = training.losses
        /\ training'.prior = training.prior /\ training'.setup = training.setup
        /\ epochJournal'.checkpoint = Trained /\ epochJournal'.experimentAfter = NotThere
        /\ epochJournal' # NotThere
        /\ UNCHANGED experiment
    BY <1>12, <2>1 DEF WriteEpochJournal, Trainings, NotThere
  <2>3. Trained.losses = training.losses /\ Trained.setup = training.setup
    BY DEF Trained, Checkpoint
  <2>4. IsPrior BY <1>0, <2>1 DEF TrainingKnows, KnowsAlone
  <2>5. KnowsRecovery' BY <2>2, <2>3, <2>4 DEF KnowsRecovery, IsPrior, RecoveryPlaces
  <2> QED
    BY <2>2, <2>5 DEF TrainingKnows, KnowsAlone, KnowsClosed, KnowsEpochs, KnowsProgress,
       RecoveryPlaces
<1>13. CASE RecoverBest \/ RecoverLast \/ RecoverLog
  <2>1. StandsAt(RecoveryPlaces) /\ training \in Trainings /\ training.pc # "publish"
    BY <1>0, <1>13, HoldsDirectory
       DEF RecoverBest, RecoverLast, RecoverLog, TrainingAt, TrainingPlaces, RecoveryPlaces
  <2>2. /\ training'.pc \in {"recover last", "recover log", "publish"}
        /\ training'.then = training.then /\ training'.losses = training.losses
        /\ training'.prior = training.prior /\ training'.setup = training.setup
        /\ UNCHANGED <<epochJournal, experiment>>
    BY <1>13, <2>1 DEF RecoverBest, RecoverLast, RecoverLog, TrainingGoes, Trainings
  <2>3. KnowsRecovery'
    BY <1>0, <2>1, <2>2 DEF TrainingKnows, KnowsRecovery, IsPrior, RecoveryPlaces
  <2>4. KnowsProgress'
    <3>1. CASE RecoverBest
      BY <2>1, <2>2, <3>1 DEF RecoverBest, KnowsProgress, TrainingGoes, BestAfter, Trainings
    <3>2. CASE RecoverLast
      BY <1>0, <2>1, <2>2, <3>2
         DEF RecoverLast, TrainingKnows, KnowsProgress, TrainingGoes, TrainingAt, BestAfter,
             Trainings
    <3>3. CASE RecoverLog
      BY <1>0, <2>1, <2>2, <3>3
         DEF RecoverLog, RecoveredLog, TrainingKnows, KnowsProgress, TrainingGoes, TrainingAt,
             BestAfter, LogAfter, Trainings
    <3> QED BY <1>13, <3>1, <3>2, <3>3
  <2> QED
    BY <2>2, <2>3, <2>4 DEF TrainingKnows, KnowsAlone, KnowsClosed, KnowsEpochs, RecoveryPlaces
<1>14. CASE MarkPublished
  <2>1. StandsAt({"publish"}) /\ training \in Trainings
    BY <1>0, <1>14, HoldsDirectory DEF MarkPublished, TrainingAt, TrainingPlaces, RecoveryPlaces
  <2>2. epochJournal # NotThere /\ KnowsRecovery /\ KnowsProgress
    BY <1>0, <2>1 DEF TrainingKnows, KnowsRecovery, RecoveryPlaces
  <2>3. /\ epochJournal \in Journals /\ JournalIsTrue(epochJournal)
    BY <2>2, JournalStands
  <2>4. /\ epochJournal'.status = "published" /\ epochJournal' # NotThere
        /\ epochJournal'.checkpoint = epochJournal.checkpoint
        /\ epochJournal'.experimentAfter = epochJournal.experimentAfter
        /\ training'.then = training.then /\ training'.losses = training.losses
        /\ training'.prior = training.prior /\ training'.setup = training.setup
        /\ UNCHANGED <<last, log, experiment>>
    BY <1>14, <2>1, <2>3 DEF MarkPublished, TrainingGoes, Trainings, Journals, NotThere
  <2>5. /\ last = epochJournal.checkpoint /\ log = epochJournal.checkpoint.losses
        /\ last # NotThere
    BY <2>1, <2>2, <2>3, NothingIsNoFile DEF KnowsProgress, JournalIsTrue, Journals
  <2>6. CASE epochJournal.experimentAfter # NotThere
    <3>1. training'.pc = "recover experiment"
      BY <1>14, <2>1, <2>6 DEF MarkPublished, TrainingGoes, Trainings
    <3> QED
      BY <2>4, <2>6, <3>1 DEF TrainingKnows, KnowsAlone, KnowsClosed, KnowsEpochs,
         KnowsRecovery, KnowsProgress, RecoveryPlaces
  <2>7. CASE epochJournal.experimentAfter = NotThere
    <3>1. training'.pc = training.then /\ training.then \in {"opened", "epochs", "close"}
      BY <1>14, <2>1, <2>7 DEF MarkPublished, TrainingGoes, Trainings
    <3>2. AsPublished' BY <2>4, <2>7 DEF AsPublished
    <3>3. KnowsEpochs'
      BY <2>1, <2>2, <2>4, <2>5, <3>1, <3>2
         DEF KnowsEpochs, KnowsRecovery, IsPrior, KeepsSetup, RecoveryPlaces
    <3>4. KnowsRecovery'
      BY <2>1, <2>2, <2>4, <2>7, <3>1 DEF KnowsRecovery, IsPrior, RecoveryPlaces
    <3>5. training.then = "opened" => training'.losses = <<>>
      BY <2>1, <2>2, <2>4 DEF KnowsRecovery, RecoveryPlaces
    <3> QED
      BY <2>4, <3>1, <3>2, <3>3, <3>4, <3>5 DEF TrainingKnows, KnowsAlone, KnowsClosed,
         KnowsProgress, RecoveryPlaces
  <2> QED BY <2>6, <2>7
<1>15. CASE PrepareExperiment
  <2>1. StandsAt({"epochs"}) /\ training \in Trainings
    BY <1>0, <1>15, HoldsDirectory DEF PrepareExperiment, TrainingAt, TrainingPlaces
  <2>2. epochJournal \in Journals
    BY <1>0, <1>15 DEF PrepareExperiment, TrainingTypes
  <2>3. /\ training'.pc = "experiment"
        /\ epochJournal'.experimentAfter = ExperimentRecord
        /\ epochJournal'.kind = "journal"
    BY <1>15, <2>1, <2>2 DEF PrepareExperiment, TrainingGoes, Trainings, Journals
  <2>4. epochJournal' # NotThere /\ ExperimentRecord # NotThere
    BY <2>3 DEF NotThere, ExperimentRecord
  <2> QED
    BY <2>3, <2>4 DEF TrainingKnows, KnowsAlone, KnowsClosed, KnowsEpochs, KnowsRecovery,
       KnowsProgress, RecoveryPlaces
<1>16. CASE RecoverExperiment \/ WriteExperiment
  <2>1. StandsAt({"recover experiment", "experiment"}) /\ training \in Trainings
    BY <1>0, <1>16, HoldsDirectory
       DEF RecoverExperiment, WriteExperiment, TrainingAt, TrainingPlaces
  <2>2. /\ training'.pc = "finish" /\ experiment' = epochJournal.experimentAfter
        /\ UNCHANGED epochJournal
    BY <1>16, <2>1 DEF RecoverExperiment, WriteExperiment, TrainingGoes, Trainings
  <2>3. epochJournal # NotThere /\ epochJournal.experimentAfter # NotThere
    BY <1>0, <2>1 DEF TrainingKnows
  <2> QED
    BY <2>2, <2>3 DEF TrainingKnows, KnowsAlone, KnowsClosed, KnowsEpochs, KnowsRecovery,
       KnowsProgress, RecoveryPlaces
<1>17. CASE FinishEpochJournal
  <2>1. StandsAt({"finish"}) /\ training \in Trainings
    BY <1>0, <1>17, HoldsDirectory DEF FinishEpochJournal, TrainingAt, TrainingPlaces
  <2>2. epochJournal # NotThere /\ epochJournal.experimentAfter # NotThere
    BY <1>0, <2>1 DEF TrainingKnows
  <2>3. last = epochJournal.checkpoint BY <2>2, JournalStands DEF JournalIsTrue
  <2>4. /\ training'.pc = "finished" /\ training'.closed = epochJournal
        /\ epochJournal' = NotThere /\ UNCHANGED last
    BY <1>17, <2>1 DEF FinishEpochJournal, Trainings
  <2> QED
    BY <2>2, <2>3, <2>4 DEF TrainingKnows, KnowsAlone, KnowsClosed, KnowsEpochs,
       KnowsRecovery, KnowsProgress, RecoveryPlaces
<1>18. CASE TearLog BY <1>1, <1>18 DEF TearLog
<1>19. CASE UNCHANGED trainingVars
  BY <1>0, <1>19
     DEF trainingVars, directory, TrainingKnows, AsPublished, KnowsAlone, KnowsClosed,
         KnowsEpochs, KnowsRecovery, KnowsProgress, IsPrior, KeepsSetup, BestAfter, LogAfter,
         Trained
<1> QED
  BY <1>1, <1>2, <1>3, <1>4, <1>5, <1>6, <1>7, <1>8, <1>9, <1>10, <1>11, <1>12, <1>13, <1>14,
     <1>15, <1>16, <1>17, <1>18, <1>19
     DEF TrainingNext, Decline, ReturnRecovered, ReturnSummary, EndTraining, KillTraining

-----------------------------------------------------------------------------
(* The history                                                             *)

LEMMA HistoryStays ==
  ASSUME TrainingTypes
  PROVE  /\ UNCHANGED log => IsStartOf(log, log')
         /\ UNCHANGED last /\ last # NotThere =>
              last' # NotThere /\ last'.setup = last.setup /\ IsStartOf(last.losses, last'.losses)
         /\ UNCHANGED experiment /\ experiment # NotThere =>
              experiment' # NotThere /\ IsStartOf(experiment.executions, experiment'.executions)
<1>1. log \in Seq(Losses) BY DEF TrainingTypes
<1>2. last # NotThere => last.losses \in Seq(Losses)
  BY DEF TrainingTypes, Checkpoints, Histories
<1>3. experiment # NotThere => experiment.executions \in Seq(Executions)
  BY DEF TrainingTypes, Experiments
<1> QED BY <1>1, <1>2, <1>3 DEF IsStartOf

LEMMA HistoryKept ==
  ASSUME TrainingInvariant, [TrainingNext]_trainingVars
  PROVE  HistoryGrows
<1>0. TrainingTypes BY DEF TrainingInvariant
<1>1. CASE UNCHANGED <<last, log, experiment>> BY <1>0, <1>1, HistoryStays DEF HistoryGrows
<1>2. CASE RecoverLast \/ RecoverLog
  <2>1. training # NoTraining /\ training.pc \in RecoveryPlaces
    BY <1>0, <1>2, HoldsDirectory
       DEF RecoverLast, RecoverLog, TrainingAt, TrainingPlaces, RecoveryPlaces
  <2>2. epochJournal # NotThere BY <2>1 DEF TrainingInvariant, TrainingKnows, KnowsRecovery
  <2>3. epochJournal \in Journals /\ JournalIsTrue(epochJournal) /\ EpochIsRecoverable
    BY <2>2, JournalStands
  <2>4. PICK x \in Losses : LogAfter(epochJournal) = Append(epochJournal.logBefore, x)
    BY <2>3, JournalTells
  <2>5. IsStartOf(epochJournal.logBefore, LogAfter(epochJournal))
    BY <2>3, <2>4, StartOfAppend DEF Journals
  <2>6. CASE RecoverLast
    <3>1. last' = epochJournal.checkpoint /\ UNCHANGED <<log, experiment>>
      BY <2>6 DEF RecoverLast
    <3>2. last' # NotThere /\ last'.losses = LogAfter(epochJournal)
      BY <2>3, <3>1, NothingIsNoFile DEF Journals, JournalIsTrue
    <3>3. last \in {epochJournal.lastBefore, epochJournal.checkpoint}
      BY <2>2, <2>3 DEF EpochIsRecoverable, CanMove
    <3>4. CASE last = epochJournal.checkpoint
      BY <1>1, <3>1, <3>4
    <3>5. CASE last = epochJournal.lastBefore
      <4>1. last # NotThere =>
              last.setup = epochJournal.checkpoint.setup /\ last.losses = epochJournal.logBefore
        BY <2>3, <3>5, JournalTells
      <4>2. last # NotThere =>
              last' # NotThere /\ last'.setup = last.setup /\ IsStartOf(last.losses, last'.losses)
        BY <2>5, <3>1, <3>2, <4>1
      <4> QED BY <1>0, <3>1, <4>2, HistoryStays DEF HistoryGrows
    <3> QED BY <3>3, <3>4, <3>5
  <2>7. CASE RecoverLog
    <3>1. log' = LogAfter(epochJournal) /\ UNCHANGED <<last, experiment>>
      BY <2>7 DEF RecoverLog, RecoveredLog
    <3>2. log \in {epochJournal.logBefore, LogAfter(epochJournal)}
      BY <2>2, <2>3 DEF EpochIsRecoverable, CanMove
    <3>3. IsStartOf(log, log') BY <1>0, <2>5, <3>1, <3>2, HistoryStays
    <3> QED BY <1>0, <3>1, <3>3, HistoryStays DEF HistoryGrows
  <2> QED BY <1>2, <2>6, <2>7
<1>3. CASE RecoverExperiment \/ WriteExperiment
  <2>1. training # NoTraining /\ training.pc \in {"recover experiment", "experiment"}
    BY <1>0, <1>3, HoldsDirectory
       DEF RecoverExperiment, WriteExperiment, TrainingAt, TrainingPlaces
  <2>2. epochJournal # NotThere /\ epochJournal.experimentAfter # NotThere
    BY <2>1 DEF TrainingInvariant, TrainingKnows
  <2>3. JournalIsTrue(epochJournal) /\ EpochIsRecoverable BY <2>2, JournalStands
  <2>4. experiment' = epochJournal.experimentAfter /\ UNCHANGED <<last, log>>
    BY <1>3 DEF RecoverExperiment, WriteExperiment
  <2>5. experiment \in {epochJournal.experimentBefore, epochJournal.experimentAfter}
    BY <2>2, <2>3 DEF EpochIsRecoverable
  <2>6. experiment # NotThere =>
          experiment' # NotThere /\ IsStartOf(experiment.executions, experiment'.executions)
    BY <1>0, <2>2, <2>3, <2>4, <2>5, HistoryStays DEF JournalIsTrue
  <2> QED BY <1>0, <2>4, <2>6, HistoryStays DEF HistoryGrows
<1> QED
  BY <1>1, <1>2, <1>3
     DEF TrainingNext, trainingVars, directory, Decline, ReturnRecovered, ReturnSummary,
         EndTraining, StartTraining, StartsAnew, Resumes, Refuse, BeginEpochs, Train,
         KillTraining, ClosePrior, CloseFirst, DropClosed, SaveGeneration, WriteEpochJournal,
         RecoverBest, MarkPublished, PrepareExperiment, FinishEpochJournal, TearLog

\* However often trainings are killed, resumed or torn in their log, for any
\* configurations, datasets, runtimes, losses and numbers of epochs: the journal
\* can be carried through, without one the files tell one history, and what was
\* published stays.  Whether a resume takes these files up is not claimed.
THEOREM TrainingHistory == TrainingSpec => TrainingLosesNothing
<1>1. TrainingInit => TrainingInvariant
  <2> SUFFICES ASSUME TrainingInit PROVE TrainingInvariant OBVIOUS
  <2>1. TrainingTypes BY TypesAtStart
  <2>2. epochJournal = NotThere /\ training = NoTraining BY DEF TrainingInit
  <2>3. FilesAgree BY DEF TrainingInit, FilesAgree, TellOneHistory, LeftOver
  <2> QED
    BY <2>1, <2>2, <2>3 DEF TrainingInvariant, JournalHolds, EpochIsRecoverable, TrainingKnows
<1>2. TrainingInvariant /\ [TrainingNext]_trainingVars => TrainingInvariant'
  BY TypesKept, JournalKept, FilesKept, KnowsKept DEF TrainingInvariant
<1>3. TrainingInvariant => EpochIsRecoverable /\ FilesAgree BY DEF TrainingInvariant
<1>4. TrainingInvariant /\ [TrainingNext]_trainingVars => [HistoryGrows]_trainingVars
  BY HistoryKept
<1> QED BY <1>1, <1>2, <1>3, <1>4, PTL DEF TrainingSpec, TrainingLosesNothing
=============================================================================

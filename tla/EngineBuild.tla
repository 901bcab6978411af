---------------------------- MODULE EngineBuild ----------------------------
(***************************************************************************)
(* The builds of the native engine and their receipts                      *)
(* (selfplay/engine_receipt.py, labeling/execution.py): the sources are    *)
(* the blobs of a commit, the tools are hashed, copied into a sealed       *)
(* private tree and run from there, and binary and receipt are published   *)
(* under their own digests before the pointer is moved.  Builders hold the *)
(* lock of local/build-receipts; HEAD, the work tree, the toolchain, the   *)
(* crate cache and the private copies may change at any moment, and a      *)
(* builder may be killed anywhere.                                         *)
(***************************************************************************)
EXTENDS Naturals, FiniteSets

CONSTANTS
    BuildCommits,
    SourceOf,       \* the tree of build inputs of a commit
    Takes,          \* outcomes of a build that differ in their bytes
    MaxCopies,      \* _MAX_RETIRED_ENTRIES
    MaxWorkMoves,   \* bound: changes of HEAD, the work tree and the cache
    MaxUpgrades,    \* bound: tools replaced, private copies touched
    MaxBuilderKills \* bound: builders killed

Tools == {"cargo", "rustc", "runtime"}
Exact == {"cargo", "rustc"}
CacheParts == {"index", "archives"}
NoTools == [t \in Tools |-> 0]
NoBuild == [source |-> 0, tools |-> NoTools, take |-> 0]
NoBuildReceipt == [commit |-> 0, source |-> 0, tools |-> NoTools, binary |-> NoBuild]
Resting == [pc |-> "idle"]

VARIABLES
    buildHead, clean, \* the repository
    tool,             \* revision of each file of the pinned toolchain
    cached,           \* the parts of the crate cache that hold what Cargo.lock names
    engines,          \* local/builds/open-shogi-cli/<sha256>
    copies,           \* quarantined copies beside each of them
    alias,            \* target/release/open-shogi-cli
    buildReceipts,    \* local/build-receipts/open-shogi-cli/<sha256>.json
    pointer,          \* open-shogi-cli.pointer.json
    builder, resolver,
    workMoves, upgrades, builderKills

repository == <<buildHead, clean, tool, cached>>
publishedBuilds == <<engines, copies, alias, buildReceipts, pointer>>
buildCounts == <<workMoves, upgrades, builderKills>>
buildVars == <<repository, publishedBuilds, builder, resolver, buildCounts>>

BuildInit ==
    /\ buildHead \in BuildCommits
    /\ clean = TRUE
    /\ tool = [t \in Tools |-> 1]
    /\ cached = CacheParts
    /\ engines = {}
    /\ copies = [s \in {} |-> 0]
    /\ alias = NoBuild
    /\ buildReceipts = {}
    /\ pointer = NoBuildReceipt
    /\ builder = Resting
    /\ resolver = Resting
    /\ workMoves = 0
    /\ upgrades = 0
    /\ builderKills = 0

BuilderAt(pc) == builder.pc = pc
BuilderGoes(pc) == builder' = [builder EXCEPT !.pc = pc]
BuilderEnds == builder' = Resting
Copies(b) == IF b \in DOMAIN copies THEN copies[b] ELSE 0
-----------------------------------------------------------------------------
(* create_engine_build_receipt                                             *)

IsCleanHead(c) == buildHead = c /\ clean
\* The blobs of the commit, whatever the work tree holds.
Sources(c) == SourceOf[c]
\* The lock is taken by one builder.
BeginBuild(c) ==
    /\ BuilderAt("idle")
    /\ IsCleanHead(c)
    /\ builder' = [pc |-> "cargo", commit |-> c, source |-> Sources(c), tools |-> NoTools,
                   private |-> NoTools, touched |-> FALSE, built |-> NoBuild]
    /\ UNCHANGED <<repository, publishedBuilds, resolver, buildCounts>>
Hash(t, next) ==
    /\ builder' = [builder EXCEPT !.tools[t] = tool[t], !.pc = next]
    /\ UNCHANGED <<repository, publishedBuilds, resolver, buildCounts>>
IsAsRecorded(t) == tool[t] = builder.tools[t]
HashCargo == BuilderAt("cargo") /\ Hash("cargo", "ask")
\* cargo --version runs from a sealed copy; the original is hashed again.
AskCargo ==
    /\ BuilderAt("ask")
    /\ IF IsAsRecorded("cargo") THEN BuilderGoes("rustc") ELSE BuilderEnds
    /\ UNCHANGED <<repository, publishedBuilds, resolver, buildCounts>>
HashRustc == BuilderAt("rustc") /\ Hash("rustc", "runtime")
IdentifyRuntime == BuilderAt("runtime") /\ Hash("runtime", "version")
\* rustc --version runs from a private tree of the files that were hashed.
AskVersion ==
    /\ BuilderAt("version")
    /\ IF IsAsRecorded("rustc") /\ IsAsRecorded("runtime")
       THEN BuilderGoes("reuse") ELSE BuilderEnds
    /\ UNCHANGED <<repository, publishedBuilds, resolver, buildCounts>>
\* An old commit's pointer is a miss; the current one's is valid or an error.
ReuseBuild ==
    /\ BuilderAt("reuse")
    /\ IF pointer.commit = builder.commit /\ (~IsCleanHead(builder.commit)
                                              \/ pointer.tools = builder.tools)
       THEN BuilderEnds
       ELSE BuilderGoes("seed")
    /\ UNCHANGED <<repository, publishedBuilds, resolver, buildCounts>>
\* An index line or an archive other than the lock's is refused.
IndexHolds == "index" \in cached
ArchivesHold == "archives" \in cached
SeedCache ==
    /\ BuilderAt("seed")
    /\ IF IndexHolds /\ ArchivesHold /\ \A t \in Exact : IsAsRecorded(t)
       THEN BuilderGoes("copy") ELSE BuilderEnds
    /\ UNCHANGED <<repository, publishedBuilds, resolver, buildCounts>>
\* The runtime files, then cargo and rustc.
IsNext(t) ==
    /\ builder.private[t] = 0
    /\ t = "cargo" => builder.private["runtime"] # 0
    /\ t = "rustc" => builder.private["cargo"] # 0
Copied(t) == [builder EXCEPT !.private[t] = tool[t]]
\* Bug: what is copied is not held against the digest that was recorded.
CopyTool_Unpinned(t) ==
    /\ BuilderAt("copy")
    /\ IsNext(t)
    /\ builder' = Copied(t)
    /\ UNCHANGED <<repository, publishedBuilds, resolver, buildCounts>>
CopyTool(t) ==
    /\ BuilderAt("copy")
    /\ IsNext(t)
    /\ IF IsAsRecorded(t) THEN builder' = Copied(t) ELSE BuilderEnds
    /\ UNCHANGED <<repository, publishedBuilds, resolver, buildCounts>>
\* RuntimeTreeSnapshot.assert_unchanged
IsSealed == ~builder.touched
Seal ==
    /\ BuilderAt("copy")
    /\ \A t \in Tools : builder.private[t] # 0
    /\ IF IsSealed THEN BuilderGoes("launch") ELSE BuilderEnds
    /\ UNCHANGED <<repository, publishedBuilds, resolver, buildCounts>>
LaunchBuild ==
    /\ BuilderAt("launch")
    /\ IF IsSealed THEN BuilderGoes("build") ELSE BuilderEnds
    /\ UNCHANGED <<repository, publishedBuilds, resolver, buildCounts>>
\* cargo may fail or exceed its time, output or memory.
RunBuild ==
    /\ BuilderAt("build")
    /\ \/ \E k \in Takes :
            builder' = [builder EXCEPT !.pc = "after", !.built =
                [source |-> builder.source, tools |-> builder.private, take |-> k]]
       \/ BuilderEnds
    /\ UNCHANGED <<repository, publishedBuilds, resolver, buildCounts>>
AssertAfter ==
    /\ BuilderAt("after")
    /\ IF IsSealed /\ \A t \in Exact : IsAsRecorded(t) THEN BuilderGoes("publish") ELSE BuilderEnds
    /\ UNCHANGED <<repository, publishedBuilds, resolver, buildCounts>>
\* The same bytes may be there already: the new copy is kept in quarantine.
PublishEngine ==
    LET b == builder.built
    IN  /\ BuilderAt("publish")
        /\ IF Copies(b) >= MaxCopies
           THEN BuilderEnds /\ UNCHANGED <<engines, copies>>
           ELSE /\ BuilderGoes("alias")
                /\ engines' = engines \cup {b}
                /\ copies' = [s \in engines' |->
                                IF s = b /\ b \in engines THEN Copies(s) + 1 ELSE Copies(s)]
        /\ UNCHANGED <<repository, alias, buildReceipts, pointer, resolver, buildCounts>>
PublishAlias ==
    /\ BuilderAt("alias")
    /\ alias' = builder.built
    /\ BuilderGoes("head")
    /\ UNCHANGED <<repository, engines, copies, buildReceipts, pointer, resolver, buildCounts>>
RecheckHead ==
    /\ BuilderAt("head")
    /\ IF IsCleanHead(builder.commit) THEN BuilderGoes("receipt") ELSE BuilderEnds
    /\ UNCHANGED <<repository, publishedBuilds, resolver, buildCounts>>
Receipt == [commit |-> builder.commit, source |-> builder.source, tools |-> builder.tools,
            binary |-> builder.built]
WriteReceipt ==
    /\ BuilderAt("receipt")
    /\ buildReceipts' = buildReceipts \cup {Receipt}
    /\ BuilderGoes("validate")
    /\ UNCHANGED <<repository, engines, copies, alias, pointer, resolver, buildCounts>>
\* validate_engine_build_receipt: the document, its place, HEAD and its tree.
IsDocument(r) == r # NoBuildReceipt /\ r \in buildReceipts /\ r.binary \in engines
BuildIsAuthorized(r) == IsDocument(r) /\ IsCleanHead(r.commit) /\ r.source = Sources(r.commit)
ValidateReceipt ==
    /\ BuilderAt("validate")
    /\ IF BuildIsAuthorized(Receipt) THEN BuilderGoes("point") ELSE BuilderEnds
    /\ UNCHANGED <<repository, publishedBuilds, resolver, buildCounts>>
MovePointer ==
    /\ BuilderAt("point")
    /\ pointer' = Receipt
    /\ BuilderEnds
    /\ UNCHANGED <<repository, engines, copies, alias, buildReceipts, resolver, buildCounts>>
KillBuilder ==
    /\ ~BuilderAt("idle")
    /\ builderKills < MaxBuilderKills
    /\ builderKills' = builderKills + 1
    /\ BuilderEnds
    /\ UNCHANGED <<repository, publishedBuilds, resolver, workMoves, upgrades>>
-----------------------------------------------------------------------------
(* resolve_active_engine_build                                             *)

ReadPointer ==
    /\ resolver = Resting
    /\ pointer # NoBuildReceipt
    /\ resolver' = [pc |-> "resolve", receipt |-> pointer]
    /\ UNCHANGED <<repository, publishedBuilds, builder, buildCounts>>
Resolve ==
    /\ resolver.pc = "resolve"
    /\ resolver' = IF BuildIsAuthorized(resolver.receipt)
                   THEN [resolver EXCEPT !.pc = "resolved"] ELSE Resting
    /\ UNCHANGED <<repository, publishedBuilds, builder, buildCounts>>
Release ==
    /\ resolver.pc = "resolved"
    /\ resolver' = Resting
    /\ UNCHANGED <<repository, publishedBuilds, builder, buildCounts>>
-----------------------------------------------------------------------------
Move ==
    /\ workMoves < MaxWorkMoves
    /\ workMoves' = workMoves + 1
    /\ UNCHANGED <<tool, publishedBuilds, builder, resolver, upgrades, builderKills>>
CheckoutCommit(c) == c # buildHead /\ Move /\ buildHead' = c /\ UNCHANGED <<clean, cached>>
EditWorkTree == Move /\ clean' = ~clean /\ UNCHANGED <<buildHead, cached>>
ChangeCache(p) == Move /\ cached' = cached \ {p} /\ UNCHANGED <<buildHead, clean>>
UpgradeTool(t) ==
    /\ upgrades < MaxUpgrades
    /\ upgrades' = upgrades + 1
    /\ tool' = [tool EXCEPT ![t] = @ + 1]
    /\ UNCHANGED <<buildHead, clean, cached, publishedBuilds, builder, resolver>>
    /\ UNCHANGED <<workMoves, builderKills>>
\* A process of the same user clears the seal and rewrites a private copy.
TouchPrivate(t) ==
    /\ builder.pc \in {"copy", "launch", "build"}
    /\ builder.private[t] # 0
    /\ upgrades < MaxUpgrades
    /\ upgrades' = upgrades + 1
    /\ builder' = [builder EXCEPT !.private[t] = @ + 10, !.touched = TRUE]
    /\ UNCHANGED <<repository, publishedBuilds, resolver, workMoves, builderKills>>

BuildNext ==
    \/ \E c \in BuildCommits : BeginBuild(c) \/ CheckoutCommit(c)
    \/ HashCargo \/ AskCargo \/ HashRustc \/ IdentifyRuntime \/ AskVersion
    \/ ReuseBuild \/ SeedCache
    \/ \E t \in Tools : CopyTool(t) \/ UpgradeTool(t) \/ TouchPrivate(t)
    \/ Seal \/ LaunchBuild \/ RunBuild \/ AssertAfter
    \/ PublishEngine \/ PublishAlias \/ RecheckHead
    \/ WriteReceipt \/ ValidateReceipt \/ MovePointer \/ KillBuilder
    \/ ReadPointer \/ Resolve \/ Release
    \/ EditWorkTree \/ (\E p \in CacheParts : ChangeCache(p))
BuildSpec == BuildInit /\ [][BuildNext]_buildVars
-----------------------------------------------------------------------------
(* A receipt names the bytes that the sources of its commit gave under the *)
(* very tools it records, although HEAD, the toolchain and the private     *)
(* copies may have changed while it was built, and what the pointer names  *)
(* is always there for the resolver, which hands out nothing else.         *)
ReceiptsAreTrue ==
    /\ \A r \in buildReceipts :
        /\ r.binary \in engines
        /\ r.binary.source = SourceOf[r.commit]
        /\ r.binary.tools = r.tools
    /\ pointer = NoBuildReceipt \/ pointer \in buildReceipts
    /\ resolver.pc = "resolved" => resolver.receipt \in buildReceipts
=============================================================================

-------------------------- MODULE ArtifactDownload --------------------------
(***************************************************************************)
(* The acquisition of one large dataset archive                            *)
(* (data/phase10r_acquisition.py): appended to a .part file with a         *)
(* checkpoint of the server's validators beside it, verified, and renamed. *)
(* The process may be killed between any two of its writes; the server may *)
(* ignore the range, answer it with a part of another entity, or announce  *)
(* no length.                                                              *)
(***************************************************************************)
EXTENDS Naturals, Sequences

CONSTANTS
    Versions,   \* entities the server has had: their validators
    Length,     \* chunks of an entity
    MaxKills,   \* bound: processes killed
    MaxChanges  \* bound: entities replaced on the server

NoFile == <<0>>
None == 0

VARIABLES
    remote,      \* the entity on the server
    pinned,      \* the entity whose SHA-256 the registry pins, or None
    sized,       \* the registry knows the size
    part,        \* chunks of the .part file, or NoFile
    checkpoint,  \* the validator in its .json, or None
    temporary,   \* a .json.tmp is there
    destination, \* chunks of the verified object, or NoFile
    listed,      \* the manifest lists it
    fetch,       \* what the process is at
    measured,    \* history: a length was known when the object was verified
    spliced,     \* history: a range was answered with another entity's
    deaths, replacements

partFiles == <<part, checkpoint, temporary, destination, listed>>
registry == <<pinned, sized>>
histories == <<measured, spliced>>
artifactVars == <<remote, registry, partFiles, fetch, histories, deaths, replacements>>

Idle == [pc |-> "idle"]
Genuine(v) == [n \in 1..Length |-> v]

ArtifactInit ==
    /\ remote \in Versions
    /\ pinned \in Versions \cup {None}
    /\ sized \in BOOLEAN
    /\ part = NoFile
    /\ checkpoint = None
    /\ temporary = FALSE
    /\ destination = NoFile
    /\ listed = FALSE
    /\ fetch = Idle
    /\ measured = FALSE
    /\ spliced = FALSE
    /\ deaths = 0
    /\ replacements = 0

At(pc) == fetch.pc = pc
Goto(pc) == fetch' = [fetch EXCEPT !.pc = pc]
Exists(file) == file # NoFile
\* A .part of no bytes counts as none.
ExistingBytes == IF Exists(part) THEN Len(part) ELSE 0
IsPinned(content) == pinned = None \/ content = Genuine(pinned)
-----------------------------------------------------------------------------
(* acquire_artifact                                                        *)

\* An object that is there is verified again, and nothing is asked for.
AcquireArtifact ==
    /\ At("idle")
    /\ ~Exists(destination)
    /\ ExistingBytes > 0 => checkpoint # None
    /\ fetch' = [pc |-> "request", offset |-> ExistingBytes]
    /\ UNCHANGED <<remote, registry, partFiles, histories, deaths, replacements>>
\* URLError, timeout; and the 416 for a range that starts at the end.
FailRequest ==
    /\ At("request")
    /\ fetch' = Idle
    /\ UNCHANGED <<remote, registry, partFiles, histories, deaths, replacements>>
\* A length is known if it is announced or the registry has it.
Answered(pc, offset) ==
    \E announced \in BOOLEAN :
        fetch' = [pc |-> pc, offset |-> offset, entity |-> remote, known |-> announced \/ sized]
\* 206: its validator is not compared with that of the part.
AnswerRange ==
    /\ At("request")
    /\ fetch.offset \in 1..(Length - 1)
    /\ Answered("checkpoint", fetch.offset)
    /\ spliced' = (spliced \/ checkpoint # remote)
    /\ UNCHANGED <<remote, registry, partFiles, measured, deaths, replacements>>
\* 200 although a range was asked for: the old part is put aside.
AnswerWhole ==
    /\ At("request")
    /\ part' = IF fetch.offset > 0 THEN NoFile ELSE part
    /\ Answered(IF fetch.offset > 0 THEN "stale" ELSE "checkpoint", 0)
    /\ UNCHANGED <<remote, registry, checkpoint, temporary, destination, listed, histories,
                   deaths, replacements>>
RetireCheckpoint ==
    /\ At("stale")
    /\ checkpoint' = None
    /\ Goto("checkpoint")
    /\ UNCHANGED <<remote, registry, part, temporary, destination, listed, histories,
                   deaths, replacements>>
-----------------------------------------------------------------------------
(* _write_json: a temporary file that must not be there, then a rename     *)

WriteTemporary(pc) ==
    /\ At(pc)
    /\ IF temporary
       THEN fetch' = Idle /\ UNCHANGED temporary
       ELSE Goto(IF pc = "checkpoint" THEN "rename" ELSE "rename again") /\ temporary' = TRUE
    /\ UNCHANGED <<remote, registry, part, checkpoint, destination, listed, histories,
                   deaths, replacements>>
RenameTemporary(pc, next) ==
    /\ At(pc)
    /\ temporary' = FALSE
    /\ checkpoint' = fetch.entity
    /\ Goto(next)
    /\ UNCHANGED <<remote, registry, part, destination, listed, histories, deaths, replacements>>
-----------------------------------------------------------------------------
\* "ab" when there is something to append to, "xb" otherwise.
OpenPart ==
    /\ At("open")
    /\ IF fetch.offset = 0 /\ Exists(part)
       THEN fetch' = Idle /\ UNCHANGED part
       ELSE /\ part' = IF fetch.offset = 0 THEN <<>> ELSE part
            /\ fetch' = [pc |-> "body", entity |-> fetch.entity, known |-> fetch.known]
    /\ UNCHANGED <<remote, registry, checkpoint, temporary, destination, listed, histories,
                   deaths, replacements>>
Receive ==
    /\ At("body")
    /\ Len(part) < Length
    /\ part' = Append(part, fetch.entity)
    /\ UNCHANGED <<remote, registry, checkpoint, temporary, destination, listed, fetch,
                   histories, deaths, replacements>>
\* The connection ends, early or not, in silence.
EndOfBody ==
    /\ At("body")
    /\ Goto("checkpoint again")
    /\ UNCHANGED <<remote, registry, partFiles, histories, deaths, replacements>>
\* The read times out, or the free space falls below the floor.
Interrupt ==
    /\ At("body")
    /\ fetch' = Idle
    /\ UNCHANGED <<remote, registry, partFiles, histories, deaths, replacements>>
\* What nobody told the length of is not measured.
IsVerified(content) == (fetch.known => Len(content) = Length) /\ IsPinned(content)
Verify ==
    /\ At("verify")
    /\ IF IsVerified(part) /\ ~Exists(destination) THEN Goto("publish") ELSE fetch' = Idle
    /\ UNCHANGED <<remote, registry, partFiles, histories, deaths, replacements>>
Publish ==
    /\ At("publish")
    /\ destination' = part
    /\ part' = NoFile
    /\ measured' = fetch.known
    /\ Goto("clean")
    /\ UNCHANGED <<remote, registry, checkpoint, temporary, listed, spliced, deaths, replacements>>
RemoveCheckpoint ==
    /\ At("clean")
    /\ checkpoint' = None
    /\ Goto("list")
    /\ UNCHANGED <<remote, registry, part, temporary, destination, listed, histories,
                   deaths, replacements>>
AppendManifest ==
    /\ At("list")
    /\ listed' = TRUE
    /\ fetch' = Idle
    /\ UNCHANGED <<remote, registry, part, checkpoint, temporary, destination, histories,
                   deaths, replacements>>
-----------------------------------------------------------------------------
Kill ==
    /\ fetch # Idle
    /\ deaths < MaxKills
    /\ deaths' = deaths + 1
    /\ fetch' = Idle
    /\ UNCHANGED <<remote, registry, partFiles, histories, replacements>>
ReplaceEntity ==
    /\ replacements < MaxChanges
    /\ replacements' = replacements + 1
    /\ remote' \in Versions \ {remote}
    /\ UNCHANGED <<registry, partFiles, fetch, histories, deaths>>

ArtifactNext ==
    \/ AcquireArtifact
    \/ FailRequest \/ AnswerRange \/ AnswerWhole \/ RetireCheckpoint
    \/ WriteTemporary("checkpoint") \/ RenameTemporary("rename", "open")
    \/ OpenPart \/ Receive \/ EndOfBody \/ Interrupt
    \/ WriteTemporary("checkpoint again") \/ RenameTemporary("rename again", "verify")
    \/ Verify \/ Publish \/ RemoveCheckpoint \/ AppendManifest
    \/ Kill \/ ReplaceEntity
ArtifactSpec == ArtifactInit /\ [][ArtifactNext]_artifactVars
-----------------------------------------------------------------------------
(* However many parts, kills and entities it took, what is published is    *)
(* the pinned entity when a hash is pinned; all of an entity's length when *)
(* a length was known; and of one entity, by the order in which part and   *)
(* checkpoint are put aside, unless a server answered a range with that of *)
(* another, which nothing but a pinned hash would tell.                    *)
IsOneEntity(content) == \A a, b \in 1..Len(content) : content[a] = content[b]
VerifiedIsGenuine ==
    Exists(destination) =>
        /\ IsPinned(destination)
        /\ measured => Len(destination) = Length
        /\ ~spliced => IsOneEntity(destination)
=============================================================================

-------------------------- MODULE AtomicArtifacts --------------------------
(***************************************************************************)
(* How the tooling puts a file at its path (labeling/artifacts.py and      *)
(* selfplay/common.py): the bytes go to a temporary entry of the same      *)
(* directory, which is renamed to a free path or exchanged with the file   *)
(* that is there.  What comes out of an exchange is compared with what was *)
(* found before; it is disposed of through a quarantine, or put back.      *)
(* Writers hold the lock of the directory, when their caller takes it;     *)
(* other programs take none and rename over the path or write into the     *)
(* file.  A writer may be killed anywhere.                                 *)
(***************************************************************************)
EXTENDS Naturals, Sequences, FiniteSets

CONSTANTS
    Writers,    \* processes that write to the path
    Replacers,  \* those that replace (write_json_atomic(replace=True), replace_json_state)
    Forgetters, \* those that keep the status of the empty file (selfplay/common.py)
    Locked,     \* writers hold stable_directory_lock
    MaxRetired, \* _MAX_RETIRED_ENTRIES
    MaxFiles,   \* bound: files made
    MaxWrites,  \* bound: writes into a file that is there
    MaxKills    \* bound: writers killed

ASSUME ArtifactAssumption == MaxRetired \in Nat /\ MaxFiles \in Nat

NoFile == 0
Files == 1..MaxFiles
Unused == [pc |-> "idle"]

VARIABLES
    entry,    \* the file at the path
    temporary,\* the entry .name.<random> of each writer
    litter,   \* files under the temporary names of earlier writes
    retired,  \* files in the quarantine .open-shogi-retired
    disposed, \* files unlinked by a writer
    made,     \* files made
    stamp,    \* size, mtime, ctime and bytes of each file: how often written
    writer,   \* each writer: pc, own file, the file it found
    reports,  \* of each write that ended: its file, what it found, whether it raised
    line,     \* the files that were at the path, in order
    reader,
    writes, kills  \* how many there were

counts == <<writes, kills>>
fileVars == <<entry, temporary, litter, retired, disposed, made, stamp, line>>
artifactVars == <<fileVars, writer, reports, reader, counts>>

ArtifactInit ==
    /\ entry = NoFile
    /\ temporary = [w \in Writers |-> NoFile]
    /\ litter = {}
    /\ retired = {}
    /\ disposed = {}
    /\ made = 0
    /\ stamp = [f \in Files |-> 0]
    /\ writer = [w \in Writers |-> Unused]
    /\ reports = {}
    /\ line = <<>>
    /\ reader = Unused
    /\ writes = 0
    /\ kills = 0

WriterAt(w, pc) == writer[w].pc = pc
WriterGoes(w, pc) == writer' = [writer EXCEPT ![w].pc = pc]
Own(w) == writer[w].own
IsFull == Cardinality(retired) >= MaxRetired
Show(f) == entry' = f /\ line' = Append(line, f)
-----------------------------------------------------------------------------
(* write_json_atomic, replace_json_state, _write_new                       *)

\* stable_directory_lock
MayEnter(w) == Locked => \A v \in Writers : WriterAt(v, "idle")
WriteTemporary(w) ==
    /\ WriterAt(w, "idle")
    /\ MayEnter(w)
    /\ made < MaxFiles
    /\ made' = made + 1
    /\ temporary' = [temporary EXCEPT ![w] = made + 1]
    /\ writer' = [writer EXCEPT ![w] = [pc |-> "publish", own |-> made + 1, found |-> NoFile,
                                        old |-> NoFile, seen |-> 0]]
    /\ UNCHANGED <<entry, litter, retired, disposed, stamp, line, reports, reader, counts>>
\* publish_regular_at: the quarantine is measured before anything moves.
Find(w) ==
    /\ WriterAt(w, "publish")
    /\ writer' = [writer EXCEPT ![w].found = entry,
                                ![w].pc = IF IsFull THEN "fail"
                                          ELSE IF w \in Replacers /\ entry # NoFile
                                               THEN "exchange" ELSE "rename"]
    /\ UNCHANGED <<fileVars, reports, reader, counts>>
RenameNoReplace(w) ==
    /\ WriterAt(w, "rename")
    /\ IF entry = NoFile
       THEN /\ Show(temporary[w])
            /\ temporary' = [temporary EXCEPT ![w] = NoFile]
            /\ WriterGoes(w, "verify")
       ELSE WriterGoes(w, "fail") /\ UNCHANGED <<entry, line, temporary>>
    /\ UNCHANGED <<litter, retired, disposed, made, stamp, reports, reader, counts>>
Swap(w) ==
    /\ Show(temporary[w])
    /\ temporary' = [temporary EXCEPT ![w] = entry]
Exchange(w) ==
    /\ WriterAt(w, "exchange")
    /\ Swap(w)
    /\ WriterGoes(w, "compare")
    /\ UNCHANGED <<litter, retired, disposed, made, stamp, reports, reader, counts>>
\* Bug: what came out of the exchange is not looked at.
IsExchanged_Unchecked(w) == entry = Own(w)
IsExchanged(w) == entry = Own(w) /\ temporary[w] = writer[w].found
CompareFound(w) ==
    /\ WriterAt(w, "compare")
    /\ WriterGoes(w, IF IsExchanged(w) THEN "retire" ELSE "undo")
    /\ UNCHANGED <<fileVars, reports, reader, counts>>
Undo(w) ==
    /\ WriterAt(w, "undo")
    /\ Swap(w)
    /\ WriterGoes(w, "fail")
    /\ UNCHANGED <<litter, retired, disposed, made, stamp, reports, reader, counts>>
\* _retire_bound_entry of the predecessor
RetirePredecessor(w) ==
    /\ WriterAt(w, "retire")
    /\ IF IsFull
       THEN WriterGoes(w, "fail") /\ UNCHANGED <<temporary, retired>>
       ELSE /\ retired' = retired \cup {temporary[w]}
            /\ temporary' = [temporary EXCEPT ![w] = NoFile]
            /\ writer' = [writer EXCEPT ![w].pc = "dispose", ![w].old = temporary[w],
                                        ![w].seen = stamp[temporary[w]]]
    /\ UNCHANGED <<entry, litter, disposed, made, stamp, line, reports, reader, counts>>
Dispose(w) ==
    LET f == writer[w].old
    IN  /\ WriterAt(w, "dispose")
        /\ IF stamp[f] = writer[w].seen
           THEN /\ retired' = retired \ {f}
                /\ disposed' = disposed \cup {f}
                /\ WriterGoes(w, "verify")
           ELSE WriterGoes(w, "fail") /\ UNCHANGED <<retired, disposed>>
        /\ UNCHANGED <<entry, temporary, litter, made, stamp, line, reports, reader, counts>>
End(w, raised) ==
    /\ reports' = reports \cup {[file |-> Own(w), found |-> writer[w].found, raised |-> raised]}
    /\ writer' = [writer EXCEPT ![w] = Unused]
\* _assert_published_descriptor, _assert_published_bytes
VerifyPublished(w) ==
    /\ WriterAt(w, "verify")
    /\ End(w, entry # Own(w) \/ stamp[Own(w)] # 0)
    /\ UNCHANGED <<fileVars, reader, counts>>
\* _retire_bound_entry of the own temporary file, kept for recovery.
IsOwn(w) == temporary[w] = Own(w) /\ w \notin Forgetters
Fail(w) ==
    /\ WriterAt(w, "fail")
    /\ IF IsOwn(w) /\ ~IsFull
       THEN retired' = retired \cup {Own(w)} /\ UNCHANGED litter
       ELSE litter' = litter \cup ({temporary[w]} \ {NoFile}) /\ UNCHANGED retired
    /\ temporary' = [temporary EXCEPT ![w] = NoFile]
    /\ End(w, TRUE)
    /\ UNCHANGED <<entry, disposed, made, stamp, line, reader, counts>>
KillWriter(w) ==
    /\ ~WriterAt(w, "idle")
    /\ kills < MaxKills
    /\ kills' = kills + 1
    /\ litter' = litter \cup ({temporary[w]} \ {NoFile})
    /\ temporary' = [temporary EXCEPT ![w] = NoFile]
    /\ writer' = [writer EXCEPT ![w] = Unused]
    /\ UNCHANGED <<entry, retired, disposed, made, stamp, line, reports, reader,
                   writes>>
-----------------------------------------------------------------------------
(* stable_regular_descriptor and the readers of selfplay/common.py         *)

OpenReader ==
    /\ reader = Unused
    /\ entry # NoFile
    /\ reader' = [pc |-> "read", file |-> entry, opened |-> stamp[entry], bytes |-> <<>>]
    /\ UNCHANGED <<fileVars, writer, reports, counts>>
ReadChunk ==
    /\ reader.pc = "read"
    /\ reader' = [reader EXCEPT !.bytes = Append(@, stamp[reader.file]),
                                !.pc = IF Len(reader.bytes) = 1 THEN "check" ELSE "read"]
    /\ UNCHANGED <<fileVars, writer, reports, counts>>
\* The file is what it was when it was opened, and still at its path.
IsStable(file, opened) == entry = file /\ stamp[file] = opened
EndRead ==
    /\ reader.pc = "check"
    /\ reader' = IF IsStable(reader.file, reader.opened)
                 THEN [reader EXCEPT !.pc = "done"] ELSE Unused
    /\ UNCHANGED <<fileVars, writer, reports, counts>>
CloseReader ==
    /\ reader.pc = "done"
    /\ reader' = Unused
    /\ UNCHANGED <<fileVars, writer, reports, counts>>
-----------------------------------------------------------------------------
\* Another program renames a file of its own over the path.
ForeignRename ==
    /\ made < MaxFiles
    /\ made' = made + 1
    /\ Show(made + 1)
    /\ UNCHANGED <<temporary, litter, retired, disposed, stamp, writer, reports, reader, counts>>
\* It writes into a file that it opened while it was at the path.
ForeignWrite(f) ==
    /\ \E i \in DOMAIN line : line[i] = f
    /\ writes < MaxWrites
    /\ writes' = writes + 1
    /\ stamp' = [stamp EXCEPT ![f] = @ + 1]
    /\ UNCHANGED <<entry, temporary, litter, retired, disposed, made, line, writer, reports,
                   reader, kills>>

ArtifactNext ==
    \/ \E w \in Writers :
        \/ WriteTemporary(w) \/ Find(w)
        \/ RenameNoReplace(w) \/ Exchange(w) \/ CompareFound(w) \/ Undo(w)
        \/ RetirePredecessor(w) \/ Dispose(w) \/ VerifyPublished(w) \/ Fail(w)
        \/ KillWriter(w)
    \/ OpenReader \/ ReadChunk \/ EndRead \/ CloseReader
    \/ ForeignRename
    \/ \E f \in Files : ForeignWrite(f)
ArtifactSpec == ArtifactInit /\ [][ArtifactNext]_artifactVars
-----------------------------------------------------------------------------
FirstShown(f) == CHOOSE i \in DOMAIN line : line[i] = f /\ \A j \in 1..(i - 1) : line[j] # f
BeforeIt(f) == IF FirstShown(f) = 1 THEN NoFile ELSE line[FirstShown(f) - 1]
Linked(f) ==
    \/ f = entry
    \/ f \in litter \cup retired
    \/ \E w \in Writers : temporary[w] = f

(* A write that succeeds replaced what it had found at the path, although  *)
(* other programs rename their files over it meanwhile: none of them is    *)
(* the one that was disposed of.                                           *)
SuccessReplacesWhatItFound ==
    /\ \A r \in reports : ~r.raised => BeforeIt(r.file) = r.found
    /\ \A f \in disposed : \E i \in DOMAIN line : i > 1 /\ line[i - 1] = f /\ line[i] # f
    /\ \A f \in disposed : f # entry

(* A write that raises is not at the path, unless what it replaced is kept *)
(* whole in the quarantine or beside the path, or nothing was there.       *)
FailureKeepsTheOld ==
    Locked => \A r \in reports :
        r.raised /\ entry = r.file => r.found = NoFile \/ Linked(r.found) \/ stamp[r.file] > 0

PublicationIsCompareAndSwap == SuccessReplacesWhatItFound /\ FailureKeepsTheOld

(* The bytes a reader returns are those of one moment of one file.         *)
ReadsAreWhole == reader.pc = "done" => reader.bytes[1] = reader.bytes[2]

\* A publication replaces the very file it found and reads see whole files,
\* between writers that are killed (labeling/artifacts.py, selfplay/common.py).
FilesAreExchanged == PublicationIsCompareAndSwap /\ ReadsAreWhole
=============================================================================

--------------------------- MODULE CatalogDownload --------------------------
(***************************************************************************)
(* The acquisition of catalogued game records (data/downloader.py) into a  *)
(* content-addressed store beside an append-only manifest                  *)
(* (data/manifest.py): one thread for each object, a saved partial for a   *)
(* transfer that was cut, resumed by range when the server still has the   *)
(* entity it is a part of.  A process may be killed anywhere.  A chunk is  *)
(* named by the version of the entity it belongs to.                       *)
(***************************************************************************)
EXTENDS Naturals, Sequences, FiniteSets

CONSTANTS
    Items,      \* catalog objects
    Versions,   \* entities a server has had under a URL: their strong ETags
    Length,     \* chunks of an entity
    MaxKills,   \* bound: processes killed
    MaxChanges  \* bound: entities and terms replaced on the server

Empty == <<>>
NoPartial == [content |-> Empty, etag |-> 0]
NoRecord == [content |-> Empty, sized |-> TRUE, under |-> "none"]
Idle == [pc |-> "idle"]

VARIABLES
    entity,     \* what the server has under each URL
    terms,      \* what its licence pages, sample index and robots.txt allow
    completed,  \* the completed event of each object; sized: its length was announced;
                \* under (history): the terms its run has read
    partial,    \* the latest partial event of each object
    torn,       \* the manifest ends in an incomplete line
    objects,    \* the content-addressed store
    saved,      \* the saved partial of each object
    thread,     \* what the download of each object is at
    kills, changes

disk == <<completed, partial, torn, objects, saved>>
server == <<entity, terms>>
downloadVars == <<server, disk, thread, kills, changes>>

DownloadInit ==
    /\ entity \in [Items -> Versions]
    /\ terms = "open"
    /\ completed = [i \in Items |-> NoRecord]
    /\ partial = [i \in Items |-> NoPartial]
    /\ torn = FALSE
    /\ objects = {}
    /\ saved = [i \in Items |-> Empty]
    /\ thread = [i \in Items |-> Idle]
    /\ kills = 0
    /\ changes = 0

At(i, pc) == thread[i].pc = pc
Goto(i, pc) == thread' = [thread EXCEPT ![i].pc = pc]
\* A thread that raises leaves the others running.
Leave(i) == thread' = [thread EXCEPT ![i] = Idle]
-----------------------------------------------------------------------------
(* acquire_catalog, _download_with_slot                                    *)

\* The licence, the index and robots.txt are fetched anew by every run,
\* stored by their hashes and compared with what the registry pins.
FetchEvidence ==
    /\ \A i \in Items : thread[i] = Idle
    /\ thread' = [i \in Items |-> [pc |-> "cleared", under |-> terms]]
    /\ UNCHANGED <<server, disk, kills, changes>>
Admits(evidence) == evidence = "open"
\* One object that robots.txt or the index does not have stops them all.
RefuseCatalog ==
    /\ \E i \in Items : At(i, "cleared") /\ ~Admits(thread[i].under)
    /\ thread' = [i \in Items |-> Idle]
    /\ UNCHANGED <<server, disk, kills, changes>>
AcquireCatalog ==
    /\ \A i \in Items : At(i, "cleared") /\ Admits(thread[i].under)
    /\ thread' = [i \in Items |-> [pc |-> "look", under |-> thread[i].under]]
    /\ UNCHANGED <<server, disk, kills, changes>>

IsReadable == ~torn
IsCompleted(i) == completed[i] # NoRecord
Skip(i) ==
    /\ At(i, "look")
    /\ IsReadable
    /\ IsCompleted(i)
    /\ Leave(i)
    /\ UNCHANGED <<server, disk, kills, changes>>

IsUsable(i) == partial[i] # NoPartial /\ saved[i] = partial[i].content
Asks(i, resumes) ==
    thread' = [thread EXCEPT ![i] = [pc |-> "ask", resumes |-> resumes,
        validator |-> partial[i].etag, under |-> thread[i].under]]
\* A partial whose file is not the one of its event is not used; one whose
\* file is gone makes the lookup fail, and so does a torn manifest.
Plan(i) ==
    /\ At(i, "look")
    /\ ~(IsReadable /\ IsCompleted(i))
    /\ IF ~IsReadable \/ (partial[i] # NoPartial /\ saved[i] = Empty)
       THEN Leave(i)
       ELSE Asks(i, IsUsable(i))
    /\ UNCHANGED <<server, disk, kills, changes>>
-----------------------------------------------------------------------------
(* _open_with_retry, _download_response                                    *)

Transfer(i, content, sized) ==
    thread' = [thread EXCEPT ![i] =
        [pc |-> "body", file |-> content, etag |-> entity[i], sized |-> sized,
         under |-> thread[i].under]]
\* All attempts fail, or the answer is none the download accepts.
FailRequest(i) ==
    /\ At(i, "ask")
    /\ Leave(i)
    /\ UNCHANGED <<server, disk, kills, changes>>
\* 200: to a plain request, to a range of another entity, or after a 416.
AnswerWhole(i) ==
    /\ At(i, "ask")
    /\ \E sized \in BOOLEAN : Transfer(i, Empty, sized)
    /\ UNCHANGED <<server, disk, kills, changes>>
\* Bug: the ETag of a range is not compared.
SameEntity_Unchecked(i) == entity[i] \in Versions
SameEntity(i) == thread[i].validator = entity[i]
\* 206: a server may send one although the entity is not the one asked for.
AnswerRange(i) ==
    /\ At(i, "ask")
    /\ thread[i].resumes
    /\ IF SameEntity(i) /\ saved[i] = partial[i].content
       THEN Transfer(i, saved[i], TRUE)
       ELSE Leave(i)
    /\ UNCHANGED <<server, disk, kills, changes>>
-----------------------------------------------------------------------------
(* _write_response, _record_partial                                        *)

Receive(i) ==
    /\ At(i, "body")
    /\ Len(thread[i].file) < Length
    /\ thread' = [thread EXCEPT ![i].file = Append(@, thread[i].etag)]
    /\ UNCHANGED <<server, disk, kills, changes>>
\* The body ends: without an announced length nothing tells that it is short.
EndOfBody(i) ==
    /\ At(i, "body")
    /\ thread[i].file # Empty
    /\ Len(thread[i].file) = Length \/ ~thread[i].sized
    /\ Goto(i, "install")
    /\ UNCHANGED <<server, disk, kills, changes>>
Cut(i) ==
    /\ At(i, "body")
    /\ Len(thread[i].file) < Length
    /\ IF thread[i].file = Empty THEN Leave(i) ELSE Goto(i, "save")
    /\ UNCHANGED <<server, disk, kills, changes>>
SavePartial(i) ==
    /\ At(i, "save")
    /\ saved' = [saved EXCEPT ![i] = thread[i].file]
    /\ Goto(i, "note")
    /\ UNCHANGED <<server, completed, partial, torn, objects, kills, changes>>
AppendPartial(i) ==
    /\ At(i, "note")
    /\ partial' = [partial EXCEPT ![i] = [content |-> thread[i].file, etag |-> thread[i].etag]]
    /\ Leave(i)
    /\ UNCHANGED <<server, completed, torn, objects, saved, kills, changes>>
-----------------------------------------------------------------------------
(* _install_immutable, _remove_saved_partial, append_completed             *)

InstallImmutable(i) ==
    /\ At(i, "install")
    /\ objects' = objects \cup {thread[i].file}
    /\ Goto(i, "remove")
    /\ UNCHANGED <<server, completed, partial, torn, saved, kills, changes>>
RemoveSavedPartial(i) ==
    /\ At(i, "remove")
    /\ saved' = [saved EXCEPT ![i] = Empty]
    /\ Goto(i, "append")
    /\ UNCHANGED <<server, completed, partial, torn, objects, kills, changes>>
AppendCompleted(i) ==
    /\ At(i, "append")
    /\ completed' = [completed EXCEPT ![i] =
            [content |-> thread[i].file, sized |-> thread[i].sized, under |-> thread[i].under]]
    /\ Leave(i)
    /\ UNCHANGED <<server, partial, torn, objects, saved, kills, changes>>
-----------------------------------------------------------------------------
\* A kill may leave a part of the line a thread was appending.
Kill ==
    /\ kills < MaxKills
    /\ \E i \in Items : thread[i] # Idle
    /\ kills' = kills + 1
    /\ thread' = [i \in Items |-> Idle]
    /\ torn' \in {torn, torn \/ \E i \in Items : At(i, "note") \/ At(i, "append")}
    /\ UNCHANGED <<server, completed, partial, objects, saved, changes>>
ReplaceEntity(i) ==
    /\ changes < MaxChanges
    /\ changes' = changes + 1
    /\ \E v \in Versions \ {entity[i]} : entity' = [entity EXCEPT ![i] = v]
    /\ UNCHANGED <<terms, disk, thread, kills>>
CloseTerms ==
    /\ changes < MaxChanges
    /\ changes' = changes + 1
    /\ terms' = "closed"
    /\ UNCHANGED <<entity, disk, thread, kills>>

DownloadNext ==
    \/ FetchEvidence \/ RefuseCatalog \/ AcquireCatalog
    \/ \E i \in Items :
        \/ Skip(i) \/ Plan(i)
        \/ FailRequest(i) \/ AnswerWhole(i) \/ AnswerRange(i)
        \/ Receive(i) \/ EndOfBody(i) \/ Cut(i)
        \/ SavePartial(i) \/ AppendPartial(i)
        \/ InstallImmutable(i) \/ RemoveSavedPartial(i) \/ AppendCompleted(i)
        \/ ReplaceEntity(i)
    \/ Kill \/ CloseTerms
DownloadSpec == DownloadInit /\ [][DownloadNext]_downloadVars
-----------------------------------------------------------------------------
(* What the manifest calls completed is in the store, was sent by the      *)
(* server as one entity and never spliced from two, through any sequence   *)
(* of cuts, kills, resumes and replacements, and is all of it unless the   *)
(* server kept its length to itself; the run that completed it had read    *)
(* terms that allow it, however long before another had begun it.          *)
IsOneEntity(content) == \A a, b \in 1..Len(content) : content[a] = content[b]
CompletedIsGenuine ==
    \A i \in Items : IsCompleted(i) =>
        /\ completed[i].content \in objects
        /\ IsOneEntity(completed[i].content)
        /\ completed[i].sized => Len(completed[i].content) = Length
        /\ completed[i].under = "open"
=============================================================================

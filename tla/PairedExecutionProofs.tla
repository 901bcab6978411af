------------------------ MODULE PairedExecutionProofs -----------------------
(***************************************************************************)
(* The state file of a paired execution can be read after every crash, it  *)
(* records whatever ran, a published manifest is final, and the history of *)
(* the attempts only grows, for any number of jobs, workers, attempts and  *)
(* faults.                                                                 *)
(*                                                                         *)
(* The invariant follows one attempt.  While its thread lives the journal  *)
(* has it as the last attempt of its job and as running; the place of the  *)
(* thread says which of receipt, quarantine record and evidence are on     *)
(* disk (ThreadKnows); and evidence, once written, stands on the others    *)
(* for good (EvidenceIsBacked), so that the journal may repeat it whenever *)
(* the coordinator gets to it.                                             *)
(***************************************************************************)
EXTENDS PairedExecution, SequenceTheorems, TLAPS

Log(j) == state.attempts[j]
Reported == Settled \union Results

Places == {"off", "start", "boot", "mkdir", "play", "exit", "classify",
           "evidence", "done", "error"}
Statuses == {"absent", "running", "interrupted"} \union Terminal
Typed ==
    /\ TypeOK
    /\ main \in [pc : {"idle", "batch", "gather", "publish"},
                 attempts : [Jobs -> Seq(Records)], pending : SUBSET Jobs,
                 batch : SUBSET Jobs, loaded : Statuses,
                 worked : BOOLEAN, failed : BOOLEAN]
    /\ thread \in [Jobs -> [pc : Places, n : 1..MaxAttempts,
                            resume : BOOLEAN,
                            result : Reported \union {"none"}]]

\* What the journal may hold, and that the coordinator has it in memory.
LogIsKept(log) ==
    /\ Len(log) <= MaxAttempts
    /\ \A n \in 1..Len(log) : n < Len(log) => log[n] \in Failures
JournalIsKept ==
    /\ \A j \in Jobs : LogIsKept(Log(j))
    /\ main.pc # "idle" => main.attempts = state.attempts

\* A job that the invocation has still to take may be given an attempt; every
\* other has one, and at the end all have ended well.
MayStart(log) ==
    log = <<>> \/ log[Len(log)] = "running"
    \/ (log[Len(log)] \in Failures /\ Len(log) < MaxAttempts)
PlanIsFollowed ==
    /\ main.pc = "idle" => main.pending = {}
    /\ main.pc # "gather" => main.batch = {}
    /\ main.pending \intersect main.batch = {}
    /\ \A j \in main.pending : MayStart(Log(j))
    /\ main.pc # "idle" => \A j \in Jobs \ main.pending : Log(j) # <<>>
    /\ main.pc = "publish" =>
         /\ main.pending = {}
         /\ \A j \in Jobs : Latest(state.attempts, j) = "completed"

\* Evidence stands on the other files; a settled record repeats evidence; a
\* receipt is of a recorded attempt.
IsBacked(j, n) == evidence[<<j, n>>] # "none" => EvidenceStands(j, n)
EvidenceIsBacked == \A j \in Jobs : \A n \in 1..MaxAttempts : IsBacked(j, n)
RecordsAreEvident ==
    \A j \in Jobs : \A n \in 1..Len(Log(j)) :
        Log(j)[n] # "running" => evidence[<<j, n>>] = Log(j)[n]
ReceiptsAreFiled ==
    \A j \in Jobs : \A n \in 1..MaxAttempts :
        receipt[<<j, n>>] # None => /\ receipt[<<j, n>>].result \in Results
                                /\ n <= Len(Log(j))
OrphansAreJournaled == \A j \in Jobs : orphan[j] # "none" => Log(j) # <<>>

\* The thread of a job works on the last attempt of its log.
ThreadIsJournaled(j) ==
    thread[j].pc # "off" =>
        /\ main.pc = "gather" /\ j \in main.batch
        /\ thread[j].n = Len(Log(j))
        /\ Latest(state.attempts, j) = "running"
\* What the thread knows at each place of the files of its attempt.
Unfiled(j, n) == receipt[<<j, n>>] = None /\ evidence[<<j, n>>] = "none"
Filed(j, n) == receipt[<<j, n>>] # None /\ evidence[<<j, n>>] = "none"
Knows(t, j) ==
    /\ t.pc \in {"boot", "mkdir", "play", "exit"} => Unfiled(j, t.n)
    /\ t.pc = "exit" => t.result \in Results
    /\ t.pc = "classify" => Filed(j, t.n) /\ t.result \in Results
    /\ t.pc = "evidence" =>
         /\ Filed(j, t.n) /\ t.result \in Settled
         /\ IF t.result = "completed" THEN ReportIsValid(j)
                                      ELSE <<j, t.n>> \in quarantine
    /\ t.pc = "done" => t.result \in Settled /\ evidence[<<j, t.n>>] = t.result
ThreadKnows(j) == Knows(thread[j], j)

\* A published manifest is the journal, and nothing is left to do.
ManifestIsClosed ==
    manifest # NoAttempts =>
        /\ manifest = state.attempts
        /\ \A j \in Jobs : Log(j) # <<>> /\ Latest(manifest, j) = "completed"
        /\ main.pending = {} /\ main.pc # "gather"

IInv == /\ Typed /\ JournalIsKept /\ PlanIsFollowed
        /\ EvidenceIsBacked /\ RecordsAreEvident /\ ReceiptsAreFiled
        /\ OrphansAreJournaled
        /\ \A j \in Jobs : ThreadIsJournaled(j) /\ ThreadKnows(j)
        /\ ManifestIsClosed
-----------------------------------------------------------------------------
(* Types                                                                   *)

LEMMA Constants ==
    /\ JobCount \in Nat /\ JobCount > 0 /\ Workers \in Nat
    /\ MaxAttempts \in Nat /\ MaxAttempts > 0 /\ MaxFaults \in Nat
    /\ 1 \in 1..MaxAttempts
BY ExecutionAssumption

\* A log is a sequence of records.
LEMMA LogType ==
    ASSUME Typed, NEW j \in Jobs
    PROVE  /\ Log(j) \in Seq(Records) /\ Len(Log(j)) \in Nat
           /\ DOMAIN Log(j) = 1..Len(Log(j))
           /\ \A n \in 1..Len(Log(j)) : Log(j)[n] \in Records
           /\ Log(j) # <<>> <=> Len(Log(j)) > 0
<1>1. Log(j) \in Seq(Records)
    BY DEF Typed, TypeOK, Log
<1> QED
    BY <1>1, LenProperties, ElementOfSeq, EmptySeq

\* The attempt of a thread is an attempt.
LEMMA ThreadType ==
    ASSUME Typed, NEW j \in Jobs
    PROVE  /\ thread[j].pc \in Places /\ thread[j].n \in 1..MaxAttempts
           /\ thread[j].resume \in BOOLEAN
           /\ thread[j].result \in Reported \union {"none"}
           /\ <<j, thread[j].n>> \in Attempts
BY DEF Typed, Attempts

LEMMA AttemptPairs ==
    ASSUME NEW j \in Jobs, NEW n \in 1..MaxAttempts
    PROVE  <<j, n>> \in Attempts
BY DEF Attempts

\* The statuses of a record, and the results of a run.
LEMMA Kinds ==
    /\ "running" \in Records /\ "running" \notin Settled
    /\ Settled \subseteq Records /\ Failures \subseteq Settled
    /\ "running" \notin Failures /\ "completed" \in Settled
    /\ "completed" \notin Failures /\ "none" \notin Settled
    /\ \A r \in Results : r # "none" /\ r # "completed"
    /\ \A r \in Results : r # "ok" => r \in Failures
    /\ \A r \in Records : r # "running" => r \in Settled
    /\ \A r \in Settled : r # "completed" => r \in Failures
BY DEF Records, Settled, Failures, Results

LEMMA OffType ==
    /\ Off \in [pc : Places, n : 1..MaxAttempts, resume : BOOLEAN,
                result : Reported \union {"none"}]
    /\ Off.pc = "off"
BY Constants DEF Off, Places

LEMMA IdleType ==
    /\ Idle \in [pc : {"idle", "batch", "gather", "publish"},
                 attempts : [Jobs -> Seq(Records)], pending : SUBSET Jobs,
                 batch : SUBSET Jobs, loaded : Statuses,
                 worked : BOOLEAN, failed : BOOLEAN]
    /\ Idle.pc = "idle" /\ Idle.pending = {} /\ Idle.batch = {}
BY EmptySeq DEF Idle, Statuses

\* A thread that is off knows nothing and needs no journal.
LEMMA OffKnows ==
    ASSUME NEW j \in Jobs, thread'[j] = Off
    PROVE  ThreadIsJournaled(j)' /\ ThreadKnows(j)'
BY OffType DEF ThreadIsJournaled, ThreadKnows, Knows

\* With the files as they were, a thread knows what it knew.
LEMMA KnowsStays ==
    ASSUME NEW j \in Jobs, ThreadKnows(j), thread'[j] = thread[j],
           UNCHANGED <<receipt, evidence, quarantine>>,
           ReportIsValid(j) => ReportIsValid(j)'
    PROVE  ThreadKnows(j)'
BY DEF ThreadKnows, Knows, Unfiled, Filed

\* With the files as they were, or a report more, evidence stands.
LEMMA EvidenceStays ==
    ASSUME EvidenceIsBacked, UNCHANGED <<receipt, evidence, quarantine>>,
           \A j \in Jobs : ReportIsValid(j) => ReportIsValid(j)'
    PROVE  EvidenceIsBacked'
BY DEF EvidenceIsBacked, IsBacked, EvidenceStands

LEMMA InitHolds == Init => IInv
<1> SUFFICES ASSUME Init PROVE IInv
    OBVIOUS
<1> USE DEF Init, NoAttempts
<1>1. \A j \in Jobs : state.attempts[j] = <<>> /\ Len(state.attempts[j]) = 0
    BY EmptySeq
<1>2. Typed
  <2>1. None \in [resume : BOOLEAN, result : Results \union {"none"}]
      BY DEF None
  <2>2. NoAttempts \in [Jobs -> Seq(Records)]
      BY EmptySeq
  <2> QED
      BY <2>1, <2>2, OffType, IdleType DEF Typed, TypeOK
<1>3. JournalIsKept
    BY <1>1, Constants, IdleType DEF JournalIsKept, LogIsKept, Log
<1>4. PlanIsFollowed
    BY IdleType DEF PlanIsFollowed
<1>5. EvidenceIsBacked
    BY AttemptPairs DEF EvidenceIsBacked, IsBacked
<1>6. RecordsAreEvident
    BY <1>1 DEF RecordsAreEvident, Log
<1>7. ReceiptsAreFiled
    BY AttemptPairs DEF ReceiptsAreFiled
<1>8. OrphansAreJournaled
    BY DEF OrphansAreJournaled
<1>9. \A j \in Jobs : ThreadIsJournaled(j) /\ ThreadKnows(j)
    BY OffType DEF ThreadIsJournaled, ThreadKnows, Knows
<1>10. ManifestIsClosed
    BY DEF ManifestIsClosed
<1> QED
    BY <1>2, <1>3, <1>4, <1>5, <1>6, <1>7, <1>8, <1>9, <1>10 DEF IInv
-----------------------------------------------------------------------------
(* The steps of a worker thread                                            *)

\* Nothing but the thread of one job and the files of its attempt change, and
\* of those only what was missing.
Turns(j) ==
    /\ UNCHANGED <<state, manifest, main, orphan>>
    /\ \A i \in Jobs \ {j} : thread'[i] = thread[i]
    /\ thread'[j].n = thread[j].n
    /\ quarantine \subseteq quarantine'
    /\ \A i \in Jobs : ReportIsValid(i) => ReportIsValid(i)'
    /\ \A a \in Attempts :
          /\ a # <<j, thread[j].n>> \/ receipt[a] # None =>
                receipt'[a] = receipt[a]
          /\ a # <<j, thread[j].n>> \/ evidence[a] # "none" =>
                evidence'[a] = evidence[a]

LEMMA TurnHolds ==
    ASSUME IInv, NEW j \in Jobs, thread[j].pc # "off", Turns(j), Typed',
           ThreadKnows(j)', NEW m, m = thread[j].n, IsBacked(j, m)',
           receipt'[<<j, m>>] # None => receipt'[<<j, m>>].result \in Results
    PROVE  IInv'
<1>1. /\ Typed /\ m \in 1..MaxAttempts /\ m = Len(Log(j))
      /\ ThreadIsJournaled(j)
    BY ThreadType DEF IInv, ThreadIsJournaled
<1>2. \A i \in Jobs : Log(i)' = Log(i)
    BY DEF Turns, Log
<1>3. JournalIsKept'
    BY <1>2 DEF IInv, JournalIsKept, Turns
<1>4. PlanIsFollowed'
    BY DEF IInv, PlanIsFollowed, Turns, Latest, MayStart, Log
<1>5. EvidenceIsBacked'
  <2> SUFFICES ASSUME NEW i \in Jobs, NEW n \in 1..MaxAttempts
               PROVE  IsBacked(i, n)'
      BY DEF EvidenceIsBacked
  <2>1. CASE i = j /\ n = m
      BY <2>1
  <2>2. CASE <<i, n>> # <<j, m>>
    <3>1. receipt'[<<i, n>>] = receipt[<<i, n>>]
          /\ evidence'[<<i, n>>] = evidence[<<i, n>>]
        BY <2>2, AttemptPairs DEF Turns
    <3>2. IsBacked(i, n)
        BY DEF IInv, EvidenceIsBacked
    <3> QED
        BY <3>1, <3>2 DEF IsBacked, EvidenceStands, Turns
  <2> QED
      BY <2>1, <2>2
<1>6. RecordsAreEvident'
  <2> SUFFICES ASSUME NEW i \in Jobs, NEW n \in 1..Len(Log(i)),
                      Log(i)[n] # "running"
               PROVE  evidence'[<<i, n>>] = Log(i)[n]
      BY <1>2 DEF RecordsAreEvident
  <2>1. evidence[<<i, n>>] = Log(i)[n] /\ Log(i)[n] # "none"
      BY <1>1, LogType, Kinds DEF IInv, RecordsAreEvident
  <2>2. n \in 1..MaxAttempts
      BY <1>1, LogType, Constants DEF IInv, JournalIsKept, LogIsKept
  <2> QED
      BY <2>1, <2>2, AttemptPairs DEF Turns
<1>7. ReceiptsAreFiled'
  <2> SUFFICES ASSUME NEW i \in Jobs, NEW n \in 1..MaxAttempts,
                      receipt'[<<i, n>>] # None
               PROVE  receipt'[<<i, n>>].result \in Results /\ n <= Len(Log(i))
      BY <1>2 DEF ReceiptsAreFiled
  <2>1. CASE i = j /\ n = m
      BY <2>1, <1>1
  <2>2. CASE <<i, n>> # <<j, m>>
    <3>1. receipt'[<<i, n>>] = receipt[<<i, n>>]
        BY <2>2, AttemptPairs DEF Turns
    <3> QED
        BY <3>1 DEF IInv, ReceiptsAreFiled
  <2> QED
      BY <2>1, <2>2
<1>8. OrphansAreJournaled'
    BY <1>2 DEF IInv, OrphansAreJournaled, Turns
<1>9. ASSUME NEW i \in Jobs PROVE ThreadIsJournaled(i)' /\ ThreadKnows(i)'
  <2>1. CASE i = j
      BY <2>1, <1>1, <1>2 DEF ThreadIsJournaled, Turns, Latest
  <2>2. CASE i # j
    <3>1. thread'[i] = thread[i]
        BY <2>2 DEF Turns
    <3>2. <<i, thread[i].n>> \in Attempts /\ <<i, thread[i].n>> # <<j, m>>
        BY <1>1, <2>2, ThreadType
    <3>3. receipt'[<<i, thread[i].n>>] = receipt[<<i, thread[i].n>>]
          /\ evidence'[<<i, thread[i].n>>] = evidence[<<i, thread[i].n>>]
        BY <3>2 DEF Turns
    <3>4. ThreadKnows(i)'
        BY <3>1, <3>3 DEF IInv, ThreadKnows, Knows, Unfiled, Filed, Turns
    <3>5. ThreadIsJournaled(i)'
        BY <3>1, <1>2 DEF IInv, ThreadIsJournaled, Turns, Latest
    <3> QED
        BY <3>4, <3>5
  <2> QED
      BY <2>1, <2>2
<1>10. ManifestIsClosed'
    BY <1>2 DEF IInv, ManifestIsClosed, Turns
<1> QED
    BY <1>3, <1>4, <1>5, <1>6, <1>7, <1>8, <1>9, <1>10 DEF IInv

\* A step of the thread that writes none of the files.
ThreadRecords == [pc : Places, n : 1..MaxAttempts, resume : BOOLEAN,
                  result : Reported \union {"none"}]
LEMMA ThreadTurns ==
    ASSUME IInv, NEW j \in Jobs, thread[j].pc # "off",
           UNCHANGED <<files, orphan, main, approved, faults>>,
           thread' = [thread EXCEPT ![j] = thread'[j]],
           thread'[j] \in ThreadRecords, thread'[j].n = thread[j].n,
           ThreadKnows(j)',
           output' \in [Jobs -> [dir : {"none", "games", "state"},
                                 report : BOOLEAN]],
           \A i \in Jobs : ReportIsValid(i) => ReportIsValid(i)'
    PROVE  IInv'
<1>1. Typed
    BY DEF IInv
<1>2. Typed'
  <2>1. thread' \in [Jobs -> ThreadRecords]
      BY <1>1 DEF Typed, ThreadRecords
  <2> QED
      BY <1>1, <2>1 DEF Typed, TypeOK, files, ThreadRecords
<1>3. Turns(j)
    BY <1>1 DEF Turns, Typed, files
<1>4. PICK m \in 1..MaxAttempts : m = thread[j].n
    BY <1>1, ThreadType
<1>5. IsBacked(j, m)'
    BY EvidenceStays DEF IInv, EvidenceIsBacked, files
<1>6. receipt'[<<j, m>>] # None => receipt'[<<j, m>>].result \in Results
    BY DEF IInv, ReceiptsAreFiled, files
<1> QED
    BY <1>2, <1>3, <1>4, <1>5, <1>6, TurnHolds

LEMMA StartStep ==
    ASSUME IInv, NEW j \in Jobs, Start(j) PROVE IInv'
<1>1. Typed /\ thread[j].pc = "start"
    BY DEF IInv, Start
<1>2. PICK n \in 1..MaxAttempts : n = thread[j].n
    BY <1>1, ThreadType
<1> DEFINE resume == output[j].dir = "state"
           r == receipt[<<j, n>>]
           e == evidence[<<j, n>>]
<1>3. /\ UNCHANGED <<files, orphan, main, approved, faults, output>>
      /\ thread' = [thread EXCEPT ![j] =
          IF e # "none" THEN [@ EXCEPT !.pc = "done", !.result = e]
          ELSE IF ~RuntimeHolds \/ (r # None /\ ~SameInvocation(j, n, resume))
          THEN [@ EXCEPT !.pc = "error"]
          ELSE IF r # None
          THEN [@ EXCEPT !.pc = "classify", !.result = r.result]
          ELSE [@ EXCEPT !.pc = "boot", !.resume = resume]]
    BY <1>2 DEF Start, world
<1>4. e \in Settled \union {"none"} /\ (r # None => r.result \in Results)
    BY <1>1, AttemptPairs DEF Typed, TypeOK, IInv, ReceiptsAreFiled
<1> DEFINE t == thread'[j]
<1>5. /\ t \in ThreadRecords /\ t.n = n
      /\ thread' = [thread EXCEPT ![j] = t]
      /\ \/ t.pc = "done" /\ t.result = e /\ e # "none"
         \/ t.pc = "error"
         \/ t.pc = "classify" /\ t.result = r.result /\ r # None /\ e = "none"
         \/ t.pc = "boot" /\ r = None /\ e = "none"
    BY <1>1, <1>2, <1>3, <1>4, ThreadType
       DEF Typed, Places, Reported, ThreadRecords
<1>6. ThreadKnows(j)'
  <2>1. UNCHANGED <<receipt, evidence>>
      BY <1>3 DEF files
  <2> QED
      BY <1>4, <1>5, <2>1 DEF ThreadKnows, Knows, Unfiled, Filed
<1>7. /\ UNCHANGED output
      /\ output \in [Jobs -> [dir : {"none", "games", "state"},
                              report : BOOLEAN]]
    BY <1>1, <1>3 DEF Typed, TypeOK
<1> QED
    BY <1>1, <1>2, <1>3, <1>5, <1>6, <1>7, ThreadTurns DEF ReportIsValid

\* A step of the engine of a job: nothing is on disk for its attempt, and it
\* ends with a result or goes on.
LEMMA EngineStep ==
    ASSUME IInv, NEW j \in Jobs, thread[j].pc \in {"boot", "mkdir", "play"},
           UNCHANGED <<files, orphan, approved, faults, main>>,
           NEW pc \in {"mkdir", "play", "exit"}, NEW result \in Results,
           thread' = [thread EXCEPT ![j] =
               IF pc = "exit" THEN [@ EXCEPT !.pc = "exit", !.result = result]
                              ELSE [@ EXCEPT !.pc = pc]],
           NEW d \in [dir : {"none", "games", "state"}, report : BOOLEAN],
           output[j].report => d.report,
           output' = [output EXCEPT ![j] = d]
    PROVE  IInv'
<1>1. Typed /\ ThreadKnows(j)
    BY DEF IInv
<1>2. /\ thread'[j] \in ThreadRecords /\ thread'[j].n = thread[j].n
      /\ thread' = [thread EXCEPT ![j] = thread'[j]]
      /\ thread'[j].pc = pc /\ (pc = "exit" => thread'[j].result = result)
    BY <1>1, ThreadType DEF Typed, Places, Reported, ThreadRecords
<1>3. ThreadKnows(j)'
    BY <1>1, <1>2 DEF ThreadKnows, Knows, Unfiled, files
<1>4. output \in [Jobs -> [dir : {"none", "games", "state"},
                           report : BOOLEAN]]
    BY <1>1 DEF Typed, TypeOK
<1>5. output' \in [Jobs -> [dir : {"none", "games", "state"},
                            report : BOOLEAN]]
    BY <1>4
<1>6. \A i \in Jobs : ReportIsValid(i) => ReportIsValid(i)'
    BY <1>4 DEF ReportIsValid
<1> QED
    BY <1>1, <1>2, <1>3, <1>5, <1>6, ThreadTurns

LEMMA RunSteps ==
    ASSUME IInv, NEW j \in Jobs,
           Boot(j) \/ WriteArenaState(j) \/ Play(j) \/ Limit(j)
    PROVE  IInv'
<1> DEFINE d == output[j]
<1>1. /\ d \in [dir : {"none", "games", "state"}, report : BOOLEAN]
      /\ output = [output EXCEPT ![j] = d]
      /\ thread \in [Jobs -> ThreadRecords]
    BY DEF IInv, Typed, TypeOK, ThreadRecords
<1>2. thread[j].pc \in {"boot", "mkdir", "play"}
      /\ UNCHANGED <<files, orphan, approved, faults, main>>
    BY DEF Boot, WriteArenaState, Play, Limit, world
<1> DEFINE Becomes(pc, result) ==
             thread' = [thread EXCEPT ![j] =
               IF pc = "exit" THEN [@ EXCEPT !.pc = "exit", !.result = result]
                              ELSE [@ EXCEPT !.pc = pc]]
<1>3. \E pc \in {"mkdir", "play", "exit"}, result \in Results :
        /\ Becomes(pc, result)
        /\ \/ UNCHANGED output
           \/ output' = [output EXCEPT ![j].dir = "games"]
           \/ output' = [output EXCEPT ![j].dir = "state"]
           \/ \E valid \in BOOLEAN :
                 output' = [output EXCEPT ![j].report = @ \/ valid]
  <2>1. \A result \in Results : Ends(j, result) => Becomes("exit", result)
      BY <1>1 DEF Ends, ThreadRecords
  <2>2. \A pc \in {"mkdir", "play"}, result \in Results :
           Set(j, pc) => Becomes(pc, result)
      BY <1>1 DEF Set, ThreadRecords
  <2>3. "ok" \in Results /\ "limit" \in Results /\ "nonzero_exit" \in Results
      BY DEF Results
  <2> HIDE DEF Becomes
  <2>4. CASE Boot(j)
      BY <2>1, <2>2, <2>3, <2>4 DEF Boot
  <2>5. CASE WriteArenaState(j)
      BY <2>1, <2>2, <2>3, <2>5 DEF WriteArenaState
  <2>6. CASE Play(j)
      BY <2>1, <2>2, <2>3, <2>6 DEF Play
  <2>7. CASE Limit(j)
      BY <2>1, <2>2, <2>3, <2>7 DEF Limit, world
  <2> QED
      BY <2>4, <2>5, <2>6, <2>7
<1>4. PICK pc \in {"mkdir", "play", "exit"}, result \in Results :
        Becomes(pc, result)
    BY <1>3
<1>5. \E e \in [dir : {"none", "games", "state"}, report : BOOLEAN] :
        (d.report => e.report) /\ output' = [output EXCEPT ![j] = e]
  <2> HIDE DEF Becomes
  <2>1. CASE UNCHANGED output
      BY <1>1, <2>1
  <2>2. CASE output' = [output EXCEPT ![j].dir = "games"]
      BY <1>1, <2>2
  <2>3. CASE output' = [output EXCEPT ![j].dir = "state"]
      BY <1>1, <2>3
  <2>4. CASE \E valid \in BOOLEAN :
               output' = [output EXCEPT ![j].report = @ \/ valid]
    <3>1. PICK valid \in BOOLEAN :
            output' = [output EXCEPT ![j].report = @ \/ valid]
        BY <2>4
    <3>2. [d EXCEPT !.report = @ \/ valid]
            \in [dir : {"none", "games", "state"}, report : BOOLEAN]
        BY <1>1
    <3>3. output' = [output EXCEPT ![j] = [d EXCEPT !.report = @ \/ valid]]
        BY <3>1
    <3>4. d.report => [d EXCEPT !.report = @ \/ valid].report
        BY <1>1
    <3> QED
        BY <3>2, <3>3, <3>4
  <2> QED
      BY <1>3, <2>1, <2>2, <2>3, <2>4
<1> QED
    BY <1>2, <1>4, <1>5, EngineStep

LEMMA WriteReceiptStep ==
    ASSUME IInv, NEW j \in Jobs, WriteReceipt(j) PROVE IInv'
<1>1. /\ Typed /\ ThreadKnows(j) /\ thread[j].pc = "exit"
      /\ UNCHANGED <<state, quarantine, evidence, manifest, world, main>>
    BY DEF IInv, WriteReceipt
<1>2. PICK n \in 1..MaxAttempts : n = thread[j].n
    BY <1>1, ThreadType
<1> DEFINE a == <<j, n>>
           new == [resume |-> thread[j].resume, result |-> thread[j].result]
<1>3. /\ a \in Attempts /\ receipt[a] = None /\ evidence[a] = "none"
      /\ thread[j].result \in Results
    BY <1>1, <1>2, AttemptPairs DEF ThreadKnows, Knows, Unfiled
<1>4. /\ new \in [resume : BOOLEAN, result : Results \union {"none"}]
      /\ new # None /\ new.result \in Results
    BY <1>1, <1>3, ThreadType, Kinds DEF None
<1>5. \/ /\ UNCHANGED receipt
         /\ thread' = [thread EXCEPT ![j].pc = "error"]
      \/ /\ receipt' = [receipt EXCEPT ![a] = new]
         /\ thread' = [thread EXCEPT ![j].pc = "classify"]
    BY <1>2 DEF WriteReceipt, Set
<1>6. /\ receipt \in [Attempts -> [resume : BOOLEAN,
                                   result : Results \union {"none"}]]
      /\ thread \in [Jobs -> ThreadRecords]
    BY <1>1 DEF Typed, TypeOK, ThreadRecords
<1>7. /\ receipt' \in [Attempts -> [resume : BOOLEAN,
                                    result : Results \union {"none"}]]
      /\ thread' \in [Jobs -> ThreadRecords]
  <2> HIDE DEF new
  <2>1. PICK pc \in Places : thread' = [thread EXCEPT ![j].pc = pc]
      BY <1>5 DEF Places
  <2>2. [thread[j] EXCEPT !.pc = pc] \in ThreadRecords
      BY <1>6 DEF ThreadRecords
  <2>3. thread' \in [Jobs -> ThreadRecords]
      BY <2>1, <2>2, <1>6
  <2> QED
      BY <2>3, <1>4, <1>5, <1>6
<1>8. Typed'
    BY <1>1, <1>7 DEF Typed, TypeOK, world, ThreadRecords
<1>9. Turns(j)
    BY <1>1, <1>2, <1>3, <1>5, <1>6
       DEF Turns, world, ThreadRecords, ReportIsValid
<1>10. ThreadKnows(j)'
    BY <1>1, <1>2, <1>3, <1>4, <1>5, <1>6
       DEF ThreadKnows, Knows, Filed, ThreadRecords
<1>11. IsBacked(j, n)'
    BY <1>1, <1>3 DEF IsBacked
<1>12. receipt'[a] # None => receipt'[a].result \in Results
    BY <1>3, <1>4, <1>5, <1>6
<1> QED
    BY <1>1, <1>2, <1>8, <1>9, <1>10, <1>11, <1>12, TurnHolds

LEMMA ClassifyStep ==
    ASSUME IInv, NEW j \in Jobs, Classify(j) PROVE IInv'
<1>1. /\ Typed /\ ThreadKnows(j) /\ thread[j].pc = "classify"
      /\ UNCHANGED <<state, receipt, evidence, manifest, world, main>>
    BY DEF IInv, Classify
<1>2. PICK n \in 1..MaxAttempts : n = thread[j].n
    BY <1>1, ThreadType
<1>3. /\ Filed(j, n) /\ thread[j].result \in Results /\ <<j, n>> \in Attempts
    BY <1>1, <1>2, AttemptPairs DEF ThreadKnows, Knows
<1>4. /\ Outcome(j) \in Settled
      /\ Outcome(j) = "completed" => ReportIsValid(j)
    BY <1>3, Kinds DEF Outcome, Settled, Failures
<1>5. /\ thread' = [thread EXCEPT ![j].pc = "evidence",
                                  ![j].result = Outcome(j)]
      /\ quarantine \subseteq quarantine' /\ quarantine' \subseteq Attempts
      /\ Outcome(j) # "completed" => <<j, n>> \in quarantine'
    BY <1>1, <1>2, <1>3 DEF Classify, Typed, TypeOK
<1>6. thread \in [Jobs -> ThreadRecords]
    BY <1>1 DEF Typed, ThreadRecords
<1>7. /\ thread' \in [Jobs -> ThreadRecords]
      /\ thread'[j].pc = "evidence" /\ thread'[j].result = Outcome(j)
      /\ thread'[j].n = n
      /\ \A i \in Jobs \ {j} : thread'[i] = thread[i]
    BY <1>2, <1>4, <1>5, <1>6 DEF ThreadRecords, Places, Reported
<1>8. Typed'
    BY <1>1, <1>5, <1>7 DEF Typed, TypeOK, world, ThreadRecords
<1>9. Turns(j)
    BY <1>1, <1>2, <1>5, <1>7 DEF Turns, world, ReportIsValid
<1>10. ThreadKnows(j)'
  <2>1. Filed(j, n)' /\ (ReportIsValid(j) => ReportIsValid(j)')
      BY <1>1, <1>3 DEF Filed, world, ReportIsValid
  <2> QED
      BY <2>1, <1>4, <1>5, <1>7 DEF ThreadKnows, Knows, Filed
<1>11. IsBacked(j, n)'
    BY <1>1, <1>3 DEF IsBacked, Filed
<1>12. receipt'[<<j, n>>] # None => receipt'[<<j, n>>].result \in Results
    BY <1>1 DEF IInv, ReceiptsAreFiled
<1> QED
    BY <1>1, <1>2, <1>8, <1>9, <1>10, <1>11, <1>12, TurnHolds

LEMMA WriteEvidenceStep ==
    ASSUME IInv, NEW j \in Jobs, WriteEvidence(j) PROVE IInv'
<1>1. /\ Typed /\ ThreadKnows(j) /\ thread[j].pc = "evidence"
      /\ UNCHANGED <<state, receipt, quarantine, manifest, world, main>>
    BY DEF IInv, WriteEvidence
<1>2. PICK n \in 1..MaxAttempts : n = thread[j].n
    BY <1>1, ThreadType
<1> DEFINE result == thread[j].result
<1>3. /\ Filed(j, n) /\ result \in Settled /\ <<j, n>> \in Attempts
      /\ IF result = "completed" THEN ReportIsValid(j)
                                 ELSE <<j, n>> \in quarantine
    BY <1>1, <1>2, AttemptPairs DEF ThreadKnows, Knows
<1>4. /\ evidence' = [evidence EXCEPT ![<<j, n>>] = result]
      /\ thread' = [thread EXCEPT ![j].pc = "done"]
    BY <1>2 DEF WriteEvidence, Set
<1>5. /\ thread \in [Jobs -> ThreadRecords]
      /\ evidence \in [Attempts -> Settled \union {"none"}]
    BY <1>1 DEF Typed, TypeOK, ThreadRecords
<1>6. /\ thread' \in [Jobs -> ThreadRecords]
      /\ thread'[j].pc = "done" /\ thread'[j].result = result
      /\ thread'[j].n = n
      /\ \A i \in Jobs \ {j} : thread'[i] = thread[i]
      /\ evidence' \in [Attempts -> Settled \union {"none"}]
      /\ evidence'[<<j, n>>] = result
      /\ \A a \in Attempts : a # <<j, n>> => evidence'[a] = evidence[a]
    BY <1>2, <1>3, <1>4, <1>5 DEF ThreadRecords, Places
<1>7. Typed'
    BY <1>1, <1>6 DEF Typed, TypeOK, world, ThreadRecords
<1>8. Turns(j)
    BY <1>1, <1>2, <1>3, <1>6 DEF Turns, world, ReportIsValid, Filed
<1>9. ThreadKnows(j)'
    BY <1>3, <1>6 DEF ThreadKnows, Knows
<1>10. IsBacked(j, n)'
    BY <1>1, <1>3, <1>6
       DEF IsBacked, EvidenceStands, Filed, world, ReportIsValid
<1>11. receipt'[<<j, n>>] # None => receipt'[<<j, n>>].result \in Results
    BY <1>1 DEF IInv, ReceiptsAreFiled
<1> QED
    BY <1>1, <1>2, <1>7, <1>8, <1>9, <1>10, <1>11, TurnHolds

LEMMA WorkerStep ==
    ASSUME IInv, NEW j \in Jobs, Worker(j) PROVE IInv'
BY StartStep, RunSteps, WriteReceiptStep, ClassifyStep, WriteEvidenceStep
   DEF Worker
-----------------------------------------------------------------------------
(* The steps of the coordinator and of the environment                     *)

\* The logs, the receipts and the evidence stay.
LEMMA LogsStay ==
    ASSUME IInv, Typed', state'.attempts = state.attempts,
           UNCHANGED <<receipt, quarantine, evidence>>,
           \A j \in Jobs : ReportIsValid(j) => ReportIsValid(j)',
           main'.pc # "idle" => main'.attempts = state.attempts,
           \A j \in Jobs :
               \/ thread'[j] = Off
               \/ /\ thread'[j] = thread[j]
                  /\ main.pc = "gather" /\ j \in main.batch
                     /\ thread[j] # Off =>
                        main'.pc = "gather" /\ j \in main'.batch,
           \A j \in Jobs : orphan'[j] # "none" => Log(j) # <<>>,
           PlanIsFollowed', ManifestIsClosed'
    PROVE  IInv'
<1>1. \A j \in Jobs : Log(j)' = Log(j)
    BY DEF Log
<1>2. JournalIsKept'
    BY <1>1 DEF IInv, JournalIsKept, LogIsKept
<1>3. EvidenceIsBacked'
    BY EvidenceStays DEF IInv
<1>4. RecordsAreEvident'
    BY <1>1 DEF IInv, RecordsAreEvident
<1>5. ReceiptsAreFiled'
    BY <1>1 DEF IInv, ReceiptsAreFiled
<1>6. OrphansAreJournaled'
    BY <1>1 DEF OrphansAreJournaled
<1>7. ASSUME NEW j \in Jobs PROVE ThreadIsJournaled(j)' /\ ThreadKnows(j)'
  <2>1. CASE thread'[j] = Off
      BY <2>1, OffKnows
  <2>2. CASE thread'[j] = thread[j] /\ thread[j] # Off
    <3>1. ThreadKnows(j)'
        BY <2>2, KnowsStays DEF IInv
    <3>2. ThreadIsJournaled(j)'
        BY <1>1, <2>2, OffType DEF IInv, ThreadIsJournaled, Latest
    <3> QED
        BY <3>1, <3>2
  <2> QED
      BY <2>1, <2>2
<1> QED
    BY <1>2, <1>3, <1>4, <1>5, <1>6, <1>7 DEF IInv

\* No thread works outside a batch.
LEMMA ThreadsAreOff ==
    ASSUME IInv, NEW j \in Jobs, main.pc # "gather" \/ j \notin main.batch
    PROVE  thread[j].pc = "off"
BY DEF IInv, ThreadIsJournaled

MainRecords == [pc : {"idle", "batch", "gather", "publish"},
                attempts : [Jobs -> Seq(Records)], pending : SUBSET Jobs,
                batch : SUBSET Jobs, loaded : Statuses,
                worked : BOOLEAN, failed : BOOLEAN]
LEMMA TypedStays ==
    ASSUME Typed, UNCHANGED <<receipt, quarantine, evidence>>,
           state' \in [status : Statuses, attempts : [Jobs -> Seq(Records)]],
           output' \in [Jobs -> [dir : {"none", "games", "state"},
                                 report : BOOLEAN]],
           orphan' \in [Jobs -> Engines \union {"none"}],
           manifest' \in [Jobs -> Seq(Records)],
           approved' \in BOOLEAN, main' \in MainRecords,
           thread' \in [Jobs -> ThreadRecords]
    PROVE  Typed'
BY DEF Typed, TypeOK, MainRecords, ThreadRecords, Statuses

LEMMA TypesAre ==
    ASSUME Typed
    PROVE  /\ state \in [status : Statuses, attempts : [Jobs -> Seq(Records)]]
           /\ output \in [Jobs -> [dir : {"none", "games", "state"},
                                   report : BOOLEAN]]
           /\ orphan \in [Jobs -> Engines \union {"none"}]
           /\ manifest \in [Jobs -> Seq(Records)]
           /\ approved \in BOOLEAN /\ main \in MainRecords
           /\ thread \in [Jobs -> ThreadRecords]
BY DEF Typed, TypeOK, MainRecords, ThreadRecords, Statuses

LEMMA InvokeStep == ASSUME IInv, Invoke PROVE IInv'
<1>1. Typed /\ main.pc = "idle"
    BY DEF IInv, Invoke
<1>2. PICK retry \in BOOLEAN :
        LET todo == Pending(state.attempts, retry) IN
        /\ ~IsExhausted(state.attempts, retry)
        /\ main' = [Idle EXCEPT !.pc = "batch", !.attempts = state.attempts,
                       !.pending = todo, !.loaded = state.status,
                       !.worked = todo # {}]
        /\ IF todo # {} \/ state.status \notin Terminal
           THEN Save("running", state.attempts) ELSE state' = state
    BY DEF Invoke
<1> DEFINE todo == Pending(state.attempts, retry)
<1>3. UNCHANGED <<receipt, quarantine, evidence, manifest, world, thread>>
    BY DEF Invoke
<1>4. todo \subseteq Jobs
    BY DEF Pending
<1>5. /\ main' \in MainRecords /\ main'.pc = "batch"
      /\ main'.attempts = state.attempts
      /\ main'.pending = todo /\ main'.batch = {}
    BY <1>1, <1>2, <1>4, TypesAre, IdleType DEF MainRecords, Idle
<1>6. /\ state'.attempts = state.attempts
      /\ state' \in [status : Statuses, attempts : [Jobs -> Seq(Records)]]
    BY <1>1, <1>2, TypesAre DEF Save, Statuses
<1>7. Typed'
    BY <1>1, <1>3, <1>5, <1>6, TypesAre, TypedStays DEF world
<1>8. \A j \in todo : MayStart(Log(j))
  <2> SUFFICES ASSUME NEW j \in todo PROVE MayStart(Log(j))
      OBVIOUS
  <2>1. j \in Jobs
      BY <1>4
  <2>2. Len(Log(j)) <= MaxAttempts /\ Len(Log(j)) \in Nat
      BY <1>1, <2>1, LogType DEF IInv, JournalIsKept, LogIsKept
  <2>3. Log(j) = <<>> \/ Log(j)[Len(Log(j))] = "running"
        \/ Log(j)[Len(Log(j))] \in Failures
      BY DEF Pending, Fresh, Latest, Log
  <2>4. Len(Log(j)) # MaxAttempts \/ Log(j)[Len(Log(j))] = "running"
      BY <1>2, <2>1 DEF IsExhausted, Latest, Log
  <2> QED
      BY <2>2, <2>3, <2>4, Constants DEF MayStart
<1>9. \A j \in Jobs \ todo : Log(j) # <<>>
    BY DEF Pending, Fresh, Log
<1>10. \A j \in Jobs : Log(j)' = Log(j)
    BY <1>6 DEF Log
<1>11. PlanIsFollowed'
  <2>1. \A j \in todo : MayStart(Log(j)')
      BY <1>4, <1>8, <1>10
  <2> QED
      BY <1>4, <1>5, <1>9, <1>10, <2>1 DEF PlanIsFollowed, MayStart
<1>12. ManifestIsClosed'
  <2>1. manifest # NoAttempts => todo = {}
      BY Kinds DEF IInv, ManifestIsClosed, Pending, Fresh, Latest, Log
  <2> QED
      BY <1>3, <1>5, <1>6, <1>10, <2>1 DEF IInv, ManifestIsClosed, Latest
<1>13. \A j \in Jobs : orphan'[j] # "none" => Log(j) # <<>>
    BY <1>3 DEF IInv, OrphansAreJournaled, world
<1>14. \A j \in Jobs : ReportIsValid(j) => ReportIsValid(j)'
    BY <1>3 DEF world, ReportIsValid
<1> QED
    BY <1>1, <1>3, <1>5, <1>6, <1>7, <1>11, <1>12, <1>13, <1>14, LogsStay

\* The coordinator turns to the next batch, ends or publishes.
LEMMA EndSteps ==
    ASSUME IInv, EndBatch \/ Finish \/ Publish PROVE IInv'
<1>1. /\ Typed
      /\ main \in MainRecords /\ main.attempts = state.attempts
      /\ main.batch = {} /\ main.pc # "idle"
    BY TypesAre DEF IInv, JournalIsKept, PlanIsFollowed, EndBatch, Finish,
       Publish
<1>2. UNCHANGED <<receipt, quarantine, evidence, world, thread>>
    BY DEF EndBatch, Finish, Publish
<1>3. /\ state'.attempts = state.attempts
      /\ state' \in [status : Statuses, attempts : [Jobs -> Seq(Records)]]
  <2>1. CASE state' = state
      BY <1>1, <2>1, TypesAre
  <2>2. CASE \E status \in Statuses : Save(status, state.attempts)
      BY <1>1, <2>2, TypesAre DEF Save
  <2>3. CASE EndBatch
      BY <1>1, <2>1, <2>2, <2>3 DEF EndBatch, Statuses
  <2>4. CASE Finish
    <3>1. FinalStatus(main.attempts) \in Statuses
        BY DEF FinalStatus, Statuses, Terminal
    <3> QED
        BY <1>1, <2>1, <2>2, <2>4, <3>1 DEF Finish
  <2>5. CASE Publish
      BY <2>1, <2>5 DEF Publish
  <2> QED
      BY <2>3, <2>4, <2>5
<1>4. \/ main' = Idle
      \/ main' = [main EXCEPT !.pc = "batch"]
      \/ /\ main' = [main EXCEPT !.pc = "publish"] /\ main.pending = {}
         /\ \A j \in Jobs : Latest(state.attempts, j) = "completed"
    BY <1>1 DEF EndBatch, Finish, Publish, FinalStatus, Terminal
<1>5. main' \in MainRecords
    BY <1>1, <1>4, IdleType DEF MainRecords
<1>6. \A j \in Jobs : Log(j)' = Log(j)
    BY <1>3 DEF Log
<1>7. manifest' = manifest \/ (manifest' = main.attempts /\ main' = Idle
                               /\ main.pc = "publish")
    BY DEF EndBatch, Finish, Publish
<1>8. Typed'
  <2>1. manifest' \in [Jobs -> Seq(Records)]
      BY <1>1, <1>7, TypesAre DEF MainRecords
  <2> QED
      BY <1>1, <1>2, <1>3, <1>5, <2>1, TypesAre, TypedStays DEF world
<1>9. PlanIsFollowed'
  <2>1. CASE main' = Idle
      BY <2>1, IdleType DEF PlanIsFollowed
  <2>2. CASE main' # Idle
    <3>1. /\ main'.pending = main.pending /\ main'.batch = {}
          /\ main'.pc \in {"batch", "publish"}
          /\ main'.pc = "publish" => main.pending = {} /\
                \A j \in Jobs : Latest(state.attempts, j) = "completed"
        BY <1>1, <1>4, <2>2 DEF MainRecords
    <3>2. \A j \in main.pending : MayStart(Log(j)')
        BY <1>1, <1>6 DEF IInv, PlanIsFollowed, MainRecords
    <3>3. \A j \in Jobs \ main.pending : Log(j)' # <<>>
        BY <1>1, <1>6 DEF IInv, PlanIsFollowed
    <3> QED
        BY <1>3, <3>1, <3>2, <3>3 DEF PlanIsFollowed, MayStart, Latest
  <2> QED
      BY <2>1, <2>2
<1>10. ManifestIsClosed'
  <2>1. CASE manifest' = manifest
    <3>1. main'.pending \in {main.pending, {}} /\ main'.pc # "gather"
        BY <1>1, <1>4, IdleType DEF MainRecords
    <3> QED
        BY <1>3, <1>6, <2>1, <3>1 DEF IInv, ManifestIsClosed, Latest
  <2>2. CASE manifest' = main.attempts /\ main' = Idle /\ main.pc = "publish"
    <3>1. \A j \in Jobs :
             Log(j) # <<>> /\ Latest(state.attempts, j) = "completed"
        BY <2>2 DEF IInv, PlanIsFollowed
    <3> QED
        BY <1>1, <1>3, <1>6, <2>2, <3>1, IdleType DEF ManifestIsClosed
  <2> QED
      BY <1>7, <2>1, <2>2
<1>11. \A j \in Jobs : thread'[j] = thread[j] /\ thread[j].pc = "off"
    BY <1>1, <1>2, ThreadsAreOff
<1>12. \A j \in Jobs : ReportIsValid(j) => ReportIsValid(j)'
    BY <1>2 DEF world, ReportIsValid
<1>13. main'.pc # "idle" => main'.attempts = state.attempts
    BY <1>1, <1>4, IdleType DEF MainRecords
<1>14. \A j \in Jobs : orphan'[j] # "none" => Log(j) # <<>>
    BY <1>2 DEF IInv, OrphansAreJournaled, world
<1> QED
    BY <1>1, <1>2, <1>3, <1>8, <1>9, <1>10, <1>11, <1>12, <1>13, <1>14,
       LogsStay

LEMMA GatherErrorStep ==
    ASSUME IInv, NEW j \in Jobs, GatherError(j) PROVE IInv'
<1>1. /\ Typed /\ main \in MainRecords /\ main.attempts = state.attempts
      /\ main.pc = "gather" /\ j \in main.batch
      /\ main' = [main EXCEPT !.batch = @ \ {j}, !.failed = TRUE]
      /\ thread' = [thread EXCEPT ![j] = Off]
      /\ UNCHANGED <<files, world>>
    BY TypesAre DEF IInv, JournalIsKept, GatherError
<1>2. /\ main' \in MainRecords /\ main'.pc = "gather"
      /\ main'.pending = main.pending /\ main'.attempts = state.attempts
      /\ main'.batch = main.batch \ {j}
    BY <1>1 DEF MainRecords
<1>3. /\ thread' \in [Jobs -> ThreadRecords] /\ thread'[j] = Off
      /\ \A i \in Jobs \ {j} : thread'[i] = thread[i]
    BY <1>1, TypesAre, OffType DEF ThreadRecords
<1>4. Typed'
    BY <1>1, <1>2, <1>3, TypesAre, TypedStays DEF world, files
<1>5. PlanIsFollowed'
  <2>1. \A i \in main.pending : MayStart(Log(i))'
      BY <1>1 DEF IInv, PlanIsFollowed, MainRecords, MayStart, Log, files
  <2>2. \A i \in Jobs \ main.pending : Log(i)' # <<>>
      BY <1>1 DEF IInv, PlanIsFollowed, Log, files
  <2> QED
      BY <1>1, <1>2, <2>1, <2>2 DEF IInv, PlanIsFollowed
<1>6. manifest = NoAttempts
    BY <1>1 DEF IInv, ManifestIsClosed
<1>7. ManifestIsClosed'
    BY <1>1, <1>6 DEF ManifestIsClosed, files
<1>8. \A i \in Jobs : ReportIsValid(i) => ReportIsValid(i)'
    BY <1>1 DEF world, ReportIsValid
<1>9. \A i \in Jobs : orphan'[i] # "none" => Log(i) # <<>>
    BY <1>1 DEF IInv, OrphansAreJournaled, world
<1> QED
    BY <1>1, <1>2, <1>3, <1>4, <1>5, <1>7, <1>8, <1>9, LogsStay DEF files

LEMMA CrashStep == ASSUME IInv, Crash PROVE IInv'
<1>1. /\ Typed /\ main' = Idle /\ thread' = [j \in Jobs |-> Off]
      /\ \/ orphan' = [j \in Jobs |-> LeftBehind(j)]
         \/ orphan' = [j \in Jobs |-> "none"]
      /\ UNCHANGED <<files, output, approved>>
    BY DEF IInv, Crash
<1>2. ASSUME NEW j \in Jobs
      PROVE  /\ LeftBehind(j) \in Engines \union {"none"}
             /\ LeftBehind(j) # "none" => Log(j) # <<>>
  <2>1. orphan[j] \in Engines \union {"none"}
      BY <1>1, TypesAre
  <2>2. thread[j].pc # "off" => Log(j) # <<>>
    <3>1. Typed /\ ThreadIsJournaled(j)
        BY DEF IInv
    <3>2. thread[j].n > 0
      <4>1. thread[j].n \in 1..MaxAttempts
          BY <3>1, ThreadType
      <4> QED
          BY <4>1, Constants
    <3> QED
        BY <3>1, <3>2, LogType DEF ThreadIsJournaled
  <2>3. orphan[j] # "none" => Log(j) # <<>>
      BY DEF IInv, OrphansAreJournaled
  <2> QED
      BY <2>1, <2>2, <2>3 DEF LeftBehind, Locked, Engines
<1>3. /\ orphan' \in [Jobs -> Engines \union {"none"}]
      /\ \A j \in Jobs : orphan'[j] # "none" => Log(j) # <<>>
    BY <1>1, <1>2
<1>4. main' \in MainRecords /\ thread' \in [Jobs -> ThreadRecords]
    BY <1>1, IdleType, OffType DEF MainRecords, ThreadRecords
<1>5. Typed'
    BY <1>1, <1>3, <1>4, TypesAre, TypedStays DEF files
<1>6. PlanIsFollowed'
    BY <1>1, IdleType DEF PlanIsFollowed
<1>7. ManifestIsClosed'
    BY <1>1, IdleType DEF IInv, ManifestIsClosed, Log, files
<1>8. \A j \in Jobs : ReportIsValid(j) => ReportIsValid(j)'
    BY <1>1 DEF ReportIsValid
<1> QED
    BY <1>1, <1>3, <1>5, <1>6, <1>7, <1>8, IdleType, LogsStay DEF files

\* An engine left behind, an input that changes, or nothing.
LEMMA OutsideStep ==
    ASSUME IInv,
           Drift \/ Restore \/ UNCHANGED vars \/ \E j \in Jobs : OrphanRuns(j)
    PROVE  IInv'
<1>1. /\ Typed /\ UNCHANGED <<files, main, thread>>
    BY DEF IInv, Drift, Restore, vars, OrphanRuns
<1>2. approved' \in BOOLEAN
    BY <1>1, TypesAre DEF Drift, Restore, vars, OrphanRuns, world
<1>3. /\ output' \in [Jobs -> [dir : {"none", "games", "state"},
                               report : BOOLEAN]]
      /\ orphan' \in [Jobs -> Engines \union {"none"}]
      /\ \A j \in Jobs : output[j].report => output'[j].report
      /\ \A j \in Jobs : orphan'[j] # "none" => orphan[j] # "none"
  <2>1. CASE UNCHANGED <<output, orphan>>
      BY <1>1, <2>1, TypesAre
  <2>2. ASSUME NEW j \in Jobs, OrphanRuns(j)
        PROVE  <1>3!:
    <3>1. /\ output \in [Jobs -> [dir : {"none", "games", "state"},
                                  report : BOOLEAN]]
          /\ orphan \in [Jobs -> Engines \union {"none"}]
        BY <1>1, TypesAre
    <3>2. orphan[j] \in Engines
        BY <2>2 DEF OrphanRuns, Engines
    <3>3. \E o \in Engines \union {"none"} : orphan' = [orphan EXCEPT ![j] = o]
        BY <2>2 DEF OrphanRuns, Engines
    <3>4. \E d \in [dir : {"none", "games", "state"}, report : BOOLEAN] :
             /\ output[j].report => d.report
             /\ output' = [output EXCEPT ![j] = d]
      <4>1. CASE UNCHANGED output
          BY <3>1, <4>1
      <4>2. CASE output' = [output EXCEPT ![j].dir = "games"]
                 \/ output' = [output EXCEPT ![j].dir = "state"]
          BY <3>1, <4>2
      <4>3. ASSUME NEW valid \in BOOLEAN,
                   output' = [output EXCEPT ![j].report = @ \/ valid]
            PROVE  <3>4!:
          BY <3>1, <4>3
      <4> QED
          BY <2>2, <4>1, <4>2, <4>3 DEF OrphanRuns
    <3> QED
        BY <3>1, <3>2, <3>3, <3>4 DEF Engines
  <2> QED
      BY <2>1, <2>2 DEF Drift, Restore, vars, world
<1>4. Typed'
    BY <1>1, <1>2, <1>3, TypesAre, TypedStays DEF files
<1>5. PlanIsFollowed'
    BY <1>1, TypesAre
       DEF IInv, PlanIsFollowed, files, Log, Latest, MayStart, MainRecords
<1>6. ManifestIsClosed'
    BY <1>1 DEF IInv, ManifestIsClosed, files, Log
<1>7. \A j \in Jobs : ReportIsValid(j) => ReportIsValid(j)'
    BY <1>3 DEF ReportIsValid
<1>8. \A j \in Jobs : orphan'[j] # "none" => Log(j) # <<>>
    BY <1>3 DEF IInv, OrphansAreJournaled
<1>9. main'.pc # "idle" => main'.attempts = state.attempts
    BY <1>1 DEF IInv, JournalIsKept
<1> QED
    BY <1>1, <1>4, <1>5, <1>6, <1>7, <1>8, <1>9, LogsStay DEF files

\* What a batch adds to a log: nothing, or a running record at its end.
LEMMA JournaledLogs ==
    ASSUME NEW attempts \in [Jobs -> Seq(Records)], NEW batch, NEW j \in Jobs
    PROVE  LET old == attempts[j]
               new == Journaled(attempts, batch)[j]
           IN  /\ new \in Seq(Records)
               /\ Len(new) \in Nat /\ Len(old) \in Nat /\ Len(old) <= Len(new)
               /\ \A n \in 1..Len(old) : new[n] = old[n]
               /\ j \notin batch => new = old
               /\ j \in batch => new # <<>> /\ new[Len(new)] = "running"
               /\ \/ new = old
                  \/ /\ Len(new) = Len(old) + 1 /\ new[Len(new)] = "running"
                     /\ old = <<>> \/ old[Len(old)] # "running"
<1> DEFINE old == attempts[j]
<1>1. old \in Seq(Records) /\ Len(old) \in Nat
    BY LenProperties
<1> DEFINE grows == j \in batch /\ (Fresh(attempts, j)
                                  \/ Latest(attempts, j) # "running")
<1>2. CASE grows
  <2>1. Journaled(attempts, batch)[j] = Append(old, "running")
      BY <1>2 DEF Journaled
  <2>2. old = <<>> \/ old[Len(old)] # "running"
      BY <1>2 DEF Fresh, Latest
  <2> HIDE DEF old
  <2> QED
      BY <1>1, <1>2, <2>1, <2>2, Kinds, AppendProperties DEF old
<1>3. CASE ~grows
  <2>1. Journaled(attempts, batch)[j] = old
      BY <1>3 DEF Journaled
  <2>2. j \in batch => old # <<>> /\ old[Len(old)] = "running"
      BY <1>3 DEF Fresh, Latest
  <2> QED
      BY <1>1, <2>1, <2>2
<1> QED
    BY <1>2, <1>3

LEMMA NextBatchStep == ASSUME IInv, NextBatch PROVE IInv'
<1> DEFINE batch == FirstOf(main.pending, Workers)
           attempts == Journaled(main.attempts, batch)
<1>1. /\ Typed /\ main \in MainRecords /\ main.pc = "batch"
      /\ main.attempts = state.attempts /\ main.pending # {}
    BY TypesAre DEF IInv, JournalIsKept, NextBatch
<1>2. /\ state' = [status |-> "running", attempts |-> attempts]
      /\ main' = [main EXCEPT !.pc = "gather", !.attempts = attempts,
                              !.batch = batch, !.pending = @ \ batch]
      /\ thread' = [j \in Jobs |->
            IF j \in batch
            THEN [Off EXCEPT !.pc = "start", !.n = Len(attempts[j])]
            ELSE thread[j]]
      /\ UNCHANGED <<receipt, quarantine, evidence, manifest, world>>
    BY DEF NextBatch, Save
<1>3. batch \subseteq main.pending /\ main.pending \subseteq Jobs
    BY <1>1 DEF FirstOf, MainRecords
<1> HIDE DEF batch
<1>4. ASSUME NEW j \in Jobs
      PROVE  LET new == attempts[j]
             IN  /\ new \in Seq(Records) /\ Len(new) \in Nat
                 /\ Len(Log(j)) \in Nat /\ Len(Log(j)) <= Len(new)
                 /\ \A n \in 1..Len(Log(j)) : new[n] = Log(j)[n]
                 /\ j \notin batch => new = Log(j)
                 /\ j \in batch => new # <<>> /\ new[Len(new)] = "running"
                 /\ \/ new = Log(j)
                    \/ /\ Len(new) = Len(Log(j)) + 1
                       /\ new[Len(new)] = "running"
                       /\ Log(j) = <<>> \/ Log(j)[Len(Log(j))] # "running"
  <2>1. main.attempts \in [Jobs -> Seq(Records)] /\ main.attempts[j] = Log(j)
      BY <1>1 DEF Log, MainRecords
  <2> HIDE DEF attempts
  <2>2. attempts = Journaled(main.attempts, batch)
      BY DEF attempts
  <2> QED
      BY <2>1, <2>2, JournaledLogs
<1>5. attempts \in [Jobs -> Seq(Records)]
    BY <1>4 DEF Journaled
<1> HIDE DEF attempts
<1>6. \A j \in Jobs : Log(j)' = attempts[j]
    BY <1>2 DEF Log
<1>7. ASSUME NEW j \in Jobs PROVE LogIsKept(attempts[j])
  <2>1. LogIsKept(Log(j))
      BY DEF IInv, JournalIsKept
  <2>2. CASE attempts[j] = Log(j)
      BY <2>1, <2>2
  <2>3. CASE attempts[j] # Log(j)
    <3>1. j \in batch /\ MayStart(Log(j))
        BY <1>3, <1>4, <2>3 DEF IInv, PlanIsFollowed
    <3>2. Log(j) = <<>> \/ (Log(j)[Len(Log(j))] \in Failures
                            /\ Len(Log(j)) < MaxAttempts)
        BY <1>4, <2>3, <3>1 DEF MayStart
    <3>3. Len(attempts[j]) = Len(Log(j)) + 1 /\ Len(Log(j)) \in Nat
        BY <1>4, <2>3
    <3>4. Len(Log(j)) < MaxAttempts
        BY <1>1, <3>2, <3>3, LogType, Constants
    <3>5. ASSUME NEW n \in 1..Len(Log(j)) PROVE attempts[j][n] \in Failures
      <4>1. attempts[j][n] = Log(j)[n]
          BY <1>4
      <4>2. CASE n < Len(Log(j))
          BY <2>1, <4>1, <4>2 DEF LogIsKept
      <4>3. CASE n = Len(Log(j))
          BY <1>1, <3>2, <4>1, <4>3, LogType
      <4> QED
          BY <3>3, <4>2, <4>3
    <3> QED
        BY <3>3, <3>4, <3>5, Constants DEF LogIsKept
  <2> QED
      BY <2>2, <2>3
<1>8. /\ main' \in MainRecords /\ main'.pc = "gather"
      /\ main'.attempts = attempts /\ main'.batch = batch
      /\ main'.pending = main.pending \ batch
    BY <1>1, <1>2, <1>3, <1>5 DEF MainRecords
<1>9. /\ thread' \in [Jobs -> ThreadRecords]
      /\ \A j \in Jobs :
            IF j \in batch THEN thread'[j].pc = "start"
                                /\ thread'[j].n = Len(attempts[j])
                           ELSE thread'[j] = thread[j]
  <2>1. ASSUME NEW j \in Jobs, j \in batch
        PROVE  Len(attempts[j]) \in 1..MaxAttempts
    <3>1. Len(attempts[j]) > 0
        BY <1>4, <2>1, EmptySeq
    <3> QED
        BY <1>4, <1>7, <3>1, Constants DEF LogIsKept
  <2> QED
      BY <1>1, <1>2, <2>1, TypesAre, OffType DEF ThreadRecords, Places
<1>10. Typed'
  <2>1. state' \in [status : Statuses, attempts : [Jobs -> Seq(Records)]]
      BY <1>2, <1>5 DEF Statuses
  <2> QED
      BY <1>1, <1>2, <1>8, <1>9, <2>1, TypesAre, TypedStays DEF world
<1>11. JournalIsKept'
    BY <1>2, <1>6, <1>7, <1>8 DEF JournalIsKept, LogIsKept
<1>12. PlanIsFollowed'
  <2>1. ASSUME NEW j \in main.pending \ batch PROVE MayStart(Log(j))'
    <3>1. Log(j)' = Log(j) /\ MayStart(Log(j))
        BY <1>3, <1>4, <1>6 DEF IInv, PlanIsFollowed
    <3> QED
        BY <3>1 DEF MayStart
  <2>2. ASSUME NEW j \in Jobs, j \notin main.pending \ batch
        PROVE  Log(j)' # <<>>
    <3>1. CASE j \in batch
        BY <1>4, <1>6, <3>1
    <3>2. CASE j \notin batch
        BY <1>1, <1>4, <1>6, <2>2, <3>2 DEF IInv, PlanIsFollowed
    <3> QED
        BY <3>1, <3>2
  <2> QED
      BY <1>3, <1>8, <2>1, <2>2 DEF PlanIsFollowed
<1>13. EvidenceIsBacked'
    BY <1>2, EvidenceStays DEF IInv, world, ReportIsValid
<1>14. RecordsAreEvident'
  <2> SUFFICES ASSUME NEW j \in Jobs, NEW n \in 1..Len(attempts[j]),
                      attempts[j][n] # "running"
               PROVE  evidence[<<j, n>>] = attempts[j][n]
      BY <1>2, <1>6 DEF RecordsAreEvident
  <2>1. n \in 1..Len(Log(j)) /\ attempts[j][n] = Log(j)[n]
      BY <1>4
  <2> QED
      BY <2>1 DEF IInv, RecordsAreEvident
<1>15. ReceiptsAreFiled'
  <2> SUFFICES ASSUME NEW j \in Jobs, NEW n \in 1..MaxAttempts,
                      receipt[<<j, n>>] # None
               PROVE  receipt[<<j, n>>].result \in Results
                      /\ n <= Len(attempts[j])
      BY <1>2, <1>6 DEF ReceiptsAreFiled
  <2>1. receipt[<<j, n>>].result \in Results /\ n <= Len(Log(j))
      BY DEF IInv, ReceiptsAreFiled
  <2> QED
      BY <1>4, <2>1, Constants
<1>16. OrphansAreJournaled'
  <2> SUFFICES ASSUME NEW j \in Jobs, orphan[j] # "none"
               PROVE  attempts[j] # <<>>
      BY <1>2, <1>6 DEF OrphansAreJournaled, world
  <2>1. Log(j) # <<>>
      BY DEF IInv, OrphansAreJournaled
  <2> QED
      BY <1>1, <1>4, <2>1, LogType, EmptySeq
<1>17. ASSUME NEW j \in Jobs PROVE ThreadIsJournaled(j)' /\ ThreadKnows(j)'
  <2>1. CASE j \in batch
    <3>1. ThreadKnows(j)'
        BY <1>9, <2>1 DEF ThreadKnows, Knows
    <3>2. ThreadIsJournaled(j)'
        BY <1>2, <1>4, <1>6, <1>8, <1>9, <2>1 DEF ThreadIsJournaled, Latest
    <3> QED
        BY <3>1, <3>2
  <2>2. CASE j \notin batch
    <3>1. thread'[j].pc = "off"
        BY <1>1, <1>9, <2>2, ThreadsAreOff
    <3> QED
        BY <3>1 DEF ThreadIsJournaled, ThreadKnows, Knows
  <2> QED
      BY <2>1, <2>2
<1>18. ManifestIsClosed'
    BY <1>1, <1>2 DEF IInv, ManifestIsClosed
<1> QED
    BY <1>10, <1>11, <1>12, <1>13, <1>14, <1>15, <1>16, <1>17, <1>18 DEF IInv

LEMMA GatherStep ==
    ASSUME IInv, NEW j \in Jobs, Gather(j) PROVE IInv'
<1> DEFINE log == Log(j)
           n == Len(log)
           result == thread[j].result
           new == [log EXCEPT ![n] = result]
           attempts == [state.attempts EXCEPT ![j] = new]
<1>1. /\ Typed /\ main \in MainRecords /\ main.attempts = state.attempts
      /\ main.pc = "gather" /\ j \in main.batch /\ thread[j].pc = "done"
      /\ thread[j].n = n /\ log[n] = "running"
      /\ result \in Settled /\ evidence[<<j, n>>] = result
      /\ n \in 1..MaxAttempts
  <2>1. ThreadIsJournaled(j) /\ ThreadKnows(j) /\ thread[j].pc = "done"
      BY DEF IInv, Gather
  <2>2. thread[j].n = n /\ log[n] = "running"
      BY <2>1 DEF ThreadIsJournaled, Latest, Log
  <2>3. result \in Settled /\ evidence[<<j, n>>] = result
      BY <2>1, <2>2 DEF ThreadKnows, Knows
  <2>4. Typed /\ thread[j].n \in 1..MaxAttempts
      BY ThreadType DEF IInv
  <2> QED
      BY <2>1, <2>2, <2>3, <2>4, TypesAre DEF IInv, JournalIsKept, Gather
<1>2. /\ new \in Seq(Records) /\ Len(new) = n
      /\ \A k \in 1..n : new[k] = IF k = n THEN result ELSE log[k]
  <2>1. log \in Seq(Records) /\ n \in 1..Len(log) /\ result \in Records
      BY <1>1, LogType, Kinds
  <2> QED
      BY <2>1, ExceptSeq
<1>3. /\ state' = [status |-> "running", attempts |-> attempts]
      /\ main' = [main EXCEPT !.attempts = attempts, !.batch = @ \ {j}]
      /\ thread' = [thread EXCEPT ![j] = Off]
      /\ UNCHANGED <<receipt, quarantine, evidence, manifest, world>>
  <2>1. [main.attempts EXCEPT ![j][thread[j].n] = thread[j].result] = attempts
      BY <1>1 DEF Log
  <2> QED
      BY <2>1 DEF Gather, Save
<1>4. /\ attempts \in [Jobs -> Seq(Records)] /\ attempts[j] = new
      /\ \A i \in Jobs \ {j} : attempts[i] = Log(i)
    BY <1>1, <1>2, TypesAre DEF Log
<1> HIDE DEF attempts, new
<1>5. \A i \in Jobs : Log(i)' = attempts[i]
    BY <1>3 DEF Log
<1>6. /\ main' \in MainRecords /\ main'.pc = "gather"
      /\ main'.attempts = attempts /\ main'.batch = main.batch \ {j}
      /\ main'.pending = main.pending
    BY <1>1, <1>3, <1>4 DEF MainRecords
<1>7. /\ thread' \in [Jobs -> ThreadRecords] /\ thread'[j] = Off
      /\ \A i \in Jobs \ {j} : thread'[i] = thread[i]
    BY <1>1, <1>3, TypesAre, OffType DEF ThreadRecords
<1>8. Typed'
  <2>1. state' \in [status : Statuses, attempts : [Jobs -> Seq(Records)]]
      BY <1>3, <1>4 DEF Statuses
  <2> QED
      BY <1>1, <1>3, <1>6, <1>7, <2>1, TypesAre, TypedStays DEF world
<1>9. JournalIsKept'
  <2>1. ASSUME NEW i \in Jobs PROVE LogIsKept(attempts[i])
    <3>1. LogIsKept(Log(i))
        BY DEF IInv, JournalIsKept
    <3>2. CASE i = j
      <4> HIDE DEF log
      <4> QED
          BY <1>1, <1>2, <1>4, <3>1, <3>2 DEF LogIsKept, log
    <3> QED
        BY <1>4, <3>1, <3>2
  <2> QED
      BY <1>3, <1>5, <1>6, <2>1 DEF JournalIsKept, LogIsKept
<1>10. new # <<>>
    BY <1>1, <1>2, EmptySeq
<1>11. PlanIsFollowed'
  <2>1. j \notin main.pending
      BY <1>1 DEF IInv, PlanIsFollowed
  <2>2. ASSUME NEW i \in main.pending PROVE MayStart(Log(i))'
    <3>1. i \in Jobs /\ Log(i)' = Log(i) /\ MayStart(Log(i))
        BY <1>1, <1>4, <1>5, <2>1 DEF IInv, PlanIsFollowed, MainRecords
    <3> QED
        BY <3>1 DEF MayStart
  <2>3. ASSUME NEW i \in Jobs \ main.pending PROVE Log(i)' # <<>>
      BY <1>1, <1>4, <1>5, <1>10 DEF IInv, PlanIsFollowed
  <2> QED
      BY <1>1, <1>6, <2>2, <2>3 DEF IInv, PlanIsFollowed
<1>12. EvidenceIsBacked'
    BY <1>3, EvidenceStays DEF IInv, world, ReportIsValid
<1>13. RecordsAreEvident'
  <2> SUFFICES ASSUME NEW i \in Jobs, NEW k \in 1..Len(attempts[i]),
                      attempts[i][k] # "running"
               PROVE  evidence[<<i, k>>] = attempts[i][k]
      BY <1>3, <1>5 DEF RecordsAreEvident
  <2>1. CASE i = j /\ k = n
      BY <1>1, <1>2, <1>4, <2>1
  <2>2. CASE ~(i = j /\ k = n)
    <3>1. k \in 1..Len(Log(i)) /\ attempts[i][k] = Log(i)[k]
        BY <1>2, <1>4, <2>2
    <3> QED
        BY <3>1 DEF IInv, RecordsAreEvident
  <2> QED
      BY <2>1, <2>2
<1>14. \A i \in Jobs : Len(attempts[i]) = Len(Log(i))
    BY <1>2, <1>4
<1>15. ReceiptsAreFiled'
    BY <1>3, <1>5, <1>14 DEF IInv, ReceiptsAreFiled
<1>16. OrphansAreJournaled'
    BY <1>3, <1>4, <1>5, <1>10 DEF IInv, OrphansAreJournaled, world
<1>17. ASSUME NEW i \in Jobs PROVE ThreadIsJournaled(i)' /\ ThreadKnows(i)'
  <2>1. CASE i = j
      BY <1>7, <2>1, OffKnows
  <2>2. CASE i # j
    <3>1. thread'[i] = thread[i] /\ Log(i)' = Log(i)
        BY <1>4, <1>5, <1>7, <2>2
    <3>2. ThreadKnows(i)'
        BY <1>3, <3>1, KnowsStays DEF IInv, world, ReportIsValid
    <3>3. ThreadIsJournaled(i)'
        BY <1>1, <1>6, <2>2, <3>1
           DEF IInv, ThreadIsJournaled, Latest, Log
    <3> QED
        BY <3>2, <3>3
  <2> QED
      BY <2>1, <2>2
<1>18. ManifestIsClosed'
    BY <1>1, <1>3 DEF IInv, ManifestIsClosed
<1> QED
    BY <1>8, <1>9, <1>11, <1>12, <1>13, <1>15, <1>16, <1>17, <1>18 DEF IInv
-----------------------------------------------------------------------------
(* What the invariant gives                                                *)

LEMMA StepHolds == IInv /\ [Next]_vars => IInv'
BY InvokeStep, WorkerStep, NextBatchStep, EndSteps, GatherStep,
   GatherErrorStep, CrashStep, OutsideStep DEF Next, Coordinator, Main

(* The invariant of the execution holds in every reachable state.          *)
THEOREM InvariantHolds == Spec => []IInv
<1> QED
    BY InitHolds, StepHolds, PTL DEF Spec

\* The four parts of ExecutionIsSound that speak of one state.
LEMMA StatesAreSound ==
    IInv => TypeOK /\ StateLoads /\ AttemptsAreJournaled /\ ManifestIsFinal
<1> SUFFICES ASSUME IInv
             PROVE  TypeOK /\ StateLoads /\ AttemptsAreJournaled
                    /\ ManifestIsFinal
    OBVIOUS
<1>1. Typed
    BY DEF IInv
<1>2. StateLoads
  <2> SUFFICES ASSUME NEW j \in Jobs, NEW n \in 1..Len(Log(j))
               PROVE  RecordIsValid(state.attempts, j, n)
      BY <1>1, LogType DEF StateLoads, RecordsAreValid, Log
  <2>1. n < Len(Log(j)) => Log(j)[n] \in Failures
      BY DEF IInv, JournalIsKept, LogIsKept
  <2>2. ASSUME Log(j)[n] # "running"
        PROVE  evidence[<<j, n>>] = Log(j)[n] /\ EvidenceStands(j, n)
    <3>1. evidence[<<j, n>>] = Log(j)[n] /\ Log(j)[n] \in Settled
        BY <1>1, <2>2, LogType, Kinds DEF IInv, RecordsAreEvident
    <3>2. n \in 1..MaxAttempts
        BY <1>1, LogType, Constants DEF IInv, JournalIsKept, LogIsKept
    <3> QED
        BY <3>1, <3>2, Kinds DEF IInv, EvidenceIsBacked, IsBacked
  <2> QED
      BY <2>1, <2>2 DEF RecordIsValid, Log
<1>3. AttemptsAreJournaled
  <2>1. ASSUME NEW j \in Jobs, thread[j].pc # "off"
        PROVE  thread[j].n = Len(state.attempts[j])
               /\ Latest(state.attempts, j) = "running"
      BY <2>1 DEF IInv, ThreadIsJournaled, Log
  <2>2. ASSUME NEW j \in Jobs, orphan[j] # "none"
        PROVE  ~Fresh(state.attempts, j)
      BY <2>2 DEF IInv, OrphansAreJournaled, Fresh, Log
  <2>3. ASSUME NEW j \in Jobs, NEW n \in 1..MaxAttempts,
               receipt[<<j, n>>] # None
        PROVE  n \in DOMAIN state.attempts[j]
    <3>1. n <= Len(Log(j))
        BY <2>3 DEF IInv, ReceiptsAreFiled
    <3> QED
        BY <1>1, <3>1, LogType, Constants DEF Log
  <2> QED
      BY <2>1, <2>2, <2>3 DEF AttemptsAreJournaled
<1>4. ManifestIsFinal
    BY DEF IInv, ManifestIsClosed, ManifestIsFinal
<1> QED
    BY <1>1, <1>2, <1>3, <1>4 DEF Typed

\* A log only grows, and what is settled in it stays.
LEMMA LogsGrow ==
    ASSUME IInv, [Next]_vars, NEW j \in Jobs, NEW n \in 1..Len(Log(j)),
           Log(j)[n] \in Settled
    PROVE  n \in DOMAIN state'.attempts[j] /\ state'.attempts[j][n] = Log(j)[n]
<1>1. Typed
    BY DEF IInv
<1>2. CASE state'.attempts = state.attempts
    BY <1>1, <1>2, LogType DEF Log
<1>3. CASE NextBatch
  <2> DEFINE batch == FirstOf(main.pending, Workers)
             new == Journaled(main.attempts, batch)[j]
  <2>1. main.attempts = state.attempts /\ state'.attempts[j] = new
      BY <1>3 DEF NextBatch, Save, IInv, JournalIsKept
  <2>2. main.attempts \in [Jobs -> Seq(Records)]
      BY <1>1 DEF Typed
  <2>3. /\ new \in Seq(Records) /\ Len(new) \in Nat /\ Len(Log(j)) \in Nat
        /\ Len(Log(j)) <= Len(new) /\ new[n] = Log(j)[n]
    <3>1. main.attempts[j] = Log(j)
        BY <2>1 DEF Log
    <3>2. LET old == main.attempts[j]
          IN  /\ new \in Seq(Records)
              /\ Len(new) \in Nat /\ Len(old) \in Nat /\ Len(old) <= Len(new)
              /\ \A m \in 1..Len(old) : new[m] = old[m]
      <4> HIDE DEF batch
      <4> QED
          BY SMTT(30), <2>2, JournaledLogs
    <3> HIDE DEF new
    <3> QED
        BY <3>1, <3>2
  <2> QED
      BY <2>1, <2>3, LenProperties
<1>4. ASSUME NEW i \in Jobs, Gather(i)
      PROVE  /\ n \in DOMAIN state'.attempts[j]
             /\ state'.attempts[j][n] = Log(j)[n]
  <2>1. Log(i)[Len(Log(i))] = "running" /\ thread[i].n = Len(Log(i))
      BY <1>4 DEF IInv, ThreadIsJournaled, Latest, Log, Gather
  <2>2. state'.attempts = [state.attempts EXCEPT
                              ![i][thread[i].n] = thread[i].result]
      BY <1>4 DEF Gather, Save, IInv, JournalIsKept
  <2>3. state.attempts \in [Jobs -> Seq(Records)]
      BY <1>1 DEF Typed, TypeOK
  <2>4. CASE i # j
      BY <1>1, <2>2, <2>3, <2>4, LogType DEF Log
  <2>5. CASE i = j
    <3>1. n # thread[j].n
        BY <2>1, <2>5, Kinds
    <3>2. state'.attempts[j]
            = [Log(j) EXCEPT ![thread[j].n] = thread[j].result]
        BY <2>2, <2>3, <2>5 DEF Log
    <3> QED
        BY <1>1, <3>1, <3>2, LogType
  <2> QED
      BY <2>4, <2>5
<1>5. CASE ~NextBatch /\ ~(\E i \in Jobs : Gather(i))
  <2>1. main.pc # "idle" => main.attempts = state.attempts
      BY DEF IInv, JournalIsKept
  <2>2. state'.attempts = state.attempts
    <3>1. CASE UNCHANGED state
        BY <3>1
    <3>2. CASE Invoke
        BY <3>2 DEF Invoke, Save
    <3>3. CASE EndBatch \/ Finish
        BY <2>1, <3>3 DEF EndBatch, Finish, Save
    <3>4. CASE ~(Invoke \/ EndBatch \/ Finish)
      <4>1. UNCHANGED state
          BY <1>5, <3>4 DEF Next, Coordinator, Main, Worker, Publish,
             GatherError, Start, Boot, WriteArenaState, Play, Limit,
             WriteReceipt, Classify, WriteEvidence, Crash, Drift, Restore,
             OrphanRuns, files, vars
      <4> QED
          BY <4>1
    <3> QED
        BY <3>2, <3>3, <3>4
  <2> QED
      BY <2>2, <1>2
<1> QED
    BY <1>3, <1>4, <1>5

\* Start boots an engine only for an attempt with no files.
LEMMA StartsUnfiled ==
    ASSUME Typed, NEW j \in Jobs, Start(j), thread'[j].pc = "boot"
    PROVE  Unfiled(j, thread[j].n)
<1> DEFINE n == thread[j].n
           resume == output[j].dir = "state"
           t == IF evidence[<<j, n>>] # "none"
                THEN [thread[j] EXCEPT !.pc = "done",
                                       !.result = evidence[<<j, n>>]]
                ELSE IF ~RuntimeHolds
                        \/ (/\ receipt[<<j, n>>] # None
                            /\ ~SameInvocation(j, n, resume))
                THEN [thread[j] EXCEPT !.pc = "error"]
                ELSE IF receipt[<<j, n>>] # None
                THEN [thread[j] EXCEPT !.pc = "classify",
                                       !.result = receipt[<<j, n>>].result]
                ELSE [thread[j] EXCEPT !.pc = "boot", !.resume = resume]
<1>1. thread \in [Jobs -> ThreadRecords] /\ thread[j] \in ThreadRecords
    BY TypesAre
<1>2. thread' = [thread EXCEPT ![j] = t]
    BY DEF Start
<1>3. t.pc = "boot"
    BY <1>1, <1>2
<1>4. CASE evidence[<<j, n>>] # "none"
  <2>1. t.pc = "done"
      BY <1>1, <1>4 DEF ThreadRecords
  <2> QED
      BY <1>3, <2>1
<1>5. CASE receipt[<<j, n>>] # None /\ evidence[<<j, n>>] = "none"
  <2>1. t.pc \in {"error", "classify"}
      BY <1>1, <1>5 DEF ThreadRecords
  <2> QED
      BY <1>3, <2>1
<1> QED
    BY <1>4, <1>5 DEF Unfiled

\* No other step boots one.
LEMMA OnlyStartBoots ==
    ASSUME Typed, [Next]_vars, NEW j \in Jobs, ~Start(j),
           thread[j].pc # "boot"
    PROVE  thread'[j].pc # "boot"
<1>1. thread \in [Jobs -> ThreadRecords]
    BY TypesAre
<1>2. CASE UNCHANGED thread
    BY <1>2
<1>3. ASSUME NEW i \in Jobs, Worker(i) PROVE thread'[j].pc # "boot"
  <2>1. CASE i = j
    <3>1. \E u \in {"exit", "play", "mkdir", "error", "classify", "evidence",
                    "done"} : thread'[j].pc = u
        BY <1>1, <1>3, <2>1 DEF Worker, Boot, WriteArenaState, Play, Limit,
           WriteReceipt, Classify, WriteEvidence, Set, Ends, ThreadRecords
    <3> QED
        BY <3>1
  <2>2. CASE i # j
    <3>1. thread'[j] = thread[j]
        BY <1>1, <1>3, <2>2 DEF Worker, Start, Boot, WriteArenaState, Play,
           Limit, WriteReceipt, Classify, WriteEvidence, Set, Ends
    <3> QED
        BY <3>1
  <2> QED
      BY <2>1, <2>2
<1>4. ASSUME NEW i \in Jobs, Gather(i) \/ GatherError(i)
      PROVE  thread'[j].pc # "boot"
  <2>1. thread' = [thread EXCEPT ![i] = Off]
      BY <1>4 DEF Gather, GatherError
  <2> QED
      BY <1>1, <2>1, OffType
<1>5. CASE NextBatch
  <2>1. PICK attempts :
          thread'[j] = IF j \in FirstOf(main.pending, Workers)
                       THEN [Off EXCEPT !.pc = "start",
                                        !.n = Len(attempts[j])]
                       ELSE thread[j]
      BY <1>5 DEF NextBatch
  <2> QED
      BY <2>1 DEF Off
<1>6. CASE Crash
    BY <1>6, OffType DEF Crash
<1>7. CASE Invoke \/ EndBatch \/ Finish \/ Publish \/ Drift \/ Restore
           \/ \E i \in Jobs : OrphanRuns(i)
    BY <1>2, <1>7 DEF Invoke, EndBatch, Finish, Publish, Drift, Restore,
       OrphanRuns, files, world
<1> QED
    BY <1>2, <1>3, <1>4, <1>5, <1>6, <1>7
       DEF Next, Coordinator, Main, vars

\* An engine starts for an attempt only while nothing of it is on disk, and
\* receipts and evidence are written once.
LEMMA FilesAreWrittenOnce ==
    ASSUME IInv, [Next]_vars PROVE NeverRunTwice
<1>1. IInv' /\ Typed
    BY StepHolds DEF IInv
<1>2. ASSUME NEW j \in Jobs, thread[j].pc # "boot", thread'[j].pc = "boot"
      PROVE  Unfiled(j, thread[j].n)
  <2>1. CASE Start(j)
      BY <1>1, <1>2, <2>1, StartsUnfiled
  <2>2. CASE ~Start(j)
      BY <1>1, <1>2, <2>2, OnlyStartBoots
  <2> QED
      BY <2>1, <2>2
<1>3. ASSUME NEW a \in Attempts
      PROVE  /\ receipt[a] # None => receipt'[a] = receipt[a]
             /\ evidence[a] # "none" => evidence'[a] = evidence[a]
  <2>1. CASE UNCHANGED <<receipt, evidence>>
      BY <2>1
  <2>2. ASSUME NEW j \in Jobs, WriteReceipt(j) \/ WriteEvidence(j)
        PROVE  /\ receipt[a] # None => receipt'[a] = receipt[a]
               /\ evidence[a] # "none" => evidence'[a] = evidence[a]
    <3>1. ThreadKnows(j)
        BY DEF IInv
    <3>2. /\ receipt \in [Attempts -> [resume : BOOLEAN,
                                       result : Results \union {"none"}]]
          /\ evidence \in [Attempts -> Settled \union {"none"}]
        BY <1>1 DEF Typed, TypeOK
    <3>3. CASE WriteReceipt(j)
      <4>1. receipt[<<j, thread[j].n>>] = None
          BY <3>1, <3>3 DEF WriteReceipt, ThreadKnows, Knows, Unfiled
      <4> QED
          BY <3>2, <3>3, <4>1 DEF WriteReceipt
    <3>4. CASE WriteEvidence(j)
      <4>1. evidence[<<j, thread[j].n>>] = "none"
          BY <3>1, <3>4 DEF WriteEvidence, ThreadKnows, Knows, Filed
      <4> QED
          BY <3>2, <3>4, <4>1 DEF WriteEvidence
    <3> QED
        BY <2>2, <3>3, <3>4
  <2>3. CASE ~(\E j \in Jobs : WriteReceipt(j) \/ WriteEvidence(j))
    <3>1. UNCHANGED <<receipt, evidence>>
        BY <2>3 DEF Next, Coordinator, Main, Worker, Publish, Invoke,
           NextBatch, Gather, EndBatch, Finish, GatherError, Start, Boot,
           WriteArenaState, Play, Limit, Classify, Crash, Drift, Restore,
           OrphanRuns, files, vars
    <3> QED
        BY <2>1, <3>1
  <2> QED
      BY <2>2, <2>3
<1> QED
    BY <1>2, <1>3 DEF NeverRunTwice, Unfiled

(* The state file can be read after a crash at any step, whatever runs is  *)
(* journaled, a published manifest is final, and the history of the        *)
(* attempts only grows.                                                    *)
THEOREM Execution == Spec => ExecutionIsSound
<1>1. IInv /\ [Next]_vars => [SettledStays /\ NeverRunTwice]_vars
  <2> SUFFICES ASSUME IInv, [Next]_vars PROVE SettledStays /\ NeverRunTwice
      OBVIOUS
  <2>1. SettledStays
    <3> SUFFICES ASSUME NEW j \in Jobs, NEW n \in DOMAIN state.attempts[j],
                        state.attempts[j][n] \in Settled
                 PROVE  /\ n \in DOMAIN state'.attempts[j]
                        /\ state'.attempts[j][n] = state.attempts[j][n]
        BY DEF SettledStays
    <3>1. n \in 1..Len(Log(j)) /\ Log(j)[n] = state.attempts[j][n]
        BY LogType DEF IInv, Log
    <3> QED
        BY <3>1, LogsGrow
  <2> QED
      BY <2>1, FilesAreWrittenOnce
<1> QED
    BY <1>1, StatesAreSound, InvariantHolds, PTL
       DEF Spec, ExecutionIsSound, HistoryIsKept
=============================================================================

----------------------------- MODULE Statements -----------------------------
(***************************************************************************)
(* The methods of SQLite.cpp, statement by statement.  A method runs under *)
(* m_mtx, but each of its statements commits on its own: a crash leaves    *)
(* the tables as the last statement left them, and so does an SQL error,   *)
(* which is thrown from a destructor and ends the process.  The other      *)
(* variables are the locals of the running method.                         *)
(*                                                                         *)
(* `shown' is what a caller has seen of the tables: a history variable     *)
(* that follows them when a method returns, in behaviours without crashes. *)
(* Through it this module implements DbSpec of SQLite, where a method is   *)
(* one step.                                                               *)
(***************************************************************************)
EXTENDS SQLite

CONSTANTS MaxCrashes  \* bound on the number of crashes

ASSUME StatementsAssumption == MaxCrashes \in Nat

VARIABLES
  call,         \* the method that runs, or NoCall
  pc,           \* its next statement
  srcId, inQueue, putToQueue, archiveName, found,
  shown,        \* the tables as the callers have seen them
  mayCrash,     \* this is a behaviour with crashes; it never changes
  crashes       \* number of crashes so far

locals == <<srcId, inQueue, putToQueue, archiveName, found>>
vars == <<dbVars, call, pc, locals, shown, mayCrash, crashes>>

GetNextFileCalls == [op : {"getNextFile"}, maxFileSize : {0} \cup Sizes]
AddFileCalls == [op : {"addFile"}, src : Files \cup {NoFile}, size : Sizes,
                 dst : Names \cup {NoName}, queue : BOOLEAN]
AddEncodedFileCalls == [op : {"addEncodedFile"}, file : Files, result : Results,
                        fileLength : {0} \cup Sizes, fileName : Names]
ResetCalls == [op : {"reset"}, file : Files]
NoCall == [op |-> "none"]

Tables == [sourcefiles |-> sourcefiles, status |-> status, count |-> count,
           archives |-> archives, resets |-> resets]

Init ==
  /\ DbInit
  /\ call = NoCall /\ pc = "idle"
  /\ srcId = NoFile /\ inQueue = FALSE /\ putToQueue = FALSE
  /\ archiveName = NoName /\ found = FALSE
  /\ shown = Tables
  /\ mayCrash \in BOOLEAN /\ crashes = 0

-----------------------------------------------------------------------------
\* The running method goes on with statement `next', or returns.
Continue(next) == pc' = next /\ UNCHANGED <<call, shown, mayCrash, crashes>>

\* The method is left, with its locals.
Leave ==
  /\ pc' = "idle" /\ call' = NoCall
  /\ srcId' = NoFile /\ inQueue' = FALSE /\ putToQueue' = FALSE
  /\ archiveName' = NoName /\ found' = FALSE

Return ==
  /\ Leave
  /\ shown' = IF mayCrash THEN shown ELSE Tables'
  /\ UNCHANGED <<mayCrash, crashes>>

\* A method is called.
Begin(c, first) ==
  /\ pc = "idle"
  /\ call' = c /\ pc' = first
  /\ UNCHANGED <<dbVars, locals, shown, mayCrash, crashes>>

\* Callers know the ids that getNextFile() has returned.
HasId(f) == sourcefiles[f] # Absent

BeginAny ==
  \/ \E c \in GetNextFileCalls : Begin(c, "select")
  \/ \E c \in AddFileCalls :
       \/ c.src # NoFile /\ Begin(c, "selectSource")
       \/ c.src = NoFile /\ c.dst # NoName /\ Begin(c, "selectArchive")
  \/ \E c \in AddEncodedFileCalls : HasId(c.file) /\ Begin(c, "updateResult")
  \/ \E c \in ResetCalls :
       HasId(c.file) /\ resets[c.file] < MaxResets /\ Begin(c, "updateReset")

-----------------------------------------------------------------------------
\* getNextFile(): the UNION with LIMIT 1.
SelectNext ==
  /\ pc = "select"
  /\ \/ /\ Selectable(call.maxFileSize) = {}
        /\ UNCHANGED dbVars /\ Return
     \/ /\ srcId' \in Selectable(call.maxFileSize)
        /\ UNCHANGED <<dbVars, inQueue, putToQueue, archiveName, found>>
        /\ Continue("selectCount")

\* "select count from queue": queued, kept in inQueue here.
SelectCount ==
  /\ pc = "selectCount"
  /\ inQueue' = (status[srcId] # NoRow)
  /\ UNCHANGED <<dbVars, srcId, putToQueue, archiveName, found>>
  /\ Continue("claim")

Claim_CountDown ==
  /\ pc = "claim"
  /\ status' = [status EXCEPT ![srcId] = Started]
  /\ count' = [count EXCEPT ![srcId] = IF inQueue THEN @ - 1 ELSE 1]
  /\ UNCHANGED <<sourcefiles, archives, resets>>
  /\ Return

Claim_CountKept ==
  /\ pc = "claim"
  /\ status' = [status EXCEPT ![srcId] = Started]
  /\ count' = [count EXCEPT ![srcId] = IF inQueue THEN @ ELSE 1]
  /\ UNCHANGED <<sourcefiles, archives, resets>>
  /\ Return

\* INSERT with count 1, or UPDATE with count + 1.
Claim ==
  /\ pc = "claim"
  /\ status' = [status EXCEPT ![srcId] = Started]
  /\ count' = [count EXCEPT ![srcId] = IF inQueue THEN @ + 1 ELSE 1]
  /\ UNCHANGED <<sourcefiles, archives, resets>>
  /\ Return

-----------------------------------------------------------------------------
\* addFile(): the source with its queue and archive rows.
SelectSource ==
  /\ pc = "selectSource"
  /\ IF sourcefiles[call.src] # Absent
     THEN /\ srcId' = call.src
          /\ inQueue' = (status[call.src] # NoRow)
          /\ archiveName' = archives[call.src]
     ELSE UNCHANGED <<srcId, inQueue, archiveName>>
  /\ UNCHANGED <<dbVars, putToQueue, found>>
  /\ Continue("insertSource")

InsertSource ==
  /\ pc = "insertSource"
  /\ srcId' = call.src
  /\ sourcefiles' = IF srcId # NoFile THEN sourcefiles
                    ELSE [sourcefiles EXCEPT ![call.src] = call.size]
  /\ UNCHANGED <<status, count, archives, resets, inQueue, putToQueue, archiveName, found>>
  /\ Continue("insertQueue")

\* The queue row of the source, if it is missing; a source whose archive row
\* has the given path needs no more.
InsertQueue ==
  LET inserts == ~inQueue /\ (call.queue \/ call.dst # NoName) IN
  /\ pc = "insertQueue"
  /\ status' = IF inserts
               THEN [status EXCEPT ![srcId] = IF call.dst # NoName THEN OK ELSE NotStarted]
               ELSE status
  /\ count' = IF inserts THEN [count EXCEPT ![srcId] = 0] ELSE count
  /\ UNCHANGED <<sourcefiles, archives, resets>>
  /\ \/ call.dst \in {NoName, archiveName} /\ Return
     \/ /\ call.dst \notin {NoName, archiveName}
        /\ putToQueue' = inserts
        /\ inQueue' = (inQueue \/ inserts)
        /\ UNCHANGED <<srcId, archiveName, found>>
        /\ Continue("selectArchive")

\* The archive with its queue row: its owner replaces the source.
SelectArchive ==
  /\ pc = "selectArchive"
  /\ UNCHANGED dbVars
  /\ \/ \E f \in Files :
          /\ archives[f] = call.dst
          /\ found' = TRUE
          /\ srcId' = f
          /\ inQueue' = (status[f] # NoRow)
          /\ putToQueue' = (status[f] >= OK)
          /\ UNCHANGED archiveName
          /\ Continue("insertArchive")
     \/ /\ \A f \in Files : archives[f] # call.dst
        /\ IF srcId = NoFile THEN Return ELSE UNCHANGED locals /\ Continue("insertArchive")

\* INSERT ... on conflict do nothing
WithArchive(f, name) ==
  [archives EXCEPT ![f] = IF @ = NoName THEN name ELSE @]

InsertArchive ==
  /\ pc = "insertArchive"
  /\ archives' = IF found THEN archives ELSE WithArchive(srcId, call.dst)
  /\ UNCHANGED <<sourcefiles, status, count, resets, locals>>
  /\ Continue("updateQueue")

UpdateQueue_InsertOnly ==
  /\ pc = "updateQueue"
  /\ status' = IF inQueue THEN status ELSE [status EXCEPT ![srcId] = OK]
  /\ count' = IF inQueue THEN count ELSE [count EXCEPT ![srcId] = 0]
  /\ UNCHANGED <<sourcefiles, archives, resets>>
  /\ Return

UpdateQueue ==
  /\ pc = "updateQueue"
  /\ status' = IF inQueue /\ putToQueue THEN status ELSE [status EXCEPT ![srcId] = OK]
  /\ count' = IF inQueue THEN count ELSE [count EXCEPT ![srcId] = 0]
  /\ UNCHANGED <<sourcefiles, archives, resets>>
  /\ Return

-----------------------------------------------------------------------------
UpdateResult_Requeue ==
  /\ pc = "updateResult"
  /\ status' = IF status[call.file] = NoRow THEN status
               ELSE [status EXCEPT ![call.file] = IF call.result < 0 THEN NotStarted ELSE call.result]
  /\ UNCHANGED <<sourcefiles, count, archives, resets, locals>>
  /\ Continue("insertEncoded")

\* addEncodedFile()
UpdateResult ==
  /\ pc = "updateResult"
  /\ status' = IF status[call.file] = NoRow THEN status
               ELSE [status EXCEPT ![call.file] = call.result]
  /\ UNCHANGED <<sourcefiles, count, archives, resets, locals>>
  /\ Continue("insertEncoded")

InsertEncoded ==
  /\ pc = "insertEncoded"
  /\ archives' = IF call.fileLength > 0 THEN WithArchive(call.file, call.fileName) ELSE archives
  /\ UNCHANGED <<sourcefiles, status, count, resets>>
  /\ Return

\* reset()
UpdateReset ==
  /\ pc = "updateReset"
  /\ status' = IF status[call.file] = NoRow THEN status
               ELSE [status EXCEPT ![call.file] = NotStarted]
  /\ resets' = [resets EXCEPT ![call.file] = @ + 1]
  /\ UNCHANGED <<sourcefiles, count, archives>>
  /\ Return

\* A crash, or a statement that fails: the statements before it stay.
Crash ==
  /\ mayCrash /\ pc # "idle" /\ crashes < MaxCrashes
  /\ crashes' = crashes + 1
  /\ Leave
  /\ UNCHANGED <<dbVars, shown, mayCrash>>

-----------------------------------------------------------------------------
Statement ==
  \/ SelectNext \/ SelectCount \/ Claim
  \/ SelectSource \/ InsertSource \/ InsertQueue
  \/ SelectArchive \/ InsertArchive \/ UpdateQueue
  \/ UpdateResult \/ InsertEncoded \/ UpdateReset

Next == BeginAny \/ Statement \/ Crash

Spec == Init /\ [][Next]_vars

-----------------------------------------------------------------------------
Db == INSTANCE SQLite WITH
  sourcefiles <- shown.sourcefiles, status <- shown.status, count <- shown.count,
  archives <- shown.archives, resets <- shown.resets

\* The statements of a method add up to the one step that SQLite says it is,
\* whatever the tables held when it was called.
Implements == Db!DbSpec
=============================================================================

------------------------------- MODULE SQLite -------------------------------
(***************************************************************************)
(* The daemon's job database (SQLite.cpp): the tables sourcefiles, queue   *)
(* and archives, keyed by source file.  Every public method runs under     *)
(* m_mtx, so a call is one action.  The columns of queue are the functions *)
(* status and count; a file without a queue row has status NoRow, count 0. *)
(* `resets' is a history variable: how often reset() cleared the status.   *)
(***************************************************************************)
EXTENDS Integers

CONSTANTS Files,      \* the media files the daemon can find (rows by id)
          NoFile,     \* no source file: a null pointer, or id 0
          Names,      \* paths of archive files
          NoName,     \* no archive path: a null pointer, or no row
          Results,    \* the values EncodingResultInfo.result takes
          Sizes,      \* file sizes
          MaxResets   \* bound on reset() calls per file in DbSpec

\* EncodingResultInfo::EncodingResult
Started == 1
OK == 5
NotStarted == 0
RetriableError == -1
ServerIOError == -9
UnknownError == -50
PermanentError == -100

NoRow == -1000    \* outside int8_t
Absent == -1      \* no row in sourcefiles
RetryLimit == 3   \* "queue.count < 3"

ASSUME DbAssumption ==
  /\ NoFile \notin Files
  /\ NoName \notin Names
  /\ Sizes \subseteq Nat
  /\ Results \subseteq (-128)..OK /\ OK \in Results /\ ServerIOError \in Results
  /\ NotStarted \notin Results

VARIABLES sourcefiles, status, count, archives, resets

dbVars == <<sourcefiles, status, count, archives, resets>>

\* The columns hold what their statements can write: a status is one of the
\* results or of the daemon's own states, an attempt count never goes below 0.
DbTypeOK ==
  /\ sourcefiles \in [Files -> Sizes \cup {Absent}]
  /\ status \in [Files -> Results \cup {NoRow, NotStarted, Started}]
  /\ count \in [Files -> Nat]
  /\ archives \in [Files -> Names \cup {NoName}]
  /\ resets \in [Files -> Nat]

\* A new database: setupTables() creates the three empty tables.
DbInit ==
  /\ sourcefiles = [f \in Files |-> Absent]
  /\ status = [f \in Files |-> NoRow]
  /\ count = [f \in Files |-> 0]
  /\ archives = [f \in Files |-> NoName]
  /\ resets = [f \in Files |-> 0]

-----------------------------------------------------------------------------
\* Operators whose name carries a suffix (Retriable_NoLimit) are faulty
\* variants of the definition that follows them; no specification uses them.
\* They show that a property notices the fault.

Retriable_NoLimit(f) == status[f] < 0 /\ status[f] >= -99

\* The three branches of the UNION: queued and not started, not in the
\* queue, failed with an error that may be retried.  A filter of 0 bytes
\* means no limit.
Retriable(f) == status[f] < 0 /\ status[f] >= -99 /\ count[f] < RetryLimit

Selectable_NoRetry(maxFileSize) ==
  {f \in Files : /\ sourcefiles[f] # Absent
                 /\ maxFileSize = 0 \/ sourcefiles[f] <= maxFileSize
                 /\ status[f] \in {NotStarted, NoRow}}

Selectable(maxFileSize) ==
  {f \in Files : /\ sourcefiles[f] # Absent
                 /\ maxFileSize = 0 \/ sourcefiles[f] <= maxFileSize
                 /\ status[f] \in {NotStarted, NoRow} \/ Retriable(f)}

DbGetNextFile_InsertOnly(maxFileSize, f) ==
  /\ f \in Selectable(maxFileSize)
  /\ status' = IF status[f] = NoRow THEN [status EXCEPT ![f] = Started] ELSE status
  /\ count' = [count EXCEPT ![f] = @ + 1]
  /\ UNCHANGED <<sourcefiles, archives, resets>>

DbGetNextFile_CountDown(maxFileSize, f) ==
  /\ f \in Selectable(maxFileSize)
  /\ status' = [status EXCEPT ![f] = Started]
  /\ count' = [count EXCEPT ![f] = @ - 1]
  /\ UNCHANGED <<sourcefiles, archives, resets>>

\* getNextFile() returning f.  Without ORDER BY any row may be the first.
\* A missing queue row is inserted with count 1.
DbGetNextFile(maxFileSize, f) ==
  /\ f \in Selectable(maxFileSize)
  /\ status' = [status EXCEPT ![f] = Started]
  /\ count' = [count EXCEPT ![f] = @ + 1]
  /\ UNCHANGED <<sourcefiles, archives, resets>>

\* The source whose archive has the path dst; the given source if none has.
\* Two rows may carry one path, then the last one read counts.
Owners(src, dst) ==
  LET found == {f \in Files : archives[f] = dst}
  IN  IF found # {} THEN found ELSE {src} \ {NoFile}

Enqueues_Again(src, dst, queue) ==
  src # NoFile /\ status[src] # Started /\ (queue \/ dst # NoName)

\* addFile() puts a source in the queue unless it already has a row there.
Enqueues(src, dst, queue) ==
  src # NoFile /\ status[src] = NoRow /\ (queue \/ dst # NoName)

\* addFile(): the source row and its queue row, if they are missing; then,
\* for a given archive that is not already the source's, the archive row
\* and the status OK of its owner.
DbAddFile(src, size, dst, queue) ==
  LET known == src # NoFile /\ sourcefiles[src] # Absent
      queued == IF Enqueues(src, dst, queue)
                THEN [status EXCEPT ![src] = IF dst = NoName THEN NotStarted ELSE OK]
                ELSE status
      asArchive == dst # NoName /\ (src \in Files => archives[src] # dst)
  IN
  /\ sourcefiles' = IF known \/ src = NoFile THEN sourcefiles
                    ELSE [sourcefiles EXCEPT ![src] = size]
  /\ \/ /\ ~asArchive \/ Owners(src, dst) = {}
        /\ status' = queued
        /\ UNCHANGED archives
     \/ /\ asArchive
        /\ \E f \in Owners(src, dst) :
              /\ status' = [queued EXCEPT ![f] = OK]
              /\ archives' = IF archives[f] # NoName THEN archives
                             ELSE [archives EXCEPT ![f] = dst]
  /\ UNCHANGED <<count, resets>>

DbAddEncodedFile_Requeue(f, result, fileLength, fileName) ==
  /\ status' = IF status[f] = NoRow THEN status
               ELSE [status EXCEPT ![f] = IF result = RetriableError THEN NotStarted ELSE result]
  /\ archives' = IF fileLength > 0 /\ archives[f] = NoName
                 THEN [archives EXCEPT ![f] = fileName] ELSE archives
  /\ UNCHANGED <<sourcefiles, count, resets>>

\* addEncodedFile(): UPDATE of an existing queue row; an archive row for a
\* non-empty result, unless the file has one ("on conflict do nothing").
DbAddEncodedFile(f, result, fileLength, fileName) ==
  /\ status' = IF status[f] = NoRow THEN status
               ELSE [status EXCEPT ![f] = result]
  /\ archives' = IF fileLength > 0 /\ archives[f] = NoName
                 THEN [archives EXCEPT ![f] = fileName] ELSE archives
  /\ UNCHANGED <<sourcefiles, count, resets>>

DbReset_FailedOnly(f) ==
  /\ status' = IF status[f] >= NotStarted \/ status[f] = NoRow THEN status
               ELSE [status EXCEPT ![f] = NotStarted]
  /\ resets' = [resets EXCEPT ![f] = @ + 1]
  /\ UNCHANGED <<sourcefiles, count, archives>>

\* reset(): back to not started, the attempt count is kept.
DbReset(f) ==
  /\ status' = IF status[f] = NoRow THEN status
               ELSE [status EXCEPT ![f] = NotStarted]
  /\ resets' = [resets EXCEPT ![f] = @ + 1]
  /\ UNCHANGED <<sourcefiles, count, archives>>

-----------------------------------------------------------------------------
\* The database alone, called in any order with any arguments.
DbNext ==
  \/ \E m \in {0} \cup Sizes, f \in Files : DbGetNextFile(m, f)
  \/ \E src \in Files \cup {NoFile}, size \in Sizes, dst \in Names \cup {NoName},
        queue \in BOOLEAN : DbAddFile(src, size, dst, queue)
  \/ \E f \in Files, r \in Results, len \in {0} \cup Sizes, n \in Names :
        DbAddEncodedFile(f, r, len, n)
  \/ \E f \in Files : resets[f] < MaxResets /\ DbReset(f)

\* A new database and any sequence of calls.
DbSpec == DbInit /\ [][DbNext]_dbVars

-----------------------------------------------------------------------------
\* No file is handed out for encoding more than RetryLimit times, plus once
\* for every reset() of it: neither re-discovery of the file, nor an archive
\* appearing and being re-recorded as failed, nor any error code gives it a
\* further attempt (getNextFile's three branches read two columns that six
\* different statements write).
RetryBudget == \A f \in Files : count[f] <= RetryLimit + resets[f]

\* Why RetryBudget is inductive: a file that can be selected without regard
\* to its count has an attempt left.
UnlimitedHasBudget ==
  \A f \in Files :
     /\ status[f] = NoRow => count[f] = 0
     /\ status[f] = NotStarted => count[f] < RetryLimit + resets[f]

\* The inductive invariant of the database.
DbInv == DbTypeOK /\ RetryBudget /\ UnlimitedHasBudget
=============================================================================

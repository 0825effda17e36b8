-------------------------- MODULE StatementsProofs --------------------------
(***************************************************************************)
(* The statements of the database methods implement the methods, for every *)
(* set of files, paths, sizes and results; and with crashes between them   *)
(* the retry budget still holds.                                           *)
(***************************************************************************)
EXTENDS Statements, TLAPS

\* A file without a source row has neither a queue row nor an archive row.
KnownOnly ==
  \A f \in Files : sourcefiles[f] = Absent => status[f] = NoRow /\ archives[f] = NoName

NoLocals ==
  /\ srcId = NoFile /\ inQueue = FALSE /\ putToQueue = FALSE
  /\ archiveName = NoName /\ found = FALSE

\* The file whose archive the running addFile() records.
OwnsArchive(f) ==
  /\ f \in Files /\ sourcefiles[f] # Absent
  /\ inQueue = (status[f] # NoRow)
  /\ inQueue /\ putToQueue => status[f] = OK

\* What each method knows before each of its statements.
AtSelect ==
  pc \in {"select", "selectCount", "claim"} =>
    /\ call \in GetNextFileCalls
    /\ pc \in {"selectCount", "claim"} => srcId \in Selectable(call.maxFileSize)
    /\ pc = "claim" => inQueue = (status[srcId] # NoRow)

AtSource ==
  pc \in {"selectSource", "insertSource", "insertQueue"} =>
    /\ call \in AddFileCalls /\ call.src \in Files
    /\ putToQueue = FALSE /\ found = FALSE
    /\ pc = "selectSource" => NoLocals
    /\ pc \in {"insertSource", "insertQueue"} =>
         inQueue = (status[call.src] # NoRow) /\ archiveName = archives[call.src]
    /\ pc = "insertSource" =>
         srcId = IF sourcefiles[call.src] # Absent THEN call.src ELSE NoFile
    /\ pc = "insertQueue" => srcId = call.src /\ sourcefiles[call.src] # Absent

AtArchive ==
  pc \in {"selectArchive", "insertArchive", "updateQueue"} =>
    /\ call \in AddFileCalls /\ call.dst \in Names
    /\ pc = "selectArchive" =>
         /\ found = FALSE
         /\ srcId = call.src
         /\ srcId # NoFile => OwnsArchive(srcId)
    /\ pc \in {"insertArchive", "updateQueue"} => OwnsArchive(srcId)

AtResult ==
  /\ pc \in {"updateResult", "insertEncoded"} =>
       call \in AddEncodedFileCalls /\ sourcefiles[call.file] # Absent
  /\ pc = "updateReset" => call \in ResetCalls /\ sourcefiles[call.file] # Absent

LocalInv == (pc = "idle" => NoLocals) /\ AtSelect /\ AtSource /\ AtArchive /\ AtResult

\* Columns and locals, in behaviours with and without crashes.
Inv == DbInv /\ KnownOnly /\ LocalInv

LEMMA InitInv == Init => Inv
BY DEF Init, DbInit, Inv, DbInv, DbTypeOK, RetryBudget, UnlimitedHasBudget, KnownOnly, LocalInv,
       NoLocals, AtSelect, AtSource, AtArchive, AtResult, NoRow, NotStarted, RetryLimit

\* A step that leaves the tables alone.
LEMMA TablesKept ==
  ASSUME DbInv, KnownOnly, UNCHANGED dbVars
  PROVE  DbInv' /\ KnownOnly'
BY DEF dbVars, DbInv, DbTypeOK, RetryBudget, UnlimitedHasBudget, KnownOnly

\* A method that is left knows nothing any more.
LEMMA Left == ASSUME Leave PROVE LocalInv'
BY DEF Leave, LocalInv, NoLocals, AtSelect, AtSource, AtArchive, AtResult

LEMMA BeginInv == ASSUME Inv, BeginAny PROVE Inv'
<1> USE DEF Inv, LocalInv
<1>1. NoLocals /\ UNCHANGED dbVars /\ UNCHANGED locals
  BY DEF BeginAny, Begin
<1>2. DbInv' /\ KnownOnly'
  BY <1>1, TablesKept
<1>3. NoLocals'
  BY <1>1 DEF NoLocals, locals
<1>4. ASSUME NEW c \in GetNextFileCalls, Begin(c, "select") PROVE LocalInv'
  BY <1>4 DEF Begin, AtSelect, AtSource, AtArchive, AtResult
<1>5. ASSUME NEW c \in AddFileCalls, c.src # NoFile, Begin(c, "selectSource") PROVE LocalInv'
  BY <1>3, <1>5 DEF Begin, AtSelect, AtSource, AtArchive, AtResult, NoLocals, AddFileCalls
<1>6. ASSUME NEW c \in AddFileCalls, c.src = NoFile, c.dst # NoName, Begin(c, "selectArchive")
      PROVE LocalInv'
  BY <1>3, <1>6 DEF Begin, AtSelect, AtSource, AtArchive, AtResult, NoLocals, AddFileCalls
<1>7. ASSUME NEW c \in AddEncodedFileCalls, HasId(c.file), Begin(c, "updateResult") PROVE LocalInv'
  BY <1>1, <1>7 DEF Begin, AtSelect, AtSource, AtArchive, AtResult, HasId, dbVars
<1>8. ASSUME NEW c \in ResetCalls, HasId(c.file), Begin(c, "updateReset") PROVE LocalInv'
  BY <1>1, <1>8 DEF Begin, AtSelect, AtSource, AtArchive, AtResult, HasId, dbVars
<1> QED
  BY <1>2, <1>4, <1>5, <1>6, <1>7, <1>8 DEF BeginAny

-----------------------------------------------------------------------------
\* getNextFile()
LEMMA GetNextFileInv ==
  ASSUME Inv, SelectNext \/ SelectCount \/ Claim
  PROVE  Inv'
<1> USE DEF Inv
<1>1. CASE SelectNext
  <2>1. DbInv' /\ KnownOnly'
    BY <1>1, TablesKept DEF SelectNext
  <2>2. CASE Return
    BY <2>1, <2>2, Left DEF Return
  <2>3. CASE srcId' \in Selectable(call.maxFileSize) /\ UNCHANGED dbVars /\ Continue("selectCount")
    <3>1. call' = call /\ pc' = "selectCount" /\ call \in GetNextFileCalls
      BY <1>1, <2>3 DEF SelectNext, Continue, LocalInv, AtSelect
    <3>2. Selectable(call.maxFileSize)' = Selectable(call.maxFileSize)
      BY <2>3, <3>1 DEF dbVars, Selectable, Retriable
    <3> QED
      BY <2>1, <2>3, <3>1, <3>2 DEF LocalInv, AtSelect, AtSource, AtArchive, AtResult
  <2> QED
    BY <1>1, <2>2, <2>3 DEF SelectNext
<1>2. CASE SelectCount
  <2>1. DbInv' /\ KnownOnly'
    BY <1>2, TablesKept DEF SelectCount
  <2>2. /\ call' = call /\ pc' = "claim" /\ call \in GetNextFileCalls /\ srcId' = srcId
        /\ srcId \in Selectable(call.maxFileSize) /\ status' = status
        /\ inQueue' = (status[srcId] # NoRow)
    BY <1>2 DEF SelectCount, Continue, LocalInv, AtSelect, dbVars
  <2>3. Selectable(call.maxFileSize)' = Selectable(call.maxFileSize)
    BY <1>2, <2>2 DEF SelectCount, dbVars, Selectable, Retriable
  <2> QED
    BY <2>1, <2>2, <2>3 DEF LocalInv, AtSelect, AtSource, AtArchive, AtResult
<1>3. CASE Claim
  <2>1. LocalInv'
    BY <1>3, Left DEF Claim, Return
  <2>2. /\ srcId \in Files /\ sourcefiles[srcId] # Absent
        /\ status[srcId] \in {NotStarted, NoRow} \/ Retriable(srcId)
        /\ inQueue = (status[srcId] # NoRow)
    BY <1>3 DEF Claim, LocalInv, AtSelect, Selectable
  <2>3. /\ status' = [status EXCEPT ![srcId] = Started]
        /\ count' = [count EXCEPT ![srcId] = IF inQueue THEN @ + 1 ELSE 1]
        /\ UNCHANGED <<sourcefiles, archives, resets>>
    BY <1>3 DEF Claim
  <2>4. count[srcId] < RetryLimit + resets[srcId] /\ (~inQueue => count[srcId] = 0)
    <3>1. count[srcId] \in Nat /\ resets[srcId] \in Nat
      BY <2>2 DEF DbInv, DbTypeOK
    <3>2. /\ status[srcId] = NoRow => count[srcId] = 0
          /\ status[srcId] = NotStarted => count[srcId] < RetryLimit + resets[srcId]
      BY <2>2 DEF DbInv, UnlimitedHasBudget
    <3>3. status[srcId] \in {NotStarted, NoRow} \/ Retriable(srcId)
      BY <2>2
    <3>4. count[srcId] < RetryLimit + resets[srcId]
      BY <3>1, <3>2, <3>3 DEF Retriable, RetryLimit
    <3>5. ~inQueue => status[srcId] = NoRow
      BY <2>2
    <3> QED
      BY <3>2, <3>4, <3>5
  <2>5. DbTypeOK'
    BY <2>2, <2>3 DEF DbInv, DbTypeOK
  <2>6. RetryBudget'
    <3>1. count[srcId] \in Nat /\ resets[srcId] \in Nat
      BY <2>2 DEF DbInv, DbTypeOK
    <3>2. (IF inQueue THEN count[srcId] + 1 ELSE 1) <= RetryLimit + resets[srcId]
      BY <2>4, <3>1 DEF RetryLimit
    <3> QED
      BY <2>2, <2>3, <3>2 DEF DbInv, DbTypeOK, RetryBudget
  <2>7. UnlimitedHasBudget'
    BY <2>2, <2>3 DEF DbInv, DbTypeOK, UnlimitedHasBudget, Started, NoRow, NotStarted
  <2>8. KnownOnly'
    BY <2>2, <2>3 DEF KnownOnly, DbInv, DbTypeOK
  <2> QED
    BY <2>1, <2>5, <2>6, <2>7, <2>8 DEF DbInv
<1> QED
  BY <1>1, <1>2, <1>3

-----------------------------------------------------------------------------
\* addFile(), up to the queue row of the source.
LEMMA SourceInv ==
  ASSUME Inv, SelectSource \/ InsertSource
  PROVE  Inv'
<1> USE DEF Inv
<1>1. CASE SelectSource
  <2>1. DbInv' /\ KnownOnly'
    BY <1>1, TablesKept DEF SelectSource
  <2>2. /\ call \in AddFileCalls /\ call.src \in Files /\ call' = call /\ pc' = "insertSource"
        /\ putToQueue' = FALSE /\ found' = FALSE /\ UNCHANGED dbVars /\ NoLocals
    BY <1>1 DEF SelectSource, LocalInv, AtSource, Continue
  <2>3. /\ inQueue' = (status[call.src] # NoRow) /\ archiveName' = archives[call.src]
        /\ srcId' = IF sourcefiles[call.src] # Absent THEN call.src ELSE NoFile
    <3>1. CASE sourcefiles[call.src] # Absent
      BY <1>1, <3>1 DEF SelectSource
    <3>2. CASE sourcefiles[call.src] = Absent
      BY <1>1, <2>2, <3>2 DEF SelectSource, NoLocals, KnownOnly
    <3> QED
      BY <3>1, <3>2
  <2> QED
    BY <2>1, <2>2, <2>3 DEF LocalInv, AtSelect, AtSource, AtArchive, AtResult, dbVars
<1>2. CASE InsertSource
  <2>1. /\ call \in AddFileCalls /\ call.src \in Files /\ call.size \in Sizes
        /\ call' = call /\ pc' = "insertQueue" /\ srcId' = call.src
        /\ putToQueue' = FALSE /\ found' = FALSE
        /\ inQueue' = (status[call.src] # NoRow) /\ archiveName' = archives[call.src]
        /\ UNCHANGED <<status, count, archives, resets>>
    BY <1>2 DEF InsertSource, LocalInv, AtSource, Continue, AddFileCalls
  <2>2. call.size \in Nat /\ NoFile \notin Files
    BY <2>1, DbAssumption
  <2>3. sourcefiles' = IF sourcefiles[call.src] # Absent THEN sourcefiles
                       ELSE [sourcefiles EXCEPT ![call.src] = call.size]
    BY <1>2, <2>1, <2>2 DEF InsertSource, LocalInv, AtSource
  <2>4. sourcefiles \in [Files -> Sizes \cup {Absent}]
    BY DEF DbInv, DbTypeOK
  <2>5. /\ sourcefiles' \in [Files -> Sizes \cup {Absent}]
        /\ sourcefiles'[call.src] # Absent
        /\ \A f \in Files : sourcefiles'[f] = Absent => sourcefiles[f] = Absent
    BY <2>1, <2>2, <2>3, <2>4 DEF Absent
  <2>6. DbInv' /\ KnownOnly'
    BY <2>1, <2>5 DEF DbInv, DbTypeOK, RetryBudget, UnlimitedHasBudget, KnownOnly
  <2> QED
    BY <2>1, <2>5, <2>6 DEF LocalInv, AtSelect, AtSource, AtArchive, AtResult
<1> QED
  BY <1>1, <1>2

\* A new row of queue, or a status that is never "not started" unless the row
\* is new, with a count of 0.
LEMMA StatusWritten ==
  ASSUME DbInv, KnownOnly, NEW f \in Files, sourcefiles[f] # Absent,
         NEW s \in Results \cup {NotStarted}, s = NotStarted => status[f] = NoRow,
         status' = [status EXCEPT ![f] = s],
         count' = IF status[f] = NoRow THEN [count EXCEPT ![f] = 0] ELSE count,
         UNCHANGED <<sourcefiles, archives, resets>>
  PROVE  DbInv' /\ KnownOnly'
<1>1. /\ status \in [Files -> Results \cup {NoRow, NotStarted, Started}]
      /\ count \in [Files -> Nat] /\ resets \in [Files -> Nat]
  BY DEF DbInv, DbTypeOK
<1>2. s # NoRow
  BY DbAssumption DEF NoRow, NotStarted, OK
<1>3. count' = count
  BY <1>1 DEF DbInv, UnlimitedHasBudget
<1>4. DbTypeOK' /\ RetryBudget'
  BY <1>1, <1>3 DEF DbInv, DbTypeOK, RetryBudget
<1>5. ASSUME NEW g \in Files
      PROVE  /\ status'[g] = NoRow => count[g] = 0
             /\ status'[g] = NotStarted => count[g] < RetryLimit + resets[g]
  <2>1. /\ status[g] = NoRow => count[g] = 0
        /\ status[g] = NotStarted => count[g] < RetryLimit + resets[g]
    BY DEF DbInv, UnlimitedHasBudget
  <2>2. 0 < RetryLimit + resets[g]
    BY <1>1 DEF RetryLimit
  <2> QED
    BY <1>1, <1>2, <2>1, <2>2
<1>6. UnlimitedHasBudget'
  BY <1>3, <1>5 DEF UnlimitedHasBudget
<1>7. KnownOnly'
  BY <1>1 DEF KnownOnly
<1> QED
  BY <1>4, <1>6, <1>7 DEF DbInv

LEMMA InsertQueueInv ==
  ASSUME Inv, InsertQueue
  PROVE  Inv'
<1> USE DEF Inv
<1> DEFINE inserts == ~inQueue /\ (call.queue \/ call.dst # NoName)
           s == IF call.dst # NoName THEN OK ELSE NotStarted
<1>1. /\ call \in AddFileCalls /\ call.src \in Files /\ srcId = call.src
      /\ sourcefiles[srcId] # Absent
      /\ inQueue = (status[srcId] # NoRow) /\ call.dst \in Names \cup {NoName}
  BY DEF InsertQueue, LocalInv, AtSource, AddFileCalls
<1>2. /\ status' = IF inserts THEN [status EXCEPT ![srcId] = s] ELSE status
      /\ count' = IF inserts THEN [count EXCEPT ![srcId] = 0] ELSE count
      /\ UNCHANGED <<sourcefiles, archives, resets>>
  BY DEF InsertQueue
<1>3. DbInv' /\ KnownOnly'
  <2>1. CASE inserts
    <3>1. status[srcId] = NoRow
      BY <1>1, <2>1
    <3>2. s \in Results \cup {NotStarted}
      BY DbAssumption
    <3>3. status' = [status EXCEPT ![srcId] = s] /\ count' = [count EXCEPT ![srcId] = 0]
      BY <1>2, <2>1
    <3> HIDE DEF s
    <3> QED
      BY <1>1, <1>2, <3>1, <3>2, <3>3, StatusWritten
  <2>2. CASE ~inserts
    BY <1>2, <2>2, TablesKept DEF dbVars
  <2> QED
    BY <2>1, <2>2
<1>4. CASE Return
  BY <1>3, <1>4, Left DEF Return
<1>5. CASE /\ call.dst \notin {NoName, archiveName} /\ putToQueue' = inserts
           /\ inQueue' = (inQueue \/ inserts)
           /\ UNCHANGED <<srcId, archiveName, found>> /\ Continue("selectArchive")
  <2>1. /\ call' = call /\ pc' = "selectArchive" /\ srcId' = srcId /\ call.dst \in Names
        /\ found' = FALSE
    BY <1>1, <1>5 DEF Continue, InsertQueue, LocalInv, AtSource
  <2>2. inserts = ~inQueue /\ inQueue' = TRUE
    BY <1>1, <1>5
  <2>3. status \in [Files -> Results \cup {NoRow, NotStarted, Started}] /\ OK # NoRow
    BY DEF DbInv, DbTypeOK, OK, NoRow
  <2>4. CASE inQueue
    <3>1. status' = status /\ ~putToQueue'
      BY <1>2, <1>5, <2>2, <2>4
    <3> QED
      BY <1>1, <1>2, <1>3, <2>1, <2>2, <2>4, <3>1
         DEF LocalInv, AtSelect, AtSource, AtArchive, AtResult, OwnsArchive
  <2>5. CASE ~inQueue
    <3>1. status'[srcId] = OK
      BY <1>1, <1>2, <1>5, <2>2, <2>3, <2>5
    <3> QED
      BY <1>1, <1>2, <1>3, <2>1, <2>2, <2>3, <3>1
         DEF LocalInv, AtSelect, AtSource, AtArchive, AtResult, OwnsArchive
  <2> QED
    BY <2>4, <2>5
<1> QED
  BY <1>4, <1>5 DEF InsertQueue

\* addFile(), the archive row and the queue row of its owner.
LEMMA ArchiveInv ==
  ASSUME Inv, SelectArchive \/ InsertArchive \/ UpdateQueue
  PROVE  Inv'
<1> USE DEF Inv
<1>t. /\ status \in [Files -> Results \cup {NoRow, NotStarted, Started}]
      /\ archives \in [Files -> Names \cup {NoName}]
  BY DEF DbInv, DbTypeOK
<1>1. CASE SelectArchive
  <2>1. DbInv' /\ KnownOnly' /\ UNCHANGED dbVars /\ call \in AddFileCalls /\ call.dst \in Names
    BY <1>1, TablesKept DEF SelectArchive, LocalInv, AtArchive
  <2>2. CASE Return
    BY <2>1, <2>2, Left DEF Return
  <2>3. ASSUME NEW f \in Files, archives[f] = call.dst, srcId' = f,
               inQueue' = (status[f] # NoRow), putToQueue' = (status[f] >= OK),
               Continue("insertArchive")
        PROVE  LocalInv'
    <3>1. call.dst # NoName
      BY <2>1, DbAssumption
    <3>2. sourcefiles[f] # Absent
      BY <2>3, <3>1 DEF KnownOnly
    <3>3. status[f] \in Int /\ status[f] <= OK
      <4>1. status[f] \in Results \cup {NoRow, NotStarted, Started}
        BY <1>t
      <4>2. \A r \in Results : r \in Int /\ r <= OK
        BY DbAssumption DEF OK
      <4> QED
        BY <4>1, <4>2 DEF OK, NoRow, NotStarted, Started
    <3>4. status[f] >= OK => status[f] = OK
      BY <3>3 DEF OK
    <3>5. UNCHANGED <<sourcefiles, status>>
      BY <2>1 DEF dbVars
    <3> QED
      BY <2>1, <2>3, <3>2, <3>4, <3>5
         DEF Continue, LocalInv, AtSelect, AtSource, AtArchive, AtResult, OwnsArchive
  <2>4. CASE srcId # NoFile /\ UNCHANGED locals /\ Continue("insertArchive")
    BY <1>1, <2>1, <2>4 DEF Continue, SelectArchive, LocalInv, AtSelect, AtSource, AtArchive,
       AtResult, OwnsArchive, locals, dbVars
  <2> QED
    BY <1>1, <2>1, <2>2, <2>3, <2>4 DEF SelectArchive
<1>2. CASE InsertArchive
  <2>1. /\ call \in AddFileCalls /\ call.dst \in Names /\ OwnsArchive(srcId)
        /\ call' = call /\ pc' = "updateQueue" /\ UNCHANGED locals
        /\ UNCHANGED <<sourcefiles, status, count, resets>>
        /\ archives' = archives \/ archives' = WithArchive(srcId, call.dst)
    BY <1>2 DEF InsertArchive, LocalInv, AtArchive, Continue
  <2>2. /\ archives' \in [Files -> Names \cup {NoName}]
        /\ \A f \in Files : f # srcId => archives'[f] = archives[f]
    BY <1>t, <2>1 DEF WithArchive
  <2>3. DbInv' /\ KnownOnly'
    BY <2>1, <2>2 DEF DbInv, DbTypeOK, RetryBudget, UnlimitedHasBudget, KnownOnly, OwnsArchive
  <2> QED
    BY <2>1, <2>3 DEF LocalInv, AtSelect, AtSource, AtArchive, AtResult, OwnsArchive, locals
<1>3. CASE UpdateQueue
  <2>1. /\ OwnsArchive(srcId) /\ srcId \in Files /\ sourcefiles[srcId] # Absent
        /\ inQueue = (status[srcId] # NoRow)
        /\ UNCHANGED <<sourcefiles, archives, resets>>
    BY <1>3 DEF UpdateQueue, LocalInv, AtArchive, OwnsArchive
  <2>2. status' = [status EXCEPT ![srcId] = OK]
    BY <1>3, <1>t, <2>1 DEF UpdateQueue, OwnsArchive
  <2>3. count' = IF status[srcId] = NoRow THEN [count EXCEPT ![srcId] = 0] ELSE count
    BY <1>3, <2>1 DEF UpdateQueue
  <2>4. OK \in Results /\ OK # NotStarted
    BY DbAssumption DEF OK, NotStarted
  <2>5. DbInv' /\ KnownOnly'
    BY <2>1, <2>2, <2>3, <2>4, StatusWritten
  <2> QED
    BY <1>3, <2>5, Left DEF UpdateQueue, Return
<1> QED
  BY <1>1, <1>2, <1>3

-----------------------------------------------------------------------------
\* addEncodedFile() and reset()
LEMMA ResultInv ==
  ASSUME Inv, UpdateResult \/ InsertEncoded \/ UpdateReset
  PROVE  Inv'
<1> USE DEF Inv
<1>t. /\ status \in [Files -> Results \cup {NoRow, NotStarted, Started}]
      /\ archives \in [Files -> Names \cup {NoName}]
      /\ count \in [Files -> Nat] /\ resets \in [Files -> Nat]
  BY DEF DbInv, DbTypeOK
<1>1. CASE UpdateResult
  <2>1. /\ call \in AddEncodedFileCalls /\ sourcefiles[call.file] # Absent
        /\ call.file \in Files /\ call.result \in Results
        /\ call' = call /\ pc' = "insertEncoded"
        /\ UNCHANGED <<sourcefiles, count, archives, resets>>
    BY <1>1 DEF UpdateResult, LocalInv, AtResult, Continue, AddEncodedFileCalls
  <2>2. call.result # NotStarted
    BY <2>1, DbAssumption
  <2>3. DbInv' /\ KnownOnly'
    <3>1. CASE status[call.file] = NoRow
      BY <1>1, <3>1, TablesKept DEF UpdateResult, dbVars
    <3>2. CASE status[call.file] # NoRow
      <4>1. status' = [status EXCEPT ![call.file] = call.result]
        BY <1>1, <3>2 DEF UpdateResult
      <4> QED
        BY <2>1, <2>2, <3>2, <4>1, StatusWritten
    <3> QED
      BY <3>1, <3>2
  <2> QED
    BY <2>1, <2>3 DEF LocalInv, AtSelect, AtSource, AtArchive, AtResult
<1>2. CASE InsertEncoded
  <2>1. /\ call.file \in Files /\ call.fileName \in Names /\ sourcefiles[call.file] # Absent
        /\ UNCHANGED <<sourcefiles, status, count, resets>>
        /\ archives' = archives \/ archives' = WithArchive(call.file, call.fileName)
    BY <1>2 DEF InsertEncoded, LocalInv, AtResult, AddEncodedFileCalls
  <2>2. /\ archives' \in [Files -> Names \cup {NoName}]
        /\ \A f \in Files : f # call.file => archives'[f] = archives[f]
    BY <1>t, <2>1 DEF WithArchive
  <2>3. DbInv' /\ KnownOnly'
    BY <2>1, <2>2 DEF DbInv, DbTypeOK, RetryBudget, UnlimitedHasBudget, KnownOnly
  <2> QED
    BY <1>2, <2>3, Left DEF InsertEncoded, Return
<1>3. CASE UpdateReset
  <2> DEFINE f == call.file
  <2>1. /\ f \in Files /\ sourcefiles[f] # Absent
        /\ status' = IF status[f] = NoRow THEN status ELSE [status EXCEPT ![f] = NotStarted]
        /\ resets' = [resets EXCEPT ![f] = @ + 1]
        /\ UNCHANGED <<sourcefiles, count, archives>>
    BY <1>3 DEF UpdateReset, LocalInv, AtResult, ResetCalls
  <2> HIDE DEF f
  <2>2. /\ DbTypeOK' /\ KnownOnly'
    BY <1>t, <2>1 DEF DbInv, DbTypeOK, KnownOnly
  <2>3. ASSUME NEW g \in Files
        PROVE  /\ count[g] <= RetryLimit + resets'[g]
               /\ status'[g] = NoRow => count[g] = 0
               /\ status'[g] = NotStarted => count[g] < RetryLimit + resets'[g]
    <3>1. /\ count[g] <= RetryLimit + resets[g]
          /\ status[g] = NoRow => count[g] = 0
          /\ status[g] = NotStarted => count[g] < RetryLimit + resets[g]
          /\ count[g] \in Nat /\ resets[g] \in Nat
      BY <1>t DEF DbInv, RetryBudget, UnlimitedHasBudget
    <3>2. resets'[g] = IF g = f THEN resets[g] + 1 ELSE resets[g]
      BY <1>t, <2>1
    <3>3. status'[g] = IF g = f /\ status[g] # NoRow THEN NotStarted ELSE status[g]
      BY <1>t, <2>1
    <3> QED
      BY <3>1, <3>2, <3>3 DEF RetryLimit, NoRow, NotStarted
  <2>4. RetryBudget' /\ UnlimitedHasBudget'
    BY <2>1, <2>3 DEF RetryBudget, UnlimitedHasBudget
  <2> QED
    BY <1>3, <2>2, <2>4, Left DEF UpdateReset, Return, DbInv
<1> QED
  BY <1>1, <1>2, <1>3

LEMMA StepInv == Inv /\ [Next]_vars => Inv'
<1> SUFFICES ASSUME Inv, [Next]_vars PROVE Inv'
  OBVIOUS
<1>1. CASE Crash
  BY <1>1, TablesKept, Left DEF Crash, Inv
<1>2. CASE UNCHANGED vars
  <2>1. UNCHANGED dbVars /\ UNCHANGED <<call, pc>> /\ UNCHANGED locals
    BY <1>2 DEF vars
  <2>2. Selectable(call.maxFileSize)' = Selectable(call.maxFileSize)
    BY <2>1 DEF dbVars, Selectable, Retriable
  <2> QED
    BY <2>1, <2>2, TablesKept DEF Inv, LocalInv, NoLocals, AtSelect, AtSource, AtArchive, AtResult,
       OwnsArchive, locals, dbVars
<1> QED
  BY <1>1, <1>2, BeginInv, GetNextFileInv, SourceInv, InsertQueueInv, ArchiveInv, ResultInv
     DEF Next, Statement

\* Also statement by statement, and whatever statement a crash prevents, no
\* file is handed out more often than RetryLimit plus the number of its resets.
THEOREM StatementsRetryBudget == Spec => []RetryBudget
<1>1. Inv => RetryBudget
  BY DEF Inv, DbInv
<1> QED
  BY <1>1, InitInv, StepInv, PTL DEF Spec

\* Each column holds what its statements can write, also in the middle of a
\* method and after a crash there.
THEOREM StatementsTypeCorrect == Spec => []DbTypeOK
<1>1. Inv => DbTypeOK
  BY DEF Inv, DbInv
<1> QED
  BY <1>1, InitInv, StepInv, PTL DEF Spec

\* A file that is handed out without regard to its count (a new one, or one
\* that was reset) has an attempt left, whatever statement a crash prevents.
THEOREM StatementsKeepAttempts == Spec => []UnlimitedHasBudget
<1>1. Inv => UnlimitedHasBudget
  BY DEF Inv, DbInv
<1> QED
  BY <1>1, InitInv, StepInv, PTL DEF Spec

-----------------------------------------------------------------------------
\* How far the running method has got from what its caller saw.
SourceAdded ==
  IF call.src = NoFile THEN shown.sourcefiles
  ELSE IF shown.sourcefiles[call.src] # Absent THEN shown.sourcefiles
  ELSE [shown.sourcefiles EXCEPT ![call.src] = call.size]

QueueAdded ==
  IF Db!Enqueues(call.src, call.dst, call.queue)
  THEN [shown.status EXCEPT ![call.src] = IF call.dst = NoName THEN NotStarted ELSE OK]
  ELSE shown.status

ArchiveAdded(f, name) ==
  IF shown.archives[f] # NoName THEN shown.archives
  ELSE [shown.archives EXCEPT ![f] = name]

ResultWritten ==
  IF shown.status[call.file] = NoRow THEN shown.status
  ELSE [shown.status EXCEPT ![call.file] = call.result]

NothingWritten ==
  sourcefiles = shown.sourcefiles /\ status = shown.status /\ archives = shown.archives

NewArchive == call.src \in Files => shown.archives[call.src] # call.dst

Shows ==
  ~mayCrash =>
    /\ count = shown.count /\ resets = shown.resets
    /\ pc \in {"idle", "select", "selectCount", "claim", "selectSource", "insertSource",
               "updateResult", "updateReset"} => NothingWritten
    /\ pc = "updateReset" => resets[call.file] < MaxResets
    /\ pc = "insertQueue" =>
         sourcefiles = SourceAdded /\ status = shown.status /\ archives = shown.archives
    /\ pc \in {"selectArchive", "insertArchive", "updateQueue"} =>
         sourcefiles = SourceAdded /\ status = QueueAdded /\ NewArchive
    /\ pc \in {"selectArchive", "insertArchive"} => archives = shown.archives
    /\ pc = "insertArchive" =>
         /\ srcId \in Db!Owners(call.src, call.dst)
         /\ found => archives[srcId] = call.dst
    /\ pc = "updateQueue" =>
         /\ srcId \in Db!Owners(call.src, call.dst)
         /\ archives = ArchiveAdded(srcId, call.dst)
    /\ pc = "insertEncoded" =>
         sourcefiles = shown.sourcefiles /\ status = ResultWritten /\ archives = shown.archives

LEMMA InitShows == Init => Shows /\ Db!DbInit
BY DEF Init, DbInit, Tables, Shows, NothingWritten, Db!DbInit, Absent, Db!Absent, NoRow, Db!NoRow

\* A method that returns has shown what it has written.
LEMMA Returned == ASSUME Return, ~mayCrash PROVE Shows' /\ shown' = Tables'
BY DEF Return, Leave, Tables, Shows, NothingWritten

\* Behaviours with crashes show nothing.
LEMMA Crashing ==
  ASSUME mayCrash, [Next]_vars
  PROVE  Shows' /\ UNCHANGED shown
<1>1. UNCHANGED <<shown, mayCrash>>
  BY DEF Next, BeginAny, Begin, Crash, vars, Statement, Return, Continue,
         SelectNext, SelectCount, Claim, SelectSource, InsertSource, InsertQueue,
         SelectArchive, InsertArchive, UpdateQueue, UpdateResult, InsertEncoded, UpdateReset
<1> QED
  BY <1>1 DEF Shows

LEMMA BeginShows ==
  ASSUME Inv, Shows, ~mayCrash, BeginAny
  PROVE  Shows' /\ UNCHANGED shown
<1>1. /\ pc = "idle" /\ NothingWritten /\ count = shown.count /\ resets = shown.resets
      /\ UNCHANGED dbVars /\ UNCHANGED <<shown, mayCrash>>
  BY DEF BeginAny, Begin, Shows
<1>2. NothingWritten' /\ count' = shown'.count /\ resets' = shown'.resets
  BY <1>1 DEF dbVars, NothingWritten
<1>3. CASE pc' \in {"select", "selectSource", "updateResult"}
  <2>1. pc' # "updateReset" /\ pc' # "insertQueue" /\ pc' # "updateQueue" /\ pc' # "insertEncoded"
        /\ pc' # "selectArchive" /\ pc' # "insertArchive"
    BY <1>3
  <2> QED
    BY <1>1, <1>2, <2>1 DEF Shows, NothingWritten
<1>4. ASSUME NEW c \in AddFileCalls, c.src = NoFile, c.dst # NoName, Begin(c, "selectArchive")
      PROVE  Shows'
  <2>1. call' = c /\ pc' = "selectArchive" /\ c.src \notin Files
    BY <1>4, DbAssumption DEF Begin
  <2>2. SourceAdded' = sourcefiles' /\ NewArchive'
    BY <1>2, <1>4, <2>1 DEF SourceAdded, NewArchive, NothingWritten
  <2>3. QueueAdded' = status'
    BY <1>2, <1>4, <2>1 DEF QueueAdded, Db!Enqueues, NothingWritten
  <2> QED
    BY <1>2, <2>1, <2>2, <2>3 DEF Shows, NothingWritten
<1>5. ASSUME NEW c \in ResetCalls, resets[c.file] < MaxResets, Begin(c, "updateReset")
      PROVE  Shows'
  BY <1>1, <1>2, <1>5 DEF Shows, Begin, dbVars
<1> QED
  BY <1>1, <1>3, <1>4, <1>5 DEF BeginAny, Begin

LEMMA GetNextFileShows ==
  ASSUME Inv, Shows, ~mayCrash, SelectNext \/ SelectCount \/ Claim
  PROVE  Shows' /\ [Db!DbNext]_(Db!dbVars)
<1>1. NothingWritten /\ count = shown.count /\ resets = shown.resets
  BY DEF Shows, SelectNext, SelectCount, Claim
<1>2. CASE (SelectNext \/ SelectCount) /\ ~Return
  <2>1. /\ UNCHANGED dbVars /\ UNCHANGED <<shown, mayCrash>>
        /\ pc' \in {"selectCount", "claim"}
    BY <1>2 DEF SelectNext, SelectCount, Continue, dbVars
  <2> QED
    BY <1>1, <2>1 DEF Shows, NothingWritten, dbVars, Db!dbVars
<1>3. CASE (SelectNext \/ SelectCount) /\ Return
  <2>1. UNCHANGED dbVars
    BY <1>3 DEF SelectNext, SelectCount
  <2> QED
    BY <1>1, <1>3, <2>1, Returned DEF NothingWritten, dbVars, Db!dbVars, Tables
<1>4. CASE Claim
  <2>1. /\ call \in GetNextFileCalls /\ srcId \in Selectable(call.maxFileSize)
        /\ inQueue = (status[srcId] # NoRow) /\ call.maxFileSize \in {0} \cup Sizes /\ srcId \in Files
        /\ status[srcId] = NoRow => count[srcId] = 0
        /\ count \in [Files -> Nat]
    BY <1>4 DEF Claim, Inv, LocalInv, AtSelect, GetNextFileCalls, Selectable, DbInv, DbTypeOK,
       UnlimitedHasBudget
  <2>2. count' = [count EXCEPT ![srcId] = @ + 1]
    <3>1. count' = [count EXCEPT ![srcId] = IF inQueue THEN @ + 1 ELSE 1]
      BY <1>4 DEF Claim
    <3>2. ~inQueue => count[srcId] = 0
      BY <2>1
    <3>3. (IF inQueue THEN count[srcId] + 1 ELSE 1) = count[srcId] + 1
      BY <3>2
    <3> QED
      BY <3>1, <3>3
  <2>3. srcId \in Db!Selectable(call.maxFileSize)
    BY <1>1, <2>1 DEF NothingWritten, Selectable, Db!Selectable, Retriable, Db!Retriable,
       NoRow, Db!NoRow, NotStarted, Db!NotStarted, Absent, Db!Absent, RetryLimit, Db!RetryLimit
  <2>4. Db!DbGetNextFile(call.maxFileSize, srcId)
    <3>1. shown' = Tables'
      BY <1>4, Returned DEF Claim
    <3>2. status' = [status EXCEPT ![srcId] = Started] /\ UNCHANGED <<sourcefiles, archives, resets>>
      BY <1>4 DEF Claim
    <3> QED
      BY <1>1, <2>2, <2>3, <3>1, <3>2
         DEF NothingWritten, Tables, Db!DbGetNextFile, Started, Db!Started
  <2>5. Shows'
    BY <1>4, Returned DEF Claim
  <2> QED
    BY <2>1, <2>4, <2>5 DEF Db!DbNext
<1> QED
  BY <1>2, <1>3, <1>4

LEMMA AddSourceShows ==
  ASSUME Inv, Shows, ~mayCrash, SelectSource \/ InsertSource
  PROVE  Shows' /\ UNCHANGED shown
<1>1. CASE SelectSource
  <2>1. /\ NothingWritten /\ count = shown.count /\ resets = shown.resets
        /\ UNCHANGED dbVars /\ UNCHANGED <<shown, mayCrash>> /\ pc' = "insertSource"
    BY <1>1 DEF SelectSource, Shows, Continue
  <2> QED
    BY <2>1 DEF Shows, NothingWritten, dbVars
<1>2. CASE InsertSource
  <2>1. /\ NothingWritten /\ count = shown.count /\ resets = shown.resets
        /\ UNCHANGED <<status, count, archives, resets, shown, mayCrash, call>>
        /\ pc' = "insertQueue"
    BY <1>2 DEF InsertSource, Shows, Continue
  <2>2. /\ srcId = IF sourcefiles[call.src] # Absent THEN call.src ELSE NoFile
        /\ call.src # NoFile
    BY <1>2, DbAssumption DEF InsertSource, Inv, LocalInv, AtSource
  <2>3. sourcefiles' = SourceAdded'
    BY <1>2, <2>1, <2>2 DEF InsertSource, NothingWritten, SourceAdded
  <2> QED
    BY <2>1, <2>3 DEF Shows, NothingWritten
<1> QED
  BY <1>1, <1>2 DEF SelectSource, InsertSource, Continue

\* The queue row: the status that is inserted is the one Enqueues asks for.
LEMMA InsertQueueShows ==
  ASSUME Inv, Shows, ~mayCrash, InsertQueue
  PROVE  Shows' /\ [Db!DbNext]_(Db!dbVars)
<1> DEFINE inserts == ~inQueue /\ (call.queue \/ call.dst # NoName)
<1>1. /\ count = shown.count /\ resets = shown.resets
      /\ sourcefiles = SourceAdded /\ status = shown.status /\ archives = shown.archives
  BY DEF InsertQueue, Shows
<1>2. /\ call \in AddFileCalls /\ call.src \in Files /\ call.src # NoFile /\ srcId = call.src
      /\ inQueue = (status[call.src] # NoRow) /\ archiveName = archives[call.src]
  BY DbAssumption DEF InsertQueue, Inv, LocalInv, AtSource
<1>3. /\ call.size \in Sizes /\ call.dst \in Names \cup {NoName} /\ call.queue \in BOOLEAN
  BY <1>2 DEF AddFileCalls
<1>4. /\ status' = IF inserts THEN [status EXCEPT ![srcId] = IF call.dst # NoName THEN OK ELSE NotStarted]
                   ELSE status
      /\ count' = IF inserts THEN [count EXCEPT ![srcId] = 0] ELSE count
      /\ UNCHANGED <<sourcefiles, archives, resets>>
  BY DEF InsertQueue
<1>5. count' = count
  <2>1. count \in [Files -> Nat] /\ (status[srcId] = NoRow => count[srcId] = 0)
    BY <1>2 DEF Inv, DbInv, DbTypeOK, UnlimitedHasBudget
  <2> QED
    BY <1>2, <1>4, <2>1
<1>6. inserts = Db!Enqueues(call.src, call.dst, call.queue)
  BY <1>1, <1>2, <1>3 DEF Db!Enqueues, NoRow, Db!NoRow
<1>7. status' = QueueAdded
  BY <1>1, <1>2, <1>4, <1>6 DEF QueueAdded
<1>8. CASE call.dst \in {NoName, archiveName} /\ Return
  <2>1. shown' = Tables' /\ Shows'
    BY <1>8, Returned
  <2>2. Db!DbAddFile(call.src, call.size, call.dst, call.queue)
    BY <1>1, <1>2, <1>4, <1>5, <1>7, <1>8, <2>1
       DEF Tables, SourceAdded, QueueAdded, Db!DbAddFile, Absent, Db!Absent,
           OK, Db!OK, NotStarted, Db!NotStarted
  <2> QED
    BY <1>2, <1>3, <2>1, <2>2 DEF Db!DbNext
<1>9. CASE call.dst \notin {NoName, archiveName} /\ Continue("selectArchive")
  <2>1. UNCHANGED <<call, shown, mayCrash>> /\ pc' = "selectArchive"
    BY <1>9 DEF Continue
  <2>2. SourceAdded' = SourceAdded /\ QueueAdded' = QueueAdded /\ NewArchive'
    BY <1>1, <1>2, <1>9, <2>1 DEF SourceAdded, QueueAdded, NewArchive, Db!Enqueues
  <2>3. Shows'
    BY <1>1, <1>4, <1>5, <1>7, <2>1, <2>2 DEF Shows
  <2> QED
    BY <2>1, <2>3 DEF Db!dbVars
<1> QED
  BY <1>8, <1>9 DEF InsertQueue

\* The archive and the row of its owner.
LEMMA ArchiveShows ==
  ASSUME Inv, Shows, ~mayCrash, SelectArchive \/ InsertArchive \/ UpdateQueue
  PROVE  Shows' /\ [Db!DbNext]_(Db!dbVars)
<1>1. /\ count = shown.count /\ resets = shown.resets
      /\ sourcefiles = SourceAdded /\ status = QueueAdded /\ NewArchive
  BY DEF SelectArchive, InsertArchive, UpdateQueue, Shows
<1>2. /\ call \in AddFileCalls /\ call.dst \in Names /\ call.dst # NoName
      /\ call.size \in Sizes /\ call.queue \in BOOLEAN /\ call.src \in Files \cup {NoFile}
  BY DbAssumption DEF SelectArchive, InsertArchive, UpdateQueue, Inv, LocalInv, AtArchive, AddFileCalls
<1>3. ASSUME UNCHANGED <<sourcefiles, status, count, resets, call, shown, mayCrash>>
      PROVE  SourceAdded' = sourcefiles' /\ QueueAdded' = status' /\ NewArchive'
  BY <1>1, <1>3 DEF SourceAdded, QueueAdded, NewArchive, Db!Enqueues
<1>4. CASE SelectArchive
  <2>1. /\ archives = shown.archives /\ UNCHANGED dbVars /\ srcId = call.src /\ found = FALSE
    BY <1>4 DEF SelectArchive, Shows, Inv, LocalInv, AtArchive
  <2>2. ASSUME NEW f \in Files, archives[f] = call.dst, srcId' = f, Continue("insertArchive")
        PROVE  Shows' /\ UNCHANGED shown
    <3>1. UNCHANGED <<call, shown, mayCrash>> /\ pc' = "insertArchive"
      BY <2>2 DEF Continue
    <3>2. SourceAdded' = sourcefiles' /\ QueueAdded' = status' /\ NewArchive'
      BY <1>3, <2>1, <3>1 DEF dbVars
    <3>3. f \in Db!Owners(call.src, call.dst)
      BY <2>1, <2>2 DEF Db!Owners
    <3>4. (srcId \in Db!Owners(call.src, call.dst))'
      BY <2>2, <3>1, <3>3 DEF Db!Owners
    <3> QED
      BY <1>1, <2>1, <2>2, <3>1, <3>2, <3>4 DEF Shows, dbVars
  <2>3. CASE /\ \A f \in Files : archives[f] # call.dst
             /\ srcId # NoFile /\ UNCHANGED locals /\ Continue("insertArchive")
    <3>1. UNCHANGED <<call, shown, mayCrash>> /\ pc' = "insertArchive"
      BY <2>3 DEF Continue
    <3>2. SourceAdded' = sourcefiles' /\ QueueAdded' = status' /\ NewArchive'
      BY <1>3, <2>1, <3>1 DEF dbVars
    <3>3. (srcId \in Db!Owners(call.src, call.dst))' /\ ~found'
      BY <2>1, <2>3, <3>1 DEF Db!Owners, locals
    <3>4. Shows'
      BY <1>1, <2>1, <3>1, <3>2, <3>3 DEF Shows, dbVars
    <3> QED
      BY <3>1, <3>4 DEF Db!dbVars
  <2>4. CASE /\ \A f \in Files : archives[f] # call.dst
             /\ srcId = NoFile /\ Return
    <3>1. shown' = Tables' /\ Shows'
      BY <2>4, Returned
    <3>2. call.src = NoFile /\ Db!Owners(call.src, call.dst) = {}
      BY <2>1, <2>4 DEF Db!Owners
    <3>3. sourcefiles = shown.sourcefiles /\ status = shown.status
      BY <1>1, <3>2 DEF SourceAdded, QueueAdded, Db!Enqueues
    <3>4. UNCHANGED Db!dbVars
      BY <1>1, <2>1, <3>1, <3>3 DEF Tables, dbVars, Db!dbVars
    <3> QED
      BY <3>1, <3>4
  <2> QED
    BY <1>4, <2>2, <2>3, <2>4 DEF SelectArchive, Db!dbVars
<1>5. CASE InsertArchive
  <2>1. /\ archives = shown.archives /\ srcId \in Db!Owners(call.src, call.dst) /\ srcId \in Files
        /\ found => archives[srcId] = call.dst
        /\ UNCHANGED <<sourcefiles, status, count, resets, call, shown, mayCrash>>
        /\ pc' = "updateQueue" /\ srcId' = srcId
        /\ archives' = IF found THEN archives ELSE WithArchive(srcId, call.dst)
        /\ archives \in [Files -> Names \cup {NoName}]
    BY <1>5 DEF InsertArchive, Shows, Continue, locals, Inv, LocalInv, AtArchive, OwnsArchive,
       DbInv, DbTypeOK
  <2>2. archives' = ArchiveAdded(srcId, call.dst)
    BY <1>2, <2>1 DEF WithArchive, ArchiveAdded
  <2>3. (archives = ArchiveAdded(srcId, call.dst))' /\ (srcId \in Db!Owners(call.src, call.dst))'
    BY <2>1, <2>2 DEF ArchiveAdded, Db!Owners
  <2>4. SourceAdded' = sourcefiles' /\ QueueAdded' = status' /\ NewArchive'
    BY <1>3, <2>1
  <2> QED
    BY <1>1, <2>1, <2>3, <2>4 DEF Shows, Db!dbVars
<1>6. CASE UpdateQueue
  <2>1. /\ srcId \in Db!Owners(call.src, call.dst) /\ srcId \in Files
        /\ archives = ArchiveAdded(srcId, call.dst)
        /\ inQueue = (status[srcId] # NoRow) /\ (inQueue /\ putToQueue => status[srcId] = OK)
        /\ status \in [Files -> Results \cup {NoRow, NotStarted, Started}]
        /\ count \in [Files -> Nat] /\ (status[srcId] = NoRow => count[srcId] = 0)
    BY <1>6 DEF UpdateQueue, Shows, Inv, LocalInv, AtArchive, OwnsArchive, DbInv, DbTypeOK,
       UnlimitedHasBudget
  <2>2. /\ status' = [QueueAdded EXCEPT ![srcId] = OK]
        /\ UNCHANGED <<sourcefiles, archives, resets>> /\ Return
    BY <1>1, <1>6, <2>1 DEF UpdateQueue
  <2>3. count' = count
    BY <1>6, <2>1 DEF UpdateQueue
  <2>4. shown' = Tables' /\ Shows'
    BY <2>2, Returned
  <2>5. Db!DbAddFile(call.src, call.size, call.dst, call.queue)
    BY <1>1, <1>2, <2>1, <2>2, <2>3, <2>4
       DEF Tables, SourceAdded, QueueAdded, ArchiveAdded, NewArchive, Db!DbAddFile,
           Absent, Db!Absent, OK, Db!OK, NotStarted, Db!NotStarted
  <2> QED
    BY <1>2, <2>4, <2>5 DEF Db!DbNext
<1> QED
  BY <1>4, <1>5, <1>6

LEMMA ResultShows ==
  ASSUME Inv, Shows, ~mayCrash, UpdateResult \/ InsertEncoded \/ UpdateReset
  PROVE  Shows' /\ [Db!DbNext]_(Db!dbVars)
<1>1. CASE UpdateResult
  <2>1. /\ NothingWritten /\ count = shown.count /\ resets = shown.resets
        /\ UNCHANGED <<sourcefiles, count, archives, resets, call, shown, mayCrash>>
        /\ pc' = "insertEncoded"
    BY <1>1 DEF UpdateResult, Shows, Continue
  <2>2. status' = ResultWritten'
    BY <1>1, <2>1 DEF UpdateResult, ResultWritten, NothingWritten
  <2> QED
    BY <2>1, <2>2 DEF Shows, NothingWritten, Db!dbVars
<1>2. CASE InsertEncoded
  <2>1. /\ count = shown.count /\ resets = shown.resets
        /\ sourcefiles = shown.sourcefiles /\ status = ResultWritten /\ archives = shown.archives
        /\ archives' = IF call.fileLength > 0 THEN WithArchive(call.file, call.fileName) ELSE archives
        /\ UNCHANGED <<sourcefiles, status, count, resets>> /\ Return
    BY <1>2 DEF InsertEncoded, Shows
  <2>2. /\ call.file \in Files /\ call.result \in Results
        /\ call.fileLength \in {0} \cup Sizes /\ call.fileName \in Names
    BY <1>2 DEF InsertEncoded, Inv, LocalInv, AtResult, AddEncodedFileCalls
  <2>3. shown' = Tables' /\ Shows'
    BY <2>1, Returned
  <2>4. archives' = IF call.fileLength > 0 /\ shown.archives[call.file] = NoName
                    THEN [shown.archives EXCEPT ![call.file] = call.fileName] ELSE shown.archives
    <3>1. archives \in [Files -> Names \cup {NoName}]
      BY DEF Inv, DbInv, DbTypeOK
    <3> QED
      BY <2>1, <2>2, <3>1 DEF WithArchive
  <2>5. Db!DbAddEncodedFile(call.file, call.result, call.fileLength, call.fileName)
    BY <2>1, <2>3, <2>4 DEF Tables, ResultWritten, Db!DbAddEncodedFile, NoRow, Db!NoRow
  <2> QED
    BY <2>2, <2>3, <2>5 DEF Db!DbNext
<1>3. CASE UpdateReset
  <2>1. /\ NothingWritten /\ count = shown.count /\ resets = shown.resets
        /\ resets[call.file] < MaxResets /\ call.file \in Files
    BY <1>3 DEF UpdateReset, Shows, Inv, LocalInv, AtResult, ResetCalls
  <2>2. /\ status' = IF status[call.file] = NoRow THEN status
                     ELSE [status EXCEPT ![call.file] = NotStarted]
        /\ resets' = [resets EXCEPT ![call.file] = @ + 1]
        /\ UNCHANGED <<sourcefiles, count, archives>> /\ Return
    BY <1>3 DEF UpdateReset
  <2>3. shown' = Tables' /\ Shows'
    BY <2>2, Returned
  <2>4. Db!DbReset(call.file)
    BY <2>1, <2>2, <2>3 DEF Tables, NothingWritten, Db!DbReset, NoRow, Db!NoRow,
       NotStarted, Db!NotStarted
  <2> QED
    BY <2>1, <2>3, <2>4 DEF Db!DbNext
<1> QED
  BY <1>1, <1>2, <1>3

LEMMA StepShows ==
  ASSUME Inv, Shows, [Next]_vars
  PROVE  Shows' /\ [Db!DbNext]_(Db!dbVars)
<1>1. CASE mayCrash
  BY <1>1, Crashing DEF Db!dbVars
<1>2. CASE ~mayCrash /\ UNCHANGED vars
  <2>1. /\ UNCHANGED <<sourcefiles, status, count, archives, resets, call, pc, srcId, found>>
        /\ UNCHANGED <<shown, mayCrash>>
    BY <1>2 DEF vars, dbVars, locals
  <2> QED
    BY <2>1 DEF Shows, NothingWritten, SourceAdded, QueueAdded, ArchiveAdded, ResultWritten,
       NewArchive, Db!Owners, Db!Enqueues, Db!dbVars
<1>3. CASE ~mayCrash /\ Next
  <2>1. BeginAny \/ Statement
    BY <1>3 DEF Next, Crash
  <2> QED
    BY <1>3, <2>1, BeginShows, GetNextFileShows, AddSourceShows, InsertQueueShows, ArchiveShows,
       ResultShows DEF Statement, Db!dbVars
<1> QED
  BY <1>1, <1>2, <1>3

\* Whatever the tables held when a method was called, the statements it ends
\* with have made of them what the method's one step in SQLite makes of them.
THEOREM StatementsImplement == Spec => Implements
<1>1. Inv /\ Shows /\ [Next]_vars => [Db!DbNext]_(Db!dbVars)
  BY StepShows
<1>2. Inv /\ Shows /\ [Next]_vars => Inv' /\ Shows'
  BY StepInv, StepShows
<1>3. Init => Inv /\ Shows /\ Db!DbInit
  BY InitInv, InitShows
<1> QED
  BY <1>1, <1>2, <1>3, PTL DEF Spec, Implements, Db!DbSpec
=============================================================================

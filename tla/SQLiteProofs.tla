---------------------------- MODULE SQLiteProofs ----------------------------
(***************************************************************************)
(* The retry budget of the job database, for every set of files, sizes and *)
(* archive paths and however often reset() is called.                      *)
(***************************************************************************)
EXTENDS SQLite, TLAPS

\* The file addFile() records an archive for is a file, never the null
\* pointer.
LEMMA OwnersAreFiles ==
  ASSUME DbTypeOK, NEW src \in Files \cup {NoFile}, NEW dst
  PROVE  Owners(src, dst) \subseteq Files
BY DEF Owners

\* Every method called with sensible arguments keeps the columns in their
\* types and the retry budget: getNextFile() of a file whose attempts are not
\* limited by its error code finds the count one below the budget.
LEMMA GetNextFileKeepsDbInv ==
  ASSUME DbAssumption, DbInv, NEW m \in Nat, NEW f \in Files, DbGetNextFile(m, f)
  PROVE  DbInv'
<1>1. DbTypeOK'
  BY DEF DbInv, DbTypeOK, DbGetNextFile
<1>2. count[f] < RetryLimit + resets[f]
  BY DEF DbInv, DbTypeOK, RetryBudget, UnlimitedHasBudget, DbGetNextFile,
         Selectable, Retriable, RetryLimit
<1>3. RetryBudget'
  BY <1>2 DEF DbInv, DbTypeOK, RetryBudget, DbGetNextFile, RetryLimit
<1>4. UnlimitedHasBudget'
  BY DEF DbInv, DbTypeOK, UnlimitedHasBudget, DbGetNextFile, Started, NoRow, NotStarted
<1> QED
  BY <1>1, <1>3, <1>4 DEF DbInv

\* addFile() changes no count, inserts a row as not started only where there
\* was none, and otherwise records OK.
LEMMA AddFileKeepsDbInv ==
  ASSUME DbAssumption, DbInv,
         NEW src \in Files \cup {NoFile}, NEW size \in Sizes,
         NEW dst \in Names \cup {NoName}, NEW queue \in BOOLEAN,
         DbAddFile(src, size, dst, queue)
  PROVE  /\ DbInv'
         /\ \A f \in Files : status'[f] # status[f] =>
                status'[f] = OK \/ (status[f] = NoRow /\ status'[f] = NotStarted)
<1> DEFINE queued == IF Enqueues(src, dst, queue)
                     THEN [status EXCEPT ![src] = IF dst = NoName THEN NotStarted ELSE OK]
                     ELSE status
<1>1. /\ status \in [Files -> Results \cup {NoRow, NotStarted, Started}]
      /\ OK \in Results
  BY DEF DbInv, DbTypeOK, DbAssumption
<1>2. /\ queued \in [Files -> Results \cup {NoRow, NotStarted, Started}]
      /\ \A f \in Files : queued[f] # status[f] =>
             queued[f] = OK \/ (status[f] = NoRow /\ queued[f] = NotStarted)
  BY <1>1 DEF Enqueues, DbAssumption
<1>3. \/ status' = queued /\ archives' = archives
      \/ \E f \in Files : /\ status' = [queued EXCEPT ![f] = OK]
                          /\ dst \in Names
                          /\ archives' = IF archives[f] # NoName THEN archives
                                         ELSE [archives EXCEPT ![f] = dst]
  BY OwnersAreFiles DEF DbAddFile, DbInv
<1> HIDE DEF queued
<1>4. /\ status' \in [Files -> Results \cup {NoRow, NotStarted, Started}]
      /\ \A f \in Files : status'[f] # status[f] =>
             status'[f] = OK \/ (status[f] = NoRow /\ status'[f] = NotStarted)
  BY <1>1, <1>2, <1>3
<1>5. archives' \in [Files -> Names \cup {NoName}]
  BY <1>3 DEF DbInv, DbTypeOK
<1>6. sourcefiles' \in [Files -> Sizes \cup {Absent}] /\ UNCHANGED <<count, resets>>
  BY DEF DbInv, DbTypeOK, DbAddFile
<1>7. DbTypeOK' /\ RetryBudget'
  BY <1>4, <1>5, <1>6 DEF DbInv, DbTypeOK, RetryBudget
<1>8. UnlimitedHasBudget'
  BY <1>1, <1>4, <1>6 DEF DbInv, DbTypeOK, UnlimitedHasBudget, OK, NoRow, NotStarted, RetryLimit
<1> QED
  BY <1>4, <1>7, <1>8 DEF DbInv

\* addEncodedFile() records an outcome, which never is "not started".
LEMMA AddEncodedFileKeepsDbInv ==
  ASSUME DbAssumption, DbInv, NEW f \in Files, NEW r \in Results, NEW len,
         NEW n \in Names, DbAddEncodedFile(f, r, len, n)
  PROVE  DbInv'
<1>1. DbTypeOK' /\ RetryBudget'
  BY DEF DbInv, DbTypeOK, RetryBudget, DbAddEncodedFile
<1>2. UnlimitedHasBudget'
  BY DEF DbInv, DbTypeOK, UnlimitedHasBudget, DbAddEncodedFile, DbAssumption, NoRow, NotStarted
<1> QED
  BY <1>1, <1>2 DEF DbInv

\* reset() gives the file one attempt more.
LEMMA ResetKeepsDbInv ==
  ASSUME DbAssumption, DbInv, NEW f \in Files, DbReset(f)
  PROVE  DbInv'
<1>1. DbTypeOK' /\ RetryBudget'
  BY DEF DbInv, DbTypeOK, RetryBudget, DbReset, RetryLimit
<1>2. UnlimitedHasBudget'
  BY DEF DbInv, DbTypeOK, RetryBudget, UnlimitedHasBudget, DbReset, NoRow, NotStarted, RetryLimit
<1> QED
  BY <1>1, <1>2 DEF DbInv

\* The empty tables satisfy the invariant.
LEMMA DbInitInv == ASSUME DbInit PROVE DbInv
BY DEF DbInit, DbInv, DbTypeOK, RetryBudget, UnlimitedHasBudget, NoRow, NotStarted, RetryLimit

\* A step that leaves the tables alone keeps it.
LEMMA DbStutterKeepsDbInv == ASSUME DbInv, UNCHANGED dbVars PROVE DbInv'
BY DEF DbInv, DbTypeOK, RetryBudget, UnlimitedHasBudget, dbVars

-----------------------------------------------------------------------------
\* The database alone, called in any order with any arguments: the columns
\* keep their types and no file is handed out more often than RetryLimit plus
\* the number of its resets.
THEOREM DbCorrect ==
  ASSUME DbAssumption
  PROVE  DbSpec => []DbInv
<1>1. DbInv /\ [DbNext]_dbVars => DbInv'
  <2> SUFFICES ASSUME DbInv, [DbNext]_dbVars PROVE DbInv'
    OBVIOUS
  <2>1. ASSUME NEW m \in {0} \cup Sizes, NEW f \in Files, DbGetNextFile(m, f) PROVE DbInv'
    BY <2>1, GetNextFileKeepsDbInv DEF DbAssumption
  <2>2. ASSUME NEW src \in Files \cup {NoFile}, NEW size \in Sizes,
               NEW dst \in Names \cup {NoName}, NEW queue \in BOOLEAN,
               DbAddFile(src, size, dst, queue)
        PROVE DbInv'
    BY <2>2, AddFileKeepsDbInv
  <2>3. ASSUME NEW f \in Files, NEW r \in Results, NEW len \in {0} \cup Sizes, NEW n \in Names,
               DbAddEncodedFile(f, r, len, n)
        PROVE DbInv'
    BY <2>3, AddEncodedFileKeepsDbInv
  <2>4. ASSUME NEW f \in Files, DbReset(f) PROVE DbInv'
    BY <2>4, ResetKeepsDbInv
  <2>5. CASE UNCHANGED dbVars
    BY <2>5, DbStutterKeepsDbInv
  <2> QED
    BY <2>1, <2>2, <2>3, <2>4, <2>5 DEF DbNext
<1> QED
  BY <1>1, DbInitInv, PTL DEF DbSpec

\* However the methods of the database are called, getNextFile() reserves no
\* file more than RetryLimit times plus once for each reset() of it.
THEOREM DbRetryBudget ==
  ASSUME DbAssumption
  PROVE  DbSpec => []RetryBudget
BY DbCorrect, PTL DEF DbInv
=============================================================================

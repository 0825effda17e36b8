--------------------------- MODULE DownloadProofs ---------------------------
(***************************************************************************)
(* Theorems about downloads, for all lengths and chunk sizes, whatever is  *)
(* lost, late, grows or fails.                                             *)
(***************************************************************************)
EXTENDS Download, TLAPS

\* The numbers in the types, for the provers.
LEMMA Numbers ==
  ASSUME TypeOK
  PROVE  /\ MaxLength \in Nat \ {0} /\ MaxLost \in Nat
         /\ fileLength \in Nat /\ size \in Nat /\ inFile \in Nat /\ inFile <= size
         /\ fileLength <= size /\ size <= MaxLength /\ chunkSize \in Nat
         /\ late \in Nat /\ lost \in Nat
         /\ srcFile \in Int /\ answer.first \in Nat /\ answer.len \in Int
  BY DownloadAssumption DEF TypeOK, Answers, Failed

\* The bytes of a pending answer were read behind what the client has
\* written, and before where inFile is now.
PendingInOrder ==
  call = "readChunk" /\ answer # NoAnswer =>
    /\ 0 <= answer.len
    /\ srcFile <= answer.first
    /\ answer.first + answer.len <= inFile
    /\ srcFile = answer.first => \A i \in 0..(srcFile - 1) : in[i] = i

\* The client's copy is never ahead of the daemon's stream, and is right if
\* both are at the same position: a late read only ever makes the two differ,
\* and only a reset, which rewinds both, brings them together again.
NeverAhead ==
  /\ srcFile <= inFile
  /\ srcFile = inFile => \A i \in 0..(srcFile - 1) : in[i] = i
  /\ call = "reset" => srcFile \in {0, Failed}
  /\ PendingInOrder
  /\ call = "none" => answer = NoAnswer
  /\ late <= lost
  /\ state # "Receiving" => call = "none"
  /\ state = "SendResult" => srcFile = fileLength
  /\ AcceptedIsWhole

LEMMA TypeInit == Init => TypeOK
<1> SUFFICES ASSUME Init PROVE TypeOK
  OBVIOUS
<1>1. /\ MaxLength \in Nat \ {0} /\ MaxLost \in Nat
      /\ fileLength \in 1..MaxLength /\ size \in fileLength..MaxLength
  BY DownloadAssumption DEF Init
<1>2. 0 \in 0..size /\ 0 \in 0..MaxLost
  BY <1>1
<1>3. NoAnswer \in Answers
  BY <1>1 DEF NoAnswer, Answers, Bytes
<1> QED
  BY <1>1, <1>2, <1>3 DEF Init, TypeOK

\* Every step keeps the types; the order of the streams is what keeps the
\* position of m_srcFile inside the source.
LEMMA TypeStep ==
  ASSUME TypeOK, NeverAhead, [Next]_vars
  PROVE  TypeOK'
<1> USE DownloadAssumption, Numbers
<1>n. NoAnswer \in Answers /\ Bytes(0, 0) \in Answers
  BY DEF NoAnswer, Answers, Bytes
<1>r. ASSUME NEW len \in 0..MaxLength, ReadSome(len)
      PROVE  inFile' \in 0..size /\ Bytes(inFile, len) \in Answers
  BY <1>r DEF ReadSome, Answers, Bytes
<1>1. CASE Read
  BY <1>1 DEF Read, TypeOK, lengths, clientVars
<1>2. CASE GotBytes
  <2>1. answer \in Answers /\ answer # NoAnswer
    BY <1>2 DEF TypeOK, GotBytes, NoAnswer, Bytes
  <2>2. CASE UNCHANGED in /\ srcFile' = Failed
    BY <1>2, <1>n, <2>2 DEF GotBytes, TypeOK, lengths
  <2>3. CASE srcFile # Failed /\ srcFile' = srcFile + answer.len
    <3>1. srcFile' \in 0..size
      BY <1>2, <2>1, <2>3 DEF NeverAhead, PendingInOrder, GotBytes, TypeOK, Answers
    <3>2. \A i \in srcFile..(srcFile + answer.len - 1) :
            answer.first + (i - srcFile) \in 0..(MaxLength - 1)
      BY <2>1, <2>3 DEF Answers, TypeOK
    <3>3. in' \in [0..(MaxLength - 1) -> 0..(MaxLength - 1) \cup {Unwritten}]
      BY <1>2, <2>3, <3>2 DEF GotBytes, TypeOK, Failed
    <3> QED
      BY <1>2, <1>n, <3>1, <3>3 DEF GotBytes, TypeOK, lengths
  <2> QED
    BY <1>2, <2>2, <2>3 DEF GotBytes
<1>3. CASE GotEnd
  BY <1>3, <1>n DEF GotEnd, StartAgain, TypeOK, lengths
<1>4. CASE TimedOut
  <2>1. late' \in 0..MaxLost /\ lost' \in 0..MaxLost
    BY <1>4 DEF TimedOut, TypeOK, NeverAhead
  <2> QED
    BY <1>4, <1>n, <2>1 DEF TimedOut, StartAgain, TypeOK, lengths
<1>5. CASE GotReset
  BY <1>5, <1>n DEF GotReset, TypeOK, lengths, clientVars
<1>6. CASE ResetTimedOut
  BY <1>6, <1>n DEF ResetTimedOut, TypeOK, lengths
<1>7. CASE HandleRead
  BY <1>7, <1>r DEF HandleRead, TypeOK, lengths, clientVars
<1>8. CASE HandleReset
  BY <1>8, <1>n DEF HandleReset, TypeOK, lengths, clientVars
<1>9. CASE HandleLate
  BY <1>9, <1>r DEF HandleLate, TypeOK, lengths, clientVars
<1>10. CASE PostFile
  BY <1>10 DEF PostFile, TypeOK, lengths
<1>11. CASE Grow
  BY <1>11 DEF Grow, TypeOK, clientVars, callVars
<1>12. CASE UNCHANGED vars
  BY <1>12 DEF vars, lengths, clientVars, callVars, TypeOK
<1> QED
  BY <1>1, <1>2, <1>3, <1>4, <1>5, <1>6, <1>7, <1>8, <1>9, <1>10, <1>11, <1>12
     DEF Next, ClientStep, Handle

-----------------------------------------------------------------------------
LEMMA NeverAheadStep ==
  ASSUME TypeOK, NeverAhead, [Next]_vars
  PROVE  NeverAhead'
<1> USE DownloadAssumption, Numbers
<1>1. CASE Read
  <2>1. answer = NoAnswer
    BY <1>1 DEF Read, NeverAhead
  <2> QED
    BY <1>1, <2>1 DEF Read, NeverAhead, PendingInOrder, AcceptedIsWhole, lengths, clientVars
<1>2. CASE GotBytes
  <2>0. /\ call = "readChunk" /\ answer # NoAnswer /\ answer.len > 0 /\ state = "Receiving"
        /\ call' = "none" /\ answer' = NoAnswer
        /\ UNCHANGED <<fileLength, state, inFile, late, lost>>
    BY <1>2 DEF GotBytes, NeverAhead, NoAnswer, Bytes, lengths
  <2>1. CASE UNCHANGED in /\ srcFile' = Failed
    BY <2>0, <2>1 DEF NeverAhead, PendingInOrder, AcceptedIsWhole, Failed
  <2>2. CASE srcFile # Failed /\ srcFile' = srcFile + answer.len
    <3>1. srcFile' <= inFile
      BY <2>0, <2>2 DEF NeverAhead, PendingInOrder
    <3>2. ASSUME srcFile' = inFile, NEW i \in 0..(srcFile' - 1)
          PROVE  in'[i] = i
      <4>1. srcFile = answer.first /\ \A j \in 0..(srcFile - 1) : in[j] = j
        BY <2>0, <2>2, <3>2 DEF NeverAhead, PendingInOrder
      <4>2. in' = [j \in DOMAIN in |-> IF j \in srcFile..(srcFile + answer.len - 1)
                                      THEN answer.first + (j - srcFile) ELSE in[j]]
        BY <1>2, <2>2 DEF GotBytes, Failed, TypeOK
      <4>3. i \in DOMAIN in /\ i \in Nat
        BY <3>1, <3>2 DEF TypeOK
      <4>4. CASE i < srcFile
        BY <4>1, <4>2, <4>3, <4>4
      <4>5. CASE i >= srcFile
        BY <2>2, <3>2, <4>1, <4>2, <4>3, <4>5
      <4> QED
        BY <4>3, <4>4, <4>5
    <3> QED
      BY <2>0, <3>1, <3>2 DEF NeverAhead, PendingInOrder, AcceptedIsWhole
  <2> QED
    BY <1>2, <2>1, <2>2 DEF GotBytes
<1>s. ASSUME StartAgain, UNCHANGED <<fileLength, state, in, inFile>>, state = "Receiving",
             late' <= lost'
      PROVE  NeverAhead'
  BY <1>s DEF StartAgain, NeverAhead, PendingInOrder, AcceptedIsWhole, Failed
<1>3. CASE GotEnd
  <2>1. /\ call = "readChunk" /\ state = "Receiving" /\ late' <= lost'
        /\ UNCHANGED <<fileLength, in, inFile>>
    BY <1>3 DEF GotEnd, NeverAhead, lengths
  <2>2. CASE AtRecordedLength /\ state' = "SendResult" /\ call' = "none" /\ answer' = NoAnswer
            /\ UNCHANGED srcFile
    BY <2>1, <2>2 DEF NeverAhead, PendingInOrder, AcceptedIsWhole, AtRecordedLength
  <2> QED
    BY <1>3, <1>s, <2>1, <2>2 DEF GotEnd
<1>4. CASE TimedOut
  <2>1. state = "Receiving" /\ late' <= lost' /\ UNCHANGED <<fileLength, state, in, inFile>>
    BY <1>4 DEF TimedOut, NeverAhead, lengths
  <2> QED
    BY <1>4, <1>s, <2>1 DEF TimedOut
<1>5. CASE GotReset
  BY <1>5 DEF GotReset, NeverAhead, PendingInOrder, AcceptedIsWhole, lengths, clientVars
<1>6. CASE ResetTimedOut
  BY <1>6 DEF ResetTimedOut, NeverAhead, PendingInOrder, AcceptedIsWhole, lengths
<1>7. CASE HandleRead
  <2>1. PICK len \in 0..MaxLength : ReadSome(len) /\ answer' = Bytes(inFile, len)
    BY <1>7 DEF HandleRead
  <2>2. inFile' = inFile + len /\ answer'.first = inFile /\ answer'.len = len /\ len \in Nat
    BY <2>1 DEF ReadSome, Bytes
  <2>3. UNCHANGED <<fileLength, state, srcFile, in, call, late, lost>> /\ call = "readChunk"
    BY <1>7 DEF HandleRead, lengths, clientVars
  <2> QED
    BY <2>2, <2>3 DEF NeverAhead, PendingInOrder, AcceptedIsWhole
<1>8. CASE HandleReset
  BY <1>8 DEF HandleReset, NeverAhead, PendingInOrder, AcceptedIsWhole, Failed, lengths, clientVars
<1>9. CASE HandleLate
  <2>1. PICK len \in 0..MaxLength : ReadSome(len)
    BY <1>9 DEF HandleLate
  <2>2. inFile' = inFile + len /\ len \in Nat
    BY <2>1 DEF ReadSome
  <2>3. UNCHANGED <<fileLength, state, srcFile, in, call, answer>> /\ late' <= lost'
    BY <1>9 DEF HandleLate, NeverAhead, lengths, clientVars
  <2> QED
    BY <2>2, <2>3 DEF NeverAhead, PendingInOrder, AcceptedIsWhole
<1>10. CASE PostFile
  BY <1>10 DEF PostFile, NeverAhead, PendingInOrder, AcceptedIsWhole, lengths
<1>11. CASE Grow
  BY <1>11 DEF Grow, NeverAhead, PendingInOrder, AcceptedIsWhole, clientVars, callVars
<1>12. CASE UNCHANGED vars
  BY <1>12 DEF vars, lengths, clientVars, callVars, NeverAhead, PendingInOrder, AcceptedIsWhole
<1> QED
  BY <1>1, <1>2, <1>3, <1>4, <1>5, <1>6, <1>7, <1>8, <1>9, <1>10, <1>11, <1>12
     DEF Next, ClientStep, Handle

LEMMA DownloadInvariant == Spec => [](TypeOK /\ NeverAhead)
<1>1. Init => NeverAhead
  <2> SUFFICES ASSUME Init PROVE NeverAhead
    OBVIOUS
  <2>1. srcFile \in {0, Failed} /\ inFile = 0 /\ answer = NoAnswer /\ late = 0 /\ lost = 0 /\ call = "none" /\ state = "Receiving"
    BY DEF Init
  <2> QED
    BY <2>1 DEF NeverAhead, PendingInOrder, AcceptedIsWhole, Failed
<1>2. TypeOK /\ NeverAhead /\ [Next]_vars => (TypeOK /\ NeverAhead)'
  BY TypeStep, NeverAheadStep
<1> QED
  BY <1>1, <1>2, TypeInit, PTL DEF Spec

\* All variables keep their types; in particular the client never writes
\* beyond the length of the source.
THEOREM DownloadTypeCorrect == Spec => []TypeOK
  BY DownloadInvariant, PTL

\* The comparison of lengths at the client and of positions at the daemon
\* together guarantee that an accepted encoding was made from exactly the
\* bytes of the source.
THEOREM DownloadIsWhole == Spec => []AcceptedIsWhole
<1>1. NeverAhead => AcceptedIsWhole
  BY DEF NeverAhead
<1> QED
  BY <1>1, DownloadInvariant, PTL
=============================================================================

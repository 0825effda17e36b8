---------------------------- MODULE UploadProofs ----------------------------
(***************************************************************************)
(* Theorems about uploads, for all lengths, chunk sizes and numbers of     *)
(* errors.                                                                 *)
(***************************************************************************)
EXTENDS Upload, TLAPS

\* What the provers need to know of a step of TypeOK's variables.
LEMMA TypeStep == TypeOK /\ [Next]_vars => TypeOK'
<1> SUFFICES ASSUME TypeOK, [Next]_vars PROVE TypeOK'
  OBVIOUS
<1> USE UploadAssumption
<1>a. /\ fileLength \in Nat \ {0} /\ chunkSize \in Nat \ {0}
      /\ fileLength \in Lengths /\ chunkSize \in ChunkSizes
  BY DEF TypeOK
<1>1. CASE Send
  <2>1. call' \in Chunks
    BY <1>a, <1>1 DEF Send, TypeOK, Chunk, Chunks
  <2> QED
    BY <1>a, <1>1, <2>1 DEF Send, TypeOK, Chunks, clientVars, callVars, fileVars
<1>2. CASE GotAnswer
  BY <1>2 DEF GotAnswer, CallReset, TypeOK, Chunks, Answers, fileVars
<1>3. CASE Rewind
  <2>1. pos' \in 0..fileLength
    BY <1>a, <1>3 DEF Rewind, TypeOK
  <2> QED
    BY <1>3, <2>1 DEF Rewind, TypeOK, Chunks, Answers, fileVars
<1>4. CASE TimedOut
  <2>1. call \in Chunks
    BY <1>4 DEF TimedOut, TypeOK, Reset, NoCall
  <2>2. late' \in SUBSET Chunks
    BY <1>4, <2>1 DEF TimedOut, TypeOK
  <2> QED
    BY <1>4, <2>2 DEF TimedOut, CallReset, TypeOK, Chunks, Answers, clientVars, fileVars
<1>5. CASE ResetTimedOut
  BY <1>5 DEF ResetTimedOut, TypeOK, Chunks, Answers, fileVars
<1>w. ASSUME NEW chunk \in Chunks, Accepted(chunk), Write(chunk)
      PROVE  /\ outFile' \in 0..fileLength \cup {Closed}
             /\ out' \in [0..(fileLength - 1) -> 0..(fileLength - 1) \cup {Unwritten}]
             /\ queued' \in BOOLEAN
  <2>1. /\ chunk.first \in Nat /\ chunk.size \in Nat /\ outFile \in Nat
        /\ outFile + chunk.size <= fileLength
        /\ chunk.first + chunk.size <= fileLength
    BY <1>w, <1>a DEF Chunks, Accepted, TypeOK
  <2>2. Written(chunk) \in [0..(fileLength - 1) -> 0..(fileLength - 1) \cup {Unwritten}]
    <3>1. DOMAIN out = 0..(fileLength - 1)
      BY DEF TypeOK
    <3>2. \A i \in 0..(fileLength - 1) :
            i \in outFile..(outFile + chunk.size - 1)
              => chunk.first + (i - outFile) \in 0..(fileLength - 1)
      BY <2>1, <1>a
    <3> QED
      BY <3>1, <3>2 DEF Written, TypeOK
  <2>3. outFile' \in 0..fileLength \cup {Closed}
    <3>1. outFile + chunk.size \in 0..fileLength
      BY <1>a, <2>1
    <3> QED
      BY <1>w, <3>1 DEF Write
  <2>4. out' = Written(chunk) \/ out' = out
    BY <1>w DEF Write
  <2>5. queued' \in BOOLEAN
    BY <1>w DEF Write, TypeOK
  <2> QED
    BY <2>2, <2>3, <2>4, <2>5 DEF TypeOK
<1>6. CASE Handle
  <2>1. CASE call = Reset
    BY <1>6, <2>1, <1>a DEF Handle, Reset, TypeOK, Chunks, Answers, clientVars
  <2>2. CASE call.op = "writeChunk"
    <3>1. call \in Chunks
      BY <2>2 DEF TypeOK, Reset, NoCall
    <3>2. /\ outFile' \in 0..fileLength \cup {Closed}
          /\ out' \in [0..(fileLength - 1) -> 0..(fileLength - 1) \cup {Unwritten}]
          /\ queued' \in BOOLEAN
      BY <1>6, <1>w, <2>2, <3>1 DEF Handle, Reset, fileVars, TypeOK
    <3> QED
      BY <1>6, <2>2, <3>2 DEF Handle, Reset, TypeOK, Chunks, Answers, clientVars
  <2> QED
    BY <1>6, <2>1, <2>2 DEF Handle
<1>7. CASE HandleLate
  <2>1. PICK chunk \in late : /\ late' = late \ {chunk}
                              /\ IF Accepted(chunk) THEN Write(chunk) ELSE UNCHANGED fileVars
    BY <1>7 DEF HandleLate
  <2>2. chunk \in Chunks
    BY DEF TypeOK
  <2>3. /\ outFile' \in 0..fileLength \cup {Closed}
        /\ out' \in [0..(fileLength - 1) -> 0..(fileLength - 1) \cup {Unwritten}]
        /\ queued' \in BOOLEAN
    BY <1>w, <2>1, <2>2 DEF fileVars, TypeOK
  <2> QED
    BY <1>7, <2>1, <2>3 DEF HandleLate, TypeOK, Chunks, clientVars, callVars
<1>8. CASE UNCHANGED vars
  BY <1>8 DEF vars, clientVars, callVars, fileVars, TypeOK, Chunks
<1> QED
  BY <1>1, <1>2, <1>3, <1>4, <1>5, <1>6, <1>7, <1>8 DEF Next, ClientStep

\* The initial states have the types.
LEMMA TypeInit == Init => TypeOK
<1> SUFFICES ASSUME Init PROVE TypeOK
  OBVIOUS
<1>1. fileLength \in Nat \ {0} /\ lost = 0 /\ MaxLost \in Nat
  BY UploadAssumption DEF Init
<1>2. pos \in 0..fileLength /\ lost \in 0..MaxLost /\ outFile \in 0..fileLength
  BY <1>1 DEF Init
<1> QED
  BY <1>1, <1>2 DEF Init, TypeOK, Answers

\* All variables keep their types, whatever fails.
THEOREM UploadTypeCorrect == Spec => []TypeOK
  BY TypeInit, TypeStep, PTL DEF Spec

-----------------------------------------------------------------------------
\* A client that is told the upload is finished, or believes it, is right.
FinishedIsQueued ==
  /\ outFile = Closed => queued
  /\ answer = "finished" => queued
  /\ state = "Idle" => queued

LEMMA FinishedStep == TypeOK /\ FinishedIsQueued /\ [Next]_vars => FinishedIsQueued'
<1> SUFFICES ASSUME TypeOK, FinishedIsQueued, [Next]_vars PROVE FinishedIsQueued'
  OBVIOUS
<1> USE DEF FinishedIsQueued
<1>1. CASE Send
  BY <1>1 DEF Send, fileVars
<1>2. CASE GotAnswer
  <2>1. UNCHANGED fileVars /\ answer' \in {"none"}
    BY <1>2 DEF GotAnswer, CallReset
  <2>2. CASE UNCHANGED state
    BY <2>1, <2>2 DEF fileVars
  <2>3. CASE eof /\ answer = "finished"
    BY <2>1, <2>3 DEF fileVars
  <2> QED
    BY <1>2, <2>2, <2>3 DEF GotAnswer, TypeOK
<1>3. CASE Rewind
  BY <1>3 DEF Rewind, fileVars
<1>4. CASE TimedOut
  BY <1>4 DEF TimedOut, CallReset, clientVars, fileVars
<1>5. CASE ResetTimedOut
  BY <1>5 DEF ResetTimedOut, fileVars
<1>w. ASSUME NEW chunk \in Chunks, Accepted(chunk), Write(chunk)
      PROVE  (outFile' = Closed => queued') /\ (queued => queued')
  <2>1. outFile + chunk.size \in Nat
    BY <1>w, UploadAssumption DEF Accepted, TypeOK, Chunks
  <2>2. outFile + chunk.size # Closed
    BY <2>1 DEF Closed
  <2> QED
    BY <1>w, <2>2 DEF Write
<1>6. CASE Handle
  <2>1. CASE call = Reset
    BY <1>6, <2>1 DEF Handle, Reset, Closed, clientVars
  <2>2. CASE call.op = "writeChunk" /\ ~Accepted(call)
    BY <1>6, <2>2 DEF Handle, Reset, clientVars, fileVars
  <2>3. CASE call.op = "writeChunk" /\ Accepted(call)
    <3>1. /\ Write(call) /\ answer' = (IF outFile' = Closed THEN "finished" ELSE "more")
          /\ call \in Chunks
      BY <1>6, <2>3 DEF Handle, Reset, NoCall, TypeOK
    <3> QED
      BY <1>6, <1>w, <2>3, <3>1 DEF Handle, clientVars
  <2> QED
    BY <1>6, <2>1, <2>2, <2>3 DEF Handle
<1>7. CASE HandleLate
  BY <1>7, <1>w DEF HandleLate, clientVars, callVars, fileVars, TypeOK
<1>8. CASE UNCHANGED vars
  BY <1>8 DEF vars, clientVars, callVars, fileVars
<1> QED
  BY <1>1, <1>2, <1>3, <1>4, <1>5, <1>6, <1>7, <1>8 DEF Next, ClientStep

\* The client never deletes an encoded file the daemon has not taken over,
\* whatever is lost, late or fails.
THEOREM ClientDeletesStored == Spec => []DeletedIsStored
<1>1. Init => FinishedIsQueued
  BY UploadAssumption DEF Init, FinishedIsQueued, Closed
<1>2. FinishedIsQueued => DeletedIsStored
  BY DEF FinishedIsQueued, DeletedIsStored
<1> QED
  BY <1>1, <1>2, FinishedStep, UploadTypeCorrect, PTL DEF Spec

-----------------------------------------------------------------------------
\* Why a transfer that starts again over old bytes is sound if no handler
\* runs late.  While outFile is open the bytes before its position are those
\* of the encoded file; the chunk under way starts at that position, or is
\* empty; an empty chunk cannot end the upload.  (After an error at the end of
\* m_dstFile only empty chunks follow, because the rewind has no effect.)
Whole == \A i \in 0..(fileLength - 1) : out[i] = i

Aligned ==
  /\ late = {}
  /\ eof => pos = fileLength
  /\ queued => Whole
  /\ outFile = Closed <=> queued
  /\ outFile # Closed =>
       /\ outFile < fileLength
       /\ \A i \in 0..(outFile - 1) : out[i] = i
       /\ call = NoCall /\ state = "Transmitting" => pos \in {outFile, fileLength}
       /\ call.op = "writeChunk" /\ answer = "none" =>
            /\ pos = call.first + call.size
            /\ call.first = outFile \/ (call.size = 0 /\ pos = fileLength)
       /\ call.op = "writeChunk" /\ answer # "none" =>
            answer = "more" /\ pos \in {outFile, fileLength}
       /\ call = Reset /\ answer = "done" => outFile = 0
  /\ call = NoCall => answer = "none"
  /\ call = Reset => answer \in {"none", "done"}

\* The handler of an aligned chunk keeps the bytes right.
LEMMA WriteAligned ==
  ASSUME TypeOK, Aligned, "diskFull" \notin events,
         call.op = "writeChunk", answer = "none", Accepted(call), Write(call),
         UNCHANGED <<fileLength, pos>>
  PROVE  /\ outFile' = Closed <=> queued'
         /\ queued' => Whole'
         /\ outFile' # Closed => /\ outFile' < fileLength
                                 /\ \A i \in 0..(outFile' - 1) : out'[i] = i
                                 /\ pos \in {outFile', fileLength}
<1> USE UploadAssumption
<1> DEFINE tellp == outFile + call.size
<1>1. /\ fileLength \in Nat \ {0} /\ call \in Chunks /\ outFile \in Nat /\ tellp <= fileLength
      /\ outFile # Closed /\ ~queued
  BY DEF TypeOK, Accepted, Aligned, Reset, NoCall, Closed
<1>2. call.first \in Nat /\ call.size \in Nat
  BY <1>1 DEF Chunks, TypeOK
<1>3. /\ out' = Written(call)
      /\ outFile' = (IF AtEnd(tellp) THEN Closed ELSE tellp)
      /\ queued' = (IF AtEnd(tellp) THEN TRUE ELSE queued)
  BY DEF Write
<1>4. DOMAIN out = 0..(fileLength - 1)
  BY DEF TypeOK
<1>5. \A i \in 0..(tellp - 1) : out'[i] = i
  <2> TAKE i \in 0..(tellp - 1)
  <2>1. i \in DOMAIN out /\ i \in Nat
    BY <1>1, <1>2, <1>4
  <2>2. CASE i < outFile
    <3>1. out'[i] = out[i]
      BY <1>1, <1>3, <2>1, <2>2 DEF Written
    <3> QED
      BY <1>1, <2>1, <2>2, <3>1 DEF Aligned
  <2>3. CASE i >= outFile
    <3>1. call.size # 0 /\ i \in outFile..(tellp - 1)
      BY <1>1, <1>2, <2>1, <2>3
    <3>2. call.first = outFile
      BY <1>1, <3>1 DEF Aligned
    <3> QED
      BY <1>1, <1>2, <1>3, <2>1, <3>1, <3>2 DEF Written
  <2> QED
    BY <1>1, <2>1, <2>2, <2>3
<1>6. CASE AtEnd(tellp)
  <2>1. tellp = fileLength
    BY <1>1, <1>2, <1>6 DEF AtEnd
  <2> QED
    BY <1>3, <1>5, <1>6, <2>1 DEF Whole
<1>7. CASE ~AtEnd(tellp)
  <2>1. outFile' = tellp /\ tellp < fileLength /\ ~queued'
    BY <1>1, <1>2, <1>3, <1>7 DEF AtEnd
  <2>2. pos \in {tellp, fileLength}
    <3>1. CASE call.first = outFile
      BY <1>1, <3>1 DEF Aligned
    <3>2. CASE call.size = 0
      <4>1. tellp = outFile
        BY <1>1, <1>2, <3>2
      <4> QED
        BY <1>1, <3>2, <4>1 DEF Aligned
    <3> QED
      BY <1>1, <3>1, <3>2 DEF Aligned
  <2> QED
    BY <1>1, <1>2, <1>5, <2>1, <2>2 DEF Closed
<1> QED
  BY <1>6, <1>7

\* Aligned is inductive when no handler runs late and no write fails.
LEMMA AlignedStep ==
  ASSUME "late" \notin events, "diskFull" \notin events,
         TypeOK, Aligned, [Next]_vars
  PROVE  Aligned'
<1> USE UploadAssumption
<1>a. /\ fileLength \in Nat \ {0} /\ chunkSize \in Nat \ {0}
      /\ pos \in 0..fileLength
  BY DEF TypeOK
<1>1. CASE Send
  <2>1. /\ call = NoCall /\ state = "Transmitting" /\ answer = "none" /\ answer' = answer
        /\ UNCHANGED <<fileLength, state, late, outFile, out, queued>>
    BY <1>1 DEF Send, Aligned, fileVars
  <2> DEFINE size == IF chunkSize <= fileLength - pos THEN chunkSize ELSE fileLength - pos
  <2>2. call' = Chunk(pos, size) /\ pos' = pos + size /\ eof' = (size < chunkSize)
    BY <1>1 DEF Send
  <2>3. size \in Nat /\ (pos = fileLength => size = 0) /\ (size < chunkSize => pos + size = fileLength)
    BY <1>a
  <2>4. /\ call'.op = "writeChunk" /\ call'.first = pos /\ call'.size = size
        /\ call' # NoCall /\ call' # Reset
    BY <2>2 DEF Chunk, NoCall, Reset
  <2> HIDE DEF size
  <2>5. eof' => pos' = fileLength
    BY <2>2, <2>3
  <2>6. outFile # Closed => pos = outFile \/ pos = fileLength
    BY <2>1 DEF Aligned
  <2>7. ASSUME outFile' # Closed
        PROVE  /\ pos' = call'.first + call'.size
               /\ call'.first = outFile' \/ (call'.size = 0 /\ pos' = fileLength')
    BY <1>a, <2>1, <2>2, <2>3, <2>4, <2>6, <2>7
  <2> QED
    <3>1. /\ late' = {} /\ (outFile' = Closed <=> queued') /\ (queued' => Whole')
          /\ outFile' # Closed => outFile' < fileLength' /\ \A i \in 0..(outFile' - 1) : out'[i] = i
      BY <2>1 DEF Aligned, Whole
    <3>2. eof' => pos' = fileLength'
      BY <2>1, <2>5
    <3>3. call' # NoCall /\ call' # Reset /\ answer' = "none"
      BY <2>1, <2>4
    <3>4. CASE outFile' = Closed
      BY <3>1, <3>2, <3>3, <3>4 DEF Aligned
    <3>5. CASE outFile' # Closed
      <4>1. /\ call' = NoCall /\ state' = "Transmitting" => pos' \in {outFile', fileLength'}
            /\ call'.op = "writeChunk" /\ answer' # "none" =>
                 answer' = "more" /\ pos' \in {outFile', fileLength'}
            /\ call' = Reset /\ answer' = "done" => outFile' = 0
        BY <3>3
      <4>2. /\ outFile' < fileLength'
            /\ \A i \in 0..(outFile' - 1) : out'[i] = i
        BY <3>1, <3>5
      <4>3. call'.op = "writeChunk" /\ answer' = "none" =>
            /\ pos' = call'.first + call'.size
            /\ call'.first = outFile' \/ (call'.size = 0 /\ pos' = fileLength')
        BY <2>7, <3>5
      <4>4. late' = {} /\ (eof' => pos' = fileLength')
        BY <3>1, <3>2
      <4>5. ~queued'
        BY <3>1, <3>5
      <4> QED
        BY <3>3, <3>5, <4>1, <4>2, <4>3, <4>4, <4>5 DEF Aligned
    <3> QED
      BY <3>4, <3>5
<1>2. CASE GotAnswer
  <2>1. /\ call.op = "writeChunk" /\ answer # "none" /\ answer' = "none"
        /\ UNCHANGED <<fileLength, pos, eof, late, outFile, out, queued>>
        /\ call' \in {NoCall, Reset}
    BY <1>2 DEF GotAnswer, CallReset, fileVars
  <2>2. NoCall.op # "writeChunk" /\ Reset.op # "writeChunk"
    BY DEF NoCall, Reset
  <2> QED
    BY <2>1, <2>2 DEF Aligned, Whole
<1>3. CASE Rewind
  <2>1. /\ call = Reset /\ answer = "done" /\ call' = NoCall /\ answer' = "none"
        /\ pos' = (IF eof THEN pos ELSE 0) /\ eof' = FALSE
        /\ UNCHANGED <<fileLength, late, outFile, out, queued>>
    BY <1>3 DEF Rewind, fileVars
  <2>2. outFile # Closed => outFile = 0 /\ pos' \in {0, fileLength}
    BY <2>1, <1>a DEF Aligned, TypeOK
  <2>3. NoCall.op # "writeChunk" /\ NoCall # Reset
    BY DEF NoCall, Reset
  <2> QED
    BY <2>1, <2>2, <2>3 DEF Aligned, Whole
<1>4. CASE TimedOut
  <2>1. /\ call' = Reset /\ answer' = "none"
        /\ UNCHANGED <<fileLength, pos, eof, late, outFile, out, queued>>
    BY <1>4 DEF TimedOut, CallReset, clientVars, fileVars
  <2>2. Reset.op # "writeChunk" /\ Reset # NoCall
    BY DEF NoCall, Reset
  <2> QED
    BY <2>1, <2>2 DEF Aligned, Whole
<1>5. CASE ResetTimedOut
  <2>1. /\ call' = NoCall /\ answer' = "none" /\ state' = "Terminated"
        /\ UNCHANGED <<fileLength, pos, eof, late, outFile, out, queued>>
    BY <1>5 DEF ResetTimedOut, fileVars
  <2>2. NoCall.op # "writeChunk" /\ NoCall # Reset
    BY DEF NoCall, Reset
  <2> QED
    BY <2>1, <2>2 DEF Aligned, Whole
<1>6. CASE Handle
  <2>0. /\ call # NoCall /\ answer = "none"
        /\ UNCHANGED <<fileLength, state, pos, eof, call, late>>
    BY <1>6 DEF Handle, clientVars
  <2>1. CASE call = Reset
    <3>1. /\ outFile' = (IF outFile = Closed THEN Closed ELSE 0)
          /\ answer' = "done" /\ UNCHANGED <<out, queued>>
          /\ call.op # "writeChunk"
      BY <1>6, <2>1 DEF Handle, Reset
    <3> QED
      BY <1>a, <2>0, <2>1, <3>1 DEF Aligned, Whole, Closed
  <2>2. CASE call.op = "writeChunk" /\ ~Accepted(call)
    <3>1. UNCHANGED fileVars /\ call # Reset
      BY <1>6, <2>2 DEF Handle, Reset
    <3>2. outFile = Closed
      <4> SUFFICES ASSUME outFile # Closed PROVE FALSE
        OBVIOUS
      <4>1. call \in Chunks
        BY <2>2 DEF TypeOK, Reset, NoCall
      <4>2. /\ call.first \in Nat /\ call.size \in Nat /\ outFile \in Nat
            /\ outFile < fileLength /\ call.first + call.size <= fileLength
            /\ call.first = outFile \/ call.size = 0
        BY <2>0, <2>2, <4>1 DEF Aligned, Chunks, TypeOK
      <4> QED
        BY <1>a, <2>2, <4>2 DEF Accepted
    <3> QED
      BY <2>0, <2>2, <3>1, <3>2 DEF Aligned, Whole, fileVars
  <2>3. CASE call.op = "writeChunk" /\ Accepted(call)
    <3>1. /\ Write(call) /\ answer' = (IF outFile' = Closed THEN "finished" ELSE "more")
          /\ call # Reset
      BY <1>6, <2>3 DEF Handle, Reset
    <3>2. /\ outFile' = Closed <=> queued'
          /\ queued' => Whole'
          /\ outFile' # Closed => /\ outFile' < fileLength
                                  /\ \A i \in 0..(outFile' - 1) : out'[i] = i
                                  /\ pos \in {outFile', fileLength}
      BY <2>0, <2>3, <3>1, WriteAligned
    <3> QED
      BY <2>0, <2>3, <3>1, <3>2 DEF Aligned
  <2> QED
    BY <1>6, <2>1, <2>2, <2>3 DEF Handle
<1>7. CASE HandleLate
  BY <1>7 DEF HandleLate, Aligned
<1>8. CASE UNCHANGED vars
  BY <1>8 DEF vars, clientVars, callVars, fileVars, Aligned, Whole
<1> QED
  BY <1>1, <1>2, <1>3, <1>4, <1>5, <1>6, <1>7, <1>8 DEF Next, ClientStep

Calm == "late" \notin events /\ "diskFull" \notin events

LEMMA EventsKept == [Next]_vars => UNCHANGED events
  BY DEF Next, vars, ClientStep, Send, GotAnswer, Rewind, TimedOut, ResetTimedOut, Handle,
         HandleLate

\* What is handed to the main loop is the encoded file byte for byte, however
\* often the upload was started again, in every behaviour in which no handler
\* runs late and no write fails.
THEOREM UploadIsWhole == Spec => []QueuedIsWhole
<1>1. Init => (Calm => Aligned)
  <2> SUFFICES ASSUME Init PROVE Aligned
    OBVIOUS
  <2>1. fileLength \in Nat \ {0} /\ outFile = 0 /\ NoCall # Reset /\ NoCall.op # "writeChunk"
    BY UploadAssumption DEF Init, NoCall, Reset
  <2> QED
    BY <2>1 DEF Init, Aligned, Closed
<1>2. TypeOK /\ (Calm => Aligned) /\ [Next]_vars => (Calm => Aligned)'
  BY AlignedStep, EventsKept DEF Calm
<1>3. (Calm => Aligned) => QueuedIsWhole
  BY DEF Calm, Aligned, Whole, QueuedIsWhole
<1> QED
  BY <1>1, <1>2, <1>3, UploadTypeCorrect, PTL DEF Spec
=============================================================================

------------------------------ MODULE Download ------------------------------
(***************************************************************************)
(* The download of one source file, byte by byte, up to the postFile()     *)
(* that announces its encoding.  readChunk() of the daemon advances        *)
(* inFile; doReceive() of the client writes to m_srcFile and, at the end,  *)
(* compares lengths.  Both ends keep a position of their own, and a call   *)
(* that timed out may be handled after the reset() that followed it.       *)
(*                                                                         *)
(* Byte i of the source is the number i.  The database recorded its length *)
(* when it was discovered; the file may have grown since.                  *)
(***************************************************************************)
EXTENDS Integers

CONSTANTS MaxLength,   \* bound on the length of the source
          ChunkSizes,  \* values of chunkSize in the daemon's configuration
          Scenarios,   \* sets of failures, one of which a behaviour may meet
          MaxLost      \* bound on the number of calls that time out

\* lostAnswer and late: a read times out after or before its handler has
\* run; resetLost: a reset() times out; grows: somebody appends to the
\* source; localFails: m_srcFile cannot be opened or written.
AllEvents == {"lostAnswer", "late", "resetLost", "grows", "localFails"}

ASSUME DownloadAssumption ==
  /\ MaxLength \in Nat \ {0} /\ ChunkSizes \subseteq Nat \ {0}
  /\ Scenarios \subseteq SUBSET AllEvents /\ MaxLost \in Nat

VARIABLES
  fileLength,  \* encSettings.fileLength, the recorded length
  size,        \* the length of the source
  chunkSize,
  events,      \* the failures that may happen; it never changes
  state,       \* the client: m_mainState
  srcFile,     \* position of m_srcFile
  in,          \* bytes of the client's copy
  call,        \* the call the client waits for
  answer,      \* the bytes of its answer, once the handler has run
  late,        \* number of abandoned reads whose handler has not run yet
  lost,        \* number of calls that have timed out
  inFile       \* position of the daemon's inFile

lengths == <<fileLength, size, chunkSize, events>>
clientVars == <<state, srcFile, in>>
callVars == <<call, answer, late, lost>>
vars == <<lengths, clientVars, callVars, inFile>>

Failed == -1
Unwritten == -1

\* The answer of readChunk() is the bytes first, .., first + len - 1.
Bytes(first, len) == [first |-> first, len |-> len]
NoAnswer == Bytes(0, -1)

Answers == {b \in [first : 0..MaxLength, len : -1..MaxLength] : b.first + b.len <= MaxLength}

\* All variables have their types; positions lie in the source, or m_srcFile
\* has failed.
TypeOK ==
  /\ fileLength \in 1..MaxLength /\ size \in fileLength..MaxLength
  /\ chunkSize \in ChunkSizes /\ events \in Scenarios
  /\ state \in {"Receiving", "SendResult", "Transmitting", "Terminated"}
  /\ srcFile \in 0..size \cup {Failed}
  /\ in \in [0..(MaxLength - 1) -> 0..(MaxLength - 1) \cup {Unwritten}]
  /\ call \in {"none", "readChunk", "reset"}
  /\ answer \in Answers
  /\ late \in 0..MaxLost /\ lost \in 0..MaxLost
  /\ inFile \in 0..size

\* getNextFile() has opened inFile; doIdle() goes to Receiving even if it
\* could not open m_srcFile.
Init ==
  /\ fileLength \in 1..MaxLength /\ chunkSize \in ChunkSizes /\ events \in Scenarios
  /\ size \in (IF "grows" \in events THEN fileLength..MaxLength ELSE {fileLength})
  /\ state = "Receiving"
  /\ srcFile \in (IF "localFails" \in events THEN {0, Failed} ELSE {0})
  /\ in = [i \in 0..(MaxLength - 1) |-> Unwritten]
  /\ call = "none" /\ answer = NoAnswer
  /\ late = 0 /\ lost = 0
  /\ inFile = 0

-----------------------------------------------------------------------------
\* doReceive() calls readChunk().
Read ==
  /\ state = "Receiving" /\ call = "none"
  /\ call' = "readChunk"
  /\ UNCHANGED <<lengths, clientVars, answer, late, lost, inFile>>

\* The client's exception handler: the copy is rewound, unless its stream has
\* failed, then reset() is called.
StartAgain ==
  /\ srcFile' = IF srcFile = Failed THEN Failed ELSE 0
  /\ call' = "reset" /\ answer' = NoAnswer

\* The bytes arrive and are written at the position of m_srcFile; a failed
\* stream swallows them.
GotBytes ==
  /\ call = "readChunk" /\ answer.len > 0
  /\ \/ /\ srcFile # Failed
        /\ in' = [i \in DOMAIN in |-> IF i \in srcFile..(srcFile + answer.len - 1)
                                      THEN answer.first + (i - srcFile) ELSE in[i]]
        /\ srcFile' = srcFile + answer.len
     \/ /\ srcFile = Failed \/ "localFails" \in events
        /\ srcFile' = Failed
        /\ UNCHANGED in
  /\ call' = "none" /\ answer' = NoAnswer
  /\ UNCHANGED <<lengths, state, late, lost, inFile>>

\* doReceive() compares the position of m_srcFile, -1 after a failure, with
\* the recorded length.
AtRecordedLength == srcFile = fileLength

\* An empty chunk is the end: the client encodes its copy if the length is
\* the recorded one, and starts again otherwise.
GotEnd ==
  /\ call = "readChunk" /\ answer # NoAnswer /\ answer.len = 0
  /\ \/ /\ AtRecordedLength
        /\ state' = "SendResult"
        /\ call' = "none" /\ answer' = NoAnswer
        /\ UNCHANGED srcFile
     \/ /\ ~AtRecordedLength
        /\ StartAgain
        /\ UNCHANGED state
  /\ UNCHANGED <<lengths, in, late, lost, inFile>>

\* A read times out, after or before its handler has run.
TimedOut ==
  /\ call = "readChunk" /\ lost < MaxLost
  /\ \/ answer # NoAnswer /\ "lostAnswer" \in events /\ UNCHANGED late
     \/ answer = NoAnswer /\ "late" \in events /\ late' = late + 1
  /\ StartAgain
  /\ lost' = lost + 1
  /\ UNCHANGED <<lengths, state, in, inFile>>

\* reset() is done.
GotReset ==
  /\ call = "reset" /\ answer # NoAnswer
  /\ call' = "none" /\ answer' = NoAnswer
  /\ UNCHANGED <<lengths, clientVars, late, lost, inFile>>

\* reset() times out inside the exception handler: poll() does not catch it.
ResetTimedOut ==
  /\ "resetLost" \in events /\ call = "reset"
  /\ state' = "Terminated" /\ call' = "none" /\ answer' = NoAnswer
  /\ UNCHANGED <<lengths, srcFile, in, late, lost, inFile>>

-----------------------------------------------------------------------------
\* readsome(): up to chunkSize bytes, as many as the stream has at hand, and
\* none only at the end of the file.
ReadSome(len) ==
  /\ len <= chunkSize /\ inFile + len <= size
  /\ len = 0 <=> inFile = size
  /\ inFile' = inFile + len

HandleRead_FullChunk ==
  /\ call = "readChunk" /\ answer = NoAnswer
  /\ \E len \in 0..MaxLength :
       ReadSome(len) /\ answer' = Bytes(inFile, IF len = 0 THEN 0 ELSE chunkSize)
  /\ UNCHANGED <<lengths, clientVars, call, late, lost>>

\* readChunk() of the daemon, for the call the client waits for.
HandleRead ==
  /\ call = "readChunk" /\ answer = NoAnswer
  /\ \E len \in 0..MaxLength : ReadSome(len) /\ answer' = Bytes(inFile, len)
  /\ UNCHANGED <<lengths, clientVars, call, late, lost>>

HandleReset_NoSeek ==
  /\ call = "reset" /\ answer = NoAnswer
  /\ answer' = Bytes(0, 0)
  /\ UNCHANGED <<lengths, clientVars, call, late, lost, inFile>>

\* reset(): inFile is rewound.
HandleReset ==
  /\ call = "reset" /\ answer = NoAnswer
  /\ inFile' = 0
  /\ answer' = Bytes(0, 0)
  /\ UNCHANGED <<lengths, clientVars, call, late, lost>>

\* readChunk() for an abandoned call; its bytes are thrown away.
HandleLate ==
  /\ late > 0
  /\ late' = late - 1
  /\ \E len \in 0..MaxLength : ReadSome(len)
  /\ UNCHANGED <<lengths, clientVars, call, answer, lost>>

PostFile_AnyPosition ==
  /\ state = "SendResult" /\ call = "none"
  /\ state' = "Transmitting" /\ late' = 0
  /\ UNCHANGED <<lengths, srcFile, in, call, answer, lost, inFile>>

\* The client has connected anew, so that abandoned calls are refused from
\* now on, and posts its result: postFile() takes it only if the source was
\* read up to the recorded length.
PostFile ==
  /\ state = "SendResult" /\ call = "none"
  /\ inFile = fileLength
  /\ state' = "Transmitting" /\ late' = 0
  /\ UNCHANGED <<lengths, srcFile, in, call, answer, lost, inFile>>

\* External: the source grows.
Grow ==
  /\ "grows" \in events
  /\ size < MaxLength
  /\ size' = size + 1
  /\ UNCHANGED <<fileLength, chunkSize, events, clientVars, callVars, inFile>>

-----------------------------------------------------------------------------
ClientStep == Read \/ GotBytes \/ GotEnd \/ GotReset \/ PostFile

Handle == HandleRead \/ HandleReset

Next == ClientStep \/ TimedOut \/ ResetTimedOut \/ Handle \/ HandleLate \/ Grow

Spec == Init /\ [][Next]_vars

\* The client polls on and the daemon answers.
FairSpec == Spec /\ WF_vars(ClientStep) /\ WF_vars(Handle)

-----------------------------------------------------------------------------
\* What the daemon accepts as encoded was made from the whole source, byte
\* for byte, although the client only compares lengths: reads that are
\* handled late shift its copy against the source, a growing source makes up
\* for the length, and neither stream is ever truncated.
AcceptedIsWhole == state = "Transmitting" => \A i \in 0..(fileLength - 1) : in[i] = i

\* A source that does not grow is downloaded and its encoding accepted,
\* however many answers were lost or reads handled late.
DownloadEnds == events \subseteq {"lostAnswer", "late"} ~> state = "Transmitting"
=============================================================================

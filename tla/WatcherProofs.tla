---------------------------- MODULE WatcherProofs ----------------------------
(***************************************************************************)
(* Proofs about the file system watcher: its data, and that the listener   *)
(* is told of no move that did not happen.                                 *)
(***************************************************************************)
EXTENDS Watcher, SequenceTheorems, TLAPS

MoveMasks == {"MOVED_FROM", "MOVED_TO"}

\* Events that are queued, and two of them.
InQueue(q, e) == \E i \in 1..Len(q) : q[i] = e

BothIn(q, e, f) == \E i, j \in 1..Len(q) : i # j /\ q[i] = e /\ q[j] = f

IsMove(e) == ~e.isDir /\ e.mask \in MoveMasks

\* Events that are queued, or the halves of moves that will be; and two of them.
Sent(e) == InQueue(queue, e) \/ e \in halves

BothSent(e, f) ==
  \/ BothIn(queue, e, f)
  \/ InQueue(queue, e) /\ f \in halves
  \/ e \in halves /\ InQueue(queue, f)
  \/ e \in halves /\ f \in halves /\ e # f

\* The scan is in the root, or in a directory of the root, whose entries are
\* files.
StackOK ==
  /\ Len(stack) >= 1 => stack[1].dir = Root
  /\ Len(stack) = 2 => stack[2].dir \in Subs /\ stack[2].left \subseteq Paths
  /\ mode = "scan" => Len(stack) >= 1

\* What the watcher reads from an event.
EventOK(e) ==
  /\ ~e.isDir /\ e.mask \in {"CLOSE_WRITE"} \cup MoveMasks => e.path \in Paths
  /\ IsMove(e) => e.cookie \in 1..ops

EventsOK ==
  /\ \A e \in Events : Sent(e) => EventOK(e)
  /\ \A h \in halves : IsMove(h)
  /\ move # NoMove => move.cookie <= ops

\* The invariant of the data.
WatcherInv == TypeOK /\ StackOK /\ EventsOK

\* The watcher knows the directory of each event, and is told of none that
\* goes.
EventKnown(e) == e.path[1] \in m_watchedDirs /\ ~(e.isDir /\ e.mask = "DELETE")

\* Two events with one cookie are the two halves of a move that happened.
PairOK(e, f) ==
  IsMove(e) /\ IsMove(f) /\ e.cookie = f.cookie =>
    \/ e.mask = "MOVED_FROM" /\ f.mask = "MOVED_TO" /\ <<e.path, f.path>> \in renames
    \/ e.mask = "MOVED_TO" /\ f.mask = "MOVED_FROM" /\ <<f.path, e.path>> \in renames

\* So are the pending half and an event with its cookie.
PendingOK(e) ==
  move # NoMove /\ IsMove(e) /\ e.cookie = move.cookie =>
    \/ e.mask = "MOVED_TO" /\ move.from /\ <<move.path, e.path>> \in renames
    \/ e.mask = "MOVED_FROM" /\ ~move.from /\ <<e.path, move.path>> \in renames

MovesInv ==
  "rmdir" \notin kinds =>
    /\ \A e \in Events : InQueue(queue, e) => EventKnown(e)
    /\ \A e \in Events : Sent(e) => PendingOK(e)
    /\ \A e, f \in Events : BothSent(e, f) => PairOK(e, f)
    /\ moved \subseteq renames

-----------------------------------------------------------------------------
\* What is left of a queue when its first event is taken.
LEMMA TailIn ==
  ASSUME NEW q \in Seq(Events), q # <<>>
  PROVE  /\ Tail(q) \in Seq(Events) /\ Head(q) \in Events /\ InQueue(q, Head(q))
         /\ \A e : InQueue(Tail(q), e) => InQueue(q, e) /\ BothIn(q, Head(q), e)
         /\ \A e, f : BothIn(Tail(q), e, f) => BothIn(q, e, f)
<1>1. PICK n \in Nat : n = Len(Tail(q)) /\ Len(q) = n + 1
  BY HeadTailProperties, LenProperties
<1>2. PICK t \in Seq(Events) : t = Tail(q)
  BY HeadTailProperties
<1>3. Head(q) \in Events /\ Head(q) = q[1] /\ \A i \in 1..n : t[i] = q[i + 1]
  BY <1>1, <1>2, HeadTailProperties
<1>4. InQueue(q, Head(q))
  BY <1>1, <1>3 DEF InQueue
<1>5. ASSUME NEW e, InQueue(t, e)
      PROVE  InQueue(q, e) /\ BothIn(q, Head(q), e)
  <2>1. PICK i \in 1..n : t[i] = e
    BY <1>1, <1>2, <1>5 DEF InQueue
  <2>2. i + 1 \in 1..Len(q) /\ 1 \in 1..Len(q) /\ 1 # i + 1 /\ q[i + 1] = e
    BY <1>1, <1>3, <2>1
  <2> QED
    BY <1>3, <2>2 DEF InQueue, BothIn
<1>6. ASSUME NEW e, NEW f, BothIn(t, e, f)
      PROVE  BothIn(q, e, f)
  <2>1. PICK i \in 1..n, j \in 1..n : i # j /\ t[i] = e /\ t[j] = f
    BY <1>1, <1>2, <1>6 DEF BothIn
  <2>2. i + 1 \in 1..Len(q) /\ j + 1 \in 1..Len(q) /\ i + 1 # j + 1 /\ q[i + 1] = e /\ q[j + 1] = f
    BY <1>1, <1>3, <2>1
  <2> QED
    BY <2>2 DEF BothIn
<1> QED
  BY <1>2, <1>3, <1>4, <1>5, <1>6

\* What a queue is when an event is added.
LEMMA AppendIn ==
  ASSUME NEW q \in Seq(Events), NEW g \in Events
  PROVE  /\ Append(q, g) \in Seq(Events)
         /\ \A e : InQueue(Append(q, g), e) => InQueue(q, e) \/ e = g
         /\ \A e, f : BothIn(Append(q, g), e, f) =>
              \/ BothIn(q, e, f)
              \/ e = g /\ InQueue(q, f)
              \/ f = g /\ InQueue(q, e)
<1>1. PICK n \in Nat : n = Len(q)
  BY LenProperties
<1>2. PICK a \in Seq(Events) : a = Append(q, g)
  BY AppendProperties
<1>3. Len(a) = n + 1 /\ a[n + 1] = g /\ \A i \in 1..n : a[i] = q[i]
  BY <1>1, <1>2, AppendProperties
<1>4. ASSUME NEW e, InQueue(a, e)
      PROVE  InQueue(q, e) \/ e = g
  <2>1. PICK i \in 1..(n + 1) : a[i] = e
    BY <1>3, <1>4 DEF InQueue
  <2> QED
    BY <1>1, <1>3, <2>1 DEF InQueue
<1>5. ASSUME NEW e, NEW f, BothIn(a, e, f)
      PROVE  \/ BothIn(q, e, f)
             \/ e = g /\ InQueue(q, f)
             \/ f = g /\ InQueue(q, e)
  <2>1. PICK i \in 1..(n + 1), j \in 1..(n + 1) : i # j /\ a[i] = e /\ a[j] = f
    BY <1>3, <1>5 DEF BothIn
  <2> QED
    BY <1>1, <1>3, <2>1 DEF InQueue, BothIn
<1> QED
  BY <1>2, <1>4, <1>5

\* Events on directories.
LEMMA DirEventTypes ==
  ASSUME WatcherAssumption, NEW d \in Dirs, NEW mask \in Masks
  PROVE  /\ DirEventOf(mask, d) \in Events
         /\ DirEventOf(mask, d).mask = mask
         /\ DirEventOf(mask, d).path = <<Root, d>>
         /\ DirEventOf(mask, d).isDir = TRUE
<1>1. <<Root, d>> \in Dirs \X (Names \cup Dirs) /\ 0 \in 0..MaxOps
  BY DEF Dirs, WatcherAssumption
<1> QED
  BY <1>1 DEF DirEventOf, Events

\* A stack of at most two frames.
LEMMA StackLen ==
  ASSUME NEW s \in Seq(Frames), s # <<>>, Len(s) <= 2
  PROVE  Len(s) = 1 \/ Len(s) = 2
<1>1. PICK n \in Nat : n = Len(s)
  BY LenProperties
<1>2. n # 0
  BY <1>1, EmptySeq
<1> QED
  BY <1>1, <1>2

\* A stack with a frame more.
LEMMA FrameAppend ==
  ASSUME NEW r \in Seq(Frames), NEW g \in Frames
  PROVE  /\ Append(r, g) \in Seq(Frames)
         /\ \E n \in Nat : /\ n = Len(r) /\ Len(Append(r, g)) = n + 1
                           /\ Append(r, g)[n + 1] = g
                           /\ \A i \in 1..n : Append(r, g)[i] = r[i]
<1>1. PICK n \in Nat : n = Len(r)
  BY LenProperties
<1> QED
  BY <1>1, AppendProperties

\* One frame, replaced and with another one on top of it.
LEMMA TwoFrames ==
  ASSUME NEW s \in Seq(Frames), Len(s) = 1, NEW f \in Frames, NEW g \in Frames,
         NEW t, t = Append([s EXCEPT ![1] = f], g)
  PROVE  t \in Seq(Frames) /\ Len(t) = 2 /\ t[1] = f /\ t[2] = g
<1>1. PICK r : r = [s EXCEPT ![1] = f]
  OBVIOUS
<1>2. r \in Seq(Frames) /\ Len(r) = 1 /\ r[1] = f
  BY <1>1, ExceptSeq
<1>3. PICK u : u = Append(r, g)
  OBVIOUS
<1>4. u \in Seq(Frames)
  BY <1>2, <1>3, FrameAppend
<1>5. PICK n \in Nat : n = Len(r) /\ Len(u) = n + 1 /\ u[n + 1] = g /\ \A i \in 1..n : u[i] = r[i]
  BY <1>2, <1>3, FrameAppend
<1>6. n = 1
  BY <1>2, <1>5
<1>7. Len(u) = 2 /\ u[2] = g /\ u[1] = f
  BY <1>2, <1>5, <1>6
<1> QED
  BY <1>1, <1>3, <1>4, <1>7

\* A frame without one of its entries.
LEMMA FrameWithout ==
  ASSUME NEW f \in Frames, NEW e
  PROVE  /\ [f EXCEPT !.left = @ \ {e}] \in Frames
         /\ [f EXCEPT !.left = @ \ {e}].dir = f.dir
         /\ [f EXCEPT !.left = @ \ {e}].left = f.left \ {e}
BY DEF Frames

\* The stack with another frame on top.
LEMMA SetTopAt ==
  ASSUME stack \in Seq(Frames), stack # <<>>, Len(stack) <= 2, NEW frame \in Frames, SetTop(frame)
  PROVE  /\ stack' \in Seq(Frames) /\ Len(stack') = Len(stack) /\ Len(stack) \in {1, 2}
         /\ \A i \in 1..Len(stack) : stack'[i] = IF i = Len(stack) THEN frame ELSE stack[i]
<1>1. PICK n \in Nat : n = Len(stack)
  BY LenProperties
<1>2. n \in {1, 2}
  BY <1>1, EmptySeq
<1>3. stack' = [stack EXCEPT ![n] = frame]
  BY <1>1 DEF SetTop
<1>4. stack' \in Seq(Frames) /\ Len(stack') = n
  BY <1>1, <1>2, <1>3, ExceptSeq
<1> QED
  BY <1>1, <1>2, <1>3, <1>4, LenProperties

-----------------------------------------------------------------------------
\* The directory on top of the stack.
LEMMA TopType ==
  ASSUME WatcherAssumption, WatcherInv, NEW step, Scanning(step)
  PROVE  /\ stack # <<>> /\ stack \in Seq(Frames) /\ Len(stack) \in {1, 2}
         /\ Top \in Frames /\ Top.dir \in Dirs /\ Top.left \subseteq Paths \cup Subs
         /\ Len(stack) = 1 => Top.dir = Root
         /\ Len(stack) = 2 => /\ stack[1].dir = Root
                              /\ Top.dir \in Subs /\ Top.left \subseteq Paths
<1>1. stack # <<>> /\ stack \in Seq(Frames) /\ Len(stack) <= 2
  BY DEF Scanning, WatcherInv, TypeOK
<1>2. PICK n \in {1, 2} : n = Len(stack)
  BY <1>1, StackLen
<1>3. Top = stack[n] /\ stack[n] \in Frames
  BY <1>1, <1>2, ElementOfSeq DEF Top
<1>4. Top.dir \in Dirs /\ Top.left \subseteq Paths \cup Subs
  BY <1>3 DEF Frames
<1> QED
  BY <1>1, <1>2, <1>3, <1>4 DEF WatcherInv, StackOK

\* Frames of the program.
LEMMA FrameType ==
  ASSUME NEW d \in Dirs, NEW step \in {"new", "open", "read"},
         NEW left \in SUBSET (Paths \cup Subs)
  PROVE  /\ Frame(d, step, left) \in Frames
         /\ Frame(d, step, left).dir = d
         /\ Frame(d, step, left).left = left
BY DEF Frame, Frames

\* The part of the invariant that is left once the stack is dealt with.
LEMMA StackChanges ==
  ASSUME WatcherAssumption, WatcherInv, stack' \in Seq(Frames), Len(stack') <= 2, StackOK',
         UNCHANGED <<diskVars, queue, move, timedOut, renames, moved>>,
         watches' \subseteq dirs, watches' \subseteq m_watchedDirs', m_watchedDirs' \subseteq Dirs,
         mode' \in {"scan", "run", "terminated"}, reported' \subseteq Paths
  PROVE  WatcherInv'
<1>1. EventsOK'
  BY DEF WatcherInv, EventsOK, EventOK, Sent, diskVars
<1>2. TypeOK'
  BY DEF WatcherInv, TypeOK, diskVars
<1> QED
  BY <1>1, <1>2 DEF WatcherInv

\* onFileSystemChange() adds a file that exists.
LEMMA ReportKeeps ==
  ASSUME WatcherInv, NEW path, Report(path)
  PROVE  /\ mode' \in {mode, "terminated"} /\ reported' \subseteq Paths
         /\ path \in files => UNCHANGED mode
<1>1. files \subseteq Paths /\ reported \subseteq Paths
  BY DEF WatcherInv, TypeOK, Paths
<1> QED
  BY <1>1 DEF Report

\* A scan step keeps the invariant: it goes down one level only.
LEMMA ScanKeeps ==
  ASSUME WatcherAssumption, WatcherInv, Scan
  PROVE  WatcherInv'
<1>0. /\ watches \subseteq dirs /\ watches \subseteq m_watchedDirs /\ m_watchedDirs \subseteq Dirs
      /\ dirs \subseteq Dirs /\ files \subseteq dirs \X Names
      /\ mode \in {"scan", "run", "terminated"} /\ reported \subseteq Paths
      /\ Root \in Dirs /\ Subs \subseteq Dirs /\ Root \notin Subs /\ Paths \cap Subs = {}
  BY DEF WatcherInv, TypeOK, WatcherAssumption, Dirs
<1>1. ASSUME NEW step, Scanning(step), NEW frame \in Frames, SetTop(frame), frame.dir = Top.dir,
             Len(stack) = 2 => frame.left \subseteq Paths
      PROVE  stack' \in Seq(Frames) /\ Len(stack') <= 2 /\ StackOK'
  <2>1. PICK n \in {1, 2} : n = Len(stack)
    BY <1>1, TopType
  <2>2. /\ stack' \in Seq(Frames) /\ Len(stack') = n
        /\ \A i \in 1..n : stack'[i] = IF i = n THEN frame ELSE stack[i]
    BY <1>1, <2>1, TopType, SetTopAt
  <2>3. n = 1 => stack'[1].dir = Root
    BY <1>1, <2>1, <2>2, TopType
  <2>4. n = 2 => stack'[1].dir = Root /\ stack'[2].dir \in Subs /\ stack'[2].left \subseteq Paths
    BY <1>1, <2>1, <2>2, TopType
  <2> QED
    BY <2>1, <2>2, <2>3, <2>4 DEF StackOK
<1>2. CASE OpenDir
  <2>1. Scanning("new") /\ Top.dir \in Dirs
    BY <1>2, TopType DEF OpenDir
  <2>2. CASE Top.dir \in dirs
    <3>1. PICK frame \in Frames : frame = Frame(Top.dir, "open", {}) /\ frame.dir = Top.dir
                                  /\ frame.left = {}
      BY <2>1, FrameType
    <3>2. stack' \in Seq(Frames) /\ Len(stack') <= 2 /\ StackOK'
      BY <1>1, <1>2, <2>1, <2>2, <3>1 DEF OpenDir
    <3> QED
      BY <1>0, <1>2, <2>1, <2>2, <3>2, StackChanges DEF OpenDir, historyVars
  <2>3. CASE Top.dir \notin dirs
    <3>1. UNCHANGED stack /\ mode' = "terminated"
      BY <1>2, <2>3 DEF OpenDir
    <3>2. stack' \in Seq(Frames) /\ Len(stack') <= 2 /\ StackOK'
      BY <3>1 DEF WatcherInv, TypeOK, StackOK
    <3> QED
      BY <1>0, <1>2, <2>3, <3>1, <3>2, StackChanges DEF OpenDir, historyVars
  <2> QED
    BY <2>2, <2>3
<1>3. CASE ReadDir
  <2>1. Scanning("open") /\ Top.dir \in Dirs
    BY <1>3, TopType DEF ReadDir
  <2>2. Entries(Top.dir) \subseteq Paths \cup Subs
    BY <1>0 DEF Entries, Paths, Dirs
  <2>3. Len(stack) = 2 => Entries(Top.dir) \subseteq Paths
    BY <1>0, <2>1, TopType DEF Entries, Paths
  <2>4. PICK frame \in Frames : frame = Frame(Top.dir, "read", Entries(Top.dir))
                                /\ frame.dir = Top.dir /\ frame.left = Entries(Top.dir)
    BY <2>1, <2>2, FrameType
  <2>5. stack' \in Seq(Frames) /\ Len(stack') <= 2 /\ StackOK'
    BY <1>1, <1>3, <2>1, <2>3, <2>4 DEF ReadDir
  <2> QED
    BY <1>0, <1>3, <2>5, StackChanges DEF ReadDir, historyVars
<1>4. CASE Visit
  <2>1. PICK e \in Top.left :
          LET rest == [stack EXCEPT ![Len(stack)].left = @ \ {e}] IN
          \/ e \in Paths /\ Report(e) /\ stack' = rest
          \/ /\ e \in Subs
             /\ stack' = Append(rest, Frame(e, "new", {}))
             /\ UNCHANGED <<mode, reported>>
    BY <1>4 DEF Visit
  <2>2. Scanning("read") /\ mode = "scan"
    BY <1>4 DEF Visit, Scanning
  <2>3. PICK n \in {1, 2} : n = Len(stack)
    BY <2>2, TopType
  <2>4. /\ stack \in Seq(Frames) /\ stack[n] = Top /\ Top \in Frames
        /\ Top.left \subseteq Paths \cup Subs
        /\ n = 2 => Top.left \subseteq Paths
    BY <2>2, <2>3, TopType DEF Top
  <2>5. PICK frame \in Frames : /\ frame = [Top EXCEPT !.left = @ \ {e}]
                                /\ frame.dir = Top.dir /\ frame.left = Top.left \ {e}
    BY <2>4, FrameWithout
  <2>6. PICK rest : rest = [stack EXCEPT ![n] = frame]
    OBVIOUS
  <2>7. rest = [stack EXCEPT ![Len(stack)].left = @ \ {e}]
    BY <2>3, <2>4, <2>5, <2>6
  <2>8. CASE e \in Paths /\ Report(e) /\ stack' = rest
    <3>1. SetTop(frame)
      BY <2>3, <2>6, <2>8 DEF SetTop
    <3>2. stack' \in Seq(Frames) /\ Len(stack') <= 2 /\ StackOK'
      BY <1>1, <2>2, <2>3, <2>4, <2>5, <3>1
    <3>3. mode' \in {mode, "terminated"} /\ reported' \subseteq Paths
      BY <2>8, ReportKeeps
    <3> QED
      BY <1>0, <1>4, <3>2, <3>3, StackChanges DEF Visit
  <2>9. CASE e \in Subs /\ stack' = Append(rest, Frame(e, "new", {})) /\ UNCHANGED <<mode, reported>>
    <3>1. n = 1
      BY <1>0, <2>1, <2>4, <2>9
    <3>3. PICK top \in Frames : top = Frame(e, "new", {}) /\ top.dir = e /\ top.left = {}
      BY <1>0, <2>9, FrameType
    <3>4. stack' \in Seq(Frames) /\ Len(stack') = 2 /\ stack'[1] = frame /\ stack'[2] = top
      <4>1. stack' = Append([stack EXCEPT ![1] = frame], top)
        BY <2>6, <2>9, <3>1, <3>3
      <4>2. Len(stack) = 1
        BY <2>3, <3>1
      <4> QED
        BY <2>4, <4>1, <4>2, TwoFrames
    <3>5. frame.dir = Root
      BY <2>2, <2>3, <2>5, <3>1, TopType
    <3>6. StackOK'
      BY <2>9, <3>3, <3>4, <3>5 DEF StackOK
    <3> QED
      BY <1>0, <1>4, <2>9, <3>4, <3>6, StackChanges DEF Visit
  <2> QED
    BY <2>1, <2>7, <2>8, <2>9
<1>5. CASE CloseDir
  <2>1. Scanning("read") /\ mode = "scan"
    BY <1>5 DEF CloseDir, Scanning
  <2>2. PICK n \in {1, 2} : n = Len(stack)
    BY <2>1, TopType
  <2>3. stack' = SubSeq(stack, 1, n - 1) /\ mode' = IF n = 1 THEN "run" ELSE mode
    BY <1>5, <2>2 DEF CloseDir
  <2>4. /\ stack' \in Seq(Frames) /\ Len(stack') = n - 1
        /\ n = 2 => stack'[1] = stack[1]
    <3>1. \A i \in 1..(n - 1) : stack[i] \in Frames
      BY <2>1, <2>2, TopType, ElementOfSeq
    <3> QED
      BY <2>2, <2>3, <3>1, SubSeqProperties
  <2>5. n = 2 => stack[1].dir = Root
    BY <2>1, <2>2, TopType
  <2>6. StackOK'
    BY <2>2, <2>3, <2>4, <2>5 DEF StackOK
  <2> QED
    BY <1>0, <1>5, <2>2, <2>3, <2>4, <2>6, StackChanges DEF CloseDir, historyVars
<1> QED
  BY <1>2, <1>3, <1>4, <1>5 DEF Scan

-----------------------------------------------------------------------------
\* The part of the invariant that is left once the events are dealt with.
LEMMA ThreadChanges ==
  ASSUME WatcherAssumption, WatcherInv, UNCHANGED <<diskVars, stack, renames>>,
         mode # "scan", mode' \in {mode, "terminated"}, queue' \in Seq(Events),
         \A e \in Events : InQueue(queue', e) => InQueue(queue, e) \/ EventOK(e),
         watches' \subseteq dirs, watches' \subseteq m_watchedDirs', m_watchedDirs' \subseteq Dirs,
         move' \in Moves \cup {NoMove}, move' # NoMove => move'.cookie <= ops,
         timedOut' \in BOOLEAN, reported' \subseteq Paths, moved' \subseteq FullNames \X FullNames
  PROVE  WatcherInv'
<1>1. EventsOK'
  BY DEF WatcherInv, EventsOK, EventOK, Sent, diskVars
<1>2. TypeOK'
  BY DEF WatcherInv, TypeOK, diskVars
<1>3. StackOK'
  BY DEF WatcherInv, StackOK, diskVars
<1> QED
  BY <1>1, <1>2, <1>3 DEF WatcherInv

\* The event at the head of the queue.
LEMMA FirstIn ==
  ASSUME WatcherAssumption, WatcherInv, queue # <<>>
  PROVE  /\ First \in Events /\ First.path[1] \in Dirs
         /\ InQueue(queue, First) /\ EventOK(First)
         /\ Tail(queue) \in Seq(Events)
         /\ \A e : InQueue(Tail(queue), e) => InQueue(queue, e) /\ BothIn(queue, First, e)
         /\ \A e, f : BothIn(Tail(queue), e, f) => BothIn(queue, e, f)
<1>1. queue \in Seq(Events)
  BY DEF WatcherInv, TypeOK
<1>2. First \in Events /\ InQueue(queue, First)
  BY <1>1, TailIn DEF First
<1>3. EventOK(First)
  BY <1>2 DEF WatcherInv, EventsOK, Sent
<1>4. First.path[1] \in Dirs
  BY <1>2 DEF Events
<1> QED
  BY <1>1, <1>2, <1>3, <1>4, TailIn DEF First

\* An event on a directory keeps the invariant.
LEMMA DirEventKeeps ==
  ASSUME WatcherAssumption, WatcherInv, DirEvent
  PROVE  WatcherInv'
<1>1. queue # <<>> /\ mode = "run"
  BY DEF DirEvent, Handling
<1>2. PICK t \in Seq(Events) : t = Tail(queue) /\ \A e : InQueue(t, e) => InQueue(queue, e)
  BY <1>1, FirstIn
<1>3. queue' \in Seq(Events) /\ \A e \in Events : InQueue(queue', e) => InQueue(queue, e) \/ EventOK(e)
  <2>1. CASE queue' = t
    BY <1>2, <2>1
  <2>2. CASE queue' = Append(t, Event("OTHER", First.path, 0))
    <3>1. First.path \in Dirs \X (Names \cup Dirs)
      BY <1>1, FirstIn DEF Events
    <3>2. 0 \in 0..MaxOps /\ "OTHER" \in Masks
      BY DEF WatcherAssumption, Masks
    <3>3. PICK g : g = Event("OTHER", First.path, 0)
      OBVIOUS
    <3>4. g \in Events /\ EventOK(g)
      <4>1. g \in Events /\ g.mask = "OTHER"
        BY <3>1, <3>2, <3>3 DEF Event, Events
      <4> QED
        BY <4>1 DEF EventOK, IsMove, MoveMasks
    <3>5. Append(t, g) \in Seq(Events) /\ \A e : InQueue(Append(t, g), e) => InQueue(t, e) \/ e = g
      BY <3>4, AppendIn
    <3>6. queue' = Append(t, g)
      BY <2>2, <3>3
    <3> QED
      BY <1>2, <3>4, <3>5, <3>6
  <2> QED
    BY <1>2, <2>1, <2>2 DEF DirEvent
<1>4. watches' \subseteq dirs /\ watches' \subseteq m_watchedDirs' /\ m_watchedDirs' \subseteq Dirs
  BY DEF DirEvent, WatcherInv, TypeOK
<1>5. UNCHANGED <<diskVars, mode, stack, move, timedOut, reported, renames, moved>>
  BY DEF DirEvent, historyVars
<1>6. /\ move \in Moves \cup {NoMove} /\ timedOut \in BOOLEAN /\ reported \subseteq Paths
      /\ moved \subseteq FullNames \X FullNames /\ (move # NoMove => move.cookie <= ops)
  BY DEF WatcherInv, TypeOK, EventsOK
<1>7. /\ move' \in Moves \cup {NoMove} /\ timedOut' \in BOOLEAN /\ reported' \subseteq Paths
      /\ moved' \subseteq FullNames \X FullNames /\ (move' # NoMove => move'.cookie <= ops)
  BY <1>5, <1>6
<1>8. UNCHANGED <<diskVars, stack, renames>> /\ mode # "scan" /\ mode' \in {mode, "terminated"}
  BY <1>1, <1>5
<1> QED
  BY <1>3, <1>4, <1>7, <1>8, ThreadChanges

\* The steps that change neither the queue nor what is watched.
LEMMA MoveAloneKeeps ==
  ASSUME WatcherAssumption, WatcherInv, MoveAlone \/ Tick
  PROVE  WatcherInv'
<1>0. /\ watches \subseteq dirs /\ watches \subseteq m_watchedDirs /\ m_watchedDirs \subseteq Dirs
      /\ reported \subseteq Paths /\ moved \subseteq FullNames \X FullNames
      /\ move \in Moves \cup {NoMove} /\ (move # NoMove => move.cookie <= ops)
      /\ queue \in Seq(Events)
  BY DEF WatcherInv, TypeOK, EventsOK
<1>1. CASE MoveAlone
  <2>1. mode = "run" /\ move' = NoMove /\ timedOut' = FALSE
        /\ UNCHANGED <<diskVars, watches, queue, stack, m_watchedDirs, renames, moved>>
    BY <1>1 DEF MoveAlone, Handling
  <2>2. mode' \in {mode, "terminated"} /\ reported' \subseteq Paths
    BY <1>0, <1>1, ReportKeeps DEF MoveAlone
  <2> QED
    BY <1>0, <2>1, <2>2, ThreadChanges
<1>2. CASE Tick
  <2>1. /\ UNCHANGED <<diskVars, watches, queue, mode, stack, m_watchedDirs, move, reported,
                       renames, moved>>
        /\ timedOut' = TRUE
    BY <1>2 DEF Tick, historyVars
  <2>2. TypeOK'
    BY <2>1 DEF WatcherInv, TypeOK, diskVars
  <2>3. StackOK' /\ EventsOK'
    BY <2>1 DEF WatcherInv, StackOK, EventsOK, EventOK, Sent, diskVars
  <2> QED
    BY <2>2, <2>3 DEF WatcherInv
<1> QED
  BY <1>1, <1>2

\* The name that the watcher makes of an event, and the name that it has.
LEMMA FullNameType ==
  ASSUME WatcherAssumption, NEW e \in Events, e.path \in Paths
  PROVE  /\ FullName(e) \in FullNames
         /\ e.path[1] \in m_watchedDirs => FullName(e) = e.path
BY DEF FullName, FullNames, Paths

\* An event on a file keeps the invariant.
LEMMA FileEventKeeps ==
  ASSUME WatcherAssumption, WatcherInv, FileClosed \/ FileMoved
  PROVE  WatcherInv'
<1>0. /\ watches \subseteq dirs /\ watches \subseteq m_watchedDirs /\ m_watchedDirs \subseteq Dirs
      /\ reported \subseteq Paths /\ moved \subseteq FullNames \X FullNames
      /\ move \in Moves \cup {NoMove} /\ (move # NoMove => move.cookie <= ops)
      /\ timedOut \in BOOLEAN /\ ops \in 0..MaxOps
  BY DEF WatcherInv, TypeOK, EventsOK
<1>1. queue # <<>> /\ mode = "run" /\ queue' = Tail(queue) /\ First.isDir = FALSE
  BY DEF FileClosed, FileMoved, FileEvent, Handling
<1>2. queue' \in Seq(Events) /\ \A e \in Events : InQueue(queue', e) => InQueue(queue, e)
  BY <1>1, FirstIn
<1>3. UNCHANGED <<diskVars, watches, stack, m_watchedDirs, renames>>
  BY DEF FileClosed, FileMoved
<1>4. mode' \in {mode, "terminated"} /\ reported' \subseteq Paths
  BY <1>0, ReportKeeps DEF FileClosed, FileMoved
<1>5. CASE FileClosed
  <2>1. UNCHANGED <<move, timedOut, moved>>
    BY <1>5 DEF FileClosed
  <2> QED
    BY <1>0, <1>1, <1>2, <1>3, <1>4, <2>1, ThreadChanges
<1>6. CASE FileMoved
  <2>1. First \in Events /\ First.path \in Paths /\ First.cookie \in 1..ops
    BY <1>1, <1>6, FirstIn DEF FileMoved, FileEvent, EventOK, IsMove, MoveMasks
  <2>2. FullName(First) \in FullNames
    BY <2>1, FullNameType
  <2>3. /\ move' \in Moves \cup {NoMove} /\ (move' # NoMove => move'.cookie <= ops)
        /\ timedOut' \in BOOLEAN /\ moved' \subseteq FullNames \X FullNames
    <3>1. CASE /\ move = NoMove
               /\ move' = [cookie |-> First.cookie, path |-> FullName(First),
                           from |-> First.mask = "MOVED_FROM"]
               /\ timedOut' = FALSE
               /\ UNCHANGED moved
      <4>1. PICK n \in 1..ops : n = First.cookie
        BY <2>1
      <4>2. n \in 1..MaxOps
        BY <1>0 DEF WatcherAssumption
      <4>3. PICK b \in BOOLEAN : b = (First.mask = "MOVED_FROM")
        OBVIOUS
      <4>4. move' = [cookie |-> n, path |-> FullName(First), from |-> b]
        BY <3>1, <4>1, <4>3
      <4>5. move' \in Moves /\ move'.cookie = n
        BY <2>2, <4>2, <4>4 DEF Moves
      <4> QED
        <5>1. timedOut' \in BOOLEAN
          BY <3>1
        <5>2. moved' \subseteq FullNames \X FullNames
          BY <1>0, <3>1
        <5>3. n <= ops
          BY <1>0, <4>1
        <5> QED
          BY <4>5, <5>1, <5>2, <5>3
    <3>2. CASE /\ move # NoMove /\ move' = NoMove
               /\ \E src, dst \in {FullName(First), move.path} : moved' = moved \cup {<<src, dst>>}
               /\ UNCHANGED timedOut
      <4>1. move.path \in FullNames
        BY <1>0, <3>2 DEF Moves
      <4> QED
        BY <1>0, <2>2, <3>2, <4>1
    <3>3. CASE UNCHANGED <<move, timedOut, moved>>
      BY <1>0, <3>3
    <3> QED
      BY <1>6, <3>1, <3>2, <3>3 DEF FileMoved, Halves
  <2> QED
    BY <1>0, <1>1, <1>2, <1>3, <1>4, <2>3, ThreadChanges
<1> QED
  BY <1>5, <1>6

-----------------------------------------------------------------------------
\* What a queue is when an event arrives, if its directory is watched.
LEMMA ReceivedIn ==
  ASSUME NEW q \in Seq(Events), NEW g \in Events
  PROVE  /\ Received(q, g) \in Seq(Events)
         /\ \A e : InQueue(Received(q, g), e) => InQueue(q, e) \/ (e = g /\ g.path[1] \in watches)
         /\ \A e, f : BothIn(Received(q, g), e, f) =>
              \/ BothIn(q, e, f)
              \/ e = g /\ InQueue(q, f)
              \/ f = g /\ InQueue(q, e)
<1>1. CASE g.path[1] \in watches
  <2>1. Received(q, g) = Append(q, g)
    BY <1>1 DEF Received
  <2> QED
    BY <1>1, <2>1, AppendIn
<1>2. CASE g.path[1] \notin watches
  BY <1>2 DEF Received
<1> QED
  BY <1>1, <1>2

\* The part of the invariant that is left once a change is dealt with.
LEMMA ChangeKeeps ==
  ASSUME WatcherAssumption, WatcherInv, NEW op, Changes(op), queue' \in Seq(Events),
         \A e \in Events : InQueue(queue', e) => InQueue(queue, e) \/ EventOK(e)',
         halves' \subseteq Events, \A h \in halves' \ halves : IsMove(h) /\ EventOK(h)',
         dirs' \subseteq Dirs, files' \subseteq dirs' \X Names,
         watches' \subseteq dirs', watches' \subseteq watches,
         reported' \subseteq Paths, renames' \subseteq Paths \X Paths
  PROVE  WatcherInv'
<1>1. /\ ops \in Nat /\ MaxOps \in Nat /\ ops' = ops + 1 /\ ops' \in 1..MaxOps
      /\ UNCHANGED <<kinds, mode, stack, m_watchedDirs, move, timedOut, moved>>
  BY DEF Changes, WatcherInv, TypeOK, WatcherAssumption
<1>2. EventsOK'
  <2>1. \A e \in Events : EventOK(e) => EventOK(e)'
    BY <1>1 DEF EventOK
  <2>2. (\A e \in Events : Sent(e) => EventOK(e)) /\ (\A h \in halves : IsMove(h))
    BY DEF WatcherInv, EventsOK
  <2>3. move' # NoMove => move'.cookie <= ops'
    <3>1. move # NoMove => move.cookie \in Nat /\ move.cookie <= ops
      BY <1>1 DEF WatcherInv, TypeOK, EventsOK, Moves
    <3> QED
      BY <1>1, <3>1
  <2> QED
    BY <2>1, <2>2, <2>3 DEF EventsOK, Sent
<1>3. TypeOK'
  BY <1>1 DEF WatcherInv, TypeOK
<1>4. StackOK'
  BY <1>1 DEF WatcherInv, StackOK
<1> QED
  BY <1>2, <1>3, <1>4 DEF WatcherInv

\* A change of a file keeps the invariant.
LEMMA FileChangeKeeps ==
  ASSUME WatcherAssumption, WatcherInv, FileChange
  PROVE  WatcherInv'
<1>0. /\ dirs \subseteq Dirs /\ files \subseteq dirs \X Names /\ dirs \X Names \subseteq Paths
      /\ watches \subseteq dirs /\ reported \subseteq Paths /\ renames \subseteq Paths \X Paths
      /\ queue \in Seq(Events) /\ halves \subseteq Events /\ ops \in Nat /\ Root \in Dirs
  BY DEF WatcherInv, TypeOK, Paths, Dirs
<1>1. PICK op, g :
        /\ Changes(op) /\ files' \subseteq dirs \X Names /\ queue' = Received(queue, g)
        /\ \/ \E p \in Paths, mask \in {"CLOSE_WRITE", "OTHER", "DELETE"} : g = Event(mask, p, 0)
           \/ \E p \in Paths, mask \in MoveMasks : g = Event(mask, p, ops')
           \/ \E d \in Dirs : g = DirEventOf("OTHER", d)
  BY <1>0 DEF FileChange, Emit, MoveMasks
<1>2. ops' \in 1..MaxOps /\ 0 \in 0..MaxOps /\ ops' \in 0..MaxOps
  BY <1>0, <1>1 DEF Changes, WatcherAssumption
<1>3. g \in Events /\ EventOK(g)'
  <2>0. Paths \subseteq Dirs \X (Names \cup Dirs) /\ MoveMasks \subseteq Masks
    BY DEF Paths, Masks, MoveMasks
  <2>1. ASSUME NEW p \in Paths, NEW mask \in {"CLOSE_WRITE", "OTHER", "DELETE"}, g = Event(mask, p, 0)
        PROVE  g \in Events /\ EventOK(g)'
    <3>1. g \in Events /\ g.path = p /\ g.mask = mask
      BY <1>2, <2>0, <2>1 DEF Event, Events, Masks
    <3> QED
      BY <2>1, <3>1 DEF EventOK, IsMove, MoveMasks
  <2>2. ASSUME NEW p \in Paths, NEW mask \in MoveMasks, g = Event(mask, p, ops')
        PROVE  g \in Events /\ EventOK(g)'
    <3>1. g \in Events /\ g.path = p /\ g.cookie = ops'
      BY <1>2, <2>0, <2>2 DEF Event, Events
    <3> QED
      BY <1>2, <3>1 DEF EventOK
  <2>3. ASSUME NEW d \in Dirs, g = DirEventOf("OTHER", d)
        PROVE  g \in Events /\ EventOK(g)'
    <3>1. g \in Events /\ g.isDir = TRUE
      BY <2>3, DirEventTypes DEF Masks
    <3> QED
      BY <3>1 DEF EventOK, IsMove
  <2> QED
    BY <1>1, <2>1, <2>2, <2>3
<1>4. queue' \in Seq(Events) /\ \A e \in Events : InQueue(queue', e) => InQueue(queue, e) \/ EventOK(e)'
  BY <1>0, <1>1, <1>3, ReceivedIn
<1>5. UNCHANGED <<dirs, halves, watches, renames>> /\ reported' \subseteq reported
  BY DEF FileChange
<1> QED
  BY <1>0, <1>1, <1>4, <1>5, ChangeKeeps

\* Two events arrive, the second one after the first.
LEMMA EmitTwoIn ==
  ASSUME WatcherInv, NEW g \in Events, NEW h \in Events, EmitTwo(g, h)
  PROVE  /\ queue' \in Seq(Events)
         /\ \A e : InQueue(queue', e) =>
              \/ InQueue(queue, e)
              \/ e = g /\ g.path[1] \in watches
              \/ e = h /\ h.path[1] \in watches
         /\ \A e, f : BothIn(queue', e, f) =>
              \/ BothIn(queue, e, f)
              \/ e = g /\ InQueue(queue, f)
              \/ f = g /\ InQueue(queue, e)
              \/ e = h /\ (InQueue(queue, f) \/ f = g)
              \/ f = h /\ (InQueue(queue, e) \/ e = g)
<1>1. queue \in Seq(Events)
  BY DEF WatcherInv, TypeOK
<1>2. PICK q \in Seq(Events) :
        /\ q = Received(queue, g)
        /\ \A e : InQueue(q, e) => InQueue(queue, e) \/ (e = g /\ g.path[1] \in watches)
        /\ \A e, f : BothIn(q, e, f) =>
              \/ BothIn(queue, e, f)
              \/ e = g /\ InQueue(queue, f)
              \/ f = g /\ InQueue(queue, e)
  BY <1>1, ReceivedIn
<1>3. PICK r \in Seq(Events) :
        /\ r = Received(q, h)
        /\ \A e : InQueue(r, e) => InQueue(q, e) \/ (e = h /\ h.path[1] \in watches)
        /\ \A e, f : BothIn(r, e, f) =>
              \/ BothIn(q, e, f)
              \/ e = h /\ InQueue(q, f)
              \/ f = h /\ InQueue(q, e)
  BY ReceivedIn
<1>4. queue' = r
  BY <1>2, <1>3 DEF EmitTwo
<1> QED
  BY <1>2, <1>3, <1>4

\* A move of a file keeps the invariant.
LEMMA RenameKeeps ==
  ASSUME WatcherAssumption, WatcherInv, Rename
  PROVE  WatcherInv'
<1>0. /\ dirs \subseteq Dirs /\ files \subseteq dirs \X Names /\ dirs \X Names \subseteq Paths
      /\ watches \subseteq dirs /\ reported \subseteq Paths /\ renames \subseteq Paths \X Paths
      /\ ops \in Nat /\ queue \in Seq(Events) /\ halves \subseteq Events
  BY DEF WatcherInv, TypeOK, Paths
<1>1. PICK p \in files, q \in (dirs \X Names) \ files :
        /\ Changes(IF p[1] = q[1] THEN "rename" ELSE "move")
        /\ files' = (files \ {p}) \cup {q}
        /\ Emit(Event("MOVED_FROM", p, ops'))
        /\ halves' = halves \cup {Event("MOVED_TO", q, ops')}
        /\ renames' = renames \cup {<<p, q>>}
  BY DEF Rename
<1>2. ops' \in 1..MaxOps /\ ops' \in 0..MaxOps
  BY <1>0, <1>1 DEF Changes, WatcherAssumption
<1>3. p \in Paths /\ q \in Paths
  BY <1>0
<1>4. PICK g, h : g = Event("MOVED_FROM", p, ops') /\ h = Event("MOVED_TO", q, ops')
  OBVIOUS
<1>5. /\ g \in Events /\ g.path = p /\ g.cookie = ops'
      /\ h \in Events /\ h.path = q /\ h.cookie = ops' /\ h.mask = "MOVED_TO" /\ h.isDir = FALSE
  BY <1>2, <1>3, <1>4 DEF Event, Events, Masks, Paths
<1>6. EventOK(g)' /\ EventOK(h)' /\ IsMove(h)
  BY <1>2, <1>3, <1>5 DEF EventOK, IsMove, MoveMasks
<1>7. /\ queue' \in Seq(Events) /\ halves' \subseteq Events
      /\ \A e \in Events : InQueue(queue', e) => InQueue(queue, e) \/ EventOK(e)'
      /\ \A e \in halves' \ halves : IsMove(e) /\ EventOK(e)'
  <2>1. queue' = Received(queue, g) /\ halves' = halves \cup {h}
    BY <1>1, <1>4 DEF Emit
  <2>2. /\ Received(queue, g) \in Seq(Events)
        /\ \A e \in Events : InQueue(Received(queue, g), e) => InQueue(queue, e) \/ e = g
    BY <1>0, <1>5, ReceivedIn
  <2> QED
    BY <1>0, <1>5, <1>6, <2>1, <2>2
<1>8. UNCHANGED <<dirs, watches>> /\ reported' \subseteq reported
  BY DEF Rename
<1>9. files' \subseteq dirs' \X Names /\ renames' \subseteq Paths \X Paths
  BY <1>0, <1>1, <1>3, <1>8
<1> QED
  BY <1>0, <1>1, <1>7, <1>8, <1>9, ChangeKeeps

\* A half that is queued late keeps the invariant.
LEMMA SecondHalfKeeps ==
  ASSUME WatcherAssumption, WatcherInv, SecondHalf
  PROVE  WatcherInv'
<1>0. queue \in Seq(Events) /\ halves \subseteq Events
  BY DEF WatcherInv, TypeOK
<1>1. PICK h \in Events : h \in halves /\ halves' = halves \ {h} /\ queue' = Received(queue, h)
  BY <1>0 DEF SecondHalf, Emit
<1>2. /\ queue' \in Seq(Events)
      /\ \A e : InQueue(queue', e) => InQueue(queue, e) \/ (e = h /\ h.path[1] \in watches)
  BY <1>0, <1>1, ReceivedIn
<1>3. UNCHANGED <<dirs, files, ops, kinds, watches, mode, stack, m_watchedDirs, move, timedOut,
                  reported, renames, moved>>
  BY DEF SecondHalf, historyVars
<1>4. TypeOK'
  <2>1. halves' \in SUBSET Events
    BY <1>0, <1>1
  <2> QED
    BY <1>2, <1>3, <2>1 DEF WatcherInv, TypeOK
<1>5. EventsOK'
  <2>1. \A e \in Events : Sent(e)' => Sent(e)
    BY <1>1, <1>2 DEF Sent
  <2> QED
    BY <1>1, <1>3, <2>1 DEF WatcherInv, EventsOK, EventOK
<1>6. StackOK'
  BY <1>3 DEF WatcherInv, StackOK
<1> QED
  BY <1>4, <1>5, <1>6 DEF WatcherInv

\* A change of a directory keeps the invariant.
LEMMA DirChangeKeeps ==
  ASSUME WatcherAssumption, WatcherInv, MakeDir \/ RemoveDir
  PROVE  WatcherInv'
<1>0. /\ dirs \subseteq Dirs /\ files \subseteq dirs \X Names /\ Subs \subseteq Dirs /\ Root \in Dirs
      /\ watches \subseteq dirs /\ reported \subseteq Paths /\ renames \subseteq Paths \X Paths
      /\ queue \in Seq(Events) /\ halves \subseteq Events /\ MaxOps \in Nat
  BY DEF WatcherInv, TypeOK, Dirs, WatcherAssumption
<1>1. CASE MakeDir
  <2>1. /\ Changes("mkdir") /\ dirs \subseteq dirs' /\ dirs' \subseteq Dirs
        /\ UNCHANGED <<files, halves, watches, queue, reported, renames>>
    BY <1>0, <1>1 DEF MakeDir
  <2>2. files' \subseteq dirs' \X Names /\ watches' \subseteq dirs' /\ watches' \subseteq watches
    BY <1>0, <2>1
  <2> QED
    BY <1>0, <2>1, <2>2, ChangeKeeps
<1>2. CASE RemoveDir
  <2>1. PICK d \in dirs \ {Root} :
           /\ \A p \in files : p[1] # d
           /\ dirs' = dirs \ {d}
           /\ EmitTwo(Event("OTHER", <<d, d>>, 0), DirEventOf("DELETE", d))
           /\ watches' = watches \ {d}
    BY <1>2 DEF RemoveDir
  <2>2. Changes("rmdir") /\ UNCHANGED <<files, halves, reported, renames>>
    BY <1>2 DEF RemoveDir
  <2>3. PICK g, h : g = Event("OTHER", <<d, d>>, 0) /\ h = DirEventOf("DELETE", d)
    OBVIOUS
  <2>4. g \in Events /\ g.mask = "OTHER"
    BY <1>0, <2>3 DEF Event, Events, Masks
  <2>5. h \in Events /\ h.isDir = TRUE
    BY <1>0, <2>3, DirEventTypes DEF Masks
  <2>6. EventOK(g)' /\ EventOK(h)'
    BY <2>4, <2>5 DEF EventOK, IsMove, MoveMasks
  <2>7. EmitTwo(g, h)
    BY <2>1, <2>3
  <2>8. queue' \in Seq(Events) /\ \A e \in Events : InQueue(queue', e) => InQueue(queue, e) \/ EventOK(e)'
    BY <2>4, <2>5, <2>6, <2>7, EmitTwoIn
  <2>9. files' \subseteq dirs' \X Names /\ watches' \subseteq dirs' /\ watches' \subseteq watches
    BY <1>0, <2>1, <2>2
  <2>10. dirs' \subseteq Dirs
    BY <1>0, <2>1
  <2> QED
    BY <1>0, <2>2, <2>8, <2>9, <2>10, ChangeKeeps
<1> QED
  BY <1>1, <1>2

-----------------------------------------------------------------------------
\* The invariant holds at the start, and each step keeps it.
LEMMA WatcherInvInit ==
  ASSUME WatcherAssumption, Init
  PROVE  WatcherInv
<1>1. PICK frame \in Frames : frame = Frame(Root, "new", {}) /\ frame.dir = Root
  BY FrameType DEF Dirs
<1>2. stack = <<frame>> /\ stack \in Seq(Frames) /\ Len(stack) = 1 /\ stack[1] = frame
  BY <1>1 DEF Init
<1>3. queue = <<>> /\ queue \in Seq(Events) /\ \A e : ~InQueue(queue, e)
  BY DEF Init, InQueue
<1>4. dirs \subseteq Dirs /\ 0 \in 0..MaxOps
  BY DEF Init, Dirs, WatcherAssumption
<1>5. TypeOK
  <2>1. /\ dirs \in SUBSET Dirs /\ files \in SUBSET (dirs \X Names) /\ ops \in 0..MaxOps /\ kinds \in Scenarios
        /\ halves \in SUBSET Events
    BY <1>4 DEF Init
  <2>2. /\ watches \in SUBSET dirs /\ watches \subseteq m_watchedDirs /\ m_watchedDirs \in SUBSET Dirs
        /\ mode \in {"scan", "run", "terminated"} /\ Len(stack) <= 2
    BY <1>2 DEF Init
  <2>3. /\ move \in Moves \cup {NoMove} /\ timedOut \in BOOLEAN /\ reported \in SUBSET Paths
        /\ renames \subseteq Paths \X Paths /\ moved \subseteq FullNames \X FullNames
    BY DEF Init
  <2> QED
    BY <1>2, <1>3, <2>1, <2>2, <2>3 DEF TypeOK
<1>6. StackOK /\ EventsOK
  BY <1>1, <1>2, <1>3 DEF Init, StackOK, EventsOK, Sent
<1> QED
  BY <1>5, <1>6 DEF WatcherInv

\* Every step of the specification, and a stutter, keeps the invariant.
LEMMA WatcherInvStep ==
  ASSUME WatcherAssumption, WatcherInv, [Next]_vars
  PROVE  WatcherInv'
<1>1. CASE UNCHANGED vars
  <2>1. UNCHANGED <<diskVars, watches, queue, mode, stack, m_watchedDirs, move, timedOut,
                    historyVars>>
    BY <1>1 DEF vars
  <2>2. TypeOK'
    BY <2>1 DEF WatcherInv, TypeOK, diskVars, historyVars
  <2>3. StackOK' /\ EventsOK'
    BY <2>1 DEF WatcherInv, StackOK, EventsOK, EventOK, Sent, diskVars
  <2> QED
    BY <2>2, <2>3 DEF WatcherInv
<1> QED
  BY <1>1, ScanKeeps, DirEventKeeps, MoveAloneKeeps, FileEventKeeps, FileChangeKeeps, RenameKeeps,
     SecondHalfKeeps, DirChangeKeeps DEF Next, ThreadMain

\* All variables have their types: the scan is never more than two levels
\* deep, what is watched exists and has a name, and each event in the queue is
\* one that the kernel sends.
THEOREM WatcherTypeOK ==
  ASSUME WatcherAssumption
  PROVE  Spec => []TypeOK
<1>1. Init => WatcherInv
  BY WatcherInvInit
<1>2. WatcherInv /\ [Next]_vars => WatcherInv'
  BY WatcherInvStep
<1>3. WatcherInv => TypeOK
  BY DEF WatcherInv
<1> QED
  BY <1>1, <1>2, <1>3, PTL DEF Spec

-----------------------------------------------------------------------------
\* What MovesInv says of the queue, spelled out.
LEMMA MovesFacts ==
  ASSUME MovesInv, "rmdir" \notin kinds
  PROVE  /\ \A e \in Events : InQueue(queue, e) => EventKnown(e)
         /\ \A e \in Events : Sent(e) => PendingOK(e)
         /\ \A e, f \in Events : BothSent(e, f) => PairOK(e, f)
         /\ moved \subseteq renames
BY DEF MovesInv

\* A step that adds no event and leaves the pending half as it is, or drops it.
LEMMA MovesFewer ==
  ASSUME MovesInv,
         "rmdir" \notin kinds =>
           /\ \A e : InQueue(queue', e) => InQueue(queue, e)
           /\ \A e, f : BothIn(queue', e, f) => BothIn(queue, e, f)
           /\ m_watchedDirs \subseteq m_watchedDirs',
         move' \in {move, NoMove}, UNCHANGED <<kinds, halves, renames, moved>>
  PROVE  MovesInv'
<1> SUFFICES ASSUME "rmdir" \notin kinds
             PROVE  /\ (\A e \in Events : InQueue(queue, e) => EventKnown(e))'
                    /\ (\A e \in Events : Sent(e) => PendingOK(e))'
                    /\ (\A e, f \in Events : BothSent(e, f) => PairOK(e, f))'
                    /\ moved' \subseteq renames'
  BY DEF MovesInv
<1>1. \A e \in Events : (EventKnown(e) => EventKnown(e)') /\ (PendingOK(e) => PendingOK(e)')
  BY DEF EventKnown, PendingOK
<1>2. \A e, f \in Events : PairOK(e, f) => PairOK(e, f)'
  BY DEF PairOK
<1>3. \A e \in Events : (Sent(e)' => Sent(e)) /\ (InQueue(queue', e) => InQueue(queue, e))
  BY DEF Sent
<1>4. \A e, f \in Events : BothSent(e, f)' => BothSent(e, f)
  BY DEF BothSent
<1> QED
  BY <1>1, <1>2, <1>3, <1>4, MovesFacts

\* The scan, the clock and a half that stays alone tell of no move.
LEMMA QuietMoves ==
  ASSUME WatcherAssumption, WatcherInv, MovesInv, Scan \/ MoveAlone \/ Tick \/ MakeDir
  PROVE  MovesInv'
<1>1. UNCHANGED <<kinds, halves, queue, renames, moved>> /\ move' \in {move, NoMove}
  BY DEF Scan, OpenDir, ReadDir, Visit, CloseDir, MoveAlone, Tick, MakeDir, Changes, diskVars,
         historyVars
<1>2. m_watchedDirs \subseteq m_watchedDirs'
  BY DEF Scan, OpenDir, ReadDir, Visit, CloseDir, MoveAlone, Tick, MakeDir, Changes
<1> QED
  BY <1>1, <1>2, MovesFewer

\* An event on a directory is no deletion, so that no name is forgotten; one
\* on a file that is no move changes nothing.
LEMMA PlainMoves ==
  ASSUME WatcherAssumption, WatcherInv, MovesInv, DirEvent \/ FileClosed
  PROVE  MovesInv'
<1>1. queue # <<>>
  BY DEF DirEvent, FileClosed, FileEvent, Handling
<1>2. UNCHANGED <<kinds, halves, move, renames, moved>>
  BY DEF DirEvent, FileClosed, diskVars, historyVars
<1>3. ASSUME "rmdir" \notin kinds
      PROVE  queue' = Tail(queue) /\ UNCHANGED m_watchedDirs
  <2>1. EventKnown(First)
    BY <1>1, <1>3, FirstIn, MovesFacts
  <2> QED
    BY <2>1 DEF DirEvent, FileClosed, Handling, EventKnown
<1>4. "rmdir" \notin kinds =>
        /\ \A e : InQueue(queue', e) => InQueue(queue, e)
        /\ \A e, f : BothIn(queue', e, f) => BothIn(queue, e, f)
        /\ m_watchedDirs \subseteq m_watchedDirs'
  BY <1>1, <1>3, FirstIn
<1> QED
  BY <1>2, <1>4, MovesFewer

\* A first half is kept, the other half completes it, and one that belongs to
\* another move is dropped.
LEMMA MovedMoves ==
  ASSUME WatcherAssumption, WatcherInv, MovesInv, FileMoved
  PROVE  MovesInv'
<1>1. /\ queue # <<>> /\ queue' = Tail(queue)
      /\ UNCHANGED <<kinds, halves, m_watchedDirs, renames>>
  BY DEF FileMoved, FileEvent, Handling, diskVars
<1>2. IsMove(First) /\ First.mask \in MoveMasks
  BY DEF FileMoved, FileEvent, Handling, IsMove, MoveMasks
<1>3. /\ First \in Events /\ InQueue(queue, First)
      /\ \A e : InQueue(queue', e) => InQueue(queue, e) /\ BothIn(queue, First, e)
      /\ \A e, f : BothIn(queue', e, f) => BothIn(queue, e, f)
  BY <1>1, FirstIn
<1>10. /\ \A e : Sent(e)' => Sent(e) /\ BothSent(First, e)
       /\ \A e, f : BothSent(e, f)' => BothSent(e, f)
  BY <1>1, <1>3 DEF Sent, BothSent
<1> SUFFICES ASSUME "rmdir" \notin kinds
             PROVE  MovesInv'
  BY <1>1 DEF MovesInv
<1>4. First.path \in Paths /\ First.path[1] \in m_watchedDirs
  BY <1>1, <1>2, <1>3, FirstIn, MovesFacts DEF EventOK, IsMove, EventKnown
<1>5. FullName(First) = First.path
  BY <1>3, <1>4, FullNameType
<1>6. PICK g \in Events : g = First
  BY <1>3
<1>7. CASE /\ move = NoMove
           /\ move' = [cookie |-> g.cookie, path |-> g.path, from |-> g.mask = "MOVED_FROM"]
           /\ UNCHANGED moved
  <2>1. PICK b \in BOOLEAN : b = (g.mask = "MOVED_FROM")
    OBVIOUS
  <2>2. PICK m : m = [cookie |-> g.cookie, path |-> g.path, from |-> b]
    OBVIOUS
  <2>3. move' = m /\ m.cookie = g.cookie /\ m.path = g.path /\ m.from = b
    BY <1>7, <2>1, <2>2
  <2>4. ASSUME NEW e \in Events, Sent(e)'
        PROVE  PendingOK(e)'
    <3>1. PairOK(g, e)
      BY <1>10, <1>6, <2>4, MovesFacts
    <3> QED
      BY <1>1, <1>2, <1>6, <2>1, <2>3, <3>1 DEF PairOK, PendingOK, MoveMasks
  <2>5. \A e \in Events : InQueue(queue', e) => EventKnown(e)'
    BY <1>1, <1>3, MovesFacts DEF EventKnown
  <2>6. \A e, f \in Events : BothSent(e, f)' => PairOK(e, f)'
    BY <1>1, <1>10, MovesFacts DEF PairOK
  <2> QED
    BY <1>1, <1>7, <2>4, <2>5, <2>6, MovesFacts DEF MovesInv
<1>8. CASE /\ Halves(g) /\ move' = NoMove
           /\ moved' = moved \cup {<<IF g.mask = "MOVED_FROM" THEN g.path ELSE move.path,
                                     IF g.mask = "MOVED_FROM" THEN move.path ELSE g.path>>}
  <2>1. PendingOK(g)
    BY <1>3, <1>6, MovesFacts DEF Sent
  <2>2. moved' \subseteq renames'
    BY <1>1, <1>2, <1>6, <1>8, <2>1, MovesFacts DEF PendingOK, Halves
  <2>3. /\ \A e \in Events : InQueue(queue', e) => EventKnown(e)'
        /\ \A e \in Events : PendingOK(e)'
    BY <1>1, <1>3, <1>8, MovesFacts DEF EventKnown, PendingOK
  <2>4. \A e, f \in Events : BothSent(e, f)' => PairOK(e, f)'
    BY <1>1, <1>10, MovesFacts DEF PairOK
  <2> QED
    BY <2>2, <2>3, <2>4 DEF MovesInv
<1>9. CASE UNCHANGED <<move, moved>>
  BY <1>1, <1>3, <1>9, MovesFewer
<1> QED
  BY <1>5, <1>6, <1>7, <1>8, <1>9 DEF FileMoved

\* A new event has a new cookie, or none.
LEMMA FileChangeMoves ==
  ASSUME WatcherAssumption, WatcherInv, MovesInv, FileChange
  PROVE  MovesInv'
<1>0. /\ watches \subseteq m_watchedDirs /\ queue \in Seq(Events) /\ ops \in Nat
      /\ move \in Moves \cup {NoMove} /\ (move # NoMove => move.cookie <= ops)
      /\ Root \in Dirs /\ dirs \subseteq Dirs /\ files \subseteq dirs \X Names /\ dirs \X Names \subseteq Paths
  BY DEF WatcherInv, TypeOK, EventsOK, Dirs, Paths
<1>1. PICK op, g :
        /\ Changes(op) /\ queue' = Received(queue, g)
        /\ \/ \E p \in Paths, mask \in {"CLOSE_WRITE", "OTHER", "DELETE"} : g = Event(mask, p, 0)
           \/ \E p \in Paths, mask \in MoveMasks : g = Event(mask, p, ops')
           \/ \E d \in Dirs : g = DirEventOf("OTHER", d)
  BY <1>0 DEF FileChange, Emit, MoveMasks
<1>2. /\ ops' = ops + 1 /\ ops' \in 0..MaxOps
      /\ UNCHANGED <<kinds, halves, m_watchedDirs, move, moved, renames>>
  BY <1>0, <1>1 DEF Changes, FileChange, WatcherAssumption
<1>3. /\ g \in Events
      /\ IsMove(g) => g.cookie = ops'
      /\ ~(g.isDir /\ g.mask = "DELETE")
  <2>1. CASE \E p \in Paths, mask \in {"CLOSE_WRITE", "OTHER", "DELETE"} : g = Event(mask, p, 0)
    BY <1>2, <2>1 DEF Event, Events, Masks, Paths, IsMove, MoveMasks
  <2>2. CASE \E p \in Paths, mask \in MoveMasks : g = Event(mask, p, ops')
    BY <1>2, <2>2 DEF Event, Events, Masks, Paths, MoveMasks
  <2>3. CASE \E d \in Dirs : g = DirEventOf("OTHER", d)
    BY <2>3, DirEventTypes DEF Masks, IsMove
  <2> QED
    BY <1>1, <2>1, <2>2, <2>3
<1> SUFFICES ASSUME "rmdir" \notin kinds
             PROVE  MovesInv'
  BY <1>2 DEF MovesInv
<1>4. \A e \in Events : Sent(e) /\ IsMove(e) => e.cookie \in 1..ops
  BY DEF WatcherInv, EventsOK, EventOK
<1>5. \A e \in Events : (InQueue(queue', e) => EventKnown(e)') /\ (Sent(e)' => PendingOK(e)')
  <2>1. \A e \in Events : (EventKnown(e) => EventKnown(e)') /\ (PendingOK(e) => PendingOK(e)')
    BY <1>2 DEF EventKnown, PendingOK
  <2>2. g.path[1] \in watches => EventKnown(g)'
    BY <1>0, <1>2, <1>3 DEF EventKnown
  <2>3. PendingOK(g)'
    <3>1. move # NoMove => move.cookie \in Nat /\ move.cookie <= ops
      BY <1>0 DEF Moves
    <3>2. move # NoMove /\ IsMove(g) => g.cookie # move.cookie
      BY <1>0, <1>2, <1>3, <3>1
    <3> QED
      BY <1>2, <3>2 DEF PendingOK
  <2>4. \A e : InQueue(queue', e) => InQueue(queue, e) \/ (e = g /\ g.path[1] \in watches)
    BY <1>0, <1>1, <1>3, ReceivedIn
  <2>5. \A e \in Events : (InQueue(queue, e) => EventKnown(e)') /\ (Sent(e) => PendingOK(e)')
    BY <2>1, MovesFacts
  <2>6. \A e \in Events : Sent(e)' => Sent(e) \/ e = g
    BY <1>2, <2>4 DEF Sent
  <2> QED
    BY <2>2, <2>3, <2>4, <2>5, <2>6
<1>6. \A e, f \in Events : BothSent(e, f)' => PairOK(e, f)'
  <2>1. \A e, f \in Events : PairOK(e, f) => PairOK(e, f)'
    BY <1>2 DEF PairOK
  <2>2. \A e \in Events : Sent(e) /\ IsMove(e) /\ IsMove(g) => e.cookie # g.cookie
    BY <1>0, <1>2, <1>3, <1>4
  <2>3. \A e \in Events : Sent(e) => PairOK(e, g)' /\ PairOK(g, e)'
    BY <2>2 DEF PairOK
  <2>4. \A e, f : BothSent(e, f)' =>
              \/ BothSent(e, f)
              \/ e = g /\ Sent(f)
              \/ f = g /\ Sent(e)
    <3>1. \A e, f : BothIn(queue', e, f) =>
                \/ BothIn(queue, e, f)
                \/ e = g /\ InQueue(queue, f)
                \/ f = g /\ InQueue(queue, e)
      BY <1>0, <1>1, <1>3, ReceivedIn
    <3>2. \A e : InQueue(queue', e) => InQueue(queue, e) \/ e = g
      BY <1>0, <1>1, <1>3, ReceivedIn
    <3> QED
      BY <1>2, <3>1, <3>2 DEF BothSent, Sent
  <2> QED
    BY <1>3, <2>1, <2>3, <2>4, MovesFacts
<1> QED
  BY <1>2, <1>5, <1>6, MovesFacts DEF MovesInv

\* A move inside has one new cookie for its two halves, of which one is queued
\* and the other is left for later.
LEMMA RenameMoves ==
  ASSUME WatcherAssumption, WatcherInv, MovesInv, Rename
  PROVE  MovesInv'
<1>0. /\ watches \subseteq m_watchedDirs /\ ops \in Nat /\ queue \in Seq(Events)
      /\ move \in Moves \cup {NoMove} /\ (move # NoMove => move.cookie <= ops)
      /\ dirs \subseteq Dirs /\ files \subseteq dirs \X Names /\ dirs \X Names \subseteq Paths
  BY DEF WatcherInv, TypeOK, EventsOK, Paths
<1>1. PICK p \in files, q \in (dirs \X Names) \ files :
        /\ Changes(IF p[1] = q[1] THEN "rename" ELSE "move")
        /\ Emit(Event("MOVED_FROM", p, ops'))
        /\ halves' = halves \cup {Event("MOVED_TO", q, ops')}
        /\ renames' = renames \cup {<<p, q>>}
  BY DEF Rename
<1>2. /\ ops' = ops + 1 /\ ops' \in 0..MaxOps
      /\ UNCHANGED <<kinds, m_watchedDirs, move, moved>>
  BY <1>0, <1>1 DEF Changes, WatcherAssumption
<1>3. p \in Paths /\ q \in Paths
  BY <1>0
<1>4. PICK g, h : g = Event("MOVED_FROM", p, ops') /\ h = Event("MOVED_TO", q, ops')
  OBVIOUS
<1>5. /\ g \in Events /\ g.path = p /\ g.cookie = ops' /\ g.mask = "MOVED_FROM" /\ g.isDir = FALSE
      /\ h \in Events /\ h.path = q /\ h.cookie = ops' /\ h.mask = "MOVED_TO" /\ h.isDir = FALSE
  BY <1>2, <1>3, <1>4 DEF Event, Events, Masks, Paths
<1>6. /\ halves' = halves \cup {h}
      /\ \A e : InQueue(queue', e) => InQueue(queue, e) \/ (e = g /\ g.path[1] \in watches)
      /\ \A e, f : BothIn(queue', e, f) =>
           \/ BothIn(queue, e, f)
           \/ e = g /\ InQueue(queue, f)
           \/ f = g /\ InQueue(queue, e)
  BY <1>0, <1>1, <1>4, <1>5, ReceivedIn DEF Emit
<1> SUFFICES ASSUME "rmdir" \notin kinds
             PROVE  MovesInv'
  BY <1>2 DEF MovesInv
<1>7. \A e \in Events : Sent(e) /\ IsMove(e) => e.cookie # ops'
  <2>1. \A e \in Events : Sent(e) /\ IsMove(e) => e.cookie \in 1..ops
    BY DEF WatcherInv, EventsOK, EventOK
  <2> QED
    BY <1>0, <1>2, <2>1
<1>8. \A e \in Events : (InQueue(queue', e) => EventKnown(e)') /\ (Sent(e)' => PendingOK(e)')
  <2>1. \A e \in Events : (EventKnown(e) => EventKnown(e)') /\ (PendingOK(e) => PendingOK(e)')
    BY <1>1, <1>2 DEF EventKnown, PendingOK
  <2>2. ASSUME NEW e \in {g, h}
        PROVE  PendingOK(e)' /\ (e.path[1] \in watches => EventKnown(e)')
    <3>1. move # NoMove => move.cookie \in Nat /\ move.cookie <= ops
      BY <1>0 DEF Moves
    <3>2. move # NoMove => e.cookie # move.cookie
      BY <1>0, <1>2, <1>5, <3>1
    <3> QED
      BY <1>0, <1>2, <1>5, <3>2 DEF PendingOK, EventKnown
  <2> QED
    BY <1>5, <1>6, <2>1, <2>2, MovesFacts DEF Sent
<1>9. \A e, f \in Events : BothSent(e, f)' => PairOK(e, f)'
  <2>1. \A e, f \in Events : PairOK(e, f) => PairOK(e, f)'
    BY <1>1 DEF PairOK
  <2>2. \A e \in Events, f \in {g, h} : Sent(e) => PairOK(e, f)' /\ PairOK(f, e)'
    BY <1>5, <1>7 DEF PairOK
  <2>3. PairOK(g, h)' /\ PairOK(h, g)'
    BY <1>1, <1>5 DEF PairOK
  <2>4. \A e, f : BothSent(e, f)' =>
              \/ BothSent(e, f)
              \/ e = g /\ Sent(f)
              \/ f = g /\ Sent(e)
              \/ e = h /\ (Sent(f) \/ f = g)
              \/ f = h /\ (Sent(e) \/ e = g)
    BY <1>6 DEF BothSent, Sent
  <2> QED
    BY <1>5, <2>1, <2>2, <2>3, <2>4, MovesFacts
<1> QED
  BY <1>1, <1>2, <1>8, <1>9, MovesFacts DEF MovesInv

\* A half that is queued late was known before.
LEMMA SecondHalfMoves ==
  ASSUME WatcherAssumption, WatcherInv, MovesInv, SecondHalf
  PROVE  MovesInv'
<1>0. queue \in Seq(Events) /\ halves \subseteq Events /\ watches \subseteq m_watchedDirs
  BY DEF WatcherInv, TypeOK
<1>1. PICK h \in Events : h \in halves /\ halves' = halves \ {h} /\ queue' = Received(queue, h)
  BY <1>0 DEF SecondHalf, Emit
<1>2. UNCHANGED <<kinds, m_watchedDirs, move, renames, moved>>
  BY DEF SecondHalf, historyVars
<1>3. /\ \A e : InQueue(queue', e) => InQueue(queue, e) \/ (e = h /\ h.path[1] \in watches)
      /\ \A e, f : BothIn(queue', e, f) =>
           \/ BothIn(queue, e, f)
           \/ e = h /\ InQueue(queue, f)
           \/ f = h /\ InQueue(queue, e)
  BY <1>0, <1>1, ReceivedIn
<1> SUFFICES ASSUME "rmdir" \notin kinds
             PROVE  MovesInv'
  BY <1>2 DEF MovesInv
<1>4. \A e \in Events : Sent(e)' => Sent(e)
  BY <1>1, <1>3 DEF Sent
<1>5. \A e, f \in Events : BothSent(e, f)' => BothSent(e, f)
  BY <1>1, <1>3 DEF BothSent
<1>6. \A e \in Events : InQueue(queue', e) => EventKnown(e)'
  <2>1. h.path[1] \in watches => EventKnown(h)'
    BY <1>0, <1>1, <1>2 DEF EventKnown, WatcherInv, EventsOK, IsMove
  <2> QED
    BY <1>2, <1>3, <2>1, MovesFacts DEF EventKnown
<1>7. \A e \in Events : Sent(e)' => PendingOK(e)'
  BY <1>2, <1>4, MovesFacts DEF PendingOK
<1>8. \A e, f \in Events : BothSent(e, f)' => PairOK(e, f)'
  BY <1>2, <1>5, MovesFacts DEF PairOK
<1> QED
  BY <1>2, <1>6, <1>7, <1>8, MovesFacts DEF MovesInv

\* Every step keeps what is known of moves; a removal is excluded by MovesInv.
LEMMA MovesInvStep ==
  ASSUME WatcherAssumption, WatcherInv, MovesInv, [Next]_vars
  PROVE  MovesInv'
<1>1. CASE UNCHANGED vars
  BY <1>1, MovesFewer DEF vars, diskVars, historyVars
<1>2. CASE RemoveDir
  BY <1>2 DEF RemoveDir, Changes, MovesInv
<1> QED
  BY <1>1, <1>2, QuietMoves, PlainMoves, MovedMoves, FileChangeMoves, RenameMoves, SecondHalfMoves
     DEF Next, ThreadMain

\* The listener is told of no move that did not happen, however many changes
\* there are, if no directory is removed: halves of any number of other moves
\* may lie between the two halves of a move, and any time may pass there.  The
\* cookie ties two halves, in the queue, in the kernel and between the pending
\* half and either; a half that belongs to another move is dropped.
THEOREM WatcherMovesReal ==
  ASSUME WatcherAssumption
  PROVE  Spec => []MovesReal
<1>1. Init => WatcherInv /\ MovesInv
  <2>1. ASSUME Init
        PROVE  MovesInv
    <3>1. Len(queue) = 0 /\ halves = {} /\ moved \subseteq renames
      BY <2>1 DEF Init
    <3>2. \A e, f : ~InQueue(queue, e) /\ ~BothIn(queue, e, f)
      BY <3>1 DEF InQueue, BothIn
    <3> QED
      BY <3>1, <3>2 DEF MovesInv, Sent, BothSent
  <2> QED
    BY <2>1, WatcherInvInit
<1>2. WatcherInv /\ MovesInv /\ [Next]_vars => WatcherInv' /\ MovesInv'
  BY WatcherInvStep, MovesInvStep
<1>3. MovesInv => MovesReal
  BY DEF MovesInv, MovesReal
<1> QED
  BY <1>1, <1>2, <1>3, PTL DEF Spec
=============================================================================

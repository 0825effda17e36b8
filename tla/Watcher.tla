------------------------------ MODULE Watcher ------------------------------
(***************************************************************************)
(* FileSystemWatcherLinux: the scan of a directory tree, the inotify       *)
(* events that pile up in the kernel meanwhile, and the thread that        *)
(* handles them and calls the listener.  The listener asks for the size of *)
(* the file it is told of; if the file has gone, the exception ends the    *)
(* daemon.                                                                 *)
(*                                                                         *)
(* The tree is a root with directories below it.  A path is a directory    *)
(* and a name; a watch descriptor is the directory it was made for.  A     *)
(* file is created and closed in one step.                                 *)
(***************************************************************************)
EXTENDS Sequences, FiniteSets, Integers

CONSTANTS Root,     \* the folder to watch
          Subs,     \* directories that may exist in it
          NoDir,    \* the empty name of an unknown watch descriptor
          Names,    \* file names
          Scenarios,\* sets of changes, the ones that may happen in a behaviour
          MaxOps    \* bound on their number

\* read: a file is opened and closed again; move goes to another directory,
\* moveIn and moveOut come from or go to a directory outside.
\* overlap: between the halves of a move another move, or a watch, may begin;
\* slow: MoveTimeout may pass there.
AllOps == {"create", "delete", "read", "rename", "move", "moveIn", "moveOut",
           "mkdir", "rmdir", "overlap", "slow"}

Dirs == {Root} \cup Subs
Paths == Dirs \X Names

ASSUME WatcherAssumption ==
  /\ Root \notin Subs /\ NoDir \notin Dirs
  /\ Paths \cap Subs = {}
  /\ Scenarios \subseteq SUBSET AllOps /\ MaxOps \in Nat

VARIABLES
  dirs, files,    \* what exists
  ops,            \* number of changes so far
  halves,         \* the kernel: second halves of moves that are not queued yet
  kinds,          \* the changes that may happen; it never changes
  watches,        \* the kernel: directories it watches
  queue,          \* the kernel: events not read yet
  mode,           \* scan, run, terminated
  stack,          \* directories the scan is in
  m_watchedDirs,  \* directories whose name is known
  move,           \* m_cookie, m_moveName, m_moveFrom: half of a move, or NoMove
  timedOut,       \* MoveTimeout has passed since
  reported,       \* paths the listener was told of and that did not change since
  renames, moved  \* moves that happened, and those the listener was told of

diskVars == <<dirs, files, ops, halves, kinds>>
historyVars == <<reported, renames, moved>>
vars == <<diskVars, watches, queue, mode, stack, m_watchedDirs, move, timedOut,
          historyVars>>

\* Events; InotifyFlags selects no others.  Other: an event on a file that
\* is no creation, deletion or move.
Masks == {"CLOSE_WRITE", "DELETE", "MOVED_FROM", "MOVED_TO", "OTHER"}
Event(mask, path, cookie) == [mask |-> mask, path |-> path, cookie |-> cookie, isDir |-> FALSE]
DirEventOf(mask, d) == [mask |-> mask, path |-> <<Root, d>>, cookie |-> 0, isDir |-> TRUE]
Events == [mask : Masks, path : Dirs \X (Names \cup Dirs), cookie : 0..MaxOps,
           isDir : BOOLEAN]

NoMove == [cookie |-> 0, path |-> <<>>, from |-> FALSE]
FullNames == (Dirs \cup {NoDir}) \X Names
Moves == [cookie : 1..MaxOps, path : FullNames, from : BOOLEAN]

\* A directory on the stack: not opened yet, opened, or with the entries that
\* are left of its listing.
Frame(d, step, left) == [dir |-> d, step |-> step, left |-> left]
Frames == [dir : Dirs, step : {"new", "open", "read"}, left : SUBSET (Paths \cup Subs)]

\* All variables have their types; what is watched has a name; the scan never
\* goes in circles.
TypeOK ==
  /\ dirs \in SUBSET Dirs /\ files \in SUBSET (dirs \X Names)
  /\ ops \in 0..MaxOps /\ kinds \in Scenarios
  /\ watches \in SUBSET dirs /\ watches \subseteq m_watchedDirs
  /\ m_watchedDirs \in SUBSET Dirs
  /\ queue \in Seq(Events) /\ halves \in SUBSET Events
  /\ mode \in {"scan", "run", "terminated"}
  /\ stack \in Seq(Frames) /\ Len(stack) <= 2
  /\ move \in Moves \cup {NoMove} /\ timedOut \in BOOLEAN
  /\ reported \in SUBSET Paths
  /\ renames \subseteq Paths \X Paths /\ moved \subseteq FullNames \X FullNames

Init ==
  /\ dirs \in {{Root} \cup s : s \in SUBSET Subs}
  /\ files \in SUBSET (dirs \X Names)
  /\ ops = 0 /\ halves = {} /\ kinds \in Scenarios
  /\ watches = {} /\ queue = <<>>
  /\ mode = "scan" /\ stack = <<Frame(Root, "new", {})>>
  /\ m_watchedDirs = {}
  /\ move = NoMove /\ timedOut = FALSE
  /\ reported = {} /\ renames = {} /\ moved = {}

-----------------------------------------------------------------------------
\* onFileSystemChange() for a path: its size is read.
Report(path) ==
  IF path \in files
  THEN reported' = reported \cup {path} /\ UNCHANGED mode
  ELSE mode' = "terminated" /\ UNCHANGED reported

-----------------------------------------------------------------------------
\* watchDir(): the directory on top of the stack.
Top == stack[Len(stack)]
SetTop(frame) == stack' = [stack EXCEPT ![Len(stack)] = frame]

Scanning(step) == mode = "scan" /\ stack # <<>> /\ Top.step = step

\* What readdir() returns: regular files and directories.
Entries(d) == {p \in files : p[1] = d} \cup (IF d = Root THEN dirs \ {Root} ELSE {})

OpenDir_IgnoreError ==
  /\ Scanning("new")
  /\ \/ watches' = watches \cup ({Top.dir} \cap dirs)
     \/ UNCHANGED watches
  /\ m_watchedDirs' = m_watchedDirs \cup {Top.dir}
  /\ SetTop(Frame(Top.dir, "open", {}))
  /\ UNCHANGED <<diskVars, queue, mode, move, timedOut, historyVars>>

\* opendir() and inotify_add_watch(); a directory that has gone ends the
\* daemon.
OpenDir ==
  /\ Scanning("new") /\ (halves # {} => "overlap" \in kinds)
  /\ \/ /\ Top.dir \in dirs
        /\ watches' = watches \cup {Top.dir}
        /\ m_watchedDirs' = m_watchedDirs \cup {Top.dir}
        /\ SetTop(Frame(Top.dir, "open", {}))
        /\ UNCHANGED mode
     \/ /\ Top.dir \notin dirs
        /\ mode' = "terminated"
        /\ UNCHANGED <<watches, m_watchedDirs, stack>>
  /\ UNCHANGED <<diskVars, queue, move, timedOut, historyVars>>

\* The entries are read from the kernel; they are visited later.
ReadDir ==
  /\ Scanning("open")
  /\ SetTop(Frame(Top.dir, "read", Entries(Top.dir)))
  /\ UNCHANGED <<diskVars, watches, queue, mode, m_watchedDirs, move, timedOut, historyVars>>

\* One entry: a file is reported as discovered, a directory is entered.
Visit ==
  /\ Scanning("read")
  /\ \E e \in Top.left :
       LET rest == [stack EXCEPT ![Len(stack)].left = @ \ {e}] IN
       \/ e \in Paths /\ Report(e) /\ stack' = rest
       \/ /\ e \in Subs
          /\ stack' = Append(rest, Frame(e, "new", {}))
          /\ UNCHANGED <<mode, reported>>
  /\ UNCHANGED <<diskVars, watches, queue, m_watchedDirs, move, timedOut, renames, moved>>

\* closedir(); after the root the poller thread is started.
CloseDir ==
  /\ Scanning("read") /\ Top.left = {}
  /\ stack' = SubSeq(stack, 1, Len(stack) - 1)
  /\ mode' = IF Len(stack) = 1 THEN "run" ELSE mode
  /\ UNCHANGED <<diskVars, watches, queue, m_watchedDirs, move, timedOut, historyVars>>

-----------------------------------------------------------------------------
\* handleInotifyEvent(): the event at the head of the queue.
First == Head(queue)
Handling(isDir) == mode = "run" /\ queue # <<>> /\ First.isDir = isDir

\* The path the watcher makes of an event; the operator [] of the map returns
\* an empty name for an unknown descriptor.
FullName(e) == <<IF e.path[1] \in m_watchedDirs THEN e.path[1] ELSE NoDir, e.path[2]>>

DirEvent_KeepWatch ==
  /\ Handling(TRUE)
  /\ queue' = Tail(queue)
  /\ m_watchedDirs' = IF First.mask = "DELETE" THEN m_watchedDirs \ {First.path[1]}
                      ELSE m_watchedDirs
  /\ UNCHANGED <<diskVars, watches, mode, stack, move, timedOut, historyVars>>

\* An event on a directory: after a deletion the watch it came from, the one
\* of the parent, is removed.  The kernel confirms with one more event.
DirEvent ==
  /\ Handling(TRUE)
  /\ \/ /\ First.mask = "DELETE"
        /\ watches' = watches \ {First.path[1]}
        /\ m_watchedDirs' = m_watchedDirs \ {First.path[1]}
        /\ queue' = IF First.path[1] \in watches
                    THEN Append(Tail(queue), Event("OTHER", First.path, 0))
                    ELSE Tail(queue)
     \/ /\ First.mask # "DELETE"
        /\ queue' = Tail(queue)
        /\ UNCHANGED <<watches, m_watchedDirs>>
  /\ UNCHANGED <<diskVars, mode, stack, move, timedOut, historyVars>>

\* A pending half of a move is looked at when an event on a file arrives: if
\* its time is over it came from, or went, outside.
MoveAlone ==
  /\ Handling(FALSE)
  /\ move # NoMove /\ timedOut
  /\ move' = NoMove /\ timedOut' = FALSE
  /\ IF move.from THEN UNCHANGED <<mode, reported>> ELSE Report(move.path)
  /\ UNCHANGED <<diskVars, watches, queue, stack, m_watchedDirs, renames, moved>>

FileEvent(masks) == Handling(FALSE) /\ First.mask \in masks /\ ~(move # NoMove /\ timedOut)

\* A file was created, or an event that concerns no one.
FileClosed ==
  /\ FileEvent({"CLOSE_WRITE", "DELETE", "OTHER"})
  /\ queue' = Tail(queue)
  /\ IF First.mask = "CLOSE_WRITE" THEN Report(FullName(First)) ELSE UNCHANGED <<mode, reported>>
  /\ UNCHANGED <<diskVars, watches, stack, m_watchedDirs, move, timedOut, renames, moved>>

Halves_AnyCookie(e) == move # NoMove

\* The event is the other half of the pending move.
Halves(e) == move # NoMove /\ e.cookie = move.cookie

\* One half of a move: the first is kept, the second completes it, and one
\* that does not match the first is dropped.
FileMoved ==
  LET e == First
      from == e.mask = "MOVED_FROM"
      src == IF from THEN FullName(e) ELSE move.path
      dst == IF from THEN move.path ELSE FullName(e)
  IN
  /\ FileEvent({"MOVED_FROM", "MOVED_TO"})
  /\ queue' = Tail(queue)
  /\ \/ /\ move = NoMove
        /\ move' = [cookie |-> e.cookie, path |-> FullName(e), from |-> from]
        /\ timedOut' = FALSE
        /\ UNCHANGED <<mode, reported, moved>>
     \/ /\ Halves(e)
        /\ move' = NoMove
        /\ Report(dst)
        /\ moved' = moved \cup {<<src, dst>>}
        /\ UNCHANGED timedOut
     \/ /\ move # NoMove /\ ~Halves(e)
        /\ UNCHANGED <<move, timedOut, mode, reported, moved>>
  /\ UNCHANGED <<diskVars, watches, stack, m_watchedDirs, renames>>

\* The other half of the pending one is on its way.
HalfToCome ==
  \/ \E i \in 1..Len(queue) : Halves(queue[i])
  \/ \E h \in halves : Halves(h)

\* MoveTimeout, five seconds, passes: between two halves if the second is
\* queued, or read, that late.
Tick ==
  /\ move # NoMove /\ ~timedOut
  /\ HalfToCome => "slow" \in kinds
  /\ timedOut' = TRUE
  /\ UNCHANGED <<diskVars, watches, queue, mode, stack, m_watchedDirs, move, historyVars>>

-----------------------------------------------------------------------------
\* External: the file system.  The kernel queues the events of watched
\* directories.
Received(q, e) == IF e.path[1] \in watches THEN Append(q, e) ELSE q

Emit(e) == queue' = Received(queue, e)

EmitTwo(e, f) == queue' = Received(Received(queue, e), f)

Changes(op) ==
  /\ mode # "terminated" /\ op \in kinds /\ ops < MaxOps
  /\ ops' = ops + 1
  /\ UNCHANGED <<kinds, mode, stack, m_watchedDirs, move, timedOut, moved>>

\* External: a file appears, is read, or goes; a directory is read.
FileChange ==
  /\ \/ \E p \in (dirs \X Names) \ files :
          \/ Changes("create") /\ files' = files \cup {p} /\ Emit(Event("CLOSE_WRITE", p, 0))
          \/ Changes("moveIn") /\ files' = files \cup {p} /\ Emit(Event("MOVED_TO", p, ops'))
     \/ \E p \in files :
          \/ Changes("read") /\ UNCHANGED files /\ Emit(Event("OTHER", p, 0))
          \/ Changes("delete") /\ files' = files \ {p} /\ Emit(Event("DELETE", p, 0))
          \/ Changes("moveOut") /\ files' = files \ {p} /\ Emit(Event("MOVED_FROM", p, ops'))
     \/ \E d \in dirs \ {Root} :
          Changes("read") /\ UNCHANGED files /\ Emit(DirEventOf("OTHER", d))
  /\ reported' = reported \cap files'
  /\ UNCHANGED <<dirs, halves, watches, renames>>

\* External: a file is moved, within its directory or to another one.  The
\* kernel queues the two halves one after the other, not at once.
Rename ==
  /\ halves # {} => "overlap" \in kinds
  /\ \E p \in files, q \in (dirs \X Names) \ files :
       /\ Changes(IF p[1] = q[1] THEN "rename" ELSE "move")
       /\ files' = (files \ {p}) \cup {q}
       /\ Emit(Event("MOVED_FROM", p, ops'))
       /\ halves' = halves \cup {Event("MOVED_TO", q, ops')}
       /\ renames' = renames \cup {<<p, q>>}
  /\ reported' = reported \cap files'
  /\ UNCHANGED <<dirs, watches>>

\* External: the second half of a move is queued; other events may lie between.
SecondHalf ==
  /\ mode # "terminated"
  /\ \E h \in halves : halves' = halves \ {h} /\ Emit(h)
  /\ UNCHANGED <<dirs, files, ops, kinds, watches, mode, stack, m_watchedDirs, move, timedOut,
                 historyVars>>

\* External: a directory is made; nothing is queued, IN_CREATE is not asked for.
MakeDir ==
  /\ \E d \in Subs \ dirs : d \notin m_watchedDirs /\ dirs' = dirs \cup {d}
  /\ Changes("mkdir")
  /\ UNCHANGED <<files, halves, watches, queue, reported, renames>>

\* External: an empty directory is removed, with its watch.
RemoveDir ==
  /\ Changes("rmdir")
  /\ \E d \in dirs \ {Root} :
       /\ \A p \in files : p[1] # d
       /\ dirs' = dirs \ {d}
       /\ EmitTwo(Event("OTHER", <<d, d>>, 0), DirEventOf("DELETE", d))
       /\ watches' = watches \ {d}
  /\ UNCHANGED <<files, halves, reported, renames>>

-----------------------------------------------------------------------------
Scan == OpenDir \/ ReadDir \/ Visit \/ CloseDir

ThreadMain == DirEvent \/ MoveAlone \/ FileClosed \/ FileMoved

Next ==
  \/ Scan \/ ThreadMain \/ Tick
  \/ FileChange \/ Rename \/ SecondHalf \/ MakeDir \/ RemoveDir

Spec == Init /\ [][Next]_vars

\* The scan and the thread go on, and the kernel ends a move it has begun.
FairSpec == Spec /\ WF_vars(Scan \/ ThreadMain) /\ WF_vars(SecondHalf)

-----------------------------------------------------------------------------
\* A move that the listener is told of has happened, whatever halves of other
\* moves arrive before, between and after its own, and however late (as long
\* as no directory is removed, which makes the watcher forget the name of
\* another one): the one cookie the watcher keeps never joins the halves of
\* two moves.
MovesReal == "rmdir" \notin kinds => moved \subseteq renames

\* Each file that appears is reported, during the scan or after it, unless it
\* goes or changes again first: no window between scan and events is open, and
\* events between the two halves of a rename do no harm.  (It is stated for
\* files that stay in their directory, and directories that stay.  If two
\* renames or a rename and the start of a watch overlap, or if the second half
\* is handled more than five seconds later, a half is left alone or dropped,
\* and its file is not reported.)
EveryFileReported ==
  \A p \in Paths :
    p \in files /\ kinds \subseteq {"create", "delete", "read", "rename"}
      ~> p \in reported \/ p \notin files \/ mode = "terminated"
=============================================================================

# MediaArchiverSuite: a TLA+ model

MediaArchiverSuite re-encodes a collection of videos. A small daemon runs on the
machine that owns the files; clients on faster machines ask it for a source
file, encode it with ffmpeg and upload the result. The daemon keeps a job
database, gives each file to one client at a time, and puts the finished archive
beside the source. This directory models that system in TLA+, checks the model
with TLC on small instances, and proves its safety properties and both refinements with TLAPS
for every instance.

## 1. The system

| component | source | state | operations |
|---|---|---|---|
| job database | `SQLite.cpp` | tables `sourcefiles`, `queue` (status, count), `archives` | `getNextFile`, `addFile`, `addEncodedFile`, `reset`, all under `m_mtx` |
| daemon, RPC handlers | `MediaArchiverDaemon.cpp` | `m_connections` (per session: file id, name, open input and output stream, result) | `authenticate`, `getNextFile`, `readChunk`, `reset`, `postFile`, `writeChunk`, `abort` |
| daemon, main loop | `start()` | `m_filesToMove`, the entry being moved | take a queued result, `mv` the temporary file, record the result |
| listener | `onFileSystemChange()` | none; reads file sizes, then writes the database | one call of `addFile` per event |
| file mover | `FileCopierLinux.cpp` | the file systems | `moveFile` = `mv`, then `utimensat` |
| client | `MediaArchiverClient.cpp` | `m_mainState`, `m_authenticated`, the two temporary files, `m_encResult` | `poll()`: one handler per state |
| watcher | `FileSystemWatcherLinux.cpp` | watched directories, a half-seen rename | directory scan, inotify events |
| RPC stub | `ServerIf.hpp`, rpclib | one TCP connection | one blocking call with a timeout per operation |
| configuration, entry points | `MediaArchiverConfig.hpp`, the two `main` | - | sequential start-up |

How they interact. rpclib runs the daemon's handlers in worker threads; the main
loop is the daemon's main thread and the watcher has its own. They share
`m_connections` and `m_filesToMove` (mutex `m_mtxFileMove`, not always taken),
the condition variable `m_cv`, the database (mutex `m_mtx`) and the file system.
A file goes from the database to a connection (`getNextFile`), through the
client and back (`postFile`, `writeChunk`), to the queue (`prepareNewSession`),
to the main loop, and back to the database (`addEncodedFile`).

What is hard. An answer can be lost after the handler has acted; the client
cannot tell and repeats or resets. A client reconnects under the same token
while its old connection still owns open files. A connection breaks and the
daemon is never told. The listener acts on sizes it has read earlier. Moving a
file has three points of failure. The daemon can be restarted in between, with
clients that go on. `hazards` in `PROJECT.json` lists each with its line.

What makes each part correct:

- database: nothing is handed out more often than the retry limit says
  (`RetryBudget`), and the SQL statements of a method, which commit one by one,
  add up to the method (`Implements`);
- handlers and queue: a file has one holder, and a held file is not available
  (`OneHolder`, `HeldIsReserved`); a reserved file is on its way to the record
  of its result, or blocked in one of five known ways (`ReservedIsHeld`); seen from outside all of it is a queue of jobs
  (`IsJobQueue`); an upload that is queued as OK is complete (`UploadComplete`);
- main loop and listener: OK means that a complete archive of this very source
  is at the recorded path (`ArchiveSound`), and stays there (`DoneIsFinal`);
- transfers: what is accepted or queued is byte for byte the file
  (`AcceptedIsWhole`, `QueuedIsWhole`), nothing is deleted before it is stored
  (`DeletedIsStored`), and transfers end (`DownloadEnds`, `UploadEnds`);
- client: the encoding it uploads is that of the file it holds
  (`UploadsOwnEncoding`), no handler runs without what it works on (`RpcThere`,
  `EncoderThere`), jobs and stop requests are brought to an end (`JobEnds`,
  `StopEnds`);
- watcher: every file is reported (`EveryFileReported`), and no move is reported
  that did not happen (`MovesReal`);
- together: results reach the database (`ResultRecorded`), files get settled
  (`EveryFileSettles`).

## 2. Modules

| module | models | state |
|---|---|---|
| `SQLite` | the job database, one operator per method, and a specification of the database alone | `sourcefiles`, `status`, `count`, `archives`; history `resets` |
| `Statements` | EXTENDS `SQLite`: the methods statement by statement, with crashes; implements `SQLite` | the tables, the running method and its locals |
| `Daemon` | EXTENDS `SQLite`: handlers, main loop, listener, and the clients as the calls they make; implements `JobQueue` | connections, queue, main loop, files, clients |
| `JobQueue` | what the daemon promises: one state per job | `job`, `tries`, `returns` |
| `Upload` | `doTransmit()` against `writeChunk()` and `reset()`, byte by byte | both stream positions, the bytes written, calls under way |
| `Download` | `doReceive()` against `readChunk()`, `reset()` and the check of `postFile()` | the same in the other direction |
| `Client` | `poll()` with all its states, against one slot of the daemon | the members of `MediaArchiverClient`, the daemon's slot |
| `Watcher` | the scan, the kernel's queue of events, the watcher thread | the directory tree, watches, events, the pending half of a move |
| `MC...` | constants for TLC | |
| `...Proofs` | theorems: `SQLiteProofs`, `StatementsProofs`, `DaemonProofs`, `QueueProofs` (EXTENDS `DaemonProofs`), `UploadProofs`, `DownloadProofs`, `ClientProofs`, `WatcherProofs` | |

The modules cut the system at three places. `Daemon` counts chunks and
lets several clients work with one daemon; `Upload` and `Download` look at one
transfer between one client and the daemon, with every byte, and with handlers
that run after their call was given up; `Client` takes a transfer as one step and
follows one client through all its states. `Watcher` ends where the listener is
called, and `Daemon` begins there, with a listener that may be called for any
file at any time.

Definitions whose name ends in `_Something` next to a definition of the same
name (`Retriable_NoLimit`) are faulty variants: substituted for the original
they make a property fail, which shows that the property is sensitive to it. No
specification uses them.

### What may go wrong

Each module has a set of events of its environment, and each behaviour meets
only some of them. In `Daemon` this is the constant `Events`; in `Upload`,
`Download`, `Client` and `Watcher` a constant `Scenarios` is a set of such sets,
and a variable (`events`, `kinds`) that never changes says which one a behaviour
has drawn. One run thus covers the worst environment and milder ones, and a property
that only holds in a milder one names the events it rules out:
`QueuedIsWhole`, for example, is stated for behaviours without `late` and `diskFull`.
Section 4 lists what happens otherwise.
`Statements` has `mayCrash` in the same role.

Events of `Daemon`:

| event | meaning |
|---|---|
| `lostCall`, `lostAnswer` | a call of a transfer, or an answer, is lost; the client sees a timeout |
| `break` | the connection breaks, the daemon is not told |
| `connectFails` | the client cannot reach the daemon when it wants to authenticate |
| `dies`, `shutdown` | the client process ends, without or with `abort()` |
| `encodeFails` | the encoder reports an error |
| `aligned` | the length of an encoding may be a multiple of the chunk size |
| `openFails`, `tempOpenFails`, `diskFull` | opening a source, opening or writing a temporary file fails |
| `mvFails`, `mvPartial`, `utimeFails` | the ways `moveFile` fails |
| `restart` | the daemon's process ends and is started again |

Events of the others: a call that times out after its handler ran (`lostAnswer`,
in `Upload` `lostLast` if it is that of the last chunk), before (`lostCall` in `Client`,
`lostLast` there if it is that of a last chunk, which reads the stream to its end) or while
it is still to run (`late`); a `reset()` that times out (`resetLost`); a
full disk (`diskFull`); a source that grows (`grows`); a file of the client that
does not open (`localFails`); a broken connection (`break`), a restarted
(`restart`) or unreachable daemon (`refused`); an encoder that fails or cannot be
launched (`encodeFails`, `launchFails`); an encoding of whole chunks (`aligned`);
signals (`stop`, `forced`); and in `Watcher` every change of the file system. There, two more
kinds say how the halves of moves arrive: with `overlap` another move may begin, or a watch
be added, between the two halves of one; with `slow` the timeout of five seconds may pass there.

### Correspondence with the code

*Database.* `queue.status` and `queue.count` are the functions `status` and
`count`, a missing row being `NoRow` and 0. `getNextFile` selects from a UNION
without ORDER BY: any selectable file may be the answer. `resets` is a history
variable that counts `reset()` calls; it guards nothing except the bound of
`DbSpec`.

*Statements.* `pc` names the next SQL statement of the running method, the locals
are those of `SQLite.cpp` (`srcId`, `archiveName`, ...; that a queue row is there is
`queued` in `getNextFile()` and `inQueue` in `addFile()`). There is no transaction, so every statement
commits by itself, and `Crash` stops a method after any of them. An SQL error has
the same effect: it is thrown from the destructor of `ExecSQL`, which is `noexcept`.
`shown` is a history variable, the tables as callers have seen them; it follows
the tables when a method returns, in behaviours without crashes. The refinement
mapping reads the database of `SQLite` from it.

*Connections.* `m_connections` is a function of session ids; an absent entry has
the token `NoClient`. Streams are `Closed` or a position in chunks. A file is
its content: which source it encodes, and how many chunks of it.

*Ids and names.* `originalFileId` and `originalFileName` are separate fields, as
in the code, because they can disagree: a new `ConnectedClient` has an
uninitialised id. The constant `Garbage` is the set of values it may have.

*Clients of `Daemon`.* A client is a phase (`idle`, `receiving`, `encoding`,
`sending`, `transmitting`, `looping`, `gone`) and what it remembers. One action is one call:
the client's decision, the handler, and the answer. `Answer(c, delivered)` adds
the case in which the answer is lost; the client then acts as it does on a timeout
(calls `reset()` in a transfer, repeats the call otherwise). A client whose
connection broke outside a transfer has `StaleSession`: it still believes it is
authenticated (`m_authenticated` is not cleared) and all its calls are refused.
`LostCall(c)` is a call the daemon never sees. Calls that are refused and change nothing
are not steps.

*The end of an upload.* The answer to the completing chunk ends the upload for the
daemon; for the client it does only if its stream is at `eof()`, which a last chunk
of full size does not set (`Finishes`, event `aligned`). Such a client sends one more,
empty chunk, which is refused, and goes on like that for ever; it stays in
`transmitting` (`Caught`). The same happens if the call of a short last chunk is lost: the
stream has failed, `seekg()` comes before `clear()`, and only empty chunks follow, which the
daemon accepts and which never complete the file (`looping`, `SendEmpty`). A transfer that fails
earlier is repeated from its start.

*Main loop.* `main` is its position; `ftm` the entry it works on. It releases
the mutex between taking an entry and recording it, so `MainLoop`, `MainMove`
and `MainRecord` are separate steps; handlers run in between.

*Atomicity.* A handler is one step. What it does before it takes
`m_mtxFileMove` concerns its own connection, which no other thread changes
unless two calls of one client overlap or the map itself is changed
concurrently. The first case is in `Upload` and `Download`; the second is not
modelled (see 6).

*Stop of the daemon.* `stop()` and the flag `m_stopRequested` are not modelled: the daemon's
`main()` (MediaArchiverDaemon.cpp:878-1001) registers no handler for signals, and the one call of
`stop()` (line 108) is on the way out of `start()`, before the loop. The daemon ends by being
killed, which is `Restart`.

*Job queue.* `JobState(f)` of `Daemon` is the refinement mapping: a file that a
connection, a queue entry or the main loop holds is `working`, otherwise its
database row says what it is; reserved but held by nobody is `lost`.
`JobQueue` allows a job to get lost only by a restart, or when a file turns out
to be unreadable as it is handed out.

*Blocked files.* `ReservedIsHeld` says where a reserved file is: in the queue, with the main
loop, or with a connection whose client works on it and whose next call will not be refused
(`Working`); or else it is `Blocked`, in one of five ways:

1. its client has ended without `abort()` (`dies`, or an exception thrown by `reset()` inside
   an exception handler, MediaArchiverClient.cpp:658);
2. its client has lost the session and still takes itself for authenticated
   (`StaleSession`, MediaArchiverClient.cpp:273);
3. its client asks for files and is refused because a stream of its connection is
   open (the answer to `getNextFile()` was lost, MediaArchiverDaemon.cpp:598; or a result was
   forgotten, MediaArchiverClient.cpp:191);
4. its client posts again and is refused because the output file is already open
   (the answer to `postFile()` was lost, MediaArchiverDaemon.cpp:738);
5. its client sends nothing but empty chunks (`looping`).

These are limitations of the code, not promises. TLC shows that none of the five can be left
out, and the property says that there is no sixth.

*Transfers.* Byte i of a file is the number i, so the bytes that arrived show
where they came from. A stream is its position with `eofbit`/`failbit`: a short
read sets both, a read that ends exactly at the end of the file sets neither,
and `seekg()` before `clear()` does nothing while `failbit` is set (`Rewind`). A call
that timed out may leave its handler behind in `late`, to run in another worker
thread after later calls.

*Client.* The states are those of `MainStates`. One `poll()` is two steps, the
handler and the check of `m_shutdown` after it, because the signal handler may
run between them. `slot`, `job` and `bound` are the client's entry in the
daemon; `results` is what the daemon has queued for it. `Ends` are the ways the
process ends; two of them are calls through null pointers. `known` says that the daemon has an
entry with the client's token: `Authenticate` moves that entry to the new connection, or makes one
with an uninitialised `originalFileId`, which is any job; so it is after a restart. `atEnd` is
the `failbit` of `m_dstFile` after a short read: an upload that fails then never gets a byte through
again (`TransmitFails`), and with `aligned` one that succeeds never leaves `Transmitting`.

*Watcher.* A watch descriptor stands for the directory it was made for; `watches`
is the kernel's view, `m_watchedDirs` the names the watcher knows. `Emit` queues
events only for watched directories. A move queues its first half at once; the second is in
`halves` until the kernel queues it (`SecondHalf`), so events of other changes and, with
`overlap`, halves of other moves lie between them, and the branch that drops a half
(FileSystemWatcherLinux.cpp:328) is taken. `Tick` is the timeout of line 277: it may come between two halves
only with `slow` (`HalfToCome`). `Report` is the listener's `stat` of the path:
when the file has gone the exception ends the process (`terminated`).
`reported`, `renames` and `moved` are history variables.

## 3. Runs

| run | instance | shows |
|---|---|---|
| `statements` | 2 files, 2 archive paths, any order of calls, 1 reset per file, up to 1 crash | `RetryBudget` survives crashes between statements; without crashes the statements implement the methods (670 000 states) |
| `clients` | 2 clients, 2 files, 3 sessions, encodings of 2 chunks; client and network failures, lengths that are multiples of the chunk size | every reserved file has exactly one holder and is on its way or blocked in a known way, and the daemon is a `JobQueue` (48 000 states) |
| `uploads` | 1 client, 3 files (one archived, one of 2 chunks, one empty), encodings of 2 chunks; failures of the client, the network and the file systems | OK means a complete archive, which stays (285 000 states) |
| `faults` | 2 clients, 1 file, all events | ownership and budget under every combination of failures (370 000 states) |
| `progress` | 2 clients, 1 file; encoding and moving may fail, lengths may be multiples of the chunk size; fairness | results are recorded, the file gets settled unless both clients are caught in an endless upload |
| `upload` | lengths 1 to 8, chunks of 1 to 4 bytes; all failures, all without handlers left behind, lost answers alone | the client deletes only what is queued; what is queued is whole; uploads end |
| `download` | sources of up to 5 bytes, chunks of 1 to 3; all failures, lost and late reads alone | only a complete source is accepted; downloads end |
| `client` | 3 jobs, 3 failures; five sets of events | own encodings, no null pointers, jobs and stops end |
| `watcher` | a root with one directory, 2 file names, 2 changes; three sets of changes, one of them of moves that overlap | files are reported, moves are real (680 000 states) |

Two runs are expected to fail; each is a disagreement between the code and a
comment. `findings` in `PROJECT.json` quotes both sides.

| run | property | what happens |
|---|---|---|
| `open_error` | `OpenErrorHidden` | the error of a source that cannot be opened reaches the client, and the file stays reserved |
| `restart_upload` | `RestartsFromBeginning` | after an error at the end of the file `seekg()` has no effect, and only empty chunks follow |

### Bounds

- `MaxQueue = 3` bounds the queue of `Daemon`. A connection enters at most one
  entry per file and holds at most one file; repeated posts of an error add
  entries with id 0. With up to 2 clients, 3 is enough for two files and one
  such entry.
- 3 sessions for 2 clients: a client that reconnects needs a free one while its
  old entry exists, and the other client keeps its own. Session ids are reused
  as soon as their entry is gone.
- In `Daemon` a source has 1 or 2 chunks, an encoding 1 or 2: enough for a
  transfer that is interrupted in the middle, at its start and at its end.
- `RetryLimit` is the 3 of the code. `MaxResets` only matters in `DbSpec` and
  `Statements`: in `Daemon` a client calls `abort()` once, as its last call.
- `Statements`: two files and two paths are the least with which an archive can
  belong to another file than the one that is added, or a source can have another
  archive already. One size, beside 0 (no limit, no result): the methods only pass sizes on.
- `Upload`, `Download`: lengths and chunk sizes contain every relation between
  them: shorter than a chunk, a multiple, one more, one less, several chunks.
  `MaxLost = 2`: a transfer is restarted, and the restarted one interrupted again.
  `MaxLate = 2`: two handlers left behind can overtake each other.
- `Client`: three jobs, as a result that was forgotten in the first shows up in the
  second or third; three failures, so that a failure can hit the recovery of the
  one before.
- `Watcher`: two changes with two names are enough for two moves whose halves
  interleave in the queue (with `overlap`), and for a change while the scan is in either
  directory. The queue itself is not bounded and never overflows.
- Symmetry (clients and sessions; files and paths in `statements`) is used in runs
  without liveness only.
- `CHECK_DEADLOCK` is on in the runs of `Daemon` and `Statements`. `Upload`,
  `Download`, `Client` and `Watcher` end: a transfer is over, a process
  has exited, no further change is left. That they do not end too early is what their liveness
  properties say.

### Fairness

Fairness is weak throughout, and only of what the code keeps running.

- `Daemon`: the main loop (a thread of a running process) and each client
  (`while(poll() == 0)`). Not the listener, no failure, no spurious wakeup of
  the condition variable: the main loop leaves `waiting` only when notified, so
  `ResultRecorded` really depends on `notify_all()`. In the liveness run clients do
  not die, source files open and the network works; with lost answers the code
  promises no progress (a client whose answer to `getNextFile()` was lost is
  refused for as long as its connection lives). With `aligned` a client may be caught in an
  endless upload; `EveryFileSettles` is stated for files that find a client which is not.
- `Upload`, `Download`: the client's loop and the handler of the call it waits for.
  A handler that was left behind need never run.
- `Client`: `poll()`. Failures are bounded by `MaxFaults`, so "in the end" means
  after the last of them.
- `Watcher`: the scan and the thread, while events are there. The timeout of a move
  (`Tick`) need not come. The kernel queues the second half of a move it has begun
  (`SecondHalf`).

## 4. Where properties are conditional

A property that excludes events does so because the code does not provide for
them. Dropping the condition (or adding the event to the scenario) makes TLC show the
behaviour:

| condition | what happens without it |
|---|---|
| `diskFull` in `UploadComplete` (event left out), `QueuedIsWhole` | `tellp()` is -1 after a failed write; compared with a `size_t` it is above every length, and the upload ends as a success (MediaArchiverDaemon.cpp:799) |
| `late` in `QueuedIsWhole` | a chunk whose call timed out is written after the `reset()` of the next attempt, at the wrong place |
| `lostLast` in `UploadEnds` | the daemon has queued the file; every further chunk is refused, and the client starts again for ever |
| length a multiple of the chunk size, in `UploadEnds`; `aligned` in `JobEnds`, `StopEnds` | one more, empty chunk is sent, because `eof()` is not set; it is refused, and the transfer goes on for ever; a normal stop does not end it |
| `Caught` in `EveryFileSettles` | the same: when every client is caught, nobody is left to try a file again |
| `lostLast` in `JobEnds`, `StopEnds` | the retry of a last chunk sends only empty chunks (the run `restart_upload`) |
| `resetLost` in `UploadEnds`, `DownloadEnds` | `reset()` throws inside the exception handler and ends the client |
| `grows` in `DownloadEnds` | `postFile()` wants the recorded length and refuses for ever |
| `mvPartial` in `ArchiveSound` (event left out) | part of a file is at its final name, where the listener takes it for a finished archive |
| `restart` in `ArchiveSound` (event left out), `UploadsOwnEncoding`; `IdsHarmless` in the theorems | a client that authenticates anew has an uninitialised id: its upload is recorded for another file, files are held twice |
| `restart` in `ReservedIsHeld` (event left out) | files that are in work stay reserved, and nobody holds them |
| `Blocked` in `ReservedIsHeld` | the five ways of section 2 |
| `openFails`, empty files in `ReservedIsHeld` | `getNextFile()` reserves the file before it finds that it cannot be read (the run `open_error`) |
| distinct archive names (`NamesDistinct`) in `IsJobQueue`, `DoneIsFinal`, `ArchiveSound` | `a.avi` and `a.mp4` share `a.mkv`: the second archive overwrites the first, and one event finishes two jobs |
| `launchFails` in `RpcThere`, `EncoderThere` | the exception handler calls through the `m_rpc` that `disconnect()` has dropped; at the second pass the next poll reads from a null process |
| `lostAnswer`, `break`, `restart` in `JobEnds`, `StopEnds` | a repeated call is refused for ever; after a broken connection `m_authenticated` stays true and no call is served |
| `refused`, `stop` in `JobEnds` | a result that cannot be delivered is forgotten; a stop during encoding ends the client before it reports |
| `rmdir` in `MovesReal` | the watch of the parent is dropped instead of the directory's own, and names become "/name" |
| `overlap` in `EveryFileReported` | the halves of two moves interleave: line 328 drops a half, and its file is never reported; a watch that is added between the halves of a move misses the first one |
| `slow` in `EveryFileReported` | the first half is given up as a move to the outside, the second waits for a further event |
| `mkdir`, `rmdir`, `move`, `moveIn`, `moveOut` in `EveryFileReported` | `IN_CREATE` is handled but not asked for, so new directories are not watched; a file moved in is reported only when a further event arrives after a timeout |
| `mode = "terminated"` in `EveryFileReported` | a file that vanishes before its size is read ends the daemon |
| `mayCrash` in `Implements` | after a crash between the INSERT into `archives` and the UPDATE of `queue`, `addFile()` returns early (SQLite.cpp:264), and the file is encoded again |

## 5. Theorems

All are proved for every value of the constants (sets of files, clients, sessions
and events, lengths, chunk sizes, bounds) from the `ASSUME` of the modules: special
values lie outside the sets, ranges are ranges.

| theorem | says |
|---|---|
| `SQLiteProofs!DbCorrect`, `DbRetryBudget` | `DbSpec => []DbInv`, and so `[]RetryBudget` |
| `StatementsProofs!StatementsRetryBudget`, `StatementsKeepAttempts`, `StatementsTypeCorrect` | `Spec => []RetryBudget`, `[]UnlimitedHasBudget`, `[]DbTypeOK`, with crashes between statements |
| `StatementsProofs!StatementsImplement` | `Spec => Implements`: the statements implement `DbSpec` |
| `DaemonProofs!DaemonTypeCorrect`, `DaemonRetryBudget` | `Spec => []TypeOK`, `Spec => []RetryBudget` |
| `DaemonProofs!DaemonOneHolder`, `DaemonHeldIsReserved`, `DaemonHoldersTied` | `Spec => []OneHolder`, `[]HeldIsReserved`, `[]HoldersTied`, if `IdsHarmless` |
| `QueueProofs!DaemonIsJobQueue` | `Spec => IsJobQueue`: the daemon implements `JobQueue`, if `IdsHarmless` and `NamesDistinct` |
| `QueueProofs!DaemonReservedIsHeld` | `Spec => []ReservedIsHeld`, without `restart`, `openFails` and empty files: no sixth way to lose a reservation |
| `QueueProofs!DaemonDoneIsFinal` | `Spec => DoneIsFinal`, if `IdsHarmless` and `NamesDistinct` |
| `QueueProofs!DaemonUploadComplete` | `Spec => []UploadComplete`, if `IdsHarmless`, without `diskFull` |
| `QueueProofs!DaemonArchiveSound` | `Spec => []ArchiveSound`, if `NamesDistinct`, without `restart`, `diskFull` and `mvPartial` |
| `UploadProofs!UploadTypeCorrect`, `ClientDeletesStored`, `UploadIsWhole` | `Spec => []TypeOK`, `[]DeletedIsStored`, `[]QueuedIsWhole` |
| `DownloadProofs!DownloadTypeCorrect`, `DownloadIsWhole` | `Spec => []TypeOK`, `[]AcceptedIsWhole` |
| `ClientProofs!ClientTypeCorrect`, `HandlersHaveRpc`, `ConvertHasEncoder`, `ClientUploadsOwn` | `Spec => []TypeOK`, `[]RpcThere`, `[]EncoderThere`, `[]UploadsOwnEncoding` |
| `WatcherProofs!WatcherTypeOK`, `WatcherMovesReal` | `Spec => []TypeOK`, `[]MovesReal` |

The hypotheses of the theorems on the daemon are conditions on its constants, and
each corresponds to a row of section 4. The runs `clients`, `uploads` and `faults`
are instances of them.

*Database.* `RetryBudget` alone is not inductive: two branches of the selection
do not look at the count. `UnlimitedHasBudget` says why they need not: a file
without a row has count 0, and a file that is "not started" has either never
been tried or has been put back, which raises its budget. `DbInv` is the
conjunction; the run `statements` checks its parts.

*Statements.* The budget needs, at each statement, what the running method knows
of the tables from its earlier ones (`LocalInv`): that the row it is about to insert is
missing, that the file it is about to claim is still selectable. No other method
runs meanwhile, so this is an invariant, and leaving a method, by return or
crash, discards it. The refinement adds `Shows`: how the tables differ from those the
caller saw, per statement. A step inside a method leaves `shown` alone; the
step that returns is the method's action in `SQLite`, with the tables of
`Shows` inserted.

*Daemon.* `DataInv` is `TypeOK`, `DbInv` and "a busy main loop works on a real
file". One lemma per handler; the database part of a handler is an operator of
`SQLite.tla`, so the lemmas of `SQLiteProofs` are cited as they are.

*Ownership.* The argument for `OneHolder` is that a file leaves the database only
if it is selectable, that a held file is not (`HeldIsReserved`), and that every
handover clears the place it leaves. It needs `HoldersTied`: each client finds
its own connection under its session, no token occurs twice, and the id a
connection works with is the one that belongs to its name. The last part is
what an uninitialised id destroys, hence the hypothesis `IdsHarmless`: the daemon
is not restarted, or the uninitialised id is 0. Without a restart a client that
is working has a connection, and `authenticate()` finds it by its token; so a
new connection, with its uninitialised id, only goes to a client without a file.
Nearly all handlers are instances of `QuietStep` (holders only give files up);
`GetNextFile`, `PrepareNewSession`, `MainLoop`, `MainRecord` and `Authenticate`
have proofs of their own.

*Job queue.* Each step of the daemon has to be a step of `JobQueue` or a stutter,
under the mapping `JobState`. Two facts are needed beyond ownership. A connection
that still names a file but has no stream open belongs to a client that has ended, or
may post its result again (`StreamsTied`); so when the daemon drops a connection
its file goes to the queue, and is not forgotten. And
an archive row, or what the listener is about to record, has the name that
belongs to the source (`ArchivesOwn`), so an archive finishes one job: its own.
`QueueInv` is the conjunction of these with `DataInv` and `HolderInv`,
with `FreeIsEmpty` (an unused session has nothing) and with the range of
results.

*Blocked files.* With the mapping in place, "no job is `lost`" (`NoneLost`) says that a
reserved file has a holder: only a restart and an unreadable file lead to `lost`, and both are
excluded. That the holder is heard, or blocked in a known way, needs how far both ends of a transfer
are (`TransfersTied`): for each phase of a client, which streams of its connection are open and
where they stand (`Tied`), and that only a client in a transfer is about to call `reset()`
(`TransferTied`). It is inductive by cases over the caller (`CallerTied`); all other clients and
connections are left alone (`OthersTied`). `HolderWorks` then reads `Working` or `Blocked` off it.

*Uploads.* `UploadComplete` is inductive with `SourceKnown` (what a client
encodes is what its connection has handed out) and with the same statement about
the entry the main loop has taken from the queue (`QueueWhole`). The argument is local to
`writeChunk()`: it queues the file only at the announced length, its temporary
file holds this source alone, and a second connection for the same
file cannot exist (`OneHolder`).

*Archives.* `ArchiveSound` follows the content of a file to its place:
`QueueWhole` for the temporary file, `MoveDone` for the entry that was moved and
is to be recorded, `DiskWhole` for everything under an archive's name (nothing,
or a whole archive of this very source), `WatchWhole` for the archive the listener
has seen and is about to record. What a client may send as a result is part of it
(`ResultsIn(Sent)`): an OK without data would be recorded as OK. The
client sends it only if `m_dstFile` was left open by an earlier result. That result
was kept because no connection could be made, and while the daemon runs, the old connection
still has its source open and no other file is handed out to the client
(`ResultsFresh`); hence the restart is excluded.

*Upload.* That a queued file is whole is inductive only with the positions of both ends:
while no handler is left behind, client and daemon are aligned except between a
call and its handler, or after an answer was lost and before both were rewound; and
what lies below the daemon's position is already right, although the file is not
truncated. `DeletedIsStored` needs no such condition: "finished" is
answered only by the call that closes the file.

*Download.* The client's copy can be shifted against the source when a read is
handled late. It then lacks bytes: its position never gets ahead of the daemon's,
and is behind by what was skipped. `postFile()` accepts only if the daemon has read exactly
the recorded length, and the client only goes on if it has that length itself;
together they leave no room for a shift.

*Client.* `HandlersHaveRpc` and `ConvertHasEncoder` follow from an invariant that
gives for every state of the machine what must exist (`TargetInv`);
`ClientUploadsOwn` from one that relates the open `m_dstFile`, the job fetched and the
job of the daemon's slot. The relation survives a broken connection because `authenticate()`
finds the old entry; a restart destroys it, so the property is stated for behaviours without one.

*Watcher.* Types depend on the shape of the scan: the bottom of the stack is
the root, the directory above it is one whose entries are files, so the scan
never goes a third level down (`StackOK`), and an event that the watcher makes a name of
carries a path (`EventOK`). `MovesReal` needs what cookies are for, as
an invariant (`MovesInv`): two halves with one cookie, each in the queue or still in the kernel,
are the two ends of a move that happened, so are the pending half and any half with
its cookie, and every cookie that is still to come is larger than these. It says nothing of where
halves lie or when the timeout passes, so they may interleave and be late. The path of an event is its name only if the directory is known; that is lost with
the first `DELETE` of a directory, hence the condition `rmdir`.

*Model-checked only.* The liveness properties (`ResultRecorded`, `EveryFileSettles`,
`UploadEnds`, `DownloadEnds`, `JobEnds`, `StopEnds`, `EveryFileReported`): liveness under
fairness is beyond the prover. Every invariant, every action property and both
refinements that the passing runs check are proved as well.

### Plan

1. What a client does as an abstract specification of its own, implemented by
   `Client`: one job at a time, each fetched, reported once and forgotten.
2. Safety parts of `EveryFileReported`: a file that exists and was not reported is
   in the listing or in the queue, once its directory was opened.
3. The names of `onFileSystemChange()`: `isArchive()`, `getArchivedFileName()`
   and the search for the counterpart, for sources that share a base name.
4. Session ids that are reused while their entry exists.

## 6. Not modelled

- Unlocked access to the map (`checkClient`): a data race inside `std::map`, whose
  outcomes are not those of the program's own logic.
- Reuse of an rpclib session id while an entry of it exists, and two clients with
  the same token.
- Two sources with one archive name (`a.avi`, `a.mp4`): the runs use distinct
  names, and the theorems that need them have `NamesDistinct` as a hypothesis.
- An overflow of the kernel's queue of events: `IN_Q_OVERFLOW` is not handled by the watcher
  (FileSystemWatcherLinux.cpp:371), which does not scan again. All properties of `Watcher` are for queues
  that do not overflow.
- `stop()` and `isIdle()` of the daemon, which nothing reaches while its loop runs.
- Directories that are moved, unmounting, the list of roots a `regex*` folder expands to.
- File times, formats of names and commands, the command line of ffmpeg, logging.
- Configuration parsing: sequential, at start; its values are constants of the
  models.
- The Windows variants; the rpclib and loguru submodules, which are not in
  the repository.
- The vendored SQLite (`src/sqlite`): third-party, and with about 260 000 of the
  264 000 lines of code nearly the whole repository by size. The models cover
  its effect on the three tables. Of the program's own files, about 3 700
  lines, the map names about half; what is left is declarations,
  string formatting, logging, option parsing and headers.

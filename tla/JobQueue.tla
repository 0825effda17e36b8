------------------------------ MODULE JobQueue ------------------------------
(***************************************************************************)
(* What the daemon promises its clients, seen from outside: a queue of     *)
(* jobs, one per media file.  A job is in the hands of one worker at most, *)
(* it is handed out a limited number of times, and a worker's hold on it   *)
(* ends only with its result or with its return.                           *)
(***************************************************************************)
EXTENDS Naturals

CONSTANTS Jobs,        \* the media files
          MaxTries,    \* how often a job is handed out, if it is never returned
          Unreadable,  \* files that may turn out to be no media files
          Forgetting   \* the queue may be restarted

VARIABLES job,       \* state of each job
          tries,     \* how often it was handed out
          returns    \* how often a worker returned it unfinished

jobVars == <<job, tries, returns>>

States == {"unknown", "waiting", "working", "failed", "done", "lost"}

Init ==
  /\ job = [f \in Jobs |-> "unknown"]
  /\ tries = [f \in Jobs |-> 0]
  /\ returns = [f \in Jobs |-> 0]

\* Job f goes from one of the states `from' to one of the states `to'.
Moves(f, from, to) ==
  /\ job[f] \in from
  /\ job'[f] \in to
  /\ job' = [job EXCEPT ![f] = job'[f]]

\* A file is found: to be encoded, or already with its archive.
Discover(f) == Moves(f, {"unknown"}, {"waiting", "done"}) /\ UNCHANGED <<tries, returns>>

\* An archive of a file in nobody's hands is found.
FindArchive(f) == Moves(f, {"waiting", "failed", "lost"}, {"done"}) /\ UNCHANGED <<tries, returns>>

\* The job is reserved for a worker, or for one that will not get it.
HandOut(f) ==
  /\ tries[f] < MaxTries + returns[f]
  /\ Moves(f, {"waiting", "failed"}, {"working"} \cup (IF f \in Unreadable THEN {"lost"} ELSE {}))
  /\ tries' = [tries EXCEPT ![f] = @ + 1]
  /\ UNCHANGED returns

\* The worker's result is recorded.
Finish(f) == Moves(f, {"working"}, {"done", "failed"}) /\ UNCHANGED <<tries, returns>>

\* The worker returns the job.
GiveBack(f) ==
  /\ Moves(f, {"working"}, {"waiting"})
  /\ returns' = [returns EXCEPT ![f] = @ + 1]
  /\ UNCHANGED tries

\* A restart forgets who works on what; an archive may have been found
\* meanwhile.
Forget ==
  /\ Forgetting
  /\ job' \in [Jobs -> States]
  /\ \A f \in Jobs : IF job[f] = "working" THEN job'[f] \in {"lost", "done"}
                                           ELSE job'[f] = job[f]
  /\ UNCHANGED <<tries, returns>>

Next ==
  \/ \E f \in Jobs : Discover(f) \/ FindArchive(f) \/ HandOut(f) \/ Finish(f) \/ GiveBack(f)
  \/ Forget

Spec == Init /\ [][Next]_jobVars
=============================================================================

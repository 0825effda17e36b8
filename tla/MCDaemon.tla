------------------------------ MODULE MCDaemon ------------------------------
\* The daemon on up to two clients and three files.
EXTENDS Daemon, TLC

CONSTANTS f1, f2, f3, c1, c2, s1, s2, s3, n1, n2, n3, nEmpty

OneFile == {f1}
TwoFiles == {f1, f2}
ThreeFiles == {f1, f2, f3}
OneClient == {c1}
TwoClients == {c1, c2}
TwoSessions == {s1, s2}
ThreeSessions == {s1, s2, s3}
MCNames == {n1, n2, n3, nEmpty}
MCSizes == 0..2
MCResults == {OK, ServerIOError, UnknownError}

\* f1 has one chunk, f2 two, f3 is empty.
MCFileLen == [f \in Files |-> IF f = f1 THEN 1 ELSE IF f = f2 THEN 2 ELSE 0]
MCArchiveName == [f \in FileIds |-> IF f = f1 THEN n1 ELSE IF f = NoFile THEN nEmpty
                                    ELSE IF f = f2 THEN n2 ELSE n3]
JustF1 == {f1}
NoGarbage == {NoFile}
None == {}

\* Failures of clients and the network; those and failures of the file systems.
ClientEvents == {"lostCall", "lostAnswer", "break", "connectFails", "dies",
                 "shutdown", "aligned", "tempOpenFails"}
FileEvents == ClientEvents \cup {"encodeFails", "mvFails", "utimeFails"}
FairEvents == {"encodeFails", "mvFails", "aligned"}
OpenFails == {"openFails"}
MCSymmetry == Permutations(Clients) \cup Permutations(Sessions)
=============================================================================

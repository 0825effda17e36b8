---------------------------- MODULE MCStatements ----------------------------
\* Two files and two archive paths.
EXTENDS Statements, TLC

CONSTANTS f1, f2, n1, n2

MCFiles == {f1, f2}
MCNames == {n1, n2}
MCSizes == {1}
MCResults == {OK, ServerIOError}
MCSymmetry == Permutations(MCFiles) \cup Permutations(MCNames)
=============================================================================

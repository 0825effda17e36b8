----------------------------- MODULE MCWatcher -----------------------------
\* A root with one directory and two file names; any changes, changes
\* of files within their directories, or moves of files.
EXTENDS Watcher

CONSTANTS s1, n1, n2

MCSubs == {s1}
MCNames == {n1, n2}
MCScenarios == {AllOps, {"create", "delete", "read", "rename"},
                {"rename", "move", "moveIn", "moveOut", "overlap", "slow"}}
=============================================================================

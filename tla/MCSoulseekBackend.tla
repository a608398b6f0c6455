-------------------------- MODULE MCSoulseekBackend --------------------------
EXTENDS SoulseekBackend, TLC

CONSTANTS r1, r2, n1, p1

\* Two peers share a file of the same path, not of the same size.
MCPathOf == [r \in Remotes |-> p1]
MCNameOf == [r \in Remotes |-> n1]
MCSizeOf == [r \in Remotes |-> IF r = r1 THEN 1 ELSE 2]

\* An earlier run has left the second peer's file in the download root: a transfer of
\* the first peer's file finds one of another size there, as it would an unfinished
\* one, and one of the second's finds its own.
MCEarlier == {[d \in Dirs |-> [n \in Names |-> IF d = Root THEN r2 ELSE NoFile]]}
=============================================================================

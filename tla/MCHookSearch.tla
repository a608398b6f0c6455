----------------------------- MODULE MCHookSearch -----------------------------
EXTENDS HookSearch, TLC

CONSTANTS m1, m2, m3, n1

\* m1 and n1 are links to one torrent.
MCHash == (m1 :> 1) @@ (n1 :> 1) @@ (m2 :> 2) @@ (m3 :> 3)

\* A table, a detail template, one without a URL.
MCSites == << [extract |-> "table", pages |-> 0],
              [extract |-> "blank", pages |-> 0],
              [extract |-> "detail", pages |-> 2] >>
=============================================================================

--------------------------- MODULE MCSearchSessions ---------------------------
EXTENDS SearchSessions
\* The searches of the instances: two over Soulseek, one over the hook.
CONSTANTS s1, s2, h1
=============================================================================

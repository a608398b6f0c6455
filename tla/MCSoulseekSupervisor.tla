------------------------ MODULE MCSoulseekSupervisor ------------------------
EXTENDS SoulseekSupervisor, TLC

CONSTANTS user, root, a, b, c1, c2

\* agpeer.toml names a user and a staging directory.
MCConfig == (user :> a) @@ (root :> a)
=============================================================================

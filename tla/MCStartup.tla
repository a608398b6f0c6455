------------------------------- MODULE MCStartup -------------------------------
(***************************************************************************)
(* Two processes over two data directories.  A process starts in no        *)
(* particular environment, in one that gives every value or in one that    *)
(* gives every value in a form that is passed over.  The file is absent,   *)
(* broken, complete, or has a data directory that is blank; the user makes *)
(* it the last of these.                                                   *)
(***************************************************************************)
EXTENDS Startup, TLC

CONSTANTS p1, p2, home, elsewhere, nowhere, ann, joe, r0, r1, r2

AllGiven == [data |-> elsewhere, user |-> joe, root |-> r2, hook |-> On]
PassedOver == [data |-> Empty, user |-> Empty, root |-> Empty, hook |-> Junk]
Unfit == [NoEnv EXCEPT !.data = nowhere]

Call(c, n, e) == [command |-> c, named |-> n, env |-> e]

MCCalls ==
    {Call("serve", FALSE, NoEnv), Call("serve", FALSE, AllGiven), Call("serve", TRUE, PassedOver),
     Call("migrate", FALSE, AllGiven), Call("migrate", FALSE, Unfit)}

MCStored ==
    {NoSettings, [user |-> Empty, pass |-> None, root |-> r2, hook |-> None],
     [user |-> Junk, pass |-> None, root |-> r1, hook |-> Off]}

MCFiles ==
    {Absent, Broken,
     Toml([data |-> elsewhere, user |-> ann, root |-> r1, hook |-> On]),
     Toml([data |-> Empty, user |-> ann, root |-> r1, hook |-> Off])}

MCEdits == {Toml([data |-> Empty, user |-> ann, root |-> r1, hook |-> Off])}

MCPuts == {<<"pass", Junk>>, <<"root", None>>, <<"hook", Off>>, <<"hook", None>>}

Symmetry == Permutations(Procs)
=============================================================================

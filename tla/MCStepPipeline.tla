---------------------------- MODULE MCStepPipeline ----------------------------
EXTENDS StepPipeline, TLC

CONSTANTS j1, j2, zip, inner, extra, song, other

\* An archive in the work directory, holding two files, one of which is named like
\* a song in the subdirectory; beside that lies a third file.
MCNameOf == (zip :> "z") @@ (inner :> "s") @@ (extra :> "e") @@ (song :> "s") @@ (other :> "o")
MCInside == (zip :> {inner, extra}) @@ (inner :> {}) @@ (extra :> {}) @@ (song :> {}) @@ (other :> {})
MCStart ==
    [p \in Places |-> [n \in {"z", "s", "e", "o"} |->
        CASE p = "work" /\ n = "z" -> zip
          [] p = "sub" /\ n = "s" -> song
          [] p = "sub" /\ n = "o" -> other
          [] OTHER -> Nothing]]

\* Jobs on the archive, on the song and on the third file.
Plan(name, place, sane, steps) == [name |-> name, place |-> place, sane |-> sane, steps |-> steps]

MCPlans == {
    Plan("z", "work", "work", <<"verify", "extract", "cleanup">>),
    Plan("z", "work", "sub", <<"extract", "rename", "move">>),
    Plan("z", "work", "work", <<"cleanup", "hardlink", "extract">>),
    Plan("s", "sub", "sub", <<"rename", "copy", "flatten", "custom_hook">>),
    Plan("s", "sub", "sub", <<"verify", "hardlink", "inspect_media", "run_installer">>),
    Plan("o", "sub", "sub", <<"verify", "copy">>),
    Plan("o", "sub", "sub", <<"hardlink", "copy">>),
    Plan("o", "sub", "sub", <<"copy", "flatten">>) }

MCSymmetry == Permutations({j1, j2})
=============================================================================

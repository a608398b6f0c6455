---------------------------- MODULE MCLibraryFiles ----------------------------
(***************************************************************************)
(* The layout rules and the jobs that follow them.  While nothing has      *)
(* arrived the rules are asked for any file; where that is a file of the   *)
(* instance, its transfers are downloaded and organized, and the places    *)
(* the jobs move files to are those the rules give.                        *)
(***************************************************************************)
EXTENDS LibraryFiles, LibraryLayout, TLC

CONSTANTS t1, t2, f1, f2, f3, n1, n2, s1, s2

\* One transfer of two files and one of a single file, which has the name of one
\* of the two and, lying in another directory, the same place in the library.
MCOwner == (f1 :> t1) @@ (f2 :> t1) @@ (f3 :> t2)

Season == <<<<<<"season", "1">>>>>>
Episode == <<<<"word", "a">>, <<"mark", "2">>, <<"tag", "1080">>>>
Extras == <<<<"word", "a">>>>
File(dirs, stem, category) == [dirs |-> dirs, stem |-> stem, category |-> category]
MCPathOf ==
    (f1 :> File(Season, Episode, "video"))
        @@ (f2 :> File(<<>>, Extras, "archive"))
        @@ (f3 :> File(<<>>, Episode, "video"))

NoHints == [media |-> Absent, music |-> Absent]

MCSlotOf == (f1 :> s1) @@ (f2 :> s2) @@ (f3 :> s1)
MCNameOf == (f1 :> n1) @@ (f2 :> n2) @@ (f3 :> n1)

\* The rules put the files that share a slot in one place, and no others.
Layout(f) == INSTANCE LibraryLayout WITH src <- MCPathOf[f], hints <- NoHints
SlotsAreDestinations ==
    \A f, g \in Files :
        SlotOf[f] = SlotOf[g] <=>
            Layout(f)!Destination = Layout(g)!Destination /\ MCPathOf[f].stem = MCPathOf[g].stem

MCCategoryFolder == [video |-> "Movies", audio |-> "Music", archive |-> "Archives"]

\* Every kind of token, and directories that hold each of those the rules look for.
MCTokens == {<<"word", "a">>, <<"tag", "1080">>, <<"dash", "-">>, <<"number", "7">>, <<"year", "1999">>,
             <<"mark", "2">>, <<"spread", "3">>, <<"season", "5">>, <<"group", "g">>}
MCFolders == {<<>>, <<<<<<"word", "a">>, <<"year", "2001">>>>>>}
    \cup {<<<<<<k, "1">>>>>> : k \in {"mark", "spread", "season"}}

MCValues == {"a", "g", "1", "2", "3", "5", "7", "1080", "1999", "2001", "-", "x", "y", "c", "", ".", ".."}

MCWidth == [v \in MCValues |-> CASE v \in {"1", "2", "3", "5", "7"} -> 1
                                 [] v \in {"1080", "1999", "2001"} -> 4
                                 [] OTHER -> 0]

MCSubPaths == {
    <<<<"word", "x">>, <<"blank", "">>, <<"word", "y">>>>, <<<<"word", "x">>, <<"up", "..">>, <<"up", "..">>>>,
    <<<<"drive", "c">>, <<"word", "x">>>>, <<<<"blank", ".">>>>}
MCHints == [media : {Absent, "tv", "movie", "anime"}, music : {Absent}]
    \cup [media : {Absent}, music : MCSubPaths]

\* Besides any file, one whose name is that of a track of an album.
Track ==
    /\ src = File(<<>>, <<<<"word", "a">>, <<"dash", "-">>, <<"number", "7">>, <<"dash", "-">>, <<"word", "x">>>>, "audio")
    /\ hints \in Hints

\* A subpath for music is looked at for music only.
MCInit ==
    /\ SlotsAreDestinations /\ Init
    /\ AnyFile \/ Track
    /\ src.category = "audio" \/ hints.music = Absent

MCNext ==
    \/ arrived = {} /\ NextFile /\ UNCHANGED vars
    \/ src = MCPathOf[f2] /\ hints = NoHints /\ Next /\ UNCHANGED <<src, hints>>

MCSpec == MCInit /\ [][MCNext]_<<vars, src, hints>>
=============================================================================

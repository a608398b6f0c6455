------------------------------ MODULE FileCustody ------------------------------
(***************************************************************************)
(* What post-processing and deletion promise about a downloaded file: it   *)
(* is whole in exactly one place that counts, it goes from the download    *)
(* folder to the library and never back, what is in the library stays, and *)
(* it is lost only after somebody asked for the deletion of data, of a     *)
(* transfer with a file of that name.                                      *)
(***************************************************************************)
CONSTANTS
    Ids,            \* transfers
    Files,          \* their files
    Owner,          \* the transfer a file belongs to
    NameOf          \* base names

VARIABLES
    place,          \* where the file counts as being
    doomed          \* files a requested deletion may take

custodyVars == <<place, doomed>>

FilesOf(id) == {f \in Files : Owner[f] = id}

\* Files a deletion of the transfer's data may take.
InReach(id) == {g \in Files : \E f \in FilesOf(id) : NameOf[f] = NameOf[g]}

CustodyInit ==
    /\ place = [f \in Files |-> "absent"]
    /\ doomed = {}

\* The download of a transfer ends.
Downloaded(id) ==
    /\ \A f \in FilesOf(id) : place[f] = "absent"
    /\ place' = [f \in Files |-> IF f \in FilesOf(id) THEN "staging" ELSE place[f]]
    /\ UNCHANGED doomed

Organized(f) ==
    /\ place[f] = "staging"
    /\ place' = [place EXCEPT ![f] = "library"]
    /\ UNCHANGED doomed

\* DELETE with delete_data.
Doom(id) ==
    /\ doomed' = doomed \cup InReach(id)
    /\ UNCHANGED place

Lost(fs) ==
    /\ \A f \in fs : place[f] = "staging" /\ f \in doomed
    /\ place' = [f \in Files |-> IF f \in fs THEN "gone" ELSE place[f]]
    /\ UNCHANGED doomed

CustodyNext ==
    \/ \E id \in Ids : Downloaded(id) \/ Doom(id)
    \/ \E f \in Files : Organized(f)
    \/ \E fs \in SUBSET Files : Lost(fs)

CustodySpec == CustodyInit /\ [][CustodyNext]_custodyVars
=============================================================================

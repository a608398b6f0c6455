------------------------------ MODULE LibraryFiles ------------------------------
(***************************************************************************)
(* The files of transfers on disk: organize jobs move those of completed   *)
(* ones from the download folder into the library (core/postprocess.rs,    *)
(* organize.rs) while DELETE requests with delete_data remove them         *)
(* (routes.rs).  What a download has of a file that is not whole is left   *)
(* out.                                                                    *)
(*                                                                         *)
(* Jobs run inside the sync loop, one at a time; a DELETE runs on another  *)
(* thread, file by file, and the process may die anywhere.  Disk and job   *)
(* table survive.  Which directory of the library a file goes to is a      *)
(* function of its path (the layout rules): SlotOf.  All transfers share   *)
(* the download root, as they do by default; the library is outside it.    *)
(* Directories are left out: they are created and pruned on the way.       *)
(***************************************************************************)
EXTENDS Naturals

CONSTANTS
    Ids, Files, Owner, NameOf,
    Slots, SlotOf,          \* places in the library, each with a file name
    NoFile, Partial,        \* nothing there; a copy that was not finished
    NoId,
    Clients,                \* concurrent DELETE requests
    MaxJobs, MaxDeletes, MaxCrashes, MaxFaults  \* bounds

ASSUME FilesAssumption ==
    /\ Owner \in [Files -> Ids] /\ SlotOf \in [Files -> Slots]
    /\ \A f, g \in Files : SlotOf[f] = SlotOf[g] => NameOf[f] = NameOf[g]
    /\ NoFile # Partial /\ {NoFile, Partial} \cap Files = {}
    /\ NoId \notin Ids
    /\ MaxJobs \in Nat /\ MaxDeletes \in Nat /\ MaxCrashes \in Nat /\ MaxFaults \in Nat

VARIABLES
    arrived,    \* transfers that have been downloaded completely
    staging,    \* files that are whole in the download folder
    library,    \* slot -> the file there
    jobs,       \* the postprocess_jobs table: transfer and state
    run,        \* organize_completed_transfer and its locals
    del,        \* the DELETE requests
    asked,      \* transfers whose data somebody asked to delete
    budget

vars == <<arrived, staging, library, jobs, run, del, asked, budget>>

FilesOf(id) == {f \in Files : Owner[f] = id}

JobIds == 1 .. MaxJobs

JobState == {"none", "running", "completed", "failed"}

NotRunning == [pc |-> "idle", job |-> 0, left |-> {}, cur |-> NoFile]

NoDelete == [pc |-> "idle", id |-> NoId, left |-> {}]

Init ==
    /\ arrived = {} /\ staging = {}
    /\ library = [s \in Slots |-> NoFile]
    /\ jobs = [n \in JobIds |-> [state |-> "none", id |-> NoId]]
    /\ run = NotRunning
    /\ del = [c \in Clients |-> NoDelete]
    /\ asked = {}
    /\ budget = [deletes |-> MaxDeletes, crashes |-> MaxCrashes, faults |-> MaxFaults]

Spend(kind) ==
    /\ budget[kind] > 0
    /\ budget' = [budget EXCEPT ![kind] = @ - 1]

\* The engine has finished a transfer (external to these files).
Arrive(id) ==
    /\ id \notin arrived
    /\ arrived' = arrived \cup {id} /\ staging' = staging \cup FilesOf(id)
    /\ UNCHANGED <<library, jobs, run, del, asked, budget>>

-----------------------------------------------------------------------------
(* organize_completed_transfer. *)

\* Mutant: the job is not stored before its first step.
StartJobUnstored(n, id) ==
    /\ run.pc = "idle" /\ id \in arrived
    /\ jobs[n].state = "none" /\ \A m \in JobIds : m < n => jobs[m].state # "none"
    /\ jobs' = [jobs EXCEPT ![n].id = id]
    /\ run' = [pc |-> "move", job |-> n, left |-> FilesOf(id), cur |-> NoFile]
    /\ UNCHANGED <<arrived, staging, library, del, asked, budget>>

\* The sync loop starts a job whenever it takes a transfer for newly completed,
\* possibly again, possibly from a copy of a row that has been deleted.  If the
\* job cannot be stored nothing happens.
StartJob(n, id) ==
    /\ run.pc = "idle" /\ id \in arrived
    /\ jobs[n].state = "none" /\ \A m \in JobIds : m < n => jobs[m].state # "none"
    /\ jobs' = [jobs EXCEPT ![n] = [state |-> "running", id |-> id]]
    /\ run' = [pc |-> "move", job |-> n, left |-> FilesOf(id), cur |-> NoFile]
    /\ UNCHANGED <<arrived, staging, library, del, asked, budget>>

\* Mutant: an existing destination is not refused.
MovableOver(f) == f \in staging

\* is_file, and nothing at the destination.
Movable(f) == f \in staging /\ library[SlotOf[f]] = NoFile

\* The file cannot be moved, or the disk refuses: the job is to fail.
Refuse(f) ==
    /\ run.pc = "move" /\ f \in run.left
    /\ IF Movable(f) THEN Spend("faults") ELSE UNCHANGED budget
    /\ run' = [run EXCEPT !.pc = "fail"]
    /\ UNCHANGED <<arrived, staging, library, jobs, del, asked>>

\* rename on one volume.
Rename(f) ==
    /\ run.pc = "move" /\ f \in run.left /\ Movable(f)
    /\ staging' = staging \ {f}
    /\ library' = [library EXCEPT ![SlotOf[f]] = f]
    /\ run' = [run EXCEPT !.left = @ \ {f}]
    /\ UNCHANGED <<arrived, jobs, del, asked, budget>>

\* rename across volumes fails, and copy begins.
StartCopy(f) ==
    /\ run.pc = "move" /\ f \in run.left /\ Movable(f)
    /\ library' = [library EXCEPT ![SlotOf[f]] = Partial]
    /\ run' = [run EXCEPT !.pc = "copy", !.cur = f]
    /\ UNCHANGED <<arrived, staging, jobs, del, asked, budget>>

EndCopy ==
    /\ run.pc = "copy"
    /\ \/ /\ library' = [library EXCEPT ![SlotOf[run.cur]] = run.cur]
          /\ run' = [run EXCEPT !.pc = "remove"]
          /\ UNCHANGED budget
       \/ /\ run' = [run EXCEPT !.pc = "fail", !.cur = NoFile]
          /\ Spend("faults") /\ UNCHANGED library
    /\ UNCHANGED <<arrived, staging, jobs, del, asked>>

\* remove_file of the source, which fails if a DELETE was faster.
RemoveSource ==
    /\ run.pc = "remove"
    /\ \/ /\ run.cur \in staging /\ staging' = staging \ {run.cur}
          /\ run' = [run EXCEPT !.pc = "move", !.left = @ \ {run.cur}, !.cur = NoFile]
          /\ UNCHANGED budget
       \/ /\ run' = [run EXCEPT !.pc = "fail", !.cur = NoFile]
          /\ IF run.cur \in staging THEN Spend("faults") ELSE UNCHANGED budget
          /\ UNCHANGED staging
    /\ UNCHANGED <<arrived, library, jobs, del, asked>>

\* The job row gets its final state; if that fails it stays running.
EndJob(state) ==
    /\ \/ jobs' = [jobs EXCEPT ![run.job].state = state] /\ UNCHANGED budget
       \/ UNCHANGED jobs /\ Spend("faults")
    /\ run' = NotRunning
    /\ UNCHANGED <<arrived, staging, library, del, asked>>

FailJob == run.pc = "fail" /\ EndJob("failed")

\* Mutant: a file that cannot be moved is passed over.
FinishRegardless == run.pc \in {"move", "fail"} /\ (run.pc = "fail" \/ run.left = {}) /\ EndJob("completed")

FinishJob == run.pc = "move" /\ run.left = {} /\ EndJob("completed")

Organize ==
    \/ \E f \in Files : Refuse(f) \/ Rename(f) \/ StartCopy(f)
    \/ EndCopy \/ RemoveSource \/ FailJob \/ FinishJob

-----------------------------------------------------------------------------
(* delete_transfer with delete_data. *)

\* The row is read, of a finished transfer or of one that is still downloading;
\* the backend's cancel may remove the data itself (rqbit).
Delete(c, id) ==
    /\ del[c].pc = "idle"
    /\ Spend("deletes")
    /\ del' = [del EXCEPT ![c] = [pc |-> "cancel", id |-> id, left |-> FilesOf(id)]]
    /\ asked' = asked \cup {id}
    /\ UNCHANGED <<arrived, staging, library, jobs, run>>

CancelData(c) ==
    /\ del[c].pc = "cancel"
    /\ \E taken \in {{}, FilesOf(del[c].id)} : staging' = staging \ taken
    /\ del' = [del EXCEPT ![c].pc = "files"]
    /\ UNCHANGED <<arrived, library, jobs, run, asked, budget>>

\* The recorded path or, if nothing is there, some file of that name anywhere
\* under the download root (find_by_name).
Targets(f) == IF f \in staging THEN {f} ELSE {g \in staging : NameOf[g] = NameOf[f]}

\* delete_transfer_files, one file; a removal that fails is passed over.  Of an
\* unfinished transfer it may find the file that is not whole yet, at its path.
DeleteFile(c, f) ==
    /\ del[c].pc = "files" /\ f \in del[c].left
    /\ \/ \E g \in Targets(f) : staging' = staging \ {g} /\ UNCHANGED budget
       \/ (Targets(f) = {} \/ Owner[f] \notin arrived) /\ UNCHANGED <<staging, budget>>
       \/ Targets(f) # {} /\ Spend("faults") /\ UNCHANGED staging
    /\ del' = [del EXCEPT ![c].left = @ \ {f}]
    /\ UNCHANGED <<arrived, library, jobs, run, asked>>

\* store.delete, outside these files.
EndDelete(c) ==
    /\ del[c].pc = "files" /\ del[c].left = {}
    /\ del' = [del EXCEPT ![c] = NoDelete]
    /\ UNCHANGED <<arrived, staging, library, jobs, run, asked, budget>>

Handle(c) == CancelData(c) \/ (\E f \in Files : DeleteFile(c, f)) \/ EndDelete(c)

-----------------------------------------------------------------------------

\* The process dies; jobs are not taken up again.
Crash ==
    /\ Spend("crashes")
    /\ run' = NotRunning /\ del' = [c \in Clients |-> NoDelete]
    /\ UNCHANGED <<arrived, staging, library, jobs, asked>>

Next ==
    \/ \E id \in Ids : Arrive(id) \/ (\E n \in JobIds : StartJob(n, id)) \/ \E c \in Clients : Delete(c, id)
    \/ Organize
    \/ \E c \in Clients : Handle(c)
    \/ Crash

Spec == Init /\ [][Next]_vars

-----------------------------------------------------------------------------
(* Properties. *)

\* Type invariant.  A live job is stored as running, moves files of its own
\* transfer only, and each library slot holds a file that belongs there.
TypeOK ==
    /\ arrived \subseteq Ids /\ asked \subseteq Ids
    /\ staging \subseteq {f \in Files : Owner[f] \in arrived}
    /\ library \in [Slots -> Files \cup {NoFile, Partial}]
    /\ \A s \in Slots : library[s] \in Files => SlotOf[library[s]] = s /\ Owner[library[s]] \in arrived
    /\ jobs \in [JobIds -> [state : JobState, id : Ids \cup {NoId}]]
    /\ run.pc \in {"idle", "move", "copy", "remove", "fail"}
    /\ run.pc # "idle" =>
          /\ run.job \in JobIds /\ jobs[run.job].state = "running"
          /\ run.left \subseteq FilesOf(jobs[run.job].id)
    /\ IF run.pc \in {"copy", "remove"} THEN run.cur \in run.left ELSE run.cur = NoFile
    /\ \A c \in Clients : del[c].pc = "idle" \/ (del[c].id \in asked /\ del[c].left \subseteq FilesOf(del[c].id))
    /\ budget \in [{"deletes", "crashes", "faults"} -> Nat]

\* A job is recorded as completed only if every file of its transfer is whole in
\* the library, and stays so: whatever was deleted, left behind by an earlier
\* job or a crash, or in the way, the record never claims more than the disk
\* holds (postprocess.rs 171-228).
CompletedJobMoved ==
    \A n \in JobIds : jobs[n].state = "completed" =>
        \A f \in FilesOf(jobs[n].id) : library[SlotOf[f]] = f

\* Where a file counts as being.  A file that is being copied is still readable
\* when its directory entry has been removed.
Place ==
    [f \in Files |->
        IF Owner[f] \notin arrived THEN "absent"
        ELSE IF library[SlotOf[f]] = f THEN "library"
        ELSE IF f \in staging \/ (run.pc = "copy" /\ run.cur = f) THEN "staging"
        ELSE "gone"]

Custody == INSTANCE FileCustody WITH
    place <- Place,
    doomed <- {g \in Files : \E f \in Files : Owner[f] \in asked /\ NameOf[f] = NameOf[g]}

\* No file is lost, moved back or overwritten by a job, a retry or a crash, and
\* a deletion takes only files that bear a name of the deleted transfer.
FilesInCustody == Custody!CustodySpec

-----------------------------------------------------------------------------
(* What a comment claims and the code does not do. *)

\* routes.rs 233-234: delete_transfer_files deletes the downloaded files of the
\* transfer, so a file is lost only if its own transfer's data was to go.
OnlyOwnFilesDeleted == \A f \in Files : Place[f] = "gone" => Owner[f] \in asked
=============================================================================

---------------------------- MODULE SoulseekBackend ----------------------------
(***************************************************************************)
(* NativeSoulseekBackend as a transfer backend (native_backend.rs): a      *)
(* registry of transfers under one lock, over a native client that runs    *)
(* the downloads, queues up the refusals of peers, and writes finished     *)
(* files into the download root.                                           *)
(*                                                                         *)
(* The handlers call add, cancel and forget; the sync loop calls list,     *)
(* which drains the refusals, copies the client's download status, and     *)
(* then, holding the lock, delivers and reconciles one transfer after the  *)
(* other.  The client (external) moves at any time.                        *)
(*                                                                         *)
(* A remote file is a peer's file: PathOf gives its path at the peer, by   *)
(* which client.cancel finds it, NameOf its base name, on which disk paths *)
(* depend, and SizeOf its size, positive and known from the search result. *)
(* Only the size of a file on disk is ever looked at: a complete one is    *)
(* named after a remote file of its name and size.  The directories        *)
(* outlive the process, and the registry does not: Init finds any of the   *)
(* Earlier disks; others (the organizer, the user) take files away.        *)
(***************************************************************************)
EXTENDS Naturals, TransferTypes

CONSTANTS
    Ids, Remotes, Paths, Names, Sizes, PathOf, NameOf, SizeOf,
    Root, Elsewhere,    \* the download root, another destination
    NoFile, Partial,    \* no file there, one of another size
    Earlier,            \* the disks that earlier runs may have left
    Clients,
    MaxRequests, MaxFaults  \* bounds: requests; failed moves and files others take away

Dirs == {Root, Elsewhere}

ASSUME BackendAssumption ==
    /\ Ids \subseteq Nat
    /\ PathOf \in [Remotes -> Paths] /\ NameOf \in [Remotes -> Names] /\ SizeOf \in [Remotes -> Sizes]
    /\ Root # Elsewhere
    /\ NoFile # Partial /\ {NoFile, Partial} \cap Remotes = {}
    /\ Earlier \subseteq [Dirs -> [Names -> Remotes \cup {NoFile, Partial}]]
    /\ \A left \in Earlier, d \in Dirs, n \in Names : left[d][n] \in Remotes => NameOf[left[d][n]] = n
    /\ MaxRequests \in Nat /\ MaxFaults \in Nat

VARIABLES
    download,   \* download_status: how far the client is with a remote file
    refused,    \* refusals not yet taken by take_failed_downloads
    disk,       \* directory -> base name -> what is there
    registry,   \* BackendState::transfers
    poll,       \* the sync loop's list() and its locals
    req,        \* the handlers
    finished,   \* remote files the client has had complete
    everRefused,\* remote files a peer has refused
    budget

client == <<download, refused, finished, everRefused>>
vars == <<client, disk, registry, poll, req, budget>>

Absent == [state |-> "none"]
Forgotten == [state |-> "forgotten"]

Record == [state : TransferState, remote : Remotes, dir : Dirs, delivered : BOOLEAN]

Idle == [pc |-> "idle"]

NotPolling == [pc |-> "idle", failures |-> {}, status |-> [r \in Remotes |-> "none"], todo |-> {}]

Init ==
    /\ download = [r \in Remotes |-> "none"]
    /\ refused = {} /\ finished = {} /\ everRefused = {}
    /\ disk \in Earlier
    /\ registry = [id \in Ids |-> Absent]
    /\ poll = NotPolling
    /\ req = [c \in Clients |-> Idle]
    /\ budget = [requests |-> MaxRequests, faults |-> MaxFaults]

Spend(kind) ==
    /\ budget[kind] > 0
    /\ budget' = [budget EXCEPT ![kind] = @ - 1]

Known == {id \in Ids : registry[id] \notin {Absent, Forgotten}}

\* list() holds the lock from its first transfer to its last.
Unlocked == poll.pc # "reconcile"

-----------------------------------------------------------------------------
(* The native client (external). *)

ClientProgress(r) ==
    /\ \/ download[r] = "queued" /\ download' = [download EXCEPT ![r] = "partial"]
          /\ disk' = [disk EXCEPT ![Root][NameOf[r]] = Partial]
          /\ UNCHANGED finished
       \/ download[r] = "partial" /\ download' = [download EXCEPT ![r] = "full"]
          /\ disk' = [disk EXCEPT ![Root][NameOf[r]] = r]
          /\ finished' = finished \cup {r}
       \/ download[r] = "full" /\ download' = [download EXCEPT ![r] = "none"]
          /\ UNCHANGED <<disk, finished>>
    /\ UNCHANGED <<refused, everRefused, registry, poll, req, budget>>

\* UploadFailed from the peer.
ClientRefused(r) ==
    /\ download[r] = "queued"
    /\ download' = [download EXCEPT ![r] = "none"]
    /\ refused' = refused \cup {r} /\ everRefused' = everRefused \cup {r}
    /\ UNCHANGED <<disk, registry, poll, req, finished, budget>>

\* Others take a file away: the organizer moves completed ones into the library, the
\* user does as they please.  Nobody touches a file that the client is writing.
TakeAway(d, n) ==
    /\ disk[d][n] # NoFile
    /\ d = Root => \A r \in Remotes : NameOf[r] = n => download[r] # "partial"
    /\ disk' = [disk EXCEPT ![d][n] = NoFile]
    /\ Spend("faults")
    /\ UNCHANGED <<client, registry, poll, req>>

-----------------------------------------------------------------------------
(* add, cancel and forget. *)

Taken == {id \in Ids : registry[id] # Absent \/ \E c \in Clients : req[c].pc # "idle" /\ req[c].id = id}

\* TransferId::new: no id is given twice; which one it is makes no difference.
New(id) == id \notin Taken /\ \A other \in Ids : other < id => other \in Taken

\* add: client.download is awaited before the transfer is registered.
Download(c, id, r, d) ==
    /\ req[c].pc = "idle" /\ New(id)
    /\ Spend("requests")
    /\ download' = [download EXCEPT ![r] = IF @ \in {"none", "full"} THEN "queued" ELSE @]
    /\ req' = [req EXCEPT ![c] = [pc |-> "insert", id |-> id, remote |-> r, dir |-> d]]
    /\ UNCHANGED <<refused, finished, everRefused, disk, registry, poll>>

Insert(c) ==
    /\ req[c].pc = "insert" /\ Unlocked
    /\ registry' = [registry EXCEPT ![req[c].id] =
           [state |-> "queued", remote |-> req[c].remote, dir |-> req[c].dir, delivered |-> FALSE]]
    /\ req' = [req EXCEPT ![c] = Idle]
    /\ UNCHANGED <<client, disk, poll, budget>>

\* cancel: the state is set under the lock, the client is told afterwards.
Cancel(c, id) ==
    /\ req[c].pc = "idle" /\ id \in Known /\ Unlocked
    /\ Spend("requests")
    /\ registry' = [registry EXCEPT ![id].state = "cancelled"]
    /\ req' = [req EXCEPT ![c] = [pc |-> "stop", id |-> id, remote |-> registry[id].remote]]
    /\ UNCHANGED <<client, disk, poll>>

\* client.cancel is given the path alone, not the peer; with delete_data it removes
\* the file from the download root (external).
Stop(c) ==
    /\ req[c].pc = "stop"
    /\ LET stopped == {r \in Remotes : PathOf[r] = PathOf[req[c].remote]} IN
          download' = [r \in Remotes |-> IF r \in stopped THEN "none" ELSE download[r]]
    /\ \E delete_data \in BOOLEAN :
          disk' = IF delete_data THEN [disk EXCEPT ![Root][NameOf[req[c].remote]] = NoFile] ELSE disk
    /\ req' = [req EXCEPT ![c] = Idle]
    /\ UNCHANGED <<refused, finished, everRefused, registry, poll, budget>>

Forget(id) ==
    /\ id \in Known /\ Unlocked
    /\ Spend("requests")
    /\ registry' = [registry EXCEPT ![id] = Forgotten]
    /\ UNCHANGED <<client, disk, poll, req>>

-----------------------------------------------------------------------------
(* list. *)

\* take_failed_downloads; without any the registry is not locked.
Drain ==
    /\ poll.pc = "idle"
    /\ poll' = [poll EXCEPT !.pc = IF refused = {} THEN "status" ELSE "absorb", !.failures = refused]
    /\ refused' = {}
    /\ UNCHANGED <<download, finished, everRefused, disk, registry, req, budget>>

\* Mutant: the peer of the refused file is not compared.
RefusedByName(id) ==
    /\ registry[id].state \in {"queued", "downloading"}
    /\ \E r \in poll.failures : NameOf[r] = NameOf[registry[id].remote]

\* A refusal concerns the live transfers of that peer's file.
Refuses(id) ==
    /\ registry[id].state \in {"queued", "downloading"}
    /\ registry[id].remote \in poll.failures

\* apply_failed_transfers, under the lock.
Absorb ==
    /\ poll.pc = "absorb"
    /\ registry' = [id \in Ids |-> IF Refuses(id) THEN [registry[id] EXCEPT !.state = "failed"]
                                                  ELSE registry[id]]
    /\ poll' = [poll EXCEPT !.pc = "status", !.failures = {}]
    /\ UNCHANGED <<client, disk, req, budget>>

\* download_status is copied before the lock is taken.
CopyStatus ==
    /\ poll.pc = "status"
    /\ poll' = [poll EXCEPT !.pc = "lock", !.status = download]
    /\ UNCHANGED <<client, disk, registry, req, budget>>

\* The lock is held for the transfers still to be looked at, then released.
Holding(todo) == IF todo = {} THEN NotPolling ELSE [poll EXCEPT !.pc = "reconcile", !.todo = todo]

Lock ==
    /\ poll.pc = "lock"
    /\ poll' = Holding(Known)
    /\ UNCHANGED <<client, disk, registry, req, budget>>

\* Mutant: any file of that name will do.
PresentAt(on, d, r) == on[d][NameOf[r]] # NoFile

\* A file of the transfer's name and size is there.
CompleteAt(on, d, r) ==
    LET file == on[d][NameOf[r]] IN file \in Remotes /\ SizeOf[file] = SizeOf[r]

\* The transfer's file is at a destination outside the download root.
AtDestination(t) == t.dir # Root /\ CompleteAt(disk, t.dir, t.remote)

\* Mutant: what is at the destination is written over.
DeliverableOver(t) ==
    /\ ~t.delivered /\ t.dir # Root /\ ~AtDestination(t)
    /\ CompleteAt(disk, Root, t.remote)

\* deliver_to_destination has something to move: the file is complete in the
\* root, and nothing of its name is at the destination.
Deliverable(t) ==
    /\ ~t.delivered /\ t.dir # Root
    /\ CompleteAt(disk, Root, t.remote)
    /\ disk[t.dir][NameOf[t.remote]] = NoFile

\* Mutant: the destination is the download root of the client.
MovedNowhere(t) == disk

Moved(t) ==
    [disk EXCEPT ![t.dir][NameOf[t.remote]] = disk[Root][NameOf[t.remote]],
                 ![Root][NameOf[t.remote]] = NoFile]

\* A failed rename changes nothing; the copy that replaces it may end half-way,
\* or be complete with the original still there.
BadlyMoved(t) ==
    {disk} \cup {[disk EXCEPT ![t.dir][NameOf[t.remote]] = file] :
                    file \in {Partial, disk[Root][NameOf[t.remote]]}}

\* reconcile_transfer: the copied status decides; without an entry, the disk.
Reconciled(t, on) ==
    CASE poll.status[t.remote] = "full"    -> "completed"
      [] poll.status[t.remote] = "partial" -> "downloading"
      [] poll.status[t.remote] = "queued"  -> t.state
      [] poll.status[t.remote] = "none"    ->
            IF t.state \notin {"completed", "cancelled", "failed"} /\ CompleteAt(on, t.dir, t.remote)
            THEN "completed" ELSE t.state

\* One turn of the loop over the transfers.
Reconcile(id) ==
    /\ poll.pc = "reconcile" /\ id \in poll.todo
    /\ poll' = Holding(poll.todo \ {id})
    /\ LET t == registry[id] IN
       \E moved \in BOOLEAN :
          /\ moved => Deliverable(t)
          /\ IF moved THEN disk' = Moved(t) /\ UNCHANGED budget
             ELSE IF Deliverable(t) THEN disk' \in BadlyMoved(t) /\ Spend("faults")
             ELSE UNCHANGED <<disk, budget>>
          /\ registry' = [registry EXCEPT ![id] =
                 [t EXCEPT !.state = Reconciled(t, disk'),
                           !.delivered = @ \/ moved \/ AtDestination(t)]]
    /\ UNCHANGED <<client, req>>

Poll == Drain \/ Absorb \/ CopyStatus \/ Lock \/ (\E id \in Ids : Reconcile(id))

Handle(c) == Insert(c) \/ Stop(c)

Next ==
    \/ Poll
    \/ \E c \in Clients : Handle(c)
    \/ \E c \in Clients, id \in Ids : Cancel(c, id) \/ \E r \in Remotes, d \in Dirs : Download(c, id, r, d)
    \/ \E id \in Ids : Forget(id)
    \/ \E r \in Remotes : ClientProgress(r) \/ ClientRefused(r)
    \/ \E d \in Dirs, n \in Names : TakeAway(d, n)

Spec == Init /\ [][Next]_vars

\* The sync loop ticks for ever; nothing is assumed of handlers, peers and others.
FairSpec == Spec /\ WF_vars(Poll)

-----------------------------------------------------------------------------
(* Properties. *)

Phases == {"none", "queued", "partial", "full"}

\* Type invariant.  Only a transfer bound elsewhere is ever delivered.
TypeOK ==
    /\ download \in [Remotes -> Phases]
    /\ refused \subseteq everRefused /\ everRefused \subseteq Remotes /\ finished \subseteq Remotes
    /\ disk \in [Dirs -> [Names -> Remotes \cup {NoFile, Partial}]]
    /\ \A id \in Known : registry[id] \in Record
    /\ \A id \in Known : registry[id].delivered => registry[id].dir # Root
    /\ poll.pc \in {"idle", "absorb", "status", "lock", "reconcile"}
    /\ poll.failures \subseteq everRefused /\ poll.todo \subseteq Known
    /\ poll.status \in [Remotes -> Phases]
    /\ \A c \in Clients : req[c].pc \in {"idle", "insert", "stop"}
    /\ budget \in [{"requests", "faults"} -> Nat]

\* A transfer becomes completed only if the client has had its peer's own file
\* complete, or a complete file of its name and size lies at its own destination,
\* whoever put it there (native_backend.rs 447-468: it may be of an earlier run, as
\* in the test at 524-545, or another peer's).  A refused or cancelled download, a
\* half-copied file, or one that has not left the download root is never passed on to
\* post-processing, however old the status the poll works with.
CompletedIsBacked ==
    [][\A id \in Ids :
          LET t == registry'[id]
              Lies(r) == disk'[t.dir][NameOf[t.remote]] = r /\ SizeOf[r] = SizeOf[t.remote]
          IN  registry[id].state # "completed" /\ t.state = "completed" =>
                 t.remote \in finished \/ \E r \in Remotes : Lies(r)]_vars

\* A transfer is failed only by a refusal of its own peer, however many peers
\* share a file of the same name (native_backend.rs 344-374).
FailedIsRefused ==
    \A id \in Known : registry[id].state = "failed" => registry[id].remote \in everRefused

\* Only others change what is at a destination already: no poll overwrites or removes
\* it, no request does, and neither does the client, which writes to the root alone.
DeliveryKeepsFiles ==
    [][\A n \in Names : disk[Elsewhere][n] # NoFile =>
           disk'[Elsewhere][n] = disk[Elsewhere][n] \/ TakeAway(Elsewhere, n)]_vars

\* Nobody else wants, asks for or downloads a file of the transfer's base name, and
\* its own file is at its destination, or in the download root with nothing in its
\* way; if it had been delivered before, nobody has taken anything away.
Uncontested(id) ==
    LET t == registry[id]
        n == NameOf[t.remote]
    IN  /\ \A other \in Known \ {id} : NameOf[registry[other].remote] # n
        /\ \A c \in Clients : req[c].pc = "insert" => NameOf[req[c].remote] # n
        /\ \A r \in Remotes \ {t.remote} : NameOf[r] = n => download[r] = "none"
        /\ \/ disk[t.dir][n] = t.remote
           \/ disk[t.dir][n] = NoFile /\ disk[Root][n] = t.remote /\ (t.delivered => budget.faults = MaxFaults)

\* A registered download that finishes is reported completed sooner or later,
\* even if the client stops reporting it before the backend has looked, unless
\* it is cancelled, removed or refused before, or its file name is contested.
FinishedIsReported ==
    \A id \in Ids :
        (id \in Known /\ registry[id].state \in {"queued", "downloading"}
           /\ download[registry[id].remote] = "full")
        ~> (registry[id].state \in {"queued", "downloading"} => ~Uncontested(id))
=============================================================================

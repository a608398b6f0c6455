------------------------- MODULE SoulseekBackendProofs -------------------------
(***************************************************************************)
(* For any transfers, remote files, names, sizes, handlers and bounds:     *)
(* nothing is completed or failed without cause, and delivery keeps what   *)
(* is at a destination.                                                    *)
(***************************************************************************)
EXTENDS SoulseekBackend, TLAPS

RequestTypes ==
    {Idle} \cup [pc : {"insert"}, id : Ids, remote : Remotes, dir : Dirs]
           \cup [pc : {"stop"}, id : Ids, remote : Remotes]

Types ==
    /\ download \in [Remotes -> Phases]
    /\ refused \subseteq Remotes /\ finished \subseteq Remotes
    /\ disk \in [Dirs -> [Names -> Remotes \cup {NoFile, Partial}]]
    /\ registry \in [Ids -> {Absent, Forgotten} \cup Record]
    /\ poll \in [pc : {"idle", "absorb", "status", "lock", "reconcile"}, failures : SUBSET Remotes,
                 status : [Remotes -> Phases], todo : SUBSET Ids]
    /\ req \in [Clients -> RequestTypes]

\* The lock protects the transfers still to be looked at.
Locked ==
    /\ poll.todo \subseteq Known
    /\ poll.pc # "reconcile" => poll.todo = {}

\* A status that says full, however old, was true.
StatusBacked == \A r \in Remotes : download[r] = "full" \/ poll.status[r] = "full" => r \in finished

\* A refusal is a peer's, wherever it waits.
RefusalsReal == refused \subseteq everRefused /\ poll.failures \subseteq everRefused

IInv ==
    /\ Types /\ Locked /\ StatusBacked /\ RefusalsReal
    /\ FailedIsRefused

-----------------------------------------------------------------------------

LEMMA Given ==
    /\ NameOf \in [Remotes -> Names] /\ Root # Elsewhere /\ Dirs = {Root, Elsewhere}
    /\ NoFile \notin Remotes /\ Partial \notin Remotes /\ NoFile # Partial
    /\ {"none", "forgotten"} \cap TransferState = {} /\ Absent.state = "none" /\ Forgotten.state = "forgotten"
    /\ Absent \notin Record /\ Forgotten \notin Record
    /\ Earlier \subseteq [Dirs -> [Names -> Remotes \cup {NoFile, Partial}]]
BY BackendAssumption DEF Dirs, TransferState, Absent, Forgotten, Record

LEMMA InitIInv == Init => IInv
<1> SUFFICES ASSUME Init PROVE IInv
  OBVIOUS
<1>1. Types
  BY Given DEF Init, Types, NotPolling, Idle, RequestTypes, Phases
<1>2. Known = {}
  BY DEF Init, Known
<1>3. Locked /\ StatusBacked /\ RefusalsReal /\ FailedIsRefused
  BY <1>2 DEF Init, Locked, StatusBacked, RefusalsReal, FailedIsRefused, NotPolling
<1> QED BY <1>1, <1>3 DEF IInv

LEMMA Registered == ASSUME Types PROVE Known \subseteq Ids /\ \A id \in Known : registry[id] \in Record
BY Given DEF Types, Known

\* The request of a handler that is somewhere.
LEMMA Requested ==
    ASSUME Types, NEW c \in Clients
    PROVE  /\ req[c].pc = "insert" => req[c].id \in Ids /\ req[c].remote \in Remotes /\ req[c].dir \in Dirs
           /\ req[c].pc = "stop" => req[c].remote \in Remotes
BY DEF Types, RequestTypes, Idle

\* Steps that leave the registry alone keep what is said of it.
LEMMA Causes ==
    ASSUME IInv, UNCHANGED registry, everRefused \subseteq everRefused'
    PROVE  FailedIsRefused'
BY DEF IInv, FailedIsRefused, Known

-----------------------------------------------------------------------------
(* The client. *)

LEMMA ProgressInv == ASSUME NEW r \in Remotes, IInv, ClientProgress(r) PROVE IInv'
<1>1. /\ UNCHANGED <<refused, everRefused, registry, poll, req, budget>>
      /\ Types /\ Locked /\ StatusBacked /\ RefusalsReal
      /\ NameOf[r] \in Names /\ Root \in Dirs
  BY Given DEF ClientProgress, IInv
<1>2. \/ /\ download' = [download EXCEPT ![r] = "partial"]
         /\ disk' = [disk EXCEPT ![Root][NameOf[r]] = Partial] /\ finished' = finished
      \/ /\ download' = [download EXCEPT ![r] = "full"]
         /\ disk' = [disk EXCEPT ![Root][NameOf[r]] = r] /\ finished' = finished \cup {r}
      \/ download' = [download EXCEPT ![r] = "none"] /\ UNCHANGED <<disk, finished>>
  BY DEF ClientProgress
<1>3. /\ download' \in [Remotes -> Phases] /\ finished' \subseteq Remotes /\ finished \subseteq finished'
      /\ disk' \in [Dirs -> [Names -> Remotes \cup {NoFile, Partial}]]
      /\ \A q \in Remotes : download'[q] = "full" => q \in finished'
  <2>1. /\ download \in [Remotes -> Phases] /\ finished \subseteq Remotes
        /\ disk \in [Dirs -> [Names -> Remotes \cup {NoFile, Partial}]]
        /\ \A q \in Remotes : download[q] = "full" => q \in finished
        /\ {"none", "partial", "full"} \subseteq Phases
    BY <1>1 DEF Types, StatusBacked, Phases
  <2>2. download' \in [Remotes -> Phases]
    BY <1>2, <2>1
  <2>3. finished' \subseteq Remotes /\ finished \subseteq finished'
    BY <1>2, <2>1
  <2>4. disk' \in [Dirs -> [Names -> Remotes \cup {NoFile, Partial}]]
    BY <1>1, <1>2, <2>1
  <2>5. \A q \in Remotes : download'[q] = "full" => q \in finished'
    BY <1>2, <2>1
  <2> QED BY <2>2, <2>3, <2>4, <2>5
<1>5. Types' /\ Locked' /\ RefusalsReal'
  <2>1. Types'
    BY <1>1, <1>3 DEF Types
  <2>2. Locked' /\ RefusalsReal'
    BY <1>1 DEF Locked, RefusalsReal, Known
  <2> QED BY <2>1, <2>2
<1>7. StatusBacked'
  BY <1>1, <1>3 DEF StatusBacked
<1> QED BY <1>1, <1>3, <1>5, <1>7, Causes DEF IInv

LEMMA RefusedInv == ASSUME NEW r \in Remotes, IInv, ClientRefused(r) PROVE IInv'
<1>1. /\ UNCHANGED <<disk, registry, poll, req, finished, budget>>
      /\ download' = [download EXCEPT ![r] = "none"]
      /\ refused' = refused \cup {r} /\ everRefused' = everRefused \cup {r}
      /\ Types /\ Locked /\ StatusBacked /\ RefusalsReal
  BY DEF ClientRefused, IInv
<1>2. Types'
  BY <1>1 DEF Types, Phases
<1>3. Locked' /\ RefusalsReal'
  BY <1>1 DEF Locked, RefusalsReal, Known
<1>4. StatusBacked'
  BY <1>1 DEF Types, StatusBacked
<1> QED BY <1>1, <1>2, <1>3, <1>4, Causes DEF IInv

LEMMA TakeAwayInv == ASSUME NEW d \in Dirs, NEW n \in Names, IInv, TakeAway(d, n) PROVE IInv'
<1>1. /\ UNCHANGED <<client, registry, poll, req>>
      /\ disk' = [disk EXCEPT ![d][n] = NoFile]
      /\ Types /\ Locked /\ StatusBacked /\ RefusalsReal
  BY DEF TakeAway, IInv
<1>2. Types'
  BY <1>1 DEF Types, client
<1>3. Locked' /\ StatusBacked' /\ RefusalsReal'
  BY <1>1 DEF Locked, StatusBacked, RefusalsReal, Known, client
<1> QED BY <1>1, <1>2, <1>3, Causes DEF IInv, client

-----------------------------------------------------------------------------
(* The handlers. *)

LEMMA DownloadInv ==
    ASSUME NEW c \in Clients, NEW id \in Ids, NEW r \in Remotes, NEW d \in Dirs, IInv, Download(c, id, r, d)
    PROVE  IInv'
<1>1. /\ UNCHANGED <<refused, finished, everRefused, disk, registry, poll>>
      /\ download' = [download EXCEPT ![r] = IF @ \in {"none", "full"} THEN "queued" ELSE @]
      /\ req' = [req EXCEPT ![c] = [pc |-> "insert", id |-> id, remote |-> r, dir |-> d]]
      /\ Types /\ Locked /\ StatusBacked /\ RefusalsReal
  BY DEF Download, IInv
<1>2. Types'
  <2>1. download' \in [Remotes -> Phases]
    BY <1>1 DEF Types, Phases
  <2>2. req' \in [Clients -> RequestTypes]
    BY <1>1 DEF Types, RequestTypes
  <2> QED BY <1>1, <2>1, <2>2 DEF Types
<1>3. Locked' /\ RefusalsReal'
  BY <1>1 DEF Locked, RefusalsReal, Known
<1>4. StatusBacked'
  BY <1>1 DEF Types, StatusBacked
<1> QED BY <1>1, <1>2, <1>3, <1>4, Causes DEF IInv

LEMMA InsertInv == ASSUME NEW c \in Clients, IInv, Insert(c) PROVE IInv'
<1> DEFINE id == req[c].id
           t == [state |-> "queued", remote |-> req[c].remote, dir |-> req[c].dir, delivered |-> FALSE]
<1>1. /\ UNCHANGED <<client, disk, poll, budget>> /\ poll.pc # "reconcile"
      /\ registry' = [registry EXCEPT ![id] = t] /\ req' = [req EXCEPT ![c] = Idle]
      /\ Types /\ Locked /\ StatusBacked /\ RefusalsReal
  BY DEF Insert, IInv, Unlocked
<1>2. id \in Ids /\ t \in Record /\ t.state = "queued"
  BY <1>1, Requested DEF Insert, Record, TransferState
<1>3. Types'
  <2>1. registry' \in [Ids -> {Absent, Forgotten} \cup Record]
    <3> HIDE DEF id, t
    <3> QED BY <1>1, <1>2 DEF Types
  <2>2. req' \in [Clients -> RequestTypes]
    BY <1>1 DEF Types, RequestTypes
  <2> QED BY <1>1, <2>1, <2>2 DEF Types, client
<1>4. \A other \in Ids : registry'[other] = registry[other] \/ registry'[other].state = "queued"
  <2> HIDE DEF id, t
  <2> QED BY <1>1, <1>2 DEF Types
<1>5. FailedIsRefused'
  BY <1>1, <1>4 DEF IInv, FailedIsRefused, Known, client
<1>6. Locked' /\ StatusBacked' /\ RefusalsReal'
  BY <1>1 DEF Locked, StatusBacked, RefusalsReal, client
<1> QED BY <1>3, <1>5, <1>6 DEF IInv

LEMMA CancelInv == ASSUME NEW c \in Clients, NEW id \in Ids, IInv, Cancel(c, id) PROVE IInv'
<1>1. /\ UNCHANGED <<client, disk, poll>> /\ poll.pc # "reconcile" /\ id \in Known
      /\ registry' = [registry EXCEPT ![id].state = "cancelled"]
      /\ req' = [req EXCEPT ![c] = [pc |-> "stop", id |-> id, remote |-> registry[id].remote]]
      /\ Types /\ Locked /\ StatusBacked /\ RefusalsReal
  BY DEF Cancel, IInv, Unlocked
<1>2. registry[id] \in Record
  BY <1>1, Registered
<1>3. /\ registry' \in [Ids -> {Absent, Forgotten} \cup Record]
      /\ \A other \in Ids : registry'[other] = registry[other] \/ registry'[other].state = "cancelled"
  BY <1>1, <1>2 DEF Types, Record, TransferState
<1>4. req' \in [Clients -> RequestTypes]
  BY <1>1, <1>2 DEF Types, RequestTypes, Record
<1>5. Types'
  BY <1>1, <1>3, <1>4 DEF Types, client
<1>6. FailedIsRefused'
  BY <1>1, <1>3 DEF IInv, FailedIsRefused, Known, client
<1>7. Locked' /\ StatusBacked' /\ RefusalsReal'
  BY <1>1 DEF Locked, StatusBacked, RefusalsReal, client
<1> QED BY <1>5, <1>6, <1>7 DEF IInv

LEMMA StopInv == ASSUME NEW c \in Clients, IInv, Stop(c) PROVE IInv'
<1>1. /\ UNCHANGED <<refused, finished, everRefused, registry, poll, budget>>
      /\ req' = [req EXCEPT ![c] = Idle]
      /\ disk' \in {disk, [disk EXCEPT ![Root][NameOf[req[c].remote]] = NoFile]}
      /\ \E stopped \in SUBSET Remotes :
            download' = [r \in Remotes |-> IF r \in stopped THEN "none" ELSE download[r]]
      /\ Types /\ Locked /\ StatusBacked /\ RefusalsReal
  BY DEF Stop, IInv
<1>2. download' \in [Remotes -> Phases] /\ \A r \in Remotes : download'[r] = "full" => download[r] = "full"
  BY <1>1 DEF Types, Phases
<1>3. req' \in [Clients -> RequestTypes]
  BY <1>1 DEF Types, RequestTypes
<1>4. Types'
  <2>1. NameOf[req[c].remote] \in Names /\ Root \in Dirs
    BY <1>1, Requested, Given DEF Stop
  <2>2. disk' \in [Dirs -> [Names -> Remotes \cup {NoFile, Partial}]]
    <3>1. disk \in [Dirs -> [Names -> Remotes \cup {NoFile, Partial}]]
      BY <1>1 DEF Types
    <3>2. CASE disk' = disk
      BY <3>1, <3>2
    <3>3. ASSUME NEW n \in Names, disk' = [disk EXCEPT ![Root][n] = NoFile]
          PROVE  disk' \in [Dirs -> [Names -> Remotes \cup {NoFile, Partial}]]
      BY <3>1, <3>3, <2>1
    <3> QED BY <1>1, <2>1, <3>2, <3>3
  <2> QED BY <1>1, <1>2, <1>3, <2>2 DEF Types
<1>5. Locked' /\ RefusalsReal' /\ StatusBacked'
  BY <1>1, <1>2 DEF Locked, RefusalsReal, StatusBacked, Known
<1> QED BY <1>1, <1>4, <1>5, Causes DEF IInv

LEMMA ForgetInv == ASSUME NEW id \in Ids, IInv, Forget(id) PROVE IInv'
<1>1. /\ UNCHANGED <<client, disk, poll, req>> /\ poll.pc # "reconcile"
      /\ registry' = [registry EXCEPT ![id] = Forgotten]
      /\ Types /\ Locked /\ StatusBacked /\ RefusalsReal
  BY DEF Forget, IInv, Unlocked
<1>2. /\ registry' \in [Ids -> {Absent, Forgotten} \cup Record]
      /\ \A other \in Ids : registry'[other] = registry[other] \/ registry'[other] = Forgotten
  BY <1>1, Given DEF Types
<1>3. Types'
  BY <1>1, <1>2 DEF Types, client
<1>4. FailedIsRefused'
  BY <1>1, <1>2 DEF IInv, FailedIsRefused, Known, client
<1>5. Locked' /\ StatusBacked' /\ RefusalsReal'
  BY <1>1 DEF Locked, StatusBacked, RefusalsReal, client
<1> QED BY <1>3, <1>4, <1>5 DEF IInv

-----------------------------------------------------------------------------
(* list. *)

LEMMA DrainInv == IInv /\ Drain => IInv'
<1> SUFFICES ASSUME IInv, Drain PROVE IInv'
  OBVIOUS
<1>1. /\ UNCHANGED <<download, finished, everRefused, disk, registry, req, budget>>
      /\ poll.pc = "idle" /\ poll' = [poll EXCEPT !.pc = IF refused = {} THEN "status" ELSE "absorb", !.failures = refused] /\ refused' = {}
      /\ Types /\ Locked /\ StatusBacked /\ RefusalsReal
  BY DEF Drain, IInv
<1>2. Types' /\ poll'.todo = poll.todo /\ poll'.pc # "reconcile" /\ poll'.failures = refused /\ poll'.status = poll.status
  BY <1>1 DEF Types
<1>3. Locked' /\ StatusBacked' /\ RefusalsReal'
  BY <1>1, <1>2 DEF Locked, StatusBacked, RefusalsReal, Known
<1> QED BY <1>1, <1>2, <1>3, Causes DEF IInv

LEMMA AbsorbInv == IInv /\ Absorb => IInv'
<1> SUFFICES ASSUME IInv, Absorb PROVE IInv'
  OBVIOUS
<1>1. /\ UNCHANGED <<client, disk, req, budget>> /\ poll.pc = "absorb"
      /\ registry' = [id \in Ids |-> IF Refuses(id) THEN [registry[id] EXCEPT !.state = "failed"]
                                                    ELSE registry[id]]
      /\ poll' = [poll EXCEPT !.pc = "status", !.failures = {}]
      /\ Types /\ Locked /\ StatusBacked /\ RefusalsReal
  BY DEF Absorb, IInv
<1>2. \A id \in Ids : Refuses(id) => registry[id] \in Record /\ registry[id].remote \in everRefused
  BY <1>1, Given DEF Types, Refuses, RefusalsReal
<1>3. \A id \in Ids :
          \/ registry'[id] = registry[id]
          \/ /\ registry'[id] \in Record /\ registry'[id].state = "failed"
             /\ registry'[id].remote \in everRefused /\ id \in Known
  BY <1>1, <1>2, Given DEF Record, TransferState, Known, Refuses
<1>4. registry' \in [Ids -> {Absent, Forgotten} \cup Record]
  BY <1>1, <1>3 DEF Types
<1>5. Types' /\ poll'.todo = poll.todo /\ poll'.pc = "status" /\ poll'.failures = {} /\ poll'.status = poll.status
  BY <1>1, <1>4 DEF Types, client
<1>6. FailedIsRefused'
  <2>1. everRefused' = everRefused /\ FailedIsRefused
    BY <1>1 DEF IInv, client
  <2>2. \A id \in Known' : id \in Known
    BY <1>3 DEF Known
  <2>4. FailedIsRefused'
    BY <1>3, <2>1, <2>2 DEF FailedIsRefused, Known
  <2> QED BY <2>4
<1>7. Locked' /\ StatusBacked' /\ RefusalsReal'
  BY <1>1, <1>5 DEF Locked, StatusBacked, RefusalsReal, client
<1> QED BY <1>5, <1>6, <1>7 DEF IInv

LEMMA CopyInv == IInv /\ (CopyStatus \/ Lock) => IInv'
<1> SUFFICES ASSUME IInv, CopyStatus \/ Lock PROVE IInv'
  OBVIOUS
<1>1. /\ UNCHANGED <<client, disk, registry, req, budget>>
      /\ Types /\ Locked /\ StatusBacked /\ RefusalsReal
  BY DEF CopyStatus, Lock, IInv
<1>2. /\ poll' \in [pc : {"idle", "absorb", "status", "lock", "reconcile"}, failures : SUBSET Remotes,
                    status : [Remotes -> Phases], todo : SUBSET Ids]
      /\ poll'.failures \subseteq poll.failures
      /\ \A r \in Remotes : poll'.status[r] = "full" => download[r] = "full" \/ poll.status[r] = "full"
      /\ poll'.todo \subseteq Known
      /\ poll'.pc # "reconcile" => poll'.todo = {}
  <2>1. CASE CopyStatus
    BY <1>1, <2>1 DEF CopyStatus, Types, Locked
  <2>2. CASE Lock
    BY <1>1, <2>2, Registered DEF Lock, Holding, NotPolling, Types, Locked, Phases
  <2> QED BY <2>1, <2>2
<1>3. Types'
  BY <1>1, <1>2 DEF Types, client
<1>4. Locked' /\ StatusBacked' /\ RefusalsReal'
  BY <1>1, <1>2 DEF Locked, StatusBacked, RefusalsReal, Known, client
<1> QED BY <1>1, <1>3, <1>4, Causes DEF IInv, client

\* What delivery does to the disk, in full or half-way: files move only to where
\* nothing was.
LEMMA Delivery ==
    ASSUME Types, NEW t \in Record, Deliverable(t),
           disk' = Moved(t) \/ disk' \in BadlyMoved(t)
    PROVE  /\ disk' \in [Dirs -> [Names -> Remotes \cup {NoFile, Partial}]]
           /\ \A n \in Names : disk[Elsewhere][n] # NoFile => disk'[Elsewhere][n] = disk[Elsewhere][n]
<1> DEFINE n == NameOf[t.remote]
           file == disk[Root][n]
<1>1. /\ n \in Names /\ t.dir \in Dirs /\ t.dir # Root /\ Root \in Dirs
      /\ file \in Remotes /\ disk[t.dir][n] = NoFile 
      /\ disk \in [Dirs -> [Names -> Remotes \cup {NoFile, Partial}]]
  BY Given DEF Record, Deliverable, CompleteAt, Types
<1>2. \/ disk' = disk
      \/ \E new \in {Partial, file} : disk' = [disk EXCEPT ![t.dir][n] = new]
      \/ disk' = [disk EXCEPT ![t.dir][n] = file, ![Root][n] = NoFile]
  BY DEF Moved, BadlyMoved
<1> HIDE DEF n, file
<1>3. /\ disk' \in [Dirs -> [Names -> Remotes \cup {NoFile, Partial}]]
      /\ \A d \in Dirs, m \in Names :
            \/ disk'[d][m] = disk[d][m]
            \/ d = t.dir /\ m = n /\ disk'[d][m] \in {Partial, file}
            \/ d = Root /\ disk'[d][m] = NoFile
  <2>1. ASSUME NEW new \in {Partial, file}, disk' = [disk EXCEPT ![t.dir][n] = new]
        PROVE  <1>3!:
    BY <1>1, <2>1
  <2>2. CASE disk' = [disk EXCEPT ![t.dir][n] = file, ![Root][n] = NoFile]
    BY <1>1, <2>2
  <2>3. CASE disk' = disk
    BY <1>1, <2>3
  <2> QED BY <1>2, <2>1, <2>2, <2>3
<1>5. \A m \in Names : disk[Elsewhere][m] # NoFile => disk'[Elsewhere][m] = disk[Elsewhere][m]
  BY <1>1, <1>3, Given
<1> QED BY <1>3, <1>5

\* One turn: the disk and the state the transfer gets.
LEMMA Turn ==
    ASSUME NEW id \in Ids, IInv, Reconcile(id)
    PROVE  /\ disk' \in [Dirs -> [Names -> Remotes \cup {NoFile, Partial}]]
           /\ \A n \in Names : disk[Elsewhere][n] # NoFile => disk'[Elsewhere][n] = disk[Elsewhere][n]
           /\ registry[id] \in Record /\ id \in Known
           /\ \E delivered \in BOOLEAN :
                 registry' = [registry EXCEPT ![id] =
                     [registry[id] EXCEPT !.state = Reconciled(registry[id], disk'), !.delivered = delivered]]
<1>1. Types /\ id \in Known /\ registry[id] \in Record
  BY Registered DEF IInv, Locked, Reconcile
<1>2. PICK moved \in BOOLEAN :
          /\ moved => Deliverable(registry[id])
          /\ IF moved THEN disk' = Moved(registry[id]) /\ UNCHANGED budget
             ELSE IF Deliverable(registry[id]) THEN disk' \in BadlyMoved(registry[id]) /\ Spend("faults")
             ELSE UNCHANGED <<disk, budget>>
          /\ registry' = [registry EXCEPT ![id] =
                 [registry[id] EXCEPT !.state = Reconciled(registry[id], disk'),
                           !.delivered = @ \/ moved \/ AtDestination(registry[id])]]
  BY DEF Reconcile
<1>3. (registry[id].delivered \/ moved \/ AtDestination(registry[id])) \in BOOLEAN
  OBVIOUS
<1>4. \E delivered \in BOOLEAN :
          registry' = [registry EXCEPT ![id] =
              [registry[id] EXCEPT !.state = Reconciled(registry[id], disk'), !.delivered = delivered]]
  <2> DEFINE delivered == registry[id].delivered \/ moved \/ AtDestination(registry[id])
  <2>1. delivered \in BOOLEAN /\ registry' = [registry EXCEPT ![id] =
              [registry[id] EXCEPT !.state = Reconciled(registry[id], disk'), !.delivered = delivered]]
    BY <1>2, <1>3
  <2> HIDE DEF delivered
  <2> QED BY <2>1
<1>5. CASE Deliverable(registry[id])
  <2>1. disk' = Moved(registry[id]) \/ disk' \in BadlyMoved(registry[id])
    BY <1>2, <1>5
  <2>2. /\ disk' \in [Dirs -> [Names -> Remotes \cup {NoFile, Partial}]]
        /\ \A n \in Names : disk[Elsewhere][n] # NoFile => disk'[Elsewhere][n] = disk[Elsewhere][n]
    BY <1>1, <1>5, <2>1, Delivery
  <2> QED BY <1>1, <1>4, <2>2
<1>6. CASE ~Deliverable(registry[id])
  <2>1. disk' = disk
    BY <1>2, <1>6
  <2>2. /\ disk' \in [Dirs -> [Names -> Remotes \cup {NoFile, Partial}]]
        /\ \A n \in Names : disk[Elsewhere][n] # NoFile => disk'[Elsewhere][n] = disk[Elsewhere][n]
    BY <1>1, <2>1 DEF Types
  <2> QED BY <1>1, <1>4, <2>2
<1> QED BY <1>5, <1>6

\* The transfer after its turn: only its state and its delivery have changed.
LEMMA Turned ==
    ASSUME NEW id \in Ids, IInv, Reconcile(id)
    PROVE  /\ registry' \in [Ids -> {Absent, Forgotten} \cup Record]
           /\ registry'[id] \in Record
           /\ registry'[id].state = Reconciled(registry[id], disk')
           /\ registry'[id].state \in {registry[id].state, "completed", "downloading"}
           /\ registry'[id].remote = registry[id].remote /\ registry'[id].dir = registry[id].dir
           /\ \A other \in Ids \ {id} : registry'[other] = registry[other]
<1> DEFINE t == registry[id]
           state == Reconciled(t, disk')
<1>1. Types /\ t \in Record
  BY Turn DEF IInv
<1>2. PICK delivered \in BOOLEAN : registry' = [registry EXCEPT ![id] = [t EXCEPT !.state = state, !.delivered = delivered]]
  BY Turn
<1>3. t.remote \in Remotes /\ t.state \in TransferState /\ poll.status[t.remote] \in Phases
  BY <1>1 DEF Record, Types
<1>4. state \in {t.state, "completed", "downloading"}
  BY <1>3 DEF Reconciled, Phases
<1>5. registry \in [Ids -> {Absent, Forgotten} \cup Record]
  BY <1>1 DEF Types
<1> DEFINE new == [t EXCEPT !.state = state, !.delivered = delivered]
<1>6. new \in Record /\ new.state = state /\ new.remote = t.remote /\ new.dir = t.dir
  <2>1. state \in TransferState
    BY <1>3, <1>4 DEF TransferState
  <2> HIDE DEF state
  <2> QED BY <1>1, <2>1 DEF Record
<1>7. registry' = [registry EXCEPT ![id] = new]
  BY <1>2
<1> HIDE DEF new
<1> QED BY <1>4, <1>5, <1>6, <1>7

LEMMA ReconcileInv == ASSUME NEW id \in Ids, IInv, Reconcile(id) PROVE IInv'
<1>1. /\ UNCHANGED <<client, req>> /\ poll' = Holding(poll.todo \ {id})
      /\ Types /\ Locked /\ StatusBacked /\ RefusalsReal
      /\ disk' \in [Dirs -> [Names -> Remotes \cup {NoFile, Partial}]]
      /\ registry[id] \in Record /\ id \in Known /\ poll.todo \subseteq Known
  BY Turn DEF Reconcile, IInv, Locked
<1>2. /\ poll' \in [pc : {"idle", "absorb", "status", "lock", "reconcile"}, failures : SUBSET Remotes,
                    status : [Remotes -> Phases], todo : SUBSET Ids]
      /\ poll'.todo \subseteq poll.todo /\ poll'.failures \subseteq poll.failures
      /\ \A r \in Remotes : poll'.status[r] = "full" => poll.status[r] = "full"
      /\ poll'.pc # "reconcile" => poll'.todo = {}
  BY <1>1 DEF Holding, NotPolling, Types, Phases
<1>3. Types'
  BY <1>1, <1>2, Turned DEF Types, client
<1>4. FailedIsRefused'
  BY <1>1, Turned DEF IInv, FailedIsRefused, Known, client
<1>5. \A other \in Known : other \in Known'
  BY <1>1, Turned, Given DEF Known
<1>6. Locked' /\ StatusBacked' /\ RefusalsReal'
  BY <1>1, <1>2, <1>5 DEF Locked, StatusBacked, RefusalsReal, client
<1> QED BY <1>3, <1>4, <1>6 DEF IInv

-----------------------------------------------------------------------------

LEMMA NextIInv == IInv /\ [Next]_vars => IInv'
<1> SUFFICES ASSUME IInv, [Next]_vars PROVE IInv'
  OBVIOUS
<1>1. CASE Poll
  BY <1>1, DrainInv, AbsorbInv, CopyInv, ReconcileInv DEF Poll
<1>2. CASE \E c \in Clients : Handle(c)
  BY <1>2, InsertInv, StopInv DEF Handle
<1>3. ASSUME NEW c \in Clients, NEW id \in Ids, Cancel(c, id) \/ \E r \in Remotes, d \in Dirs : Download(c, id, r, d)
      PROVE  IInv'
  BY <1>3, CancelInv, DownloadInv
<1>4. CASE \E id \in Ids : Forget(id)
  BY <1>4, ForgetInv
<1>5. CASE \/ \E r \in Remotes : ClientProgress(r) \/ ClientRefused(r)
           \/ \E d \in Dirs, n \in Names : TakeAway(d, n)
  BY <1>5, ProgressInv, RefusedInv, TakeAwayInv
<1>6. CASE UNCHANGED vars
  <2>1. UNCHANGED <<download, refused, finished, everRefused, disk, registry, poll, req>>
    BY <1>6 DEF vars, client
  <2>2. Types' /\ Locked' /\ StatusBacked' /\ RefusalsReal'
    BY <2>1 DEF IInv, Types, Locked, StatusBacked, RefusalsReal, Known
  <2> QED BY <2>1, <2>2, Causes DEF IInv
<1> QED BY <1>1, <1>2, <1>3, <1>4, <1>5, <1>6 DEF Next

-----------------------------------------------------------------------------
(* The rest of the types. *)

DeliveredElsewhere == \A id \in Known : registry[id].delivered => registry[id].dir # Root

Rest == everRefused \subseteq Remotes /\ DeliveredElsewhere /\ budget \in [{"requests", "faults"} -> Nat]

\* Spending leaves the budgets natural numbers.
LEMMA SpendType ==
    ASSUME budget \in [{"requests", "faults"} -> Nat], NEW kind \in {"requests", "faults"}, Spend(kind)
    PROVE  budget' \in [{"requests", "faults"} -> Nat]
BY DEF Spend

LEMMA InitRest == Init => Rest
BY BackendAssumption, Given DEF Init, Rest, DeliveredElsewhere, Known

LEMMA NextRest == IInv /\ Rest /\ [Next]_vars => Rest'
<1> SUFFICES ASSUME IInv, Rest, [Next]_vars PROVE Rest'
  OBVIOUS
<1>1. budget' \in [{"requests", "faults"} -> Nat]
  <2>1. UNCHANGED budget \/ Spend("requests") \/ Spend("faults")
    BY DEF Next, Poll, Handle, Drain, Absorb, CopyStatus, Lock, Reconcile, Insert, Stop, Cancel, Download,
           Forget, ClientProgress, ClientRefused, TakeAway, vars
  <2> QED BY <2>1, SpendType DEF Rest
<1>2. everRefused' \subseteq Remotes
  <2>1. ASSUME NEW r \in Remotes, ClientRefused(r) PROVE everRefused' \subseteq Remotes
    BY <2>1 DEF Rest, ClientRefused
  <2>2. (\E r \in Remotes : ClientRefused(r)) \/ UNCHANGED everRefused
    BY DEF Next, Poll, Handle, Drain, Absorb, CopyStatus, Lock, Reconcile, Insert, Stop, Cancel, Download,
           Forget, ClientProgress, TakeAway, vars, client
  <2> QED BY <2>1, <2>2 DEF Rest
<1>3. DeliveredElsewhere'
  <2>1. ASSUME NEW c \in Clients, Insert(c) PROVE DeliveredElsewhere'
    <3> DEFINE id == req[c].id
               t == [state |-> "queued", remote |-> req[c].remote, dir |-> req[c].dir, delivered |-> FALSE]
    <3>1. registry' = [registry EXCEPT ![id] = t] /\ id \in Ids
      BY <2>1, Requested DEF Insert, IInv
    <3>2. registry \in [Ids -> {Absent, Forgotten} \cup Record] /\ ~t.delivered
      BY DEF IInv, Types
    <3> HIDE DEF id, t
    <3> QED BY <3>1, <3>2 DEF Rest, DeliveredElsewhere, Known
  <2>2. ASSUME NEW c \in Clients, NEW id \in Ids, Cancel(c, id) PROVE DeliveredElsewhere'
    <3>1. registry' = [registry EXCEPT ![id].state = "cancelled"] /\ id \in Known /\ registry[id] \in Record
      BY <2>2, Registered DEF Cancel, IInv
    <3>2. registry \in [Ids -> {Absent, Forgotten} \cup Record]
      BY DEF IInv, Types
    <3>3. registry'[id].delivered = registry[id].delivered /\ registry'[id].dir = registry[id].dir
      BY <3>1, <3>2 DEF Record
    <3> QED BY <3>1, <3>2, <3>3 DEF Rest, DeliveredElsewhere, Known
  <2>3. ASSUME NEW id \in Ids, Forget(id) PROVE DeliveredElsewhere'
    <3>1. registry' = [registry EXCEPT ![id] = Forgotten] /\ registry \in [Ids -> {Absent, Forgotten} \cup Record]
      BY <2>3 DEF Forget, IInv, Types
    <3> QED BY <3>1, Given DEF Rest, DeliveredElsewhere, Known
  <2>4. CASE Absorb
    <3>1. ASSUME NEW id \in Ids
          PROVE  \/ registry'[id] = registry[id]
                 \/ registry[id] \in Record /\ id \in Known /\ registry'[id] = [registry[id] EXCEPT !.state = "failed"]
      BY <2>4, Given DEF Absorb, IInv, Types, Refuses, Known
    <3>2. ASSUME NEW id \in Known' PROVE registry[id].delivered = registry'[id].delivered
                                         /\ registry[id].dir = registry'[id].dir /\ id \in Known
      BY <3>1 DEF Record, Known
    <3> QED BY <3>2 DEF Rest, DeliveredElsewhere
  <2>5. ASSUME NEW id \in Ids, Reconcile(id) PROVE DeliveredElsewhere'
    <3> DEFINE t == registry[id]
               state == Reconciled(t, disk')
    <3>1. PICK moved \in BOOLEAN :
              /\ moved => Deliverable(t)
              /\ registry' = [registry EXCEPT ![id] =
                     [t EXCEPT !.state = state, !.delivered = t.delivered \/ moved \/ AtDestination(t)]]
      BY <2>5 DEF Reconcile
    <3>2. t \in Record /\ id \in Known /\ registry \in [Ids -> {Absent, Forgotten} \cup Record]
      BY <2>5, Turn DEF IInv, Types
    <3> DEFINE delivered == t.delivered \/ moved \/ AtDestination(t)
               new == [t EXCEPT !.state = state, !.delivered = delivered]
    <3>3. delivered => t.dir # Root
      BY <3>1, <3>2 DEF Rest, DeliveredElsewhere, Deliverable, AtDestination
    <3>4. registry'[id] = new
      BY <3>1, <3>2
    <3>5. new.delivered = delivered /\ new.dir = t.dir
      <4> HIDE DEF state, delivered
      <4> QED BY <3>2 DEF Record
    <3>6. \A other \in Ids \ {id} : registry'[other] = registry[other]
      BY <3>1, <3>2
    <3> HIDE DEF new, delivered
    <3> QED BY <3>3, <3>4, <3>5, <3>6 DEF Rest, DeliveredElsewhere, Known
  <2>6. CASE UNCHANGED registry
    BY <2>6 DEF Rest, DeliveredElsewhere, Known
  <2> QED BY <2>1, <2>2, <2>3, <2>4, <2>5, <2>6
          DEF Next, Poll, Handle, Drain, CopyStatus, Lock, Stop, Download, ClientProgress, ClientRefused, TakeAway, vars
<1> QED BY <1>1, <1>2, <1>3 DEF Rest

\* Downloads, disk, transfers and requests stay well formed: refusals in flight are
\* refusals, what the poll goes through is known, and only a transfer that goes
\* elsewhere than the download root is ever delivered.
THEOREM TypeCorrect == Spec => []TypeOK
<1>1. IInv /\ Rest => TypeOK
  BY Registered, Given
     DEF IInv, Types, RequestTypes, Idle, Locked, RefusalsReal, Rest, DeliveredElsewhere, TypeOK, Known
<1> QED BY <1>1, InitIInv, NextIInv, InitRest, NextRest, PTL DEF Spec

\* A transfer becomes completed only if the client has had its peer's own file
\* complete, or a complete file of its name and size lies at its own destination,
\* whoever put it there and however old the status: native_backend.rs 237-342, 447-468.
THEOREM CompletedBacked == Spec => CompletedIsBacked
<1> DEFINE Lies(t, r) == disk'[t.dir][NameOf[t.remote]] = r /\ SizeOf[r] = SizeOf[t.remote]
           Backed == \A id \in Ids : registry[id].state # "completed" /\ registry'[id].state = "completed" =>
                         registry'[id].remote \in finished \/ \E r \in Remotes : Lies(registry'[id], r)
<1>1. IInv /\ [Next]_vars => [Backed]_vars
  <2> SUFFICES ASSUME IInv, Next PROVE Backed
    OBVIOUS
  <2>1. ASSUME NEW id \in Ids, Reconcile(id) PROVE Backed
    <3> SUFFICES ASSUME registry[id].state # "completed", registry'[id].state = "completed"
                 PROVE  registry'[id].remote \in finished \/ \E r \in Remotes : Lies(registry'[id], r)
      BY <2>1, Turned
    <3>1. /\ registry[id] \in Record /\ Reconciled(registry[id], disk') = "completed"
          /\ registry'[id].remote = registry[id].remote /\ registry'[id].dir = registry[id].dir
      BY <2>1, Turn, Turned
    <3>2. registry[id].remote \in Remotes /\ poll.status[registry[id].remote] \in Phases
      BY <3>1 DEF Record, IInv, Types
    <3>3. CASE poll.status[registry[id].remote] = "full"
      BY <3>1, <3>2, <3>3 DEF IInv, StatusBacked
    <3>4. CASE CompleteAt(disk', registry[id].dir, registry[id].remote)
      BY <3>1, <3>4 DEF CompleteAt
    <3> QED BY <3>1, <3>2, <3>3, <3>4 DEF Reconciled, Phases
  <2>2. ASSUME NEW c \in Clients, Insert(c) PROVE Backed
    <3>1. \A id \in Ids : registry'[id] = registry[id] \/ registry'[id].state = "queued"
      <4> DEFINE t == [state |-> "queued", remote |-> req[c].remote, dir |-> req[c].dir, delivered |-> FALSE]
      <4>1. registry' = [registry EXCEPT ![req[c].id] = t] /\ t.state = "queued"
        BY <2>2 DEF Insert
      <4> HIDE DEF t
      <4> QED BY <4>1 DEF IInv, Types
    <3> QED BY <3>1
  <2>3. ASSUME NEW c \in Clients, NEW other \in Ids, Cancel(c, other) PROVE Backed
    <3>1. \A id \in Ids : registry'[id] = registry[id] \/ registry'[id].state = "cancelled"
      BY <2>3, Registered DEF Cancel, IInv, Types, Record
    <3> QED BY <3>1
  <2>4. ASSUME NEW other \in Ids, Forget(other) PROVE Backed
    <3>1. \A id \in Ids : registry'[id] = registry[id] \/ registry'[id] = Forgotten
      BY <2>4 DEF Forget, IInv, Types
    <3> QED BY <3>1, Given
  <2>5. CASE Absorb
    <3>1. \A id \in Ids : registry'[id] = registry[id] \/ registry'[id].state = "failed"
      <4>1. ASSUME NEW id \in Ids, Refuses(id) PROVE registry[id] \in Record
        BY <4>1, Given DEF Refuses, IInv, Types
      <4> QED BY <2>5, <4>1 DEF Absorb, Record
    <3> QED BY <3>1
  <2>6. CASE UNCHANGED registry
    BY <2>6
  <2> QED BY <2>1, <2>2, <2>3, <2>4, <2>5, <2>6
          DEF Next, Poll, Handle, Drain, CopyStatus, Lock, Stop, Download, ClientProgress, ClientRefused, TakeAway
<1> QED BY <1>1, InitIInv, NextIInv, PTL DEF Spec, CompletedIsBacked

\* A transfer is failed only by a refusal of its own peer: native_backend.rs 344-374.
THEOREM FailedRefused == Spec => []FailedIsRefused
<1>1. IInv => FailedIsRefused
  BY DEF IInv
<1> QED BY <1>1, InitIInv, NextIInv, PTL DEF Spec

\* Only others change what is at a destination: delivery leaves it alone, even when it
\* fails half-way, and so do the requests and the client.
THEOREM KeepsFiles == Spec => DeliveryKeepsFiles
<1> DEFINE Kept == \A n \in Names : disk[Elsewhere][n] # NoFile =>
                       disk'[Elsewhere][n] = disk[Elsewhere][n] \/ TakeAway(Elsewhere, n)
<1>1. IInv /\ [Next]_vars => [Kept]_vars
  <2> SUFFICES ASSUME IInv, Next PROVE Kept
    OBVIOUS
  <2>1. ASSUME NEW id \in Ids, Reconcile(id) PROVE Kept
    BY <2>1, Turn
  <2>2. ASSUME NEW r \in Remotes, ClientProgress(r) PROVE Kept
    BY <2>2, Given DEF ClientProgress, IInv, Types
  <2>3. ASSUME NEW c \in Clients, Stop(c) PROVE Kept
    BY <2>3, Given DEF Stop, IInv, Types
  <2>4. ASSUME NEW d \in Dirs, NEW n \in Names, TakeAway(d, n) PROVE Kept
    <3>1. \A m \in Names : (d = Elsewhere /\ m = n) \/ disk'[Elsewhere][m] = disk[Elsewhere][m]
      BY <2>4, Given DEF TakeAway, IInv, Types
    <3> QED BY <2>4, <3>1
  <2>5. CASE UNCHANGED disk
    BY <2>5
  <2> QED BY <2>1, <2>2, <2>3, <2>4, <2>5
             DEF Next, Poll, Handle, Drain, Absorb, CopyStatus, Lock, Insert, Cancel, Download,
                 Forget, ClientRefused
<1> QED BY <1>1, InitIInv, NextIInv, PTL DEF Spec, DeliveryKeepsFiles
=============================================================================

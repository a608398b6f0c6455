----------------------------- MODULE TransferSync -----------------------------
(***************************************************************************)
(* How a torrent transfer is kept in three places at once: the record of   *)
(* the torrent engine (in memory, authoritative), the row of the transfers *)
(* table (durable), and the copies that request handlers and the sync      *)
(* loop carry across their awaits.                                         *)
(*                                                                         *)
(* Actors:                                                                 *)
(*   - the sync task, housekeeping.rs spawn_transfer_sync, one loop that   *)
(*     lists the engine, stores what changed, organizes what completed,    *)
(*     then orphans the rows the list did not contain;                     *)
(*   - the HTTP handlers of routes.rs: add, cancel, delete, pause, resume, *)
(*     one step per await;                                                 *)
(*   - the engine's own progress, and the process dying and restarting.    *)
(*                                                                         *)
(* Of a row only its state is kept.  Progress, rate and eta appear as the  *)
(* free choice of SyncRead to store a transfer whose state is unchanged,   *)
(* and replace_files, which writes no state, is part of the upsert it      *)
(* follows.                                                                *)
(***************************************************************************)
EXTENDS Naturals, TorrentEngines

CONSTANTS
    Ids,            \* transfer ids that may be allocated
    NoId,           \* no transfer
    Clients,        \* concurrent HTTP requests
    MaxRequests,    \* bound: requests started
    MaxRestarts,    \* bound: process restarts
    MaxFaults,      \* bound: failed database or session calls
    AutoOrganize    \* setting postprocess.auto_organize

ASSUME SyncAssumption ==
    /\ NoId \notin Ids
    /\ MaxRequests \in Nat /\ MaxRestarts \in Nat /\ MaxFaults \in Nat
    /\ AutoOrganize \in BOOLEAN

VARIABLES
    engine,     \* state of the engine's record of a transfer, or "none"
    finished,   \* transfers whose data the engine has had complete
    rows,       \* state of the transfer's row, or "none"
    library,    \* transfers whose files were moved into the library
    syncPc, snap, todo, cur, prev,  \* the sync task and its locals
    req,        \* the handlers and their locals
    used,       \* ids handed out so far (they are fresh UUIDs)
    removed,    \* transfers whose DELETE handler has removed the row
    quiet,      \* nobody but the sync task acted since its last list()
    budget      \* requests, restarts and faults left

syncVars == <<syncPc, snap, todo, cur, prev>>
vars == <<engine, finished, rows, library, syncVars, req, used,
          removed, quiet, budget>>

\* The program counter of a handler: the call it is about to await.
ReqPc == {"idle", "get", "store", "cancel", "storeCancelled", "deleteCancel",
          "forget", "deleteRow", "pause", "resume"}

Idle == [pc |-> "idle", id |-> NoId, copy |-> "none"]

NoSnap == [id \in Ids |-> "none"]

Known == {id \in Ids : engine[id] # "none"}

Init ==
    /\ engine = NoSnap /\ rows = NoSnap /\ snap = NoSnap
    /\ finished = {} /\ library = {}
    /\ syncPc = "tick" /\ todo = {} /\ cur = NoId /\ prev = "none"
    /\ req = [c \in Clients |-> Idle]
    /\ used = {} /\ removed = {} /\ quiet = TRUE
    /\ budget = [requests |-> MaxRequests, restarts |-> MaxRestarts, faults |-> MaxFaults]

\* Take one unit of a budget.
Spend(kind) ==
    /\ budget[kind] > 0
    /\ budget' = [budget EXCEPT ![kind] = @ - 1]

\* TransferStore::upsert: insert the row or replace it, whichever applies.
Upserted(id, state) == [rows EXCEPT ![id] = state]

-----------------------------------------------------------------------------
(* The sync task. *)

\* engine.list(): one snapshot of every record.
SyncList ==
    /\ syncPc = "tick"
    /\ syncPc' = "read"
    /\ snap' = engine
    /\ todo' = Known
    /\ quiet' = TRUE
    /\ UNCHANGED <<engine, finished, rows, library, cur, prev, req,
                   used, removed, budget>>

\* store.get for one listed transfer; a failed read counts as no row.
SyncRead(id) ==
    /\ syncPc = "read" /\ id \in todo
    /\ \/ /\ rows[id] = snap[id]                    \* unchanged: continue
          /\ todo' = todo \ {id}
          /\ UNCHANGED <<syncPc, cur, prev, quiet, budget>>
       \/ /\ syncPc' = "write" /\ cur' = id
          /\ \/ prev' = rows[id] /\ UNCHANGED <<quiet, budget>>
             \/ prev' = "none" /\ Spend("faults") /\ quiet' = FALSE
          /\ UNCHANGED todo
    /\ UNCHANGED <<engine, finished, rows, library, snap, req, used, removed>>

\* Mutant: organize whatever came to an end.
FirstEnded(new, old) == AutoOrganize /\ new # old /\ new \in Terminal \cup {"completed"}

\* Post-processing is due when the listed transfer is completed and the row
\* read for it was not.
FirstCompleted(new, old) == AutoOrganize /\ new = "completed" /\ old # "completed"

\* store.upsert of the listed transfer; a failed write is only logged.
SyncWrite ==
    /\ syncPc = "write"
    /\ \/ rows' = Upserted(cur, snap[cur]) /\ UNCHANGED <<quiet, budget>>
       \/ UNCHANGED rows /\ Spend("faults") /\ quiet' = FALSE
    /\ IF FirstCompleted(snap[cur], prev)
       THEN syncPc' = "organize" /\ UNCHANGED <<todo, cur>>
       ELSE syncPc' = "read" /\ todo' = todo \ {cur} /\ cur' = NoId
    /\ prev' = "none"
    /\ UNCHANGED <<engine, finished, library, snap, req, used, removed>>

\* organize_completed_transfer, awaited in the loop.  A job for a transfer
\* whose files were moved before fails and leaves them where they are.
SyncOrganize ==
    /\ syncPc = "organize"
    /\ library' = library \cup {cur}
    /\ syncPc' = "read" /\ todo' = todo \ {cur} /\ cur' = NoId
    /\ UNCHANGED <<engine, finished, rows, snap, prev, req, used, removed, quiet, budget>>

\* Mutant: completed taken for a terminal state.
MissingUnfinished(id) ==
    rows[id] \notin Terminal \cup {"completed", "none"} /\ snap[id] = "none"

\* A row to orphan: it exists, is not terminal, and was not listed.
Missing(id) == rows[id] \notin Terminal \cup {"none"} /\ snap[id] = "none"

\* store.list(): the rows of this tick; a failed read counts as no rows.
SyncRows ==
    /\ syncPc = "read" /\ todo = {}
    /\ syncPc' = "orphan"
    /\ \/ todo' = {id \in Ids : Missing(id)} /\ UNCHANGED <<quiet, budget>>
       \/ todo' = {} /\ Spend("faults") /\ quiet' = FALSE
    /\ UNCHANGED <<engine, finished, rows, library, snap, cur, prev,
                   req, used, removed>>

\* store.upsert of the copied row, now orphaned.
SyncOrphan(id) ==
    /\ syncPc = "orphan" /\ id \in todo
    /\ todo' = todo \ {id}
    /\ \/ rows' = Upserted(id, "orphaned") /\ UNCHANGED <<quiet, budget>>
       \/ UNCHANGED rows /\ Spend("faults") /\ quiet' = FALSE
    /\ UNCHANGED <<engine, finished, library, syncPc, snap, cur,
                   prev, req, used, removed>>

\* The loop body ends; wait for the next tick of the interval.
SyncDone ==
    /\ syncPc = "orphan" /\ todo = {}
    /\ syncPc' = "tick" /\ snap' = NoSnap
    /\ UNCHANGED <<engine, finished, rows, library, todo, cur, prev,
                   req, used, removed, quiet, budget>>

SyncStep ==
    \/ SyncList \/ SyncWrite \/ SyncOrganize \/ SyncRows \/ SyncDone
    \/ \E id \in Ids : SyncRead(id) \/ SyncOrphan(id)

-----------------------------------------------------------------------------
(* The request handlers. *)

\* Mutant: the id is derived from the source, so an id can come back.
AddSameId(c, id) ==
    /\ req[c].pc = "idle" /\ engine[id] = "none"
    /\ Spend("requests")
    /\ \E s \in Added : engine' = [engine EXCEPT ![id] = s]
    /\ used' = used \cup {id}
    /\ req' = [req EXCEPT ![c] = [pc |-> "get", id |-> id, copy |-> "none"]]
    /\ quiet' = FALSE
    /\ UNCHANGED <<finished, rows, library, syncVars, removed>>

\* add_transfer: backend.add inserts the record of a fresh id.
Add(c, id) ==
    /\ req[c].pc = "idle" /\ id \notin used
    /\ Spend("requests")
    /\ \E s \in Added : engine' = [engine EXCEPT ![id] = s]
    /\ used' = used \cup {id}
    /\ req' = [req EXCEPT ![c] = [pc |-> "get", id |-> id, copy |-> "none"]]
    /\ quiet' = FALSE
    /\ UNCHANGED <<finished, rows, library, syncVars, removed>>

\* Mutant: a request for a missing row is not refused.
RequestUnchecked(c, id, first) ==
    /\ req[c].pc = "idle" /\ id \in used
    /\ Spend("requests")
    /\ req' = [req EXCEPT ![c] = [pc |-> first, id |-> id, copy |-> "none"]]
    /\ UNCHANGED <<engine, finished, rows, library, syncVars, used,
                   removed, quiet>>

\* cancel_transfer, delete_transfer and set_paused all read the row first;
\* without one they answer 404.
Request(c, id, first) ==
    /\ req[c].pc = "idle" /\ rows[id] # "none"
    /\ Spend("requests")
    /\ req' = [req EXCEPT ![c] = [pc |-> first, id |-> id, copy |-> "none"]]
    /\ UNCHANGED <<engine, finished, rows, library, syncVars, used,
                   removed, quiet>>

\* set_paused: backend.pause or backend.resume; an error ends the request.
SetPaused(c, outcomes) ==
    /\ \/ /\ outcomes = {}
          /\ req' = [req EXCEPT ![c] = Idle]
          /\ UNCHANGED <<engine, quiet>>
       \/ /\ \E s \in outcomes : engine' = [engine EXCEPT ![req[c].id] = s]
          /\ req' = [req EXCEPT ![c].pc = "get"]
          /\ quiet' = FALSE
    /\ UNCHANGED <<finished, rows, library, syncVars, used, removed, budget>>

Pause(c) == req[c].pc = "pause" /\ SetPaused(c, Paused(engine[req[c].id]))

Resume(c) ==
    /\ req[c].pc = "resume"
    /\ SetPaused(c, Resumed(engine[req[c].id], req[c].id \in finished))

\* backend.get after add, pause or resume: the copy the handler will store.
Get(c) ==
    /\ req[c].pc = "get"
    /\ LET s == engine[req[c].id] IN
       req' = [req EXCEPT ![c] = IF s = "none" THEN Idle
                                 ELSE [@ EXCEPT !.pc = "store", !.copy = s]]
    /\ UNCHANGED <<engine, finished, rows, library, syncVars, used,
                   removed, quiet, budget>>

\* A handler's upsert; if it fails the handler answers an error.
StoreRow(c, state) ==
    /\ \/ rows' = Upserted(req[c].id, state) /\ UNCHANGED budget
       \/ UNCHANGED rows /\ Spend("faults")
    /\ req' = [req EXCEPT ![c] = Idle]
    /\ quiet' = FALSE
    /\ UNCHANGED <<engine, finished, library, syncVars, used, removed>>

Store(c) == req[c].pc = "store" /\ StoreRow(c, req[c].copy)

\* The cancelled state is set on the row read at the start of the request.
StoreCancelled(c) == req[c].pc = "storeCancelled" /\ StoreRow(c, "cancelled")

\* backend.cancel, its result ignored; session.delete may fail (rqbit).
Cancel(c) ==
    /\ req[c].pc \in {"cancel", "deleteCancel"}
    /\ LET id == req[c].id
           out == Cancelled(engine[id])
       IN  \/ /\ out # {}
              /\ \E s \in out : engine' = [engine EXCEPT ![id] = s]
              /\ UNCHANGED budget
           \/ out = {} /\ UNCHANGED <<engine, budget>>
           \/ Engine = "rqbit" /\ Spend("faults") /\ UNCHANGED engine
    /\ req' = [req EXCEPT ![c].pc =
                  IF @ = "cancel" THEN "storeCancelled" ELSE "forget"]
    /\ quiet' = FALSE
    /\ UNCHANGED <<finished, rows, library, syncVars, used, removed>>

\* Mutant: delete_transfer without backend.forget.
ForgetSkipped(c) ==
    /\ req[c].pc = "forget"
    /\ req' = [req EXCEPT ![c].pc = "deleteRow"]
    /\ UNCHANGED <<engine, finished, rows, library, syncVars, used, removed,
                   quiet, budget>>

\* delete_transfer: backend.forget, then the row.
Forget(c) ==
    /\ req[c].pc = "forget"
    /\ engine' = [engine EXCEPT ![req[c].id] = "none"]
    /\ req' = [req EXCEPT ![c].pc = "deleteRow"]
    /\ quiet' = FALSE
    /\ UNCHANGED <<finished, rows, library, syncVars, used, removed, budget>>

DeleteRow(c) ==
    /\ req[c].pc = "deleteRow"
    /\ \/ /\ rows' = [rows EXCEPT ![req[c].id] = "none"]
          /\ removed' = removed \cup {req[c].id}
          /\ UNCHANGED budget
       \/ UNCHANGED <<rows, removed>> /\ Spend("faults")
    /\ req' = [req EXCEPT ![c] = Idle]
    /\ quiet' = FALSE
    /\ UNCHANGED <<engine, finished, library, syncVars, used>>

\* A request that has been accepted runs on its own task.
Handle(c) ==
    \/ Pause(c) \/ Resume(c) \/ Get(c) \/ Store(c)
    \/ Cancel(c) \/ StoreCancelled(c) \/ Forget(c) \/ DeleteRow(c)

Arrive(c) ==
    \E id \in Ids :
        \/ Add(c, id)
        \/ \E first \in {"cancel", "deleteCancel", "pause", "resume"} :
               Request(c, id, first)

-----------------------------------------------------------------------------
(* The environment. *)

\* The engine moves a transfer by itself.
Progress(id) ==
    /\ \E s \in Progressed(engine[id]) :
          /\ engine' = [engine EXCEPT ![id] = s]
          /\ finished' = IF s = "completed" THEN finished \cup {id} ELSE finished
    /\ quiet' = FALSE
    /\ UNCHANGED <<rows, library, syncVars, req, used, removed, budget>>

\* The process dies and starts again.  Neither engine persists its registry;
\* the database and the disk stay.
Restart ==
    /\ Spend("restarts")
    /\ engine' = NoSnap
    /\ syncPc' = "tick" /\ snap' = NoSnap /\ todo' = {} /\ cur' = NoId /\ prev' = "none"
    /\ req' = [c \in Clients |-> Idle]
    /\ quiet' = FALSE
    /\ UNCHANGED <<finished, rows, library, used, removed>>

Next ==
    \/ SyncStep
    \/ \E c \in Clients : Handle(c) \/ Arrive(c)
    \/ \E id \in Ids : Progress(id)
    \/ Restart

\* tokio runs every spawned task that can run: the sync task and each accepted
\* request keep going.  Nothing forces a client to send a request or a
\* download to finish.
Fairness ==
    /\ WF_vars(SyncStep)
    /\ \A c \in Clients : WF_vars(Handle(c))

Spec == Init /\ [][Next]_vars

FairSpec == Spec /\ Fairness

-----------------------------------------------------------------------------
(* Properties. *)

\* Type invariant: every place that holds a transfer's state holds one of the
\* states its source can produce.
TypeOK ==
    /\ engine \in [Ids -> EngineState]
    /\ rows \in [Ids -> MaybeState]
    /\ snap \in [Ids -> EngineState]
    /\ finished \subseteq Ids /\ library \subseteq Ids
    /\ syncPc \in {"tick", "read", "write", "organize", "orphan"}
    /\ todo \subseteq Ids
    /\ cur \in Ids \cup {NoId}
    /\ syncPc \in {"write", "organize"} => cur \in Ids
    /\ prev \in MaybeState
    /\ req \in [Clients -> [pc : ReqPc, id : Ids \cup {NoId}, copy : EngineState]]
    /\ \A c \in Clients : req[c].pc # "idle" => req[c].id \in Ids
    /\ used \subseteq Ids /\ removed \subseteq Ids
    /\ quiet \in BOOLEAN
    /\ budget \in [{"requests", "restarts", "faults"} -> Nat]

\* The row tells the truth about a transfer: the state the engine reports, or,
\* once the engine has no record, a terminal state (or no row at all).
Agrees(id) ==
    IF engine[id] = "none" THEN rows[id] \in Terminal \cup {"none"}
                           ELSE rows[id] = engine[id]

\* Reconciliation is sound: a whole pass of the sync loop (housekeeping.rs
\* 55-177) during which nothing else acted and no call failed leaves every row
\* in agreement with the engine, whatever stale rows, half-finished requests
\* and lost registries it started from.
ReconciledAfterQuietTick ==
    syncPc = "tick" /\ quiet => \A id \in Ids : Agrees(id)

\* A deleted transfer is gone from the engine for good: nothing a concurrent
\* cancel, pause or resume does brings its record back.  Otherwise the next
\* tick would import it again (the comment at routes.rs 219-220).
RemovedIsForgotten == \A id \in removed : engine[id] = "none"

\* Files are moved into the library only for a transfer the engine has had
\* complete, however stale the list and the row the sync loop compared.
OrganizedOnlyWhenFinished == library \subseteq finished

\* Once stopped a transfer never runs again: a record in state cancelled only
\* goes away, and one that is gone never comes back, whichever pause or resume
\* was already under way (TorrentEngine::cancel against ::pause and ::resume).
StoppedStaysStopped ==
    [][\A id \in used :
          engine[id] \in {"none", "cancelled"} =>
              engine'[id] \in {"none", engine[id]}]_vars

\* Some task still carries a copy of the transfer it may store.
InFlight(id) ==
    \/ \E c \in Clients : req[c].id = id
    \/ id \in todo

Gone(id) ==
    id \in removed /\ engine[id] = "none" /\ rows[id] = "none" /\ ~InFlight(id)

\* A deletion that has drained is final: with the row and the record gone and
\* no task still holding a copy, the transfer never pops back up (the purpose
\* of backend.forget in routes.rs 217-221).
DrainedDeletionIsFinal == [][\A id \in Ids : Gone(id) => Gone(id)']_vars

\* After the last request, restart and failure the table comes to agree with
\* the engine and stays so, although requests overwrite rows with stale copies
\* and the sync loop stores states that were already out of date.
Converges == <>[](\A id \in Ids : Agrees(id))

-----------------------------------------------------------------------------
(* What documents and comments claim and the code does not do. *)

\* routes.rs 219-220: forgetting the transfer keeps the periodic reconcile
\* from re-importing a removed row.
RemovedStaysRemoved ==
    [][\A id \in removed : rows[id] = "none" => rows'[id] = "none"]_vars
=============================================================================

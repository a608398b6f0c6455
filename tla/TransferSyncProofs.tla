-------------------------- MODULE TransferSyncProofs --------------------------
(***************************************************************************)
(* Proofs about TransferSync for any set of transfers and clients, any     *)
(* bounds, and either engine.                                              *)
(***************************************************************************)
EXTENDS TransferSync, TLAPS

\* Everything that names a transfer names an id that has been handed out.
OnlyUsedIds ==
    /\ \A id \in Ids : engine[id] # "none" \/ rows[id] # "none" \/ snap[id] # "none"
                           => id \in used
    /\ todo \subseteq used
    /\ removed \subseteq used
    /\ \A c \in Clients : req[c].pc # "idle" => req[c].id \in used

\* delete_transfer reaches store.delete only after backend.forget.
ForgottenBeforeDelete ==
    \A c \in Clients : req[c].pc = "deleteRow" => engine[req[c].id] = "none"

\* A transfer reported as completed has been complete, and only such a one is
\* handed to the organizer.
CompletedIsFinished ==
    /\ \A id \in Ids : engine[id] = "completed" \/ snap[id] = "completed" => id \in finished
    /\ syncPc = "organize" => snap[cur] = "completed"

\* How far a quiet pass of the sync loop has come.
QuietProgress ==
    quiet =>
      /\ syncPc = "tick" => \A id \in Ids : Agrees(id)
      /\ syncPc # "tick" => snap = engine
      /\ syncPc \in {"read", "write", "organize"} =>
            \A id \in Ids : snap[id] = "none" \/ id \in todo \/ rows[id] = snap[id]
      /\ syncPc = "organize" => rows[cur] = snap[cur]
      /\ syncPc = "orphan" =>
            \A id \in Ids : IF snap[id] = "none"
                            THEN id \in todo \/ rows[id] \in Terminal \cup {"none"}
                            ELSE rows[id] = snap[id] /\ id \notin todo

\* The transfer the loop is storing or organizing is still to be ticked off.
CurIsTodo == syncPc \in {"write", "organize"} => cur \in todo

\* The inductive invariant.
IInv ==
    /\ TypeOK
    /\ CurIsTodo
    /\ OnlyUsedIds
    /\ ForgottenBeforeDelete
    /\ RemovedIsForgotten
    /\ CompletedIsFinished
    /\ OrganizedOnlyWhenFinished
    /\ QuietProgress

-----------------------------------------------------------------------------
(* What the engine operators return. *)

\* Every engine call leaves a record in an engine state.
LEMMA EngineTypes ==
    /\ Added \subseteq EngineState \ {"none"}
    /\ \A s \in EngineState :
          /\ Progressed(s) \subseteq EngineState
          /\ Paused(s) \subseteq EngineState
          /\ Cancelled(s) \subseteq EngineState
          /\ \A f \in BOOLEAN : Resumed(s, f) \subseteq EngineState
  BY DEF EngineState, Added, MemoryAdded, RqbitAdded, Progressed, MemoryProgress,
     RqbitProgress, Paused, MemoryPaused, RqbitPaused, Cancelled, MemoryCancelled,
     RqbitCancelled, Resumed, MemoryResumed, RqbitResumed

\* No call on an unknown or a cancelled transfer sets it going.
LEMMA EngineStops ==
    \A s \in {"none", "cancelled"} :
        /\ Progressed(s) = {}
        /\ Paused(s) = {}
        /\ Cancelled(s) \subseteq {"none", s}
        /\ \A f \in BOOLEAN : Resumed(s, f) = {}
  BY DEF Progressed, MemoryProgress,
     RqbitProgress, Paused, MemoryPaused, RqbitPaused, Cancelled, MemoryCancelled,
     RqbitCancelled, Resumed, MemoryResumed, RqbitResumed

\* An engine reports completed only for data it has had complete.
LEMMA EngineCompletes ==
    /\ "completed" \notin Added
    /\ \A s \in EngineState :
          /\ "completed" \notin Paused(s)
          /\ "completed" \notin Cancelled(s)
          /\ "completed" \notin Resumed(s, FALSE)
  BY DEF EngineState, Added, MemoryAdded, RqbitAdded, Paused, MemoryPaused,
     RqbitPaused, Cancelled, MemoryCancelled, RqbitCancelled, Resumed,
     MemoryResumed, RqbitResumed

-----------------------------------------------------------------------------
(* Type correctness. *)

LEMMA TypeInit == Init => TypeOK
  BY SyncAssumption DEF Init, TypeOK, NoSnap, Idle, EngineState, MaybeState, TransferState, ReqPc

\* Spending leaves the budgets natural numbers.
LEMMA SpendType ==
    ASSUME budget \in [{"requests", "restarts", "faults"} -> Nat],
           NEW kind \in {"requests", "restarts", "faults"}, Spend(kind)
    PROVE  budget' \in [{"requests", "restarts", "faults"} -> Nat]
  BY DEF Spend

LEMMA TypeSync == TypeOK /\ SyncStep => TypeOK'
<1> SUFFICES ASSUME TypeOK, SyncStep PROVE TypeOK'
  OBVIOUS
<1> USE DEF TypeOK, EngineState, MaybeState, TransferState
<1>1. CASE SyncList
  BY <1>1 DEF SyncList, Known
<1>2. ASSUME NEW id \in Ids, SyncRead(id) PROVE TypeOK'
  BY <1>2, SpendType DEF SyncRead
<1>3. CASE SyncWrite
  <2>1. budget' \in [{"requests", "restarts", "faults"} -> Nat]
    BY <1>3, SpendType DEF SyncWrite, Upserted
  <2>2. rows' \in [Ids -> MaybeState]
    BY <1>3 DEF SyncWrite, Upserted
  <2>3. QED
    BY <1>3, <2>1, <2>2 DEF SyncWrite, Upserted
<1>4. CASE SyncOrganize
  BY <1>4 DEF SyncOrganize
<1>5. CASE SyncRows
  BY <1>5, SpendType DEF SyncRows, Missing
<1>6. ASSUME NEW id \in Ids, SyncOrphan(id) PROVE TypeOK'
  BY <1>6, SpendType DEF SyncOrphan, Upserted
<1>7. CASE SyncDone
  <2>1. snap' \in [Ids -> EngineState]
    BY <1>7 DEF SyncDone, NoSnap
  <2>2. QED
    BY <1>7, <2>1 DEF SyncDone
<1>8. QED
  BY <1>1, <1>2, <1>3, <1>4, <1>5, <1>6, <1>7 DEF SyncStep

\* A handler's state is well formed; any well-formed one may replace it.
ReqOK(r) ==
    /\ r \in [pc : ReqPc, id : Ids \cup {NoId}, copy : EngineState]
    /\ r.pc # "idle" => r.id \in Ids

ReqsOK == req \in [Clients -> [pc : ReqPc, id : Ids \cup {NoId}, copy : EngineState]]
             /\ \A c \in Clients : req[c].pc # "idle" => req[c].id \in Ids

LEMMA ReqReplaced ==
    ASSUME ReqsOK, NEW c \in Clients, NEW r, ReqOK(r), req' = [req EXCEPT ![c] = r]
    PROVE  ReqsOK'
  BY DEF ReqsOK, ReqOK

LEMMA ReqMoved ==
    ASSUME ReqsOK, NEW c \in Clients, req[c].id \in Ids, NEW p \in ReqPc,
           req' = [req EXCEPT ![c].pc = p]
    PROVE  ReqsOK'
  BY DEF ReqsOK

LEMMA ReqEnded ==
    ASSUME ReqsOK, NEW c \in Clients, req' = [req EXCEPT ![c] = Idle]
    PROVE  ReqsOK'
<1>1. ReqOK(Idle)
  BY DEF ReqOK, Idle, ReqPc, EngineState
<1>2. QED
  BY <1>1, ReqReplaced

LEMMA TypeRequest ==
    ASSUME TypeOK, NEW c \in Clients, Handle(c) \/ Arrive(c)
    PROVE  TypeOK'
<1> USE DEF TypeOK, syncVars, ReqPc
<1>0. ReqsOK
  BY DEF ReqsOK
<1>1. ASSUME NEW id \in Ids, Add(c, id) PROVE TypeOK'
  <2>1. PICK s \in Added : engine' = [engine EXCEPT ![id] = s]
    BY <1>1 DEF Add
  <2>2. s \in EngineState
    BY <2>1, EngineTypes
  <2>3. budget' \in [{"requests", "restarts", "faults"} -> Nat]
    BY <1>1, SpendType DEF Add
  <2>4. QED
    BY <1>1, <2>1, <2>2, <2>3 DEF Add, EngineState
<1>2. ASSUME NEW id \in Ids, NEW first \in {"cancel", "deleteCancel", "pause", "resume"},
             Request(c, id, first)
      PROVE  TypeOK'
  BY <1>2, SpendType DEF Request, EngineState
<1>3. CASE Pause(c)
  <2>1. req[c].id \in Ids /\ req[c].pc # "idle"
    BY <1>3 DEF Pause
  <2>2. Paused(engine[req[c].id]) \subseteq EngineState
    BY <2>1, EngineTypes
  <2>3. engine' \in [Ids -> EngineState]
    BY <1>3, <2>1, <2>2 DEF Pause, SetPaused
  <2>4. req' \in [Clients -> [pc : ReqPc, id : Ids \cup {NoId}, copy : EngineState]]
    BY <1>3 DEF Pause, SetPaused, Idle, EngineState
  <2>5. \A d \in Clients : req'[d].pc # "idle" => req'[d].id \in Ids
    BY <1>3, <2>1 DEF Pause, SetPaused, Idle
  <2>6. QED
    BY <1>3, <2>3, <2>4, <2>5 DEF Pause, SetPaused
<1>4. CASE Resume(c)
  <2>1. req[c].id \in Ids /\ req[c].pc # "idle"
    BY <1>4 DEF Resume
  <2>2. Resumed(engine[req[c].id], req[c].id \in finished) \subseteq EngineState
    BY <2>1 DEF Resumed, MemoryResumed, RqbitResumed, EngineState
  <2>3. engine' \in [Ids -> EngineState]
    BY <1>4, <2>1, <2>2 DEF Resume, SetPaused
  <2>4. req' \in [Clients -> [pc : ReqPc, id : Ids \cup {NoId}, copy : EngineState]]
    BY <1>4 DEF Resume, SetPaused, Idle, EngineState
  <2>5. \A d \in Clients : req'[d].pc # "idle" => req'[d].id \in Ids
    BY <1>4, <2>1 DEF Resume, SetPaused, Idle
  <2>6. QED
    BY <1>4, <2>3, <2>4, <2>5 DEF Resume, SetPaused
<1>5. CASE Get(c)
  <2> DEFINE s == engine[req[c].id]
  <2>1. req[c].id \in Ids /\ s \in EngineState
    BY <1>5 DEF Get
  <2>2. CASE s = "none"
    <3>1. ReqsOK'
      BY <1>0, <1>5, <2>2, ReqEnded DEF Get
    <3>2. QED
      BY <1>5, <3>1 DEF Get, ReqsOK
  <2>3. CASE s # "none"
    <3>1. req' = [req EXCEPT ![c] = [req[c] EXCEPT !.pc = "store", !.copy = s]]
      BY <1>5, <2>3 DEF Get
    <3>2. ReqOK([req[c] EXCEPT !.pc = "store", !.copy = s])
      BY <2>1 DEF ReqOK
    <3>3. ReqsOK'
      BY <1>0, <3>1, <3>2, ReqReplaced
    <3>4. QED
      BY <1>5, <3>3 DEF Get, ReqsOK
  <2>4. QED
    BY <2>2, <2>3
<1>6. ASSUME NEW s \in MaybeState, req[c].pc # "idle", StoreRow(c, s) PROVE TypeOK'
  <2>1. rows' \in [Ids -> MaybeState]
    BY <1>6 DEF StoreRow, Upserted
  <2>2. budget' \in [{"requests", "restarts", "faults"} -> Nat]
    BY <1>6, SpendType DEF StoreRow, Upserted
  <2>3. ReqsOK'
    BY <1>0, <1>6, ReqEnded DEF StoreRow
  <2>4. QED
    BY <1>6, <2>1, <2>2, <2>3 DEF StoreRow, ReqsOK
<1>7. CASE Store(c)
  BY <1>6, <1>7 DEF Store, EngineState, MaybeState, TransferState
<1>8. CASE StoreCancelled(c)
  BY <1>6, <1>8 DEF StoreCancelled, MaybeState, TransferState
<1>9. CASE Cancel(c)
  <2>1. req[c].id \in Ids /\ req[c].pc # "idle"
    BY <1>9 DEF Cancel
  <2>2. Cancelled(engine[req[c].id]) \subseteq EngineState
    BY <2>1, EngineTypes
  <2>3. engine' \in [Ids -> EngineState]
    BY <1>9, <2>1, <2>2 DEF Cancel
  <2>4. budget' \in [{"requests", "restarts", "faults"} -> Nat]
    BY <1>9, SpendType DEF Cancel
  <2>5. ReqsOK'
    <3>1. PICK p \in {"storeCancelled", "forget"} : req' = [req EXCEPT ![c].pc = p]
      BY <1>9 DEF Cancel
    <3>2. QED
      BY <1>0, <2>1, <3>1, ReqMoved
  <2>6. QED
    BY <1>9, <2>3, <2>4, <2>5 DEF Cancel, ReqsOK
<1>10. CASE Forget(c)
  <2>1. req[c].id \in Ids
    BY <1>10 DEF Forget
  <2>2. engine' \in [Ids -> EngineState]
    BY <1>10 DEF Forget, EngineState
  <2>3. ReqsOK'
    BY <1>0, <1>10, <2>1, ReqMoved DEF Forget
  <2>4. QED
    BY <1>10, <2>2, <2>3 DEF Forget, ReqsOK
<1>11. CASE DeleteRow(c)
  <2>1. req[c].id \in Ids
    BY <1>11 DEF DeleteRow
  <2>2. rows' \in [Ids -> MaybeState]
    BY <1>11 DEF DeleteRow, MaybeState
  <2>3. budget' \in [{"requests", "restarts", "faults"} -> Nat]
    BY <1>11, SpendType DEF DeleteRow
  <2>4. removed' \subseteq Ids
    BY <1>11, <2>1 DEF DeleteRow
  <2>5. ReqsOK'
    BY <1>0, <1>11, ReqEnded DEF DeleteRow
  <2>6. QED
    BY <1>11, <2>2, <2>3, <2>4, <2>5 DEF DeleteRow, ReqsOK
<1>12. QED
  BY <1>1, <1>2, <1>3, <1>4, <1>5, <1>7, <1>8, <1>9, <1>10, <1>11 DEF Handle, Arrive

LEMMA TypeEnvironment ==
    ASSUME TypeOK, Restart \/ \E id \in Ids : Progress(id)
    PROVE  TypeOK'
<1> USE DEF TypeOK, syncVars
<1>1. CASE Restart
  BY <1>1, SpendType DEF Restart, NoSnap, Idle, EngineState, MaybeState, ReqPc
<1>2. ASSUME NEW id \in Ids, Progress(id) PROVE TypeOK'
  <2>1. PICK s \in Progressed(engine[id]) :
            /\ engine' = [engine EXCEPT ![id] = s]
            /\ finished' = IF s = "completed" THEN finished \cup {id} ELSE finished
    BY <1>2 DEF Progress
  <2>2. s \in EngineState
    BY <2>1, EngineTypes
  <2>3. QED
    BY <1>2, <2>1, <2>2 DEF Progress
<1>3. QED
  BY <1>1, <1>2

LEMMA TypeStep == TypeOK /\ [Next]_vars => TypeOK'
<1> SUFFICES ASSUME TypeOK, [Next]_vars PROVE TypeOK'
  OBVIOUS
<1>1. CASE Next
  BY <1>1, TypeSync, TypeRequest, TypeEnvironment DEF Next
<1>2. CASE UNCHANGED vars
  BY <1>2 DEF vars, syncVars, TypeOK
<1>3. QED
  BY <1>1, <1>2

\* Type correctness of the model of housekeeping.rs and routes.rs: the engine,
\* the table and every local copy only ever hold states of the transfer model.
THEOREM TypeCorrect == Spec => []TypeOK
  BY TypeInit, TypeStep, PTL DEF Spec

-----------------------------------------------------------------------------
(* Safety. *)

LEMMA UsedStep ==
    ASSUME TypeOK, OnlyUsedIds, [Next]_vars
    PROVE  OnlyUsedIds'
<1> USE DEF TypeOK, OnlyUsedIds, syncVars
<1>1. CASE SyncList
  BY <1>1 DEF SyncList, Known
<1>2. ASSUME NEW id \in Ids, SyncRead(id) PROVE OnlyUsedIds'
  BY <1>2 DEF SyncRead
<1>3. CASE SyncWrite
  BY <1>3 DEF SyncWrite, Upserted
<1>4. CASE SyncOrganize
  BY <1>4 DEF SyncOrganize
<1>5. CASE SyncRows
  BY <1>5 DEF SyncRows, Missing
<1>6. ASSUME NEW id \in Ids, SyncOrphan(id) PROVE OnlyUsedIds'
  BY <1>6 DEF SyncOrphan, Upserted
<1>7. CASE SyncDone
  BY <1>7 DEF SyncDone, NoSnap
<1>8. ASSUME NEW c \in Clients, NEW id \in Ids, Add(c, id) PROVE OnlyUsedIds'
  <2>1. PICK s \in Added : engine' = [engine EXCEPT ![id] = s]
    BY <1>8 DEF Add
  <2>2. used' = used \cup {id} /\ req' = [req EXCEPT ![c] = [pc |-> "get", id |-> id, copy |-> "none"]]
    BY <1>8 DEF Add
  <2>3. UNCHANGED <<rows, snap, todo, removed>>
    BY <1>8 DEF Add
  <2>4. QED
    BY <2>1, <2>2, <2>3
<1>9. ASSUME NEW c \in Clients, NEW id \in Ids, NEW first, Request(c, id, first)
      PROVE  OnlyUsedIds'
  BY <1>9 DEF Request
<1>10. ASSUME NEW c \in Clients, Handle(c) PROVE OnlyUsedIds'
  <2> USE DEF Idle
  <2>1. CASE Pause(c)
    BY <2>1 DEF Pause, SetPaused
  <2>2. CASE Resume(c)
    BY <2>2 DEF Resume, SetPaused
  <2>3. CASE Get(c)
    BY <2>3 DEF Get
  <2>4. CASE Store(c)
    BY <2>4 DEF Store, StoreRow, Upserted
  <2>5. CASE Cancel(c)
    BY <2>5 DEF Cancel
  <2>6. CASE StoreCancelled(c)
    BY <2>6 DEF StoreCancelled, StoreRow, Upserted
  <2>7. CASE Forget(c)
    BY <2>7 DEF Forget
  <2>8. CASE DeleteRow(c)
    BY <2>8 DEF DeleteRow
  <2>9. QED
    BY <1>10, <2>1, <2>2, <2>3, <2>4, <2>5, <2>6, <2>7, <2>8 DEF Handle
<1>11. ASSUME NEW id \in Ids, Progress(id) PROVE OnlyUsedIds'
  BY <1>11, EngineStops DEF Progress
<1>12. CASE Restart
  BY <1>12 DEF Restart, NoSnap, Idle
<1>13. CASE UNCHANGED vars
  BY <1>13 DEF vars
<1>14. QED
  BY <1>1, <1>2, <1>3, <1>4, <1>5, <1>6, <1>7, <1>8, <1>9, <1>10, <1>11, <1>12, <1>13
     DEF Next, SyncStep, Arrive

\* Only six kinds of step touch the engine.
LEMMA EngineFrame ==
    ASSUME [Next]_vars
    PROVE  \/ engine' = engine
           \/ \E c \in Clients, id \in Ids : Add(c, id)
           \/ \E c \in Clients : Pause(c) \/ Resume(c) \/ Cancel(c) \/ Forget(c)
           \/ \E id \in Ids : Progress(id)
           \/ Restart
<1>1. SyncStep => engine' = engine
  BY DEF SyncStep, SyncList, SyncRead, SyncWrite, Upserted, SyncOrganize, SyncRows, SyncOrphan, SyncDone
<1>2. \A c \in Clients : Get(c) \/ Store(c) \/ StoreCancelled(c) \/ DeleteRow(c)
          => engine' = engine
  BY DEF Get, Store, StoreCancelled, StoreRow, Upserted, DeleteRow
<1>3. \A c \in Clients, id \in Ids, first \in {"cancel", "deleteCancel", "pause", "resume"} :
          Request(c, id, first) => engine' = engine
  BY DEF Request
<1>4. UNCHANGED vars => engine' = engine
  BY DEF vars
<1>5. QED
  BY <1>1, <1>2, <1>3, <1>4 DEF Next, Handle, Arrive

Stopped == \A id \in used :
    engine[id] \in {"none", "cancelled"} => engine'[id] \in {"none", engine[id]}

LEMMA StoppedStep ==
    ASSUME TypeOK, OnlyUsedIds, [Next]_vars
    PROVE  Stopped
<1> SUFFICES ASSUME NEW id \in used, engine[id] \in {"none", "cancelled"}
             PROVE  engine'[id] \in {"none", engine[id]}
  BY DEF Stopped
<1> USE DEF TypeOK
<1>1. CASE engine' = engine
  BY <1>1
<1>2. ASSUME NEW c \in Clients, NEW i \in Ids, Add(c, i) PROVE engine'[id] = engine[id]
  BY <1>2 DEF Add
<1>3. ASSUME NEW c \in Clients, Pause(c) PROVE engine'[id] = engine[id]
  BY <1>3, EngineStops DEF Pause, SetPaused
<1>4. ASSUME NEW c \in Clients, Resume(c) PROVE engine'[id] = engine[id]
  <2>1. CASE req[c].id = id
    <3>1. Resumed(engine[req[c].id], req[c].id \in finished) = {}
      BY <2>1 DEF Resumed, MemoryResumed, RqbitResumed
    <3>2. QED
      BY <1>4, <3>1 DEF Resume, SetPaused
  <2>2. CASE req[c].id # id
    BY <1>4, <2>2 DEF Resume, SetPaused
  <2>3. QED
    BY <2>1, <2>2
<1>5. ASSUME NEW c \in Clients, Cancel(c) PROVE engine'[id] \in {"none", engine[id]}
  BY <1>5, EngineStops DEF Cancel
<1>6. ASSUME NEW c \in Clients, Forget(c) PROVE engine'[id] \in {"none", engine[id]}
  BY <1>6 DEF Forget
<1>7. ASSUME NEW i \in Ids, Progress(i) PROVE engine'[id] = engine[id]
  BY <1>7, EngineStops DEF Progress
<1>8. CASE Restart
  BY <1>8 DEF Restart, NoSnap
<1>9. QED
  BY <1>1, <1>2, <1>3, <1>4, <1>5, <1>6, <1>7, <1>8, EngineFrame

LEMMA ForgottenStep ==
    ASSUME TypeOK, OnlyUsedIds, ForgottenBeforeDelete, RemovedIsForgotten, [Next]_vars
    PROVE  ForgottenBeforeDelete' /\ RemovedIsForgotten'
<1>1. \A id \in used : engine[id] = "none" => engine'[id] = "none"
  BY StoppedStep DEF Stopped
<1>2. ForgottenBeforeDelete'
  <2> SUFFICES ASSUME NEW c \in Clients, req'[c].pc = "deleteRow"
               PROVE  engine'[req'[c].id] = "none"
    BY DEF ForgottenBeforeDelete
  <2>1. CASE req'[c] = req[c]
    BY <2>1, <1>1 DEF ForgottenBeforeDelete, OnlyUsedIds
  <2>2. CASE Forget(c)
    BY <2>2 DEF Forget, TypeOK
  <2>3. req'[c] = req[c] \/ Forget(c)
    <3> USE DEF TypeOK, Idle, syncVars
    <3>1. CASE SyncStep
      BY <3>1 DEF SyncStep, SyncList, SyncRead, SyncWrite, Upserted, SyncOrganize, SyncRows,
         SyncOrphan, SyncDone
    <3>2. ASSUME NEW d \in Clients, Handle(d) PROVE req'[c] = req[c] \/ Forget(c)
      <4>1. CASE Pause(d) \/ Resume(d)
        BY <4>1 DEF Pause, Resume, SetPaused
      <4>2. CASE Get(d)
        BY <4>2 DEF Get
      <4>3. CASE Store(d) \/ StoreCancelled(d) \/ DeleteRow(d)
        BY <4>3 DEF Store, StoreCancelled, StoreRow, Upserted, DeleteRow
      <4>4. CASE Cancel(d)
        BY <4>4 DEF Cancel
      <4>5. CASE Forget(d)
        BY <4>5 DEF Forget
      <4>6. QED
        BY <3>2, <4>1, <4>2, <4>3, <4>4, <4>5 DEF Handle
    <3>3. ASSUME NEW d \in Clients, Arrive(d) PROVE req'[c] = req[c]
      BY <3>3 DEF Arrive, Add, Request
    <3>4. ASSUME NEW id \in Ids, Progress(id) PROVE req'[c] = req[c]
      BY <3>4 DEF Progress
    <3>5. ~ Restart
      BY DEF Restart
    <3>6. CASE UNCHANGED vars
      BY <3>6 DEF vars
    <3>7. QED
      BY <3>1, <3>2, <3>3, <3>4, <3>5, <3>6 DEF Next
  <2>4. QED
    BY <2>1, <2>2, <2>3
<1>3. RemovedIsForgotten'
  <2>1. removed' = removed \/ \E c \in Clients : DeleteRow(c)
    BY DEF Next, SyncStep, SyncList, SyncRead, SyncWrite, Upserted, SyncOrganize, SyncRows, SyncOrphan,
       SyncDone, Handle, Arrive, Add, Request, Pause, Resume, SetPaused, Get, Store,
       StoreCancelled, StoreRow, Upserted, Cancel, Forget, Progress, Restart, vars
  <2>2. CASE removed' = removed
    BY <2>2, <1>1 DEF RemovedIsForgotten, OnlyUsedIds
  <2>3. ASSUME NEW c \in Clients, DeleteRow(c) PROVE RemovedIsForgotten'
    BY <2>3 DEF DeleteRow, RemovedIsForgotten, ForgottenBeforeDelete
  <2>4. QED
    BY <2>1, <2>2, <2>3
<1>4. QED
  BY <1>2, <1>3

LEMMA FinishedStep ==
    ASSUME TypeOK, CompletedIsFinished, OrganizedOnlyWhenFinished, [Next]_vars
    PROVE  CompletedIsFinished' /\ OrganizedOnlyWhenFinished'
<1> USE DEF TypeOK, CompletedIsFinished, OrganizedOnlyWhenFinished, syncVars
<1> DEFINE Goal == CompletedIsFinished' /\ OrganizedOnlyWhenFinished'
<1>1. CASE SyncStep
  <2>1. CASE SyncList
    BY <2>1 DEF SyncList
  <2>2. ASSUME NEW id \in Ids, SyncRead(id) PROVE Goal
    BY <2>2 DEF SyncRead
  <2>3. CASE SyncWrite
    BY <2>3 DEF SyncWrite, Upserted, FirstCompleted
  <2>4. CASE SyncOrganize
    BY <2>4 DEF SyncOrganize
  <2>5. CASE SyncRows
    BY <2>5 DEF SyncRows
  <2>6. ASSUME NEW id \in Ids, SyncOrphan(id) PROVE Goal
    BY <2>6 DEF SyncOrphan, Upserted
  <2>7. CASE SyncDone
    BY <2>7 DEF SyncDone, NoSnap
  <2>8. QED
    BY <1>1, <2>1, <2>2, <2>3, <2>4, <2>5, <2>6, <2>7 DEF SyncStep
<1>2. ASSUME NEW c \in Clients, NEW id \in Ids, Add(c, id) PROVE Goal
  BY <1>2, EngineCompletes DEF Add
<1>3. ASSUME NEW c \in Clients, NEW id \in Ids, NEW first, Request(c, id, first) PROVE Goal
  BY <1>3 DEF Request
<1>4. ASSUME NEW c \in Clients, Pause(c) PROVE Goal
  <2>1. "completed" \notin Paused(engine[req[c].id])
    BY DEF Paused, MemoryPaused, RqbitPaused
  <2>2. QED
    BY <1>4, <2>1 DEF Pause, SetPaused
<1>5. ASSUME NEW c \in Clients, Resume(c) PROVE Goal
  <2>1. \A s \in Resumed(engine[req[c].id], req[c].id \in finished) :
            s = "completed" => req[c].id \in finished
    BY DEF Resumed, MemoryResumed, RqbitResumed
  <2>2. QED
    BY <1>5, <2>1 DEF Resume, SetPaused
<1>6. ASSUME NEW c \in Clients, Cancel(c) PROVE Goal
  <2>1. UNCHANGED <<finished, library, snap, cur, syncPc>>
    BY <1>6 DEF Cancel
  <2>2. CASE UNCHANGED engine
    BY <2>1, <2>2
  <2> HIDE DEF Goal
  <2>3. req[c].id \in Ids /\ engine[req[c].id] \in EngineState
    BY <1>6 DEF Cancel
  <2>4. ASSUME NEW s \in Cancelled(engine[req[c].id]),
               engine' = [engine EXCEPT ![req[c].id] = s]
        PROVE  Goal
    <3>1. s # "completed"
      BY <2>3, <2>4, EngineCompletes
    <3>2. \A id \in Ids : engine'[id] = "completed" => engine[id] = "completed"
      BY <2>4, <3>1
    <3>3. QED
      BY <2>1, <3>2 DEF Goal
  <2>5. QED
    BY <1>6, <2>2, <2>4 DEF Cancel
<1>7. ASSUME NEW c \in Clients, Forget(c) PROVE Goal
  BY <1>7 DEF Forget
<1>8. ASSUME NEW c \in Clients, Get(c) \/ Store(c) \/ StoreCancelled(c) \/ DeleteRow(c)
      PROVE  Goal
  BY <1>8 DEF Get, Store, StoreCancelled, StoreRow, Upserted, DeleteRow
<1>9. ASSUME NEW id \in Ids, Progress(id) PROVE Goal
  BY <1>9 DEF Progress
<1>10. CASE Restart
  BY <1>10 DEF Restart, NoSnap
<1>11. CASE UNCHANGED vars
  BY <1>11 DEF vars
<1>12. QED
  BY <1>1, <1>2, <1>3, <1>4, <1>5, <1>6, <1>7, <1>8, <1>9, <1>10, <1>11
     DEF Next, Handle, Arrive

\* Anything but a step of the sync task, or of a handler that changes neither
\* the engine nor a row, ends the quiet.
LEMMA QuietFrame ==
    ASSUME [Next]_vars, quiet'
    PROVE  \/ SyncStep
           \/ UNCHANGED <<engine, rows, syncVars, quiet>>
<1>1. ASSUME NEW c \in Clients, Handle(c) PROVE UNCHANGED <<engine, rows, syncVars, quiet>>
  BY <1>1 DEF Handle, Pause, Resume, SetPaused, Get, Store, StoreCancelled, StoreRow, Upserted,
     Cancel, Forget, DeleteRow
<1>2. ASSUME NEW c \in Clients, Arrive(c) PROVE UNCHANGED <<engine, rows, syncVars, quiet>>
  BY <1>2 DEF Arrive, Add, Request
<1>3. (\A id \in Ids : ~ Progress(id)) /\ ~ Restart
  BY DEF Progress, Restart
<1>4. QED
  BY <1>1, <1>2, <1>3 DEF Next, vars

LEMMA QuietStep ==
    ASSUME TypeOK, QuietProgress, [Next]_vars
    PROVE  QuietProgress'
<1> SUFFICES ASSUME quiet' PROVE QuietProgress'
  BY DEF QuietProgress
<1>1. CASE UNCHANGED <<engine, rows, syncVars, quiet>>
  BY <1>1 DEF QuietProgress, Agrees, syncVars
<1>2. CASE SyncStep
  <2> USE DEF TypeOK, QuietProgress, Agrees
  <2>1. CASE SyncList
    BY <2>1 DEF SyncList, Known
  <2>2. ASSUME NEW id \in Ids, SyncRead(id) PROVE QuietProgress'
    <3>1. CASE rows[id] = snap[id] /\ todo' = todo \ {id} /\ UNCHANGED <<syncPc, cur>>
      BY <2>2, <3>1 DEF SyncRead
    <3>2. CASE syncPc' = "write" /\ cur' = id /\ UNCHANGED todo
      BY <2>2, <3>2 DEF SyncRead
    <3>3. QED
      BY <2>2, <3>1, <3>2 DEF SyncRead
  <2>3. CASE SyncWrite
    BY <2>3 DEF SyncWrite, Upserted
  <2>4. CASE SyncOrganize
    BY <2>4 DEF SyncOrganize
  <2>5. CASE SyncRows
    BY <2>5 DEF SyncRows, Missing
  <2>6. ASSUME NEW id \in Ids, SyncOrphan(id) PROVE QuietProgress'
    BY <2>6 DEF SyncOrphan, Upserted, Terminal
  <2>7. CASE SyncDone
    BY <2>7 DEF SyncDone
  <2>8. QED
    BY <1>2, <2>1, <2>2, <2>3, <2>4, <2>5, <2>6, <2>7 DEF SyncStep
<1>3. QED
  BY <1>1, <1>2, QuietFrame

LEMMA CurStep ==
    ASSUME TypeOK, CurIsTodo, [Next]_vars
    PROVE  CurIsTodo'
<1> USE DEF TypeOK, CurIsTodo, syncVars
<1>1. CASE SyncStep
  <2>1. CASE SyncList \/ SyncOrganize \/ SyncRows \/ SyncDone
    BY <2>1 DEF SyncList, SyncOrganize, SyncRows, SyncDone
  <2>2. CASE SyncWrite
    BY <2>2 DEF SyncWrite
  <2>3. ASSUME NEW id \in Ids, SyncRead(id) \/ SyncOrphan(id) PROVE CurIsTodo'
    BY <2>3 DEF SyncRead, SyncOrphan
  <2>4. QED
    BY <1>1, <2>1, <2>2, <2>3 DEF SyncStep
<1>2. CASE UNCHANGED syncVars
  BY <1>2
<1>3. SyncStep \/ Restart \/ UNCHANGED syncVars
  <2>1. ASSUME NEW c \in Clients, Handle(c) PROVE UNCHANGED syncVars
    BY <2>1 DEF Handle, Pause, Resume, SetPaused, Get, Store, StoreCancelled, StoreRow,
       Cancel, Forget, DeleteRow
  <2>2. ASSUME NEW c \in Clients, Arrive(c) PROVE UNCHANGED syncVars
    BY <2>2 DEF Arrive, Add, Request
  <2>3. ASSUME NEW id \in Ids, Progress(id) PROVE UNCHANGED syncVars
    BY <2>3 DEF Progress
  <2>4. CASE UNCHANGED vars
    BY <2>4 DEF vars
  <2>5. QED
    BY <2>1, <2>2, <2>3, <2>4 DEF Next
<1>4. CASE Restart
  BY <1>4 DEF Restart
<1>5. QED
  BY <1>1, <1>2, <1>3, <1>4

\* A drained deletion survives every step.
LEMMA GoneStep ==
    ASSUME TypeOK, OnlyUsedIds, CurIsTodo, [Next]_vars, NEW id \in Ids, Gone(id)
    PROVE  Gone(id)'
<1>1. id \in removed /\ engine[id] = "none" /\ rows[id] = "none" /\ id \notin todo
  BY DEF Gone, InFlight
<1>2. \A c \in Clients : req[c].id # id
  BY DEF Gone, InFlight
<1>3. engine'[id] = "none"
  BY <1>1, StoppedStep DEF Stopped, OnlyUsedIds
<1>4. removed \subseteq removed'
  <2>1. CASE SyncStep
    BY <2>1 DEF SyncStep, SyncList, SyncRead, SyncWrite, SyncOrganize, SyncRows, SyncOrphan, SyncDone
  <2>2. ASSUME NEW c \in Clients, Handle(c) PROVE removed \subseteq removed'
    BY <2>2 DEF Handle, Pause, Resume, SetPaused, Get, Store, StoreCancelled, StoreRow,
       Cancel, Forget, DeleteRow
  <2>3. ASSUME NEW c \in Clients, Arrive(c) PROVE removed \subseteq removed'
    BY <2>3 DEF Arrive, Add, Request
  <2>4. CASE Restart \/ UNCHANGED vars \/ \E i \in Ids : Progress(i)
    BY <2>4 DEF Restart, Progress, vars
  <2>5. QED
    BY <2>1, <2>2, <2>3, <2>4 DEF Next
<1>5. rows'[id] = "none" /\ id \notin todo' /\ \A c \in Clients : req'[c].id # id
  <2> USE <1>1, <1>2 DEF TypeOK, syncVars, Idle
  <2>1. CASE SyncStep
    BY <2>1 DEF SyncStep, SyncList, SyncRead, SyncWrite, Upserted, SyncOrganize, SyncRows, SyncOrphan,
       SyncDone, Known, Missing, CurIsTodo
  <2>2. ASSUME NEW c \in Clients, Handle(c)
        PROVE  rows'[id] = "none" /\ id \notin todo' /\ \A d \in Clients : req'[d].id # id
    <3>1. CASE Pause(c) \/ Resume(c)
      BY <3>1, SyncAssumption DEF Pause, Resume, SetPaused
    <3>2. CASE Get(c)
      BY <3>2, SyncAssumption DEF Get
    <3>3. CASE Store(c) \/ StoreCancelled(c) \/ DeleteRow(c)
      BY <3>3, SyncAssumption DEF Store, StoreCancelled, StoreRow, Upserted, DeleteRow
    <3>4. CASE Cancel(c) \/ Forget(c)
      BY <3>4 DEF Cancel, Forget
    <3>5. QED
      BY <2>2, <3>1, <3>2, <3>3, <3>4 DEF Handle
  <2>3. ASSUME NEW c \in Clients, NEW i \in Ids, Add(c, i)
        PROVE  rows'[id] = "none" /\ id \notin todo' /\ \A d \in Clients : req'[d].id # id
    BY <2>3 DEF Add, OnlyUsedIds
  <2>4. ASSUME NEW c \in Clients, NEW i \in Ids, NEW first, Request(c, i, first)
        PROVE  rows'[id] = "none" /\ id \notin todo' /\ \A d \in Clients : req'[d].id # id
    BY <2>4 DEF Request
  <2>5. ASSUME NEW i \in Ids, Progress(i)
        PROVE  rows'[id] = "none" /\ id \notin todo' /\ \A d \in Clients : req'[d].id # id
    BY <2>5 DEF Progress
  <2>6. CASE Restart
    BY <2>6, SyncAssumption DEF Restart
  <2>7. CASE UNCHANGED vars
    BY <2>7 DEF vars
  <2>8. QED
    BY <2>1, <2>2, <2>3, <2>4, <2>5, <2>6, <2>7 DEF Next, Arrive
<1>6. QED
  BY <1>3, <1>4, <1>5 DEF Gone, InFlight

LEMMA IInvInit == Init => IInv
  BY TypeInit DEF Init, IInv, OnlyUsedIds, ForgottenBeforeDelete, RemovedIsForgotten,
     CompletedIsFinished, OrganizedOnlyWhenFinished, QuietProgress, Agrees, NoSnap, Idle,
     CurIsTodo

LEMMA IInvStep == IInv /\ [Next]_vars => IInv'
  BY TypeStep, UsedStep, ForgottenStep, FinishedStep, QuietStep, CurStep DEF IInv

LEMMA Inductive == Spec => []IInv
  BY IInvInit, IInvStep, PTL DEF Spec

-----------------------------------------------------------------------------
(* The results. *)

\* A pass of the sync loop that nothing disturbs leaves the transfers table in
\* agreement with the engine (housekeeping.rs 55-177).
THEOREM Reconciles == Spec => []ReconciledAfterQuietTick
<1>1. IInv => ReconciledAfterQuietTick
  BY DEF IInv, QuietProgress, ReconciledAfterQuietTick
<1>2. QED
  BY <1>1, Inductive, PTL

\* A deleted transfer never comes back to the engine (routes.rs 217-226).
THEOREM DeletionForgets == Spec => []RemovedIsForgotten
<1>1. IInv => RemovedIsForgotten
  BY DEF IInv
<1>2. QED
  BY <1>1, Inductive, PTL

\* Only files of a download that has been complete are moved to the library
\* (housekeeping.rs 112-129).
THEOREM OrganizesFinished == Spec => []OrganizedOnlyWhenFinished
<1>1. IInv => OrganizedOnlyWhenFinished
  BY DEF IInv
<1>2. QED
  BY <1>1, Inductive, PTL

\* No request that was under way sets a stopped transfer going again
\* (TorrentEngine::cancel, ::pause, ::resume of both engines).
THEOREM CancelIsFinal == Spec => StoppedStaysStopped
<1>1. IInv /\ [Next]_vars => [Stopped]_vars
  BY StoppedStep DEF IInv
<1>2. QED
  BY <1>1, Inductive, PTL DEF Spec, StoppedStaysStopped, Stopped

\* Once a deletion has drained the transfer never pops back up
\* (routes.rs 217-226 against every other actor).
THEOREM DeletionIsFinal == Spec => DrainedDeletionIsFinal
<1> DEFINE Stable == \A id \in Ids : Gone(id) => Gone(id)'
<1>1. IInv /\ [Next]_vars => [Stable]_vars
  BY GoneStep DEF IInv
<1>2. QED
  BY <1>1, Inductive, PTL DEF Spec, DrainedDeletionIsFinal
=============================================================================

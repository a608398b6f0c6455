------------------------------ MODULE SearchProofs ------------------------------
(***************************************************************************)
(* Theorems about searches: the table, the backends and the handlers       *)
(* (SearchSessions), and what one search of the hook backend returns       *)
(* (HookSearch), for any searches, clients, pages, sources and bounds.     *)
(*                                                                         *)
(* SearchSessions has one inductive invariant.  Table and client agree     *)
(* because a search is known to one instance only, which was the           *)
(* registered one, and because a new instance knows none: Newest.  Until   *)
(* its row is stored nobody else can stop or expire it: Pending.  What a   *)
(* handler holds between two awaits stays true of its id: Stopping and     *)
(* Resolving.                                                              *)
(*                                                                         *)
(* HookSearch rests on what its lists do: Fill is followed one magnet at a *)
(* time (FillSteps, NoteSteps), and a statement about all its steps is an  *)
(* induction over an explicit set of positions (Along).  While the sites   *)
(* are asked the list is what was offered, cut to the budget; while the    *)
(* engines are asked their list and the sites' hold everything offered.    *)
(* Cutting the engines' list is harmless since a list without duplicates   *)
(* cannot be held by a shorter one (Fits).                                 *)
(***************************************************************************)
EXTENDS SearchSessions, HookSearch, FiniteSetTheorems, SequenceTheorems, TLAPS

RequestPc == {"idle", "search", "row", "stop", "stopped", "resolved", "add", "refused"}

Request == [pc : RequestPc, id : Ids, inst : 0 .. connected, to : 0 .. connected]

WellFormed == req \in [Clients -> Request]

Memories ==
    /\ searches \in [Instances -> SUBSET Ids]
    /\ found \in [Instances -> SUBSET Ids] /\ cached \in [Instances -> SUBSET Ids]

\* A search that is being added has no row yet, and one handler only.
Adding(c) == req[c].pc \in {"search", "row"}

Pending ==
    \A c \in Clients : Adding(c) =>
        /\ rows[req[c].id] = "none"
        /\ \A d \in Clients \ {c} : Adding(d) => req[d].id # req[c].id

\* It is started once, on the instance registered then.
Starting ==
    \A c \in Clients :
        /\ req[c].pc = "search" =>
              /\ origin[req[c].id] = 0 /\ req[c].inst <= registered.search
              /\ req[c].id \notin HookIds => req[c].inst # 0
        /\ req[c].pc = "row" /\ req[c].id \notin HookIds =>
              /\ origin[req[c].id] # 0
              /\ origin[req[c].id] = registered.search => req[c].id \in searches[origin[req[c].id]]

\* The instance that is registered next knows no search, and none was started on it.
Newest ==
    /\ registered.search <= registered.transfer
    /\ \A n \in Instances : searches[n] # {} => n <= registered.search
    /\ registered.search # registered.transfer => \A id \in Ids : origin[id] # registered.transfer

Stopping ==
    \A c \in Clients :
        /\ req[c].pc \in {"stop", "stopped"} => rows[req[c].id] # "none"
        /\ req[c].pc = "stopped" /\ req[c].id \notin HookIds /\ registered.search # 0 =>
              req[c].id \notin searches[registered.search]

Swept == \A id \in sweep : rows[id] \in Ended

Stored == \A id \in Ids \ HookIds : rows[id] # "none" => origin[id] # 0

Resolving ==
    \A c \in Clients : req[c].pc \in {"resolved", "add"} =>
        req[c].inst \in Instances /\ req[c].id \in cached[req[c].inst]

Ties == Pending /\ Starting /\ Newest /\ Stopping /\ Swept /\ Stored /\ Resolving

Promises == EndedIsSilent /\ ActiveIsAnswered /\ RefusedOnlyAcrossClients

IInv == TypeOK /\ WellFormed /\ Memories /\ Ties /\ Promises

-----------------------------------------------------------------------------
(* Types. *)

LEMMA SpendType ==
    ASSUME spare \in [{"requests", "restarts", "faults"} -> Nat],
           NEW kind \in {"requests", "restarts", "faults"}, Spend(kind)
    PROVE  spare' \in [{"requests", "restarts", "faults"} -> Nat]
  BY DEF Spend

LEMMA NoRequestType == TypeOK => NoRequest \in Request /\ NoRequest.pc = "idle"
<1>1. NoRequest.id \in Ids
  BY SearchAssumption DEF NoRequest
<1>2. QED
  BY <1>1, SearchAssumption DEF NoRequest, Request, RequestPc, TypeOK

\* A handler goes on: only the place it is at changes.
LEMMA GotoFacts ==
    ASSUME WellFormed, NEW c \in Clients, NEW place \in RequestPc, Goto(c, place)
    PROVE  /\ req'[c].pc = place /\ req'[c].id = req[c].id
           /\ req'[c].inst = req[c].inst /\ req'[c].to = req[c].to
           /\ \A d \in Clients \ {c} : req'[d] = req[d]
           /\ UNCHANGED connected => WellFormed'
  BY DEF WellFormed, Request, Goto

\* A handler ends.
LEMMA DoneFacts ==
    ASSUME TypeOK, WellFormed, NEW c \in Clients, Done(c)
    PROVE  /\ req'[c].pc = "idle"
           /\ \A d \in Clients \ {c} : req'[d] = req[d]
           /\ UNCHANGED connected => WellFormed'
  BY NoRequestType DEF WellFormed, Request, Done

LEMMA TypeInit == Init => TypeOK /\ WellFormed
<1>1. SUFFICES ASSUME Init PROVE TypeOK /\ WellFormed
  OBVIOUS
<1>2. NoRequest.id \in Ids /\ NoRequest.pc = "idle" /\ NoRequest.inst = 0 /\ NoRequest.to = 0
  BY SearchAssumption DEF NoRequest
<1>3. TypeOK
  BY <1>1, <1>2, SearchAssumption DEF Init, TypeOK, Instances, Ended
<1>4. WellFormed
  BY <1>1, <1>3, NoRequestType DEF Init, WellFormed
<1>5. QED
  BY <1>3, <1>4

LEMMA TypeStep == TypeOK /\ WellFormed /\ Ties /\ [Next]_vars => TypeOK' /\ WellFormed'
<1> SUFFICES ASSUME TypeOK, WellFormed, Ties, [Next]_vars PROVE TypeOK' /\ WellFormed'
  OBVIOUS
<1> USE SearchAssumption
<1>0. ASSUME NEW c \in Clients, NEW r \in Request, req' = [req EXCEPT ![c] = r], UNCHANGED connected
      PROVE  WellFormed'
  BY <1>0 DEF WellFormed, Request
<1>1. ASSUME NEW c \in Clients, NEW id \in Ids, AddSearch(c, id) PROVE TypeOK' /\ WellFormed'
  <2>1. [pc |-> "search", id |-> id, inst |-> registered.search, to |-> 0] \in Request
    BY DEF TypeOK, Request, RequestPc
  <2>2. WellFormed'
    BY <1>0, <1>1, <2>1 DEF AddSearch
  <2>3. QED
    BY <1>1, <2>2, SpendType DEF AddSearch, TypeOK, WellFormed, Request, Instances, Ended
<1>2. ASSUME NEW c \in Clients, NEW id \in Ids, StopSearch(c, id) PROVE TypeOK' /\ WellFormed'
  <2>1. [NoRequest EXCEPT !.pc = "stop", !.id = id] \in Request
    BY NoRequestType DEF Request, RequestPc
  <2>2. WellFormed'
    BY <1>0, <1>2, <2>1 DEF StopSearch, Known
  <2>3. \A d \in Clients : req'[d].id \in Ids /\ {req'[d].inst, req'[d].to} \subseteq 0 .. connected
    <3>1. UNCHANGED connected
      BY <1>2 DEF StopSearch, Known
    <3>2. QED
      BY <2>2, <3>1 DEF WellFormed, Request
  <2>4. QED
    BY <1>2, <2>2, <2>3, SpendType DEF StopSearch, Known, TypeOK
<1>3. ASSUME NEW c \in Clients, NEW id \in Ids, Resolve(c, id) PROVE TypeOK' /\ WellFormed'
  <2>1. [pc |-> "resolved", id |-> id, inst |-> registered.search, to |-> 0] \in Request
    BY DEF TypeOK, Request, RequestPc
  <2>2. WellFormed'
    BY <1>0, <1>3, <2>1 DEF Resolve, Results
  <2>3. QED
    BY <1>3, <2>2, SpendType DEF Resolve, Results, TypeOK, WellFormed, Request, Instances, Ended
<1>4. ASSUME NEW c \in Clients, Searched(c) PROVE TypeOK' /\ WellFormed'
  <2>1. WellFormed'
    BY <1>4, GotoFacts, DoneFacts DEF Searched, RequestPc
  <2>2. /\ req[c].id \in Ids /\ req[c].inst \in 0 .. connected /\ origin[req[c].id] = 0
        /\ req[c].id \notin HookIds => req[c].inst \in Instances
    BY <1>4 DEF Searched, WellFormed, Request, TypeOK, Ties, Starting, Instances
  <2>3. CASE UNCHANGED <<hook, searches, origin>>
    BY <1>4, <2>1, <2>3, SpendType DEF Searched, TypeOK, WellFormed, Request,
          Instances, Ended
  <2>4. CASE hook' = hook \cup {req[c].id} /\ req[c].id \in HookIds /\ UNCHANGED <<searches, origin, spare>>
    BY <1>4, <2>1, <2>4 DEF Searched, TypeOK, WellFormed, Request, Instances, Ended
  <2>5. CASE /\ searches' = [searches EXCEPT ![req[c].inst] = @ \cup {req[c].id}]
             /\ origin' = [origin EXCEPT ![req[c].id] = req[c].inst]
             /\ req[c].id \notin HookIds /\ UNCHANGED <<hook, spare>>
    <3>1. /\ origin' \in [Ids -> 0 .. connected] /\ origin'[req[c].id] = req[c].inst
          /\ \A i \in Ids \ {req[c].id} : origin'[i] = origin[i]
      BY <2>2, <2>5 DEF TypeOK
    <3>2. \A n \in Instances : searches'[n] \subseteq {i \in Ids \ HookIds : origin'[i] = n}
      BY <2>2, <2>5, <3>1 DEF TypeOK, Instances
    <3>3. \A n \in Instances : found[n] \subseteq {i \in Ids : origin'[i] = n}
      BY <2>2, <3>1 DEF TypeOK, Instances
    <3>4. QED
      BY <1>4, <2>1, <2>5, <3>1, <3>2, <3>3 DEF Searched, TypeOK, WellFormed, Request,
            Instances, Ended
  <2>6. QED
    BY <1>4, <2>3, <2>4, <2>5 DEF Searched
<1>5. ASSUME NEW c \in Clients, StoreSearch(c) PROVE TypeOK' /\ WellFormed'
  <2>1. WellFormed' /\ req[c].id \in Ids
    BY <1>5, DoneFacts DEF StoreSearch, Upsert, WellFormed, Request
  <2>2. QED
    <3>1. /\ UNCHANGED <<due, registered, connected, searches, found, cached, hook, origin, unstored, sweep>>
          /\ \A d \in Clients : req'[d].id \in Ids /\ {req'[d].inst, req'[d].to} \subseteq 0 .. connected
      BY <1>5, <2>1 DEF StoreSearch, Upsert, WellFormed, Request
    <3>2. CASE rows' = [rows EXCEPT ![req[c].id] = "active"] /\ UNCHANGED spare
      BY <2>1, <3>1, <3>2 DEF TypeOK, Instances, Ended
    <3>3. CASE UNCHANGED rows /\ Spend("faults")
      <4>1. spare' \in [{"requests", "restarts", "faults"} -> Nat]
        BY <3>3, SpendType DEF TypeOK
      <4>2. UNCHANGED rows
        BY <3>3
      <4>3. QED
        BY <2>1, <3>1, <4>1, <4>2 DEF TypeOK, Instances
    <3>4. QED
      BY <1>5, <2>1, <3>2, <3>3 DEF StoreSearch, Upsert
<1>6. ASSUME NEW c \in Clients, StopBackend(c) PROVE TypeOK' /\ WellFormed'
  <2>1. WellFormed'
    BY <1>6, GotoFacts DEF StopBackend, RequestPc
  <2>2. \A d \in Clients : req'[d].id \in Ids /\ {req'[d].inst, req'[d].to} \subseteq 0 .. connected
    BY <1>6, <2>1 DEF StopBackend, WellFormed, Request
  <2>3. hook' \subseteq HookIds /\ \A n \in Instances : searches'[n] \subseteq searches[n]
    BY <1>6 DEF StopBackend, Silence, TypeOK
  <2>4. QED
    BY <1>6, <2>1, <2>2, <2>3 DEF StopBackend, TypeOK
<1>7. ASSUME NEW c \in Clients, StoreStopped(c) PROVE TypeOK' /\ WellFormed'
  BY <1>7, DoneFacts, SpendType DEF StoreStopped, Upsert, TypeOK, WellFormed, Request,
        Instances, Ended
<1>8. ASSUME NEW c \in Clients, PickTransferBackend(c) PROVE TypeOK' /\ WellFormed'
  <2>1. registered.transfer \in 0 .. connected /\ req[c] \in Request
    BY DEF TypeOK, WellFormed
  <2> DEFINE r == [req[c] EXCEPT !.pc = "add", !.to = registered.transfer]
  <2>2. r \in Request
    BY <2>1 DEF Request, RequestPc
  <2>3. req' = [req EXCEPT ![c] = r]
    BY <1>8 DEF PickTransferBackend
  <2>4. WellFormed'
    BY <1>0, <1>8, <2>2, <2>3 DEF PickTransferBackend
  <2>5. QED
    BY <1>8, <2>4 DEF PickTransferBackend, TypeOK, WellFormed, Request, Instances, Ended
<1>9. ASSUME NEW c \in Clients, AddDownload(c) PROVE TypeOK' /\ WellFormed'
  <2>1. WellFormed'
    BY <1>9, GotoFacts, DoneFacts DEF AddDownload, RequestPc
  <2>2. QED
    BY <1>9, <2>1 DEF AddDownload, TypeOK, WellFormed, Request, Instances, Ended
<1>10. ASSUME NEW c \in Clients, Refuse(c) PROVE TypeOK' /\ WellFormed'
  BY <1>10, DoneFacts DEF Refuse, TypeOK, WellFormed, Request, Instances, Ended
<1>11. ASSUME NEW n \in Instances, NEW id \in Ids, PeerResult(n, id) PROVE TypeOK' /\ WellFormed'
  BY <1>11 DEF PeerResult, TypeOK, WellFormed, Request, Instances, Ended
<1>12. ASSUME NEW id \in Ids, Lapse(id) PROVE TypeOK' /\ WellFormed'
  BY <1>12 DEF Lapse, TypeOK, WellFormed, Request, Instances, Ended
<1>13. ASSUME NEW id \in Ids, ShowResults(id) PROVE TypeOK' /\ WellFormed'
  BY <1>13 DEF ShowResults, Known, Results, TypeOK, WellFormed, Request, Instances, Ended
<1>14. ASSUME NEW id \in Ids, StopExpired(id) PROVE TypeOK' /\ WellFormed'
  BY <1>14 DEF StopExpired, Silence, TypeOK, WellFormed, Request, Instances, Ended
<1>15. CASE ExpireSearches
  BY <1>15, SpendType DEF ExpireSearches, Expirable, TypeOK, WellFormed, Request,
        Instances, Ended
<1>16. CASE Connect
  BY <1>16 DEF Connect, TypeOK, WellFormed, Request, Instances, Ended
<1>17. CASE RegisterSearch
  BY <1>17 DEF RegisterSearch, TypeOK, WellFormed, Request, Instances, Ended
<1>18. CASE Restart
  <2>1. WellFormed' /\ NoRequest \in Request
    BY <1>18, NoRequestType DEF Restart, WellFormed, Request
  <2>2. QED
    BY <1>18, <2>1, SpendType, SMTT(30) DEF Restart, TypeOK, WellFormed, Request, Instances, Ended
<1>19. CASE UNCHANGED vars
  BY <1>19 DEF vars, TypeOK, WellFormed, Request, Instances, Ended
<1>20. QED
  BY <1>1, <1>2, <1>3, <1>4, <1>5, <1>6, <1>7, <1>8, <1>9, <1>10, <1>11, <1>12, <1>13,
        <1>14, <1>15, <1>16, <1>17, <1>18, <1>19 DEF Next, Handle, Sweep

LEMMA MemoriesStep == TypeOK /\ WellFormed /\ Memories /\ [Next]_vars => Memories'
<1> SUFFICES ASSUME TypeOK, WellFormed, Memories, [Next]_vars PROVE Memories'
  OBVIOUS
<1> USE DEF Memories
<1>1. ASSUME NEW c \in Clients, NEW id \in Ids, AddSearch(c, id) \/ StopSearch(c, id) \/ Resolve(c, id)
      PROVE  Memories'
  BY <1>1 DEF AddSearch, StopSearch, Resolve, Results
<1>2. ASSUME NEW c \in Clients, Handle(c) PROVE Memories'
  BY <1>2 DEF Handle, Searched, StoreSearch, StopBackend, Silence, StoreStopped,
        PickTransferBackend,
              AddDownload, Refuse, WellFormed, Request
<1>3. ASSUME NEW n \in Instances, NEW id \in Ids, PeerResult(n, id) PROVE Memories'
  BY <1>3 DEF PeerResult
<1>4. ASSUME NEW id \in Ids, Lapse(id) \/ ShowResults(id) PROVE Memories'
  BY <1>4 DEF Lapse, ShowResults, Results
<1>5. CASE Sweep
  BY <1>5 DEF Sweep, ExpireSearches, StopExpired, Silence
<1>6. CASE Connect \/ RegisterSearch \/ Restart
  BY <1>6 DEF Connect, RegisterSearch, Restart
<1>7. CASE UNCHANGED vars
  BY <1>7 DEF vars
<1>8. QED
  BY <1>1, <1>2, <1>3, <1>4, <1>5, <1>6, <1>7 DEF Next

\* stop() of the registered client takes the search away from it, and nothing else.
LEMMA SilenceFacts ==
    ASSUME TypeOK, NEW id \in Ids, Silence(id)
    PROVE  /\ \A n \in Instances : searches'[n] \subseteq searches[n]
           /\ \A n \in Instances : searches[n] \subseteq searches'[n] \cup {id}
           /\ registered.search # 0 => id \notin searches'[registered.search]
  BY SearchAssumption DEF Silence, TypeOK, Instances

\* The first step of a search on its instance keeps all links.
LEMMA SearchedLinks ==
    ASSUME TypeOK, WellFormed, Memories, Ties, NEW c \in Clients, Searched(c)
    PROVE  Ties'
<1> DEFINE id == req[c].id
           inst == req[c].inst
<1>1. /\ id \in Ids /\ req[c].pc = "search" /\ origin[id] = 0 /\ rows[id] = "none"
      /\ inst \in 0 .. connected /\ inst <= registered.search
      /\ id \notin HookIds => inst \in Instances
  BY SearchAssumption DEF Searched, WellFormed, Request, TypeOK, Ties, Pending,
        Starting, Adding, Instances
<1>2. /\ registered.search \in 0 .. connected /\ registered.transfer \in 0 .. connected
      /\ connected \in Nat /\ connected <= MaxConnects /\ MaxConnects \in Nat
      /\ UNCHANGED <<rows, registered, connected, cached, sweep>>
  BY SearchAssumption DEF TypeOK, Searched
<1>3. ASSUME NEW d \in Clients \ {c}
      PROVE  Adding(d) => rows[req[d].id] = "none" /\ req[d].id # id
  BY <1>1 DEF Ties, Pending, Adding
<1>4. /\ \A d \in Clients : req[d].id \in Ids
      /\ \A i \in Ids : origin[i] \in 0 .. connected
  BY DEF WellFormed, Request, TypeOK
<1>5. Swept' /\ Resolving' /\ Pending'
  <2>1. CASE Goto(c, "row")
    BY <1>1, <1>2, <1>3, <2>1, GotoFacts DEF Ties, Swept, Resolving, Pending, Adding,
          RequestPc
  <2>2. CASE Done(c)
    BY <1>1, <1>2, <1>3, <2>2, DoneFacts DEF Ties, Swept, Resolving, Pending, Adding
  <2>3. QED
    BY <2>1, <2>2 DEF Searched
<1>6. CASE (Done(c) \/ (Goto(c, "row") /\ id \in HookIds)) /\ UNCHANGED <<searches, origin>>
  <2>1. /\ req'[c].pc = "idle" \/ (req'[c].pc = "row" /\ req'[c].id \in HookIds)
        /\ \A d \in Clients \ {c} : req'[d] = req[d]
    BY <1>6, GotoFacts, DoneFacts DEF RequestPc
  <2>2. Starting' /\ Newest' /\ Stopping' /\ Stored'
    BY <1>2, <1>6, <2>1 DEF Ties, Starting, Newest, Stopping, Stored
  <2>3. QED
    BY <1>5, <2>2 DEF Ties
<1>7. CASE /\ Goto(c, "row") /\ id \notin HookIds
           /\ searches' = [searches EXCEPT ![inst] = @ \cup {id}]
           /\ origin' = [origin EXCEPT ![id] = inst]
  <2>1. /\ req'[c].pc = "row" /\ req'[c].id = id
        /\ \A d \in Clients \ {c} : req'[d] = req[d]
    BY <1>7, GotoFacts DEF RequestPc
  <2>2. origin'[id] = inst /\ \A i \in Ids \ {id} : origin'[i] = origin[i]
    BY <1>1, <1>7 DEF TypeOK
  <2>3. /\ searches'[inst] = searches[inst] \cup {id}
        /\ \A n \in Instances \ {inst} : searches'[n] = searches[n]
    BY <1>1, <1>7 DEF Memories
  <2>4. Starting'
    <3>1. ASSUME NEW d \in Clients \ {c}, req[d].pc = "search"
          PROVE  origin'[req[d].id] = 0
      BY <1>3, <1>4, <2>2, <3>1 DEF Ties, Starting, Adding
    <3>2. ASSUME NEW d \in Clients \ {c}, req[d].pc = "row", req[d].id \notin HookIds
          PROVE  /\ origin'[req[d].id] # 0
                 /\ origin'[req[d].id] = registered.search => req[d].id \in searches'[origin'[req[d].id]]
      <4>1. origin'[req[d].id] = origin[req[d].id] /\ origin[req[d].id] # 0
        BY <1>3, <1>4, <2>2, <3>2 DEF Ties, Starting, Adding
      <4>2. origin[req[d].id] \in Instances
        BY <1>2, <1>4, <4>1 DEF Instances
      <4>3. QED
        BY <2>3, <3>2, <4>1, <4>2 DEF Ties, Starting
    <3>3. inst # 0
      BY <1>1, <1>7 DEF Instances
    <3>4. QED
      BY <1>2, <1>7, <2>1, <2>2, <2>3, <3>1, <3>2, <3>3 DEF Ties, Starting
  <2>5. Newest'
    BY <1>1, <1>2, <1>7, <2>2, <2>3 DEF Ties, Newest, Instances
  <2>6. Stopping'
    <3>1. ASSUME NEW d \in Clients \ {c}, req[d].pc = "stopped",
                 req[d].id \notin HookIds, registered.search # 0
          PROVE  req[d].id \notin searches'[registered.search]
      <4>1. req[d].id # id /\ registered.search \in Instances
        BY <1>1, <1>2, <3>1 DEF Ties, Stopping, Instances
      <4>2. QED
        BY <2>3, <3>1, <4>1 DEF Ties, Stopping
    <3>2. QED
      BY <1>2, <2>1, <3>1 DEF Ties, Stopping
  <2>7. Stored'
    BY <1>1, <1>2, <2>2 DEF Ties, Stored
  <2>8. QED
    BY <1>5, <2>4, <2>5, <2>6, <2>7 DEF Ties
<1>8. QED
  BY <1>6, <1>7 DEF Searched

LEMMA LinksStep == TypeOK /\ WellFormed /\ Memories /\ Ties /\ [Next]_vars => Ties'
<1> SUFFICES ASSUME TypeOK, WellFormed, Memories, Ties, [Next]_vars PROVE Ties'
  OBVIOUS
<1> USE SearchAssumption DEF TypeOK, WellFormed, Request, Ties, Pending, Starting,
      Newest, Stopping, Swept, Stored, Resolving, Adding, Instances, Ended, Goto, Done,
      Expirable, Fresh
<1>1. ASSUME NEW c \in Clients, NEW id \in Ids, AddSearch(c, id) PROVE Ties'
  BY <1>1, NoRequestType, SMTT(30) DEF AddSearch
<1>2. ASSUME NEW c \in Clients, NEW id \in Ids, StopSearch(c, id) PROVE Ties'
  BY <1>2, NoRequestType, SMTT(30) DEF StopSearch, Known
<1>3. ASSUME NEW c \in Clients, NEW id \in Ids, Resolve(c, id) PROVE Ties'
  <2>1. Pending' /\ Starting' /\ Newest' /\ Stopping' /\ Swept' /\ Stored'
    BY <1>3 DEF Resolve, Results
  <2>2. registered.search \in Instances
    BY <1>3 DEF Resolve, Results
  <2>3. \A n \in Instances : cached[n] \subseteq cached'[n]
    BY <1>3 DEF Resolve, Results
  <2>4. id \in cached'[registered.search]
    BY <1>3, <2>2 DEF Resolve, Results, Memories
  <2>5. /\ req'[c].pc = "resolved" /\ req'[c].id = id /\ req'[c].inst = registered.search
        /\ \A d \in Clients \ {c} : req'[d] = req[d]
    BY <1>3 DEF Resolve, Results
  <2>6. Resolving'
    BY <2>2, <2>3, <2>4, <2>5
  <2>7. QED
    BY <2>1, <2>6
<1>4. ASSUME NEW c \in Clients, Searched(c) PROVE Ties'
  BY <1>4, SearchedLinks
<1>5. ASSUME NEW c \in Clients, StoreSearch(c) PROVE Ties'
  BY <1>5, NoRequestType, SMTT(30) DEF StoreSearch, Upsert
<1>6. ASSUME NEW c \in Clients, StopBackend(c) PROVE Ties'
  <2>1. Pending' /\ Swept' /\ Stored' /\ Resolving'
    BY <1>6 DEF StopBackend
  <2>2. /\ req'[c].pc = "stopped" /\ req'[c].id = req[c].id /\ rows[req[c].id] # "none"
        /\ \A d \in Clients \ {c} : req'[d] = req[d]
        /\ UNCHANGED <<rows, registered, origin, connected>>
    BY <1>6 DEF StopBackend
  <2>3. /\ \A n \in Instances : searches'[n] \subseteq searches[n]
        /\ \A n \in Instances : searches[n] \subseteq searches'[n] \cup {req[c].id}
        /\ req[c].id \notin HookIds /\ registered.search # 0 => req[c].id \notin searches'[registered.search]
    BY <1>6, SilenceFacts DEF StopBackend
  <2>4. Starting'
    <3>1. ASSUME NEW d \in Clients \ {c}, req[d].pc = "row", req[d].id \notin HookIds,
                 origin[req[d].id] = registered.search
          PROVE  req[d].id \in searches'[origin[req[d].id]]
      <4>1. origin[req[d].id] \in Instances /\ rows[req[d].id] = "none"
        BY <3>1
      <4>2. QED
        BY <2>2, <2>3, <3>1, <4>1
    <3>2. QED
      BY <2>2, <3>1
  <2>5. Newest'
    BY <2>2, <2>3
  <2>6. Stopping'
    BY <2>2, <2>3
  <2>7. QED
    BY <2>1, <2>4, <2>5, <2>6
<1>7. ASSUME NEW c \in Clients, StoreStopped(c) PROVE Ties'
  BY <1>7, NoRequestType, SMTT(30) DEF StoreStopped, Upsert
<1>8. ASSUME NEW c \in Clients, PickTransferBackend(c) PROVE Ties'
  <2>1. /\ req[c].pc = "resolved" /\ req'[c].pc = "add" /\ req'[c].id = req[c].id /\ req'[c].inst = req[c].inst
        /\ \A d \in Clients \ {c} : req'[d] = req[d]
        /\ UNCHANGED <<rows, registered, origin, connected, searches, cached, sweep>>
    BY <1>8 DEF PickTransferBackend
  <2>2. Pending' /\ Newest' /\ Swept' /\ Stored'
    BY <2>1
  <2>3. Starting' /\ Stopping'
    BY <2>1
  <2>4. Resolving'
    BY <2>1
  <2> QED BY <2>2, <2>3, <2>4
<1>9. ASSUME NEW c \in Clients, AddDownload(c) PROVE Ties'
  <2>1. /\ req'[c].pc \in {"idle", "refused"} /\ \A d \in Clients \ {c} : req'[d] = req[d]
        /\ UNCHANGED <<rows, registered, origin, connected, searches, cached, sweep>>
    BY <1>9, NoRequestType, SMTT(30) DEF AddDownload
  <2>2. QED
    BY <2>1
<1>10. ASSUME NEW c \in Clients, Refuse(c) PROVE Ties'
  BY <1>10, NoRequestType, SMTT(30) DEF Refuse
<1>11. ASSUME NEW n \in Instances, NEW id \in Ids, PeerResult(n, id) PROVE Ties'
  BY <1>11, NoRequestType, SMTT(30) DEF PeerResult
<1>12. ASSUME NEW id \in Ids, Lapse(id) PROVE Ties'
  BY <1>12, NoRequestType, SMTT(30) DEF Lapse
<1>13. ASSUME NEW id \in Ids, ShowResults(id) PROVE Ties'
  BY <1>13, NoRequestType, SMTT(30) DEF ShowResults, Known, Results
<1>14. ASSUME NEW id \in Ids, StopExpired(id) PROVE Ties'
  <2>1. Pending' /\ Swept' /\ Stored' /\ Resolving'
    BY <1>14 DEF StopExpired
  <2>2. /\ UNCHANGED <<rows, registered, origin, connected, req>>
        /\ \A n \in Instances : searches'[n] \subseteq searches[n]
        /\ \A n \in Instances : searches[n] \subseteq searches'[n] \cup {id}
        /\ rows[id] # "none"
    BY <1>14, SilenceFacts DEF StopExpired
  <2>3. Starting'
    <3>1. ASSUME NEW d \in Clients, req[d].pc = "row", req[d].id \notin HookIds,
                 origin[req[d].id] = registered.search
          PROVE  req[d].id \in searches'[origin[req[d].id]]
      <4>1. origin[req[d].id] \in Instances /\ rows[req[d].id] = "none"
        BY <3>1
      <4>2. QED
        BY <2>2, <3>1, <4>1
    <3>2. QED
      BY <2>2, <3>1
  <2>4. Newest' /\ Stopping'
    BY <2>2
  <2>5. QED
    BY <2>1, <2>3, <2>4
<1>15. CASE ExpireSearches
  BY <1>15, NoRequestType, SMTT(30) DEF ExpireSearches
<1>16. CASE Connect
  BY <1>16, NoRequestType, SMTT(30) DEF Connect
<1>17. CASE RegisterSearch
  <2>1. Pending' /\ Starting' /\ Newest'
    BY <1>17, NoRequestType, SMTT(30) DEF RegisterSearch
  <2>2. Stopping' /\ Swept' /\ Stored' /\ Resolving'
    BY <1>17, NoRequestType, SMTT(30) DEF RegisterSearch
  <2>3. QED
    BY <2>1, <2>2
<1>18. CASE Restart
  <2>1. Pending' /\ Starting' /\ Newest'
    BY <1>18, NoRequestType, SMTT(30) DEF Restart
  <2>2. Stopping' /\ Swept' /\ Stored' /\ Resolving'
    BY <1>18, NoRequestType, SMTT(30) DEF Restart
  <2>3. QED
    BY <2>1, <2>2
<1>19. CASE UNCHANGED vars
  BY <1>19, NoRequestType, SMTT(30) DEF vars
<1> HIDE DEF TypeOK, WellFormed, Request, Ties
<1>20. QED
  BY <1>1, <1>2, <1>3, <1>4, <1>5, <1>6, <1>7, <1>8, <1>9, <1>10, <1>11, <1>12, <1>13,
        <1>14, <1>15, <1>16, <1>17, <1>18, <1>19 DEF Next, Handle, Sweep

\* A search that is started has no row, so nothing has been promised of it.
LEMMA SearchedPromises ==
    ASSUME TypeOK, WellFormed, Memories, Ties, Promises, NEW c \in Clients, Searched(c)
    PROVE  Promises'
<1>1. /\ req[c].id \in Ids /\ rows[req[c].id] = "none"
      /\ req[c].id \notin HookIds => req[c].inst \in Instances
      /\ UNCHANGED <<rows, registered, sweep, unstored>>
  BY SearchAssumption DEF Searched, WellFormed, Request, TypeOK, Ties, Pending,
        Starting, Adding, Instances
<1>2. /\ req'[c].pc \in {"idle", "row"} /\ \A d \in Clients \ {c} : req'[d] = req[d]
  BY GotoFacts, DoneFacts DEF Searched, RequestPc
<1>3. \A n \in Instances :
         searches[n] \subseteq searches'[n] /\ searches'[n] \subseteq searches[n] \cup {req[c].id}
  BY <1>1 DEF Searched, Memories
<1>4. \A i \in Ids \ {req[c].id} : origin'[i] = origin[i]
  BY <1>1 DEF Searched, TypeOK
<1>5. /\ registered.search \in 0 .. connected /\ connected \in Nat
      /\ connected <= MaxConnects /\ MaxConnects \in Nat
  BY SearchAssumption DEF TypeOK
<1>6. EndedIsSilent'
  BY <1>1, <1>3, <1>5 DEF Promises, EndedIsSilent, Ended, Instances
<1>7. ASSUME NEW id \in Ids \ HookIds, rows[id] = "active",
             origin'[id] = registered.search, id \notin searches'[origin'[id]]
      PROVE  id \in unstored \/ \E d \in Clients : req'[d].pc = "stopped" /\ req'[d].id = id
  <2>1. id # req[c].id /\ origin'[id] = origin[id] /\ origin[id] \in Instances
    BY <1>1, <1>4, <1>5, <1>7 DEF Ties, Stored, Instances
  <2>2. id \in unstored \/ \E d \in Clients : req[d].pc = "stopped" /\ req[d].id = id
    BY <1>3, <1>7, <2>1 DEF Promises, ActiveIsAnswered
  <2>3. req[c].pc = "search"
    BY DEF Searched
  <2>4. QED
    BY <1>2, <2>2, <2>3
<1>8. ActiveIsAnswered'
  BY <1>1, <1>7 DEF ActiveIsAnswered
<1>9. RefusedOnlyAcrossClients'
  BY <1>2 DEF Promises, RefusedOnlyAcrossClients
<1>10. QED
  BY <1>6, <1>8, <1>9 DEF Promises

\* A search may be taken away from the registered client if it has ended or its
\* stop is on the way to the table.
LEMMA SilencedPromises ==
    ASSUME TypeOK, WellFormed, Ties, Promises, NEW id \in Ids,
           UNCHANGED <<rows, registered, origin, unstored>>,
           \A n \in Instances : searches'[n] \subseteq searches[n],
           \A n \in Instances : searches[n] \subseteq searches'[n] \cup {id},
           id \notin HookIds /\ registered.search # 0 => id \notin searches'[registered.search],
           \A i \in sweep \ {id} : i \in sweep',
           rows[id] = "active" => \E c \in Clients : req'[c].pc = "stopped" /\ req'[c].id = id,
           \A c \in Clients : {req[c].pc, req'[c].pc} \cap {"stopped", "refused"} # {} =>
               req'[c] = req[c] \/ (req'[c].pc = "stopped" /\ req[c].pc # "stopped")
    PROVE  Promises'
<1>1. /\ registered.search \in 0 .. connected /\ connected \in Nat
      /\ connected <= MaxConnects /\ MaxConnects \in Nat
  BY SearchAssumption DEF TypeOK
<1>2. EndedIsSilent'
  BY <1>1 DEF Promises, EndedIsSilent, Ended, Instances
<1>3. ASSUME NEW i \in Ids \ HookIds, rows[i] = "active",
             origin[i] = registered.search, i \notin searches'[origin[i]]
      PROVE  i \in unstored \/ \E d \in Clients : req'[d].pc = "stopped" /\ req'[d].id = i
  <2>1. CASE i = id
    BY <1>3, <2>1
  <2>2. CASE i # id
    <3>1. origin[i] \in Instances
      BY <1>1, <1>3 DEF Ties, Stored, Instances
    <3>2. i \notin searches[origin[i]]
      BY <1>3, <2>2, <3>1
    <3>3. i \in unstored \/ \E d \in Clients : req[d].pc = "stopped" /\ req[d].id = i
      BY <1>3, <3>2 DEF Promises, ActiveIsAnswered
    <3>4. QED
      BY <3>3
  <2>3. QED
    BY <2>1, <2>2
<1>4. ActiveIsAnswered'
  BY <1>3 DEF ActiveIsAnswered
<1>5. RefusedOnlyAcrossClients'
  BY DEF Promises, RefusedOnlyAcrossClients
<1>6. QED
  BY <1>2, <1>4, <1>5 DEF Promises

LEMMA PromisesStep == TypeOK /\ WellFormed /\ Memories /\ Ties /\ Promises /\ [Next]_vars => Promises'
<1> SUFFICES ASSUME TypeOK, WellFormed, Memories, Ties, Promises, [Next]_vars PROVE Promises'
  OBVIOUS
<1> USE SearchAssumption DEF TypeOK, WellFormed, Request, Ties, Pending, Starting,
      Newest, Stopping, Swept, Stored, Resolving, Adding, Instances, Ended, Goto, Done,
      Expirable, Fresh, Promises, EndedIsSilent, ActiveIsAnswered,
      RefusedOnlyAcrossClients
<1>1. ASSUME NEW c \in Clients, NEW id \in Ids, AddSearch(c, id) PROVE Promises'
  BY <1>1, NoRequestType, SMTT(30) DEF AddSearch
<1>2. ASSUME NEW c \in Clients, NEW id \in Ids, StopSearch(c, id) PROVE Promises'
  BY <1>2, NoRequestType, SMTT(30) DEF StopSearch, Known
<1>3. ASSUME NEW c \in Clients, NEW id \in Ids, Resolve(c, id) PROVE Promises'
  BY <1>3, NoRequestType, SMTT(30) DEF Resolve, Results
<1>4. ASSUME NEW c \in Clients, Searched(c) PROVE Promises'
  BY <1>4, SearchedPromises
<1>5. ASSUME NEW c \in Clients, StoreSearch(c) PROVE Promises'
  BY <1>5, NoRequestType, SMTT(30) DEF StoreSearch, Upsert
<1>6. ASSUME NEW c \in Clients, StopBackend(c) PROVE Promises'
  <2>1. /\ req'[c].pc = "stopped" /\ req'[c].id = req[c].id /\ req[c].pc = "stop" /\ req[c].id \in Ids
        /\ \A d \in Clients \ {c} : req'[d] = req[d]
        /\ UNCHANGED <<rows, registered, origin, unstored, sweep>>
    BY <1>6 DEF StopBackend
  <2>2. /\ \A n \in Instances : searches'[n] \subseteq searches[n]
        /\ \A n \in Instances : searches[n] \subseteq searches'[n] \cup {req[c].id}
        /\ req[c].id \notin HookIds /\ registered.search # 0 => req[c].id \notin searches'[registered.search]
    BY <1>6, <2>1, SilenceFacts DEF StopBackend
  <2> HIDE DEF TypeOK, WellFormed, Ties, Promises, Instances
  <2>3. QED
    BY <2>1, <2>2, SilencedPromises
<1>7. ASSUME NEW c \in Clients, StoreStopped(c) PROVE Promises'
  BY <1>7, NoRequestType, SMTT(30) DEF StoreStopped, Upsert
<1>8. ASSUME NEW c \in Clients, PickTransferBackend(c) PROVE Promises'
  BY <1>8, NoRequestType, SMTT(30) DEF PickTransferBackend
<1>9. ASSUME NEW c \in Clients, AddDownload(c) PROVE Promises'
  BY <1>9, NoRequestType, SMTT(30) DEF AddDownload
<1>10. ASSUME NEW c \in Clients, Refuse(c) PROVE Promises'
  BY <1>10, NoRequestType, SMTT(30) DEF Refuse
<1>11. ASSUME NEW n \in Instances, NEW id \in Ids, PeerResult(n, id) PROVE Promises'
  BY <1>11, NoRequestType, SMTT(30) DEF PeerResult
<1>12. ASSUME NEW id \in Ids, Lapse(id) PROVE Promises'
  BY <1>12, NoRequestType, SMTT(30) DEF Lapse
<1>13. ASSUME NEW id \in Ids, ShowResults(id) PROVE Promises'
  BY <1>13, NoRequestType, SMTT(30) DEF ShowResults, Known, Results
<1>14. ASSUME NEW id \in Ids, StopExpired(id) PROVE Promises'
  <2>1. /\ UNCHANGED <<rows, registered, origin, unstored, req>> /\ sweep' = sweep \ {id}
        /\ rows[id] \in Ended
    BY <1>14 DEF StopExpired
  <2>2. /\ \A n \in Instances : searches'[n] \subseteq searches[n]
        /\ \A n \in Instances : searches[n] \subseteq searches'[n] \cup {id}
        /\ registered.search # 0 => id \notin searches'[registered.search]
    BY <1>14, SilenceFacts DEF StopExpired
  <2>3. rows[id] # "active"
    BY <2>1
  <2> HIDE DEF TypeOK, WellFormed, Ties, Promises, Instances
  <2>4. QED
    BY <2>1, <2>2, <2>3, SilencedPromises
<1>15. CASE ExpireSearches
  BY <1>15, NoRequestType, SMTT(30) DEF ExpireSearches
<1>16. CASE Connect
  BY <1>16, NoRequestType, SMTT(30) DEF Connect
<1>17. CASE RegisterSearch
  BY <1>17, NoRequestType, SMTT(30) DEF RegisterSearch
<1>18. CASE Restart
  BY <1>18, NoRequestType, SMTT(30) DEF Restart
<1>19. CASE UNCHANGED vars
  BY <1>19, NoRequestType, SMTT(30) DEF vars
<1> HIDE DEF TypeOK, WellFormed, Request, Ties, Promises
<1>20. QED
  BY <1>1, <1>2, <1>3, <1>4, <1>5, <1>6, <1>7, <1>8, <1>9, <1>10, <1>11, <1>12, <1>13,
        <1>14, <1>15, <1>16, <1>17, <1>18, <1>19 DEF Next, Handle, Sweep

-----------------------------------------------------------------------------

LEMMA Initial == Init => IInv
<1>1. SUFFICES ASSUME Init PROVE IInv
  OBVIOUS
<1>2. TypeOK /\ WellFormed
  BY <1>1, TypeInit
<1>3. \A c \in Clients : req[c].pc = "idle"
  BY <1>1, <1>2, NoRequestType DEF Init
<1>4. Memories
  BY <1>1 DEF Init, Memories
<1>5. Ties
  BY <1>1, <1>3 DEF Init, Ties, Pending, Starting, Adding, Newest, Stopping, Swept,
        Stored, Resolving
<1>6. Promises
  BY <1>1, <1>3 DEF Init, Promises, EndedIsSilent, ActiveIsAnswered,
        RefusedOnlyAcrossClients, Ended
<1>7. QED
  BY <1>2, <1>4, <1>5, <1>6 DEF IInv

LEMMA Inductive == Spec => []IInv
<1>1. Init => IInv
  BY Initial
<1>2. IInv /\ [Next]_vars => IInv'
  BY TypeStep, MemoriesStep, LinksStep, PromisesStep DEF IInv
<1>3. QED
  BY <1>1, <1>2, PTL DEF Spec

\* Every step keeps the table, the clients' memories and the requests well formed:
\* a search is known only to the instance it was started on.
THEOREM TypeCorrect == Spec => []TypeOK
  BY Inductive, PTL DEF IInv

\* What the table says has ended does not run on the registered client, unless the
\* sweeper is about to stop it (routes.rs 488-510, housekeeping.rs 24-37).
THEOREM EndedStaysSilent == Spec => []EndedIsSilent
  BY Inductive, PTL DEF IInv, Promises

\* What the table calls active is answered by the registered client it was started
\* on, unless its stop has been asked for.
THEOREM ActiveAnswers == Spec => []ActiveIsAnswered
  BY Inductive, PTL DEF IInv, Promises

\* A result is refused only when the clients changed between the look-ups of
\* download_result (routes.rs 520-560).
THEOREM RefusalNeedsReconnect == Spec => []RefusedOnlyAcrossClients
  BY Inductive, PTL DEF IInv, Promises

\* No step takes a search back from its end.
THEOREM EndsOnce == Spec => EndIsFinal
<1>1. IInv /\ [Next]_vars => [\A id \in Ids : rows[id] \in Ended =>
          rows'[id] \in Ended /\ (rows[id] = "stopped" => rows'[id] = "stopped")]_vars
  <2>1. SUFFICES ASSUME IInv, Next
                 PROVE  \A id \in Ids : rows[id] \in Ended =>
                            rows'[id] \in Ended /\ (rows[id] = "stopped" => rows'[id] = "stopped")
    OBVIOUS
  <2>2. ASSUME NEW c \in Clients, StoreSearch(c)
        PROVE  /\ rows[req[c].id] = "none"
               /\ \A id \in Ids \ {req[c].id} : rows'[id] = rows[id]
    BY <2>1, <2>2 DEF StoreSearch, Upsert, IInv, Ties, Pending, Adding, TypeOK
  <2>3. ASSUME NEW c \in Clients, StoreStopped(c)
        PROVE  \A id \in Ids : rows'[id] \in {rows[id], "stopped"}
    BY <2>1, <2>3 DEF StoreStopped, Upsert, IInv, TypeOK
  <2>4. CASE ExpireSearches
    BY <2>4 DEF ExpireSearches, Expirable, Ended
  <2>5. CASE UNCHANGED rows
    BY <2>5
  <2>6. UNCHANGED rows \/ ExpireSearches \/ \E c \in Clients : StoreSearch(c) \/ StoreStopped(c)
    BY <2>1 DEF Next, Handle, Sweep, AddSearch, StopSearch, Resolve, Searched, StopBackend,
        PickTransferBackend, AddDownload, Refuse, PeerResult, Lapse, ShowResults, StopExpired,
        Connect, RegisterSearch, Restart
  <2>7. QED
    BY <2>2, <2>3, <2>4, <2>5, <2>6 DEF Ended
<1>2. QED
  BY Inductive, <1>1, PTL DEF Spec, EndIsFinal

-----------------------------------------------------------------------------
(* HookSearch: lists without duplicates. *)

\* Every set of positions has a least one.
LEMMA Least ==
    ASSUME NEW n \in Nat, NEW T, T \subseteq 1 .. n, T # {}
    PROVE  \E i \in T : \A k \in T : i <= k
<1> DEFINE U == {i \in 0 .. n : \A k \in T : i < k}
           c == Cardinality(U)
<1>1. IsFiniteSet(0 .. n)
  BY FS_Interval
<1>2. IsFiniteSet(U) /\ c \in Nat
  <2>1. U \subseteq 0 .. n
    OBVIOUS
  <2>2. IsFiniteSet(U)
    BY <1>1, <2>1, FS_Subset
  <2> QED BY <2>2, FS_CardinalityType
<1>3. U \subseteq 0 .. c - 1
  <2> SUFFICES ASSUME NEW i \in U PROVE i \in 0 .. c - 1
    OBVIOUS
  <2>1. 0 .. i \subseteq U
    OBVIOUS
  <2>2. Cardinality(0 .. i) = i + 1
    BY FS_Interval
  <2>3. Cardinality(0 .. i) <= c
    BY <1>2, <2>1, FS_Subset
  <2> HIDE DEF c
  <2> QED BY <2>2, <2>3, <1>2
<1>4. c # 0
  <2>1. 0 \in U
    OBVIOUS
  <2> HIDE DEF U
  <2> QED BY <2>1, <1>2, FS_EmptySet
<1>5. U = 0 .. c - 1
  <2>1. IsFiniteSet(0 .. c - 1) /\ Cardinality(0 .. c - 1) = c
    <3> HIDE DEF c
    <3>1. c - 1 \in Nat
      BY <1>2, <1>4
    <3>2. IsFiniteSet(0 .. c - 1) /\ Cardinality(0 .. c - 1) = IF 0 > c - 1 THEN 0 ELSE (c - 1) - 0 + 1
      BY <3>1, FS_Interval
    <3> QED BY <1>2, <3>1, <3>2
  <2> HIDE DEF U
  <2>2. U # 0 .. c - 1 => Cardinality(U) < Cardinality(0 .. c - 1)
    BY <1>3, <2>1, FS_Subset
  <2> QED BY <2>1, <2>2, <1>2
<1>6. PICK t \in T : TRUE
  OBVIOUS
<1>7. c \notin U
  <2> HIDE DEF c, U
  <2> QED BY <1>2, <1>5
<1>8. c <= n
  <2>1. t \notin U
    OBVIOUS
  <2> HIDE DEF c, U
  <2> QED BY <1>2, <1>5, <1>6, <2>1
<1>9. PICK k \in T : ~(c < k)
  <2> HIDE DEF c
  <2> QED BY <1>7, <1>8, <1>2
<1>10. c - 1 < k
  <2>1. c - 1 \in U
    <3> HIDE DEF c, U
    <3> QED BY <1>2, <1>4, <1>5
  <2> HIDE DEF c
  <2> QED BY <2>1
<1>11. \A j \in T : c - 1 < j
  <2>1. c - 1 \in U
    <3> HIDE DEF c, U
    <3> QED BY <1>2, <1>4, <1>5
  <2> HIDE DEF c
  <2> QED BY <2>1
<1> HIDE DEF c, U
<1>12. k = c
  BY <1>2, <1>9, <1>10
<1> QED BY <1>11, <1>12, <1>2, <1>9

\* What holds at first and is handed on holds of all.
LEMMA Along ==
    ASSUME NEW n \in Nat, NEW S, 0 \in S, \A i \in 1 .. n : i - 1 \in S => i \in S
    PROVE  \A i \in 0 .. n : i \in S
<1> DEFINE T == {i \in 1 .. n : i \notin S}
<1>1. CASE T = {}
  BY <1>1
<1>2. CASE T # {}
  <2>1. PICK i \in T : \A k \in T : i <= k
    <3>1. T \subseteq 1 .. n
      OBVIOUS
    <3> HIDE DEF T
    <3> QED BY <1>2, <3>1, Least
  <2>2. i \in 1 .. n /\ i \notin S
    OBVIOUS
  <2>3. i - 1 \in S
    <3>1. CASE i = 1
      BY <3>1
    <3>2. CASE i # 1
      <4>1. i - 1 \in 1 .. n /\ ~(i <= i - 1)
        BY <3>2, <2>2
      <4> QED BY <4>1, <2>1
    <3> QED BY <3>1, <3>2
  <2> QED BY <2>2, <2>3
<1> QED BY <1>1, <1>2

\* A list that takes a magnet is a list of magnets.
LEMMA KeepIs ==
    ASSUME NEW list \in Seq(Magnets), NEW m \in Magnets, NEW key, NEW most
    PROVE  Keep(list, m, key, most) \in Seq(Magnets)
BY DEF Keep

\* Fill takes one step of Keep for every magnet of the page.
Filling(f, list, page, key, most) ==
    /\ f \in [0 .. Len(page) -> Seq(Magnets)] /\ f[0] = list
    /\ \A i \in 1 .. Len(page) : f[i] = Keep(f[i - 1], page[i], key, most)
    /\ Fill(list, page, key, most) = f[Len(page)]

\* There are those steps.
LEMMA FillSteps ==
    ASSUME NEW list \in Seq(Magnets), NEW page \in Seq(Magnets), NEW key, NEW most
    PROVE  \E f : Filling(f, list, page, key, most)
<1> DEFINE n == Len(page)
           Is(f, k) == f[0] = list /\ \A i \in 1 .. k : f[i] = Keep(f[i - 1], page[i], key, most)
           S == {k \in 0 .. n : \E f \in [0 .. k -> Seq(Magnets)] : Is(f, k)}
<1>1. n \in Nat /\ \A i \in 1 .. n : page[i] \in Magnets
  OBVIOUS
<1>2. 0 \in S
  <2> DEFINE f == [i \in 0 .. 0 |-> list]
  <2>1. f \in [0 .. 0 -> Seq(Magnets)] /\ Is(f, 0)
    OBVIOUS
  <2> HIDE DEF f
  <2>2. \E h \in [0 .. 0 -> Seq(Magnets)] : Is(h, 0)
    BY <2>1
  <2>3. 0 \in 0 .. n
    BY <1>1
  <2> HIDE DEF Is, n
  <2> QED BY <2>2, <2>3
<1> HIDE DEF n
<1>3. ASSUME NEW k \in 1 .. n, k - 1 \in S PROVE k \in S
  <2>1. PICK f \in [0 .. k - 1 -> Seq(Magnets)] : Is(f, k - 1)
    BY <1>3
  <2> DEFINE g == [i \in 0 .. k |-> IF i = k THEN Keep(f[k - 1], page[k], key, most) ELSE f[i]]
  <2>2. Keep(f[k - 1], page[k], key, most) \in Seq(Magnets)
    BY <1>1, KeepIs
  <2>3. g \in [0 .. k -> Seq(Magnets)]
    BY <2>2
  <2>4. g[0] = list
    BY <2>1
  <2>5. \A i \in 1 .. k : g[i] = Keep(g[i - 1], page[i], key, most)
    <3> TAKE i \in 1 .. k
    <3>1. CASE i = k
      <4>1. g[i - 1] = f[k - 1] /\ g[i] = Keep(f[k - 1], page[k], key, most)
        BY <3>1
      <4> QED BY <3>1, <4>1
    <3>2. CASE i # k
      <4>1. i \in 1 .. k - 1 /\ g[i - 1] = f[i - 1] /\ g[i] = f[i]
        BY <3>2
      <4> QED BY <2>1, <4>1
    <3> QED BY <3>1, <3>2
  <2> HIDE DEF g
  <2>6. \E h \in [0 .. k -> Seq(Magnets)] : Is(h, k)
    BY <2>3, <2>4, <2>5
  <2>7. k \in 0 .. n
    BY <1>1
  <2> HIDE DEF Is
  <2> QED BY <2>6, <2>7
<1>4. n \in S
  <2> HIDE DEF S
  <2>1. \A i \in 0 .. n : i \in S
    BY <1>1, <1>2, <1>3, Along
  <2> QED BY <1>1, <2>1
<1> DEFINE Step(f) == [i \in 0 .. n |-> IF i = 0 THEN list ELSE Keep(f[i - 1], page[i], key, most)]
<1>5. PICK g \in [0 .. n -> Seq(Magnets)] : Is(g, n)
  BY <1>4
<1>6. g = Step(g)
  <2>1. \A i \in 0 .. n : g[i] = Step(g)[i]
    <3> TAKE i \in 0 .. n
    <3>1. CASE i = 0
      BY <3>1, <1>5
    <3>2. CASE i # 0
      <4>1. i \in 1 .. n
        BY <3>2, <1>1
      <4> QED BY <3>2, <4>1, <1>5
    <3> QED BY <3>1, <3>2
  <2> QED BY <2>1
<1> DEFINE filled == CHOOSE f : f = Step(f)
<1>7. filled = Step(filled)
  <2> HIDE DEF Step
  <2> QED BY <1>6
<1>8. Fill(list, page, key, most) = filled[n]
  BY DEF Fill, n
<1> HIDE DEF filled
<1>9. \A i \in 0 .. n : filled[i] = g[i]
  <2> DEFINE E == {i \in 0 .. n : filled[i] = g[i]}
  <2>1. filled[0] = list /\ \A i \in 1 .. n : filled[i] = Keep(filled[i - 1], page[i], key, most)
    <3>1. \A i \in 0 .. n : filled[i] = Step(filled)[i]
      <4> HIDE DEF Step
      <4> QED BY <1>7
    <3> QED BY <1>1, <3>1
  <2>2. 0 \in E
    BY <1>1, <1>5, <2>1
  <2>3. \A i \in 1 .. n : i - 1 \in E => i \in E
    BY <1>1, <1>5, <2>1
  <2> HIDE DEF E
  <2>4. \A i \in 0 .. n : i \in E
    BY <1>1, <2>2, <2>3, Along
  <2> QED BY <2>4 DEF E
<1>10. Fill(list, page, key, most) = g[n]
  BY <1>1, <1>8, <1>9
<1> QED BY <1>5, <1>10 DEF n, Filling

Noted(list, page, key) == Fill(list, page, key, Room(list, page))
Holds(list, m, key) == \E i \in DOMAIN list : key[list[i]] = key[m]
Grow(list, m, key) == IF Holds(list, m, key) THEN list ELSE Append(list, m)
Extends(list, more) == Len(list) <= Len(more) /\ \A i \in 1 .. Len(list) : more[i] = list[i]
Distinct(list, key) == \A i, j \in DOMAIN list : key[list[i]] = key[list[j]] => i = j

\* One magnet: nothing is lost, it is in the list now, and no key comes twice.
LEMMA GrowKeeps ==
    ASSUME NEW list \in Seq(Magnets), NEW m \in Magnets, NEW key
    PROVE  /\ Grow(list, m, key) \in Seq(Magnets) /\ Extends(list, Grow(list, m, key))
           /\ Len(Grow(list, m, key)) <= Len(list) + 1
           /\ Holds(Grow(list, m, key), m, key)
           /\ Distinct(list, key) => Distinct(Grow(list, m, key), key)
<1>1. CASE Holds(list, m, key)
  BY <1>1 DEF Grow, Extends
<1>2. CASE ~Holds(list, m, key)
  <2> DEFINE more == Append(list, m)
  <2>1. Grow(list, m, key) = more
    BY <1>2 DEF Grow
  <2>2. /\ more \in Seq(Magnets) /\ Len(more) = Len(list) + 1 /\ Len(list) \in Nat
        /\ DOMAIN more = 1 .. Len(list) + 1 /\ DOMAIN list = 1 .. Len(list)
        /\ \A i \in 1 .. Len(list) : more[i] = list[i]
        /\ more[Len(list) + 1] = m
    OBVIOUS
  <2> HIDE DEF more
  <2>3. Holds(more, m, key)
    BY <2>2 DEF Holds
  <2>4. ASSUME Distinct(list, key), NEW i \in DOMAIN more, NEW j \in DOMAIN more, key[more[i]] = key[more[j]]
        PROVE  i = j
    <3>1. CASE i = Len(list) + 1
      BY <2>2, <2>4, <3>1, <1>2 DEF Holds
    <3>2. CASE j = Len(list) + 1
      BY <2>2, <2>4, <3>2, <1>2 DEF Holds
    <3>3. CASE i # Len(list) + 1 /\ j # Len(list) + 1
      BY <2>2, <2>4, <3>3 DEF Distinct
    <3> QED BY <3>1, <3>2, <3>3
  <2>5. Distinct(list, key) => Distinct(more, key)
    BY <2>4 DEF Distinct
  <2> QED BY <2>1, <2>2, <2>3, <2>5 DEF Extends
<1> QED BY <1>1, <1>2

Noting(g, list, page, key) ==
    /\ g \in [0 .. Len(page) -> Seq(Magnets)] /\ g[0] = list
    /\ \A i \in 1 .. Len(page) : g[i] = Grow(g[i - 1], page[i], key)
    /\ Noted(list, page, key) = g[Len(page)]

\* With room for everything, the bound of Keep never holds.
LEMMA NoteSteps ==
    ASSUME NEW list \in Seq(Magnets), NEW page \in Seq(Magnets), NEW key
    PROVE  \E g : Noting(g, list, page, key)
<1> DEFINE n == Len(page)
           room == Len(list) + n
<1>1. n \in Nat /\ Len(list) \in Nat /\ \A i \in 1 .. n : page[i] \in Magnets
  OBVIOUS
<1>2. PICK g : Filling(g, list, page, key, room)
  BY FillSteps
<1>7. /\ g \in [0 .. n -> Seq(Magnets)] /\ g[0] = list
      /\ \A i \in 1 .. n : g[i] = Keep(g[i - 1], page[i], key, room)
      /\ Noted(list, page, key) = g[n]
  BY <1>2 DEF Filling, Noted, Room
<1> HIDE DEF n
<1> DEFINE S == {i \in 0 .. n : Len(g[i]) <= Len(list) + i}
<1>3. 0 \in S
  BY <1>1, <1>7
<1>4. ASSUME NEW i \in 1 .. n, i - 1 \in S PROVE i \in S
  <2>1. g[i] = Keep(g[i - 1], page[i], key, room) /\ g[i - 1] \in Seq(Magnets) /\ page[i] \in Magnets
    BY <1>1, <1>7
  <2>2. Len(g[i]) <= Len(g[i - 1]) + 1 /\ Len(g[i - 1]) \in Nat /\ Len(g[i]) \in Nat
    BY <2>1 DEF Keep
  <2>3. Len(g[i - 1]) <= Len(list) + (i - 1)
    BY <1>4
  <2> QED BY <1>1, <2>2, <2>3
<1>5. \A i \in 0 .. n : i \in S
  <2> HIDE DEF S
  <2> QED BY <1>1, <1>3, <1>4, Along
<1>6. \A i \in 1 .. n : g[i] = Grow(g[i - 1], page[i], key)
  <2> TAKE i \in 1 .. n
  <2>1. i - 1 \in 0 .. n
    BY <1>1
  <2>2. Len(g[i - 1]) <= Len(list) + (i - 1)
    BY <1>5, <2>1
  <2>3. g[i - 1] \in Seq(Magnets) /\ Len(g[i - 1]) \in Nat
    BY <1>7, <2>1
  <2>4. Len(g[i - 1]) # room
    BY <1>1, <2>2, <2>3
  <2>5. g[i] = Keep(g[i - 1], page[i], key, room)
    BY <1>7
  <2> HIDE DEF room
  <2> QED BY <2>4, <2>5 DEF Keep, Grow, Holds
<1> QED BY <1>7, <1>6 DEF n, Noting

\* Longer and longer lists.
LEMMA ExtendsOn ==
    ASSUME NEW a \in Seq(Magnets), NEW b \in Seq(Magnets), NEW c \in Seq(Magnets),
           Extends(a, b), Extends(b, c)
    PROVE  Extends(a, c)
BY DEF Extends

\* What a list holds, a longer one holds.
LEMMA HoldsOn ==
    ASSUME NEW a \in Seq(Magnets), NEW b \in Seq(Magnets), NEW m, NEW key, Extends(a, b), Holds(a, m, key)
    PROVE  Holds(b, m, key)
<1>1. PICK i \in 1 .. Len(a) : key[a[i]] = key[m]
  BY DEF Holds
<1>2. i \in 1 .. Len(b) /\ b[i] = a[i]
  BY DEF Extends
<1> QED BY <1>1, <1>2 DEF Holds

\* A page: nothing is lost, all of it is in the list now, and no key comes twice.
LEMMA NotedKeeps ==
    ASSUME NEW list \in Seq(Magnets), NEW page \in Seq(Magnets), NEW key
    PROVE  /\ Noted(list, page, key) \in Seq(Magnets)
           /\ Extends(list, Noted(list, page, key))
           /\ \A i \in 1 .. Len(page) : Holds(Noted(list, page, key), page[i], key)
           /\ Distinct(list, key) => Distinct(Noted(list, page, key), key)
<1> DEFINE n == Len(page)
<1>1. n \in Nat /\ \A i \in 1 .. n : page[i] \in Magnets
  OBVIOUS
<1>7. PICK g : Noting(g, list, page, key)
  BY NoteSteps
<1>2. /\ g \in [0 .. n -> Seq(Magnets)] /\ g[0] = list
      /\ \A i \in 1 .. n : g[i] = Grow(g[i - 1], page[i], key)
      /\ Noted(list, page, key) = g[n]
  BY <1>7 DEF Noting
<1> HIDE DEF n
<1> DEFINE Good(i) == /\ Extends(list, g[i])
                      /\ \A k \in 1 .. i : Holds(g[i], page[k], key)
                      /\ Distinct(list, key) => Distinct(g[i], key)
           S == {i \in 0 .. n : Good(i)}
<1>3. 0 \in S
  <2>1. Extends(list, list)
    BY DEF Extends
  <2> QED BY <1>1, <1>2, <2>1
<1>4. ASSUME NEW i \in 1 .. n, i - 1 \in S PROVE i \in S
  <2>1. /\ g[i] = Grow(g[i - 1], page[i], key) /\ g[i - 1] \in Seq(Magnets) /\ page[i] \in Magnets
        /\ g[i] \in Seq(Magnets) /\ i \in 0 .. n
    BY <1>1, <1>2
  <2>2. Good(i - 1)
    BY <1>4
  <2>3. /\ Extends(g[i - 1], g[i]) /\ Holds(g[i], page[i], key)
        /\ Distinct(g[i - 1], key) => Distinct(g[i], key)
    BY <2>1, GrowKeeps
  <2>4. Extends(list, g[i])
    BY <2>1, <2>2, <2>3, ExtendsOn
  <2>5. \A k \in 1 .. i : Holds(g[i], page[k], key)
    <3> TAKE k \in 1 .. i
    <3>1. CASE k = i
      BY <3>1, <2>3
    <3>2. CASE k # i
      <4>1. Holds(g[i - 1], page[k], key)
        BY <2>2, <3>2
      <4> QED BY <4>1, <2>1, <2>3, HoldsOn
    <3> QED BY <3>1, <3>2
  <2> QED BY <2>1, <2>2, <2>3, <2>4, <2>5
<1>5. Good(n)
  <2>1. \A i \in 0 .. n : i \in S
    <3> HIDE DEF S
    <3> QED BY <1>1, <1>3, <1>4, Along
  <2>2. n \in 0 .. n
    BY <1>1
  <2> HIDE DEF Good
  <2> QED BY <2>1, <2>2
<1> QED BY <1>1, <1>2, <1>5 DEF n

\* An empty page changes nothing.
LEMMA NotedEmpty ==
    ASSUME NEW list \in Seq(Magnets), NEW key
    PROVE  Noted(list, <<>>, key) = list
<1>1. PICK g : Noting(g, list, <<>>, key)
  <2>1. <<>> \in Seq(Magnets)
    OBVIOUS
  <2> QED BY <2>1, NoteSteps
<1> QED BY <1>1 DEF Noting

\* The same magnets first: the same list so far.
Alike(p, q, n) == n \in 0 .. Len(p) /\ n \in 0 .. Len(q) /\ \A i \in 1 .. n : p[i] = q[i]

\* The steps over two pages are the same as long as the pages are.
LEMMA SameSoFar ==
    ASSUME NEW list \in Seq(Magnets), NEW key, NEW p \in Seq(Magnets), NEW q \in Seq(Magnets),
           NEW n, Alike(p, q, n),
           NEW f, Noting(f, list, p, key), NEW g, Noting(g, list, q, key)
    PROVE  \A i \in 0 .. n : f[i] = g[i]
<1> DEFINE S == {i \in 0 .. n : f[i] = g[i]}
<1>1. /\ Len(p) \in Nat /\ Len(q) \in Nat /\ n \in Nat /\ n <= Len(p) /\ n <= Len(q)
      /\ \A i \in 1 .. n : p[i] = q[i]
  BY DEF Alike
<1>2. 0 \in S
  BY <1>1 DEF Noting
<1>3. ASSUME NEW i \in 1 .. n, i - 1 \in S PROVE i \in S
  <2>1. i \in 1 .. Len(p) /\ i \in 1 .. Len(q) /\ i \in 0 .. n
    BY <1>1
  <2>2. f[i] = Grow(f[i - 1], p[i], key) /\ g[i] = Grow(g[i - 1], q[i], key)
    BY <2>1 DEF Noting
  <2>3. f[i - 1] = g[i - 1] /\ p[i] = q[i]
    BY <1>1, <1>3
  <2>4. f[i] = g[i]
    BY <2>2, <2>3
  <2> QED BY <2>1, <2>4
<1> HIDE DEF S
<1>4. \A i \in 0 .. n : i \in S
  BY <1>1, <1>2, <1>3, Along
<1> QED BY <1>4 DEF S

\* The last magnet of a page is noted last.
LEMMA NotedOneMore ==
    ASSUME NEW list \in Seq(Magnets), NEW q \in Seq(Magnets), NEW m \in Magnets, NEW key
    PROVE  Noted(list, Append(q, m), key) = Grow(Noted(list, q, key), m, key)
<1> DEFINE p == Append(q, m)
           n == Len(q)
<1>1. /\ p \in Seq(Magnets) /\ Len(p) = n + 1 /\ n \in Nat /\ p[n + 1] = m
      /\ \A i \in 1 .. n : p[i] = q[i]
  OBVIOUS
<1> HIDE DEF p
<1>2. PICK f : Noting(f, list, p, key)
  BY <1>1, NoteSteps
<1>3. PICK g : Noting(g, list, q, key)
  BY NoteSteps
<1>4. \A i \in 0 .. n : f[i] = g[i]
  <2>1. Alike(p, q, n)
    BY <1>1 DEF Alike
  <2> HIDE DEF n
  <2> QED BY <1>1, <1>2, <1>3, <2>1, SameSoFar
<1> HIDE DEF n
<1>5. f[n + 1] = Grow(f[n + 1 - 1], p[n + 1], key) /\ Noted(list, p, key) = f[n + 1]
  <2>1. n + 1 \in 1 .. Len(p)
    BY <1>1
  <2> QED BY <1>1, <1>2, <2>1 DEF Noting
<1>6. n + 1 - 1 = n /\ n \in 0 .. n
  BY <1>1
<1>7. Noted(list, q, key) = g[n]
  BY <1>3 DEF Noting, n
<1>8. f[n] = g[n]
  BY <1>4, <1>6
<1> QED BY <1>1, <1>5, <1>6, <1>7, <1>8 DEF p

\* Noting what was noted is noting what there was.
LEMMA NotedTwice ==
    ASSUME NEW list \in Seq(Magnets), NEW m \in Seq(Magnets), NEW page \in Seq(Magnets), NEW key
    PROVE  Noted(list, Noted(m, page, key), key) = Noted(Noted(list, m, key), page, key)
<1> DEFINE n == Len(page)
           from == Noted(list, m, key)
<1>1. n \in Nat /\ \A i \in 1 .. n : page[i] \in Magnets
  OBVIOUS
<1>2. from \in Seq(Magnets)
  BY NotedKeeps
<1> HIDE DEF from
<1>3. PICK f : Noting(f, m, page, key)
  BY NoteSteps
<1>4. PICK g : Noting(g, from, page, key)
  BY <1>2, NoteSteps
<1>5. /\ f \in [0 .. n -> Seq(Magnets)] /\ f[0] = m
      /\ \A i \in 1 .. n : f[i] = Grow(f[i - 1], page[i], key)
      /\ Noted(m, page, key) = f[n]
  BY <1>3 DEF Noting
<1>6. /\ g \in [0 .. n -> Seq(Magnets)] /\ g[0] = from
      /\ \A i \in 1 .. n : g[i] = Grow(g[i - 1], page[i], key)
      /\ Noted(from, page, key) = g[n]
  BY <1>4 DEF Noting
<1> HIDE DEF n
<1> DEFINE S == {i \in 0 .. n : Noted(list, f[i], key) = g[i]}
<1>7. 0 \in S
  BY <1>1, <1>5, <1>6 DEF from
<1>8. ASSUME NEW i \in 1 .. n, i - 1 \in S PROVE i \in S
  <2>1. i \in 0 .. n /\ i - 1 \in 0 .. n /\ page[i] \in Magnets
    BY <1>1
  <2>2. f[i - 1] \in Seq(Magnets) /\ g[i - 1] \in Seq(Magnets) /\ Noted(list, f[i - 1], key) = g[i - 1]
    BY <1>5, <1>6, <1>8, <2>1
  <2>3. f[i] = Grow(f[i - 1], page[i], key) /\ g[i] = Grow(g[i - 1], page[i], key)
    BY <1>5, <1>6
  <2>4. CASE Holds(f[i - 1], page[i], key)
    <3>0. DOMAIN f[i - 1] = 1 .. Len(f[i - 1])
      BY <2>2
    <3>1. PICK k \in 1 .. Len(f[i - 1]) : key[f[i - 1][k]] = key[page[i]]
      BY <2>4, <3>0 DEF Holds
    <3>2. Holds(g[i - 1], f[i - 1][k], key)
      BY <2>2, NotedKeeps
    <3>3. Holds(g[i - 1], page[i], key)
      BY <3>1, <3>2 DEF Holds
    <3> QED BY <2>1, <2>2, <2>3, <2>4, <3>3 DEF Grow
  <2>5. CASE ~Holds(f[i - 1], page[i], key)
    <3>1. f[i] = Append(f[i - 1], page[i])
      BY <2>3, <2>5 DEF Grow
    <3>2. Noted(list, Append(f[i - 1], page[i]), key) = Grow(Noted(list, f[i - 1], key), page[i], key)
      BY <2>1, <2>2, NotedOneMore
    <3> QED BY <2>1, <2>2, <2>3, <3>1, <3>2
  <2> QED BY <2>4, <2>5
<1> HIDE DEF S
<1>9. \A i \in 0 .. n : i \in S
  BY <1>1, <1>7, <1>8, Along
<1>10. n \in 0 .. n
  BY <1>1
<1> QED BY <1>5, <1>6, <1>9, <1>10 DEF S, from

\* The first magnets of a list.
LEMMA CutIs ==
    ASSUME NEW list \in Seq(Magnets), NEW b \in Nat
    PROVE  /\ Cut(list, b) \in Seq(Magnets)
           /\ Len(list) <= b => Cut(list, b) = list
           /\ Len(Cut(list, b)) = IF b <= Len(list) THEN b ELSE Len(list)
           /\ \A i \in 1 .. Len(Cut(list, b)) : Cut(list, b)[i] = list[i]
           /\ \A more \in Seq(Magnets) : Extends(list, more) /\ b <= Len(list) => Cut(more, b) = Cut(list, b)
<1> DEFINE n == IF b <= Len(list) THEN b ELSE Len(list)
<1>1. Len(list) \in Nat /\ n \in 0 .. Len(list)
  OBVIOUS
<1>2. Cut(list, b) = SubSeq(list, 1, n)
  <2>1. n = AtMost(b, Len(list))
    BY <1>1 DEF AtMost
  <2> QED BY <2>1 DEF Cut
<1> HIDE DEF n
<1>3. /\ SubSeq(list, 1, n) \in Seq(Magnets) /\ Len(SubSeq(list, 1, n)) = n
      /\ \A i \in 1 .. n : SubSeq(list, 1, n)[i] = list[i]
  BY <1>1
<1>4. Len(list) <= b => SubSeq(list, 1, n) = list
  <2> SUFFICES ASSUME Len(list) <= b PROVE SubSeq(list, 1, n) = list
    OBVIOUS
  <2>1. n = Len(list)
    BY <1>1 DEF n
  <2> QED BY <2>1, SubSeqFull
<1>5. ASSUME NEW more \in Seq(Magnets), Extends(list, more), b <= Len(list)
      PROVE  Cut(more, b) = Cut(list, b)
  <2>1. n = b /\ b <= Len(more) /\ Len(more) \in Nat
    BY <1>1, <1>5 DEF n, Extends
  <2>2. Cut(more, b) = SubSeq(more, 1, b)
    <3>1. AtMost(b, Len(more)) = b
      BY <2>1 DEF AtMost
    <3> QED BY <3>1 DEF Cut
  <2>3. SubSeq(more, 1, b) = SubSeq(list, 1, b)
    BY <1>1, <1>5, <2>1 DEF Extends
  <2> QED BY <1>2, <2>1, <2>2, <2>3
<1> QED BY <1>2, <1>3, <1>4, <1>5 DEF n

\* Breaking off loses nothing that would have fitted.
LEMMA FillCut ==
    ASSUME NEW list \in Seq(Magnets), NEW page \in Seq(Magnets), NEW key, NEW b \in Nat, Len(list) <= b
    PROVE  Fill(list, page, key, b) = Cut(Noted(list, page, key), b)
<1> DEFINE n == Len(page)
<1>1. n \in Nat /\ \A i \in 1 .. n : page[i] \in Magnets
  OBVIOUS
<1>2. PICK f : Filling(f, list, page, key, b)
  BY FillSteps
<1>3. PICK g : Noting(g, list, page, key)
  BY NoteSteps
<1>4. /\ f \in [0 .. n -> Seq(Magnets)] /\ f[0] = list
      /\ \A i \in 1 .. n : f[i] = Keep(f[i - 1], page[i], key, b)
      /\ Fill(list, page, key, b) = f[n]
  BY <1>2 DEF Filling
<1>5. /\ g \in [0 .. n -> Seq(Magnets)] /\ g[0] = list
      /\ \A i \in 1 .. n : g[i] = Grow(g[i - 1], page[i], key)
      /\ Noted(list, page, key) = g[n]
  BY <1>3 DEF Noting
<1> HIDE DEF n
<1> DEFINE S == {i \in 0 .. n : f[i] = Cut(g[i], b)}
<1>6. 0 \in S
  BY <1>1, <1>4, <1>5, CutIs
<1>7. ASSUME NEW i \in 1 .. n, i - 1 \in S PROVE i \in S
  <2>1. i \in 0 .. n /\ i - 1 \in 0 .. n /\ page[i] \in Magnets
    BY <1>1
  <2>2. g[i - 1] \in Seq(Magnets) /\ g[i] \in Seq(Magnets) /\ f[i - 1] = Cut(g[i - 1], b)
    BY <1>5, <1>7, <2>1
  <2>3. f[i] = Keep(f[i - 1], page[i], key, b) /\ g[i] = Grow(g[i - 1], page[i], key)
    BY <1>4, <1>5
  <2>4. /\ Extends(g[i - 1], g[i]) /\ Len(g[i]) <= Len(g[i - 1]) + 1
        /\ Len(g[i]) \in Nat /\ Len(g[i - 1]) \in Nat
    BY <2>1, <2>2, <2>3, GrowKeeps
  <2>5. CASE Len(g[i - 1]) < b
    <3>1. f[i - 1] = g[i - 1] /\ Len(f[i - 1]) # b
      BY <2>2, <2>4, <2>5, CutIs
    <3>2. f[i] = g[i]
      BY <2>3, <3>1 DEF Keep, Grow, Holds
    <3>3. Cut(g[i], b) = g[i]
      BY <2>2, <2>4, <2>5, CutIs
    <3> QED BY <2>1, <3>2, <3>3
  <2>6. CASE b <= Len(g[i - 1])
    <3>1. Len(f[i - 1]) = b
      BY <2>2, <2>6, CutIs
    <3>2. f[i] = f[i - 1]
      BY <2>3, <3>1 DEF Keep
    <3>3. Cut(g[i], b) = Cut(g[i - 1], b)
      BY <2>2, <2>4, <2>6, CutIs
    <3> QED BY <2>1, <2>2, <3>2, <3>3
  <2> QED BY <2>4, <2>5, <2>6
<1> HIDE DEF S
<1>8. \A i \in 0 .. n : i \in S
  BY <1>1, <1>6, <1>7, Along
<1>9. n \in 0 .. n
  BY <1>1
<1> QED BY <1>4, <1>5, <1>8, <1>9 DEF S

\* The rest of a page only adds to what its first magnets gave.
LEMMA NotedCut ==
    ASSUME NEW list \in Seq(Magnets), NEW theirs \in Seq(Magnets), NEW key, NEW b \in Nat, b <= Len(theirs)
    PROVE  Extends(Noted(list, Cut(theirs, b), key), Noted(list, theirs, key))
<1> DEFINE q == Cut(theirs, b)
           n == Len(theirs)
<1>1. q \in Seq(Magnets) /\ Len(q) = b /\ Alike(theirs, q, b)
  <2>1. q \in Seq(Magnets) /\ Len(q) = b /\ \A i \in 1 .. b : q[i] = theirs[i]
    BY CutIs
  <2> HIDE DEF q
  <2> QED BY <2>1 DEF Alike
<1> HIDE DEF q
<1>2. PICK f : Noting(f, list, theirs, key)
  BY NoteSteps
<1>3. PICK g : Noting(g, list, q, key)
  BY <1>1, NoteSteps
<1>4. n \in Nat /\ b <= n /\ \A i \in 1 .. n : theirs[i] \in Magnets
  OBVIOUS
<1>5. /\ f \in [0 .. n -> Seq(Magnets)]
      /\ \A i \in 1 .. n : f[i] = Grow(f[i - 1], theirs[i], key)
      /\ Noted(list, theirs, key) = f[n]
  BY <1>2 DEF Noting
<1>6. Noted(list, q, key) = f[b]
  <2>1. \A i \in 0 .. b : f[i] = g[i]
    BY <1>1, <1>2, <1>3, SameSoFar
  <2>2. Noted(list, q, key) = g[b]
    BY <1>1, <1>3 DEF Noting
  <2> QED BY <2>1, <2>2
<1> HIDE DEF n
<1> DEFINE S == {i \in 0 .. n : b <= i => Extends(f[b], f[i])}
<1>7. Extends(f[b], f[b])
  BY <1>4, <1>5 DEF Extends
<1>8. 0 \in S
  <2>1. b <= 0 => b = 0
    OBVIOUS
  <2> QED BY <1>4, <1>7, <2>1
<1>9. ASSUME NEW i \in 1 .. n, i - 1 \in S PROVE i \in S
  <2>1. i \in 0 .. n /\ i - 1 \in 0 .. n /\ b \in 0 .. n
    BY <1>4
  <2>2. CASE b <= i - 1
    <3>1. Extends(f[b], f[i - 1])
      BY <1>9, <2>2
    <3>2. Extends(f[i - 1], f[i])
      BY <1>4, <1>5, <2>1, GrowKeeps
    <3>3. Extends(f[b], f[i])
      BY <1>5, <2>1, <3>1, <3>2, ExtendsOn
    <3> QED BY <2>1, <3>3
  <2>3. CASE b = i
    BY <2>1, <2>3, <1>7
  <2>4. CASE i < b
    BY <2>1, <2>4
  <2> QED BY <2>1, <2>2, <2>3, <2>4
<1> HIDE DEF S
<1>10. \A i \in 0 .. n : i \in S
  BY <1>4, <1>8, <1>9, Along
<1>11. n \in S
  BY <1>4, <1>10
<1>12. Extends(f[b], f[n])
  BY <1>4, <1>11 DEF S
<1> QED BY <1>5, <1>6, <1>12 DEF q

\* What holds all of a list without duplicates is no shorter.
LEMMA Fits ==
    ASSUME NEW list \in Seq(Magnets), NEW q \in Seq(Magnets), NEW key, Distinct(q, key),
           \A i \in 1 .. Len(q) : Holds(list, q[i], key)
    PROVE  Len(q) <= Len(list)
<1> SUFFICES ASSUME Len(list) < Len(q) PROVE FALSE
  OBVIOUS
<1> DEFINE At(i) == CHOOSE j \in 1 .. Len(list) : key[list[j]] = key[q[i]]
           f == [i \in 1 .. Len(q) |-> At(i)]
<1>1. \A i \in 1 .. Len(q) : At(i) \in 1 .. Len(list) /\ key[list[At(i)]] = key[q[i]]
  BY DEF Holds
<1>2. /\ IsFiniteSet(1 .. Len(q)) /\ Cardinality(1 .. Len(q)) = Len(q)
      /\ IsFiniteSet(1 .. Len(list)) /\ Cardinality(1 .. Len(list)) = Len(list)
  <2>1. ASSUME NEW n \in Nat PROVE IsFiniteSet(1 .. n) /\ Cardinality(1 .. n) = n
    <3>1. PICK a, b \in Int : a = 1 /\ b = n
      OBVIOUS
    <3>2. IsFiniteSet(a .. b)
      BY FS_Interval
    <3>3. Cardinality(a .. b) = IF a > b THEN 0 ELSE b - a + 1
      BY FS_Interval
    <3> QED BY <3>1, <3>2, <3>3
  <2> QED BY <2>1
<1>3. f \in [1 .. Len(q) -> 1 .. Len(list)]
  BY <1>1
<1> HIDE DEF At, f
<1>4. PICK x, y \in 1 .. Len(q) : x # y /\ f[x] = f[y]
  BY <1>2, <1>3, FS_PigeonHole
<1>5. key[q[x]] = key[q[y]]
  BY <1>1, <1>4 DEF f
<1> QED BY <1>4, <1>5 DEF Distinct

\* Merging what the engines found, cut to the budget, loses nothing that would have fitted.
LEMMA Merged ==
    ASSUME NEW list \in Seq(Magnets), NEW theirs \in Seq(Magnets), NEW b \in Nat,
           Len(list) <= b, Distinct(theirs, Hash)
    PROVE  /\ Cut(Fill(list, Cut(theirs, b), Hash, b), b) = Cut(Noted(list, theirs, Hash), b)
           /\ b <= Len(theirs) => b <= Len(Noted(list, theirs, Hash))
<1> DEFINE q == Cut(theirs, b)
           all == Noted(list, theirs, Hash)
           few == Noted(list, q, Hash)
<1>1. q \in Seq(Magnets) /\ all \in Seq(Magnets) /\ few \in Seq(Magnets)
  <2>1. q \in Seq(Magnets)
    BY CutIs
  <2> HIDE DEF q
  <2> QED BY <2>1, NotedKeeps
<1>2. Cut(Fill(list, q, Hash, b), b) = Cut(few, b)
  <2> HIDE DEF q
  <2>1. Fill(list, q, Hash, b) = Cut(few, b)
    BY <1>1, FillCut
  <2> HIDE DEF few
  <2>2. Cut(few, b) \in Seq(Magnets) /\ Len(Cut(few, b)) <= b
    BY <1>1, CutIs
  <2> QED BY <2>1, <2>2, CutIs
<1>3. CASE Len(theirs) < b
  <2>1. q = theirs
    BY <1>3, CutIs
  <2> QED BY <1>2, <1>3, <2>1
<1>4. CASE b <= Len(theirs)
  <2>1. Extends(few, all)
    BY <1>4, NotedCut
  <2>2. Len(q) = b /\ \A i \in 1 .. b : q[i] = theirs[i]
    BY <1>4, CutIs
  <2>3. Distinct(q, Hash)
    <3> HIDE DEF q
    <3>1. DOMAIN q = 1 .. b /\ 1 .. b \subseteq DOMAIN theirs
      BY <1>1, <1>4, <2>2
    <3> QED BY <2>2, <3>1 DEF Distinct
  <2>4. \A i \in 1 .. Len(q) : Holds(few, q[i], Hash)
    <3> HIDE DEF q
    <3> QED BY <1>1, NotedKeeps
  <2> HIDE DEF q, few, all
  <2>5. b <= Len(few)
    BY <1>1, <2>2, <2>3, <2>4, Fits
  <2>6. Cut(all, b) = Cut(few, b)
    BY <1>1, <2>1, <2>5, CutIs
  <2>7. b <= Len(all)
    BY <1>1, <2>1, <2>5 DEF Extends
  <2> QED BY <1>2, <2>6, <2>7 DEF q, all
<1> QED BY <1>3, <1>4

-----------------------------------------------------------------------------
(* HookSearch: the search. *)

\* While the sites are asked, the list is what was offered first.
Asking == pc = "sites" => ~command /\ out = <<>> /\ hits = Cut(offered, budget)

\* While the engines are asked, everything offered is in the sites' list and theirs.
Merging ==
    pc = "engines" =>
        /\ ~command /\ Len(hits) < budget /\ site > Len(Sites)
        /\ Distinct(out, Hash) /\ offered = Note(hits, out)

HookInv ==
    /\ HookTypeOK /\ Asking /\ Merging /\ (pc = "command" => command)
    /\ FirstDistinct /\ OutputIsKept

\* note_hits compares by info hash.
LEMMA NoteIs ==
    ASSUME NEW list, NEW page
    PROVE  Note(list, page) = Noted(list, page, Hash)
BY DEF Note, Noted

\* A page is a list of magnets.
LEMMA PagesAre == Pages \subseteq Seq(Magnets)
BY DEF Pages

\* The budget is at least one and at most the configured one.
LEMMA BudgetIs ==
    ASSUME NEW n \in Nat
    PROVE  BudgetOf(n) \in 1 .. AtLeast(MaxResults, 1)
BY HookAssumption DEF BudgetOf, AtMost, AtLeast

\* A search starts with nothing offered.
LEMMA HookInitInv == HookInit => HookInv
<1> SUFFICES ASSUME HookInit PROVE HookInv
  OBVIOUS
<1>1. budget \in 1 .. AtLeast(MaxResults, 1)
  BY BudgetIs, HookAssumption DEF HookInit
<1>2. Len(Sites) \in Nat /\ Engines \in Nat
  BY HookAssumption
<1>3. Cut(<<>>, budget) = <<>>
  <2>1. budget \in Nat
    BY <1>1
  <2>2. <<>> \in Seq(Magnets) /\ Len(<<>>) <= budget
    BY <2>1
  <2> QED BY <2>1, <2>2, CutIs
<1>4. HookTypeOK
  BY <1>1, <1>2 DEF HookInit, HookTypeOK
<1> QED BY <1>3, <1>4 DEF HookInit, HookInv, Asking, Merging, FirstDistinct, OutputIsKept

\* A template's page: extracted without duplicates, then taken up to the budget.
LEMMA AskSiteInv ==
    ASSUME HookInv, AskSite
    PROVE  HookInv'
<1>1. PICK page \in Findable(Sites[site]) : hits' = Take(hits, Note(<<>>, page)) /\ offered' = Note(offered, page)
  BY DEF AskSite
<1>2. /\ budget \in Nat /\ Len(hits) < budget /\ hits \in Seq(Magnets) /\ offered \in Seq(Magnets)
      /\ hits = Cut(offered, budget)
  <2>1. AtLeast(MaxResults, 1) \in Nat
    BY HookAssumption DEF AtLeast
  <2> QED BY <2>1 DEF AskSite, HookInv, HookTypeOK, Asking
<1>3. page \in Seq(Magnets)
  <2> DEFINE s == Sites[site]
  <2>1. page \in Pages \/ page = <<>>
    <3>1. CASE s.extract = "blank"
      BY <3>1 DEF Findable
    <3>2. CASE s.extract = "detail"
      BY <3>2 DEF Findable
    <3>3. CASE s.extract \notin {"blank", "detail"}
      BY <3>3 DEF Findable
    <3> QED BY <3>1, <3>2, <3>3
  <2>2. CASE page \in Pages
    BY <2>2, PagesAre
  <2>3. CASE page = <<>>
    BY <2>3
  <2> QED BY <2>1, <2>2, <2>3
<1>4. hits = offered
  BY <1>2, CutIs
<1> DEFINE seen == Noted(<<>>, page, Hash)
<1>5. seen \in Seq(Magnets)
  <2>1. <<>> \in Seq(Magnets)
    OBVIOUS
  <2> QED BY <1>3, <2>1, NotedKeeps
<1>6. Noted(hits, seen, Hash) = Noted(hits, page, Hash)
  <2>1. <<>> \in Seq(Magnets)
    OBVIOUS
  <2>2. PICK none \in Seq(Magnets) : none = <<>>
    BY <2>1
  <2>4. Noted(hits, Noted(none, page, Hash), Hash) = Noted(Noted(hits, none, Hash), page, Hash)
    BY <1>2, <1>3, NotedTwice
  <2>3. Noted(hits, <<>>, Hash) = hits
    BY <1>2, NotedEmpty
  <2> QED BY <2>2, <2>3, <2>4
<1>7. hits' = Cut(Noted(hits, seen, Hash), budget)
  <2>1. hits' = Fill(hits, seen, Hash, budget)
    BY <1>1, NoteIs DEF Take
  <2> HIDE DEF seen
  <2> QED BY <1>2, <1>5, <2>1, FillCut
<1>8. offered' = Noted(hits, page, Hash) /\ offered' \in Seq(Magnets)
  <2>1. offered' = Noted(offered, page, Hash)
    BY <1>1, NoteIs
  <2> QED BY <1>2, <1>3, <1>4, <2>1, NotedKeeps
<1> HIDE DEF seen
<1>9. hits' = Cut(offered', budget) /\ hits' \in Seq(Magnets) /\ Len(hits') <= budget
  <2>1. hits' = Cut(offered', budget)
    BY <1>6, <1>7, <1>8
  <2>2. PICK all : all = offered'
    OBVIOUS
  <2>3. Cut(all, budget) \in Seq(Magnets) /\ Len(Cut(all, budget)) <= budget
    BY <1>2, <1>8, <2>2, CutIs
  <2> QED BY <2>1, <2>2, <2>3
<1>10. site + 1 \in 1 .. Len(Sites) + 1
  BY HookAssumption DEF AskSite, HookInv, HookTypeOK
<1>11. /\ pc = "sites" /\ pc' = pc /\ command' = command /\ budget' = budget /\ engine' = engine /\ out' = out
       /\ site' = site + 1
  BY DEF AskSite
<1>12. HookTypeOK'
  BY <1>8, <1>9, <1>10, <1>11 DEF HookInv, HookTypeOK
<1> QED BY <1>9, <1>11, <1>12 DEF HookInv, Asking, Merging, FirstDistinct, OutputIsKept

\* What the sites offered is the list itself, unless the budget is full.
LEMMA LeaveSitesInv ==
    ASSUME HookInv, LeaveSites
    PROVE  HookInv'
<1>1. /\ budget \in Nat /\ hits \in Seq(Magnets) /\ offered \in Seq(Magnets)
      /\ hits = Cut(offered, budget) /\ ~command /\ out = <<>> /\ Len(hits) \in Nat
  <2>1. AtLeast(MaxResults, 1) \in Nat
    BY HookAssumption DEF AtLeast
  <2> QED BY <2>1 DEF LeaveSites, HookInv, HookTypeOK, Asking
<1>2. /\ UNCHANGED <<command, budget, site, engine, hits, out, offered>>
      /\ pc' = IF Len(hits) < budget THEN "engines" ELSE "done"
      /\ site > Len(Sites) \/ Len(hits) >= budget
  BY DEF LeaveSites
<1>3. HookTypeOK'
  BY <1>2 DEF HookInv, HookTypeOK
<1>4. CASE Len(hits) < budget
  <2>1. hits = offered
    BY <1>1, <1>4, CutIs
  <2>2. Note(hits, out) = hits
    BY <1>1, NotedEmpty, NoteIs
  <2>3. Note(hits, out)' = Note(hits, out)
    BY <1>2
  <2>4. Distinct(<<>>, Hash)
    BY DEF Distinct
  <2>5. site > Len(Sites) /\ pc' = "engines"
    BY <1>1, <1>2, <1>4
  <2> QED BY <1>1, <1>2, <1>3, <1>4, <2>1, <2>2, <2>3, <2>4, <2>5
          DEF HookInv, Asking, Merging, FirstDistinct, OutputIsKept
<1>5. CASE ~(Len(hits) < budget)
  <2>1. pc' = "done"
    BY <1>2, <1>5
  <2> QED BY <1>1, <1>2, <1>3, <1>5, <2>1 DEF HookInv, Asking, Merging, FirstDistinct, OutputIsKept
<1> QED BY <1>4, <1>5

\* An engine's page is noted in the engines' list.
LEMMA AskEngineInv ==
    ASSUME HookInv, AskEngine
    PROVE  HookInv'
<1>1. PICK page \in Pages : out' = Note(out, page) /\ offered' = Note(offered, page)
  BY DEF AskEngine
<1>2. /\ hits \in Seq(Magnets) /\ offered \in Seq(Magnets) /\ out \in Seq(Magnets) /\ page \in Seq(Magnets)
      /\ offered = Noted(hits, out, Hash) /\ Distinct(out, Hash)
  BY PagesAre, NoteIs DEF AskEngine, HookInv, HookTypeOK, Merging
<1>3. out' = Noted(out, page, Hash) /\ offered' = Noted(offered, page, Hash)
  BY <1>1, NoteIs
<1>4. Distinct(Noted(out, page, Hash), Hash) /\ out' \in Seq(Magnets) /\ offered' \in Seq(Magnets)
  BY <1>2, <1>3, NotedKeeps
<1>5. Noted(hits, Noted(out, page, Hash), Hash) = Noted(offered, page, Hash)
  BY <1>2, NotedTwice
<1>6. /\ UNCHANGED <<pc, command, budget, site, hits>> /\ engine' = engine + 1 /\ pc = "engines"
      /\ engine <= Engines
  BY DEF AskEngine
<1>7. engine + 1 \in 1 .. Engines + 1
  BY <1>6, HookAssumption DEF HookInv, HookTypeOK
<1>8. HookTypeOK'
  BY <1>4, <1>6, <1>7 DEF HookInv, HookTypeOK
<1>9. Merging'
  <2>1. Note(hits, out)' = Noted(hits, Noted(out, page, Hash), Hash)
    BY <1>3, <1>6 DEF Note, Noted
  <2>2. Distinct(out, Hash)'
    BY <1>3, <1>4
  <2> QED BY <1>3, <1>5, <1>6, <2>1, <2>2 DEF HookInv, Merging
<1> QED BY <1>6, <1>8, <1>9 DEF HookInv, Asking, FirstDistinct, OutputIsKept

\* The engines' list is cut, taken and cut again.
LEMMA MergeInv ==
    ASSUME HookInv, Merge
    PROVE  HookInv'
<1> DEFINE all == Noted(hits, out, Hash)
<1>1. /\ hits \in Seq(Magnets) /\ out \in Seq(Magnets) /\ offered = all /\ Distinct(out, Hash)
      /\ budget \in Nat /\ Len(hits) <= budget /\ ~command /\ site > Len(Sites)
  <2>1. AtLeast(MaxResults, 1) \in Nat
    BY HookAssumption DEF AtLeast
  <2> QED BY <2>1, NoteIs DEF Merge, HookInv, HookTypeOK, Merging
<1>2. hits' = Cut(Fill(hits, Cut(out, budget), Hash, budget), budget)
  BY DEF Merge, Take
<1>3. hits' = Cut(all, budget) /\ (budget <= Len(out) => budget <= Len(all))
  BY <1>1, <1>2, Merged
<1>4. all \in Seq(Magnets)
  BY <1>1, NotedKeeps
<1> HIDE DEF all
<1>5. /\ Cut(all, budget) \in Seq(Magnets)
      /\ Len(Cut(all, budget)) = IF budget <= Len(all) THEN budget ELSE Len(all)
  BY <1>1, <1>4, CutIs
<1>6. /\ UNCHANGED <<command, budget, site, engine, out, offered>> /\ pc' = "done"
      /\ engine > Engines \/ budget <= Len(out)
  <2>1. Len(out) \in Nat /\ budget \in Nat
    BY <1>1
  <2> QED BY <2>1 DEF Merge, Enough
<1>7. hits' \in Seq(Magnets) /\ Len(hits') <= budget /\ (Len(hits') < budget => engine > Engines)
  BY <1>1, <1>3, <1>4, <1>5, <1>6
<1>8. HookTypeOK'
  BY <1>6, <1>7 DEF HookInv, HookTypeOK
<1>9. FirstDistinct'
  BY <1>1, <1>3, <1>6, <1>7 DEF FirstDistinct
<1> QED BY <1>1, <1>6, <1>8, <1>9 DEF HookInv, Asking, Merging, OutputIsKept

\* parse_output: a line that is missing does not fit.
LEMMA ParsedKeeps ==
    ASSUME NEW lines \in Seq(Magnets), budget \in Nat
    PROVE  /\ Parsed(lines) \in Seq(Magnets) /\ Len(Parsed(lines)) <= budget
           /\ \/ Len(Parsed(lines)) = budget
              \/ \A i \in DOMAIN lines : Contains(Parsed(lines), lines[i])
<1> DEFINE all == Fill(<<>>, lines, SameText, Len(lines))
<1>1. /\ all \in Seq(Magnets)
      /\ \A i \in 1 .. Len(lines) : Holds(all, lines[i], SameText)
  <2>1. <<>> \in Seq(Magnets) /\ Room(<<>>, lines) = Len(lines)
    BY DEF Room
  <2>2. all = Noted(<<>>, lines, SameText)
    BY <2>1 DEF Noted
  <2> QED BY <2>1, <2>2, NotedKeeps
<1>2. Parsed(lines) = Cut(all, budget)
  BY DEF Parsed
<1> HIDE DEF all
<1>3. /\ Cut(all, budget) \in Seq(Magnets)
      /\ Len(Cut(all, budget)) = IF budget <= Len(all) THEN budget ELSE Len(all)
      /\ Len(all) <= budget => Cut(all, budget) = all
  BY <1>1, CutIs
<1>4. ASSUME NEW i \in DOMAIN lines PROVE Contains(all, lines[i])
  <2>1. i \in 1 .. Len(lines) /\ lines[i] \in Magnets
    OBVIOUS
  <2>2. PICK k \in 1 .. Len(all) : SameText[all[k]] = SameText[lines[i]]
    BY <1>1, <2>1 DEF Holds
  <2>3. all[k] = lines[i]
    BY <1>1, <2>1, <2>2 DEF SameText
  <2> QED BY <2>3 DEF Contains
<1>5. Len(all) \in Nat
  BY <1>1
<1> QED BY <1>2, <1>3, <1>4, <1>5

\* The command's output, or an error.
LEMMA RunCommandInv ==
    ASSUME HookInv, RunCommand
    PROVE  HookInv'
<1>1. /\ UNCHANGED <<command, budget, site, engine, out>> /\ pc = "command" /\ command
      /\ budget \in Nat
  <2>1. AtLeast(MaxResults, 1) \in Nat
    BY HookAssumption DEF AtLeast
  <2> QED BY <2>1 DEF RunCommand, HookInv, HookTypeOK
<1>2. CASE pc' = "failed" /\ UNCHANGED <<hits, offered>>
  BY <1>1, <1>2 DEF HookInv, HookTypeOK, Asking, Merging, FirstDistinct, OutputIsKept
<1>3. CASE \E lines \in Pages : hits' = Parsed(lines) /\ offered' = lines /\ pc' = "done"
  <2>1. PICK lines \in Pages : hits' = Parsed(lines) /\ offered' = lines /\ pc' = "done"
    BY <1>3
  <2>2. lines \in Seq(Magnets)
    BY PagesAre
  <2>3. /\ hits' \in Seq(Magnets) /\ Len(hits') <= budget
        /\ Len(hits') = budget \/ \A i \in DOMAIN lines : Contains(hits', lines[i])
    BY <1>1, <2>1, <2>2, ParsedKeeps
  <2>4. HookTypeOK'
    BY <1>1, <2>1, <2>2, <2>3 DEF HookInv, HookTypeOK
  <2>5. OutputIsKept'
    BY <1>1, <2>1, <2>3 DEF OutputIsKept
  <2> QED BY <1>1, <2>1, <2>4, <2>5 DEF HookInv, Asking, Merging, FirstDistinct
<1> QED BY <1>2, <1>3 DEF RunCommand

\* The invariant of a search.
LEMMA HookInvAlways == HookSpec => []HookInv
<1>1. HookInv /\ [HookNext]_hookVars => HookInv'
  <2> SUFFICES ASSUME HookInv, [HookNext]_hookVars PROVE HookInv'
    OBVIOUS
  <2>1. CASE UNCHANGED hookVars
    <3>1. UNCHANGED <<pc, command, budget, site, engine, hits, out, offered>>
      BY <2>1 DEF hookVars
    <3> QED BY <3>1 DEF HookInv, HookTypeOK, Asking, Merging, FirstDistinct, OutputIsKept, Note, Room, Distinct
  <2> QED BY <2>1, AskSiteInv, LeaveSitesInv, AskEngineInv, MergeInv, RunCommandInv DEF HookNext
<1> QED BY <1>1, HookInitInv, PTL DEF HookSpec

\* The type invariant: the list of a search (adapter.rs 114-173, 283-317) never
\* grows over its budget, which is at least one.
THEOREM HookTypeCorrect == HookSpec => []HookTypeOK
BY HookInvAlways, PTL DEF HookInv

\* The built-in search (adapter.rs 114-173, builtin.rs 127-169) returns the first
\* distinct torrents it was offered, and leaves a source out only when the budget
\* is full, for any pages, templates, engines and budgets.
THEOREM OffersFirst == HookSpec => []FirstDistinct
BY HookInvAlways, PTL DEF HookInv

\* parse_output (adapter.rs 283-317) loses no line of the command's output that
\* would have fitted, for any output and any budget.
THEOREM KeepsOutput == HookSpec => []OutputIsKept
BY HookInvAlways, PTL DEF HookInv
=============================================================================

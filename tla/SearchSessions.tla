---------------------------- MODULE SearchSessions ----------------------------
(***************************************************************************)
(* Searches from their start to their end: handlers of routes.rs (412-573) *)
(* start, stop and download from them; the sweeper of housekeeping.rs      *)
(* expires them; the Soulseek client that answers them may be replaced at  *)
(* any time by the supervisor of main.rs, and the process may restart.     *)
(*                                                                         *)
(* The table of searches survives a restart, what the backends remember    *)
(* does not.  Every client is an instance of its own; a handler that has   *)
(* looked one up keeps using it after it was replaced.  The hook backend   *)
(* is one instance for the life of the process.                            *)
(*                                                                         *)
(* The table search_results is left out: nothing inserts into it.          *)
(***************************************************************************)
EXTENDS Naturals

CONSTANTS
    Ids,            \* search ids, each used once (UUIDs)
    HookIds,        \* those of searches addressed to the hook backend
    Clients,        \* concurrent handlers
    MaxRequests, MaxConnects, MaxRestarts, MaxFaults    \* bounds

ASSUME SearchAssumption ==
    /\ HookIds \subseteq Ids /\ Ids # {}
    /\ MaxRequests \in Nat /\ MaxConnects \in Nat /\ MaxRestarts \in Nat /\ MaxFaults \in Nat

VARIABLES
    rows,           \* the searches table: id -> state, "none" without a row
    due,            \* ids whose expires_at has passed
    registered,     \* the instances in the two registries of AppState; 0: none
    connected,      \* instances so far
    searches,       \* BackendState::searches of each instance
    found,          \* ids with peer results, per instance (native client)
    cached,         \* BackendState::results of each instance, by search
    hook,           \* HookSearchBackend's finished searches
    origin,         \* the instance a search was started on; 0: none, or hook
    unstored,       \* observes: searches whose stop was answered with an error
    req,            \* the handlers
    sweep,          \* expired ids the sweeper has yet to stop
    spare

vars == <<rows, due, registered, connected, searches, found, cached, hook, origin,
          unstored, req, sweep, spare>>

Ended == {"stopped", "expired"}

Instances == 1 .. MaxConnects

NoRequest == [pc |-> "idle", id |-> CHOOSE i \in Ids : TRUE, inst |-> 0, to |-> 0]

Init ==
    /\ rows = [i \in Ids |-> "none"] /\ due = {}
    /\ registered = [transfer |-> 0, search |-> 0] /\ connected = 0
    /\ searches = [n \in Instances |-> {}] /\ found = [n \in Instances |-> {}]
    /\ cached = [n \in Instances |-> {}]
    /\ hook = {}
    /\ origin = [i \in Ids |-> 0] /\ unstored = {}
    /\ req = [c \in Clients |-> NoRequest]
    /\ sweep = {}
    /\ spare = [requests |-> MaxRequests, restarts |-> MaxRestarts, faults |-> MaxFaults]

Spend(kind) ==
    /\ spare[kind] > 0
    /\ spare' = [spare EXCEPT ![kind] = @ - 1]

Goto(c, pc) == req' = [req EXCEPT ![c].pc = pc]

Done(c) == req' = [req EXCEPT ![c] = NoRequest]

-----------------------------------------------------------------------------
(* What the handlers call. *)

\* SearchStore::get: a search the table does not know is answered 404.
Known(id) == rows[id] # "none"

\* SearchStore::upsert: the row is made, or whatever state it has is replaced.
Upsert(id, state) == rows' = [rows EXCEPT ![id] = state]

\* results() of a Soulseek client knows only the searches it runs; what peers
\* have answered is returned and remembered, for add() to find.
Results(n, id) ==
    /\ id \in searches[n] \cap found[n]
    /\ cached' = [cached EXCEPT ![n] = @ \cup {id}]

-----------------------------------------------------------------------------
(* add_search. *)

\* An id is fresh: nobody has it yet.
Fresh(id) == rows[id] = "none" /\ origin[id] = 0 /\ id \notin hook /\ \A c \in Clients : req[c].id # id \/ req[c].pc = "idle"

\* The backend is looked up; without one the request is refused.
AddSearch(c, id) ==
    /\ req[c].pc = "idle" /\ Fresh(id)
    /\ id \notin HookIds => registered.search # 0
    /\ Spend("requests")
    /\ req' = [req EXCEPT ![c] = [pc |-> "search", id |-> id, inst |-> registered.search, to |-> 0]]
    /\ UNCHANGED <<rows, due, registered, connected, searches, found, cached, hook, origin, unstored, sweep>>

\* Mutant: neither backend checks whom the request is addressed to.
SearchedAnywhere(c) ==
    /\ req[c].pc = "search"
    /\ searches' = [searches EXCEPT ![req[c].inst] = @ \cup {req[c].id}]
    /\ origin' = [origin EXCEPT ![req[c].id] = req[c].inst]
    /\ Goto(c, "row")
    /\ UNCHANGED <<rows, due, registered, connected, found, cached, hook, unstored, sweep, spare>>

\* backend.search: the native client is asked and the token remembered, or the
\* hook's results are put away under the id.  A failed one leaves nothing.
Searched(c) ==
    /\ req[c].pc = "search"
    /\ \/ /\ IF req[c].id \in HookIds
             THEN hook' = hook \cup {req[c].id} /\ UNCHANGED <<searches, origin>>
             ELSE /\ searches' = [searches EXCEPT ![req[c].inst] = @ \cup {req[c].id}]
                  /\ origin' = [origin EXCEPT ![req[c].id] = req[c].inst]
                  /\ UNCHANGED hook
          /\ Goto(c, "row") /\ UNCHANGED spare
       \/ Done(c) /\ Spend("faults") /\ UNCHANGED <<hook, searches, origin>>
    /\ UNCHANGED <<rows, due, registered, connected, found, cached, unstored, sweep>>

\* store.upsert; when it fails nobody knows the id.
StoreSearch(c) ==
    /\ req[c].pc = "row"
    /\ \/ Upsert(req[c].id, "active") /\ UNCHANGED spare
       \/ UNCHANGED rows /\ Spend("faults")
    /\ Done(c)
    /\ UNCHANGED <<due, registered, connected, searches, found, cached, hook, origin, unstored, sweep>>

\* A peer answers (native client); it answers only while the search runs.
PeerResult(n, id) ==
    /\ id \in searches[n] \ found[n]
    /\ found' = [found EXCEPT ![n] = @ \cup {id}]
    /\ UNCHANGED <<rows, due, registered, connected, searches, cached, hook, origin, unstored, req, sweep, spare>>

\* search_results: like Resolve below, without a download.
ShowResults(id) ==
    /\ Known(id) /\ registered.search # 0 /\ Results(registered.search, id)
    /\ UNCHANGED <<rows, due, registered, connected, searches, found, hook, origin, unstored, req, sweep, spare>>

-----------------------------------------------------------------------------
(* stop_search. *)

StopSearch(c, id) ==
    /\ req[c].pc = "idle" /\ Known(id)
    /\ Spend("requests")
    /\ req' = [req EXCEPT ![c] = [NoRequest EXCEPT !.pc = "stop", !.id = id]]
    /\ UNCHANGED <<rows, due, registered, connected, searches, found, cached, hook, origin, unstored, sweep>>

\* Mutant: the client is looked up in the other registry.
SilenceOther(id) ==
    searches' = [n \in Instances |-> IF n = registered.transfer THEN searches[n] \ {id} ELSE searches[n]]

\* stop() of the registered Soulseek client: the token is forgotten.
Silence(id) ==
    searches' = [n \in Instances |-> IF n = registered.search THEN searches[n] \ {id} ELSE searches[n]]

StopBackend(c) ==
    /\ req[c].pc = "stop"
    /\ IF req[c].id \in HookIds
       THEN hook' = hook \ {req[c].id} /\ UNCHANGED searches
       ELSE Silence(req[c].id) /\ UNCHANGED hook
    /\ Goto(c, "stopped")
    /\ UNCHANGED <<rows, due, registered, connected, found, cached, origin, unstored, sweep, spare>>

\* The copy of the row is written back as stopped, whatever it is by now.
StoreStopped(c) ==
    /\ req[c].pc = "stopped"
    /\ \/ Upsert(req[c].id, "stopped") /\ UNCHANGED spare
       \/ UNCHANGED rows /\ Spend("faults")
    /\ unstored' = IF rows' = rows THEN unstored \cup {req[c].id} ELSE unstored
    /\ Done(c)
    /\ UNCHANGED <<due, registered, connected, searches, found, cached, hook, origin, sweep>>

-----------------------------------------------------------------------------
(* download_result: a result of the search is resolved in the registered   *)
(* search backend and handed to the registered transfer backend.           *)

\* Mutant: what results() returns is not remembered.
ResolveUncached(c, id) ==
    /\ req[c].pc = "idle"
    /\ LET n == registered.search IN
        /\ n # 0 /\ id \in searches[n] \cap found[n]
        /\ req' = [req EXCEPT ![c] = [pc |-> "resolved", id |-> id, inst |-> n, to |-> 0]]
    /\ Spend("requests")
    /\ UNCHANGED <<rows, due, registered, connected, searches, found, cached, hook, origin, unstored, sweep>>

\* results() remembers what it returns, for add().  An unknown search or
\* result ends the request.
Resolve(c, id) ==
    /\ req[c].pc = "idle"
    /\ registered.search # 0 /\ Results(registered.search, id)
    /\ req' = [req EXCEPT ![c] = [pc |-> "resolved", id |-> id, inst |-> registered.search, to |-> 0]]
    /\ Spend("requests")
    /\ UNCHANGED <<rows, due, registered, connected, searches, found, hook, origin, unstored, sweep>>

\* The download root is read from the settings, then the backend looked up.
PickTransferBackend(c) ==
    /\ req[c].pc = "resolved"
    /\ req' = [req EXCEPT ![c].pc = "add", ![c].to = registered.transfer]
    /\ UNCHANGED <<rows, due, registered, connected, searches, found, cached, hook, origin, unstored, sweep, spare>>

\* add() refuses a result it does not know as expired; one it knows is
\* downloaded, stored and answered (see SoulseekBackend and TransferSync).
AddDownload(c) ==
    /\ req[c].pc = "add"
    /\ IF req[c].id \in cached[req[c].to] THEN Done(c) ELSE Goto(c, "refused")
    /\ UNCHANGED <<rows, due, registered, connected, searches, found, cached, hook, origin, unstored, sweep, spare>>

Refuse(c) ==
    /\ req[c].pc = "refused"
    /\ Done(c)
    /\ UNCHANGED <<rows, due, registered, connected, searches, found, cached, hook, origin, unstored, sweep, spare>>

-----------------------------------------------------------------------------
(* spawn_ttl_sweeper. *)

\* The time to live of a stored search runs out.
Lapse(id) ==
    /\ rows[id] # "none" /\ id \notin due
    /\ due' = due \cup {id}
    /\ UNCHANGED <<rows, registered, connected, searches, found, cached, hook, origin, unstored, req, sweep, spare>>

\* Mutant: only what the client still runs is expired.
ExpirableKnown == {i \in due : rows[i] = "active" /\ \E n \in Instances : i \in searches[n]}

\* Mutant: stopped searches are not excepted from expiry.
ExpirableAgain == {i \in due : rows[i] \notin {"none", "expired"}}

\* The rows expire_searches updates and returns.
Expirable == {i \in due : rows[i] \notin {"none"} \cup Ended}

ExpireSearches ==
    /\ sweep = {} /\ Expirable # {}
    /\ \/ /\ rows' = [i \in Ids |-> IF i \in Expirable THEN "expired" ELSE rows[i]]
          /\ sweep' = Expirable /\ UNCHANGED spare
       \/ UNCHANGED <<rows, sweep>> /\ Spend("faults")
    /\ UNCHANGED <<due, registered, connected, searches, found, cached, hook, origin, unstored, req>>

\* Mutant: every search whose time is over is stopped, expired or not.
StopDue(id) ==
    /\ id \in due
    /\ Silence(id)
    /\ sweep' = sweep \ {id}
    /\ UNCHANGED <<rows, due, registered, connected, found, cached, hook, origin, unstored, req, spare>>

\* Each expired search is stopped on the Soulseek backend, whatever its kind;
\* for one of the hook that does nothing.
StopExpired(id) ==
    /\ id \in sweep
    /\ Silence(id)
    /\ sweep' = sweep \ {id}
    /\ UNCHANGED <<rows, due, registered, connected, found, cached, hook, origin, unstored, req, spare>>

Sweep == ExpireSearches \/ \E id \in Ids : StopExpired(id)

-----------------------------------------------------------------------------
(* The supervisor and the process. *)

\* A new client is registered for transfers first, then for searches.
Connect ==
    /\ connected < MaxConnects /\ registered.transfer = registered.search
    /\ connected' = connected + 1
    /\ registered' = [registered EXCEPT !.transfer = connected']
    /\ UNCHANGED <<rows, due, searches, found, cached, hook, origin, unstored, req, sweep, spare>>

RegisterSearch ==
    /\ registered.search # registered.transfer
    /\ registered' = [registered EXCEPT !.search = registered.transfer]
    /\ UNCHANGED <<rows, due, connected, searches, found, cached, hook, origin, unstored, req, sweep, spare>>

\* The process dies with its backends, handlers and sweeper, and starts anew.
Restart ==
    /\ Spend("restarts")
    /\ registered' = [transfer |-> 0, search |-> 0]
    /\ searches' = [n \in Instances |-> {}] /\ found' = [n \in Instances |-> {}]
    /\ cached' = [n \in Instances |-> {}]
    /\ hook' = {} /\ sweep' = {}
    /\ req' = [c \in Clients |-> NoRequest]
    /\ UNCHANGED <<rows, due, connected, origin, unstored>>

Handle(c) ==
    \/ Searched(c) \/ StoreSearch(c)
    \/ StopBackend(c) \/ StoreStopped(c)
    \/ PickTransferBackend(c) \/ AddDownload(c) \/ Refuse(c)

Next ==
    \/ \E c \in Clients, id \in Ids : AddSearch(c, id) \/ StopSearch(c, id) \/ Resolve(c, id)
    \/ \E c \in Clients : Handle(c)
    \/ \E n \in Instances, id \in Ids : PeerResult(n, id)
    \/ \E id \in Ids : Lapse(id) \/ ShowResults(id)
    \/ Sweep
    \/ Connect \/ RegisterSearch \/ Restart

Spec == Init /\ [][Next]_vars

\* tokio polls ready tasks, the sweeper ticks every minute, and time passes.
FairSpec ==
    /\ Spec
    /\ WF_vars(Sweep) /\ WF_vars(RegisterSearch)
    /\ \A id \in Ids : WF_vars(Lapse(id))
    /\ \A c \in Clients : WF_vars(Handle(c))

-----------------------------------------------------------------------------
(* Properties. *)

\* Type invariant.
TypeOK ==
    /\ rows \in [Ids -> {"none", "active"} \cup Ended]
    /\ due \subseteq {i \in Ids : rows[i] # "none"} /\ sweep \subseteq Ids
    /\ connected \in 0 .. MaxConnects
    /\ registered \in [{"transfer", "search"} -> 0 .. connected]
    /\ \A n \in Instances :
          /\ searches[n] \subseteq {i \in Ids \ HookIds : origin[i] = n}
          /\ found[n] \subseteq {i \in Ids : origin[i] = n} /\ cached[n] \subseteq found[n]
    /\ hook \subseteq HookIds /\ unstored \subseteq Ids /\ origin \in [Ids -> 0 .. connected]
    /\ \A c \in Clients : req[c].id \in Ids /\ {req[c].inst, req[c].to} \subseteq 0 .. connected
    /\ spare \in [{"requests", "restarts", "faults"} -> Nat]

\* A search that has ended in the table is not running in the registered client,
\* unless the sweeper is about to stop it: the order of the two writes differs
\* between stop_search (backend first) and the sweeper (row first), and requests,
\* expiry and reconnects fall between them.
EndedIsSilent ==
    \A id \in Ids \ HookIds : \A n \in {registered.search} \ {0} :
        rows[id] \in Ended /\ id \in searches[n] => id \in sweep

\* A search the table calls active is answered by the client it was started on
\* for as long as that client is registered, unless somebody asked to stop it:
\* the sweeper never silences a search before it expires it.
ActiveIsAnswered ==
    \A id \in Ids \ HookIds :
        rows[id] = "active" /\ origin[id] = registered.search /\ id \notin searches[origin[id]]
            => id \in unstored \/ \E c \in Clients : req[c].pc = "stopped" /\ req[c].id = id

\* Once ended a search stays ended, and one that was stopped is never reported
\* as expired (search.rs 249-253; the copy in stop_search may overwrite an expiry).
EndIsFinal ==
    [][\A id \in Ids : rows[id] \in Ended =>
          rows'[id] \in Ended /\ (rows[id] = "stopped" => rows'[id] = "stopped")]_vars

\* A result that was just resolved is refused as expired only when the client
\* was replaced between the two look-ups or halfway through its registration.
RefusedOnlyAcrossClients ==
    \A c \in Clients : req[c].pc = "refused" => req[c].inst # req[c].to

\* Every stored search of the Soulseek backend ends, also one that was stored before a
\* restart, and the client of a search that has ended is told.
SearchesEnd ==
    \A id \in Ids \ HookIds :
        rows[id] = "active" ~>
            rows[id] \in Ended /\ \A n \in {registered.search} \ {0} : id \notin searches[n]

-----------------------------------------------------------------------------
(* What a comment claims and the code does not do. *)

\* housekeeping.rs 13-14: the sweeper stops expired searches on the backend.
ExpiredIsReleased ==
    \A id \in HookIds : rows[id] = "expired" /\ id \in hook => id \in sweep
=============================================================================

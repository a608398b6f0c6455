-------------------------- MODULE SoulseekSupervisor --------------------------
(***************************************************************************)
(* How a change of the soulseek.* settings reaches the running client.     *)
(*                                                                         *)
(* Handlers of routes.rs write the settings table one key per await and    *)
(* then bump a watch generation (state.rs).  The supervisor task of        *)
(* main.rs loops: read the settings key by key, connect, register the new  *)
(* client as transfer backend and then as search backend, and wait for a   *)
(* generation it has not seen.                                             *)
(*                                                                         *)
(* A configuration maps each reload key to a value.  In which order the    *)
(* keys of one request or one pass come is left open.  A failed call to    *)
(* the database or the Soulseek server is bounded by MaxFaults.            *)
(***************************************************************************)
EXTENDS Naturals

CONSTANTS
    Keys,           \* SOULSEEK_RELOAD_KEYS
    UserKey,        \* "soulseek.username"
    BakedKeys,      \* keys apply_settings_overrides_from knows
    Values, Blank,  \* setting values, and the all-whitespace one
    NoValue,        \* no row, or no such value in the TOML file
    Config,         \* the bootstrap configuration
    Clients,        \* concurrent settings requests
    MaxRequests, MaxRestarts, MaxFaults     \* bounds

ASSUME SupervisorAssumption ==
    /\ UserKey \in Keys /\ BakedKeys \subseteq Keys
    /\ Blank \in Values /\ NoValue \notin Values
    /\ Config \in [Keys -> Values \cup {NoValue}]
    /\ MaxRequests \in Nat /\ MaxRestarts \in Nat /\ MaxFaults \in Nat

VARIABLES
    settings,       \* the settings table: key -> value, or NoValue
    base,           \* config.soulseek after the overrides applied at startup
    generation,     \* backend_reload's value
    seen,           \* the generation the supervisor has seen
    supPc,          \* "read", "connect", "transfer", "search", "wait"
    unread,         \* keys the supervisor has yet to read in this pass
    effective,      \* the configuration it is putting together
    transferCfg,    \* configuration of the registered transfer backend
    searchCfg,      \* and of the registered search backend
    put,            \* the settings requests: keys to write, keys written
    clean,          \* since the pass began no call failed and no setting
                    \* changed without a notification
    budget

vars == <<settings, base, generation, seen, supPc, unread, effective,
          transferCfg, searchCfg, put, clean, budget>>

Configs == [Keys -> Values \cup {NoValue}]

NoClient == [k \in Keys |-> NoValue]

NoPut == [k \in Keys |-> NoValue]

\* A request: what it still has to write, and the keys it has written
\* (the vector `changed`).
Idle == [active |-> FALSE, values |-> NoPut, changed |-> {}]

\* apply_settings_overrides_from: stored values win over the file, blank ones
\* included, and stay in the base configuration of this process.
Baked(stored) ==
    [k \in Keys |-> IF k \in BakedKeys /\ stored[k] # NoValue THEN stored[k] ELSE Config[k]]

Init ==
    /\ settings = NoPut /\ base = Baked(NoPut)
    /\ generation = 0 /\ seen = 0
    /\ supPc = "read" /\ unread = Keys /\ effective = base
    /\ transferCfg = NoClient /\ searchCfg = NoClient
    /\ put = [c \in Clients |-> Idle]
    /\ clean = TRUE
    /\ budget = [requests |-> MaxRequests, restarts |-> MaxRestarts, faults |-> MaxFaults]

Spend(kind) ==
    /\ budget[kind] > 0
    /\ budget' = [budget EXCEPT ![kind] = @ - 1]

-----------------------------------------------------------------------------
(* The supervisor. *)

\* A stored value is used unless it is missing or blank.  (For the password,
\* which is not among the keys of the instances, a blank one counts.)
Override(stored, k) == IF stored[k] \in {NoValue, Blank} THEN base[k] ELSE stored[k]

\* effective_soulseek_config: one key.  A failed read counts as no row.
ReadKey(k) ==
    /\ supPc = "read" /\ k \in unread
    /\ unread' = unread \ {k}
    /\ \/ /\ effective' = [effective EXCEPT ![k] = Override(settings, k)]
          /\ UNCHANGED <<clean, budget>>
       \/ /\ UNCHANGED effective /\ clean' = FALSE /\ Spend("faults")
    /\ UNCHANGED <<settings, base, generation, seen, supPc, transferCfg, searchCfg, put>>

HasUser(cfg) == cfg[UserKey] \notin {NoValue, Blank}

\* NativeSoulseekBackend::connect; without a user name, or when it fails, the
\* registered client stays and the supervisor waits for the next change.
Connect ==
    /\ supPc = "read" /\ unread = {}
    /\ \/ HasUser(effective) /\ supPc' = "transfer" /\ UNCHANGED <<clean, budget>>
       \/ HasUser(effective) /\ supPc' = "wait" /\ clean' = FALSE /\ Spend("faults")
       \/ ~HasUser(effective) /\ supPc' = "wait" /\ UNCHANGED <<clean, budget>>
    /\ UNCHANGED <<settings, base, generation, seen, unread, effective, transferCfg,
                   searchCfg, put>>

RegisterTransfer ==
    /\ supPc = "transfer"
    /\ transferCfg' = effective /\ supPc' = "search"
    /\ UNCHANGED <<settings, base, generation, seen, unread, effective, searchCfg,
                   put, clean, budget>>

\* Mutant: the receiver is told to skip what arrived during the connect.
RegisterSearchMarksSeen ==
    /\ supPc = "search"
    /\ searchCfg' = effective /\ supPc' = "wait" /\ seen' = generation
    /\ UNCHANGED <<settings, base, generation, unread, effective, transferCfg,
                   put, clean, budget>>

RegisterSearch ==
    /\ supPc = "search"
    /\ searchCfg' = effective /\ supPc' = "wait"
    /\ UNCHANGED <<settings, base, generation, seen, unread, effective, transferCfg,
                   put, clean, budget>>

\* reload.changed(): only a generation not seen yet wakes the supervisor.
Wake ==
    /\ supPc = "wait" /\ seen # generation
    /\ seen' = generation
    /\ supPc' = "read" /\ unread' = Keys /\ effective' = base
    /\ clean' = TRUE
    /\ UNCHANGED <<settings, base, generation, transferCfg, searchCfg, put, budget>>

Supervise == (\E k \in Keys : ReadKey(k)) \/ Connect \/ RegisterTransfer \/ RegisterSearch \/ Wake

-----------------------------------------------------------------------------
(* The settings handlers. *)

\* validate_storage_root_values refuses a blank root before anything is stored.
Valid(values) == \A k \in Keys \ {UserKey} : values[k] # Blank

\* Mutant: the values are stored as they come.
PutUnvalidated(c, values) ==
    /\ ~put[c].active
    /\ values # NoPut
    /\ Spend("requests")
    /\ put' = [put EXCEPT ![c] = [active |-> TRUE, values |-> values, changed |-> {}]]
    /\ UNCHANGED <<settings, base, generation, seen, supPc, unread, effective,
                   transferCfg, searchCfg, clean>>

\* put_settings (several keys) and put_setting (one).
Put(c, values) ==
    /\ ~put[c].active
    /\ values # NoPut /\ Valid(values)
    /\ Spend("requests")
    /\ put' = [put EXCEPT ![c] = [active |-> TRUE, values |-> values, changed |-> {}]]
    /\ UNCHANGED <<settings, base, generation, seen, supPc, unread, effective,
                   transferCfg, searchCfg, clean>>

\* store.set for one key; an error ends the request, and what it has stored
\* so far is not announced.
SetKey(c, k) ==
    /\ put[c].active /\ put[c].values[k] # NoValue
    /\ \/ /\ settings' = [settings EXCEPT ![k] = put[c].values[k]]
          /\ put' = [put EXCEPT ![c].values[k] = NoValue, ![c].changed = @ \cup {k}]
          /\ UNCHANGED <<clean, budget>>
       \/ /\ put' = [put EXCEPT ![c] = Idle]
          /\ clean' = (clean /\ put[c].changed = {})
          /\ Spend("faults")
          /\ UNCHANGED settings
    /\ UNCHANGED <<base, generation, seen, supPc, unread, effective, transferCfg, searchCfg>>

\* Mutant: of the keys only the user name is known to need a reload.
NotifyUserOnly(c) ==
    /\ put[c].active /\ put[c].values = NoPut
    /\ generation' = IF UserKey \in put[c].changed THEN generation + 1 ELSE generation
    /\ put' = [put EXCEPT ![c] = Idle]
    /\ UNCHANGED <<settings, base, seen, supPc, unread, effective, transferCfg,
                   searchCfg, clean, budget>>

\* notify_settings_changed, once every key is stored.
Notify(c) ==
    /\ put[c].active /\ put[c].values = NoPut
    /\ generation' = generation + 1
    /\ put' = [put EXCEPT ![c] = Idle]
    /\ UNCHANGED <<settings, base, seen, supPc, unread, effective, transferCfg,
                   searchCfg, clean, budget>>

\* delete_setting notifies nobody.
DeleteSetting(k) ==
    /\ settings[k] # NoValue
    /\ Spend("requests")
    /\ settings' = [settings EXCEPT ![k] = NoValue]
    /\ clean' = FALSE
    /\ UNCHANGED <<base, generation, seen, supPc, unread, effective, transferCfg,
                   searchCfg, put>>

Handle(c) == (\E k \in Keys : SetKey(c, k)) \/ Notify(c)

-----------------------------------------------------------------------------

\* The process starts again with what the settings table holds.
Restart ==
    /\ Spend("restarts")
    /\ base' = Baked(settings)
    /\ generation' = 0 /\ seen' = 0
    /\ supPc' = "read" /\ unread' = Keys /\ effective' = base'
    /\ transferCfg' = NoClient /\ searchCfg' = NoClient
    /\ put' = [c \in Clients |-> Idle]
    /\ clean' = TRUE
    /\ UNCHANGED settings

Next ==
    \/ Supervise
    \/ \E c \in Clients : Handle(c) \/ \E values \in Configs : Put(c, values)
    \/ \E k \in Keys : DeleteSetting(k)
    \/ Restart

Spec == Init /\ [][Next]_vars

\* tokio keeps the supervisor and every accepted request running.
FairSpec ==
    /\ Spec
    /\ WF_vars(Supervise)
    /\ \A c \in Clients : WF_vars(Handle(c))

-----------------------------------------------------------------------------
(* Properties. *)

\* Type invariant.  Only the user name may be stored blank, and no generation
\* is seen before it exists.
TypeOK ==
    /\ settings \in Configs /\ base \in Configs /\ effective \in Configs
    /\ Valid(settings)
    /\ generation \in Nat /\ seen \in 0 .. generation
    /\ supPc \in {"read", "transfer", "search", "wait"}
    /\ unread \subseteq Keys
    /\ transferCfg \in Configs /\ searchCfg \in Configs
    /\ put \in [Clients -> [active : BOOLEAN, values : Configs, changed : SUBSET Keys]]
    /\ \A c \in Clients : Valid(put[c].values) /\ (put[c].active \/ put[c] = Idle)
    /\ clean \in BOOLEAN
    /\ budget \in [{"requests", "restarts", "faults"} -> Nat]

\* What the stored settings ask for.
Wanted == [k \in Keys |-> Override(settings, k)]

\* A request has stored a key it has not announced yet.
Unannounced == \E c \in Clients : put[c].changed # {}

\* Nothing more will happen unless somebody changes a setting.
Settled == supPc = "wait" /\ seen = generation /\ ~Unannounced

\* The clients in use are those the stored settings ask for.
InUse == HasUser(Wanted) => transferCfg = Wanted /\ searchCfg = Wanted

\* No wakeup is lost (state.rs 59-67 against main.rs 382-427): however the key
\* writes of concurrent PUTs interleave with the supervisor's key reads, its
\* connect and its two registrations, once it waits with nothing left to see
\* both registered clients run the stored configuration.
SettledOnStored == Settled /\ clean => InUse

\* A pass that began with everything announced never connects with half of a
\* request: the configuration handed to the client is the stored one unless a
\* newer generation is about to wake the supervisor.
NoTornConfigKept ==
    supPc \in {"transfer", "search"} /\ clean /\ seen = generation /\ ~Unannounced =>
        effective = Wanted

\* Under fair scheduling the clients in use come to be the wanted ones for
\* good, or some unannounced change or failed call is to blame.
Adopts == <>[](clean => InUse)
=============================================================================

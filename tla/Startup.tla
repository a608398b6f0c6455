-------------------------------- MODULE Startup --------------------------------
(***************************************************************************)
(* From the command line to a service that answers (src/main.rs,           *)
(* core/config.rs, core/token.rs): the configuration file with the         *)
(* environment laid over it, read twice, the API token, the stored         *)
(* settings over both, the engines and at last the port.  Several          *)
(* processes may start side by side and any may die between two steps; the *)
(* user edits the file, and the settings of the service that answers.      *)
(*                                                                         *)
(* Four values stand for the configuration: the data directory, the        *)
(* Soulseek user name, a download root and the switch of the magnet        *)
(* search.  A file is written in two steps, and while it is empty it reads *)
(* as the defaults (a token, as none).                                     *)
(*                                                                         *)
(* The formulas of the specification have Boot in their names, to be told  *)
(* from those of SoulseekSupervisor, which takes the settings over.        *)
(***************************************************************************)
EXTENDS Integers, FiniteSets

CONSTANTS
    Procs,
    None, Empty, Junk,      \* no value, an empty one, one of the wrong form
    Dirs, DefaultDir,       \* data directories
    WorkDir, RunData,       \* where the desktop shell was started, and run/data below it
    Unusable,               \* directories that cannot be created
    Users, Roots, DefaultRoot, On, Off,
    Calls,                  \* the ways to start: a command, the file named or not, an environment
    Files, Edits,           \* configuration files there may be, and the user may write
    Stored,                 \* settings there may be from before
    Puts,                   \* changes of settings, as key and value
    MaxStarts, MaxEdits, MaxPuts    \* bounds

Switch == {On, Off}

Configurations == [data : Dirs, user : Users \cup {None, Empty}, root : Roots, hook : Switch]

Defaults == [data |-> DefaultDir, user |-> None, root |-> DefaultRoot, hook |-> Off]

Absent == [kind |-> "absent", conf |-> Defaults]
Broken == [kind |-> "broken", conf |-> Defaults]
Toml(c) == [kind |-> "toml", conf |-> c]

ASSUME StartupAssumption ==
    /\ {WorkDir, RunData} \subseteq Dirs
    /\ DefaultDir \in Dirs \ Unusable /\ Unusable \subseteq Dirs /\ DefaultRoot \in Roots
    /\ On # Off
    /\ {None, Empty, Junk} \cap (Dirs \cup Users \cup Roots \cup Switch) = {}
    /\ \A f \in Files : f \in {Absent, Broken} \/ \E c \in Configurations, d \in Dirs \cup {Empty} :
                                                     f = Toml([c EXCEPT !.data = d])
    /\ Edits \subseteq Files
    /\ MaxStarts \in Nat /\ MaxEdits \in Nat /\ MaxPuts \in Nat

\* What the API lets in: a root has been validated.  Of a password only a wrong form
\* makes a difference here.
SettingValues ==
    [user |-> Users \cup {None, Empty, Junk}, pass |-> {None, Junk}, root |-> Roots \cup {None},
     hook |-> Switch \cup {None, Junk}]

Settings ==
    [user : SettingValues.user, pass : SettingValues.pass, root : SettingValues.root, hook : SettingValues.hook]

NoSettings == [user |-> None, pass |-> None, root |-> None, hook |-> None]

ASSUME StoredAssumption == Stored \subseteq Settings

ASSUME PutsAssumption == \A change \in Puts : change[1] \in DOMAIN SettingValues /\ change[2] \in SettingValues[change[1]]

\* The environment is text: a user name may be any.
Environments ==
    [data : Dirs \cup {None, Empty}, user : Users \cup {None, Empty}, root : Roots \cup {None, Empty},
     hook : Switch \cup {None, Empty, Junk}]

ASSUME CallsAssumption == Calls \subseteq [command : {"serve", "migrate"}, named : BOOLEAN, env : Environments]

VARIABLES
    file,       \* agpeer.toml
    writable,   \* whether the directory it belongs in is there; nothing creates it
    token,      \* data directory -> the token in it, 0 for none
    table,      \* data directory -> the stored settings
    proc,       \* process -> where it is, and its locals
    bridge,     \* agpeer-mcp: the directory it was given, and the token it found there
    edited,     \* observes: what the user last made of the file
    choice,     \* observes: data directory -> what the user last chose for the search
    crossed,    \* observes: what was written between another's look at it and its write
    starts, edits, puts

bootVars == <<file, writable, token, table, proc, bridge, edited, choice, crossed, starts, edits, puts>>

NoEnv == [data |-> None, user |-> None, root |-> None, hook |-> None]

\* found and disturbed observe the file as it was at the start, and whether it changed since.
Ended == [pc |-> "off", id |-> 0, command |-> "serve", named |-> FALSE, env |-> NoEnv, first |-> TRUE,
          logs |-> DefaultDir, config |-> Defaults, token |-> 0, settings |-> NoSettings,
          bootstrap |-> Defaults, found |-> Absent, disturbed |-> FALSE]

NoBridge == [dir |-> DefaultDir, token |-> 0]

\* Nothing has run before, or number 1 has, which left settings and a token.
BootInit ==
    /\ file \in Files /\ edited = file /\ writable \in BOOLEAN
    /\ \E s \in Stored :
          /\ table = [d \in Dirs |-> s]
          /\ token = [d \in Dirs |-> IF s = NoSettings THEN 0 ELSE 1]
    /\ proc = [p \in Procs |-> Ended] /\ bridge = NoBridge
    /\ choice = [d \in Dirs |-> table[d].hook] /\ crossed = {}
    /\ starts = 1 /\ edits = 0 /\ puts = 0

-----------------------------------------------------------------------------
(* Values. *)

\* apply_env_overrides_from.  A user name is taken as it is, an empty one too.
EnvOverlay(c, env) ==
    [data |-> IF env.data \in {None, Empty} THEN c.data ELSE env.data,
     user |-> IF env.user = None THEN c.user ELSE env.user,
     root |-> IF env.root \in {None, Empty} THEN c.root ELSE env.root,
     hook |-> IF env.hook \in Switch THEN env.hook ELSE c.hook]

\* from_file, as far as the text goes.
FromFile(f, env) ==
    EnvOverlay(IF f.conf.data = Empty THEN [f.conf EXCEPT !.data = DefaultDir] ELSE f.conf, env)

\* ensure_dirs.
Usable(c) == c.data \notin Unusable

\* Mutant: an empty user name is refused as an empty root is.
StrictOverrides(c, s) ==
    IF s.user \in {Junk, Empty} THEN c
    ELSE [c EXCEPT !.user = IF s.user = None THEN @ ELSE s.user,
                   !.root = IF s.root = None \/ s.pass = Junk THEN @ ELSE s.root]

\* apply_settings_overrides_from: user name, password, roots.  At a value that is no
\* string it gives up, and what comes after stays as it is.
SettingsOverrides(c, s) ==
    IF s.user = Junk THEN c
    ELSE [c EXCEPT !.user = IF s.user = None THEN @ ELSE s.user,
                   !.root = IF s.root = None \/ s.pass = Junk THEN @ ELSE s.root]

Serving == {p \in Procs : proc[p].pc = "serving"}

Data(p) == proc[p].config.data

Loading == {p \in Procs : proc[p].pc \in {"load", "create", "fill"}}

\* A change of the file disturbs those who are loading it.
Disturbed(S) ==
    [p \in Procs |-> IF p \in S THEN [proc[p] EXCEPT !.disturbed = TRUE] ELSE proc[p]]

Goto(p, label) == proc' = [proc EXCEPT ![p].pc = label]

End(p) == proc' = [proc EXCEPT ![p] = Ended]

Others == <<bridge, edited, choice, edits, puts>>

\* SettingsStore: set and, with None, delete; all; get_typed.
Set(d, key, value) == [table EXCEPT ![d][key] = value]

All(d) == table[d]

GetTyped(d, key, T) == IF table[d][key] \in T THEN table[d][key] ELSE None

\* token_matches.
Accepts(p, t) == t # 0 /\ t = proc[p].token

-----------------------------------------------------------------------------
(* main: load for the directory of the logs, load again for the command. *)

Start(p, call) ==
    /\ proc[p].pc = "off" /\ starts < MaxStarts
    /\ starts' = starts + 1
    /\ proc' = [proc EXCEPT ![p] = [Ended EXCEPT !.pc = "load", !.id = starts + 1, !.command = call.command,
                                                 !.named = call.named, !.env = call.env, !.found = file]]
    /\ UNCHANGED <<file, writable, token, table, crossed, Others>>

\* What follows a load that gave c: the first one names the directory of the logs,
\* the second is the command's.
After(r, c) ==
    IF r.first
    THEN [r EXCEPT !.config = c, !.logs = c.data, !.first = FALSE, !.pc = "load"]
    ELSE [r EXCEPT !.config = c, !.pc = IF r.command = "migrate" THEN "migrate" ELSE "token"]

\* A load that failed: the logs go to the default directory, the command ends.
Failed(p) ==
    IF proc[p].first
    THEN proc' = [proc EXCEPT ![p].logs = DefaultDir, ![p].first = FALSE]
    ELSE End(p)

\* load, or from_file if the command line names the file.
LoadFile(p) ==
    LET c == FromFile(file, proc[p].env)
    IN  /\ proc[p].pc = "load" /\ file.kind # "absent"
        /\ IF file.kind = "toml" /\ Usable(c)
           THEN proc' = [proc EXCEPT ![p] = After(proc[p], c)]
           ELSE Failed(p)
        /\ UNCHANGED <<file, writable, token, table, crossed, starts, Others>>

\* Mutant: without a file the environment is not looked at.
LoadAbsentBare(p) ==
    /\ proc[p].pc = "load" /\ file.kind = "absent"
    /\ IF proc[p].named THEN Failed(p)
       ELSE IF writable THEN proc' = [proc EXCEPT ![p].config = Defaults, ![p].pc = "create"]
       ELSE proc' = [proc EXCEPT ![p] = After(proc[p], Defaults)]
    /\ UNCHANGED <<file, writable, token, table, crossed, starts, Others>>

LoadAbsent(p) ==
    LET c == EnvOverlay(Defaults, proc[p].env)
    IN  /\ proc[p].pc = "load" /\ file.kind = "absent"
        /\ IF proc[p].named \/ ~Usable(c) THEN Failed(p)
           ELSE IF writable THEN proc' = [proc EXCEPT ![p].config = c, ![p].pc = "create"]
           ELSE proc' = [proc EXCEPT ![p] = After(proc[p], c)]
        /\ UNCHANGED <<file, writable, token, table, crossed, starts, Others>>

\* std::fs::write, over whatever has come to be there.
Create(p) ==
    /\ proc[p].pc = "create"
    /\ file' = Toml(Defaults)
    /\ proc' = [Disturbed(Loading \ {p}) EXCEPT ![p].pc = "fill"]
    /\ UNCHANGED <<writable, token, table, crossed, starts, Others>>

Fill(p) ==
    /\ proc[p].pc = "fill"
    /\ file' = Toml(proc[p].config)
    /\ proc' = [Disturbed(Loading \ {p}) EXCEPT ![p] = After(proc[p], proc[p].config)]
    /\ UNCHANGED <<writable, token, table, crossed, starts, Others>>

\* run_migrate changes nothing that is modelled here; any process may die anywhere,
\* or be stopped.
Exit(p) ==
    /\ proc[p].pc # "off"
    /\ End(p)
    /\ UNCHANGED <<file, writable, token, table, crossed, starts, Others>>

-----------------------------------------------------------------------------
(* ensure_token. *)

\* Mutant: a token for each start.
ReadNoToken(p) ==
    /\ proc[p].pc = "token"
    /\ Goto(p, "newToken")
    /\ UNCHANGED <<file, writable, token, table, crossed, starts, Others>>

ReadToken(p) ==
    /\ proc[p].pc = "token"
    /\ IF token[Data(p)] # 0
       THEN proc' = [proc EXCEPT ![p].token = token[Data(p)], ![p].pc = "settings"]
       ELSE Goto(p, "newToken")
    /\ UNCHANGED <<file, writable, token, table, crossed, starts, Others>>

Making(d) == {q \in Procs : Data(q) = d /\ proc[q].pc \in {"newToken", "fillToken"}}

TruncateToken(p) ==
    /\ proc[p].pc = "newToken"
    /\ token' = [token EXCEPT ![Data(p)] = 0]
    /\ crossed' = IF Making(Data(p)) = {p} THEN crossed ELSE crossed \cup {<<"token", Data(p)>>}
    /\ Goto(p, "fillToken")
    /\ UNCHANGED <<file, writable, table, starts, Others>>

FillToken(p) ==
    /\ proc[p].pc = "fillToken"
    /\ token' = [token EXCEPT ![Data(p)] = proc[p].id]
    /\ proc' = [proc EXCEPT ![p].token = proc[p].id, ![p].pc = "settings"]
    /\ crossed' = IF Making(Data(p)) = {p} THEN crossed ELSE crossed \cup {<<"token", Data(p)>>}
    /\ UNCHANGED <<file, writable, table, starts, Others>>

-----------------------------------------------------------------------------
(* run_serve, after the token. *)

ReadSettings(p) ==
    /\ proc[p].pc = "settings"
    /\ proc' = [proc EXCEPT ![p].settings = All(Data(p)), ![p].pc = "seed"]
    /\ UNCHANGED <<file, writable, token, table, crossed, starts, Others>>

\* The API gets the configuration as it was, the engines the one with the settings.
WithEngines(r) ==
    [r EXCEPT !.bootstrap = r.config, !.config = SettingsOverrides(r.config, r.settings), !.pc = "bind"]

\* Mutant: the configuration is stored at each start.
SeedAlways(p) ==
    /\ proc[p].pc = "seed"
    /\ table' = Set(Data(p), "hook", proc[p].config.hook)
    /\ proc' = [proc EXCEPT ![p] = WithEngines(proc[p])]
    /\ UNCHANGED <<file, writable, token, crossed, starts, Others>>

\* hook_search.enabled is stored if the copy of the settings has none; the result of
\* the write is not looked at.
Seed(p) ==
    /\ proc[p].pc = "seed"
    /\ \/ table' = IF proc[p].settings.hook = None
                   THEN Set(Data(p), "hook", proc[p].config.hook) ELSE table
       \/ UNCHANGED table
    /\ proc' = [proc EXCEPT ![p] = WithEngines(proc[p])]
    /\ UNCHANGED <<file, writable, token, crossed, starts, Others>>

\* Only now the port, which one process has at a time.
Bind(p) ==
    /\ proc[p].pc = "bind"
    /\ IF Serving = {} THEN Goto(p, "serving") ELSE End(p)
    /\ UNCHANGED <<file, writable, token, table, crossed, starts, Others>>

-----------------------------------------------------------------------------
(* The user. *)

Edit(f) ==
    /\ edits < MaxEdits /\ f # file
    /\ edits' = edits + 1
    /\ file' = f /\ edited' = f
    /\ crossed' = crossed \cup (IF \E q \in Procs : proc[q].pc \in {"create", "fill"} THEN {<<"file", DefaultDir>>} ELSE {})
    /\ proc' = Disturbed(Loading)
    /\ UNCHANGED <<writable, token, table, bridge, choice, starts, puts>>

\* put_setting and, with None, delete_setting.
PutSetting(p, key, value) ==
    LET d == Data(p)
    IN  /\ p \in Serving /\ puts < MaxPuts /\ value # table[d][key]
        /\ puts' = puts + 1
        /\ table' = Set(d, key, value)
        /\ choice' = IF key = "hook" THEN [choice EXCEPT ![d] = value] ELSE choice
        /\ crossed' = IF \E q \in Procs : Data(q) = d /\ proc[q].pc = "seed"
                      THEN crossed \cup {<<"hook", d>>} ELSE crossed
        /\ UNCHANGED <<file, writable, token, proc, bridge, edited, starts, edits>>

\* resolve_token of agpeer-mcp: read once, tried on the service, and kept.
Attach(p, d) ==
    /\ p \in Serving /\ bridge = NoBridge /\ Accepts(p, token[d])
    /\ bridge' = [dir |-> d, token |-> token[d]]
    /\ UNCHANGED <<file, writable, token, table, proc, edited, choice, crossed, starts, edits, puts>>

BootNext ==
    \/ \E p \in Procs :
          \/ \E c \in Calls : Start(p, c)
          \/ LoadFile(p) \/ LoadAbsent(p) \/ Create(p) \/ Fill(p) \/ Exit(p)
          \/ ReadToken(p) \/ TruncateToken(p) \/ FillToken(p)
          \/ ReadSettings(p) \/ Seed(p) \/ Bind(p)
          \/ \E change \in Puts : PutSetting(p, change[1], change[2])
          \/ \E d \in Dirs : Attach(p, d)
    \/ \E f \in Edits : Edit(f)

BootSpec == BootInit /\ [][BootNext]_bootVars

-----------------------------------------------------------------------------
(* Properties. *)

Labels == {"off", "load", "create", "fill", "migrate", "token", "newToken", "fillToken",
           "settings", "seed", "bind", "serving"}

\* Type invariant: among the rest, a configuration in use has a data directory that
\* is there, and one process at a time answers.
BootTypeOK ==
    /\ file \in {Absent, Broken} \/ (file.kind = "toml" /\ file.conf.data \in Dirs \cup {Empty})
    /\ writable \in BOOLEAN /\ starts \in Nat /\ edits \in Nat /\ puts \in Nat
    /\ token \in [Dirs -> 0 .. starts]
    /\ \A p \in Procs :
          /\ proc[p].pc \in Labels /\ proc[p].id \in 0 .. starts /\ proc[p].token \in 0 .. starts
          /\ proc[p].config \in [data : Dirs \ Unusable, user : Users \cup {None, Empty}, root : Roots, hook : Switch]
          /\ proc[p].pc \in {"settings", "seed", "bind", "serving"} => proc[p].token # 0
    /\ bridge \in [dir : Dirs, token : 0 .. starts]
    /\ Cardinality(Serving) <= 1

Past(p) == proc[p].pc \in Labels \ {"off", "load", "create", "fill"}

\* A start during which nobody else touched the file ends up with what the file said
\* when it began, the environment over it, although a first start writes the file and
\* reads it again; and its logs are in its data directory (main.rs 212-257, config.rs
\* 288-316).
StartsFromWhatItFound ==
    \A p \in Procs : Past(p) /\ ~proc[p].disturbed =>
        LET c == IF proc[p].pc \in {"bind", "serving"} THEN proc[p].bootstrap ELSE proc[p].config
        IN  /\ c = FromFile(proc[p].found, proc[p].env)
            /\ proc[p].logs = c.data

TokenOf(d) == IF d = None THEN 0 ELSE token[d]

\* get_api_token of the desktop shell: where it takes its token, the first place that
\* has one of the file and the directory its environment names (a blank directory is
\* the working directory), run/data, and the default directory.
ShellSource(shell) ==
    LET places == <<shell.tokenFile, IF shell.data = Empty THEN WorkDir ELSE shell.data, RunData, DefaultDir>>
        First(i) == TokenOf(places[i]) # 0 /\ \A k \in 1 .. i - 1 : TokenOf(places[k]) = 0
    IN  IF \E i \in 1 .. 4 : First(i) THEN places[CHOOSE i \in 1 .. 4 : First(i)] ELSE None

\* The shell's environment leads it to d: no other token file is named, and it names d,
\* or no directory, d is the default one, and no token lies about where the shell was
\* started.
Leads(shell, d) ==
    /\ shell.tokenFile = d \/ TokenOf(shell.tokenFile) = 0
    /\ \/ d \in {shell.tokenFile, shell.data}
       \/ /\ shell.data \in {None, Empty} /\ d = DefaultDir
          /\ \A about \in {RunData} \cup (IF shell.data = Empty THEN {WorkDir} ELSE {}) :
                 about = d \/ token[about] = 0

\* The token the running service asks for is the one in its data directory, for as
\* long as it runs and whatever starts beside it; the desktop shell, which hands its
\* environment to the service it spawns, finds that token wherever this environment
\* leads to the directory, and always if it names a usable one and no token file;
\* and agpeer-mcp, which reads the token once, is accepted by the services that come
\* later in that directory (token.rs 6-18, src-tauri lib.rs 21-57, mcp main.rs 39-87).
\* It fails only where two processes made a token at once.
TokenReaches ==
    \A p \in Serving : <<"token", Data(p)>> \notin crossed =>
        /\ Accepts(p, token[Data(p)])
        /\ \A tokenFile \in Dirs \cup {None} :
              LET shell == [tokenFile |-> tokenFile, data |-> proc[p].env.data] IN
              \/ Leads(shell, Data(p))
              \/ tokenFile = None /\ shell.data \notin {None, Empty}
              => ShellSource(shell) = Data(p)
        /\ bridge # NoBridge /\ bridge.dir = Data(p) => Accepts(p, bridge.token)

\* The engines and the API mean the same download root, until the setting is changed
\* under the running service; the engines take it from the copy of the settings made
\* at the start (config.rs 326-380), the API from the table (routes.rs 41-48).  A
\* stored user name or password that is no string costs the engines the root.
EngineRoot(p) == proc[p].config.root

ApiRoot(p) ==
    LET stored == GetTyped(Data(p), "root", Roots)
    IN  IF stored = None THEN proc[p].bootstrap.root ELSE stored

RootsAgree ==
    \A p \in Serving :
        proc[p].settings.root = table[Data(p)].root /\ Junk \notin {proc[p].settings.user, proc[p].settings.pass}
            => EngineRoot(p) = ApiRoot(p)

\* Starts, migrations and deaths in between leave alone what the user has decided: the
\* file as last edited, and the switch of the search as last set, which is the one the
\* service obeys.  It fails only where
\* the user decided between the look at the file or the table and the write (config.rs
\* 303-316, main.rs 279-309).
HookEnabled(p) ==
    LET stored == GetTyped(Data(p), "hook", Switch)
    IN  IF stored = None THEN proc[p].bootstrap.hook ELSE stored

UserChoicesStand ==
    /\ edited # Absent /\ <<"file", DefaultDir>> \notin crossed => file = edited
    /\ \A d \in Dirs : choice[d] # None /\ <<"hook", d>> \notin crossed =>
          /\ table[d].hook = choice[d]
          /\ choice[d] \in Switch => \A p \in Serving : Data(p) = d => HookEnabled(p) = choice[d]
=============================================================================

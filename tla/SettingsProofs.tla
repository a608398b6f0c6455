----------------------------- MODULE SettingsProofs -----------------------------
(***************************************************************************)
(* The settings, from the start to the running service.  First Startup,    *)
(* for any processes, directories, files and environments: what a process  *)
(* comes to is what it found, and what it writes is not what the user has  *)
(* decided.  Then SoulseekSupervisor, for any keys, values and clients and *)
(* any bootstrap configuration: what runs is what is stored.               *)
(***************************************************************************)
EXTENDS Startup, SoulseekSupervisor, FiniteSetTheorems, TLAPS

(* Startup.  The types of its state. *)

\* What agpeer.toml may hold.
TextFiles ==
    {Absent, Broken}
        \cup {Toml(c) : c \in [data : Dirs \cup {Empty}, user : Users \cup {None, Empty}, root : Roots, hook : Switch]}

\* A configuration somebody runs with: its directory is there.
Used == [data : Dirs \ Unusable, user : Users \cup {None, Empty}, root : Roots, hook : Switch]

Process ==
    [pc : Labels, id : Nat, command : {"serve", "migrate"}, named : BOOLEAN, env : Environments,
     first : BOOLEAN, logs : Dirs, config : Used, token : Nat, settings : Settings,
     bootstrap : Used, found : TextFiles, disturbed : BOOLEAN]

\* Past the token.
Answering == {"settings", "seed", "bind", "serving"}

\* Starts are numbered from 2, number 1 has been before; a token is the number of the
\* start that made it.
Numbered ==
    /\ starts \in Nat /\ token \in [Dirs -> 0 .. starts] /\ bridge \in [dir : Dirs, token : 0 .. starts]
    /\ \A p \in Procs : proc[p].id \in 0 .. starts /\ proc[p].token \in 0 .. starts
    /\ \A p \in Procs : proc[p].pc # "off" => proc[p].id # 0
    /\ \A p \in Procs : proc[p].pc \in Answering => proc[p].token # 0

Shape ==
    /\ file \in TextFiles /\ edited \in TextFiles /\ writable \in BOOLEAN
    /\ proc \in [Procs -> Process]
    /\ table \in [Dirs -> Settings] /\ choice \in [Dirs -> SettingValues.hook]
    /\ edits \in Nat /\ puts \in Nat

OneServes == \A p, q \in Serving : p = q

LEMMA Apart ==
    /\ DefaultDir \in Dirs \ Unusable /\ DefaultRoot \in Roots /\ Off \in Switch
    /\ None \notin Dirs \cup Roots \cup Switch /\ Empty \notin Dirs \cup Roots \cup Switch
    /\ Junk \notin Roots \cup Switch
    /\ MaxStarts \in Nat /\ MaxEdits \in Nat /\ MaxPuts \in Nat
BY StartupAssumption DEF Switch

LEMMA Constants ==
    /\ Defaults \in Used /\ NoSettings \in Settings /\ NoEnv \in Environments
    /\ Absent \in TextFiles /\ Broken \in TextFiles
    /\ \A c \in Used : Toml(c) \in TextFiles
    /\ Ended \in Process
<1>1. Defaults \in Used
  BY Apart DEF Defaults, Used
<1>2. NoSettings \in Settings
  BY DEF NoSettings, Settings, SettingValues
<1>3. NoEnv \in Environments
  BY DEF NoEnv, Environments
<1>4. Absent \in TextFiles /\ Broken \in TextFiles
  BY DEF TextFiles
<1>5. \A c \in Used : Toml(c) \in TextFiles
  BY DEF TextFiles, Used
<1>6. Ended \in Process
  BY <1>1, <1>2, <1>3, <1>4, Apart DEF Ended, Process, Labels
<1> QED BY <1>1, <1>2, <1>3, <1>4, <1>5, <1>6

LEMMA FilesAreText == Files \subseteq TextFiles
<1> SUFFICES ASSUME NEW f \in Files, f \notin {Absent, Broken} PROVE f \in TextFiles
  BY DEF TextFiles
<1>1. PICK c \in Configurations, d \in Dirs \cup {Empty} : f = Toml([c EXCEPT !.data = d])
  BY StartupAssumption
<1>2. [c EXCEPT !.data = d] \in [data : Dirs \cup {Empty}, user : Users \cup {None, Empty}, root : Roots, hook : Switch]
  BY DEF Configurations
<1> QED BY <1>1, <1>2 DEF TextFiles

\* Laying an environment over a configuration once more changes nothing.
LEMMA Overlay ==
    ASSUME NEW c \in [data : Dirs, user : Users \cup {None, Empty}, root : Roots, hook : Switch],
           NEW env \in Environments
    PROVE  /\ EnvOverlay(c, env) \in [data : Dirs, user : Users \cup {None, Empty}, root : Roots, hook : Switch]
           /\ env.data \notin {None, Empty} => EnvOverlay(c, env).data = env.data
           /\ EnvOverlay(EnvOverlay(c, env), env) = EnvOverlay(c, env)
BY DEF EnvOverlay, Environments

\* A file that is written as it was read reads the same.
LEMMA FromText ==
    ASSUME NEW f \in TextFiles, NEW env \in Environments
    PROVE  /\ Usable(FromFile(f, env)) => FromFile(f, env) \in Used
           /\ env.data \notin {None, Empty} => FromFile(f, env).data = env.data
           /\ FromFile(Toml(FromFile(f, env)), env) = FromFile(f, env)
<1> DEFINE c == IF f.conf.data = Empty THEN [f.conf EXCEPT !.data = DefaultDir] ELSE f.conf
<1>1. f.conf \in [data : Dirs \cup {Empty}, user : Users \cup {None, Empty}, root : Roots, hook : Switch]
  <2>1. Defaults \in Used /\ Absent.conf = Defaults /\ Broken.conf = Defaults
    BY Constants DEF Absent, Broken
  <2>2. CASE f \in {Absent, Broken}
    BY <2>1, <2>2 DEF Used
  <2>3. CASE f \notin {Absent, Broken}
    BY <2>3 DEF TextFiles, Toml
  <2> QED BY <2>2, <2>3
<1>2. c \in [data : Dirs, user : Users \cup {None, Empty}, root : Roots, hook : Switch]
  BY <1>1, Apart
<1>3. FromFile(f, env) = EnvOverlay(c, env)
  BY DEF FromFile
<1> HIDE DEF c
<1>4. EnvOverlay(c, env) \in [data : Dirs, user : Users \cup {None, Empty}, root : Roots, hook : Switch]
  BY <1>2, Overlay
<1>5. FromFile(Toml(EnvOverlay(c, env)), env) = EnvOverlay(EnvOverlay(c, env), env)
  BY <1>4, Apart DEF FromFile, Toml
<1>6. EnvOverlay(EnvOverlay(c, env), env) = EnvOverlay(c, env)
  BY <1>2, Overlay
<1>7. env.data \notin {None, Empty} => EnvOverlay(c, env).data = env.data
  BY <1>2, Overlay
<1> QED BY <1>3, <1>4, <1>5, <1>6, <1>7 DEF Usable, Used


-----------------------------------------------------------------------------
(* Updates of the processes. *)

LEMMA Disturbing ==
    ASSUME NEW S, proc \in [Procs -> Process]
    PROVE  /\ Disturbed(S) \in [Procs -> Process]
           /\ \A p \in Procs : p \notin S => Disturbed(S)[p] = proc[p]
           /\ \A p \in Procs : p \in S => Disturbed(S)[p] = [proc[p] EXCEPT !.disturbed = TRUE]
BY DEF Disturbed, Process

-----------------------------------------------------------------------------
(* Type correctness. *)

LEMMA ShapeInit == BootInit => Shape /\ Numbered /\ OneServes
<1> SUFFICES ASSUME BootInit PROVE Shape /\ Numbered /\ OneServes
  OBVIOUS
<1>1. PICK s \in Stored : table = [d \in Dirs |-> s] /\ token = [d \in Dirs |-> IF s = NoSettings THEN 0 ELSE 1]
  BY DEF BootInit
<1>2. s \in Settings
  BY StoredAssumption
<1>3. table \in [Dirs -> Settings] /\ choice \in [Dirs -> SettingValues.hook]
  BY <1>1, <1>2 DEF BootInit, Settings
<1>4. proc \in [Procs -> Process] /\ \A p \in Procs : proc[p] = Ended
  BY Constants DEF BootInit
<1>5. file \in TextFiles
  BY FilesAreText DEF BootInit
<1>6. Shape /\ OneServes
  BY <1>3, <1>4, <1>5 DEF BootInit, Shape, OneServes, Serving, Ended
<1>7. starts = 1 /\ token \in [Dirs -> 0 .. starts] /\ bridge \in [dir : Dirs, token : 0 .. starts]
  BY <1>1, Apart DEF BootInit, NoBridge
<1>8. \A p \in Procs : proc[p].id = 0 /\ proc[p].token = 0 /\ proc[p].pc = "off"
  BY <1>4 DEF Ended
<1> QED BY <1>6, <1>7, <1>8 DEF Numbered, Answering

\* What a process is after it has been started.
LEMMA StartMoves ==
    ASSUME Shape, starts \in Nat, NEW p \in Procs, NEW call \in Calls, Start(p, call)
    PROVE  \E r \in Process :
              /\ proc' = [proc EXCEPT ![p] = r]
              /\ r.pc = "load" /\ r.first /\ r.found = file /\ ~r.disturbed /\ r.id = starts + 1 /\ r.token = 0
<1> DEFINE r == [Ended EXCEPT !.pc = "load", !.id = starts + 1, !.command = call.command,
                              !.named = call.named, !.env = call.env, !.found = file]
<1>1. call.command \in {"serve", "migrate"} /\ call.named \in BOOLEAN /\ call.env \in Environments
  BY CallsAssumption
<1>2. r \in Process
  <2>1. Ended \in Process /\ file \in TextFiles /\ "load" \in Labels /\ starts + 1 \in Nat
    BY Constants DEF Shape, Labels
  <2>2. [Ended EXCEPT !.pc = "load", !.id = starts + 1] \in Process
    BY <2>1 DEF Process
  <2>3. \A e \in Process :
          [e EXCEPT !.command = call.command, !.named = call.named, !.env = call.env] \in Process
    BY <1>1 DEF Process
  <2>4. \A e \in Process : [e EXCEPT !.found = file] \in Process
    BY <2>1 DEF Process
  <2> QED BY <2>2, <2>3, <2>4
<1>3. r.pc = "load" /\ r.found = file /\ r.id = starts + 1 /\ r.token = 0
  BY DEF Ended
<1>5. r.first = TRUE /\ r.disturbed = FALSE
  BY DEF Ended
<1>4. proc' = [proc EXCEPT ![p] = r]
  BY DEF Start
<1> QED BY <1>2, <1>3, <1>4, <1>5

LEMMA AfterLoad ==
    ASSUME NEW r \in Process, NEW c \in Used
    PROVE  /\ After(r, c) \in Process
           /\ r.first => /\ After(r, c).pc = "load" /\ ~After(r, c).first /\ After(r, c).logs = c.data
           /\ ~r.first => /\ After(r, c).pc \in {"migrate", "token"} /\ ~After(r, c).first /\ After(r, c).logs = r.logs
           /\ After(r, c).config = c
           /\ \A f \in {"id", "named", "env", "token", "found", "disturbed"} : After(r, c)[f] = r[f]
BY DEF After, Process, Labels, Used

LEMMA NoFile ==
    ASSUME NEW f \in TextFiles, NEW env \in Environments
    PROVE  /\ f.kind = "absent" <=> f = Absent
           /\ f.kind = "broken" <=> f = Broken
           /\ FromFile(Absent, env) = EnvOverlay(Defaults, env)
<1>1. Absent.conf = Defaults /\ Defaults.data # Empty
  BY Apart DEF Absent, Defaults
<1>2. FromFile(Absent, env) = EnvOverlay(Defaults, env)
  BY <1>1 DEF FromFile
<1>3. (f.kind = "absent" <=> f = Absent) /\ (f.kind = "broken" <=> f = Broken)
  BY DEF TextFiles, Absent, Broken, Toml
<1> QED BY <1>2, <1>3

\* A load ends the process, fails for the logs, finds no file and makes one, or
\* succeeds, with what the file and the environment say.
LEMMA LoadMoves ==
    ASSUME Shape, NEW p \in Procs, LoadFile(p) \/ LoadAbsent(p)
    PROVE  LET c == FromFile(file, proc[p].env) IN
           \/ proc' = [proc EXCEPT ![p] = Ended] /\ ~proc[p].first
           \/ /\ proc' = [proc EXCEPT ![p].logs = DefaultDir, ![p].first = FALSE] /\ proc[p].first
              /\ file.kind = "broken" \/ ~Usable(c) \/ (file = Absent /\ proc[p].named)
           \/ /\ proc' = [proc EXCEPT ![p].config = c, ![p].pc = "create"]
              /\ file = Absent /\ writable /\ ~proc[p].named /\ Usable(c) /\ c \in Used
           \/ /\ proc' = [proc EXCEPT ![p] = After(proc[p], c)]
              /\ Usable(c) /\ c \in Used
              /\ file.kind = "toml" \/ (file = Absent /\ ~writable /\ ~proc[p].named)
<1> DEFINE c == FromFile(file, proc[p].env)
<1>1. proc[p] \in Process /\ proc[p].env \in Environments /\ file \in TextFiles
  BY DEF Shape, Process
<1>2. Usable(c) => c \in Used
  BY <1>1, FromText
<1>3. /\ file.kind = "absent" <=> file = Absent
      /\ FromFile(Absent, proc[p].env) = EnvOverlay(Defaults, proc[p].env)
  BY <1>1, NoFile
<1>4. file.kind \in {"absent", "broken", "toml"}
  BY <1>1 DEF TextFiles, Absent, Broken, Toml
<1> HIDE DEF c
<1>5. CASE LoadFile(p)
  <2>1. file.kind # "absent"
    BY <1>5 DEF LoadFile
  <2>2. CASE file.kind = "toml" /\ Usable(c)
    <3>1. proc' = [proc EXCEPT ![p] = After(proc[p], c)]
      BY <1>5, <2>2 DEF LoadFile, c
    <3> QED BY <3>1, <2>2, <1>2 DEF c
  <2>3. CASE ~(file.kind = "toml" /\ Usable(c))
    <3>1. Failed(p)
      BY <1>5, <2>3 DEF LoadFile, c
    <3> QED BY <3>1, <2>1, <2>3, <1>4 DEF Failed, End, c
  <2> QED BY <2>2, <2>3
<1>6. CASE LoadAbsent(p)
  <2>1. file = Absent /\ c = EnvOverlay(Defaults, proc[p].env)
    BY <1>6, <1>3 DEF LoadAbsent, c
  <2>2. IF proc[p].named \/ ~Usable(c) THEN Failed(p)
        ELSE IF writable THEN proc' = [proc EXCEPT ![p].config = c, ![p].pc = "create"]
        ELSE proc' = [proc EXCEPT ![p] = After(proc[p], c)]
    BY <1>6, <2>1 DEF LoadAbsent
  <2>3. CASE proc[p].named \/ ~Usable(c)
    <3>1. Failed(p)
      BY <2>2, <2>3
    <3> QED BY <3>1, <2>1, <2>3 DEF Failed, End, c
  <2>4. CASE ~proc[p].named /\ Usable(c) /\ writable
    BY <2>1, <2>2, <2>4, <1>2 DEF c
  <2>5. CASE ~proc[p].named /\ Usable(c) /\ ~writable
    BY <2>1, <2>2, <2>5, <1>2 DEF c
  <2> QED BY <2>3, <2>4, <2>5
<1> QED BY <1>5, <1>6

LEMMA LoadShape ==
    ASSUME Shape, NEW p \in Procs, LoadFile(p) \/ LoadAbsent(p)
    PROVE  proc' \in [Procs -> Process]
<1> DEFINE c == FromFile(file, proc[p].env)
<1>1. proc \in [Procs -> Process] /\ proc[p] \in Process
  BY DEF Shape
<1>2. CASE proc' = [proc EXCEPT ![p] = Ended]
  BY <1>1, <1>2, Constants
<1>3. CASE proc' = [proc EXCEPT ![p].logs = DefaultDir, ![p].first = FALSE]
  <2>1. [proc[p] EXCEPT !.logs = DefaultDir, !.first = FALSE] \in Process
    BY <1>1, Apart DEF Process
  <2> QED BY <1>1, <1>3, <2>1
<1>4. CASE proc' = [proc EXCEPT ![p].config = c, ![p].pc = "create"] /\ c \in Used
  <2>1. [proc[p] EXCEPT !.config = c, !.pc = "create"] \in Process
    BY <1>1, <1>4 DEF Process, Labels
  <2> QED BY <1>1, <1>4, <2>1
<1>5. CASE proc' = [proc EXCEPT ![p] = After(proc[p], c)] /\ c \in Used
  <2>1. After(proc[p], c) \in Process
    BY <1>1, <1>5, AfterLoad
  <2> QED BY <1>1, <1>5, <2>1
<1> QED BY <1>2, <1>3, <1>4, <1>5, LoadMoves

\* A write of the file: the writer goes on, the others that are loading are disturbed.
LEMMA WriteMoves ==
    ASSUME proc \in [Procs -> Process], NEW p \in Procs, NEW r \in Process,
           proc' = [Disturbed(Loading \ {p}) EXCEPT ![p] = r]
    PROVE  /\ proc' \in [Procs -> Process] /\ proc'[p] = r
           /\ \A q \in Procs : q # p => proc'[q] = IF q \in Loading THEN [proc[q] EXCEPT !.disturbed = TRUE] ELSE proc[q]
<1>1. /\ Disturbed(Loading \ {p}) \in [Procs -> Process]
      /\ \A q \in Procs : q \notin Loading \ {p} => Disturbed(Loading \ {p})[q] = proc[q]
      /\ \A q \in Procs : q \in Loading \ {p} => Disturbed(Loading \ {p})[q] = [proc[q] EXCEPT !.disturbed = TRUE]
  BY Disturbing
<1> QED BY <1>1

LEMMA CreateMoves ==
    ASSUME Shape, NEW p \in Procs, Create(p)
    PROVE  /\ [proc[p] EXCEPT !.pc = "fill"] \in Process
           /\ proc' = [Disturbed(Loading \ {p}) EXCEPT ![p] = [proc[p] EXCEPT !.pc = "fill"]]
<1>1. /\ Disturbed(Loading \ {p}) \in [Procs -> Process] /\ Disturbed(Loading \ {p})[p] = proc[p]
  BY Disturbing DEF Shape
<1>2. [proc[p] EXCEPT !.pc = "fill"] \in Process
  BY DEF Shape, Process, Labels
<1> QED BY <1>1, <1>2 DEF Create

LEMMA FillMoves ==
    ASSUME Shape, NEW p \in Procs, Fill(p)
    PROVE  /\ After(proc[p], proc[p].config) \in Process
           /\ proc' = [Disturbed(Loading \ {p}) EXCEPT ![p] = After(proc[p], proc[p].config)]
<1>1. proc[p] \in Process /\ proc[p].config \in Used
  BY DEF Shape, Process
<1>2. After(proc[p], proc[p].config) \in Process
  BY <1>1, AfterLoad
<1> QED BY <1>2 DEF Fill

\* The engines' configuration differs from the configuration in the user and the root.
LEMMA Overriding ==
    ASSUME NEW c \in Used, NEW s \in Settings
    PROVE  /\ SettingsOverrides(c, s).data = c.data
           /\ Junk \notin {s.user, s.pass} =>
                 SettingsOverrides(c, s).root = IF s.root = None THEN c.root ELSE s.root
           /\ SettingsOverrides(c, s) \in Used
<1>1. s.user \in Users \cup {None, Empty, Junk} /\ s.root \in Roots \cup {None}
  BY DEF Settings, SettingValues
<1> QED BY <1>1 DEF SettingsOverrides, Used

LEMMA EnginesMove ==
    ASSUME NEW r \in Process
    PROVE  /\ WithEngines(r) \in Process
           /\ WithEngines(r).bootstrap = r.config /\ WithEngines(r).pc = "bind"
           /\ WithEngines(r).config = SettingsOverrides(r.config, r.settings)
           /\ WithEngines(r).config.data = r.config.data
           /\ \A f \in {"id", "env", "logs", "token", "settings", "found", "disturbed"} : WithEngines(r)[f] = r[f]
<1>1. r.config \in Used /\ r.settings \in Settings
  BY DEF Process
<1>2. SettingsOverrides(r.config, r.settings) \in Used /\ SettingsOverrides(r.config, r.settings).data = r.config.data
  BY <1>1, Overriding
<1> QED BY <1>2 DEF WithEngines, Process, Labels

LEMMA Retyped ==
    ASSUME Shape, Numbered, NEW p \in Procs, NEW l \in Labels, NEW n \in Nat, NEW s \in Settings
    PROVE  /\ [proc[p] EXCEPT !.pc = l] \in Process
           /\ [proc[p] EXCEPT !.token = n, !.pc = l] \in Process
           /\ [proc[p] EXCEPT !.settings = s, !.pc = l] \in Process
BY DEF Shape, Process

LEMMA ShapeStep == Shape /\ Numbered /\ [BootNext]_bootVars => Shape'
<1> SUFFICES ASSUME Shape, Numbered, [BootNext]_bootVars PROVE Shape'
  OBVIOUS
<1> USE DEF Others
<1>1. ASSUME NEW p \in Procs, NEW c \in Calls, Start(p, c) PROVE Shape'
  <2>1. \E r \in Process : proc' = [proc EXCEPT ![p] = r]
    BY <1>1, StartMoves DEF Numbered
  <2> QED BY <1>1, <2>1 DEF Start, Shape
<1>2. ASSUME NEW p \in Procs, LoadFile(p) \/ LoadAbsent(p) PROVE Shape'
  <2>1. proc' \in [Procs -> Process]
    BY <1>2, LoadShape
  <2> QED BY <1>2, <2>1 DEF LoadFile, LoadAbsent, Shape
<1>3. ASSUME NEW p \in Procs, Create(p) PROVE Shape'
  <2>1. proc' \in [Procs -> Process]
    BY <1>3, CreateMoves, WriteMoves DEF Shape
  <2>2. file' \in TextFiles
    BY <1>3, Constants DEF Create
  <2> QED BY <1>3, <2>1, <2>2 DEF Create, Shape
<1>4. ASSUME NEW p \in Procs, Fill(p) PROVE Shape'
  <2>1. proc' \in [Procs -> Process]
    BY <1>4, FillMoves, WriteMoves DEF Shape
  <2>2. proc[p].config \in Used
    BY DEF Shape, Process
  <2>3. file' \in TextFiles
    BY <1>4, <2>2, Constants DEF Fill
  <2> QED BY <1>4, <2>1, <2>3 DEF Fill, Shape
<1>5. ASSUME NEW p \in Procs, Exit(p) PROVE Shape'
  BY <1>5, Constants DEF Exit, End, Shape
<1>6. ASSUME NEW p \in Procs, ReadToken(p) \/ TruncateToken(p) \/ FillToken(p) PROVE Shape'
  <2>1. token[Data(p)] \in Nat /\ proc[p].id \in Nat
    BY DEF Shape, Numbered, Process, Used, Data
  <2>2. /\ [proc[p] EXCEPT !.pc = "newToken"] \in Process
        /\ [proc[p] EXCEPT !.pc = "fillToken"] \in Process
        /\ [proc[p] EXCEPT !.token = token[Data(p)], !.pc = "settings"] \in Process
        /\ [proc[p] EXCEPT !.token = proc[p].id, !.pc = "settings"] \in Process
    BY <2>1, Retyped, Constants DEF Labels
  <2>3. \/ proc' = [proc EXCEPT ![p] = [proc[p] EXCEPT !.pc = "newToken"]]
        \/ proc' = [proc EXCEPT ![p] = [proc[p] EXCEPT !.pc = "fillToken"]]
        \/ proc' = [proc EXCEPT ![p] = [proc[p] EXCEPT !.token = token[Data(p)], !.pc = "settings"]]
        \/ proc' = [proc EXCEPT ![p] = [proc[p] EXCEPT !.token = proc[p].id, !.pc = "settings"]]
    BY <1>6 DEF ReadToken, TruncateToken, FillToken, Goto, Shape
  <2>4. proc' \in [Procs -> Process]
    BY <2>2, <2>3 DEF Shape
  <2> QED BY <1>6, <2>4 DEF ReadToken, TruncateToken, FillToken, Shape
<1>7. ASSUME NEW p \in Procs, ReadSettings(p) PROVE Shape'
  <2>1. All(Data(p)) \in Settings
    BY DEF All, Data, Shape, Process, Used
  <2>2. [proc[p] EXCEPT !.settings = All(Data(p)), !.pc = "seed"] \in Process
    BY <2>1, Retyped DEF Labels
  <2>3. proc' = [proc EXCEPT ![p] = [proc[p] EXCEPT !.settings = All(Data(p)), !.pc = "seed"]]
    BY <1>7 DEF ReadSettings, Shape
  <2> QED BY <1>7, <2>2, <2>3 DEF ReadSettings, Shape
<1>8. ASSUME NEW p \in Procs, Seed(p) PROVE Shape'
  <2>1. proc' = [proc EXCEPT ![p] = WithEngines(proc[p])] /\ WithEngines(proc[p]) \in Process
    BY <1>8, EnginesMove DEF Seed, Shape
  <2>2. table' \in [Dirs -> Settings]
    <3>1. Data(p) \in Dirs /\ proc[p].config.hook \in Switch
      BY DEF Data, Shape, Process, Used
    <3>2. [table[Data(p)] EXCEPT !["hook"] = proc[p].config.hook] \in Settings
      BY <3>1 DEF Shape, Settings, SettingValues
    <3> QED BY <1>8, <3>1, <3>2 DEF Seed, Set, Shape
  <2> QED BY <1>8, <2>1, <2>2 DEF Seed, Shape
<1>9. ASSUME NEW p \in Procs, Bind(p) PROVE Shape'
  <2>1. [proc[p] EXCEPT !.pc = "serving"] \in Process
    BY Retyped, Constants DEF Labels
  <2>2. proc' = [proc EXCEPT ![p] = [proc[p] EXCEPT !.pc = "serving"]] \/ proc' = [proc EXCEPT ![p] = Ended]
    BY <1>9 DEF Bind, Goto, End, Shape
  <2> QED BY <1>9, <2>1, <2>2, Constants DEF Bind, Shape
<1>10. ASSUME NEW f \in Edits, Edit(f) PROVE Shape'
  <2>1. proc' \in [Procs -> Process]
    BY <1>10, Disturbing DEF Edit, Shape
  <2>2. f \in TextFiles
    BY FilesAreText, StartupAssumption
  <2> QED BY <1>10, <2>1, <2>2 DEF Edit, Shape
<1>11. ASSUME NEW p \in Procs, NEW change \in Puts, PutSetting(p, change[1], change[2]) PROVE Shape'
  <2>1. Data(p) \in Dirs
    BY DEF Data, Shape, Process, Used
  <2>2. table' = Set(Data(p), change[1], change[2])
    BY <1>11 DEF PutSetting
  <2>3. change[1] \in {"user", "pass", "root", "hook"} /\ change[2] \in SettingValues[change[1]]
    BY PutsAssumption DEF SettingValues
  <2>4. [table[Data(p)] EXCEPT ![change[1]] = change[2]] \in Settings
    BY <2>1, <2>3 DEF Shape, Settings, SettingValues
  <2>5. table' \in [Dirs -> Settings]
    BY <2>1, <2>2, <2>4 DEF Set, Shape
  <2>6. choice' \in [Dirs -> SettingValues.hook]
    <3>1. choice' = choice \/ (change[1] = "hook" /\ choice' = [choice EXCEPT ![Data(p)] = change[2]])
      BY <1>11 DEF PutSetting
    <3>2. change[1] = "hook" => change[2] \in SettingValues.hook
      BY <2>3
    <3> QED BY <3>1, <3>2, <2>1 DEF Shape
  <2> QED BY <1>11, <2>5, <2>6 DEF PutSetting, Shape
<1>12. ASSUME NEW p \in Procs, NEW d \in Dirs, Attach(p, d) PROVE Shape'
  BY <1>12 DEF Attach, Shape
<1>13. CASE UNCHANGED bootVars
  BY <1>13 DEF bootVars, Shape
<1> QED
  BY <1>1, <1>2, <1>3, <1>4, <1>5, <1>6, <1>7, <1>8, <1>9, <1>10, <1>11, <1>12, <1>13 DEF BootNext

-----------------------------------------------------------------------------

\* What a disturbance leaves as it is.
Alike(q) == \A f \in {"pc", "id", "env", "config", "token", "settings", "bootstrap"} : proc'[q][f] = proc[q][f]

ProcessStep(p) ==
    \/ \E c \in Calls : Start(p, c)
    \/ LoadFile(p) \/ LoadAbsent(p) \/ Create(p) \/ Fill(p) \/ Exit(p)
    \/ ReadToken(p) \/ TruncateToken(p) \/ FillToken(p)
    \/ ReadSettings(p) \/ Seed(p) \/ Bind(p)

LEMMA OthersAlike ==
    ASSUME Shape, Numbered, NEW p \in Procs, ProcessStep(p), NEW q \in Procs, q # p
    PROVE  Alike(q)
<1>1. CASE Create(p) \/ Fill(p)
  <2>1. proc'[q] = IF q \in Loading THEN [proc[q] EXCEPT !.disturbed = TRUE] ELSE proc[q]
    BY <1>1, CreateMoves, FillMoves, WriteMoves DEF Shape
  <2> QED BY <2>1 DEF Shape, Process, Alike
<1>2. CASE ~(Create(p) \/ Fill(p))
  <2>1. proc'[q] = proc[q]
    <3>1. CASE LoadFile(p) \/ LoadAbsent(p)
      BY <3>1, LoadMoves DEF Shape
    <3>2. CASE ~(LoadFile(p) \/ LoadAbsent(p))
      BY <1>2, <3>2 DEF ProcessStep, Start, Exit, End, ReadToken, TruncateToken, FillToken, ReadSettings, Seed, Bind, Goto, Shape
    <3> QED BY <3>1, <3>2
  <2> QED BY <2>1 DEF Alike
<1> QED BY <1>1, <1>2

LEMMA EditAlike ==
    ASSUME Shape, NEW f \in Edits, Edit(f), NEW q \in Procs
    PROVE  Alike(q)
<1>1. proc'[q] = proc[q] \/ proc'[q] = [proc[q] EXCEPT !.disturbed = TRUE]
  BY Disturbing DEF Edit, Shape
<1> QED BY <1>1 DEF Shape, Process, Alike

\* What the actions make of the process that takes them.
LEMMA OwnStep ==
    ASSUME Shape, Numbered, NEW p \in Procs, ProcessStep(p)
    PROVE  \/ proc'[p].pc = "off" /\ proc'[p].id = 0 /\ proc'[p].token = 0 /\ UNCHANGED <<starts, token, table, crossed>>
           \/ /\ proc[p].pc = "off" /\ proc'[p].pc = "load" /\ proc'[p].id = starts + 1 /\ proc'[p].token = 0
              /\ starts' = starts + 1 /\ UNCHANGED <<token, table, crossed>>
           \/ /\ proc[p].pc \in {"load", "create", "fill"}
              /\ proc'[p].pc \in {"load", "create", "fill", "migrate", "token"}
              /\ proc'[p].id = proc[p].id /\ proc'[p].token = proc[p].token
              /\ UNCHANGED <<starts, token, table, crossed>>
           \/ /\ proc'[p].id = proc[p].id /\ proc'[p].env = proc[p].env
              /\ Data(p)' = Data(p) /\ UNCHANGED starts
              /\ \/ /\ proc[p].pc = "token" /\ token[Data(p)] # 0 /\ proc'[p].pc = "settings"
                    /\ proc'[p].token = token[Data(p)] /\ UNCHANGED <<token, table, crossed>>
                 \/ /\ proc[p].pc = "token" /\ token[Data(p)] = 0 /\ proc'[p].pc = "newToken"
                    /\ proc'[p].token = proc[p].token /\ UNCHANGED <<token, table, crossed>>
                 \/ /\ proc[p].pc = "newToken" /\ proc'[p].pc = "fillToken"
                    /\ proc'[p].token = proc[p].token /\ token' = [token EXCEPT ![Data(p)] = 0] /\ UNCHANGED table
                 \/ /\ proc[p].pc = "fillToken" /\ proc'[p].pc = "settings"
                    /\ proc'[p].token = proc[p].id /\ token' = [token EXCEPT ![Data(p)] = proc[p].id] /\ UNCHANGED table
                 \/ /\ proc[p].pc = "settings" /\ proc'[p].pc = "seed"
                    /\ proc'[p].settings = table[Data(p)]
                    /\ proc'[p].token = proc[p].token /\ UNCHANGED <<token, table, crossed>>
                 \/ /\ proc[p].pc = "seed" /\ proc'[p].pc = "bind"
                    /\ proc'[p].settings = proc[p].settings /\ proc'[p].bootstrap = proc[p].config
                    /\ proc'[p].config = SettingsOverrides(proc[p].config, proc[p].settings)
                    /\ proc'[p].token = proc[p].token /\ UNCHANGED <<token, crossed>>
                    /\ \/ UNCHANGED table
                       \/ proc[p].settings.hook = None /\ table' = Set(Data(p), "hook", proc[p].config.hook)
                 \/ /\ proc[p].pc = "bind" /\ proc'[p].pc = "serving" /\ Serving = {}
                    /\ proc'[p].settings = proc[p].settings /\ proc'[p].bootstrap = proc[p].bootstrap
                    /\ proc'[p].config = proc[p].config
                    /\ proc'[p].token = proc[p].token /\ UNCHANGED <<token, table, crossed>>
<1> USE DEF Others
<1>1. proc[p] \in Process /\ proc \in [Procs -> Process]
  BY DEF Shape
<1>2. ASSUME NEW c \in Calls, Start(p, c)
      PROVE  /\ proc[p].pc = "off" /\ proc'[p].pc = "load" /\ proc'[p].id = starts + 1 /\ proc'[p].token = 0
             /\ starts' = starts + 1 /\ UNCHANGED <<token, table, crossed>>
  <2>1. \E r \in Process : proc' = [proc EXCEPT ![p] = r] /\ r.pc = "load" /\ r.id = starts + 1 /\ r.token = 0
    BY <1>2, StartMoves DEF Numbered
  <2> QED BY <1>1, <1>2, <2>1 DEF Start
<1>3. CASE LoadFile(p) \/ LoadAbsent(p)
  <2>1. proc[p].pc = "load" /\ UNCHANGED <<starts, token, table, crossed>>
    BY <1>3 DEF LoadFile, LoadAbsent
  <2>2. CASE proc' = [proc EXCEPT ![p] = Ended]
    BY <1>1, <2>1, <2>2 DEF Ended
  <2>3. ASSUME proc' # [proc EXCEPT ![p] = Ended]
        PROVE  /\ proc'[p].pc \in {"load", "create", "fill", "migrate", "token"}
               /\ proc'[p].id = proc[p].id /\ proc'[p].token = proc[p].token
    <3> DEFINE c == FromFile(file, proc[p].env)
    <3>1. CASE proc' = [proc EXCEPT ![p].logs = DefaultDir, ![p].first = FALSE]
      BY <1>1, <2>1, <3>1 DEF Process
    <3>2. CASE proc' = [proc EXCEPT ![p].config = c, ![p].pc = "create"]
      BY <1>1, <3>2 DEF Process
    <3>3. CASE proc' = [proc EXCEPT ![p] = After(proc[p], c)] /\ c \in Used
      <4>1. /\ After(proc[p], c).pc \in {"load", "migrate", "token"}
            /\ After(proc[p], c).id = proc[p].id /\ After(proc[p], c).token = proc[p].token
        BY <1>1, <3>3, AfterLoad
      <4> QED BY <1>1, <3>3, <4>1
    <3> QED BY <1>3, <2>3, <3>1, <3>2, <3>3, LoadMoves
  <2> QED BY <2>1, <2>2, <2>3
<1>4. CASE Create(p)
  <2>1. proc'[p] = [proc[p] EXCEPT !.pc = "fill"]
    BY <1>4, CreateMoves, WriteMoves DEF Shape
  <2>2. proc'[p].pc = "fill" /\ proc'[p].id = proc[p].id /\ proc'[p].token = proc[p].token
    BY <1>1, <2>1 DEF Process
  <2>3. proc[p].pc = "create" /\ UNCHANGED <<starts, token, table, crossed>>
    BY <1>4 DEF Create
  <2> QED BY <2>2, <2>3
<1>5. CASE Fill(p)
  <2>1. proc'[p] = After(proc[p], proc[p].config)
    BY <1>5, FillMoves, WriteMoves DEF Shape
  <2>2. proc[p].config \in Used
    BY <1>1 DEF Process
  <2>3. /\ After(proc[p], proc[p].config).pc \in {"load", "migrate", "token"}
        /\ After(proc[p], proc[p].config).id = proc[p].id /\ After(proc[p], proc[p].config).token = proc[p].token
    BY <1>1, <2>2, AfterLoad
  <2> QED BY <1>5, <2>1, <2>3 DEF Fill
<1>6. CASE Exit(p)
  BY <1>1, <1>6 DEF Exit, End, Ended
<1>7. CASE ReadToken(p)
  BY <1>1, <1>7 DEF ReadToken, Goto, Data, Process
<1>8. CASE TruncateToken(p)
  BY <1>1, <1>8 DEF TruncateToken, Goto, Data, Process
<1>9. CASE FillToken(p)
  BY <1>1, <1>9 DEF FillToken, Data, Process
<1>10. CASE ReadSettings(p)
  BY <1>1, <1>10 DEF ReadSettings, Data, Process, All
<1>11. CASE Seed(p)
  <2>1. proc'[p] = WithEngines(proc[p])
    BY <1>1, <1>11 DEF Seed
  <2>2. proc'[p].config.data = proc[p].config.data
    BY <1>1, <2>1, EnginesMove
  <2>3. /\ proc'[p].pc = "bind" /\ proc'[p].bootstrap = proc[p].config
        /\ proc'[p].config = SettingsOverrides(proc[p].config, proc[p].settings)
    BY <1>1, <2>1, EnginesMove
  <2>4. \A f \in {"id", "env", "token", "settings"} : proc'[p][f] = proc[p][f]
    BY <1>1, <2>1, EnginesMove
  <2> QED BY <1>11, <2>2, <2>3, <2>4 DEF Seed, Data
<1>12. CASE Bind(p)
  <2>1. CASE Serving = {}
    BY <1>1, <1>12, <2>1 DEF Bind, Goto, Data, Process
  <2>2. CASE Serving # {}
    BY <1>1, <1>12, <2>2 DEF Bind, End, Ended
  <2> QED BY <2>1, <2>2
<1> QED BY <1>2, <1>3, <1>4, <1>5, <1>6, <1>7, <1>8, <1>9, <1>10, <1>11, <1>12 DEF ProcessStep

-----------------------------------------------------------------------------

LEMMA NumberedStep == Shape /\ Numbered /\ [BootNext]_bootVars => Numbered'
<1> SUFFICES ASSUME Shape, Numbered, [BootNext]_bootVars PROVE Numbered'
  OBVIOUS
<1>1. ASSUME NEW p \in Procs, ProcessStep(p) PROVE Numbered'
  <2>1. Data(p) \in Dirs
    BY DEF Shape, Process, Used, Data
  <2>2. UNCHANGED bridge
    BY <1>1 DEF ProcessStep, Start, LoadFile, LoadAbsent, Create, Fill, Exit, ReadToken, TruncateToken, FillToken,
                ReadSettings, Seed, Bind, Others
  <2>3. starts' \in Nat /\ starts' >= starts
    BY <1>1, OwnStep DEF Numbered
  <2>4. token' \in [Dirs -> 0 .. starts']
    <3>1. token \in [Dirs -> 0 .. starts] /\ proc[p].id \in 0 .. starts /\ starts \in Nat
      BY DEF Numbered
    <3>2. token' = token \/ token' = [token EXCEPT ![Data(p)] = 0] \/ token' = [token EXCEPT ![Data(p)] = proc[p].id]
      BY <1>1, OwnStep    <3> QED BY <2>1, <2>3, <3>1, <3>2
  <2>5. /\ proc'[p].id \in 0 .. starts' /\ proc'[p].token \in 0 .. starts'
        /\ proc'[p].pc # "off" => proc'[p].id # 0
        /\ proc'[p].pc \in Answering => proc'[p].token # 0
    BY <1>1, <2>1, <2>3, OwnStep DEF Numbered, Answering
  <2>6. ASSUME NEW q \in Procs, q # p
        PROVE  /\ proc'[q].id \in 0 .. starts' /\ proc'[q].token \in 0 .. starts'
               /\ proc'[q].pc # "off" => proc'[q].id # 0
               /\ proc'[q].pc \in Answering => proc'[q].token # 0
    <3>1. proc'[q].id = proc[q].id /\ proc'[q].token = proc[q].token /\ proc'[q].pc = proc[q].pc
      BY <1>1, <2>6, OthersAlike DEF Alike
    <3> QED BY <2>3, <3>1 DEF Numbered
  <2>7. bridge \in [dir : Dirs, token : 0 .. starts']
    BY <2>3 DEF Numbered
  <2> QED BY <2>2, <2>3, <2>4, <2>5, <2>6, <2>7 DEF Numbered
<1>2. ASSUME NEW f \in Edits, Edit(f) PROVE Numbered'
  <2>1. ASSUME NEW q \in Procs
        PROVE  proc'[q].id = proc[q].id /\ proc'[q].token = proc[q].token /\ proc'[q].pc = proc[q].pc
    BY <1>2, EditAlike DEF Alike
  <2> QED BY <1>2, <2>1 DEF Edit, Numbered
<1>3. ASSUME NEW p \in Procs, NEW change \in Puts, PutSetting(p, change[1], change[2]) PROVE Numbered'
  BY <1>3 DEF PutSetting, Numbered
<1>4. ASSUME NEW p \in Procs, NEW d \in Dirs, Attach(p, d) PROVE Numbered'
  BY <1>4 DEF Attach, Numbered
<1>5. CASE UNCHANGED bootVars
  BY <1>5 DEF bootVars, Numbered
<1> QED BY <1>1, <1>2, <1>3, <1>4, <1>5 DEF BootNext, ProcessStep

LEMMA OneServesStep == Shape /\ Numbered /\ OneServes /\ [BootNext]_bootVars => OneServes'
<1> SUFFICES ASSUME Shape, Numbered, OneServes, [BootNext]_bootVars PROVE OneServes'
  OBVIOUS
<1> USE DEF OneServes, Serving
<1>1. ASSUME NEW p \in Procs, ProcessStep(p) PROVE OneServes'
  <2>1. \A q \in Procs : q # p => proc'[q].pc = proc[q].pc
    BY <1>1, OthersAlike DEF Alike
  <2>2. proc'[p].pc = "serving" => Serving = {}
    BY <1>1, OwnStep
  <2> QED BY <2>1, <2>2
<1>2. ASSUME NEW f \in Edits, Edit(f) PROVE OneServes'
  <2>1. \A q \in Procs : proc'[q].pc = proc[q].pc
    BY <1>2, EditAlike DEF Alike
  <2> QED BY <2>1
<1>3. CASE UNCHANGED proc
  BY <1>3
<1> QED BY <1>1, <1>2, <1>3 DEF BootNext, ProcessStep, PutSetting, Attach, bootVars

-----------------------------------------------------------------------------
(* The token. *)

\* A directory the environment names is the one in use.
NamedInv ==
    \A p \in Procs : proc[p].pc \notin {"off", "load"} /\ proc[p].env.data \notin {None, Empty} =>
        Data(p) = proc[p].env.data

\* In a directory where no two have made a token at once: who has one has the one on
\* disk; while one is being made there is none; and what agpeer-mcp took stays.
TokenInv ==
    /\ bridge.token = 0 => bridge = NoBridge
    /\ \A d \in Dirs : <<"token", d>> \notin crossed =>
        /\ \A p \in Procs : Data(p) = d /\ proc[p].pc \in Answering => proc[p].token = token[d] /\ token[d] # 0
        /\ \A p \in Making(d) : token[d] = 0
        /\ bridge.token # 0 /\ bridge.dir = d => bridge.token = token[d]

LEMMA NamedStep == Shape /\ Numbered /\ NamedInv /\ [BootNext]_bootVars => NamedInv'
<1> SUFFICES ASSUME Shape, Numbered, NamedInv, [BootNext]_bootVars PROVE NamedInv'
  OBVIOUS
<1> USE DEF NamedInv, Data
<1>1. ASSUME NEW p \in Procs, ProcessStep(p) PROVE NamedInv'
  <2>1. ASSUME NEW q \in Procs, q # p
        PROVE  /\ proc'[q].pc = proc[q].pc /\ proc'[q].env = proc[q].env
               /\ proc'[q].config = proc[q].config
    BY <1>1, <2>1, OthersAlike DEF Alike
  <2> DEFINE Named(r) == r.pc \notin {"off", "load"} /\ r.env.data \notin {None, Empty} => r.config.data = r.env.data
  <2>2. Named(proc'[p])
    <3>1. proc[p] \in Process /\ proc[p].env \in Environments /\ file \in TextFiles /\ proc \in [Procs -> Process]
      BY DEF Shape, Process
    <3>2. CASE LoadFile(p) \/ LoadAbsent(p)
      <4> DEFINE c == FromFile(file, proc[p].env)
      <4>1. proc[p].env.data \notin {None, Empty} => c.data = proc[p].env.data
        BY <3>1, FromText
      <4> HIDE DEF c
      <4>2. CASE proc' = [proc EXCEPT ![p] = Ended]
        BY <3>1, <4>2 DEF Ended
      <4>3. CASE proc' = [proc EXCEPT ![p].logs = DefaultDir, ![p].first = FALSE]
        <5>1. proc'[p].pc = "load"
          BY <3>1, <3>2, <4>3 DEF LoadFile, LoadAbsent, Process
        <5> QED BY <5>1
      <4>4. CASE proc' = [proc EXCEPT ![p].config = c, ![p].pc = "create"]
        <5>1. proc'[p].config = c /\ proc'[p].env = proc[p].env
          BY <3>1, <4>4 DEF Process
        <5> QED BY <4>1, <5>1
      <4>5. CASE proc' = [proc EXCEPT ![p] = After(proc[p], c)] /\ c \in Used
        <5>1. After(proc[p], c).config = c /\ After(proc[p], c).env = proc[p].env
          BY <3>1, <4>5, AfterLoad
        <5>2. proc'[p].config = c /\ proc'[p].env = proc[p].env
          BY <3>1, <4>5, <5>1
        <5> QED BY <4>1, <5>2
      <4> QED BY <3>2, <4>2, <4>3, <4>4, <4>5, LoadMoves DEF c
    <3>3. CASE Create(p)
      <4>1. proc'[p] = [proc[p] EXCEPT !.pc = "fill"] /\ proc[p].pc = "create"
        BY <3>3, CreateMoves, WriteMoves DEF Shape, Create
      <4> QED BY <3>1, <4>1 DEF Process
    <3>4. CASE Fill(p)
      <4>1. proc'[p] = After(proc[p], proc[p].config) /\ proc[p].pc = "fill"
        BY <3>4, FillMoves, WriteMoves DEF Shape, Fill
      <4>2. After(proc[p], proc[p].config).config = proc[p].config /\ After(proc[p], proc[p].config).env = proc[p].env
        BY <3>1, AfterLoad DEF Process
      <4> QED BY <4>1, <4>2
    <3>5. CASE ~(LoadFile(p) \/ LoadAbsent(p) \/ Create(p) \/ Fill(p))
      <4>1. \/ proc'[p].pc \in {"off", "load"}
            \/ proc[p].pc \notin {"off", "load"} /\ proc'[p].env = proc[p].env /\ Data(p)' = Data(p)
        <5>1. proc[p].pc \in {"load", "create", "fill"} =>
                ~(ReadToken(p) \/ TruncateToken(p) \/ FillToken(p) \/ ReadSettings(p) \/ Seed(p) \/ Bind(p))
          BY DEF ReadToken, TruncateToken, FillToken, ReadSettings, Seed, Bind
        <5>2. CASE Exit(p)
          BY <3>1, <5>2 DEF Exit, End, Ended
        <5>3. CASE \E c \in Calls : Start(p, c)
          <6>1. proc[p].pc = "off"
            BY <5>3 DEF Start
          <6> QED BY <1>1, <6>1, OwnStep
        <5>4. CASE ReadToken(p) \/ TruncateToken(p) \/ FillToken(p) \/ ReadSettings(p) \/ Seed(p) \/ Bind(p)
          <6>1. proc[p].pc \in {"token", "newToken", "fillToken", "settings", "seed", "bind"}
            BY <5>4 DEF ReadToken, TruncateToken, FillToken, ReadSettings, Seed, Bind
          <6> QED BY <1>1, <6>1, OwnStep
        <5> QED BY <1>1, <3>5, <5>2, <5>3, <5>4 DEF ProcessStep
      <4> QED BY <4>1
    <3> QED BY <3>2, <3>3, <3>4, <3>5
  <2> QED BY <2>1, <2>2
<1>2. ASSUME NEW f \in Edits, Edit(f) PROVE NamedInv'
  <2>1. ASSUME NEW q \in Procs
        PROVE  proc'[q].pc = proc[q].pc /\ proc'[q].env = proc[q].env /\ proc'[q].config = proc[q].config
    BY <1>2, EditAlike DEF Alike
  <2> QED BY <2>1
<1>3. CASE UNCHANGED proc
  BY <1>3
<1> QED BY <1>1, <1>2, <1>3 DEF BootNext, ProcessStep, PutSetting, Attach, bootVars

LEMMA TokenStep == Shape /\ Numbered /\ TokenInv /\ [BootNext]_bootVars => TokenInv'
<1> SUFFICES ASSUME Shape, Numbered, TokenInv, [BootNext]_bootVars PROVE TokenInv'
  OBVIOUS
<1> USE DEF TokenInv, Making
<1>1. ASSUME NEW p \in Procs, ProcessStep(p) PROVE TokenInv'
  <2>1. \A q \in Procs : q # p => proc'[q].pc = proc[q].pc /\ Data(q)' = Data(q) /\ proc'[q].token = proc[q].token
    BY <1>1, OthersAlike DEF Alike, Data
  <2>2. UNCHANGED bridge
    BY <1>1 DEF ProcessStep, Start, LoadFile, LoadAbsent, Create, Fill, Exit, ReadToken, TruncateToken, FillToken,
                ReadSettings, Seed, Bind, Others
  <2>3. Data(p) \in Dirs /\ token \in [Dirs -> Nat]
    BY DEF Shape, Numbered, Process, Used, Data
  <2>4. crossed' = crossed \/ (Making(Data(p)) # {p} /\ crossed' = crossed \cup {<<"token", Data(p)>>})
    BY <1>1, OwnStep DEF TruncateToken, FillToken, ProcessStep, Start, LoadFile, LoadAbsent, Create, Fill, Exit, ReadToken,
                ReadSettings, Seed, Bind
  <2>5. ASSUME NEW d \in Dirs, <<"token", d>> \notin crossed'
        PROVE  /\ \A q \in Procs : Data(q)' = d /\ proc'[q].pc \in Answering => proc'[q].token = token'[d] /\ token'[d] # 0
               /\ \A q \in Procs : Data(q)' = d /\ proc'[q].pc \in {"newToken", "fillToken"} => token'[d] = 0
               /\ bridge.token # 0 /\ bridge.dir = d => bridge.token = token'[d]
    <3>1. <<"token", d>> \notin crossed
      BY <2>4, <2>5
    <3>2. CASE proc[p].pc = "newToken" /\ proc'[p].pc = "fillToken" /\ token' = [token EXCEPT ![Data(p)] = 0] /\ Data(p)' = Data(p)
      <4>1. Data(p) = d => token[d] = 0
        BY <3>1, <3>2
      <4>2. token' = token \/ Data(p) # d
        BY <2>3, <3>2, <4>1
      <4>3. token'[d] = token[d]
        BY <2>3, <3>2, <4>2
      <4> QED BY <2>1, <3>1, <3>2, <4>1, <4>3 DEF Answering
    <3>3. CASE /\ proc[p].pc = "fillToken" /\ proc'[p].pc = "settings" /\ proc'[p].token = proc[p].id
               /\ token' = [token EXCEPT ![Data(p)] = proc[p].id] /\ Data(p)' = Data(p)
      <4>1. CASE Data(p) = d
        <5>1. FillToken(p)
          BY <1>1, <3>3 DEF ProcessStep, Start, LoadFile, LoadAbsent, Create, Fill, Exit, End, Ended, ReadToken, TruncateToken,
                      ReadSettings, Seed, Bind, Shape
        <5>5. Making(d) = {p}
          BY <2>5, <4>1, <5>1 DEF FillToken
        <5>2. token[d] = 0 /\ token'[d] = proc[p].id /\ proc[p].id # 0
          BY <2>3, <3>1, <3>3, <4>1 DEF Numbered
        <5>3. \A q \in Procs : q # p /\ Data(q)' = d => proc'[q].pc \notin Answering \cup {"newToken", "fillToken"}
          BY <2>1, <3>1, <5>2, <5>5 DEF Answering
        <5>4. ~(bridge.token # 0 /\ bridge.dir = d)
          BY <3>1, <5>2
        <5> QED BY <3>3, <5>2, <5>3, <5>4
      <4>2. CASE Data(p) # d
        <5>1. token'[d] = token[d]
          BY <2>3, <3>3, <4>2
        <5> QED BY <2>1, <3>1, <3>3, <4>2, <5>1
      <4> QED BY <4>1, <4>2
    <3>4. CASE UNCHANGED token
      <4>1. \/ proc'[p].pc \notin Answering \cup {"newToken", "fillToken"}
            \/ Data(p)' = Data(p) /\ proc'[p].pc \in Answering /\ proc[p].pc \in Answering /\ proc'[p].token = proc[p].token
            \/ Data(p)' = Data(p) /\ proc'[p].pc \in Answering /\ token[Data(p)] # 0 /\ proc'[p].token = token[Data(p)]
            \/ Data(p)' = Data(p) /\ proc'[p].pc \in {"newToken", "fillToken"} /\ token[Data(p)] = 0
            \/ /\ Data(p)' = Data(p) /\ proc'[p].pc \in {"newToken", "fillToken"}
               /\ proc[p].pc \in {"newToken", "fillToken"}
        <5>1. proc[p].pc = "fillToken" /\ token' = [token EXCEPT ![Data(p)] = proc[p].id] =>
                token[Data(p)] # 0 /\ token[Data(p)] = proc[p].id
          BY <2>3, <3>4 DEF Numbered
        <5> QED BY <1>1, <5>1, OwnStep DEF Answering
      <4> QED BY <2>1, <3>1, <3>4, <4>1 DEF Answering
    <3> QED BY <1>1, <3>2, <3>3, <3>4, OwnStep
  <2> QED BY <2>2, <2>5
<1>2. ASSUME NEW f \in Edits, Edit(f) PROVE TokenInv'
  <2>1. \A q \in Procs : proc'[q].pc = proc[q].pc /\ Data(q)' = Data(q) /\ proc'[q].token = proc[q].token
    BY <1>2, EditAlike DEF Alike, Data
  <2>2. crossed \subseteq crossed' /\ UNCHANGED <<token, bridge>>
    BY <1>2 DEF Edit
  <2> QED BY <2>1, <2>2
<1>3. ASSUME NEW p \in Procs, NEW change \in Puts, PutSetting(p, change[1], change[2]) PROVE TokenInv'
  <2>1. crossed \subseteq crossed' /\ UNCHANGED <<proc, token, bridge>>
    BY <1>3 DEF PutSetting
  <2> QED BY <2>1 DEF Data
<1>4. ASSUME NEW p \in Procs, NEW d \in Dirs, Attach(p, d) PROVE TokenInv'
  BY <1>4 DEF Attach, Data, Accepts
<1>5. CASE UNCHANGED bootVars
  BY <1>5 DEF bootVars, Data
<1> QED BY <1>1, <1>2, <1>3, <1>4, <1>5 DEF BootNext, ProcessStep

-----------------------------------------------------------------------------
(* The settings and the choices of the user. *)

\* The engines have the settings over the configuration.
SettingsInv ==
    \A p \in Procs : proc[p].pc \in {"bind", "serving"} =>
        proc[p].config = SettingsOverrides(proc[p].bootstrap, proc[p].settings)

\* Nobody is about to write a file the user has made, or a switch the user has set,
\* unless the user did so under its eyes.
FileInv ==
    edited # Absent /\ <<"file", DefaultDir>> \notin crossed =>
        file = edited /\ \A p \in Procs : proc[p].pc \notin {"create", "fill"}

HookInv ==
    \A d \in Dirs : choice[d] # None /\ <<"hook", d>> \notin crossed =>
        /\ table[d].hook = choice[d]
        /\ \A p \in Procs : proc[p].pc = "seed" /\ Data(p) = d => proc[p].settings.hook # None

ChoiceInv == SettingsInv /\ FileInv /\ HookInv

LEMMA ChoiceStep == Shape /\ Numbered /\ ChoiceInv /\ [BootNext]_bootVars => ChoiceInv'
<1> SUFFICES ASSUME Shape, Numbered, ChoiceInv, [BootNext]_bootVars PROVE ChoiceInv'
  OBVIOUS
<1> USE DEF ChoiceInv, SettingsInv, FileInv, HookInv
<1>1. ASSUME NEW p \in Procs, ProcessStep(p) PROVE ChoiceInv'
  <2>1. \A q \in Procs : q # p =>
            /\ proc'[q].pc = proc[q].pc /\ Data(q)' = Data(q) /\ proc'[q].config = proc[q].config
            /\ proc'[q].bootstrap = proc[q].bootstrap /\ proc'[q].settings = proc[q].settings
    BY <1>1, OthersAlike DEF Alike, Data
  <2>2. Data(p) \in Dirs /\ table \in [Dirs -> Settings] /\ crossed \subseteq crossed' /\ UNCHANGED <<choice, edited>>
    BY <1>1, OwnStep DEF Shape, Process, Used, Data, TruncateToken, FillToken, ProcessStep, Start, LoadFile, LoadAbsent,
                Create, Fill, Exit, ReadToken, ReadSettings, Seed, Bind, Others
  <2>3. SettingsInv'
    <3>1. proc'[p].pc \in {"bind", "serving"} =>
            proc'[p].config = SettingsOverrides(proc'[p].bootstrap, proc'[p].settings)
      BY <1>1, OwnStep
    <3>2. \A q \in Procs : q # p /\ proc'[q].pc \in {"bind", "serving"} =>
            proc'[q].config = SettingsOverrides(proc'[q].bootstrap, proc'[q].settings)
      BY <2>1
    <3> QED BY <3>1, <3>2
  <2>4. FileInv'
    <3> SUFFICES ASSUME edited # Absent, <<"file", DefaultDir>> \notin crossed
                 PROVE  file' = edited /\ \A q \in Procs : proc'[q].pc \notin {"create", "fill"}
      BY <2>2
    <3>1. file = edited /\ \A q \in Procs : proc[q].pc \notin {"create", "fill"}
      OBVIOUS
    <3>2. file' = file
      BY <1>1, <3>1 DEF TruncateToken, FillToken, ProcessStep, Start, LoadFile, LoadAbsent,
                Create, Fill, Exit, ReadToken, ReadSettings, Seed, Bind
    <3>3. proc'[p].pc \notin {"create", "fill"}
      <4>1. CASE LoadFile(p) \/ LoadAbsent(p)
        <5>1. proc[p] \in Process /\ proc \in [Procs -> Process] /\ proc[p].pc = "load" /\ file # Absent
          BY <3>1, <4>1 DEF LoadFile, LoadAbsent, Shape
        <5> DEFINE c == FromFile(file, proc[p].env)
        <5>2. CASE proc' = [proc EXCEPT ![p] = Ended]
          BY <5>1, <5>2 DEF Ended
        <5>3. CASE proc' = [proc EXCEPT ![p].logs = DefaultDir, ![p].first = FALSE]
          BY <5>1, <5>3 DEF Process
        <5>4. CASE proc' = [proc EXCEPT ![p] = After(proc[p], c)] /\ c \in Used
          <6>1. After(proc[p], c).pc \in {"load", "migrate", "token"}
            BY <5>1, <5>4, AfterLoad
          <6> QED BY <5>1, <5>4, <6>1
        <5> QED BY <4>1, <5>1, <5>2, <5>3, <5>4, LoadMoves
      <4>2. CASE ~(LoadFile(p) \/ LoadAbsent(p))
        <5>1. proc[p].pc = "load" => Exit(p)
          BY <1>1, <4>2 DEF ProcessStep, Start, Create, Fill, ReadToken, TruncateToken, FillToken, ReadSettings, Seed, Bind
        <5>2. Exit(p) => proc'[p].pc = "off"
          BY DEF Exit, End, Ended, Shape
        <5> QED BY <1>1, <3>1, <5>1, <5>2, OwnStep
      <4> QED BY <4>1, <4>2
    <3> QED BY <2>1, <3>1, <3>2, <3>3
  <2>5. HookInv'
    <3> SUFFICES ASSUME NEW d \in Dirs, choice[d] # None, <<"hook", d>> \notin crossed
                 PROVE  /\ table'[d].hook = choice[d]
                        /\ \A q \in Procs : proc'[q].pc = "seed" /\ Data(q)' = d => proc'[q].settings.hook # None
      BY <2>2
    <3>1. /\ table[d].hook = choice[d]
          /\ \A q \in Procs : proc[q].pc = "seed" /\ Data(q) = d => proc[q].settings.hook # None
      OBVIOUS
    <3>2. table'[d] = table[d]
      <4>1. CASE proc[p].pc = "seed" /\ proc[p].settings.hook = None /\ table' = Set(Data(p), "hook", proc[p].config.hook)
        BY <2>2, <3>1, <4>1 DEF Set
      <4>2. CASE UNCHANGED table
        BY <4>2
      <4> QED BY <1>1, <4>1, <4>2, OwnStep
    <3>3. proc'[p].pc = "seed" /\ Data(p)' = d => proc'[p].settings.hook # None
      BY <1>1, <3>1, OwnStep
    <3> QED BY <2>1, <3>1, <3>2, <3>3
  <2> QED BY <2>3, <2>4, <2>5
<1>2. ASSUME NEW f \in Edits, Edit(f) PROVE ChoiceInv'
  <2>1. \A q \in Procs :
            /\ proc'[q].pc = proc[q].pc /\ Data(q)' = Data(q) /\ proc'[q].config = proc[q].config
            /\ proc'[q].bootstrap = proc[q].bootstrap /\ proc'[q].settings = proc[q].settings
    BY <1>2, EditAlike DEF Alike, Data
  <2>2. crossed \subseteq crossed' /\ UNCHANGED <<table, choice>> /\ file' = edited'
    BY <1>2 DEF Edit
  <2>3. <<"file", DefaultDir>> \notin crossed' => \A q \in Procs : proc[q].pc \notin {"create", "fill"}
    BY <1>2 DEF Edit
  <2>4. SettingsInv'
    BY <2>1
  <2>5. FileInv'
    BY <2>1, <2>2, <2>3
  <2>6. HookInv'
    BY <2>1, <2>2
  <2> QED BY <2>4, <2>5, <2>6
<1>3. ASSUME NEW p \in Procs, NEW change \in Puts, PutSetting(p, change[1], change[2]) PROVE ChoiceInv'
  <2> DEFINE d == Data(p)
  <2>1. UNCHANGED <<file, edited, proc>> /\ crossed \subseteq crossed'
    BY <1>3 DEF PutSetting
  <2>2. \A q \in Procs : Data(q)' = Data(q)
    BY <2>1 DEF Data
  <2>3. d \in Dirs /\ table \in [Dirs -> Settings] /\ choice \in [Dirs -> SettingValues.hook]
    BY DEF Shape, Process, Used, Data
  <2>4. change[1] \in {"user", "pass", "root", "hook"}
    BY PutsAssumption DEF SettingValues
  <2>5. HookInv'
    <3> SUFFICES ASSUME NEW e \in Dirs, choice'[e] # None, <<"hook", e>> \notin crossed'
                 PROVE  /\ table'[e].hook = choice'[e]
                        /\ \A q \in Procs : proc[q].pc = "seed" /\ Data(q) = e => proc[q].settings.hook # None
      BY <2>1, <2>2
    <3>1. <<"hook", e>> \notin crossed
      BY <2>1
    <3>2. CASE e = d
      <4>1. \A q \in Procs : ~(Data(q) = d /\ proc[q].pc = "seed")
        BY <1>3, <3>2 DEF PutSetting
      <4>2. CASE change[1] = "hook"
        <5>1. choice'[d] = change[2] /\ table' = [table EXCEPT ![d]["hook"] = change[2]]
          BY <1>3, <2>3, <4>2 DEF PutSetting, Set
        <5>2. table'[d].hook = change[2]
          BY <2>3, <5>1 DEF Settings
        <5> QED BY <3>2, <4>1, <5>1, <5>2
      <4>3. CASE change[1] # "hook"
        <5>1. choice' = choice /\ table' = [table EXCEPT ![d][change[1]] = change[2]]
          BY <1>3, <4>3 DEF PutSetting, Set
        <5>2. table'[d].hook = table[d].hook
          BY <2>3, <2>4, <4>3, <5>1 DEF Settings
        <5> QED BY <3>1, <3>2, <4>1, <5>1, <5>2
      <4> QED BY <4>2, <4>3
    <3>3. CASE e # d
      <4>1. table'[e] = table[e] /\ choice'[e] = choice[e]
        BY <1>3, <2>3, <3>3 DEF PutSetting, Set
      <4> QED BY <3>1, <4>1
    <3> QED BY <3>2, <3>3
  <2>6. SettingsInv' /\ FileInv'
    BY <2>1
  <2> QED BY <2>5, <2>6
<1>4. ASSUME NEW p \in Procs, NEW d \in Dirs, Attach(p, d) PROVE ChoiceInv'
  BY <1>4 DEF Attach, Data
<1>5. CASE UNCHANGED bootVars
  BY <1>5 DEF bootVars, Data
<1> QED BY <1>1, <1>2, <1>3, <1>4, <1>5 DEF BootNext, ProcessStep

-----------------------------------------------------------------------------
(* What a start found. *)

\* What the file said when the process began, the environment over it; and whether
\* that loads.
Said(r) == FromFile(r.found, r.env)

Loads(r) ==
    /\ r.found.kind # "broken" /\ Usable(Said(r))
    /\ r.found.kind = "absent" => ~r.named

Configured(r) == r.pc \in Labels \ {"off", "load", "create", "fill"}

Outcome(r) == IF r.pc \in {"bind", "serving"} THEN r.bootstrap ELSE r.config

\* A process nobody disturbed: its second load finds the file as the first did, or as
\* the first has made it, and a first load that fails does so again.
Faithful(r, f) ==
    /\ r.pc = "load" /\ r.first => f = r.found
    /\ r.pc = "load" /\ ~r.first =>
          /\ f = r.found \/ (r.found = Absent /\ ~r.named /\ f = Toml(Said(r)))
          /\ Loads(r) => r.logs = Said(r).data
          /\ f = Absent /\ Loads(r) => ~writable
    /\ r.pc \in {"create", "fill"} => r.first /\ r.found = Absent /\ Loads(r) /\ r.config = Said(r)
    /\ Configured(r) => Outcome(r) = Said(r) /\ r.logs = Said(r).data

FoundInv == \A p \in Procs : ~proc[p].disturbed => Faithful(proc[p], file)

LEMMA LoadFaithful ==
    ASSUME Shape, FoundInv, NEW p \in Procs, LoadFile(p) \/ LoadAbsent(p), ~proc'[p].disturbed
    PROVE  Faithful(proc'[p], file)
<1> DEFINE r == proc[p]
           c == FromFile(file, r.env)
<1>1. /\ r \in Process /\ r.env \in Environments /\ file \in TextFiles /\ r.found \in TextFiles
      /\ proc \in [Procs -> Process] /\ r.pc = "load"
  BY DEF Shape, Process, LoadFile, LoadAbsent
<1>2. /\ file.kind = "absent" <=> file = Absent
      /\ r.found.kind = "absent" <=> r.found = Absent
      /\ Absent.kind = "absent" /\ \A d : Toml(d).kind = "toml"
  BY <1>1, NoFile DEF Absent, Toml
<1>3. FromFile(Toml(Said(r)), r.env) = Said(r)
  BY <1>1, FromText DEF Said
<1>4. ~r.disturbed => Faithful(r, file)
  BY DEF FoundInv
<1>5. CASE proc' = [proc EXCEPT ![p] = Ended]
  <2>1. proc'[p].pc = "off"
    BY <1>1, <1>5 DEF Ended
  <2> QED BY <2>1 DEF Faithful, Configured
<1>6. CASE /\ proc' = [proc EXCEPT ![p].logs = DefaultDir, ![p].first = FALSE] /\ r.first
           /\ file.kind = "broken" \/ ~Usable(c) \/ (file = Absent /\ r.named)
  <2>1. /\ proc'[p].pc = "load" /\ ~proc'[p].first /\ proc'[p].found = r.found /\ proc'[p].env = r.env
        /\ proc'[p].named = r.named /\ proc'[p].disturbed = r.disturbed
    BY <1>1, <1>6 DEF Process
  <2>2. file = r.found
    BY <1>1, <1>4, <1>6, <2>1 DEF Faithful
  <2>3. ~Loads(proc'[p])
    BY <1>2, <1>6, <2>1, <2>2 DEF Loads, Said
  <2> QED BY <2>1, <2>2, <2>3 DEF Faithful, Configured
<1>7. CASE /\ proc' = [proc EXCEPT ![p].config = c, ![p].pc = "create"]
           /\ file = Absent /\ writable /\ ~r.named /\ Usable(c) /\ c \in Used
  <2>1. /\ proc'[p].pc = "create" /\ proc'[p].found = r.found /\ proc'[p].env = r.env /\ proc'[p].config = c
        /\ proc'[p].named = r.named /\ proc'[p].disturbed = r.disturbed /\ proc'[p].first = r.first
    BY <1>1, <1>7 DEF Process
  <2>2. file = r.found
    BY <1>1, <1>2, <1>4, <1>7, <2>1 DEF Faithful
  <2>3. Loads(r) /\ Loads(proc'[p]) /\ Said(proc'[p]) = c
    BY <1>2, <1>7, <2>1, <2>2 DEF Loads, Said
  <2>4. r.first
    BY <1>1, <1>4, <1>7, <2>1, <2>3 DEF Faithful
  <2> QED BY <1>7, <2>1, <2>2, <2>3, <2>4 DEF Faithful, Configured
<1>8. CASE /\ proc' = [proc EXCEPT ![p] = After(r, c)]
           /\ Usable(c) /\ c \in Used
           /\ file.kind = "toml" \/ (file = Absent /\ ~writable /\ ~r.named)
  <2> DEFINE s == After(r, c)
  <2>1. proc'[p] = s
    BY <1>1, <1>8
  <2>2. /\ r.first => s.pc = "load" /\ ~s.first /\ s.logs = c.data
        /\ ~r.first => s.pc \in {"migrate", "token"} /\ s.logs = r.logs
        /\ s.config = c
    BY <1>1, <1>8, AfterLoad
  <2>3. s.named = r.named /\ s.env = r.env /\ s.found = r.found /\ s.disturbed = r.disturbed
    BY <1>1, <1>8, AfterLoad
  <2> HIDE DEF s
  <2>4. Said(s) = Said(r) /\ Faithful(r, file)
    BY <1>4, <2>1, <2>3 DEF Said
  <2>5. CASE r.first
    <3>1. file = r.found /\ Said(s) = c
      BY <1>1, <2>4, <2>5 DEF Faithful, Said
    <3> QED BY <1>2, <1>8, <2>1, <2>2, <2>3, <2>5, <3>1 DEF Faithful, Configured
  <2>6. CASE ~r.first
    <3>1. c = Said(r)
      BY <1>1, <1>3, <2>4, <2>6 DEF Faithful, Said
    <3>2. Loads(r)
      BY <1>1, <1>2, <1>8, <2>4, <2>6, <3>1 DEF Faithful, Loads
    <3>3. r.logs = Said(r).data
      BY <1>1, <2>4, <2>6, <3>2 DEF Faithful
    <3> QED BY <2>1, <2>2, <2>4, <2>6, <3>1, <3>3 DEF Faithful, Configured, Outcome
  <2> QED BY <2>5, <2>6
<1> QED BY <1>5, <1>6, <1>7, <1>8, LoadMoves

LEMMA FoundStep == Shape /\ Numbered /\ FoundInv /\ [BootNext]_bootVars => FoundInv'
<1> SUFFICES ASSUME Shape, Numbered, FoundInv, [BootNext]_bootVars PROVE FoundInv'
  OBVIOUS
<1>1. proc \in [Procs -> Process] /\ UNCHANGED writable
  BY DEF Shape, BootNext, bootVars, TruncateToken, FillToken, Start, LoadFile, LoadAbsent,
         Create, Fill, Exit, ReadToken, ReadSettings, Seed, Bind, PutSetting, Attach, Edit
<1>2. ASSUME NEW p \in Procs, Create(p) \/ Fill(p) PROVE FoundInv'
  <2>1. ASSUME NEW q \in Procs, q # p, ~proc'[q].disturbed PROVE Faithful(proc[q], file') /\ proc'[q] = proc[q]
    <3>1. proc'[q] = IF q \in Loading THEN [proc[q] EXCEPT !.disturbed = TRUE] ELSE proc[q]
      BY <1>2, <2>1, CreateMoves, FillMoves, WriteMoves DEF Shape
    <3>2. q \notin Loading
      BY <1>1, <2>1, <3>1 DEF Process
    <3>3. Faithful(proc[q], file) /\ proc'[q] = proc[q]
      BY <2>1, <3>1, <3>2 DEF FoundInv
    <3> QED BY <3>2, <3>3 DEF Faithful, Loading
  <2>2. ASSUME ~proc'[p].disturbed PROVE Faithful(proc'[p], file')
    <3>1. CASE Create(p)
      <4>1. proc'[p] = [proc[p] EXCEPT !.pc = "fill"] /\ proc[p].pc = "create"
        BY <3>1, CreateMoves, WriteMoves DEF Shape, Create
      <4>2. /\ proc'[p].pc = "fill" /\ proc'[p].first = proc[p].first /\ proc'[p].found = proc[p].found
            /\ proc'[p].env = proc[p].env /\ proc'[p].named = proc[p].named /\ proc'[p].config = proc[p].config
            /\ proc'[p].disturbed = proc[p].disturbed
        BY <1>1, <4>1 DEF Process
      <4>3. Faithful(proc[p], file)
        BY <2>2, <4>2 DEF FoundInv
      <4> QED BY <4>1, <4>2, <4>3 DEF Faithful, Configured, Loads, Said
    <3>2. CASE Fill(p)
      <4> DEFINE r == proc[p]
                 s == After(r, r.config)
      <4>1. proc'[p] = s /\ r.pc = "fill" /\ file' = Toml(r.config) /\ r \in Process /\ r.config \in Used
        BY <1>1, <3>2, FillMoves, WriteMoves DEF Shape, Fill, Process
      <4>2. /\ s.named = r.named /\ s.env = r.env /\ s.found = r.found /\ s.disturbed = r.disturbed
            /\ r.first => s.pc = "load" /\ ~s.first /\ s.logs = r.config.data
        BY <4>1, AfterLoad
      <4> HIDE DEF s
      <4>3. r.first /\ r.found = Absent /\ Loads(r) /\ r.config = Said(r)
        BY <2>2, <4>1, <4>2 DEF FoundInv, Faithful
      <4>4. Said(s) = Said(r) /\ ~r.named /\ file' # Absent
        BY <4>1, <4>2, <4>3 DEF Said, Loads, Absent, Toml
      <4> QED BY <4>1, <4>2, <4>3, <4>4 DEF Faithful, Configured
    <3> QED BY <1>2, <3>1, <3>2
  <2>3. ASSUME NEW q \in Procs, ~proc'[q].disturbed PROVE Faithful(proc'[q], file')
    BY <2>1, <2>2, <2>3
  <2> QED BY <1>1, <2>3 DEF FoundInv, Faithful
<1>3. ASSUME NEW p \in Procs, ProcessStep(p), ~(Create(p) \/ Fill(p)) PROVE FoundInv'
  <2>1. UNCHANGED file
    BY <1>3 DEF TruncateToken, FillToken, ProcessStep, Start, LoadFile, LoadAbsent, Exit, ReadToken, ReadSettings, Seed, Bind
  <2>2. ASSUME NEW q \in Procs, q # p PROVE proc'[q] = proc[q]
    <3>1. CASE LoadFile(p) \/ LoadAbsent(p)
      BY <2>2, <3>1, LoadMoves DEF Shape
    <3>2. CASE ~(LoadFile(p) \/ LoadAbsent(p))
      BY <1>3, <2>2, <3>2 DEF ProcessStep, Start, Exit, End, ReadToken, TruncateToken, FillToken, ReadSettings, Seed, Bind, Goto, Shape
    <3> QED BY <3>1, <3>2
  <2>3. ASSUME ~proc'[p].disturbed PROVE Faithful(proc'[p], file)
    <3>1. CASE \E c \in Calls : Start(p, c)
      <4>1. \E r \in Process : proc' = [proc EXCEPT ![p] = r] /\ r.pc = "load" /\ r.first /\ r.found = file
        BY <3>1, StartMoves DEF Numbered
      <4>2. proc'[p].pc = "load" /\ proc'[p].first /\ proc'[p].found = file
        BY <1>1, <4>1
      <4> QED BY <4>2 DEF Faithful, Configured
    <3>2. CASE LoadFile(p) \/ LoadAbsent(p)
      BY <2>3, <3>2, LoadFaithful
    <3>3. CASE Exit(p)
      <4>1. proc'[p].pc = "off"
        BY <1>1, <3>3 DEF Exit, End, Ended
      <4> QED BY <4>1 DEF Faithful, Configured
    <3>4. CASE ReadToken(p) \/ TruncateToken(p) \/ FillToken(p) \/ ReadSettings(p) \/ Seed(p) \/ Bind(p)
      <4>1. CASE proc'[p] = Ended
        BY <4>1 DEF Faithful, Configured, Ended
      <4>2. CASE /\ proc'[p].found = proc[p].found /\ proc'[p].env = proc[p].env /\ proc'[p].logs = proc[p].logs
                 /\ proc'[p].disturbed = proc[p].disturbed /\ Configured(proc[p]) /\ Configured(proc'[p])
                 /\ Outcome(proc'[p]) = Outcome(proc[p])
        <5>1. Faithful(proc[p], file)
          BY <2>3, <4>2 DEF FoundInv
        <5> QED BY <4>2, <5>1 DEF Faithful, Configured, Said
      <4>3. CASE Seed(p)
        <5>1. proc'[p] = WithEngines(proc[p]) /\ proc[p].pc = "seed"
          BY <1>1, <4>3 DEF Seed
        <5>2. proc'[p].bootstrap = proc[p].config /\ proc'[p].pc = "bind"
          BY <1>1, <5>1, EnginesMove
        <5>3. \A f \in {"env", "logs", "found", "disturbed"} : proc'[p][f] = proc[p][f]
          BY <1>1, <5>1, EnginesMove
        <5> QED BY <4>2, <5>1, <5>2, <5>3 DEF Configured, Outcome, Labels
      <4>4. CASE ReadToken(p) \/ TruncateToken(p) \/ FillToken(p)
        <5>1. \/ proc'[p] = [proc[p] EXCEPT !.pc = "newToken"] \/ proc'[p] = [proc[p] EXCEPT !.pc = "fillToken"]
              \/ proc'[p] = [proc[p] EXCEPT !.token = token[Data(p)], !.pc = "settings"]
              \/ proc'[p] = [proc[p] EXCEPT !.token = proc[p].id, !.pc = "settings"]
          BY <1>1, <4>4 DEF ReadToken, TruncateToken, FillToken, Goto
        <5>2. proc[p].pc \in {"token", "newToken", "fillToken"}
          BY <4>4 DEF ReadToken, TruncateToken, FillToken
        <5>3. /\ proc'[p].pc \in {"newToken", "fillToken", "settings"} /\ proc'[p].config = proc[p].config
              /\ proc'[p].found = proc[p].found /\ proc'[p].env = proc[p].env /\ proc'[p].logs = proc[p].logs
              /\ proc'[p].disturbed = proc[p].disturbed
          BY <1>1, <5>1 DEF Process
        <5> QED BY <4>2, <5>2, <5>3 DEF Configured, Outcome, Labels
      <4>5. CASE ReadSettings(p)
        <5>1. /\ proc[p].pc = "settings" /\ proc'[p].pc = "seed" /\ proc'[p].config = proc[p].config
              /\ proc'[p].found = proc[p].found /\ proc'[p].env = proc[p].env /\ proc'[p].logs = proc[p].logs
              /\ proc'[p].disturbed = proc[p].disturbed
          BY <1>1, <4>5 DEF ReadSettings, Process
        <5> QED BY <4>2, <5>1 DEF Configured, Outcome, Labels
      <4>6. CASE Bind(p) /\ proc'[p] # Ended
        <5>1. proc'[p] = [proc[p] EXCEPT !.pc = "serving"] /\ proc[p].pc = "bind"
          BY <1>1, <4>6 DEF Bind, Goto, End
        <5>2. /\ proc'[p].pc = "serving" /\ proc'[p].bootstrap = proc[p].bootstrap
              /\ proc'[p].found = proc[p].found /\ proc'[p].env = proc[p].env /\ proc'[p].logs = proc[p].logs
              /\ proc'[p].disturbed = proc[p].disturbed
          BY <1>1, <5>1 DEF Process
        <5> QED BY <4>2, <5>1, <5>2 DEF Configured, Outcome, Labels
      <4> QED BY <3>4, <4>1, <4>3, <4>4, <4>5, <4>6
    <3> QED BY <1>3, <3>1, <3>2, <3>3, <3>4 DEF ProcessStep
  <2>4. ASSUME NEW q \in Procs, ~proc'[q].disturbed PROVE Faithful(proc'[q], file)
    BY <2>2, <2>3, <2>4 DEF FoundInv
  <2> QED BY <1>1, <2>1, <2>4 DEF FoundInv, Faithful
<1>4. ASSUME NEW f \in Edits, Edit(f) PROVE FoundInv'
  <2>1. ASSUME NEW q \in Procs, ~proc'[q].disturbed PROVE Faithful(proc'[q], file')
    <3>1. q \notin Loading /\ proc'[q] = proc[q]
      <4>1. proc' = Disturbed(Loading)
        BY <1>4 DEF Edit
      <4>2. q \in Loading => proc'[q].disturbed
        <5>1. q \in Loading => proc'[q] = [proc[q] EXCEPT !.disturbed = TRUE]
          BY <1>1, <4>1, Disturbing
        <5> QED BY <1>1, <5>1 DEF Process
      <4> QED BY <1>1, <2>1, <4>1, <4>2, Disturbing
    <3>2. Faithful(proc[q], file)
      BY <2>1, <3>1 DEF FoundInv
    <3> QED BY <3>1, <3>2 DEF Faithful, Loading
  <2> QED BY <1>1, <2>1 DEF FoundInv, Faithful
<1>5. CASE UNCHANGED <<file, proc>>
  BY <1>1, <1>5 DEF FoundInv, Faithful
<1> QED BY <1>2, <1>3, <1>4, <1>5 DEF BootNext, ProcessStep, PutSetting, Attach, bootVars

-----------------------------------------------------------------------------

BootInv == Shape /\ Numbered /\ OneServes /\ FoundInv /\ NamedInv /\ TokenInv /\ ChoiceInv

LEMMA BootInvInit == BootInit => BootInv
<1> SUFFICES ASSUME BootInit PROVE BootInv
  OBVIOUS
<1>1. Shape /\ Numbered /\ OneServes
  BY ShapeInit
<1>2. \A p \in Procs : proc[p] = Ended
  BY DEF BootInit
<1>3. FoundInv /\ NamedInv /\ SettingsInv
  BY <1>2 DEF FoundInv, Faithful, Configured, NamedInv, SettingsInv, Ended
<1>4. TokenInv
  BY <1>2 DEF BootInit, TokenInv, Making, Answering, Ended, NoBridge
<1>5. FileInv /\ HookInv
  <2>1. edited = file
    BY DEF BootInit
  <2>2. \A d \in Dirs : choice[d] = table[d].hook
    BY DEF BootInit
  <2> QED BY <1>2, <2>1, <2>2 DEF FileInv, HookInv, Ended
<1> QED BY <1>1, <1>3, <1>4, <1>5 DEF BootInv, ChoiceInv

LEMMA BootInductive == BootSpec => []BootInv
<1>1. BootInv /\ [BootNext]_bootVars => BootInv'
  BY ShapeStep, NumberedStep, OneServesStep, FoundStep, NamedStep, TokenStep, ChoiceStep DEF BootInv
<1> QED BY BootInvInit, <1>1, PTL DEF BootSpec

-----------------------------------------------------------------------------

\* Configurations, settings, tokens and processes stay well formed, a configuration in
\* use has a data directory that is there, and one process at a time answers.
THEOREM BootTypeCorrect == BootSpec => []BootTypeOK
<1>1. BootInv => BootTypeOK
  <2> SUFFICES ASSUME BootInv PROVE BootTypeOK
    OBVIOUS
  <2>1. file \in {Absent, Broken} \/ (file.kind = "toml" /\ file.conf.data \in Dirs \cup {Empty})
    BY DEF BootInv, Shape, TextFiles, Toml
  <2>2. \A p \in Procs : proc[p].pc \in Labels /\ proc[p].config \in Used
    BY DEF BootInv, Shape, Process
  <2>3. \A p \in Procs : proc[p].pc \in {"settings", "seed", "bind", "serving"} => proc[p].token # 0
    BY DEF BootInv, Numbered, Answering
  <2>4. Cardinality(Serving) <= 1
    <3>1. CASE Serving = {}
      BY <3>1, FS_EmptySet
    <3>2. ASSUME NEW p \in Serving PROVE Cardinality(Serving) = 1
      <4>1. Serving = {p}
        BY DEF BootInv, OneServes
      <4> QED BY <4>1, FS_Singleton
    <3> QED BY <3>1, <3>2
  <2> QED BY <2>1, <2>2, <2>3, <2>4 DEF BootTypeOK, BootInv, Shape, Numbered, Used
<1> QED BY BootInductive, <1>1, PTL

\* A start that nobody disturbed comes to what the file said when it began, although
\* it reads the file twice and may write it in between (config.rs 288-316).
THEOREM StartsFaithfully == BootSpec => []StartsFromWhatItFound
<1>1. BootInv => StartsFromWhatItFound
  BY DEF BootInv, FoundInv, Faithful, Configured, Outcome, Said, StartsFromWhatItFound, Past
<1> QED BY BootInductive, <1>1, PTL

\* The first place of the shell that has a token.
LEMMA ShellFinds ==
    ASSUME None \notin Dirs, NEW tokenFile \in Dirs \cup {None}, NEW data \in Dirs \cup {None, Empty}, NEW d \in Dirs,
           token[d] # 0, Leads([tokenFile |-> tokenFile, data |-> data], d)
    PROVE  ShellSource([tokenFile |-> tokenFile, data |-> data]) = d
<1> DEFINE named == IF data = Empty THEN WorkDir ELSE data
           places == <<tokenFile, named, RunData, DefaultDir>>
           First(i) == TokenOf(places[i]) # 0 /\ \A k \in 1 .. i - 1 : TokenOf(places[k]) = 0
<1>1. /\ places[1] = tokenFile /\ places[2] = named /\ places[3] = RunData /\ places[4] = DefaultDir
      /\ ShellSource([tokenFile |-> tokenFile, data |-> data]) =
            IF \E i \in 1 .. 4 : First(i) THEN places[CHOOSE i \in 1 .. 4 : First(i)] ELSE None
  BY DEF ShellSource
<1>2. TokenOf(d) = token[d] /\ TokenOf(d) # 0 /\ TokenOf(None) = 0 /\ d # None
  BY DEF TokenOf
<1>3. /\ tokenFile = d \/ TokenOf(tokenFile) = 0
      /\ \/ d = tokenFile
         \/ d = data
         \/ /\ data \in {None, Empty} /\ d = DefaultDir
            /\ RunData = d \/ token[RunData] = 0
            /\ data = Empty => WorkDir = d \/ token[WorkDir] = 0
  BY DEF Leads
<1>4. RunData \in Dirs /\ WorkDir \in Dirs /\ RunData # None /\ WorkDir # None
  BY StartupAssumption
<1>5. TokenOf(RunData) = token[RunData] /\ TokenOf(WorkDir) = token[WorkDir]
  BY <1>4 DEF TokenOf
<1>6. data # Empty \/ Empty \notin Dirs
  BY StartupAssumption
<1>7. tokenFile # d => named = d \/ (TokenOf(named) = 0 /\ (RunData = d \/ (TokenOf(RunData) = 0 /\ DefaultDir = d)))
  BY <1>2, <1>3, <1>5, <1>6
<1>8. \A i \in 1 .. 4 : First(i) => places[i] = d
  <2> SUFFICES ASSUME NEW i \in 1 .. 4, First(i) PROVE places[i] = d
    OBVIOUS
  <2>1. /\ TokenOf(places[i]) # 0 /\ \A k \in 1 .. i - 1 : TokenOf(places[k]) = 0
    OBVIOUS
  <2> HIDE DEF named, places
  <2>2. CASE i = 1
    BY <1>1, <1>3, <2>1, <2>2
  <2>3. CASE i = 2
    <3>1. TokenOf(tokenFile) = 0
      BY <1>1, <2>1, <2>3
    <3> QED BY <1>1, <1>2, <1>7, <2>1, <2>3, <3>1
  <2>4. CASE i = 3
    <3>1. TokenOf(tokenFile) = 0 /\ TokenOf(named) = 0
      BY <1>1, <2>1, <2>4
    <3> QED BY <1>1, <1>2, <1>7, <2>1, <2>4, <3>1
  <2>5. CASE i = 4
    <3>1. TokenOf(tokenFile) = 0 /\ TokenOf(named) = 0 /\ TokenOf(RunData) = 0
      BY <1>1, <2>1, <2>5
    <3> QED BY <1>1, <1>2, <1>7, <2>1, <2>5, <3>1
  <2> QED BY <2>2, <2>3, <2>4, <2>5
<1>9. \E i \in 1 .. 4 : First(i)
  <2> SUFFICES ASSUME \A i \in 1 .. 4 : ~First(i) PROVE FALSE
    OBVIOUS
  <2> HIDE DEF named, places
  <2>1. TokenOf(places[1]) = 0
    BY Z3
  <2>2. TokenOf(places[2]) = 0
    BY <2>1, \A k \in 1 .. 1 : k = 1
  <2>3. TokenOf(places[3]) = 0
    BY <2>1, <2>2, \A k \in 1 .. 2 : k \in {1, 2}
  <2>4. TokenOf(places[4]) = 0
    BY <2>1, <2>2, <2>3, \A k \in 1 .. 3 : k \in {1, 2, 3}
  <2> QED BY <1>1, <1>2, <1>7, <2>1, <2>2, <2>3, <2>4
<1> DEFINE first == CHOOSE i \in 1 .. 4 : First(i)
<1>10. first \in 1 .. 4 /\ First(first)
  <2> HIDE DEF First
  <2> QED BY <1>9
<1> QED BY <1>1, <1>8, <1>9, <1>10

\* The token that the service asks for is the one in its directory, which is where the
\* desktop shell looks when its environment leads it there and where agpeer-mcp has
\* looked, unless two processes made one at once (token.rs 6-18, lib.rs 21-57).
THEOREM TokenFound == BootSpec => []TokenReaches
<1>1. BootInv => TokenReaches
  <2> SUFFICES ASSUME BootInv, NEW p \in Serving, <<"token", Data(p)>> \notin crossed
               PROVE  /\ Accepts(p, token[Data(p)])
                      /\ \A tokenFile \in Dirs \cup {None} :
                            LET shell == [tokenFile |-> tokenFile, data |-> proc[p].env.data] IN
                            Leads(shell, Data(p)) \/ (tokenFile = None /\ shell.data \notin {None, Empty})
                               => ShellSource(shell) = Data(p)
                      /\ bridge # NoBridge /\ bridge.dir = Data(p) => Accepts(p, bridge.token)
    BY DEF TokenReaches
  <2>1. p \in Procs /\ proc[p].pc = "serving" /\ Data(p) \in Dirs
    BY DEF Serving, BootInv, Shape, Process, Used, Data
  <2>2. proc[p].token = token[Data(p)] /\ token[Data(p)] # 0
    BY <2>1 DEF BootInv, TokenInv, Answering
  <2>3. bridge # NoBridge /\ bridge.dir = Data(p) => bridge.token = token[Data(p)]
    BY <2>1 DEF BootInv, TokenInv
  <2>4. ASSUME NEW tokenFile \in Dirs \cup {None},
               \/ Leads([tokenFile |-> tokenFile, data |-> proc[p].env.data], Data(p))
               \/ tokenFile = None /\ proc[p].env.data \notin {None, Empty}
        PROVE  ShellSource([tokenFile |-> tokenFile, data |-> proc[p].env.data]) = Data(p)
    <3>1. proc[p].env.data \in Dirs \cup {None, Empty} /\ None \notin Dirs
      BY <2>1, StartupAssumption DEF BootInv, Shape, Process, Environments
    <3>2. proc[p].env.data \notin {None, Empty} => Data(p) = proc[p].env.data
      BY <2>1 DEF BootInv, NamedInv
    <3>3. Leads([tokenFile |-> tokenFile, data |-> proc[p].env.data], Data(p))
      BY <2>4, <3>2 DEF Leads, TokenOf
    <3> QED BY <2>1, <2>2, <3>1, <3>3, ShellFinds
  <2> QED BY <2>2, <2>3, <2>4 DEF Accepts
<1> QED BY BootInductive, <1>1, PTL

\* Engines and API mean one download root (config.rs 326-380, routes.rs 41-48).
THEOREM OneRoot == BootSpec => []RootsAgree
<1>1. BootInv => RootsAgree
  <2> SUFFICES ASSUME BootInv, NEW p \in Serving, proc[p].settings.root = table[Data(p)].root,
                      Junk \notin {proc[p].settings.user, proc[p].settings.pass}
               PROVE  EngineRoot(p) = ApiRoot(p)
    BY DEF RootsAgree
  <2>1. proc[p].config = SettingsOverrides(proc[p].bootstrap, proc[p].settings)
    BY DEF Serving, BootInv, ChoiceInv, SettingsInv
  <2>2. proc[p].bootstrap \in Used /\ proc[p].settings \in Settings
    BY DEF Serving, BootInv, Shape, Process
  <2>3. proc[p].settings.root \in Roots \cup {None} /\ None \notin Roots
    BY <2>2, Apart DEF Settings, SettingValues
  <2>4. ApiRoot(p) = IF proc[p].settings.root = None THEN proc[p].bootstrap.root ELSE proc[p].settings.root
    BY <2>3 DEF ApiRoot, GetTyped
  <2> QED BY <2>1, <2>2, <2>4, Overriding DEF EngineRoot
<1> QED BY BootInductive, <1>1, PTL

\* No start, migration or death overrides what the user decided, unless the decision
\* fell between a look and a write (config.rs 303-316, main.rs 279-309).
THEOREM UserDecides == BootSpec => []UserChoicesStand
<1>1. BootInv => UserChoicesStand
  BY Apart DEF BootInv, ChoiceInv, FileInv, HookInv, UserChoicesStand, HookEnabled, GetTyped, Serving
<1> QED BY BootInductive, <1>1, PTL

-----------------------------------------------------------------------------
(* SoulseekSupervisor. *)

\* Nothing has happened that this pass could have missed without a newer
\* generation, a request still to announce, or a failure to show for it.
Undisturbed == clean /\ seen = generation /\ ~Unannounced

\* What the supervisor has put together so far is what the settings say now.
PassProgress ==
    Undisturbed =>
        /\ supPc = "read" => \A k \in Keys \ unread : effective[k] = Override(settings, k)
        /\ supPc \in {"transfer", "search"} => effective = Wanted
        /\ supPc = "search" => transferCfg = effective
        /\ supPc = "wait" => InUse

\* The inductive invariant.
IInv == TypeOK /\ PassProgress

-----------------------------------------------------------------------------
(* Type correctness. *)

\* Spending leaves the budgets natural numbers.
LEMMA SpendType ==
    ASSUME budget \in [{"requests", "restarts", "faults"} -> Nat],
           NEW kind \in {"requests", "restarts", "faults"}, Spend(kind)
    PROVE  budget' \in [{"requests", "restarts", "faults"} -> Nat]
  BY DEF Spend

\* A request is well formed, and one that is not active has nothing left to do.
Request == [active : BOOLEAN, values : Configs, changed : SUBSET Keys]

WellFormed(r) == r \in Request /\ Valid(r.values) /\ (r.active \/ r = Idle)

\* Baking and overriding yield configurations.
LEMMA ConfigTypes ==
    /\ NoPut \in Configs /\ NoClient \in Configs
    /\ Valid(NoPut)
    /\ \A stored \in Configs : Baked(stored) \in Configs
    /\ TypeOK => Wanted \in Configs /\ \A k \in Keys : Override(settings, k) \in Values \cup {NoValue}
  BY SupervisorAssumption DEF NoPut, NoClient, Configs, Baked, Valid, TypeOK, Wanted, Override

LEMMA IdleType == WellFormed(Idle)
  BY ConfigTypes DEF WellFormed, Request, Idle

\* Changing one request to a well-formed one keeps all well formed.
LEMMA RequestType ==
    ASSUME TypeOK, NEW c \in Clients, NEW r, WellFormed(r), put' = [put EXCEPT ![c] = r]
    PROVE  /\ put' \in [Clients -> Request]
           /\ \A d \in Clients : Valid(put'[d].values) /\ (put'[d].active \/ put'[d] = Idle)
  BY DEF TypeOK, WellFormed, Request

LEMMA TypeInit == Init => TypeOK
  BY SupervisorAssumption, ConfigTypes, IdleType DEF Init, TypeOK, Idle, WellFormed, Request

LEMMA TypeStep == TypeOK /\ [Next]_vars => TypeOK'
<1> SUFFICES ASSUME TypeOK, [Next]_vars PROVE TypeOK'
  OBVIOUS
<1> USE DEF TypeOK
<1>1. ASSUME NEW k \in Keys, ReadKey(k) PROVE TypeOK'
  <2>1. effective' \in Configs
    BY <1>1, ConfigTypes DEF ReadKey, Configs
  <2>2. budget' \in [{"requests", "restarts", "faults"} -> Nat]
    BY <1>1, SpendType DEF ReadKey
  <2>3. QED
    BY <1>1, <2>1, <2>2 DEF ReadKey
<1>2. CASE Connect
  BY <1>2, SpendType DEF Connect
<1>3. CASE RegisterTransfer
  BY <1>3 DEF RegisterTransfer
<1>4. CASE RegisterSearch
  BY <1>4 DEF RegisterSearch
<1>5. CASE Wake
  BY <1>5 DEF Wake
<1>6. ASSUME NEW c \in Clients, NEW values \in Configs, Put(c, values) PROVE TypeOK'
  <2>1. budget' \in [{"requests", "restarts", "faults"} -> Nat]
    BY <1>6, SpendType DEF Put
  <2>2. WellFormed([active |-> TRUE, values |-> values, changed |-> {}])
    BY <1>6 DEF Put, WellFormed, Request
  <2>3. QED
    BY <1>6, <2>1, <2>2, RequestType DEF Put, Request
<1>7. ASSUME NEW c \in Clients, NEW k \in Keys, SetKey(c, k) PROVE TypeOK'
  <2> DEFINE r == [put[c] EXCEPT !.values[k] = NoValue, !.changed = @ \cup {k}]
  <2>1. budget' \in [{"requests", "restarts", "faults"} -> Nat]
    BY <1>7, SpendType DEF SetKey
  <2>2. WellFormed(r)
    <3> DEFINE vs == [put[c].values EXCEPT ![k] = NoValue]
    <3>1. put[c] \in Request /\ put[c].active /\ Valid(put[c].values)
      BY <1>7 DEF SetKey, Request
    <3>2. vs \in Configs
      BY <3>1 DEF Request, Configs
    <3>3. Valid(vs)
      BY <3>1, <3>2, SupervisorAssumption DEF Valid, Request, Configs
    <3>4. r \in Request /\ r.active = put[c].active /\ r.values = vs
      BY <3>1, <3>2 DEF Request
    <3>5. QED
      BY <3>1, <3>3, <3>4 DEF WellFormed
  <2>3. put' = [put EXCEPT ![c] = r] \/ put' = [put EXCEPT ![c] = Idle]
    BY <1>7 DEF SetKey
  <2>4. settings' \in Configs /\ Valid(settings')
    <3>1. put[c].values \in Configs /\ Valid(put[c].values)
      OBVIOUS
    <3>2. settings' = settings \/ settings' = [settings EXCEPT ![k] = put[c].values[k]]
      BY <1>7 DEF SetKey
    <3>3. QED
      BY <3>1, <3>2 DEF Configs, Valid
  <2>5. clean' \in BOOLEAN
    BY <1>7 DEF SetKey
  <2>6. /\ put' \in [Clients -> Request]
        /\ \A d \in Clients : Valid(put'[d].values) /\ (put'[d].active \/ put'[d] = Idle)
    BY <2>2, <2>3, IdleType, RequestType
  <2>7. QED
    BY <1>7, <2>1, <2>4, <2>5, <2>6 DEF SetKey, Request
<1>8. ASSUME NEW c \in Clients, Notify(c) PROVE TypeOK'
  <2>1. /\ put' \in [Clients -> Request]
        /\ \A d \in Clients : Valid(put'[d].values) /\ (put'[d].active \/ put'[d] = Idle)
    BY <1>8, IdleType, RequestType DEF Notify
  <2>2. generation' \in Nat /\ seen' \in 0 .. generation'
    BY <1>8 DEF Notify
  <2>3. QED
    BY <1>8, <2>1, <2>2 DEF Notify, Request
<1>9. ASSUME NEW k \in Keys, DeleteSetting(k) PROVE TypeOK'
  <2>1. settings' \in Configs /\ Valid(settings')
    BY <1>9, SupervisorAssumption DEF DeleteSetting, Configs, Valid
  <2>2. QED
    BY <1>9, <2>1, SpendType DEF DeleteSetting
<1>10. CASE Restart
  <2>1. /\ put' \in [Clients -> Request]
        /\ \A d \in Clients : Valid(put'[d].values) /\ (put'[d].active \/ put'[d] = Idle)
    BY <1>10, IdleType DEF Restart, WellFormed
  <2>2. QED
    BY <1>10, <2>1, ConfigTypes, SpendType DEF Restart, Request
<1>11. CASE UNCHANGED vars
  BY <1>11 DEF vars
<1>12. QED
  BY <1>1, <1>2, <1>3, <1>4, <1>5, <1>6, <1>7, <1>8, <1>9, <1>10, <1>11 DEF Next, Supervise, Handle

-----------------------------------------------------------------------------
(* The pass of the supervisor. *)

LEMMA ProgressInit == Init => PassProgress
  BY DEF Init, PassProgress

LEMMA ProgressStep == IInv /\ [Next]_vars => PassProgress'
<1> SUFFICES ASSUME TypeOK, PassProgress, [Next]_vars, Undisturbed' PROVE PassProgress'
  BY DEF IInv, PassProgress
<1> USE DEF PassProgress, Undisturbed, Unannounced
<1>1. ASSUME NEW k \in Keys, ReadKey(k) PROVE PassProgress'
  <2>1. effective' = [effective EXCEPT ![k] = Override(settings, k)] /\ UNCHANGED clean
    BY <1>1 DEF ReadKey
  <2>2. Undisturbed /\ supPc = "read"
    BY <1>1, <2>1 DEF ReadKey
  <2>3. \A j \in Keys \ unread' : effective'[j] = Override(settings, j)
    BY <1>1, <2>1, <2>2 DEF ReadKey, TypeOK, Configs
  <2>4. QED
    BY <1>1, <2>3 DEF ReadKey, Override
<1>2. CASE Connect
  <2>1. Undisturbed /\ supPc = "read" /\ unread = {}
    BY <1>2 DEF Connect
  <2>2. effective = Wanted
    BY <2>1 DEF Wanted, TypeOK, Configs
  <2>3. Wanted' = Wanted
    BY <1>2 DEF Connect, Wanted, Override
  <2>4. supPc' = "wait" => ~HasUser(Wanted)
    BY <1>2, <2>2 DEF Connect
  <2>5. QED
    BY <1>2, <2>2, <2>3, <2>4 DEF Connect, InUse
<1>3. CASE RegisterTransfer
  BY <1>3 DEF RegisterTransfer, Wanted, Override
<1>4. CASE RegisterSearch
  BY <1>4 DEF RegisterSearch, Wanted, Override, InUse
<1>5. CASE Wake
  BY <1>5 DEF Wake
<1>6. ASSUME NEW c \in Clients, NEW values \in Configs, Put(c, values) PROVE PassProgress'
  <2>1. ~Unannounced
    <3>1. SUFFICES ASSUME NEW d \in Clients PROVE put[d].changed = {}
      OBVIOUS
    <3>2. CASE d = c
      BY <1>6, <3>2 DEF Put, TypeOK, Idle
    <3>3. CASE d # c
      BY <1>6, <3>3 DEF Put, TypeOK
    <3>4. QED
      BY <3>2, <3>3
  <2>2. QED
    BY <1>6, <2>1 DEF Put, Wanted, Override, InUse
<1>7. ASSUME NEW c \in Clients, NEW k \in Keys, SetKey(c, k) PROVE PassProgress'
  <2>1. put' # [put EXCEPT ![c].values[k] = NoValue, ![c].changed = @ \cup {k}]
    <3>1. SUFFICES ASSUME put' = [put EXCEPT ![c].values[k] = NoValue, ![c].changed = @ \cup {k}]
                   PROVE  FALSE
      OBVIOUS
    <3>2. put'[c].changed = put[c].changed \cup {k}
      BY <3>1 DEF TypeOK
    <3>3. QED
      BY <3>2
  <2>2. UNCHANGED settings /\ put' = [put EXCEPT ![c] = Idle] /\ put[c].changed = {}
    BY <1>7, <2>1 DEF SetKey
  <2>3. ~Unannounced
    BY <2>2 DEF TypeOK
  <2>4. QED
    BY <1>7, <2>2, <2>3 DEF SetKey, Wanted, Override, InUse
<1>8. ASSUME NEW c \in Clients, Notify(c) PROVE PassProgress'
  BY <1>8 DEF Notify, TypeOK
<1>9. ASSUME NEW k \in Keys, DeleteSetting(k) PROVE PassProgress'
  BY <1>9 DEF DeleteSetting
<1>10. CASE Restart
  BY <1>10 DEF Restart
<1>11. CASE UNCHANGED vars
  BY <1>11 DEF vars, Wanted, Override, InUse
<1>12. QED
  BY <1>1, <1>2, <1>3, <1>4, <1>5, <1>6, <1>7, <1>8, <1>9, <1>10, <1>11 DEF Next, Supervise, Handle

LEMMA Inductive == Spec => []IInv
<1>1. Init => IInv
  BY TypeInit, ProgressInit DEF IInv
<1>2. IInv /\ [Next]_vars => IInv'
  BY TypeStep, ProgressStep DEF IInv
<1>3. QED
  BY <1>1, <1>2, PTL DEF Spec

-----------------------------------------------------------------------------

\* Settings, configurations and requests stay well formed; no blank storage
\* root is ever stored (routes.rs validate_storage_root_values).
THEOREM TypeCorrect == Spec => []TypeOK
  BY Inductive, PTL DEF IInv

\* No wakeup is lost: a waiting supervisor with nothing left to see runs the
\* stored configuration, for any number of requests racing with its pass
\* (main.rs 382-427, state.rs 59-67).
THEOREM AdoptsStored == Spec => []SettledOnStored
<1>1. IInv => SettledOnStored
  BY DEF IInv, PassProgress, Undisturbed, SettledOnStored, Settled
<1>2. QED
  BY Inductive, <1>1, PTL

\* No client is kept that was connected with half of a request.
THEOREM NeverTorn == Spec => []NoTornConfigKept
<1>1. IInv => NoTornConfigKept
  BY DEF IInv, PassProgress, Undisturbed, NoTornConfigKept
<1>2. QED
  BY Inductive, <1>1, PTL
=============================================================================

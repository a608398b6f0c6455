------------------------------ MODULE StepPipeline ------------------------------
(***************************************************************************)
(* The step pipeline of crates/postprocess (pipeline.rs): a job runs its   *)
(* steps in order over a work directory with one subdirectory and a        *)
(* destination; a job that failed, or whose run was dropped, is run again  *)
(* and continues behind its completed steps.  Several jobs may work on one *)
(* directory, and several on one file: nothing in the code keeps them      *)
(* apart, and a job may have any steps in any order.                       *)
(*                                                                         *)
(* Operations of tokio::fs run on a pool of threads: a run that is dropped *)
(* while it waits for one leaves it behind, to happen later, or to fail    *)
(* then.  Extraction and the launch of an installer do not wait.           *)
(*                                                                         *)
(* A place holds a file under each name, nothing, or a file that was       *)
(* broken off while it was written.  A hard link makes the destination's   *)
(* file the same as the one it was linked to: what is written through one  *)
(* name is read under the other.  A rename replaces the name, a copy       *)
(* writes into the file that is there, and 7z removes it first.            *)
(***************************************************************************)
EXTENDS Naturals, Sequences, FiniteSets

CONSTANTS
    Jobs,
    Plans,              \* what a job may be made of: its steps, the place and name of its target under
                        \* the work directory, and the place sanitize_entry_path gives that
    Files, NameOf,
    Inside,             \* archive -> the files in it; {} for other files
    Archives,           \* names the extractor supports
    Start,              \* what lies at each place under each name at first
    Policy,
    Unsafe,
    Nothing, Broken,
    MaxRuns, MaxDrops, MaxFaults    \* bounds

Places == {"work", "sub", "dest"}

StepKind == {"verify", "extract", "flatten", "rename", "inspect_media", "move",
             "copy", "hardlink", "cleanup", "run_installer", "custom_hook"}

StepState == {"pending", "running", "completed", "failed", "skipped"}

Delivering == {"move", "copy", "hardlink"}

Names == {NameOf[f] : f \in Files} \cup {p.name : p \in Plans}

ASSUME PipelineAssumption ==
    /\ \A p \in Plans :
          p.steps \in Seq(StepKind) /\ p.place \in {"work", "sub"} /\ p.sane \in {"work", "sub", Unsafe}
    /\ Inside \in [Files -> SUBSET Files]
    /\ \A a \in Files : \A f, g \in Inside[a] : NameOf[f] = NameOf[g] => f = g    \* an archive's names differ
    /\ Nothing \notin Files /\ Broken \notin Files /\ Nothing # Broken
    /\ Start \in [Places -> [Names -> Files \cup {Nothing}]]
    /\ \A p \in Places, n \in Names : Start[p][n] \in Files => NameOf[Start[p][n]] = n
    /\ Policy \in {"deny", "ask", "allow"}
    /\ MaxRuns \in Nat /\ MaxDrops \in Nat /\ MaxFaults \in Nat

VARIABLES
    plan,       \* job -> what it is made of
    jobs,       \* job -> its state, its steps' states, and where its run is
    at,         \* place -> name -> what lies there
    linked,     \* name -> the place whose file is the destination's too, or "none"
    nested,     \* whether the subdirectory exists
    pool,       \* operations dropped runs left behind, and whether they are over
    launched,   \* observes: job -> how often each step launched an installer
    budget

vars == <<plan, jobs, at, linked, nested, pool, launched, budget>>

disk == <<at, linked, nested>>

Steps(j) == DOMAIN plan[j].steps

Idle == [kind |-> "none", name |-> "", from |-> "work", to |-> "work"]

Init ==
    /\ plan \in [Jobs -> Plans]
    /\ jobs = [j \in Jobs |-> [state |-> "pending", i |-> 1, pc |-> "idle", op |-> Idle, left |-> {},
                               steps |-> [i \in Steps(j) |-> "pending"]]]
    /\ at = Start /\ linked = [n \in Names |-> "none"] /\ nested = TRUE
    /\ pool = <<>>
    /\ launched = [j \in Jobs |-> [i \in Steps(j) |-> 0]]
    /\ budget = [runs |-> MaxRuns, drops |-> MaxDrops, faults |-> MaxFaults]

Spend(kind) ==
    /\ budget[kind] > 0
    /\ budget' = [budget EXCEPT ![kind] = @ - 1]

Free == UNCHANGED budget

-----------------------------------------------------------------------------
(* Operations on files. *)

There(place, name) == at[place][name] # Nothing

Op(kind, name, from, to) == [kind |-> kind, name |-> name, from |-> from, to |-> to]

Possible(op) ==
    CASE op.kind \in {"copy", "look"} -> There(op.from, op.name)
      [] op.kind = "rename" -> There(op.from, op.name) /\ (op.to = "sub" => nested)
      [] op.kind = "link" -> There(op.from, op.name) /\ ~There(op.to, op.name)
      [] op.kind = "rmdir" -> nested /\ \A n \in Names : ~There("sub", n)
      [] OTHER -> TRUE

\* The destination's file is written, under both its names if it has two.
Written(name, content) ==
    [p \in Places |-> IF p \in {"dest", linked[name]} THEN [at[p] EXCEPT ![name] = content] ELSE at[p]]

Relink(name, place) == linked' = [linked EXCEPT ![name] = place]

\* Between two names of one file it does nothing.
Moved(op) ==
    LET n == op.name
        same == linked[n] = op.from
    IN  \/ op.to = "dest" /\ same /\ UNCHANGED <<at, linked>>
        \/ /\ ~(op.to = "dest" /\ same)
           /\ at' = [at EXCEPT ![op.to][n] = at[op.from][n], ![op.from][n] = Nothing]
           /\ Relink(n, CASE op.to = "dest" -> "none" [] same -> op.to
                          [] linked[n] = op.to -> "none" [] OTHER -> linked[n])

\* What a successful operation does.  A copy onto its own source empties it.
Effect(op) ==
    LET n == op.name IN
    /\ CASE op.kind = "rename" -> Moved(op)
         [] op.kind = "copy" -> /\ at' = Written(n, IF linked[n] = op.from THEN Broken ELSE at[op.from][n])
                                /\ UNCHANGED linked
         [] op.kind = "link" -> at' = [at EXCEPT !["dest"][n] = at[op.from][n]] /\ Relink(n, op.from)
         [] op.kind = "remove" -> /\ at' = [at EXCEPT ![op.from][n] = Nothing]
                                  /\ Relink(n, IF linked[n] = op.from THEN "none" ELSE linked[n])
         [] OTHER -> UNCHANGED <<at, linked>>
    /\ nested' = (nested /\ op.kind # "rmdir")

\* What a failed one may leave: a copy has broken the file it was to replace.
Damage(op) ==
    /\ at' \in {at} \cup {Written(op.name, Broken) : k \in {op.kind} \cap {"copy"}}
    /\ UNCHANGED <<linked, nested>>

\* Extraction replaces files of the destination.
Placed(files, torn) ==
    /\ at' = [at EXCEPT !["dest"] = [n \in Names |->
                 IF \E f \in files : NameOf[f] = n THEN CHOOSE f \in files : NameOf[f] = n
                 ELSE IF \E f \in torn : NameOf[f] = n THEN Broken ELSE at["dest"][n]]]
    /\ linked' = [n \in Names |-> IF \E f \in files \cup torn : NameOf[f] = n THEN "none" ELSE linked[n]]

-----------------------------------------------------------------------------
(* The run of a job. *)

Kind(j) == plan[j].steps[jobs[j].i]

At(j, kind) == jobs[j].pc = "ready" /\ Kind(j) = kind

Mine(j) == at[plan[j].place][plan[j].name]

\* Mutant: the step a run was dropped at counts as done.
ResumeAfterRunning(j) ==
    CHOOSE i \in 1 .. Len(plan[j].steps) + 1 :
        /\ i > Len(plan[j].steps) \/ jobs[j].steps[i] \notin {"completed", "running"}
        /\ \A k \in 1 .. i - 1 : jobs[j].steps[k] \in {"completed", "running"}

\* The first step that is not completed, or one past the last.
ResumeFrom(j) ==
    CHOOSE i \in 1 .. Len(plan[j].steps) + 1 :
        /\ i > Len(plan[j].steps) \/ jobs[j].steps[i] # "completed"
        /\ \A k \in 1 .. i - 1 : jobs[j].steps[k] = "completed"

\* run: the first of the steps to do, if any.
Run(j) ==
    /\ jobs[j].pc = "idle" /\ Spend("runs")
    /\ LET i == ResumeFrom(j) IN
        jobs' = [jobs EXCEPT ![j].i = i,
                             ![j].pc = IF i > Len(plan[j].steps) THEN "idle" ELSE "ready",
                             ![j].state = IF i > Len(plan[j].steps) THEN "completed" ELSE @]
    /\ UNCHANGED <<plan, disk, pool, launched>>

\* The step is completed and the next begins, or the job is completed.
Succeed(j) ==
    LET i == jobs[j].i
        last == i = Len(plan[j].steps)
    IN jobs' = [jobs EXCEPT ![j].steps[i] = "completed", ![j].op = Idle,
                            ![j].i = IF last THEN i ELSE i + 1,
                            ![j].pc = IF last THEN "idle" ELSE "ready",
                            ![j].state = IF last THEN "completed" ELSE @]

Fail(j) ==
    jobs' = [jobs EXCEPT ![j].steps[jobs[j].i] = "failed", ![j].op = Idle,
                         ![j].pc = "idle", ![j].state = "failed"]

\* The run waits for an operation on the pool.
Issue(j, op) ==
    jobs' = [jobs EXCEPT ![j].steps[jobs[j].i] = "running", ![j].pc = "wait", ![j].op = op]

OnTarget(j, kind, to) == Op(kind, plan[j].name, plan[j].place, to)

\* Steps that wait for the pool at once; a missing file is noticed before the
\* metadata are read.
Verify(j) ==
    /\ At(j, "verify")
    /\ IF Mine(j) = Nothing THEN Fail(j) ELSE Issue(j, OnTarget(j, "look", "work"))
    /\ Free /\ UNCHANGED <<plan, disk, pool, launched>>

Deliver(j) ==
    /\ \E k \in {<<"move", "rename">>, <<"copy", "copy">>, <<"hardlink", "link">>} :
          At(j, k[1]) /\ Issue(j, OnTarget(j, k[2], "dest"))
    /\ Free /\ UNCHANGED <<plan, disk, pool, launched>>

InspectMedia(j) ==
    /\ At(j, "inspect_media") /\ Issue(j, OnTarget(j, "probe", "work"))
    /\ Free /\ UNCHANGED <<plan, disk, pool, launched>>

Flatten(j) ==
    /\ At(j, "flatten") /\ Issue(j, OnTarget(j, "list", "work"))
    /\ Free /\ UNCHANGED <<plan, disk, pool, launched>>

\* The normalized target differs from the target only when it was spelled oddly.
Rename(j) ==
    /\ At(j, "rename")
    /\ CASE plan[j].sane = Unsafe -> Fail(j)
         [] plan[j].sane = plan[j].place -> Succeed(j)
         [] OTHER -> Issue(j, OnTarget(j, "rename", plan[j].sane))
    /\ Free /\ UNCHANGED <<plan, disk, pool, launched>>

\* What fails on a broken file needs no other fault.
Blamed(j) == IF Mine(j) = Broken THEN Free ELSE Spend("faults")

\* extract, one call that is not interrupted: what the archive holds goes to the
\* destination, or only some of it when the extractor fails, a file half.
Extract(j) ==
    LET held == IF Mine(j) \in Files THEN Inside[Mine(j)] ELSE {}
    IN  /\ At(j, "extract")
        /\ \/ /\ plan[j].name \in Archives /\ held # {}
              /\ \/ Placed(held, {}) /\ Succeed(j) /\ Free
                 \/ \E some, torn \in SUBSET held :
                       Cardinality(torn) < 2 /\ Placed(some, torn) /\ Fail(j) /\ Spend("faults")
           \/ /\ plan[j].name \notin Archives \/ held = {}
              /\ Fail(j) /\ Free /\ UNCHANGED <<at, linked>>
        /\ UNCHANGED <<plan, nested, pool, launched>>

\* Mutant: it is enough that the target is an archive.
ExtractSupported(j) == plan[j].name \in Archives

ExtractedBefore(j) ==
    \E k \in 1 .. jobs[j].i - 1 : plan[j].steps[k] = "extract" /\ jobs[j].steps[k] = "completed"

Cleanup(j) ==
    /\ At(j, "cleanup")
    /\ IF ExtractedBefore(j) THEN Issue(j, OnTarget(j, "remove", "work")) ELSE Succeed(j)
    /\ Free /\ UNCHANGED <<plan, disk, pool, launched>>

\* Spawned, not waited for.
RunInstaller(j) ==
    /\ At(j, "run_installer")
    /\ \/ /\ Policy = "allow" /\ Mine(j) # Nothing
          /\ \/ launched' = [launched EXCEPT ![j][jobs[j].i] = @ + 1] /\ Succeed(j) /\ Free
             \/ UNCHANGED launched /\ Fail(j) /\ Blamed(j)
       \/ /\ Policy # "allow" \/ Mine(j) = Nothing
          /\ Fail(j) /\ Free /\ UNCHANGED launched
    /\ UNCHANGED <<plan, disk, pool>>

CustomHook(j) ==
    /\ At(j, "custom_hook") /\ Fail(j)
    /\ Free /\ UNCHANGED <<plan, disk, pool, launched>>

\* Flatten goes on with a child of its listing, or removes the emptied directory.
NextChild(j, left) ==
    \/ \E n \in left :
          jobs' = [jobs EXCEPT ![j].op = Op("rename", n, "sub", "work"), ![j].left = left \ {n}]
    \/ left = {} /\ nested /\ jobs' = [jobs EXCEPT ![j].op = OnTarget(j, "rmdir", "work"), ![j].left = {}]
    \/ left = {} /\ ~nested /\ Succeed(j)

\* Mutant: a failed operation of the pool is passed over.
AnswerRegardless(j) ==
    LET op == jobs[j].op
    IN  /\ jobs[j].pc = "wait" /\ Kind(j) # "flatten"
        /\ IF Possible(op) THEN Effect(op) ELSE UNCHANGED disk
        /\ Succeed(j) /\ Free
        /\ UNCHANGED <<plan, pool, launched>>

\* The pool answers.  A failed probe or removal is passed over; a delivered file
\* may turn out to lie outside the destination (is_within).
Answer(j) ==
    LET op == jobs[j].op
        next == CASE op.kind = "list" -> NextChild(j, {n \in Names : There("sub", n)})
                  [] Kind(j) = "flatten" /\ op.kind = "rename" -> NextChild(j, jobs[j].left)
                  [] OTHER -> Succeed(j)
    IN  /\ jobs[j].pc = "wait"
        /\ \/ Possible(op) /\ Effect(op) /\ next /\ Free
           \/ Possible(op) /\ Damage(op) /\ Spend("faults")
                /\ IF op.kind \in {"probe", "remove"} THEN Succeed(j) ELSE Fail(j)
           \/ Possible(op) /\ op.kind = "look" /\ Mine(j) = Broken /\ Fail(j) /\ Free /\ UNCHANGED disk
           \/ Possible(op) /\ Kind(j) \in Delivering /\ Effect(op) /\ Fail(j) /\ Spend("faults")
           \/ ~Possible(op) /\ Fail(j) /\ Free /\ UNCHANGED disk
        /\ UNCHANGED <<plan, pool, launched>>

\* The run is dropped at an await: the job stays as it is, and so does what the
\* pool was asked to do.
Drop(j) ==
    /\ jobs[j].pc = "wait" /\ Spend("drops")
    /\ jobs' = [jobs EXCEPT ![j].pc = "idle", ![j].op = Idle, ![j].left = {}]
    /\ pool' = Append(pool, [op |-> jobs[j].op, over |-> FALSE])
    /\ UNCHANGED <<plan, disk, launched>>

\* What was left behind happens, fails, or finds nothing to do.
Late(i) ==
    LET op == pool[i].op
    IN  /\ ~pool[i].over
        /\ \/ Possible(op) /\ Effect(op) /\ Free
           \/ Possible(op) /\ Damage(op) /\ Spend("faults")
           \/ ~Possible(op) /\ Free /\ UNCHANGED disk
        /\ pool' = [pool EXCEPT ![i].over = TRUE]
        /\ UNCHANGED <<plan, jobs, launched>>

Step(j) ==
    \/ Verify(j) \/ Extract(j) \/ Flatten(j) \/ Rename(j) \/ InspectMedia(j) \/ Deliver(j)
    \/ Cleanup(j) \/ RunInstaller(j) \/ CustomHook(j) \/ Answer(j)

Next ==
    \/ \E j \in Jobs : Run(j) \/ Step(j) \/ Drop(j)
    \/ \E i \in DOMAIN pool : Late(i)

Spec == Init /\ [][Next]_vars

-----------------------------------------------------------------------------
(* Properties. *)

\* Type invariant.  What lies under a name bears it, the destination's file has no
\* second name where there is none, and a job that runs is at the first of its steps
\* that is not completed.
TypeOK ==
    /\ plan \in [Jobs -> Plans] /\ nested \in BOOLEAN
    /\ at \in [Places -> [Names -> Files \cup {Nothing, Broken}]]
    /\ linked \in [Names -> {"work", "sub", "none"}]
    /\ \A p \in Places, n \in Names : at[p][n] \in Files => NameOf[at[p][n]] = n
    /\ \A n \in Names : linked[n] # "none" => at["dest"][n] = at[linked[n]][n] /\ There("dest", n)
    /\ \A j \in Jobs :
          /\ jobs[j].state \in {"pending", "completed", "failed"} /\ jobs[j].pc \in {"idle", "ready", "wait"}
          /\ DOMAIN jobs[j].steps = Steps(j) /\ \A i \in Steps(j) : jobs[j].steps[i] \in StepState
          /\ jobs[j].pc # "idle" => jobs[j].i = ResumeFrom(j)
    /\ budget \in [{"runs", "drops", "faults"} -> Nat]

\* An installer is launched only where the policy allows it, only when every
\* step before it is completed, and once, however often the job is run again or
\* its runs are dropped (docs/postprocessing.md 153: completed steps are never
\* re-run on retry).
LaunchedOnce ==
    \A j \in Jobs : \A i \in Steps(j) :
        launched[j][i] > 0 =>
            /\ launched[j][i] = 1 /\ Policy = "allow"
            /\ \A k \in 1 .. i : jobs[j].steps[k] = "completed"

\* Two steps of the jobs write a name to the destination, and one of them can break
\* the file for the other: an extraction fails half way, or a copy writes through a
\* hard link into its own source.
Writes(j, i, name) ==
    \/ plan[j].steps[i] \in Delivering /\ plan[j].name = name
    \/ /\ plan[j].steps[i] = "extract"
       /\ \E a \in Files : NameOf[a] = plan[j].name /\ \E f \in Inside[a] : NameOf[f] = name

Contested(name) ==
    \E j, k \in Jobs : \E i \in Steps(j), l \in Steps(k) :
        /\ <<j, i>> # <<k, l>> /\ Writes(j, i, name) /\ Writes(k, l, name)
        /\ \/ plan[j].steps[i] = "extract"
           \/ plan[j].steps[i] = "copy" /\ plan[k].steps[l] = "hardlink"

\* A file of the work directory whose name no other file bears and no two steps contest
\* is never lost, by any other combination of steps, failures, retries, dropped runs
\* and operations that come late, except for an archive: all it held has then been
\* extracted, and what of it no other step writes lies in the destination still
\* (docs/postprocessing.md 84).
Alone(f) == \A g \in Files \ {f} : NameOf[g] # NameOf[f]

Begun(f) == \E p \in {"work", "sub"} : Start[p][NameOf[f]] = f

Lost(f) == \A p \in Places : at[p][NameOf[f]] # f

OnlyExtractedIsLost ==
    \A f \in Files : Begun(f) /\ Alone(f) /\ ~Contested(NameOf[f]) /\ Lost(f) =>
        /\ Inside[f] # {}
        /\ \A g \in Inside[f] : ~Contested(NameOf[g]) => at["dest"][NameOf[g]] = g

\* A completed job that moves, copies or links its target has left a file of that
\* name in the destination, and a whole one, whatever its other steps, its retries
\* and the other jobs did to the directory.  It can be broken afterwards in three
\* ways only: steps contest the name, another job copies it again, or a copy that a
\* dropped run left behind came late.
CompletedIsDelivered ==
    \A j \in Jobs :
        LET n == plan[j].name IN
        jobs[j].state = "completed" /\ (\E i \in Steps(j) : plan[j].steps[i] \in Delivering) =>
            /\ There("dest", n)
            /\ at["dest"][n] = Broken =>
                  \/ Contested(n)
                  \/ \E k \in Jobs \ {j} : plan[k].name = n /\ \E i \in Steps(k) : plan[k].steps[i] = "copy"
                  \/ \E i \in DOMAIN pool : pool[i].over /\ pool[i].op.kind = "copy" /\ pool[i].op.name = n
=============================================================================

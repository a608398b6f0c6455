--------------------------- MODULE StepPipelineProofs ---------------------------
(***************************************************************************)
(* For any jobs, plans, files and bounds: an installer is launched once    *)
(* and in its turn, a completed job has delivered its target, and only an  *)
(* archive that has been extracted is lost, unless steps contest a name.   *)
(***************************************************************************)
EXTENDS StepPipeline, FiniteSetTheorems, SequenceTheorems, TLAPS

USE DEF Steps

OpKind == {"look", "rename", "copy", "link", "probe", "list", "remove", "rmdir"}

Operation ==
    {op \in [kind : OpKind, name : Names, from : {"work", "sub"}, to : Places] :
        /\ op.kind = "rename" => op.from # op.to
        /\ op.kind \in {"copy", "link"} => op.to = "dest"}

Doing == Operation \cup {Idle}

Job == [state : {"pending", "completed", "failed"}, i : Nat, pc : {"idle", "ready", "wait"},
        op : Doing, left : SUBSET Names,
        steps : UNION {[DOMAIN p.steps -> StepState] : p \in Plans}]

Launches ==
    /\ launched \in [Jobs -> UNION {[DOMAIN p.steps -> Nat] : p \in Plans}]
    /\ \A j \in Jobs : launched[j] \in [Steps(j) -> Nat]

Slots ==
    /\ at \in [Places -> [Names -> Files \cup {Nothing, Broken}]]
    /\ linked \in [Names -> {"work", "sub", "none"}]

\* The two names of a file hold the same.
Linkage(n) == linked[n] # "none" => at["dest"][n] = at[linked[n]][n] /\ There("dest", n)

Disk == Slots /\ \A n \in Names : Linkage(n)

Pool == pool \in Seq([op : Operation, over : BOOLEAN])

Types ==
    /\ plan \in [Jobs -> Plans] /\ jobs \in [Jobs -> Job] /\ Disk
    /\ \A j \in Jobs : jobs[j].steps \in [Steps(j) -> StepState]
    /\ Launches /\ Pool

\* Exactly the steps before i are completed.
DoneTo(j, i) == \A k \in Steps(j) : jobs[j].steps[k] = "completed" <=> k < i

\* The completed steps come first, and a run is at the step that follows them.
InOrder ==
    \A j \in Jobs :
        /\ \E i \in 1 .. Len(plan[j].steps) + 1 : DoneTo(j, i)
        /\ jobs[j].pc # "idle" => jobs[j].i \in Steps(j) /\ DoneTo(j, jobs[j].i)
        /\ jobs[j].state = "completed" => DoneTo(j, Len(plan[j].steps) + 1)

\* What a run waits for suits its step: only a copy step copies, and a delivering
\* step delivers its target.
Suits(j, kind, op) ==
    /\ op \in Operation
    /\ op.kind = "copy" <=> kind = "copy"
    /\ kind \in Delivering =>
          op.kind \in {"rename", "copy", "link"} /\ op.name = plan[j].name /\ op.to = "dest"

Waiting == \A j \in Jobs : jobs[j].pc = "wait" => Suits(j, Kind(j), jobs[j].op)

Delivered(name) == name \in Names /\ There("dest", name)

\* What a completed step has delivered stays.
DeliveredStays ==
    \A j \in Jobs : \A i \in Steps(j) :
        plan[j].steps[i] \in Delivering /\ jobs[j].steps[i] = "completed" => Delivered(plan[j].name)

\* A step that is completed stays so.
StaysDone == \A j \in Jobs : \A k \in Steps(j) : jobs[j].steps[k] = "completed" => jobs'[j].steps[k] = "completed"

\* No step is completed, or only the one a job is at.
NoneDone == \A j \in Jobs : \A k \in Steps(j) : jobs'[j].steps[k] = "completed" => jobs[j].steps[k] = "completed"

OneDone(j) ==
    \A other \in Jobs : \A k \in Steps(other) :
        jobs'[other].steps[k] = "completed" => jobs[other].steps[k] = "completed" \/ (other = j /\ k = jobs[j].i)

\* What the lemmas about jobs need to know of the rest.
Around == UNCHANGED plan /\ Launches' /\ Disk' /\ Pool'

JobsInv == Types /\ InOrder /\ Waiting

IInv == JobsInv /\ LaunchedOnce /\ DeliveredStays

-----------------------------------------------------------------------------
(* What operations do to what lies under a name. *)

\* Nothing changes under a name.
Same(n) == linked'[n] = linked[n] /\ \A p \in Places : at'[p][n] = at[p][n]

\* A file is renamed, written into the destination, linked to it, or removed.
Renamed(op) ==
    LET n == op.name IN
    /\ op.kind = "rename" /\ There(op.from, n) /\ ~(op.to = "dest" /\ linked[n] = op.from)
    /\ at'[op.to][n] = at[op.from][n] /\ at'[op.from][n] = Nothing
    /\ \A p \in Places \ {op.from, op.to} : at'[p][n] = at[p][n]
    /\ linked'[n] = CASE op.to = "dest" -> "none" [] linked[n] = op.from -> op.to
                      [] linked[n] = op.to -> "none" [] OTHER -> linked[n]

Copied(op) ==
    LET n == op.name IN
    /\ op.kind = "copy" /\ There(op.from, n) /\ linked'[n] = linked[n]
    /\ \E content \in {at[op.from][n], Broken} :
          /\ linked[n] = op.from => content = Broken
          /\ Effect(op) => content = at[op.from][n] \/ linked[n] = op.from
          /\ \A p \in Places : at'[p][n] = IF p \in {"dest", linked[n]} THEN content ELSE at[p][n]

Linked(op) ==
    LET n == op.name IN
    /\ op.kind = "link" /\ There(op.from, n) /\ linked'[n] = op.from
    /\ at'["dest"][n] = at[op.from][n]
    /\ \A p \in {"work", "sub"} : at'[p][n] = at[p][n]

Removed(op) ==
    LET n == op.name IN
    /\ op.kind = "remove" /\ at'[op.from][n] = Nothing
    /\ \A p \in Places \ {op.from} : at'[p][n] = at[p][n]
    /\ linked'[n] = IF linked[n] = op.from THEN "none" ELSE linked[n]

LEMMA PlanSteps ==
    ASSUME Types, NEW j \in Jobs
    PROVE  /\ plan[j] \in Plans /\ plan[j].steps \in Seq(StepKind) /\ Len(plan[j].steps) \in Nat
           /\ Steps(j) = 1 .. Len(plan[j].steps)
           /\ \A i \in Steps(j) : plan[j].steps[i] \in StepKind
           /\ plan[j].name \in Names /\ plan[j].place \in {"work", "sub"} /\ plan[j].sane \in {"work", "sub", Unsafe}
<1>1. /\ plan[j] \in Plans /\ plan[j].steps \in Seq(StepKind) /\ plan[j].name \in Names
      /\ plan[j].place \in {"work", "sub"} /\ plan[j].sane \in {"work", "sub", Unsafe}
  BY PipelineAssumption DEF Types, Names
<1>2. Len(plan[j].steps) \in Nat /\ DOMAIN plan[j].steps = 1 .. Len(plan[j].steps)
  BY <1>1, LenProperties
<1>3. \A i \in DOMAIN plan[j].steps : plan[j].steps[i] \in StepKind
  BY <1>1, <1>2, ElementOfSeq
<1> QED BY <1>1, <1>2, <1>3

\* A rename of a file, but for one between two names of it.
LEMMA RenameSlots ==
    ASSUME Slots, NEW op \in Operation, op.kind = "rename", Possible(op), Effect(op)
    PROVE  /\ Slots' /\ \A n \in Names \ {op.name} : Same(n)
           /\ Renamed(op) \/ (op.to = "dest" /\ linked[op.name] = op.from /\ Same(op.name))
<1>1. op.from # op.to /\ op.from \in Places /\ op.from \in {"work", "sub"} /\ op.to \in Places /\ op.name \in Names
  BY DEF Operation, Places
<1>2. There(op.from, op.name)
  BY DEF Possible
<1>3. CASE op.to = "dest" /\ linked[op.name] = op.from
  BY <1>3 DEF Effect, Moved, Same, Slots
<1>4. CASE ~(op.to = "dest" /\ linked[op.name] = op.from)
  <2>1. /\ at' = [at EXCEPT ![op.to][op.name] = at[op.from][op.name], ![op.from][op.name] = Nothing]
        /\ linked' = [linked EXCEPT ![op.name] =
                         CASE op.to = "dest" -> "none" [] linked[op.name] = op.from -> op.to
                           [] linked[op.name] = op.to -> "none" [] OTHER -> linked[op.name]]
    BY <1>4 DEF Effect, Moved, Relink
  <2>2. at[op.from][op.name] \in Files \cup {Nothing, Broken}
    BY <1>1 DEF Slots
  <2>3. \A p \in Places, n \in Names :
            at'[p][n] = IF n = op.name /\ p = op.from THEN Nothing
                        ELSE IF n = op.name /\ p = op.to THEN at[op.from][op.name] ELSE at[p][n]
    BY <1>1, <2>1, <2>2 DEF Slots
  <2>4. \A n \in Names :
            linked'[n] = IF n = op.name
                         THEN CASE op.to = "dest" -> "none" [] linked[op.name] = op.from -> op.to
                                [] linked[op.name] = op.to -> "none" [] OTHER -> linked[op.name]
                         ELSE linked[n]
    BY <1>1, <2>1 DEF Slots
  <2>5. at' \in [Places -> [Names -> Files \cup {Nothing, Broken}]]
    BY <1>1, <2>1, <2>2 DEF Slots
  <2>6. linked' \in [Names -> {"work", "sub", "none"}]
    <3>1. op.to = "dest" \/ op.to \in {"work", "sub"}
      BY <1>1 DEF Places
    <3>2. linked[op.name] \in {"work", "sub", "none"}
      BY <1>1 DEF Slots
    <3>3. (CASE op.to = "dest" -> "none" [] linked[op.name] = op.from -> op.to
             [] linked[op.name] = op.to -> "none" [] OTHER -> linked[op.name]) \in {"work", "sub", "none"}
      <4>1. CASE op.to = "dest"
        BY <1>4, <3>2, <4>1
      <4>2. CASE op.to # "dest" /\ linked[op.name] = op.from
        BY <3>1, <4>2
      <4>3. CASE op.to # "dest" /\ linked[op.name] # op.from
        BY <3>2, <4>3
      <4> QED BY <4>1, <4>2, <4>3
    <3> QED BY <1>1, <2>1, <3>3 DEF Slots
  <2>7. \A n \in Names \ {op.name} : Same(n)
    BY <2>3, <2>4 DEF Same
  <2>8. Renamed(op)
    BY <1>1, <1>2, <1>4, <2>3, <2>4 DEF Renamed
  <2> QED BY <2>5, <2>6, <2>7, <2>8 DEF Slots
<1> QED BY <1>3, <1>4

LEMMA WrittenSlots ==
    ASSUME Slots, NEW name \in Names, NEW content \in Files \cup {Nothing, Broken},
           at' = Written(name, content), UNCHANGED linked
    PROVE  /\ Slots' /\ \A n \in Names \ {name} : Same(n)
           /\ \A p \in Places : at'[p][name] = IF p \in {"dest", linked[name]} THEN content ELSE at[p][name]
<1>1. \A p \in Places, n \in Names :
          at'[p][n] = IF n = name /\ p \in {"dest", linked[name]} THEN content ELSE at[p][n]
  BY DEF Slots, Written
<1>2. at' \in [Places -> [Names -> Files \cup {Nothing, Broken}]]
  BY DEF Slots, Written
<1> QED BY <1>1, <1>2 DEF Slots, Same

LEMMA CopySlots ==
    ASSUME Slots, NEW op \in Operation, op.kind = "copy", Possible(op), Effect(op) \/ Damage(op)
    PROVE  /\ Slots' /\ \A n \in Names \ {op.name} : Same(n)
           /\ Same(op.name) \/ Copied(op)
           /\ Effect(op) => Copied(op)
<1>1. /\ op.from \in Places /\ op.name \in Names /\ There(op.from, op.name)
      /\ at[op.from][op.name] \in Files \cup {Nothing, Broken}
  BY DEF Operation, Places, Possible, Slots
<1> DEFINE content == IF linked[op.name] = op.from THEN Broken ELSE at[op.from][op.name]
<1>2. CASE Effect(op)
  <2>1. at' = Written(op.name, content) /\ UNCHANGED linked
    BY <1>2 DEF Effect
  <2>2. content \in Files \cup {Nothing, Broken} /\ content \in {at[op.from][op.name], Broken}
        /\ (linked[op.name] = op.from => content = Broken)
        /\ (content = at[op.from][op.name] \/ linked[op.name] = op.from)
    BY <1>1
  <2> HIDE DEF content
  <2>3. /\ Slots' /\ \A n \in Names \ {op.name} : Same(n)
        /\ \A p \in Places : at'[p][op.name] = IF p \in {"dest", linked[op.name]} THEN content ELSE at[p][op.name]
    BY <1>1, <2>1, <2>2, WrittenSlots
  <2>4. Copied(op)
    BY <1>1, <2>1, <2>2, <2>3 DEF Copied
  <2> QED BY <2>3, <2>4
<1>3. CASE ~Effect(op) /\ Damage(op)
  <2>1. UNCHANGED linked /\ (UNCHANGED at \/ at' = Written(op.name, Broken))
    BY <1>3 DEF Damage
  <2>2. CASE UNCHANGED at
    BY <1>3, <2>1, <2>2 DEF Slots, Same
  <2>3. CASE at' = Written(op.name, Broken)
    <3>1. /\ Slots' /\ \A n \in Names \ {op.name} : Same(n)
          /\ \A p \in Places : at'[p][op.name] = IF p \in {"dest", linked[op.name]} THEN Broken ELSE at[p][op.name]
      BY <1>1, <2>1, <2>3, WrittenSlots
    <3> QED BY <1>1, <1>3, <2>1, <3>1 DEF Copied
  <2> QED BY <2>1, <2>2, <2>3
<1> QED BY <1>2, <1>3

LEMMA OtherSlots ==
    ASSUME Slots, NEW op \in Operation, op.kind \notin {"rename", "copy"}, Possible(op), Effect(op) \/ Damage(op)
    PROVE  /\ Slots' /\ \A n \in Names \ {op.name} : Same(n)
           /\ Same(op.name) \/ Linked(op) \/ Removed(op)
           /\ Effect(op) /\ op.kind = "link" => Linked(op)
<1>1. /\ op.from \in Places /\ op.from \in {"work", "sub"} /\ op.name \in Names
      /\ at[op.from][op.name] \in Files \cup {Nothing, Broken} /\ "dest" \in Places /\ "dest" \notin {"work", "sub"}
      /\ {"work", "sub"} \subseteq Places
  BY DEF Operation, Places, Slots
<1>2. CASE Effect(op) /\ op.kind = "link"
  <2>1. at' = [at EXCEPT !["dest"][op.name] = at[op.from][op.name]] /\ linked' = [linked EXCEPT ![op.name] = op.from]
    BY <1>2 DEF Effect, Relink
  <2>2. There(op.from, op.name)
    BY <1>2 DEF Possible
  <2>3. Slots'
    BY <1>1, <2>1 DEF Slots
  <2>4. \A n \in Names \ {op.name} : Same(n)
    BY <1>1, <2>1 DEF Slots, Same
  <2>5. Linked(op)
    BY <1>1, <1>2, <2>1, <2>2 DEF Slots, Linked
  <2> QED BY <2>3, <2>4, <2>5
<1>3. CASE Effect(op) /\ op.kind = "remove"
  <2>1. /\ at' = [at EXCEPT ![op.from][op.name] = Nothing]
        /\ linked' = [linked EXCEPT ![op.name] = IF linked[op.name] = op.from THEN "none" ELSE linked[op.name]]
    BY <1>3 DEF Effect, Relink
  <2>2. Slots'
    BY <1>1, <2>1 DEF Slots
  <2>3. \A n \in Names \ {op.name} : Same(n)
    BY <1>1, <2>1 DEF Slots, Same
  <2>4. Removed(op)
    BY <1>1, <1>3, <2>1 DEF Slots, Removed
  <2> QED BY <1>3, <2>2, <2>3, <2>4
<1>4. CASE ~(Effect(op) /\ op.kind \in {"link", "remove"})
  <2>1. UNCHANGED <<at, linked>>
    BY <1>4 DEF Effect, Damage
  <2> QED BY <1>4, <2>1 DEF Slots, Same
<1> QED BY <1>2, <1>3, <1>4

\* All of them.
LEMMA OpSlots ==
    ASSUME Slots, NEW op \in Operation, Possible(op), Effect(op) \/ Damage(op)
    PROVE  /\ Slots' /\ \A n \in Names \ {op.name} : Same(n)
           /\ Same(op.name) \/ Renamed(op) \/ Copied(op) \/ Linked(op) \/ Removed(op)
           /\ Effect(op) =>
                 /\ op.kind = "rename" =>
                       Renamed(op) \/ (op.to = "dest" /\ linked[op.name] = op.from /\ Same(op.name))
                 /\ op.kind = "copy" => Copied(op)
                 /\ op.kind = "link" => Linked(op)
<1>1. CASE op.kind = "rename" /\ Effect(op)
  BY <1>1, RenameSlots
<1>2. CASE op.kind = "rename" /\ ~Effect(op)
  <2>1. UNCHANGED <<at, linked>>
    BY <1>2 DEF Damage
  <2> QED BY <1>2, <2>1 DEF Slots, Same
<1>3. CASE op.kind = "copy"
  BY <1>3, CopySlots
<1>4. CASE op.kind \notin {"rename", "copy"}
  BY <1>4, OtherSlots
<1> QED BY <1>1, <1>2, <1>3, <1>4

\* A name is filled by an extraction, with a whole file or a broken one, or is not.
Filling(n, files, torn) ==
    \/ Same(n) /\ ~\E f \in files \cup torn : NameOf[f] = n
    \/ /\ linked'[n] = "none" /\ \E f \in files : NameOf[f] = n
       /\ at'["dest"][n] \in files /\ NameOf[at'["dest"][n]] = n
    \/ /\ linked'[n] = "none" /\ ~\E f \in files : NameOf[f] = n
       /\ at'["dest"][n] = Broken /\ \E f \in torn : NameOf[f] = n

\* Extraction touches the destination's files of the names it writes.
LEMMA PlacedSlots ==
    ASSUME Slots, NEW files \in SUBSET Files, NEW torn \in SUBSET Files, Placed(files, torn)
    PROVE  /\ Slots'
           /\ \A p \in {"work", "sub"}, n \in Names : at'[p][n] = at[p][n]
           /\ \A n \in Names : Filling(n, files, torn)
<1> DEFINE new(n) == IF \E f \in files : NameOf[f] = n THEN CHOOSE f \in files : NameOf[f] = n
                     ELSE IF \E f \in torn : NameOf[f] = n THEN Broken ELSE at["dest"][n]
<1>1. at' = [at EXCEPT !["dest"] = [n \in Names |-> new(n)]]
  BY DEF Placed
<1>2. \A n \in Names :
         /\ (\E f \in files : NameOf[f] = n) => new(n) \in files /\ NameOf[new(n)] = n
         /\ ~(\E f \in files : NameOf[f] = n) =>
               new(n) = IF \E f \in torn : NameOf[f] = n THEN Broken ELSE at["dest"][n]
  OBVIOUS
<1>3. \A n \in Names : new(n) \in Files \cup {Nothing, Broken}
  BY <1>2 DEF Slots, Places
<1> HIDE DEF new
<1>4. /\ "dest" \in Places /\ {"work", "sub"} \subseteq Places /\ Places = {"work", "sub", "dest"}
      /\ at'["dest"] = [n \in Names |-> new(n)]
      /\ at'["work"] = at["work"] /\ at'["sub"] = at["sub"]
  BY <1>1 DEF Slots, Places
<1>5. at' \in [Places -> [Names -> Files \cup {Nothing, Broken}]]
  BY <1>1, <1>3, <1>4 DEF Slots
<1>6. /\ linked' \in [Names -> {"work", "sub", "none"}]
      /\ \A n \in Names : linked'[n] = IF \E f \in files \cup torn : NameOf[f] = n THEN "none" ELSE linked[n]
  BY DEF Placed, Slots
<1>7. \A p \in {"work", "sub"}, n \in Names : at'[p][n] = at[p][n]
  BY <1>4
<1>8. ASSUME NEW n \in Names
      PROVE  Filling(n, files, torn)
  <2>1. at'["dest"][n] = new(n)
    BY <1>4
  <2>2. CASE \E f \in files : NameOf[f] = n
    BY <1>2, <1>6, <2>1, <2>2 DEF Filling
  <2>3. CASE (~\E f \in files : NameOf[f] = n) /\ \E f \in torn : NameOf[f] = n
    BY <1>2, <1>6, <2>1, <2>3 DEF Filling
  <2>4. CASE ~\E f \in files \cup torn : NameOf[f] = n
    BY <1>2, <1>4, <1>6, <1>7, <2>1, <2>4 DEF Same, Filling
  <2> QED BY <2>2, <2>3, <2>4
<1> QED BY <1>5, <1>6, <1>7, <1>8 DEF Slots

\* The names of a file stay together.
LEMMA OpDisk ==
    ASSUME Disk, NEW op \in Operation, Possible(op), Effect(op) \/ Damage(op)
    PROVE  Disk'
<1>1. /\ Slots' /\ \A n \in Names \ {op.name} : Same(n)
      /\ Same(op.name) \/ Renamed(op) \/ Copied(op) \/ Linked(op) \/ Removed(op)
  BY OpSlots DEF Disk
<1>2. /\ Slots /\ Linkage(op.name) /\ op.name \in Names /\ op.from \in {"work", "sub"} /\ op.from \in Places
      /\ "dest" \in Places /\ op.to \in Places /\ Places = {"work", "sub", "dest"}
      /\ linked[op.name] \in {"work", "sub", "none"}
  BY DEF Disk, Slots, Operation, Places
<1>3. ASSUME NEW n \in Names, Same(n) PROVE Linkage(n)'
  BY <1>2, <1>3 DEF Same, Linkage, Disk, There, Slots
<1>4. ASSUME linked'[op.name] # "none", ~Same(op.name)
      PROVE  at'["dest"][op.name] = at'[linked'[op.name]][op.name] /\ at'["dest"][op.name] # Nothing
  <2> PICK l : l = linked[op.name]
    OBVIOUS
  <2>0. l \in {"work", "sub", "none"} /\ (l # "none" => at["dest"][op.name] = at[l][op.name] /\ at["dest"][op.name] # Nothing)
    BY <1>2 DEF Linkage, There
  <2>1. CASE Renamed(op)
    <3>1. op.from # op.to
      BY <2>1 DEF Renamed, Operation
    <3>2. op.to # "dest" /\ op.to \in {"work", "sub"}
      BY <1>2, <1>4, <2>1 DEF Renamed
    <3>3. l = op.from \/ l = op.to \/ l = "none"
      BY <1>2, <2>0, <3>1, <3>2
    <3>4. l = op.from /\ linked'[op.name] = op.to
      BY <1>4, <2>1, <3>1, <3>2, <3>3 DEF Renamed
    <3>5. at'["dest"][op.name] = at["dest"][op.name] /\ at'[op.to][op.name] = at[op.from][op.name]
      BY <1>2, <2>1, <3>2 DEF Renamed
    <3> QED BY <1>2, <2>0, <3>4, <3>5
  <2>2. CASE Copied(op)
    <3>1. PICK content \in {at[op.from][op.name], Broken} :
              \A p \in Places : at'[p][op.name] = IF p \in {"dest", l} THEN content ELSE at[p][op.name]
      BY <2>2 DEF Copied
    <3>2. content # Nothing /\ linked'[op.name] = l
      BY <2>2, <3>1, PipelineAssumption DEF Copied, There
    <3>3. l \in Places
      BY <1>2, <1>4, <2>0, <3>2
    <3>4. at'["dest"][op.name] = content /\ at'[l][op.name] = content
      BY <1>2, <3>1, <3>3
    <3> QED BY <3>2, <3>4
  <2>3. CASE Linked(op)
    <3>1. linked'[op.name] = op.from /\ at'[op.from][op.name] = at[op.from][op.name] /\ There(op.from, op.name)
          /\ at'["dest"][op.name] = at[op.from][op.name]
      BY <1>2, <2>3 DEF Linked
    <3> QED BY <3>1 DEF There
  <2>4. CASE Removed(op)
    <3>1. l # op.from /\ l \in {"work", "sub"} /\ linked'[op.name] = l
      BY <1>4, <2>0, <2>4 DEF Removed
    <3>2. at'["dest"][op.name] = at["dest"][op.name] /\ at'[l][op.name] = at[l][op.name]
      BY <1>2, <2>4, <3>1 DEF Removed
    <3> QED BY <2>0, <3>1, <3>2
  <2> QED BY <1>1, <1>4, <2>1, <2>2, <2>3, <2>4
<1>5. Linkage(op.name)'
  BY <1>2, <1>3, <1>4 DEF Linkage, There
<1> QED BY <1>1, <1>3, <1>5 DEF Disk

LEMMA PlacedDisk ==
    ASSUME Disk, NEW files \in SUBSET Files, NEW torn \in SUBSET Files, Placed(files, torn)
    PROVE  Disk'
<1>1. /\ Slots'
      /\ \A n \in Names : Same(n) \/ linked'[n] = "none"
  BY PlacedSlots DEF Disk, Filling
<1>2. ASSUME NEW n \in Names PROVE Linkage(n)'
  <2>1. Linkage(n) /\ linked[n] \in {"work", "sub", "none"} /\ {"work", "sub", "dest"} \subseteq Places
    BY DEF Disk, Slots, Places
  <2> QED BY <1>1, <2>1 DEF Same, Linkage, There
<1> QED BY <1>1, <1>2 DEF Disk

\* The destination never loses a name.
LEMMA EffectKeeps ==
    ASSUME Disk, NEW op \in Operation, Possible(op), Effect(op) \/ Damage(op)
    PROVE  Disk' /\ \A n : Delivered(n) => Delivered(n)'
<1>1. /\ Slots' /\ \A n \in Names \ {op.name} : Same(n)
      /\ Same(op.name) \/ Renamed(op) \/ Copied(op) \/ Linked(op) \/ Removed(op)
  BY OpSlots DEF Disk
<1>2. "dest" \in Places /\ op.from # "dest" /\ op.to \in Places
  BY DEF Places, Operation
<1>3. \A n \in Names : Same(n) => at'["dest"][n] = at["dest"][n]
  BY <1>2 DEF Same
<1>4. CASE Copied(op)
  <2>1. PICK content \in {at[op.from][op.name], Broken} : at'["dest"][op.name] = content
    BY <1>2, <1>4 DEF Copied
  <2> QED BY <1>1, <1>3, <1>4, <2>1, OpDisk, PipelineAssumption DEF Copied, There, Delivered
<1>5. CASE Renamed(op) \/ Linked(op) \/ Removed(op)
  BY <1>1, <1>2, <1>3, <1>5, OpDisk DEF Renamed, Linked, Removed, There, Delivered
<1> QED BY <1>1, <1>3, <1>4, <1>5, OpDisk DEF There, Delivered

\* A delivering operation leaves a file of its own.
LEMMA EffectDelivers ==
    ASSUME Disk, NEW op \in Operation, Possible(op), Effect(op),
           op.kind \in {"rename", "copy", "link"}, op.to = "dest"
    PROVE  Delivered(op.name)'
<1>1. /\ op.name \in Names /\ "dest" \in Places /\ There(op.from, op.name) /\ Slots /\ Linkage(op.name)
      /\ op.from # "none" /\ op.from # "dest"
  BY DEF Operation, Places, Possible, Disk
<1>2. Renamed(op) \/ (linked[op.name] = op.from /\ Same(op.name)) \/ Copied(op) \/ Linked(op)
  BY <1>1, OpSlots
<1>3. CASE Copied(op)
  <2>1. PICK content \in {at[op.from][op.name], Broken} : at'["dest"][op.name] = content
    BY <1>1, <1>3 DEF Copied
  <2> QED BY <1>1, <2>1, PipelineAssumption DEF There, Delivered
<1>4. CASE linked[op.name] = op.from /\ Same(op.name)
  BY <1>1, <1>4 DEF Same, Linkage, There, Delivered
<1>5. CASE Renamed(op) \/ Linked(op)
  BY <1>1, <1>5 DEF Renamed, Linked, There, Delivered
<1> QED BY <1>2, <1>3, <1>4, <1>5

\* Extraction takes nothing from the destination either.
LEMMA PlacedKeeps ==
    ASSUME Disk, NEW files \in SUBSET Files, NEW torn \in SUBSET Files, Placed(files, torn)
    PROVE  Disk' /\ \A n : Delivered(n) => Delivered(n)'
<1>1. ASSUME NEW n \in Names, There("dest", n) PROVE There("dest", n)'
  <2>1. Same(n) \/ at'["dest"][n] \in files \/ at'["dest"][n] = Broken
    BY PlacedSlots DEF Disk, Filling
  <2>2. "dest" \in Places
    BY DEF Places
  <2> QED BY <1>1, <2>1, <2>2, PipelineAssumption DEF Same, There
<1> QED BY <1>1, PlacedDisk DEF Delivered

-----------------------------------------------------------------------------
(* Jobs. *)

LEMMA Idling == Idle \in Doing /\ Idle.kind = "none" /\ Operation \subseteq Doing
BY DEF Idle, Doing

LEMMA Aiming ==
    ASSUME Types, NEW j \in Jobs, NEW kind \in OpKind, NEW to \in Places,
           kind = "rename" => to # plan[j].place, kind \in {"copy", "link"} => to = "dest"
    PROVE  /\ OnTarget(j, kind, to) \in Operation /\ OnTarget(j, kind, to).kind = kind
           /\ OnTarget(j, kind, to).name = plan[j].name /\ OnTarget(j, kind, to).to = to
           /\ OnTarget(j, kind, to).from = plan[j].place
BY PlanSteps DEF OnTarget, Op, Operation

LEMMA InitJobs == Init => JobsInv /\ LaunchedOnce /\ DeliveredStays
<1> SUFFICES ASSUME Init PROVE JobsInv /\ LaunchedOnce /\ DeliveredStays
  OBVIOUS
<1>1. Types
  <2>1. plan \in [Jobs -> Plans] /\ Disk
    BY PipelineAssumption DEF Init, Disk, Slots, Linkage
  <2>2. \A j \in Jobs : jobs[j].steps \in [Steps(j) -> StepState] /\ jobs[j] \in Job
    BY <2>1, Idling DEF Init, Job, StepState
  <2>3. Launches
    BY <2>1 DEF Init, Launches
  <2>4. Pool
    BY EmptySeq DEF Init, Pool
  <2> QED BY <2>1, <2>2, <2>3, <2>4 DEF Types, Init
<1>2. \A j \in Jobs : /\ jobs[j].pc = "idle" /\ jobs[j].state = "pending"
                      /\ \A k \in Steps(j) : jobs[j].steps[k] = "pending" /\ launched[j][k] = 0
  BY DEF Init
<1>3. InOrder
  <2> SUFFICES ASSUME NEW j \in Jobs PROVE 1 \in 1 .. Len(plan[j].steps) + 1 /\ DoneTo(j, 1)
    BY <1>2 DEF InOrder
  <2> QED BY <1>1, <1>2, PlanSteps DEF DoneTo
<1>4. Waiting /\ LaunchedOnce /\ DeliveredStays
  BY <1>1, <1>2 DEF Waiting, LaunchedOnce, DeliveredStays
<1> QED BY <1>1, <1>3, <1>4 DEF JobsInv

\* The job at a step.
LEMMA AtStep ==
    ASSUME JobsInv, NEW j \in Jobs, jobs[j].pc # "idle"
    PROVE  /\ jobs[j] \in Job /\ jobs[j].i \in Steps(j) /\ DoneTo(j, jobs[j].i)
           /\ jobs[j].i \in 1 .. Len(plan[j].steps) /\ jobs[j].steps[jobs[j].i] # "completed"
           /\ jobs[j].state # "completed" /\ Kind(j) \in StepKind
<1>1. /\ Types /\ jobs[j] \in Job /\ jobs[j].i \in Steps(j) /\ DoneTo(j, jobs[j].i)
  BY DEF JobsInv, Types, InOrder
<1>2. jobs[j].i \in 1 .. Len(plan[j].steps) /\ Len(plan[j].steps) \in Nat /\ Kind(j) \in StepKind
  BY <1>1, PlanSteps DEF Kind
<1>3. jobs[j].steps[jobs[j].i] # "completed"
  BY <1>1, <1>2 DEF DoneTo
<1>4. jobs[j].state # "completed"
  BY <1>1, <1>2, <1>3 DEF JobsInv, InOrder, DoneTo
<1> QED BY <1>1, <1>2, <1>3, <1>4

\* One job changes.
LEMMA OneChanges ==
    ASSUME JobsInv, NEW j \in Jobs, NEW r \in Job, jobs' = [jobs EXCEPT ![j] = r], Around,
           r.steps \in [Steps(j) -> StepState],
           NEW n \in 1 .. Len(plan[j].steps) + 1, \A k \in Steps(j) : r.steps[k] = "completed" <=> k < n,
           \A k \in Steps(j) : jobs[j].steps[k] = "completed" => k < n,
           r.pc # "idle" => r.i = n /\ n \in Steps(j),
           r.state = "completed" => n = Len(plan[j].steps) + 1,
           r.pc = "wait" => Suits(j, plan[j].steps[n], r.op)
    PROVE  JobsInv' /\ StaysDone /\ jobs'[j] = r /\ \A k \in Jobs \ {j} : jobs'[k] = jobs[k]
<1>1. Types /\ InOrder /\ Waiting /\ UNCHANGED plan
  BY DEF JobsInv, Around
<1>2. jobs'[j] = r /\ \A k \in Jobs \ {j} : jobs'[k] = jobs[k]
  BY <1>1 DEF Types
<1>3. Types'
  BY <1>1, <1>2 DEF Types, Around
<1>4. InOrder'
  <2>1. \A k \in Jobs \ {j} : \A m : DoneTo(k, m)' <=> DoneTo(k, m)
    BY <1>1, <1>2 DEF DoneTo
  <2>2. DoneTo(j, n)'
    BY <1>1, <1>2 DEF DoneTo
  <2> QED BY <1>1, <1>2, <2>1, <2>2 DEF InOrder
<1>5. Waiting'
  <2>1. \A k \in Jobs \ {j} : jobs'[k] = jobs[k] /\ Kind(k)' = Kind(k)
    BY <1>1, <1>2 DEF Kind
  <2>2. r.pc = "wait" => Kind(j)' = plan[j].steps[n]
    BY <1>1, <1>2 DEF Kind
  <2> QED BY <1>1, <1>2, <2>1, <2>2 DEF Waiting, Suits
<1>6. StaysDone
  BY <1>2 DEF StaysDone
<1> QED BY <1>2, <1>3, <1>4, <1>5, <1>6 DEF JobsInv

LEMMA Succeeding ==
    ASSUME JobsInv, NEW j \in Jobs, jobs[j].pc # "idle", Succeed(j), Around
    PROVE  /\ JobsInv' /\ StaysDone /\ jobs'[j].steps[jobs[j].i] = "completed"
           /\ OneDone(j)
<1> DEFINE i == jobs[j].i
           last == i = Len(plan[j].steps)
           steps == [jobs[j].steps EXCEPT ![i] = "completed"]
           next == IF last THEN i ELSE i + 1
           pc == IF last THEN "idle" ELSE "ready"
           state == IF last THEN "completed" ELSE jobs[j].state
           r == [jobs[j] EXCEPT !.steps = steps, !.op = Idle, !.i = next, !.pc = pc, !.state = state]
<1>1. /\ jobs[j] \in Job /\ i \in Steps(j) /\ DoneTo(j, i) /\ i \in 1 .. Len(plan[j].steps)
      /\ Len(plan[j].steps) \in Nat /\ Steps(j) = 1 .. Len(plan[j].steps) /\ jobs[j].state # "completed"
      /\ plan[j] \in Plans
      /\ jobs[j].steps \in [Steps(j) -> StepState] /\ jobs \in [Jobs -> Job]
  BY AtStep, PlanSteps DEF JobsInv, Types
<1>2. jobs' = [jobs EXCEPT ![j] = r]
  BY <1>1 DEF Succeed
<1>3. /\ r.steps = [jobs[j].steps EXCEPT ![i] = "completed"]
      /\ r.op = Idle /\ r.i = (IF last THEN i ELSE i + 1) /\ r.pc = (IF last THEN "idle" ELSE "ready")
      /\ r.state = (IF last THEN "completed" ELSE jobs[j].state)
      /\ r.left = jobs[j].left
  BY <1>1 DEF Job
<1>4. r.steps \in [Steps(j) -> StepState] /\ "completed" \in StepState
  BY <1>1, <1>3 DEF StepState
<1>5. r \in Job
  <2>1. steps \in UNION {[DOMAIN p.steps -> StepState] : p \in Plans}
    BY <1>1, <1>3, <1>4
  <2>2. next \in Nat /\ state \in {"pending", "completed", "failed"} /\ pc \in {"idle", "ready", "wait"}
    BY <1>1 DEF Job
  <2> HIDE DEF steps, next, state, pc
  <2> QED BY <1>1, <2>1, <2>2, Idling DEF Job
<1> HIDE DEF r
<1>6. i + 1 \in 1 .. Len(plan[j].steps) + 1 /\ \A k \in Steps(j) : r.steps[k] = "completed" <=> k < i + 1
  <2>1. i + 1 \in 1 .. Len(plan[j].steps) + 1
    BY <1>1
  <2>2. ASSUME NEW k \in Steps(j) PROVE r.steps[k] = "completed" <=> k < i + 1
    <3>1. k \in 1 .. Len(plan[j].steps) /\ (jobs[j].steps[k] = "completed" <=> k < i)
      BY <1>1 DEF DoneTo
    <3>2. CASE k = i
      BY <1>1, <1>3, <3>2
    <3>3. CASE k # i
      <4>1. r.steps[k] = jobs[j].steps[k]
        BY <1>1, <1>3, <3>3
      <4>2. k < i <=> k < i + 1
        BY <1>1, <3>1, <3>3
      <4> QED BY <3>1, <4>1, <4>2
    <3> QED BY <3>2, <3>3
  <2> QED BY <2>1, <2>2
<1>7. \A k \in Steps(j) : jobs[j].steps[k] = "completed" => k < i + 1
  BY <1>1 DEF DoneTo
<1>8. /\ r.pc # "idle" => r.i = i + 1 /\ i + 1 \in Steps(j)
      /\ r.state = "completed" => i + 1 = Len(plan[j].steps) + 1
      /\ r.pc # "wait"
  BY <1>1, <1>3
<1>9. JobsInv' /\ StaysDone /\ jobs'[j] = r /\ \A k \in Jobs \ {j} : jobs'[k] = jobs[k]
  <2> DEFINE n == i + 1
  <2>1. n \in 1 .. Len(plan[j].steps) + 1 /\ \A k \in Steps(j) : r.steps[k] = "completed" <=> k < n
    BY <1>6
  <2>2. \A k \in Steps(j) : jobs[j].steps[k] = "completed" => k < n
    BY <1>7
  <2>3. /\ r.pc # "idle" => r.i = n /\ n \in Steps(j)
        /\ r.state = "completed" => n = Len(plan[j].steps) + 1
        /\ r.pc # "wait"
    BY <1>8
  <2> HIDE DEF n
  <2> QED BY <1>2, <1>4, <1>5, <2>1, <2>2, <2>3, OneChanges
<1> QED BY <1>1, <1>3, <1>9 DEF OneDone

\* The same for a job that stays at its step, failed, waiting or dropped.
LEMMA Halting ==
    ASSUME JobsInv, NEW j \in Jobs, jobs[j].pc # "idle", Around,
           NEW s \in StepState, s # "completed", NEW pc \in {"idle", "wait"}, NEW op \in Doing,
           NEW state \in {jobs[j].state, "failed"}, NEW left \in SUBSET Names,
           pc = "wait" => Suits(j, Kind(j), op),
           jobs' = [jobs EXCEPT ![j] = [state |-> state, i |-> jobs[j].i, pc |-> pc, op |-> op, left |-> left,
                                        steps |-> [jobs[j].steps EXCEPT ![jobs[j].i] = s]]]
    PROVE  /\ JobsInv' /\ StaysDone
           /\ NoneDone
<1> DEFINE i == jobs[j].i
           r == [state |-> state, i |-> i, pc |-> pc, op |-> op, left |-> left, steps |-> [jobs[j].steps EXCEPT ![i] = s]]
<1>1. /\ jobs[j] \in Job /\ i \in Steps(j) /\ DoneTo(j, i) /\ i \in 1 .. Len(plan[j].steps)
      /\ Len(plan[j].steps) \in Nat /\ Steps(j) = 1 .. Len(plan[j].steps) /\ jobs[j].state # "completed"
      /\ plan[j] \in Plans /\ jobs[j].steps[i] # "completed"
      /\ jobs[j].steps \in [Steps(j) -> StepState] /\ jobs \in [Jobs -> Job]
  BY AtStep, PlanSteps DEF JobsInv, Types
<1>2. jobs' = [jobs EXCEPT ![j] = r]
  OBVIOUS
<1>3. r.steps \in [Steps(j) -> StepState]
  BY <1>1
<1>4. r \in Job
  BY <1>1, <1>3 DEF Job
<1>5. /\ \A k \in Steps(j) : r.steps[k] = "completed" <=> jobs[j].steps[k] = "completed"
      /\ r.i = i /\ r.pc = pc /\ r.op = op /\ r.state # "completed"
  BY <1>1
<1> HIDE DEF r
<1>6. \A k \in Steps(j) : r.steps[k] = "completed" <=> k < i
  BY <1>1, <1>5 DEF DoneTo
<1>7. i \in 1 .. Len(plan[j].steps) + 1 /\ \A k \in Steps(j) : jobs[j].steps[k] = "completed" => k < i
  BY <1>1 DEF DoneTo
<1>8. JobsInv' /\ StaysDone /\ jobs'[j] = r /\ \A k \in Jobs \ {j} : jobs'[k] = jobs[k]
  <2>1. r.pc = "wait" => Suits(j, plan[j].steps[i], r.op)
    BY <1>5 DEF Kind
  <2>2. r.pc # "idle" => r.i = i /\ i \in Steps(j)
    BY <1>1, <1>5
  <2>3. r.state # "completed"
    BY <1>5
  <2> HIDE DEF i
  <2> QED BY ONLY JobsInv, <1>2, <1>3, <1>4, <1>6, <1>7, <2>1, <2>2, <2>3, OneChanges, j \in Jobs, Around
<1> QED BY <1>5, <1>8 DEF NoneDone

\* A job as a record.
LEMMA JobRecord ==
    ASSUME NEW r \in Job
    PROVE  r = [state |-> r.state, i |-> r.i, pc |-> r.pc, op |-> r.op, left |-> r.left, steps |-> r.steps]
BY DEF Job

LEMMA Failing ==
    ASSUME JobsInv, NEW j \in Jobs, jobs[j].pc # "idle", Fail(j), Around
    PROVE  JobsInv' /\ StaysDone /\ NoneDone
<1>1. jobs[j] \in Job /\ jobs \in [Jobs -> Job] /\ jobs[j].left \in SUBSET Names
  BY DEF JobsInv, Types, Job
<1>2. jobs' = [jobs EXCEPT ![j] = [state |-> "failed", i |-> jobs[j].i, pc |-> "idle", op |-> Idle,
                                   left |-> jobs[j].left,
                                   steps |-> [jobs[j].steps EXCEPT ![jobs[j].i] = "failed"]]]
  BY <1>1, JobRecord DEF Fail, Job
<1>3. "failed" \in StepState
  BY DEF StepState
<1> QED BY <1>1, <1>2, <1>3, Idling, Halting

\* The job waits for an operation that suits its step.
LEMMA WaitingFor ==
    ASSUME JobsInv, NEW j \in Jobs, jobs[j].pc # "idle", NEW op \in Operation, Issue(j, op), Around, Suits(j, Kind(j), op)
    PROVE  JobsInv' /\ StaysDone /\ NoneDone
<1>1. /\ jobs[j] \in Job /\ jobs \in [Jobs -> Job] /\ jobs[j].left \in SUBSET Names
  BY DEF JobsInv, Types, Job
<1>2. jobs' = [jobs EXCEPT ![j] = [state |-> jobs[j].state, i |-> jobs[j].i, pc |-> "wait", op |-> op,
                                   left |-> jobs[j].left,
                                   steps |-> [jobs[j].steps EXCEPT ![jobs[j].i] = "running"]]]
  <2> DEFINE steps == [jobs[j].steps EXCEPT ![jobs[j].i] = "running"]
             r == [jobs[j] EXCEPT !.steps = steps, !.pc = "wait", !.op = op]
  <2>1. jobs' = [jobs EXCEPT ![j] = r]
    BY <1>1 DEF Issue, Job
  <2>2. steps \in UNION {[DOMAIN p.steps -> StepState] : p \in Plans}
    <3>1. plan[j] \in Plans /\ jobs[j].steps \in [Steps(j) -> StepState] /\ "running" \in StepState
      BY DEF JobsInv, Types, StepState
    <3>2. steps \in [Steps(j) -> StepState]
      BY <3>1
    <3> HIDE DEF steps
    <3> QED BY <3>1, <3>2
  <2> HIDE DEF steps
  <2>3. r \in Job
    BY <1>1, <2>2, Idling DEF Job
  <2>4. /\ r.state = jobs[j].state /\ r.i = jobs[j].i /\ r.pc = "wait" /\ r.op = op
        /\ r.left = jobs[j].left /\ r.steps = steps
    BY <1>1 DEF Job
  <2> HIDE DEF r
  <2>5. r = [state |-> jobs[j].state, i |-> jobs[j].i, pc |-> "wait", op |-> op, left |-> jobs[j].left,
             steps |-> steps]
    BY <2>3, <2>4, JobRecord
  <2> QED BY <2>1, <2>5 DEF steps
<1>3. "running" \in StepState /\ "running" # "completed" /\ op \in Doing
  BY Idling DEF StepState
<1> QED BY <1>1, <1>2, <1>3, Halting

-----------------------------------------------------------------------------
(* What is launched and what is delivered. *)

LEMMA LaunchesStay ==
    ASSUME JobsInv, LaunchedOnce, StaysDone, UNCHANGED <<plan, launched>>
    PROVE  LaunchedOnce'
<1> SUFFICES ASSUME NEW j \in Jobs, NEW i \in Steps(j), launched[j][i] > 0
             PROVE  /\ launched[j][i] = 1 /\ Policy = "allow"
                    /\ \A k \in 1 .. i : jobs'[j].steps[k] = "completed"
  BY DEF LaunchedOnce
<1>1. launched[j][i] = 1 /\ Policy = "allow" /\ \A k \in 1 .. i : jobs[j].steps[k] = "completed"
  BY DEF LaunchedOnce
<1>2. \A k \in 1 .. i : k \in Steps(j)
  BY PlanSteps DEF JobsInv
<1> QED BY <1>1, <1>2 DEF StaysDone

\* A step of a job that does not deliver, or completes nothing.
LEMMA QuietStep ==
    ASSUME IInv, JobsInv', StaysDone, NEW j \in Jobs,
           NoneDone \/ (OneDone(j) /\ Kind(j) \notin Delivering),
           UNCHANGED <<plan, launched>>, \A n : Delivered(n) => Delivered(n)'
    PROVE  IInv'
<1>1. LaunchedOnce'
  BY LaunchesStay DEF IInv
<1>2. DeliveredStays'
  BY DEF IInv, DeliveredStays, NoneDone, OneDone, Kind
<1> QED BY <1>1, <1>2 DEF IInv

\* The disk and the pool stay as they are.
LEMMA NothingElse ==
    ASSUME JobsInv, UNCHANGED <<plan, launched, at, linked, pool>>
    PROVE  Around /\ \A n : Delivered(n) => Delivered(n)'
<1>1. Disk' /\ \A n : Delivered(n) => Delivered(n)'
  BY DEF JobsInv, Types, Disk, Slots, Linkage, There, Delivered
<1> QED BY <1>1 DEF JobsInv, Types, Around, Launches, Pool

\* A run goes on at the first step that is not completed.
LEMMA Resuming ==
    ASSUME Types, NEW j \in Jobs, NEW n \in 1 .. Len(plan[j].steps) + 1, DoneTo(j, n)
    PROVE  ResumeFrom(j) = n
<1> DEFINE First(m) == /\ m > Len(plan[j].steps) \/ jobs[j].steps[m] # "completed"
                       /\ \A k \in 1 .. m - 1 : jobs[j].steps[k] = "completed"
<1>1. Len(plan[j].steps) \in Nat /\ Steps(j) = 1 .. Len(plan[j].steps)
  BY PlanSteps
<1>2. First(n)
  BY <1>1 DEF DoneTo
<1>3. ResumeFrom(j) \in 1 .. Len(plan[j].steps) + 1 /\ First(ResumeFrom(j))
  BY <1>2 DEF ResumeFrom
<1>4. \A m \in 1 .. Len(plan[j].steps) + 1 : First(m) => m = n
  <2> SUFFICES ASSUME NEW m \in 1 .. Len(plan[j].steps) + 1, First(m), m # n PROVE FALSE
    OBVIOUS
  <2>1. CASE m < n
    BY <1>1, <2>1 DEF DoneTo
  <2>2. CASE n < m
    <3>1. n \in 1 .. m - 1 /\ n \in Steps(j)
      BY <1>1, <2>2
    <3> QED BY <3>1 DEF DoneTo
  <2> QED BY <1>1, <2>1, <2>2
<1> QED BY <1>3, <1>4

LEMMA RunInv == ASSUME NEW j \in Jobs, IInv, Run(j) PROVE IInv'
<1> DEFINE i == ResumeFrom(j)
           last == i > Len(plan[j].steps)
           pc == IF last THEN "idle" ELSE "ready"
           state == IF last THEN "completed" ELSE jobs[j].state
           r == [jobs[j] EXCEPT !.i = i, !.pc = pc, !.state = state]
<1>1. /\ JobsInv /\ Types /\ jobs[j] \in Job /\ jobs \in [Jobs -> Job] /\ UNCHANGED <<plan, launched, at, linked, pool>>
      /\ jobs[j].steps \in [Steps(j) -> StepState]
      /\ Len(plan[j].steps) \in Nat /\ Steps(j) = 1 .. Len(plan[j].steps)
  BY PlanSteps DEF IInv, JobsInv, Types, Run, disk
<1>2. PICK n \in 1 .. Len(plan[j].steps) + 1 : DoneTo(j, n)
  BY DEF IInv, JobsInv, InOrder
<1>3. i = n
  BY <1>1, <1>2, Resuming
<1> HIDE DEF i
<1>4. jobs' = [jobs EXCEPT ![j] = r]
  BY <1>1 DEF Run, i
<1>5. /\ r \in Job /\ r.steps = jobs[j].steps /\ r.i = i /\ r.pc = pc /\ r.state = state
  <2>1. i \in Nat /\ pc \in {"idle", "ready", "wait"} /\ state \in {"pending", "completed", "failed"}
    BY <1>1, <1>2, <1>3 DEF Job
  <2> HIDE DEF pc, state
  <2> QED BY <1>1, <2>1 DEF Job
<1> HIDE DEF r
<1>6. /\ r.pc # "idle" => r.i = n /\ n \in Steps(j)
      /\ r.pc # "wait"
      /\ r.state = "completed" => n = Len(plan[j].steps) + 1
  <2>1. jobs[j].state = "completed" => n = Len(plan[j].steps) + 1
    <3>1. ASSUME jobs[j].state = "completed", n # Len(plan[j].steps) + 1 PROVE FALSE
      <4>1. n \in Steps(j)
        BY <1>1, <3>1
      <4>2. jobs[j].steps[n] = "completed"
        BY <1>1, <3>1, <4>1 DEF JobsInv, InOrder, DoneTo
      <4> QED BY <1>2, <4>1, <4>2 DEF DoneTo
    <3> QED BY <3>1
  <2>2. last <=> n = Len(plan[j].steps) + 1
    BY <1>1, <1>3
  <2>3. n \in Steps(j) \/ last
    BY <1>1, <2>2
  <2> HIDE DEF last
  <2> QED BY <1>3, <1>5, <2>1, <2>2, <2>3
<1>7. \A k \in Steps(j) : (r.steps[k] = "completed" <=> k < n) /\ (jobs[j].steps[k] = "completed" => k < n)
  BY <1>2, <1>5 DEF DoneTo
<1>8. JobsInv' /\ StaysDone /\ jobs'[j] = r /\ \A k \in Jobs \ {j} : jobs'[k] = jobs[k]
  BY <1>1, <1>4, <1>5, <1>6, <1>7, NothingElse, OneChanges
<1>9. NoneDone
  BY <1>5, <1>8 DEF NoneDone
<1> QED BY <1>1, <1>8, <1>9, NothingElse, QuietStep

LEMMA DropInv == ASSUME NEW j \in Jobs, IInv, Drop(j) PROVE IInv'
<1>1. /\ JobsInv /\ jobs[j] \in Job /\ jobs \in [Jobs -> Job] /\ jobs[j].pc # "idle"
      /\ UNCHANGED <<plan, at, linked, launched>> /\ pool' = Append(pool, [op |-> jobs[j].op, over |-> FALSE])
      /\ jobs' = [jobs EXCEPT ![j] = [jobs[j] EXCEPT !.pc = "idle", !.op = Idle, !.left = {}]]
  BY DEF IInv, JobsInv, Types, Drop, disk
<1>2. /\ jobs[j].i \in Steps(j) /\ jobs[j].steps[jobs[j].i] # "completed"
      /\ jobs[j].steps \in [Steps(j) -> StepState] /\ jobs[j].op \in Operation
  BY <1>1, AtStep DEF JobsInv, Types, Job, Waiting, Suits, Drop
<1>3. Around /\ \A n : Delivered(n) => Delivered(n)'
  <2>1. Pool'
    <3>1. [op |-> jobs[j].op, over |-> FALSE] \in [op : Operation, over : BOOLEAN]
      BY <1>2
    <3> QED BY <1>1, <3>1, AppendProperties DEF Pool, JobsInv, Types
  <2>2. Disk' /\ \A n : Delivered(n) => Delivered(n)'
    BY <1>1 DEF JobsInv, Types, Disk, Slots, Linkage, There, Delivered
  <2> QED BY <1>1, <2>1, <2>2 DEF JobsInv, Types, Around, Launches
<1>4. jobs' = [jobs EXCEPT ![j] = [state |-> jobs[j].state, i |-> jobs[j].i, pc |-> "idle", op |-> Idle, left |-> {},
                 steps |-> [jobs[j].steps EXCEPT ![jobs[j].i] = jobs[j].steps[jobs[j].i]]]]
  <2> DEFINE r == [jobs[j] EXCEPT !.pc = "idle", !.op = Idle, !.left = {}]
  <2>1. r \in Job
    BY <1>1, Idling DEF Job
  <2>2. /\ r.state = jobs[j].state /\ r.i = jobs[j].i /\ r.pc = "idle" /\ r.op = Idle
        /\ r.left = {} /\ r.steps = jobs[j].steps
    BY <1>1 DEF Job
  <2>3. jobs' = [jobs EXCEPT ![j] = r]
    BY <1>1
  <2> HIDE DEF r
  <2>4. r = [state |-> jobs[j].state, i |-> jobs[j].i, pc |-> "idle", op |-> Idle, left |-> {},
             steps |-> jobs[j].steps]
    BY <2>1, <2>2, JobRecord
  <2>5. [jobs[j].steps EXCEPT ![jobs[j].i] = jobs[j].steps[jobs[j].i]] = jobs[j].steps
    BY <1>2
  <2> QED BY <2>3, <2>4, <2>5
<1>5. jobs[j].steps[jobs[j].i] \in StepState
  BY <1>2
<1>6. JobsInv' /\ StaysDone /\ NoneDone
  <2> DEFINE s == jobs[j].steps[jobs[j].i]
  <2>1. s \in StepState /\ s # "completed"
    BY <1>2, <1>5
  <2>2. jobs' = [jobs EXCEPT ![j] = [state |-> jobs[j].state, i |-> jobs[j].i, pc |-> "idle", op |-> Idle,
                 left |-> {}, steps |-> [jobs[j].steps EXCEPT ![jobs[j].i] = s]]]
    BY <1>4
  <2>3. JobsInv /\ jobs[j].pc # "idle" /\ Around
    BY <1>1, <1>3
  <2> DEFINE left == {}
  <2>4. left \in SUBSET Names
    OBVIOUS
  <2>5. jobs' = [jobs EXCEPT ![j] = [state |-> jobs[j].state, i |-> jobs[j].i, pc |-> "idle", op |-> Idle,
                 left |-> left, steps |-> [jobs[j].steps EXCEPT ![jobs[j].i] = s]]]
    BY <2>2
  <2> HIDE DEF s, left
  <2> QED BY ONLY j \in Jobs, <2>1, <2>3, <2>4, <2>5, Idling, Halting
<1> QED BY <1>1, <1>3, <1>6, QuietStep

\* What a run has left behind, and what it leaves when it happens.
LEMMA LeftBehind ==
    ASSUME Types, NEW i \in DOMAIN pool
    PROVE  /\ pool[i].op \in Operation
           /\ pool' = [pool EXCEPT ![i].over = TRUE] =>
                 /\ Pool' /\ DOMAIN pool' = DOMAIN pool
                 /\ \A k \in DOMAIN pool : pool'[k].op = pool[k].op /\ (pool[k].over => pool'[k].over)
                 /\ pool'[i].over
<1>1. pool \in Seq([op : Operation, over : BOOLEAN])
  BY DEF Types, Pool
<1>2. \A k \in DOMAIN pool : pool[k] \in [op : Operation, over : BOOLEAN]
  <2>1. pool \in [1 .. Len(pool) -> [op : Operation, over : BOOLEAN]]
    BY <1>1, LenProperties
  <2> QED BY <2>1
<1>3. ASSUME pool' = [pool EXCEPT ![i].over = TRUE]
      PROVE  /\ Pool' /\ DOMAIN pool' = DOMAIN pool
             /\ \A k \in DOMAIN pool : pool'[k].op = pool[k].op /\ (pool[k].over => pool'[k].over)
             /\ pool'[i].over
  <2> DEFINE e == [pool[i] EXCEPT !.over = TRUE]
  <2>1. e \in [op : Operation, over : BOOLEAN] /\ e.op = pool[i].op /\ e.over = TRUE
    BY <1>2
  <2>2. pool' = [pool EXCEPT ![i] = e]
    BY <1>3
  <2> HIDE DEF e
  <2>3. Pool'
    BY <1>1, <2>1, <2>2, ExceptSeq DEF Pool
  <2> QED BY <1>1, <2>1, <2>2, <2>3
<1> QED BY <1>2, <1>3

LEMMA LateInv == ASSUME NEW i \in DOMAIN pool, IInv, Late(i) PROVE IInv'
<1> PICK op : op = pool[i].op
  OBVIOUS
<1>1. /\ Types /\ InOrder /\ Waiting /\ op \in Operation /\ Disk
      /\ UNCHANGED <<plan, jobs, launched>> /\ Pool'
      /\ (Possible(op) /\ (Effect(op) \/ Damage(op))) \/ UNCHANGED disk
  BY LeftBehind DEF IInv, JobsInv, Types, Late
<1>2. Disk' /\ \A n : Delivered(n) => Delivered(n)'
  <2>1. CASE UNCHANGED disk
    BY <1>1, <2>1 DEF disk, Delivered, There, Disk, Slots, Linkage
  <2> QED BY <1>1, <2>1, EffectKeeps
<1>3. Types'
  BY <1>1, <1>2 DEF Types, Launches
<1>4. InOrder' /\ Waiting' /\ LaunchedOnce'
  BY <1>1 DEF InOrder, DoneTo, Waiting, Suits, Kind, LaunchedOnce, IInv
<1>5. DeliveredStays'
  BY <1>1, <1>2 DEF DeliveredStays, IInv
<1> QED BY <1>3, <1>4, <1>5 DEF IInv, JobsInv

\* A step that succeeds without delivering, fails, or waits for the pool.
LEMMA PlainStep ==
    ASSUME NEW j \in Jobs, IInv, jobs[j].pc # "idle",
           \/ Kind(j) \notin Delivering /\ Succeed(j)
           \/ Fail(j)
           \/ \E op \in Operation : Suits(j, Kind(j), op) /\ Issue(j, op),
           UNCHANGED <<plan, launched, pool>>, Disk',
           \A n : Delivered(n) => Delivered(n)'
    PROVE  IInv'
<1>1. Around /\ JobsInv
  <2>1. JobsInv /\ Launches /\ Pool
    BY DEF IInv, JobsInv, Types
  <2>2. Launches' /\ Pool'
    BY <2>1 DEF Launches, Pool
  <2> QED BY <2>1, <2>2 DEF Around
<1>2. JobsInv' /\ StaysDone /\ (NoneDone \/ (OneDone(j) /\ Kind(j) \notin Delivering))
  <2>1. CASE Kind(j) \notin Delivering /\ Succeed(j)
    BY <1>1, <2>1, Succeeding
  <2>2. CASE Fail(j)
    BY <1>1, <2>2, Failing
  <2>3. ASSUME NEW op \in Operation, Suits(j, Kind(j), op), Issue(j, op)
        PROVE  JobsInv' /\ StaysDone /\ NoneDone
    BY <1>1, <2>3, WaitingFor
  <2> QED BY <2>1, <2>2, <2>3
<1> QED BY <1>2, QuietStep

LEMMA SimpleInv ==
    ASSUME NEW j \in Jobs, IInv,
           Verify(j) \/ Deliver(j) \/ InspectMedia(j) \/ Flatten(j) \/ Rename(j) \/ Cleanup(j) \/ CustomHook(j)
    PROVE  IInv'
<1>1. UNCHANGED <<plan, launched, pool, at, linked>> /\ Types
  BY DEF Verify, Deliver, InspectMedia, Flatten, Rename, Cleanup, CustomHook, disk, IInv, JobsInv
<1>2. Disk' /\ \A n : Delivered(n) => Delivered(n)'
  BY <1>1, NothingElse DEF IInv, Around
<1>3. jobs[j].pc # "idle"
  BY DEF Verify, Deliver, InspectMedia, Flatten, Rename, Cleanup, CustomHook, At
<1>4. /\ {"work", "sub", "dest"} \subseteq Places
      /\ {"look", "probe", "list", "rename", "remove", "copy", "link"} \subseteq OpKind
      /\ plan[j].sane \in {"work", "sub", Unsafe} /\ plan[j].place \in {"work", "sub"}
  BY <1>1, PlanSteps DEF Places, OpKind
<1> DEFINE Waits == \E op \in Operation : Suits(j, Kind(j), op) /\ Issue(j, op)
           Plain == (Kind(j) \notin Delivering /\ Succeed(j)) \/ Fail(j) \/ Waits
<1>5. ASSUME NEW kind \in OpKind \ {"copy", "link"}, NEW to \in Places, kind = "rename" => to # plan[j].place,
             Issue(j, OnTarget(j, kind, to)), Kind(j) \notin Delivering
      PROVE  Waits
  BY <1>1, <1>5, Aiming DEF Suits, Delivering
<1>6. ASSUME Verify(j) \/ InspectMedia(j) \/ Flatten(j) \/ CustomHook(j) PROVE Plain
  <2>1. Fail(j) \/ \E kind \in {"look", "probe", "list"} : Issue(j, OnTarget(j, kind, "work"))
    BY <1>6 DEF Verify, InspectMedia, Flatten, CustomHook
  <2>2. Kind(j) \notin Delivering
    BY <1>6 DEF Verify, InspectMedia, Flatten, CustomHook, At, Delivering
  <2> HIDE DEF Waits
  <2> QED BY <1>4, <1>5, <2>1, <2>2
<1>7. ASSUME Deliver(j) PROVE Plain
  <2>1. \/ Kind(j) = "move" /\ Issue(j, OnTarget(j, "rename", "dest"))
        \/ Kind(j) = "copy" /\ Issue(j, OnTarget(j, "copy", "dest"))
        \/ Kind(j) = "hardlink" /\ Issue(j, OnTarget(j, "link", "dest"))
    BY <1>7 DEF Deliver, At
  <2>2. \A kind \in {"rename", "copy", "link"} :
           LET op == OnTarget(j, kind, "dest") IN
           op \in Operation /\ op.kind = kind /\ op.name = plan[j].name /\ op.to = "dest"
    BY <1>1, <1>4, Aiming
  <2> QED BY <2>1, <2>2 DEF Suits
<1>8. ASSUME Rename(j) PROVE Plain
  <2>1. /\ Kind(j) = "rename"
        /\ \/ Fail(j) \/ Succeed(j)
           \/ /\ plan[j].sane # Unsafe /\ plan[j].sane # plan[j].place
              /\ Issue(j, OnTarget(j, "rename", plan[j].sane))
    BY <1>8 DEF Rename, At
  <2>2. Kind(j) \notin Delivering
    BY <2>1 DEF Delivering
  <2> HIDE DEF Waits
  <2> QED BY <1>4, <1>5, <2>1, <2>2
<1>9. ASSUME Cleanup(j) PROVE Plain
  <2>1. Kind(j) = "cleanup" /\ (Succeed(j) \/ Issue(j, OnTarget(j, "remove", "work")))
    BY <1>9 DEF Cleanup, At
  <2>2. Kind(j) \notin Delivering
    BY <2>1 DEF Delivering
  <2> HIDE DEF Waits
  <2> QED BY <1>4, <1>5, <2>1, <2>2
<1>10. Plain
  <2> HIDE DEF Plain
  <2> QED BY <1>6, <1>7, <1>8, <1>9
<1> QED BY <1>1, <1>2, <1>3, <1>10, PlainStep

LEMMA ExtractInv == ASSUME NEW j \in Jobs, IInv, Extract(j) PROVE IInv'
<1> DEFINE held == IF Mine(j) \in Files THEN Inside[Mine(j)] ELSE {}
<1>1. /\ jobs[j].pc # "idle" /\ Kind(j) = "extract" /\ UNCHANGED <<plan, launched, pool>>
      /\ Succeed(j) \/ Fail(j)
      /\ UNCHANGED <<at, linked>> \/ \E files, torn \in SUBSET Files : Placed(files, torn)
  <2>1. held \in SUBSET Files
    BY PipelineAssumption
  <2>2. /\ jobs[j].pc # "idle" /\ Kind(j) = "extract" /\ UNCHANGED <<plan, launched, pool>>
        /\ Succeed(j) \/ Fail(j)
    BY DEF Extract, At
  <2>3. UNCHANGED <<at, linked>> \/ \E files, torn \in SUBSET held : Placed(files, torn)
    BY DEF Extract
  <2> HIDE DEF held
  <2> QED BY <2>1, <2>2, <2>3
<1>2. JobsInv /\ Disk
  BY DEF IInv, JobsInv, Types
<1>3. Disk' /\ \A n : Delivered(n) => Delivered(n)'
  <2>1. CASE UNCHANGED <<at, linked>>
    BY <1>2, <2>1 DEF Delivered, There, Disk, Slots, Linkage
  <2>2. ASSUME NEW files \in SUBSET Files, NEW torn \in SUBSET Files, Placed(files, torn)
        PROVE  Disk' /\ \A n : Delivered(n) => Delivered(n)'
    BY <1>2, <2>2, PlacedKeeps
  <2> QED BY <1>1, <2>1, <2>2
<1>4. Kind(j) \notin Delivering
  BY <1>1 DEF Delivering
<1> QED BY <1>1, <1>3, <1>4, PlainStep

LEMMA RunInstallerInv == ASSUME NEW j \in Jobs, IInv, RunInstaller(j) PROVE IInv'
<1> DEFINE i == jobs[j].i
<1>1. /\ jobs[j].pc # "idle" /\ Kind(j) = "run_installer" /\ UNCHANGED <<plan, at, linked, pool>>
      /\ JobsInv /\ Types /\ LaunchedOnce
      /\ \/ Policy = "allow" /\ launched' = [launched EXCEPT ![j][i] = @ + 1] /\ Succeed(j)
         \/ UNCHANGED launched /\ Fail(j)
  BY DEF RunInstaller, At, IInv, JobsInv, disk
<1>2. Kind(j) \notin Delivering
  BY <1>1 DEF Delivering
<1>3. Disk' /\ \A n : Delivered(n) => Delivered(n)'
  BY <1>1 DEF Types, Delivered, There, Disk, Slots, Linkage
<1>4. CASE UNCHANGED launched /\ Fail(j)
  BY <1>1, <1>2, <1>3, <1>4, PlainStep
<1>5. CASE Policy = "allow" /\ launched' = [launched EXCEPT ![j][i] = @ + 1] /\ Succeed(j)
  <2>1. /\ i \in Steps(j) /\ DoneTo(j, i) /\ jobs[j].steps[i] # "completed"
        /\ Steps(j) = 1 .. Len(plan[j].steps) /\ Len(plan[j].steps) \in Nat
        /\ \A k \in Jobs : launched[k] \in [Steps(k) -> Nat] /\ plan[k] \in Plans
        /\ launched \in [Jobs -> UNION {[DOMAIN p.steps -> Nat] : p \in Plans}]
    BY <1>1, AtStep, PlanSteps DEF Types, Launches
  <2>2. /\ launched'[j] = [launched[j] EXCEPT ![i] = launched[j][i] + 1]
        /\ \A k \in Jobs \ {j} : launched'[k] = launched[k]
    BY <1>5, <2>1
  <2>3. Launches'
    <3>0. launched[j] \in [Steps(j) -> Nat] /\ launched[j][i] + 1 \in Nat
      BY <2>1
    <3>1. \A k \in Jobs : launched'[k] \in [Steps(k) -> Nat]
      <4>1. launched'[j] \in [Steps(j) -> Nat]
        BY <2>2, <3>0
      <4>2. \A k \in Jobs \ {j} : launched'[k] \in [Steps(k) -> Nat]
        BY <2>1, <2>2
      <4> QED BY <4>1, <4>2
    <3>2. launched' = [k \in Jobs |-> launched'[k]]
      BY <1>5, <2>1
    <3>3. \A k \in Jobs : launched'[k] \in UNION {[DOMAIN p.steps -> Nat] : p \in Plans}
      BY <2>1, <3>1
    <3> QED BY <1>1, <3>1, <3>2, <3>3 DEF Launches
  <2>4. Around
    BY <1>1, <1>3, <2>3 DEF Around, Types, Pool
  <2>5. JobsInv' /\ StaysDone /\ jobs'[j].steps[i] = "completed" /\ OneDone(j)
    BY <1>1, <1>5, <2>4, Succeeding
  <2>6. launched[j][i] = 0
    <3>1. ~(launched[j][i] > 0)
      BY <1>1, <2>1 DEF LaunchedOnce
    <3> QED BY <2>1, <3>1
  <2>7. LaunchedOnce'
    <3> SUFFICES ASSUME NEW k \in Jobs, NEW m \in Steps(k), launched'[k][m] > 0
                 PROVE  /\ launched'[k][m] = 1 /\ Policy = "allow"
                        /\ \A l \in 1 .. m : jobs'[k].steps[l] = "completed"
      BY <1>1 DEF LaunchedOnce
    <3>1. CASE k = j /\ m = i
      <4>1. launched'[j][i] = 1
        BY <2>1, <2>2, <2>6
      <4>2. \A l \in 1 .. i : l = i \/ (l \in Steps(j) /\ l < i)
        BY <2>1
      <4>3. \A l \in 1 .. i : jobs'[j].steps[l] = "completed"
        BY <2>1, <2>5, <4>2 DEF DoneTo, StaysDone
      <4>4. m = i /\ launched'[k][m] = 1 /\ Policy = "allow"
        BY <1>5, <3>1, <4>1
      <4>5. \A l \in 1 .. m : jobs'[k].steps[l] = "completed"
        BY ONLY <3>1, <4>3
      <4> QED BY <4>4, <4>5
    <3>2. CASE ~(k = j /\ m = i)
      <4>1. launched'[k][m] = launched[k][m]
        BY <2>1, <2>2, <3>2
      <4>2. launched[k][m] = 1 /\ Policy = "allow" /\ \A l \in 1 .. m : jobs[k].steps[l] = "completed"
        BY <1>1, <4>1 DEF LaunchedOnce
      <4>3. \A l \in 1 .. m : l \in Steps(k)
        BY <1>1, PlanSteps
      <4> QED BY <2>5, <4>1, <4>2, <4>3 DEF StaysDone
    <3> QED BY <3>1, <3>2
  <2>8. DeliveredStays'
    BY <1>1, <1>2, <1>3, <2>5 DEF IInv, DeliveredStays, OneDone, Kind
  <2> QED BY <2>5, <2>7, <2>8 DEF IInv
<1> QED BY <1>1, <1>4, <1>5

\* Flatten goes on with its next child.
LEMMA ChildStep ==
    ASSUME JobsInv, NEW j \in Jobs, jobs[j].pc = "wait", NEW left \in SUBSET Names,
           Kind(j) \notin Delivering, NextChild(j, left), Around
    PROVE  JobsInv' /\ StaysDone /\ OneDone(j)
<1>1. CASE Succeed(j)
  BY <1>1, Succeeding
<1>2. CASE ~Succeed(j)
  <2>0. /\ jobs \in [Jobs -> Job] /\ Types
        /\ \/ \E n \in left : jobs' = [jobs EXCEPT ![j].op = Op("rename", n, "sub", "work"), ![j].left = left \ {n}]
           \/ jobs' = [jobs EXCEPT ![j].op = OnTarget(j, "rmdir", "work"), ![j].left = {}]
    BY <1>2 DEF NextChild, JobsInv, Types
  <2>1. PICK op \in Operation, rest \in SUBSET Names :
            /\ op.kind \notin {"copy", "link"}
            /\ jobs' = [jobs EXCEPT ![j] = [jobs[j] EXCEPT !.op = op, !.left = rest]]
    <3>1. CASE \E n \in left : jobs' = [jobs EXCEPT ![j].op = Op("rename", n, "sub", "work"), ![j].left = left \ {n}]
      <4>1. PICK n \in left :
                jobs' = [jobs EXCEPT ![j].op = Op("rename", n, "sub", "work"), ![j].left = left \ {n}]
        BY <3>1
      <4>2. Op("rename", n, "sub", "work") \in Operation /\ Op("rename", n, "sub", "work").kind = "rename"
        BY DEF Op, Operation, OpKind, Places
      <4>3. left \ {n} \in SUBSET Names
        OBVIOUS
      <4>4. jobs' = [jobs EXCEPT ![j] = [jobs[j] EXCEPT !.op = Op("rename", n, "sub", "work"), !.left = left \ {n}]]
        BY ONLY <2>0, <4>1, j \in Jobs DEF Job
      <4> QED BY <4>2, <4>3, <4>4
    <3>2. CASE jobs' = [jobs EXCEPT ![j].op = OnTarget(j, "rmdir", "work"), ![j].left = {}]
      <4>1. OnTarget(j, "rmdir", "work") \in Operation /\ OnTarget(j, "rmdir", "work").kind = "rmdir"
        BY <2>0, Aiming DEF OpKind, Places
      <4>2. {} \in SUBSET Names
        OBVIOUS
      <4>3. jobs' = [jobs EXCEPT ![j] = [jobs[j] EXCEPT !.op = OnTarget(j, "rmdir", "work"), !.left = {}]]
        BY ONLY <2>0, <3>2, j \in Jobs DEF Job
      <4> QED BY <4>1, <4>2, <4>3
    <3> QED BY <2>0, <3>1, <3>2
  <2> DEFINE r == [jobs[j] EXCEPT !.op = op, !.left = rest]
             s == jobs[j].steps[jobs[j].i]
  <2>2. /\ jobs[j] \in Job /\ jobs[j].i \in Steps(j)
        /\ jobs[j].steps \in [Steps(j) -> StepState] /\ s # "completed"
    BY AtStep DEF JobsInv, Types
  <2>3. s \in StepState /\ [jobs[j].steps EXCEPT ![jobs[j].i] = s] = jobs[j].steps
    BY <2>2
  <2>4. jobs' = [jobs EXCEPT ![j] = r]
    BY <2>1
  <2>5. /\ r \in Job /\ r.state = jobs[j].state /\ r.i = jobs[j].i /\ r.pc = "wait" /\ r.op = op
        /\ r.left = rest /\ r.steps = jobs[j].steps
    BY <2>2, Idling DEF Job
  <2> HIDE DEF r, s
  <2>6. r = [state |-> jobs[j].state, i |-> jobs[j].i, pc |-> "wait", op |-> op, left |-> rest,
             steps |-> [jobs[j].steps EXCEPT ![jobs[j].i] = s]]
    BY <2>3, <2>5, JobRecord
  <2>7. jobs' = [jobs EXCEPT ![j] = [state |-> jobs[j].state, i |-> jobs[j].i, pc |-> "wait", op |-> op,
                 left |-> rest, steps |-> [jobs[j].steps EXCEPT ![jobs[j].i] = s]]]
    BY <2>4, <2>6
  <2>8. s # "completed" /\ jobs[j].pc # "idle" /\ Suits(j, Kind(j), op) /\ op \in Doing
    BY <2>1, <2>2, Idling DEF Suits, Delivering
  <2>9. JobsInv' /\ StaysDone /\ NoneDone
    BY ONLY JobsInv, j \in Jobs, Around, <2>3, <2>7, <2>8, Halting, rest \in SUBSET Names, jobs[j].state = jobs[j].state
  <2> QED BY <2>9 DEF NoneDone, OneDone
<1> QED BY <1>1, <1>2

\* The pool's answer: the disk changes as the operation says, or is damaged.
LEMMA AnswerInv == ASSUME NEW j \in Jobs, IInv, Answer(j) PROVE IInv'
<1> DEFINE op == jobs[j].op
           names == {n \in Names : There("sub", n)}
           goOn == CASE op.kind = "list" -> NextChild(j, names)
                      [] Kind(j) = "flatten" /\ op.kind = "rename" -> NextChild(j, jobs[j].left)
                      [] OTHER -> Succeed(j)
<1>1. /\ jobs[j].pc = "wait" /\ UNCHANGED <<plan, pool, launched>>
      /\ \/ Possible(op) /\ Effect(op) /\ goOn
         \/ /\ Possible(op) /\ Damage(op)
            /\ IF op.kind \in {"probe", "remove"} THEN Succeed(j) ELSE Fail(j)
         \/ Possible(op) /\ Effect(op) /\ Fail(j)
         \/ Fail(j) /\ UNCHANGED disk
  BY DEF Answer
<1>2. /\ JobsInv /\ Types /\ op \in Operation /\ jobs[j].left \in SUBSET Names
      /\ Suits(j, Kind(j), op) /\ Disk /\ jobs[j].pc # "idle"
  BY <1>1 DEF IInv, JobsInv, Types, Job, Waiting, Suits
<1>3. ASSUME Disk' PROVE Around
  <2>1. Launches' /\ Pool'
    BY <1>1, <1>2 DEF Types, Launches, Pool
  <2> QED BY <1>1, <1>2, <1>3, <2>1 DEF Around, Types
<1> HIDE DEF op
<1>4. Disk' /\ \A n : Delivered(n) => Delivered(n)'
  <2>1. CASE UNCHANGED disk
    BY <1>2, <2>1 DEF disk, Delivered, There, Disk, Slots, Linkage
  <2> QED BY <1>1, <1>2, <2>1, EffectKeeps
<1>5. CASE Fail(j)
  BY <1>1, <1>2, <1>4, <1>5, PlainStep
<1>6. CASE Possible(op) /\ Effect(op) /\ goOn
  <2>2. CASE Kind(j) \in Delivering
    <3>1. op.kind # "list" /\ Kind(j) # "flatten"
      BY <1>2, <2>2 DEF Delivering, Suits
    <3>2. Succeed(j)
      BY <1>6, <3>1
    <3>3. JobsInv' /\ StaysDone /\ OneDone(j)
      BY <1>2, <1>3, <1>4, <3>2, Succeeding
    <3>4. Delivered(plan[j].name)'
      <4>1. PICK o : o = op
        OBVIOUS
      <4>2. Delivered(o.name)' /\ o.name = plan[j].name
        BY <1>2, <1>6, <2>2, <4>1, EffectDelivers DEF Suits
      <4>3. plan[j].name' = o.name
        BY <1>1, <4>2
      <4> QED BY <4>2, <4>3 DEF Delivered, There
    <3>5. LaunchedOnce'
      BY <1>1, <1>2, <3>3, LaunchesStay DEF IInv
    <3>6. DeliveredStays'
      BY <1>1, <1>4, <3>3, <3>4 DEF IInv, DeliveredStays, OneDone
    <3> QED BY <3>3, <3>5, <3>6 DEF IInv
  <2>3. CASE Kind(j) \notin Delivering
    <3>1. names \in SUBSET Names
      OBVIOUS
    <3> HIDE DEF names
    <3>2. Succeed(j) \/ \E left \in SUBSET Names : NextChild(j, left)
      BY <1>2, <1>6, <3>1
    <3>3. JobsInv' /\ StaysDone /\ OneDone(j)
      BY <1>1, <1>2, <1>3, <1>4, <2>3, <3>2, Succeeding, ChildStep
    <3> QED BY <1>1, <1>4, <2>3, <3>3, QuietStep
  <2> QED BY <2>2, <2>3
<1>7. CASE op.kind \in {"probe", "remove"} /\ Succeed(j)
  <2>1. Kind(j) \notin Delivering
    BY <1>2, <1>7 DEF Suits
  <2> QED BY <1>1, <1>2, <1>4, <1>7, <2>1, PlainStep
<1> QED BY <1>1, <1>5, <1>6, <1>7

-----------------------------------------------------------------------------

LEMMA NextIInv == IInv /\ [Next]_vars => IInv'
<1> SUFFICES ASSUME IInv, [Next]_vars PROVE IInv'
  OBVIOUS
<1>1. ASSUME NEW j \in Jobs, Run(j) \/ Step(j) \/ Drop(j) PROVE IInv'
  BY <1>1, RunInv, DropInv, SimpleInv, ExtractInv, RunInstallerInv, AnswerInv DEF Step
<1>2. CASE \E i \in DOMAIN pool : Late(i)
  BY <1>2, LateInv
<1>3. CASE UNCHANGED vars
  BY <1>3 DEF vars, disk, IInv, JobsInv, Types, Launches, Pool, Disk, Slots, Linkage, InOrder, DoneTo, Waiting,
              Suits, Kind, LaunchedOnce, DeliveredStays, Delivered, There
<1> QED BY <1>1, <1>2, <1>3 DEF Next

\* An installer is launched only where the policy allows it, in its turn, and once,
\* however often its job is run again or dropped: pipeline.rs.
THEOREM InstallsOnce == Spec => []LaunchedOnce
<1>1. IInv => LaunchedOnce
  BY DEF IInv
<1>2. Init => IInv
  BY InitJobs DEF IInv
<1> QED BY <1>1, <1>2, NextIInv, PTL DEF Spec

-----------------------------------------------------------------------------
(* What is lost or broken.  Steps that write a name are known from the      *)
(* plans, and what waits or comes late stems from one of them.  So a file   *)
(* of an uncontested name is whole wherever a step may take it from, it     *)
(* goes only by the removal that follows an extraction, and what was        *)
(* extracted stays where no other step writes.                              *)

Delivers(kinds, name) ==
    \E j \in Jobs : plan[j].name = name /\ \E i \in Steps(j) : plan[j].steps[i] \in kinds

Filled(name) ==
    \E j \in Jobs : \E i \in Steps(j) : plan[j].steps[i] = "extract" /\ Writes(j, i, name)

Extracted(name) ==
    \E j \in Jobs : \E k \in Steps(j) :
        plan[j].steps[k] = "extract" /\ jobs[j].steps[k] = "completed" /\ plan[j].name = name

\* An operation stems from a step of its kind, and removes only what was extracted.
Sound(op) ==
    /\ op.kind = "copy" => Delivers({"copy"}, op.name)
    /\ op.kind = "link" => Delivers({"hardlink"}, op.name)
    /\ op.kind = "rename" /\ op.to = "dest" => Delivers({"move"}, op.name)
    /\ op.kind = "remove" => Extracted(op.name)

PoolSound == \A i \in DOMAIN pool : Sound(pool[i].op)

OpsSound ==
    /\ PoolSound
    /\ \A j \in Jobs : Sound(jobs[j].op) /\ (jobs[j].pc = "wait" => Kind(j) # "extract")

\* In the work directory only contested names are broken.
Named == \A p \in Places, n \in Names : at[p][n] \in Files => NameOf[at[p][n]] = n

DirWhole == \A p \in {"work", "sub"}, n \in Names : at[p][n] = Broken => Contested(n)

LinksSound == \A n \in Names : linked[n] # "none" => Delivers({"hardlink"}, n)

FilesInv == Named /\ DirWhole /\ LinksSound

\* In the destination, also what a copy broke that is to be done again, or came late.
LateCopy(n) == \E i \in DOMAIN pool : pool[i].over /\ pool[i].op.kind = "copy" /\ pool[i].op.name = n

Unfinished(n) ==
    \E j \in Jobs : plan[j].name = n /\ \E i \in Steps(j) :
        plan[j].steps[i] = "copy" /\ jobs[j].steps[i] # "completed"

DestWhole ==
    \A n \in Names : at["dest"][n] = Broken => Contested(n) \/ Filled(n) \/ LateCopy(n) \/ Unfinished(n)

\* A file lies where nothing but its own steps reaches it.
Safe(f) ==
    \/ \E p \in {"work", "sub"} : at[p][NameOf[f]] = f
    \/ at["dest"][NameOf[f]] = f /\ ~Filled(NameOf[f])

Kept ==
    \A f \in Files : Begun(f) /\ Alone(f) /\ ~Contested(NameOf[f]) => Safe(f) \/ Extracted(NameOf[f])

Yielded(f) == Inside[f] # {} /\ \A g \in Inside[f] : ~Contested(NameOf[g]) => at["dest"][NameOf[g]] = g

Held == \A f \in Files : Alone(f) /\ Extracted(NameOf[f]) => Yielded(f)

LossInv == OpsSound /\ FilesInv /\ DestWhole /\ Kept /\ Held

\* What a step does to files: what is safe stays so or was extracted; the destination
\* changes under the names of steps that deliver, or of an extraction that was not done;
\* and what breaks there is accounted for.
SafeStays ==
    \A f \in Files : Alone(f) /\ ~Contested(NameOf[f]) /\ Safe(f) => Safe(f)' \/ Extracted(NameOf[f])

DestChanges ==
    \A n \in Names :
        \/ at'["dest"][n] = at["dest"][n]
        \/ Delivers(Delivering, n)
        \/ \E j \in Jobs : \E i \in Steps(j) :
              plan[j].steps[i] = "extract" /\ Writes(j, i, n) /\ jobs[j].steps[i] # "completed"

Broke(n) == at'["dest"][n] = Broken /\ at["dest"][n] # Broken /\ ~Contested(n) /\ ~Filled(n)

BreaksTold == \A n \in Names : Broke(n) => LateCopy(n)' \/ Unfinished(n)'

\* What a step does to the job it is of, and to none else.
Moves(j, op) ==
    /\ \A k \in Jobs \ {j} : jobs'[k] = jobs[k]
    /\ jobs'[j].op = op /\ StaysDone /\ OneDone(j)
    /\ jobs'[j].pc = "wait" => jobs[j].pc # "idle" /\ jobs'[j].i = jobs[j].i

\* Two steps that write one name contest it, where one can break the other's file.
LEMMA Contests ==
    ASSUME NEW n
    PROVE  /\ Filled(n) /\ Delivers(Delivering, n) => Contested(n)
           /\ Delivers({"copy"}, n) /\ Delivers({"hardlink"}, n) => Contested(n)
           /\ \A kind \in Delivering : Delivers({kind}, n) => Delivers(Delivering, n)
<1>1. ASSUME Filled(n), Delivers(Delivering, n) PROVE Contested(n)
  <2>1. PICK j \in Jobs : \E i \in Steps(j) : plan[j].steps[i] = "extract" /\ Writes(j, i, n)
    BY <1>1 DEF Filled
  <2>2. PICK i \in Steps(j) : plan[j].steps[i] = "extract" /\ Writes(j, i, n)
    BY <2>1
  <2>3. PICK k \in Jobs : plan[k].name = n /\ \E l \in Steps(k) : plan[k].steps[l] \in Delivering
    BY <1>1 DEF Delivers
  <2>4. PICK l \in Steps(k) : plan[k].steps[l] \in Delivering
    BY <2>3
  <2>5. Writes(k, l, n)
    BY <2>3, <2>4 DEF Writes
  <2>6. <<j, i>> # <<k, l>>
    BY <2>2, <2>4 DEF Delivering
  <2> QED BY <2>2, <2>5, <2>6 DEF Contested
<1>2. ASSUME Delivers({"copy"}, n), Delivers({"hardlink"}, n) PROVE Contested(n)
  <2>1. PICK j \in Jobs : plan[j].name = n /\ \E i \in Steps(j) : plan[j].steps[i] \in {"copy"}
    BY <1>2 DEF Delivers
  <2>2. PICK i \in Steps(j) : plan[j].steps[i] = "copy"
    BY <2>1
  <2>3. PICK k \in Jobs : plan[k].name = n /\ \E l \in Steps(k) : plan[k].steps[l] \in {"hardlink"}
    BY <1>2 DEF Delivers
  <2>4. PICK l \in Steps(k) : plan[k].steps[l] = "hardlink"
    BY <2>3
  <2>5. Writes(j, i, n) /\ Writes(k, l, n)
    BY <2>1, <2>2, <2>3, <2>4 DEF Writes, Delivering
  <2>6. <<j, i>> # <<k, l>>
    BY <2>2, <2>4
  <2> QED BY <2>2, <2>4, <2>5, <2>6 DEF Contested
<1>3. \A kind \in Delivering : Delivers({kind}, n) => Delivers(Delivering, n)
  BY DEF Delivers
<1> QED BY <1>1, <1>2, <1>3

\* Which names are contested, delivered and filled is settled by the plans.
LEMMA Settled ==
    ASSUME UNCHANGED plan, NEW n
    PROVE  /\ Contested(n)' <=> Contested(n)
           /\ Filled(n)' <=> Filled(n)
           /\ \A kinds : Delivers(kinds, n)' <=> Delivers(kinds, n)
BY DEF Contested, Filled, Delivers, Writes

\* An operation writes the destination under a name that is delivered, breaks it by a
\* copy that fails, and moves whole files of uncontested names.
LEMMA OpFiles ==
    ASSUME Types, FilesInv, NEW op \in Operation, Sound(op), Possible(op), Effect(op) \/ Damage(op), UNCHANGED plan
    PROVE  /\ FilesInv'
           /\ \A n \in Names : at'["dest"][n] = at["dest"][n] \/ (n = op.name /\ Delivers(Delivering, n))
           /\ \A n \in Names :
                 at'["dest"][n] = Broken /\ at["dest"][n] # Broken =>
                     Contested(n) \/ (n = op.name /\ op.kind = "copy" /\ ~Effect(op))
           /\ Effect(op) /\ op.kind = "copy" /\ at'["dest"][op.name] = Broken => Contested(op.name)
<1> PICK name : name = op.name
  OBVIOUS
<1>1. /\ Slots /\ Slots' /\ \A n \in Names \ {name} : Same(n)
      /\ Same(name) \/ Renamed(op) \/ Copied(op) \/ Linked(op) \/ Removed(op)
      /\ Effect(op) /\ op.kind = "copy" => Copied(op)
  BY OpSlots DEF Types, Disk
<1>2. /\ name \in Names /\ op.from \in {"work", "sub"} /\ op.from \in Places /\ op.to \in Places
      /\ Places = {"work", "sub", "dest"} /\ linked[name] \in {"work", "sub", "none"}
  BY <1>1 DEF Operation, Places, Slots
<1> PICK content : content = at[op.from][name]
  OBVIOUS
<1>3. /\ content \in Files => NameOf[content] = name
      /\ content = Broken => Contested(name)
  BY <1>2 DEF FilesInv, Named, DirWhole
<1>4. /\ op.kind = "copy" => Delivers({"copy"}, name) /\ Delivers(Delivering, name)
      /\ op.kind = "link" => Delivers({"hardlink"}, name) /\ Delivers(Delivering, name)
      /\ op.kind = "rename" /\ op.to = "dest" => Delivers(Delivering, name)
      /\ op.kind = "copy" /\ linked[name] # "none" => Contested(name)
  BY <1>2, Contests DEF Sound, Delivering, FilesInv, LinksSound
<1>5. \A n \in Names : Same(n) => /\ \A p \in Places : at'[p][n] = at[p][n]
                                  /\ linked'[n] = linked[n]
  BY DEF Same
<1>6. \A p \in Places : \/ at'[p][name] \in {at[p][name], content, Nothing}
                        \/ op.kind = "copy" /\ at'[p][name] = Broken
  <2>1. CASE Renamed(op)
    BY <1>2, <2>1 DEF Renamed
  <2>2. CASE Copied(op)
    BY <1>2, <2>2 DEF Copied
  <2>3. CASE Linked(op)
    BY <1>2, <2>3 DEF Linked
  <2>4. CASE Removed(op)
    BY <1>2, <2>4 DEF Removed
  <2> QED BY <1>1, <1>2, <1>5, <2>1, <2>2, <2>3, <2>4
<1>7. \A p \in {"work", "sub"} : at'[p][name] = Broken => Contested(name)
  <2> SUFFICES ASSUME NEW p \in {"work", "sub"}, at'[p][name] = Broken, ~Contested(name) PROVE FALSE
    OBVIOUS
  <2>1. p \in Places /\ at[p][name] # Broken /\ content # Broken /\ p # "dest"
    BY <1>2, <1>3 DEF FilesInv, DirWhole
  <2>2. op.kind = "copy" /\ linked[name] = "none"
    BY <1>4, <1>6, <2>1, PipelineAssumption
  <2>3. at'[p][name] = at[p][name]
    BY <1>1, <1>2, <1>5, <2>1, <2>2 DEF Renamed, Copied, Linked, Removed
  <2> QED BY <2>1, <2>3
<1>8. linked'[name] # "none" => linked[name] # "none" \/ Delivers({"hardlink"}, name)
  <2>1. CASE Renamed(op)
    <3>1. linked[name] = "none" => linked'[name] = "none"
      BY <1>2, <2>1 DEF Renamed
    <3> QED BY <3>1
  <2>2. CASE Copied(op) \/ Removed(op) \/ Linked(op)
    BY <1>2, <1>4, <2>2 DEF Copied, Removed, Linked
  <2> QED BY <1>1, <1>2, <1>5, <2>1, <2>2
<1>9. Named' /\ DirWhole' /\ LinksSound'
  <2>1. ASSUME NEW p \in Places, NEW n \in Names, at'[p][n] \in Files PROVE NameOf[at'[p][n]] = n
    <3>1. CASE n = name
      <4>1. at[p][name] \in Files => NameOf[at[p][name]] = name
        BY <1>2 DEF FilesInv, Named
      <4> QED BY <1>3, <1>6, <2>1, <3>1, <4>1, PipelineAssumption
    <3>2. CASE n # name
      BY <1>1, <1>5, <2>1, <3>2 DEF FilesInv, Named
    <3> QED BY <3>1, <3>2
  <2>2. ASSUME NEW p \in {"work", "sub"}, NEW n \in Names, at'[p][n] = Broken PROVE Contested(n)
    BY <1>1, <1>2, <1>5, <1>7, <2>2 DEF FilesInv, DirWhole
  <2>3. ASSUME NEW n \in Names, linked'[n] # "none" PROVE Delivers({"hardlink"}, n)
    BY <1>1, <1>5, <1>8, <2>3 DEF FilesInv, LinksSound
  <2> QED BY <2>1, <2>2, <2>3, Settled DEF Named, DirWhole, LinksSound
<1>10. ASSUME NEW n \in Names, at'["dest"][n] # at["dest"][n]
       PROVE  n = name /\ Delivers(Delivering, n)
  <2>1. n = name
    BY <1>1, <1>2, <1>5, <1>10
  <2>2. ~Same(name)
    BY <1>2, <1>5, <1>10, <2>1
  <2>3. ~Removed(op)
    BY <1>2, <1>10, <2>1 DEF Removed
  <2> QED BY <1>1, <1>2, <1>4, <1>10, <2>1, <2>2, <2>3 DEF Renamed, Copied, Linked
<1>11. Copied(op) => at'["dest"][name] \in {content, Broken} /\ (Effect(op) => at'["dest"][name] = content \/ linked[name] # "none")
  BY <1>2 DEF Copied
<1>12. Effect(op) /\ op.kind = "copy" /\ at'["dest"][name] = Broken => Contested(name)
  BY <1>1, <1>3, <1>4, <1>11
<1>13. ASSUME NEW n \in Names, at'["dest"][n] = Broken, at["dest"][n] # Broken, ~Contested(n)
       PROVE  n = name /\ op.kind = "copy" /\ ~Effect(op)
  <2>1. n = name
    BY <1>10, <1>13
  <2>2. op.kind = "copy"
    BY <1>2, <1>3, <1>6, <1>13, <2>1, PipelineAssumption
  <2> QED BY <1>12, <1>13, <2>1, <2>2
<1> QED BY <1>9, <1>10, <1>12, <1>13 DEF FilesInv

\* A whole file alone under its name stays safe from it, unless it was extracted.
LEMMA OpSafe ==
    ASSUME Types, FilesInv, NEW op \in Operation, Sound(op), Possible(op), Effect(op) \/ Damage(op), UNCHANGED plan
    PROVE  SafeStays
<1> SUFFICES ASSUME NEW f \in Files, Alone(f), ~Contested(NameOf[f]), Safe(f), ~Extracted(NameOf[f])
             PROVE  Safe(f)'
  BY DEF SafeStays
<1> PICK name : name = NameOf[f]
  OBVIOUS
<1>1. /\ Slots /\ \A n \in Names \ {op.name} : Same(n)
      /\ Same(op.name) \/ Renamed(op) \/ Copied(op) \/ Linked(op) \/ Removed(op)
  BY OpSlots DEF Types, Disk
<1>2. /\ name \in Names /\ op.from \in {"work", "sub"} /\ op.from \in Places /\ op.to \in Places
      /\ Places = {"work", "sub", "dest"} /\ (Filled(name)' <=> Filled(name))
  BY Settled DEF Operation, Places, Names
<1>3. Same(name) => Safe(f)'
  BY <1>2 DEF Same, Safe
<1>4. CASE op.name = name /\ There(op.from, name)
  <2>1. at[op.from][name] = f
    <3>1. at[op.from][name] \in Files
      BY <1>1, <1>2, <1>4 DEF Slots, There, FilesInv, DirWhole
    <3>2. NameOf[at[op.from][name]] = name
      BY <1>2, <3>1 DEF FilesInv, Named
    <3> QED BY <3>1, <3>2 DEF Alone
  <2>2. CASE Renamed(op)
    <3>1. at'[op.to][name] = f
      BY <1>4, <2>1, <2>2 DEF Renamed
    <3>2. op.to = "dest" => ~Filled(name)
      <4>1. op.to = "dest" => Delivers(Delivering, name)
        BY <1>4, <2>2, Contests DEF Renamed, Sound, Delivering
      <4> QED BY <4>1, Contests
    <3> QED BY <1>2, <3>1, <3>2 DEF Safe
  <2>3. CASE Copied(op)
    <3>1. linked[name] = "none"
      BY <1>2, <1>4, <2>3, Contests DEF Copied, Sound, FilesInv, LinksSound
    <3>2. at'[op.from][name] = f
      BY <1>2, <1>4, <2>1, <2>3, <3>1 DEF Copied
    <3> QED BY <1>2, <3>2 DEF Safe
  <2>4. CASE Linked(op)
    BY <1>2, <1>4, <2>1, <2>4 DEF Linked, Safe
  <2>5. ~Removed(op)
    BY <1>4 DEF Removed, Sound
  <2> QED BY <1>1, <1>3, <1>4, <2>2, <2>3, <2>4, <2>5
<1>5. CASE op.name = name /\ ~There(op.from, name)
  <2>1. ~Removed(op)
    BY <1>5 DEF Removed, Sound
  <2> QED BY <1>1, <1>3, <1>5, <2>1 DEF Renamed, Copied, Linked
<1> QED BY <1>1, <1>2, <1>3, <1>4, <1>5


\* The files stay as they are.
LEMMA SameDisk ==
    ASSUME FilesInv, UNCHANGED <<at, linked, plan>>
    PROVE  FilesInv' /\ SafeStays /\ DestChanges /\ BreaksTold
<1>1. FilesInv'
  BY Settled DEF FilesInv, Named, DirWhole, LinksSound
<1>2. SafeStays
  BY Settled DEF SafeStays, Safe
<1> QED BY <1>1, <1>2 DEF DestChanges, BreaksTold, Broke

\* Extraction writes whole files, and breaks only what an extraction fills.
LEMMA PlacedFiles ==
    ASSUME JobsInv, FilesInv, NEW j \in Jobs, jobs[j].pc # "idle", Kind(j) = "extract",
           NEW files \in SUBSET Files, NEW torn \in SUBSET Files,
           files \subseteq IF Mine(j) \in Files THEN Inside[Mine(j)] ELSE {},
           torn \subseteq IF Mine(j) \in Files THEN Inside[Mine(j)] ELSE {},
           Placed(files, torn), UNCHANGED plan
    PROVE  FilesInv' /\ SafeStays /\ DestChanges /\ BreaksTold
<1> PICK i, a : i = jobs[j].i /\ a = Mine(j)
  OBVIOUS
<1>1. /\ Types /\ Slots /\ i \in Steps(j) /\ plan[j].steps[i] = "extract" /\ jobs[j].steps[i] # "completed"
      /\ plan[j].name \in Names /\ plan[j].place \in {"work", "sub"} /\ Places = {"work", "sub", "dest"}
  BY AtStep, PlanSteps DEF JobsInv, Types, Disk, Kind, Places
<1>2. a \in Files => NameOf[a] = plan[j].name
  BY <1>1 DEF Mine, FilesInv, Named
<1>3. ASSUME NEW n, \E f \in files \cup torn : NameOf[f] = n PROVE Writes(j, i, n)
  <2>1. a \in Files /\ \E f \in Inside[a] : NameOf[f] = n
    BY <1>3
  <2> QED BY <1>1, <1>2, <2>1 DEF Writes
<1>4. \A n : Writes(j, i, n) => Filled(n)
  BY <1>1 DEF Filled
<1>5. \A p \in {"work", "sub"}, n \in Names : at'[p][n] = at[p][n]
  BY <1>1, PlacedSlots
<1>6. ASSUME NEW n \in Names
      PROVE  \/ at'["dest"][n] = at["dest"][n] /\ linked'[n] = linked[n]
             \/ /\ Writes(j, i, n) /\ linked'[n] = "none"
                /\ at'["dest"][n] = Broken \/ NameOf[at'["dest"][n]] = n
  <2>1. \/ Same(n)
        \/ /\ linked'[n] = "none" /\ \E f \in files \cup torn : NameOf[f] = n
           /\ at'["dest"][n] = Broken \/ NameOf[at'["dest"][n]] = n
    <3>1. Filling(n, files, torn)
      BY <1>1, PlacedSlots
    <3> QED BY ONLY <3>1 DEF Filling
  <2> QED BY <1>1, <1>3, <2>1 DEF Same
<1>7. FilesInv'
  <2>1. Named'
    BY <1>1, <1>5, <1>6, PipelineAssumption DEF FilesInv, Named
  <2>2. DirWhole'
    BY <1>5, Settled DEF FilesInv, DirWhole
  <2>3. LinksSound'
    BY <1>6, Settled DEF FilesInv, LinksSound
  <2> QED BY <2>1, <2>2, <2>3 DEF FilesInv
<1>8. SafeStays
  <2> SUFFICES ASSUME NEW f \in Files, Safe(f) PROVE Safe(f)'
    BY DEF SafeStays
  <2>1. NameOf[f] \in Names
    BY DEF Names
  <2> QED BY <1>4, <1>5, <1>6, <2>1, Settled DEF Safe
<1>9. DestChanges
  BY <1>1, <1>6 DEF DestChanges
<1>10. BreaksTold
  BY <1>4, <1>6 DEF BreaksTold, Broke
<1> QED BY <1>7, <1>8, <1>9, <1>10

\* What is extracted stays so, and operations stay sound.
LEMMA SoundStays ==
    ASSUME StaysDone, UNCHANGED plan
    PROVE  /\ \A name : Extracted(name) => Extracted(name)'
           /\ \A op : Sound(op) => Sound(op)'
<1>1. \A name : Extracted(name) => Extracted(name)'
  BY DEF StaysDone, Extracted
<1> QED BY <1>1, Settled DEF Sound

\* A step keeps the invariant if it keeps the files and their marks, and completes an
\* extraction only with its yield, a copy only with a whole file.
LEMMA LossStays ==
    ASSUME IInv, LossInv, UNCHANGED plan, StaysDone, OpsSound', FilesInv', SafeStays, DestChanges, BreaksTold,
           \A n \in Names : LateCopy(n) => LateCopy(n)',
           \A j \in Jobs : \A i \in Steps(j) :
               jobs'[j].steps[i] = "completed" /\ jobs[j].steps[i] # "completed" =>
                   /\ plan[j].steps[i] = "extract" =>
                         \A f \in Files : Alone(f) /\ NameOf[f] = plan[j].name => Yielded(f)'
                   /\ plan[j].steps[i] = "copy" /\ at'["dest"][plan[j].name] = Broken => Contested(plan[j].name)
    PROVE  LossInv'
<1>1. Kept'
  <2> SUFFICES ASSUME NEW f \in Files, Begun(f), Alone(f), ~Contested(NameOf[f])
               PROVE  Safe(f)' \/ Extracted(NameOf[f])'
    BY Settled DEF Kept, Begun, Alone
  <2>1. Safe(f) \/ Extracted(NameOf[f])
    BY DEF LossInv, Kept
  <2> QED BY <2>1, SoundStays DEF SafeStays
<1>2. DestWhole'
  <2> SUFFICES ASSUME NEW n \in Names, at'["dest"][n] = Broken, ~Contested(n), ~Filled(n)
               PROVE  LateCopy(n)' \/ Unfinished(n)'
    BY Settled DEF DestWhole
  <2>1. CASE at["dest"][n] # Broken
    BY <2>1 DEF BreaksTold, Broke
  <2>2. CASE at["dest"][n] = Broken /\ LateCopy(n)
    BY <2>2
  <2>3. CASE at["dest"][n] = Broken /\ ~LateCopy(n)
    <3>1. Unfinished(n)
      BY <2>3 DEF LossInv, DestWhole
    <3>2. PICK j \in Jobs : plan[j].name = n /\ \E i \in Steps(j) :
              plan[j].steps[i] = "copy" /\ jobs[j].steps[i] # "completed"
      BY <3>1 DEF Unfinished
    <3>3. PICK i \in Steps(j) : plan[j].steps[i] = "copy" /\ jobs[j].steps[i] # "completed"
      BY <3>2
    <3>4. jobs'[j].steps[i] # "completed"
      BY <3>2, <3>3
    <3> QED BY <3>2, <3>3, <3>4 DEF Unfinished
  <2> QED BY <2>1, <2>2, <2>3
<1>3. ASSUME NEW f \in Files, Alone(f), Extracted(NameOf[f])
      PROVE  Yielded(f)'
  <2>1. Yielded(f)
    BY <1>3 DEF LossInv, Held
  <2>2. PICK k \in Jobs : \E m \in Steps(k) :
            plan[k].steps[m] = "extract" /\ jobs[k].steps[m] = "completed" /\ plan[k].name = NameOf[f]
    BY <1>3 DEF Extracted
  <2>3. PICK m \in Steps(k) :
            plan[k].steps[m] = "extract" /\ jobs[k].steps[m] = "completed" /\ plan[k].name = NameOf[f]
    BY <2>2
  <2>4. ASSUME NEW g \in Inside[f], ~Contested(NameOf[g]) PROVE at'["dest"][NameOf[g]] = g
    <3>1. g \in Files /\ NameOf[g] \in Names
      BY PipelineAssumption DEF Names
    <3>2. Writes(k, m, NameOf[g]) /\ Filled(NameOf[g])
      BY <2>3 DEF Writes, Filled
    <3>3. at["dest"][NameOf[g]] = g
      BY <2>1, <2>4 DEF Yielded
    <3>4. ~Delivers(Delivering, NameOf[g])
      BY <2>4, <3>2, Contests
    <3>5. ASSUME NEW j \in Jobs, NEW i \in Steps(j), Writes(j, i, NameOf[g]) PROVE jobs[j].steps[i] = "completed"
      <4>1. <<j, i>> = <<k, m>>
        BY <2>3, <2>4, <3>2, <3>5 DEF Contested
      <4> QED BY <2>3, <4>1
    <3> QED BY <3>1, <3>3, <3>4, <3>5 DEF DestChanges
  <2> QED BY <2>1, <2>4, Settled DEF Yielded
<1>4. ASSUME NEW f \in Files, Alone(f), Extracted(NameOf[f])', ~Extracted(NameOf[f])
      PROVE  Yielded(f)'
  <2>1. PICK k \in Jobs : \E m \in Steps(k) :
            plan[k].steps[m] = "extract" /\ jobs'[k].steps[m] = "completed" /\ plan[k].name = NameOf[f]
    BY <1>4 DEF Extracted
  <2>2. PICK m \in Steps(k) :
            plan[k].steps[m] = "extract" /\ jobs'[k].steps[m] = "completed" /\ plan[k].name = NameOf[f]
    BY <2>1
  <2>3. jobs[k].steps[m] # "completed"
    BY <1>4, <2>2 DEF Extracted
  <2> QED BY <1>4, <2>2, <2>3
<1>5. Held'
  BY <1>3, <1>4 DEF Held, Alone
<1> QED BY <1>1, <1>2, <1>5 DEF LossInv

\* A step of a job.
LEMMA LossStep ==
    ASSUME IInv, LossInv, NEW j \in Jobs, NEW op, Moves(j, op), Sound(op), UNCHANGED plan, PoolSound',
           FilesInv', SafeStays, DestChanges, BreaksTold,
           \A n \in Names : LateCopy(n) => LateCopy(n)',
           jobs'[j].pc = "wait" => Kind(j) # "extract",
           \/ NoneDone
           \/ /\ Kind(j) = "extract" =>
                    \A f \in Files : Alone(f) /\ NameOf[f] = plan[j].name => Yielded(f)'
              /\ Kind(j) = "copy" /\ at'["dest"][plan[j].name] = Broken => Contested(plan[j].name)
    PROVE  LossInv'
<1>1. StaysDone /\ OneDone(j) /\ \A k \in Jobs \ {j} : jobs'[k] = jobs[k]
  BY DEF Moves
<1>2. OpsSound'
  <2>1. Sound(jobs[j].op)' /\ (jobs'[j].pc = "wait" => Kind(j)' # "extract")
    <3>1. jobs'[j].op = op /\ Sound(op)'
      BY <1>1, SoundStays DEF Moves
    <3> QED BY <3>1 DEF Moves, Kind, Sound
  <2>2. \A k \in Jobs \ {j} : Sound(jobs[k].op)' /\ (jobs'[k].pc = "wait" => Kind(k)' # "extract")
    <3> SUFFICES ASSUME NEW k \in Jobs \ {j}
                 PROVE  Sound(jobs[k].op)' /\ (jobs'[k].pc = "wait" => Kind(k)' # "extract")
      OBVIOUS
    <3>1. jobs'[k] = jobs[k] /\ Sound(jobs[k].op) /\ (jobs[k].pc = "wait" => Kind(k) # "extract")
      BY <1>1 DEF LossInv, OpsSound
    <3> PICK o : o = jobs[k].op
      OBVIOUS
    <3>2. Sound(o)'
      BY <1>1, <3>1, SoundStays
    <3> QED BY <3>1, <3>2 DEF Sound, Kind
  <2> QED BY <2>1, <2>2 DEF OpsSound
<1>3. ASSUME NEW k \in Jobs, NEW i \in Steps(k), jobs'[k].steps[i] = "completed", jobs[k].steps[i] # "completed"
      PROVE  /\ plan[k].steps[i] = "extract" =>
                   \A f \in Files : Alone(f) /\ NameOf[f] = plan[k].name => Yielded(f)'
             /\ plan[k].steps[i] = "copy" /\ at'["dest"][plan[k].name] = Broken => Contested(plan[k].name)
  <2>1. k = j /\ plan[k].steps[i] = Kind(j) /\ ~NoneDone
    BY <1>1, <1>3 DEF OneDone, NoneDone, Kind
  <2> QED BY <2>1
<1> QED BY <1>1, <1>2, <1>3, LossStays

LEMMA SoundIdle == Sound(Idle)
BY DEF Sound, Idle

LEMMA SucceedMoves ==
    ASSUME JobsInv, NEW j \in Jobs, jobs[j].pc # "idle", Succeed(j), UNCHANGED plan
    PROVE  Moves(j, Idle) /\ jobs'[j].pc # "wait"
<1>1. jobs \in [Jobs -> Job] /\ jobs[j] \in Job /\ jobs[j].steps \in [Steps(j) -> StepState]
  BY DEF JobsInv, Types
<1>2. /\ \A k \in Jobs \ {j} : jobs'[k] = jobs[k]
      /\ jobs'[j].op = Idle /\ jobs'[j].pc \in {"idle", "ready"}
      /\ jobs'[j].steps = [jobs[j].steps EXCEPT ![jobs[j].i] = "completed"]
  BY <1>1 DEF Succeed, Job
<1>3. \A k \in Steps(j) :
          jobs'[j].steps[k] = IF k = jobs[j].i THEN "completed" ELSE jobs[j].steps[k]
  BY <1>1, <1>2
<1> QED BY <1>2, <1>3 DEF Moves, StaysDone, OneDone

LEMMA FailMoves ==
    ASSUME JobsInv, NEW j \in Jobs, jobs[j].pc # "idle", Fail(j)
    PROVE  Moves(j, Idle) /\ NoneDone /\ jobs'[j].pc # "wait"
<1>1. jobs \in [Jobs -> Job] /\ jobs[j] \in Job /\ jobs[j].steps \in [Steps(j) -> StepState]
      /\ jobs[j].steps[jobs[j].i] # "completed"
  BY AtStep DEF JobsInv, Types
<1>2. /\ \A k \in Jobs \ {j} : jobs'[k] = jobs[k]
      /\ jobs'[j].op = Idle /\ jobs'[j].pc = "idle"
      /\ jobs'[j].steps = [jobs[j].steps EXCEPT ![jobs[j].i] = "failed"]
  BY <1>1 DEF Fail, Job
<1>3. \A k \in Steps(j) : jobs'[j].steps[k] = "completed" <=> jobs[j].steps[k] = "completed"
  BY <1>1, <1>2
<1> QED BY <1>2, <1>3 DEF Moves, StaysDone, OneDone, NoneDone

LEMMA IssueMoves ==
    ASSUME JobsInv, NEW j \in Jobs, jobs[j].pc # "idle", NEW op, Issue(j, op)
    PROVE  Moves(j, op) /\ NoneDone
<1>1. jobs \in [Jobs -> Job] /\ jobs[j] \in Job /\ jobs[j].steps \in [Steps(j) -> StepState]
      /\ jobs[j].steps[jobs[j].i] # "completed"
  BY AtStep DEF JobsInv, Types
<1>2. /\ \A k \in Jobs \ {j} : jobs'[k] = jobs[k]
      /\ jobs'[j].op = op /\ jobs'[j].i = jobs[j].i
      /\ jobs'[j].steps = [jobs[j].steps EXCEPT ![jobs[j].i] = "running"]
  BY <1>1 DEF Issue, Job
<1>3. \A k \in Steps(j) : jobs'[j].steps[k] = "completed" <=> jobs[j].steps[k] = "completed"
  BY <1>1, <1>2
<1> QED BY <1>2, <1>3 DEF Moves, StaysDone, OneDone, NoneDone

LEMMA ChildMoves ==
    ASSUME JobsInv, NEW j \in Jobs, jobs[j].pc = "wait", NEW left, NextChild(j, left), UNCHANGED plan
    PROVE  \E op : Moves(j, op) /\ Sound(op)
<1>1. jobs \in [Jobs -> Job] /\ jobs[j] \in Job
  BY DEF JobsInv, Types
<1>2. CASE Succeed(j)
  BY <1>2, SucceedMoves, SoundIdle
<1>3. ASSUME NEW op, NEW rest, jobs' = [jobs EXCEPT ![j].op = op, ![j].left = rest]
      PROVE  Moves(j, op)
  <2>1. /\ \A k \in Jobs \ {j} : jobs'[k] = jobs[k]
        /\ jobs'[j].op = op /\ jobs'[j].i = jobs[j].i /\ jobs'[j].steps = jobs[j].steps
    BY <1>1, <1>3 DEF Job
  <2> QED BY <2>1 DEF Moves, StaysDone, OneDone
<1>4. ASSUME NEW n \in left, jobs' = [jobs EXCEPT ![j].op = Op("rename", n, "sub", "work"), ![j].left = left \ {n}]
      PROVE  \E op : Moves(j, op) /\ Sound(op)
  <2>1. Moves(j, Op("rename", n, "sub", "work"))
    BY <1>3, <1>4
  <2>2. Sound(Op("rename", n, "sub", "work"))
    BY DEF Sound, Op
  <2> QED BY <2>1, <2>2
<1>5. ASSUME jobs' = [jobs EXCEPT ![j].op = OnTarget(j, "rmdir", "work"), ![j].left = {}]
      PROVE  \E op : Moves(j, op) /\ Sound(op)
  <2>1. Moves(j, OnTarget(j, "rmdir", "work"))
    BY <1>3, <1>5
  <2>2. Sound(OnTarget(j, "rmdir", "work"))
    BY DEF Sound, OnTarget, Op
  <2> QED BY <2>1, <2>2
<1> QED BY <1>2, <1>4, <1>5 DEF NextChild

\* A step that changes no file, and completes neither an extraction nor a copy.
LEMMA IdleLoss ==
    ASSUME NEW j \in Jobs, IInv, LossInv, UNCHANGED <<plan, pool, at, linked>>,
           NEW op, Moves(j, op), Sound(op), jobs'[j].pc = "wait" => Kind(j) # "extract",
           NoneDone \/ Kind(j) \notin {"extract", "copy"}
    PROVE  LossInv'
<1>1. FilesInv' /\ SafeStays /\ DestChanges /\ BreaksTold
  BY SameDisk DEF LossInv
<1>2. PoolSound' /\ \A n \in Names : LateCopy(n) => LateCopy(n)'
  BY SoundStays DEF LossInv, OpsSound, PoolSound, LateCopy, Moves
<1> QED BY <1>1, <1>2, LossStep

\* The steps that wait for the pool, or end at once, and leave the files alone.
LEMMA SimpleLoss ==
    ASSUME NEW j \in Jobs, IInv, LossInv,
           \/ Verify(j) \/ Deliver(j) \/ InspectMedia(j) \/ Flatten(j) \/ Rename(j) \/ Cleanup(j)
           \/ CustomHook(j) \/ RunInstaller(j)
    PROVE  LossInv'
<1>1. UNCHANGED <<plan, pool, at, linked>> /\ jobs[j].pc # "idle" /\ Kind(j) # "extract" /\ JobsInv
  BY DEF Verify, Deliver, InspectMedia, Flatten, Rename, Cleanup, CustomHook, RunInstaller, At, disk, IInv
<1>2. ASSUME NEW op, Issue(j, op), Sound(op) PROVE LossInv'
  BY <1>1, <1>2, IssueMoves, IdleLoss
<1>3. CASE Fail(j)
  BY <1>1, <1>3, FailMoves, SoundIdle, IdleLoss
<1>4. CASE Succeed(j) /\ Kind(j) # "copy"
  BY <1>1, <1>4, SucceedMoves, SoundIdle, IdleLoss
<1>5. \A kind, to : /\ OnTarget(j, kind, to).kind = kind /\ OnTarget(j, kind, to).to = to
                    /\ OnTarget(j, kind, to).from = plan[j].place
                    /\ OnTarget(j, kind, to).name = plan[j].name
  BY DEF OnTarget, Op
<1>6. CASE \E kind \in {"look", "probe", "list"} : Issue(j, OnTarget(j, kind, "work"))
  BY <1>2, <1>5, <1>6 DEF Sound
<1>7. CASE Deliver(j)
  <2>1. \/ Kind(j) = "move" /\ Issue(j, OnTarget(j, "rename", "dest"))
        \/ Kind(j) = "copy" /\ Issue(j, OnTarget(j, "copy", "dest"))
        \/ Kind(j) = "hardlink" /\ Issue(j, OnTarget(j, "link", "dest"))
    BY <1>7 DEF Deliver, At
  <2>2. jobs[j].i \in Steps(j)
    BY <1>1, AtStep
  <2>3. \A kind : Kind(j) = kind => Delivers({kind}, plan[j].name)
    BY <2>2 DEF Delivers, Kind
  <2> QED BY <1>2, <1>5, <2>1, <2>3 DEF Sound
<1>8. CASE plan[j].sane \in {"work", "sub"} /\ Issue(j, OnTarget(j, "rename", plan[j].sane))
  BY <1>2, <1>5, <1>8 DEF Sound
<1>9. CASE ExtractedBefore(j) /\ Issue(j, OnTarget(j, "remove", "work"))
  <2>1. PICK k \in 1 .. jobs[j].i - 1 : plan[j].steps[k] = "extract" /\ jobs[j].steps[k] = "completed"
    BY <1>9 DEF ExtractedBefore
  <2>2. k \in Steps(j)
    BY <1>1, AtStep, PlanSteps DEF JobsInv
  <2>3. Extracted(plan[j].name)
    BY <2>1, <2>2 DEF Extracted
  <2> QED BY <1>2, <1>5, <1>9, <2>3 DEF Sound
<1>10. ASSUME ~Deliver(j)
       PROVE  \/ Fail(j) \/ (Succeed(j) /\ Kind(j) # "copy")
              \/ \E kind \in {"look", "probe", "list"} : Issue(j, OnTarget(j, kind, "work"))
              \/ plan[j].sane \in {"work", "sub"} /\ Issue(j, OnTarget(j, "rename", plan[j].sane))
              \/ ExtractedBefore(j) /\ Issue(j, OnTarget(j, "remove", "work"))
  <2>1. CASE Rename(j)
    <3>1. plan[j].sane \in {"work", "sub", Unsafe} /\ Kind(j) # "copy"
      BY <1>1, <2>1, PlanSteps DEF JobsInv, Rename, At
    <3> QED BY <2>1, <3>1 DEF Rename
  <2>2. CASE Verify(j) \/ InspectMedia(j) \/ Flatten(j) \/ CustomHook(j)
    BY <2>2 DEF Verify, InspectMedia, Flatten, CustomHook
  <2>3. CASE Cleanup(j) \/ RunInstaller(j)
    BY <2>3 DEF Cleanup, RunInstaller, At
  <2> QED BY <1>10, <2>1, <2>2, <2>3
<1> QED BY <1>3, <1>4, <1>6, <1>7, <1>8, <1>9, <1>10

LEMMA ExtractLoss == ASSUME NEW j \in Jobs, IInv, LossInv, Extract(j) PROVE LossInv'
<1> DEFINE held == IF Mine(j) \in Files THEN Inside[Mine(j)] ELSE {}
<1>1. /\ UNCHANGED <<plan, pool>> /\ jobs[j].pc # "idle" /\ Kind(j) = "extract" /\ JobsInv /\ FilesInv
      /\ held \in SUBSET Files
  BY PipelineAssumption DEF Extract, At, IInv, LossInv
<1>2. \/ held # {} /\ Placed(held, {}) /\ Succeed(j)
      \/ Fail(j) /\ (UNCHANGED <<at, linked>> \/ \E some, torn \in SUBSET held : Placed(some, torn))
  BY DEF Extract
<1>3. FilesInv' /\ SafeStays /\ DestChanges /\ BreaksTold
  <2>1. ASSUME NEW some \in SUBSET held, NEW torn \in SUBSET held, Placed(some, torn)
        PROVE  FilesInv' /\ SafeStays /\ DestChanges /\ BreaksTold
    <3>1. some \in SUBSET Files /\ torn \in SUBSET Files
      BY <1>1
    <3> QED BY <1>1, <2>1, <3>1, PlacedFiles
  <2>2. CASE UNCHANGED <<at, linked>>
    BY <1>1, <2>2, SameDisk
  <2>3. {} \in SUBSET held /\ held \in SUBSET held
    OBVIOUS
  <2> HIDE DEF held
  <2> QED BY <1>2, <2>1, <2>2, <2>3
<1>4. Moves(j, Idle) /\ jobs'[j].pc # "wait" /\ (Fail(j) => NoneDone)
  BY <1>1, <1>2, SucceedMoves, FailMoves
<1>5. PoolSound' /\ \A n \in Names : LateCopy(n) => LateCopy(n)'
  BY <1>1, <1>4, SoundStays DEF LossInv, OpsSound, PoolSound, LateCopy, Moves
<1>6. CASE Fail(j)
  BY <1>1, <1>3, <1>4, <1>5, <1>6, SoundIdle, LossStep
<1>7. CASE held # {} /\ Placed(held, {}) /\ Succeed(j)
  <2>1. ASSUME NEW f \in Files, Alone(f), NameOf[f] = plan[j].name PROVE Yielded(f)'
    <3>1. Mine(j) \in Files
      BY <1>7
    <3>2. NameOf[Mine(j)] = plan[j].name
      <4>1. plan[j].name \in Names /\ plan[j].place \in Places
        BY <1>1, PlanSteps DEF JobsInv, Places
      <4> QED BY <1>1, <3>1, <4>1 DEF Mine, FilesInv, Named
    <3>3. Mine(j) = f
      BY <2>1, <3>1, <3>2 DEF Alone
    <3>4. held = Inside[f] /\ Inside[f] # {} /\ \A g, h \in Inside[f] : NameOf[g] = NameOf[h] => g = h
      BY <1>7, <3>1, <3>3, PipelineAssumption
    <3>5. ASSUME NEW g \in Inside[f] PROVE at'["dest"][NameOf[g]] = g
      <4>1. held \in SUBSET Files /\ {} \in SUBSET Files /\ Placed(held, {}) /\ g \in Files /\ NameOf[g] \in Names
        BY <1>1, <1>7, <3>4 DEF Names
      <4>2. Filling(NameOf[g], held, {})
        <5> HIDE DEF held
        <5> QED BY <1>1, <4>1, PlacedSlots DEF JobsInv, Types, Disk
      <4>3. g \in held
        BY <3>4
      <4>4. at'["dest"][NameOf[g]] \in held /\ NameOf[at'["dest"][NameOf[g]]] = NameOf[g]
        <5> HIDE DEF held
        <5> QED BY <4>2, <4>3 DEF Filling
      <4> QED BY <3>4, <4>4
    <3> QED BY <3>4, <3>5 DEF Yielded
  <2>2. Kind(j) # "copy"
    BY <1>1
  <2> HIDE DEF held
  <2> QED BY <1>1, <1>3, <1>4, <1>5, <2>1, <2>2, SoundIdle, LossStep
<1> QED BY <1>2, <1>6, <1>7

LEMMA RunLoss == ASSUME NEW j \in Jobs, IInv, LossInv, Run(j) PROVE LossInv'
<1>1. jobs \in [Jobs -> Job] /\ jobs[j] \in Job /\ UNCHANGED <<plan, pool, at, linked>>
  BY DEF IInv, JobsInv, Types, Run, disk
<1>2. /\ \A k \in Jobs \ {j} : jobs'[k] = jobs[k]
      /\ jobs'[j].op = jobs[j].op /\ jobs'[j].pc # "wait" /\ jobs'[j].steps = jobs[j].steps
  BY <1>1 DEF Run, Job
<1>3. Moves(j, jobs[j].op) /\ NoneDone
  BY <1>2 DEF Moves, StaysDone, OneDone, NoneDone
<1>4. PICK op : op = jobs[j].op
  OBVIOUS
<1>5. Sound(op) /\ Moves(j, op)
  BY <1>3, <1>4 DEF LossInv, OpsSound, Moves
<1> QED BY <1>1, <1>2, <1>3, <1>5, IdleLoss

LEMMA DropLoss == ASSUME NEW j \in Jobs, IInv, LossInv, Drop(j) PROVE LossInv'
<1> PICK e : e = [op |-> jobs[j].op, over |-> FALSE]
  OBVIOUS
<1>1. /\ jobs \in [Jobs -> Job] /\ jobs[j] \in Job /\ UNCHANGED <<plan, at, linked>>
      /\ pool' = Append(pool, e) /\ Pool /\ FilesInv /\ Sound(e.op)
      /\ jobs[j].op \in Operation
  BY DEF IInv, JobsInv, Types, Drop, disk, LossInv, OpsSound, Waiting, Suits, Sound
<1>2. /\ \A k \in Jobs \ {j} : jobs'[k] = jobs[k]
      /\ jobs'[j].op = Idle /\ jobs'[j].pc # "wait" /\ jobs'[j].steps = jobs[j].steps
  BY <1>1 DEF Drop, Job
<1>3. Moves(j, Idle) /\ NoneDone
  BY <1>2 DEF Moves, StaysDone, OneDone, NoneDone
<1>4. /\ \A i \in DOMAIN pool : i \in DOMAIN pool' /\ pool'[i] = pool[i]
      /\ \A i \in DOMAIN pool' : i \in DOMAIN pool \/ pool'[i] = e
  <2>1. e \in [op : Operation, over : BOOLEAN]
    BY <1>1
  <2>2. /\ pool \in Seq([op : Operation, over : BOOLEAN]) /\ Len(pool) \in Nat
        /\ DOMAIN pool = 1 .. Len(pool)
    BY <1>1, LenProperties DEF Pool
  <2>3. /\ DOMAIN pool' = 1 .. Len(pool) + 1
        /\ \A i \in 1 .. Len(pool) : pool'[i] = pool[i]
        /\ pool'[Len(pool) + 1] = e
    BY <1>1, <2>1, <2>2, AppendProperties, LenProperties
  <2> QED BY <2>2, <2>3
<1>5. PoolSound'
  <2> SUFFICES ASSUME NEW i \in DOMAIN pool' PROVE Sound(pool[i].op)'
    BY DEF PoolSound
  <2> PICK o : o = pool'[i].op
    OBVIOUS
  <2>1. Sound(o)
    BY <1>1, <1>4 DEF LossInv, OpsSound, PoolSound
  <2>2. Sound(o)'
    BY <1>1, <1>3, <2>1, SoundStays DEF Moves
  <2> QED BY <2>2 DEF Sound
<1>6. \A n \in Names : LateCopy(n) => LateCopy(n)'
  BY <1>4 DEF LateCopy
<1>7. FilesInv' /\ SafeStays /\ DestChanges /\ BreaksTold
  BY <1>1, SameDisk
<1> QED BY <1>1, <1>2, <1>3, <1>5, <1>6, <1>7, SoundIdle, LossStep

LEMMA AnswerLoss == ASSUME NEW j \in Jobs, IInv, LossInv, Answer(j) PROVE LossInv'
<1> PICK op : op = jobs[j].op
  OBVIOUS
<1> DEFINE names == {n \in Names : There("sub", n)}
           goOn == CASE op.kind = "list" -> NextChild(j, names)
                      [] Kind(j) = "flatten" /\ op.kind = "rename" -> NextChild(j, jobs[j].left)
                      [] OTHER -> Succeed(j)
<1>1. /\ jobs[j].pc = "wait" /\ UNCHANGED <<plan, pool>> /\ JobsInv /\ Types /\ Sound(op) /\ FilesInv
      /\ Kind(j) # "extract" /\ Suits(j, Kind(j), op) /\ op \in Operation
      /\ jobs[j].i \in Steps(j) /\ jobs[j].steps[jobs[j].i] # "completed"
  BY AtStep DEF Answer, IInv, JobsInv, LossInv, OpsSound, Waiting, Suits
<1>2. \/ Possible(op) /\ Effect(op) /\ goOn
      \/ Possible(op) /\ Damage(op) /\ op.kind \in {"probe", "remove"} /\ Succeed(j)
      \/ Possible(op) /\ (Damage(op) \/ Effect(op)) /\ Fail(j)
      \/ Fail(j) /\ UNCHANGED <<at, linked>>
  BY DEF Answer, disk
<1>3. /\ Possible(op) /\ (Effect(op) \/ Damage(op)) =>
            /\ FilesInv' /\ SafeStays /\ DestChanges
            /\ \A n \in Names : Broke(n) => n = op.name /\ op.kind = "copy" /\ ~Effect(op)
            /\ Effect(op) /\ op.kind = "copy" /\ at'["dest"][op.name] = Broken => Contested(op.name)
      /\ UNCHANGED <<at, linked>> => FilesInv' /\ SafeStays /\ DestChanges /\ BreaksTold
  <2>1. CASE Possible(op) /\ (Effect(op) \/ Damage(op))
    <3>1. /\ FilesInv'
          /\ \A n \in Names : at'["dest"][n] = at["dest"][n] \/ (n = op.name /\ Delivers(Delivering, n))
          /\ \A n \in Names :
                at'["dest"][n] = Broken /\ at["dest"][n] # Broken =>
                    Contested(n) \/ (n = op.name /\ op.kind = "copy" /\ ~Effect(op))
          /\ Effect(op) /\ op.kind = "copy" /\ at'["dest"][op.name] = Broken => Contested(op.name)
      BY <1>1, <2>1, OpFiles
    <3>2. SafeStays
      BY <1>1, <2>1, OpSafe
    <3>3. DestChanges
      BY <3>1 DEF DestChanges
    <3>4. \A n \in Names : Broke(n) => n = op.name /\ op.kind = "copy" /\ ~Effect(op)
      BY <3>1 DEF Broke
    <3>5. UNCHANGED <<at, linked>> => BreaksTold
      BY DEF BreaksTold, Broke
    <3> QED BY <3>1, <3>2, <3>3, <3>4, <3>5
  <2> QED BY <1>1, <2>1, SameDisk
<1>4. ASSUME NEW o, Moves(j, o) PROVE PoolSound' /\ \A n \in Names : LateCopy(n) => LateCopy(n)'
  BY <1>1, <1>4, SoundStays DEF LossInv, OpsSound, PoolSound, LateCopy, Moves
<1>5. CASE Fail(j)
  <2>1. Moves(j, Idle) /\ NoneDone /\ jobs'[j].pc # "wait"
    BY <1>1, <1>5, FailMoves
  <2>2. CASE UNCHANGED <<at, linked>>
    BY <1>1, <1>3, <1>4, <2>1, <2>2, SoundIdle, LossStep
  <2>3. CASE Possible(op) /\ (Effect(op) \/ Damage(op))
    <3>1. BreaksTold
      <4> SUFFICES ASSUME NEW n \in Names, Broke(n) PROVE Unfinished(n)'
        BY DEF BreaksTold
      <4>1. n = op.name /\ op.kind = "copy"
        BY <1>3, <2>3
      <4>2. Kind(j) = "copy" /\ plan[j].name = n
        BY <1>1, <4>1 DEF Suits, Delivering
      <4>3. plan[j].steps[jobs[j].i] = "copy" /\ jobs'[j].steps[jobs[j].i] # "completed"
        BY <1>1, <2>1, <4>2 DEF Kind, NoneDone
      <4> QED BY <1>1, <4>2, <4>3 DEF Unfinished
    <3> QED BY <1>1, <1>3, <1>4, <2>1, <2>3, <3>1, SoundIdle, LossStep
  <2>4. UNCHANGED <<at, linked>> \/ (Possible(op) /\ (Effect(op) \/ Damage(op)))
    BY <1>5 DEF Answer, disk
  <2> QED BY <2>2, <2>3, <2>4
<1>6. CASE Succeed(j) /\ Possible(op) /\ (Effect(op) \/ (Damage(op) /\ op.kind \in {"probe", "remove"}))
  <2>1. Moves(j, Idle) /\ jobs'[j].pc # "wait"
    BY <1>1, <1>6, SucceedMoves
  <2>2. BreaksTold
    BY <1>3, <1>6 DEF BreaksTold
  <2>3. Kind(j) = "copy" /\ at'["dest"][plan[j].name] = Broken => Contested(plan[j].name)
    <3>1. Kind(j) = "copy" => op.kind = "copy" /\ op.name = plan[j].name
      BY <1>1 DEF Suits, Delivering
    <3> QED BY <1>3, <1>6, <3>1
  <2> QED BY <1>1, <1>3, <1>4, <1>6, <2>1, <2>2, <2>3, SoundIdle, LossStep
<1>7. ASSUME NEW left, NextChild(j, left), Possible(op), Effect(op), Kind(j) # "copy" PROVE LossInv'
  <2>1. PICK next : Moves(j, next) /\ Sound(next)
    BY <1>1, <1>7, ChildMoves
  <2>2. BreaksTold
    BY <1>3, <1>7 DEF BreaksTold
  <2> QED BY <1>1, <1>3, <1>4, <1>7, <2>1, <2>2, LossStep
<1>8. CASE Possible(op) /\ Effect(op) /\ goOn
  <2>1. Succeed(j) \/ (Kind(j) # "copy" /\ \E left : NextChild(j, left))
    <3>1. op.kind = "list" => Kind(j) # "copy"
      BY <1>1 DEF Suits
    <3> HIDE DEF names
    <3> QED BY <1>8, <3>1
  <2> QED BY <1>6, <1>7, <1>8, <2>1
<1> QED BY <1>2, <1>5, <1>6, <1>8

LEMMA LateLoss == ASSUME NEW i \in DOMAIN pool, IInv, LossInv, Late(i) PROVE LossInv'
<1> PICK op : op = pool[i].op
  OBVIOUS
<1>1. /\ UNCHANGED <<plan, jobs>> /\ Types /\ op \in Operation /\ Sound(op) /\ FilesInv
      /\ (Possible(op) /\ (Effect(op) \/ Damage(op))) \/ UNCHANGED <<at, linked>>
      /\ DOMAIN pool' = DOMAIN pool /\ pool'[i].over
      /\ \A k \in DOMAIN pool : pool'[k].op = pool[k].op /\ (pool[k].over => pool'[k].over)
  BY LeftBehind DEF Late, disk, IInv, JobsInv, LossInv, OpsSound, PoolSound
<1>2. StaysDone /\ NoneDone
  BY <1>1 DEF StaysDone, NoneDone
<1>3. OpsSound'
  <2>1. PoolSound'
    <3> SUFFICES ASSUME NEW k \in DOMAIN pool' PROVE Sound(pool[k].op)'
      BY <1>1 DEF PoolSound
    <3> PICK o : o = pool[k].op
      OBVIOUS
    <3>1. Sound(o) /\ pool'[k].op = o
      BY <1>1 DEF LossInv, OpsSound, PoolSound
    <3>2. Sound(o)'
      BY <1>1, <1>2, <3>1, SoundStays
    <3> QED BY <3>1, <3>2 DEF Sound
  <2>2. ASSUME NEW j \in Jobs PROVE Sound(jobs[j].op)' /\ (jobs'[j].pc = "wait" => Kind(j)' # "extract")
    <3> PICK o : o = jobs[j].op
      OBVIOUS
    <3>1. Sound(o) /\ jobs'[j].op = o /\ (jobs[j].pc = "wait" => Kind(j) # "extract")
      BY <1>1 DEF LossInv, OpsSound
    <3>2. Sound(o)'
      BY <1>1, <1>2, <3>1, SoundStays
    <3> QED BY <1>1, <3>1, <3>2 DEF Sound, Kind
  <2> QED BY <2>1, <2>2 DEF OpsSound
<1>4. \A n \in Names : LateCopy(n) => LateCopy(n)'
  BY <1>1 DEF LateCopy
<1>5. FilesInv' /\ SafeStays /\ DestChanges /\ BreaksTold
  <2>1. CASE UNCHANGED <<at, linked>>
    BY <1>1, <2>1, SameDisk
  <2>2. CASE Possible(op) /\ (Effect(op) \/ Damage(op))
    <3>1. /\ FilesInv'
          /\ \A n \in Names : at'["dest"][n] = at["dest"][n] \/ (n = op.name /\ Delivers(Delivering, n))
          /\ \A n \in Names :
                at'["dest"][n] = Broken /\ at["dest"][n] # Broken =>
                    Contested(n) \/ (n = op.name /\ op.kind = "copy" /\ ~Effect(op))
      BY <1>1, <2>2, OpFiles
    <3>2. SafeStays
      BY <1>1, <2>2, OpSafe
    <3>3. DestChanges
      BY <3>1 DEF DestChanges
    <3>4. op.kind = "copy" => LateCopy(op.name)'
      BY <1>1 DEF LateCopy
    <3>5. BreaksTold
      <4> SUFFICES ASSUME NEW n \in Names, Broke(n) PROVE LateCopy(n)'
        BY DEF BreaksTold
      <4>1. n = op.name /\ op.kind = "copy"
        BY <3>1 DEF Broke
      <4> QED BY <1>1, <4>1 DEF LateCopy
    <3> QED BY <3>1, <3>2, <3>3, <3>5
  <2> QED BY <1>1, <2>1, <2>2
<1> QED BY <1>1, <1>2, <1>3, <1>4, <1>5, LossStays DEF NoneDone

LEMMA InitLoss == Init => LossInv
<1> SUFFICES ASSUME Init PROVE LossInv
  OBVIOUS
<1>1. /\ DOMAIN pool = {} /\ at = Start /\ linked = [n \in Names |-> "none"]
      /\ \A j \in Jobs : jobs[j].op = Idle /\ jobs[j].pc = "idle" /\ \A k \in Steps(j) : jobs[j].steps[k] = "pending"
      /\ Places = {"work", "sub", "dest"}
  BY DEF Init, Places
<1>2. \A name : ~Extracted(name)
  BY <1>1 DEF Extracted
<1>3. OpsSound
  BY <1>1, SoundIdle DEF OpsSound, PoolSound
<1>4. \A p \in Places, n \in Names : at[p][n] # Broken /\ (at[p][n] \in Files => NameOf[at[p][n]] = n)
  BY <1>1, PipelineAssumption
<1>5. FilesInv /\ DestWhole
  BY <1>1, <1>4 DEF FilesInv, Named, DirWhole, LinksSound, DestWhole
<1>6. Kept
  <2> SUFFICES ASSUME NEW f \in Files, Begun(f) PROVE Safe(f) \/ FALSE
    BY DEF Kept
  <2> QED BY <1>1 DEF Begun, Safe
<1> QED BY <1>2, <1>3, <1>5, <1>6 DEF LossInv, Held

LEMMA NextLoss == IInv /\ LossInv /\ [Next]_vars => LossInv'
<1> SUFFICES ASSUME IInv, LossInv, [Next]_vars PROVE LossInv'
  OBVIOUS
<1>1. ASSUME NEW j \in Jobs, Run(j) \/ Step(j) \/ Drop(j) PROVE LossInv'
  BY <1>1, RunLoss, DropLoss, SimpleLoss, ExtractLoss, AnswerLoss DEF Step
<1>2. CASE \E i \in DOMAIN pool : Late(i)
  BY <1>2, LateLoss
<1>3. CASE UNCHANGED vars
  <2>1. FilesInv' /\ SafeStays /\ DestChanges /\ BreaksTold /\ UNCHANGED plan
    BY <1>3, SameDisk DEF vars, LossInv
  <2>2. StaysDone /\ NoneDone
    BY <1>3 DEF vars, StaysDone, NoneDone
  <2>3. OpsSound' /\ \A n \in Names : LateCopy(n) => LateCopy(n)'
    BY <1>3 DEF vars, LossInv, OpsSound, PoolSound, Sound, Delivers, Extracted, Kind, LateCopy
  <2> QED BY <2>1, <2>2, <2>3, LossStays DEF NoneDone
<1> QED BY <1>1, <1>2, <1>3 DEF Next

\* A file of the work directory that is alone under its name, which no steps contest, is
\* lost only as an archive that was extracted, and what it held is there: whatever the
\* jobs, their failures, and operations that come late or fail late do (pipeline.rs
\* 64-236, docs/postprocessing.md 84).
THEOREM LosesOnlyExtracted == Spec => []OnlyExtractedIsLost
<1>1. LossInv => OnlyExtractedIsLost
  <2> SUFFICES ASSUME LossInv, NEW f \in Files, Begun(f), Alone(f), ~Contested(NameOf[f]), Lost(f)
               PROVE  Yielded(f)
    BY DEF OnlyExtractedIsLost, Yielded
  <2>1. ~Safe(f)
    BY DEF Lost, Safe, Places
  <2> QED BY <2>1 DEF LossInv, Kept, Held
<1>2. Init => IInv
  BY InitJobs DEF IInv
<1> QED BY <1>1, <1>2, NextIInv, InitLoss, NextLoss, PTL DEF Spec

\* A completed job that moves, copies or links has left its target in the destination,
\* whole but for contested names, a further copy by another job, and a copy that a
\* dropped run left behind and that came late, perhaps to fail (pipeline.rs 118-162).
THEOREM CompletedDelivers == Spec => []CompletedIsDelivered
<1>1. IInv /\ LossInv => CompletedIsDelivered
  <2> SUFFICES ASSUME IInv, LossInv, NEW j \in Jobs, NEW n, n = plan[j].name, jobs[j].state = "completed",
                      NEW i \in Steps(j), plan[j].steps[i] \in Delivering
               PROVE  /\ There("dest", n)
                      /\ at["dest"][n] = Broken =>
                            \/ Contested(n) \/ LateCopy(n)
                            \/ \E k \in Jobs \ {j} : plan[k].name = n /\ \E l \in Steps(k) : plan[k].steps[l] = "copy"
    BY DEF CompletedIsDelivered, LateCopy
  <2>1. Types /\ DoneTo(j, Len(plan[j].steps) + 1) /\ n \in Names
    BY PlanSteps DEF IInv, JobsInv, InOrder
  <2>2. \A k \in Steps(j) : jobs[j].steps[k] = "completed"
    BY <2>1, PlanSteps DEF DoneTo
  <2>3. There("dest", n)
    BY <2>2 DEF IInv, DeliveredStays, Delivered
  <2>4. Delivers(Delivering, n)
    BY DEF Delivers
  <2>5. ASSUME at["dest"][n] = Broken, ~Contested(n), ~LateCopy(n)
        PROVE  \E k \in Jobs \ {j} : plan[k].name = n /\ \E l \in Steps(k) : plan[k].steps[l] = "copy"
    <3>1. Unfinished(n)
      BY <2>1, <2>4, <2>5, Contests DEF LossInv, DestWhole
    <3> QED BY <2>2, <3>1 DEF Unfinished
  <2> QED BY <2>3, <2>5
<1>2. Init => IInv
  BY InitJobs DEF IInv
<1> QED BY <1>1, <1>2, NextIInv, InitLoss, NextLoss, PTL DEF Spec
-----------------------------------------------------------------------------
(* The type invariant. *)

\* What it says that the invariants above do not.
Rest == nested \in BOOLEAN /\ budget \in [{"runs", "drops", "faults"} -> Nat]

LEMMA SpendType ==
    ASSUME budget \in [{"runs", "drops", "faults"} -> Nat], NEW kind \in {"runs", "drops", "faults"}, Spend(kind)
    PROVE  budget' \in [{"runs", "drops", "faults"} -> Nat]
BY DEF Spend

LEMMA NextRest == Rest /\ [Next]_vars => Rest'
<1> SUFFICES ASSUME Rest, [Next]_vars PROVE Rest'
  OBVIOUS
<1>1. Free \/ Spend("runs") \/ Spend("drops") \/ Spend("faults") => budget' \in [{"runs", "drops", "faults"} -> Nat]
  BY SpendType DEF Rest, Free
<1>2. \A op : Effect(op) \/ Damage(op) \/ UNCHANGED nested => nested' \in BOOLEAN
  BY DEF Rest, Effect, Damage
<1>3. ASSUME NEW j \in Jobs, Run(j) \/ Step(j) \/ Drop(j) PROVE Rest'
  <2>1. CASE Run(j) \/ Drop(j)
    BY <1>1, <1>2, <2>1 DEF Run, Drop, Rest, disk
  <2>2. CASE Verify(j) \/ Flatten(j) \/ Rename(j) \/ InspectMedia(j) \/ Deliver(j) \/ Cleanup(j) \/ CustomHook(j)
    <3>1. UNCHANGED <<nested, budget>>
      BY <2>2 DEF Verify, Flatten, Rename, InspectMedia, Deliver, Cleanup, CustomHook, disk, Free
    <3> QED BY <3>1 DEF Rest
  <2>3. CASE RunInstaller(j)
    <3>1. UNCHANGED nested /\ (Free \/ Spend("faults"))
      BY <2>3 DEF RunInstaller, Blamed, disk
    <3> QED BY <1>1, <1>2, <3>1 DEF Rest
  <2>4. CASE Extract(j)
    <3>1. UNCHANGED nested /\ (Free \/ Spend("faults"))
      BY <2>4 DEF Extract
    <3> QED BY <1>1, <1>2, <3>1 DEF Rest
  <2>5. CASE Answer(j)
    <3>1. /\ Effect(jobs[j].op) \/ Damage(jobs[j].op) \/ UNCHANGED nested
          /\ Free \/ Spend("faults")
      BY <2>5 DEF Answer, disk
    <3> QED BY <1>1, <1>2, <3>1 DEF Rest
  <2> QED BY <1>3, <2>1, <2>2, <2>3, <2>4, <2>5 DEF Step
<1>4. CASE \E i \in DOMAIN pool : Late(i)
  <2>1. PICK i \in DOMAIN pool : Late(i)
    BY <1>4
  <2>2. /\ Effect(pool[i].op) \/ Damage(pool[i].op) \/ UNCHANGED nested
        /\ Free \/ Spend("faults")
    BY <2>1 DEF Late, disk
  <2> QED BY <1>1, <1>2, <2>2 DEF Rest
<1>5. CASE UNCHANGED vars
  BY <1>5 DEF vars, Rest
<1> QED BY <1>3, <1>4, <1>5 DEF Next

\* However jobs, dropped runs and late operations work on one directory, what lies under
\* a name bears it, a linked file stays one file under its two names, and a run is at the
\* first step that is not completed: pipeline.rs 28-236.
THEOREM TypeCorrect == Spec => []TypeOK
<1>1. IInv /\ LossInv /\ Rest => TypeOK
  <2> SUFFICES ASSUME IInv, LossInv, Rest PROVE TypeOK
    OBVIOUS
  <2>1. Types /\ InOrder /\ Slots /\ Named /\ \A n \in Names : Linkage(n)
    BY DEF IInv, JobsInv, Types, Disk, LossInv, FilesInv
  <2>2. ASSUME NEW j \in Jobs
        PROVE  /\ jobs[j].state \in {"pending", "completed", "failed"} /\ jobs[j].pc \in {"idle", "ready", "wait"}
               /\ DOMAIN jobs[j].steps = Steps(j) /\ \A i \in Steps(j) : jobs[j].steps[i] \in StepState
               /\ jobs[j].pc # "idle" => jobs[j].i = ResumeFrom(j)
    <3>1. jobs[j] \in Job /\ jobs[j].steps \in [Steps(j) -> StepState]
      BY <2>1 DEF Types
    <3>2. ASSUME jobs[j].pc # "idle" PROVE jobs[j].i = ResumeFrom(j)
      <4>1. jobs[j].i \in 1 .. Len(plan[j].steps) /\ DoneTo(j, jobs[j].i) /\ Len(plan[j].steps) \in Nat
        BY <2>1, <3>2, AtStep, PlanSteps DEF IInv
      <4>2. jobs[j].i \in 1 .. Len(plan[j].steps) + 1
        BY <4>1
      <4> QED BY <2>1, <4>1, <4>2, Resuming
    <3> QED BY <3>1, <3>2 DEF Job
  <2> QED BY <2>1, <2>2 DEF TypeOK, Types, Slots, Named, Linkage, Rest
<1>2. Init => IInv /\ Rest
  BY InitJobs, PipelineAssumption DEF IInv, Init, Rest
<1> QED BY <1>1, <1>2, NextIInv, InitLoss, NextLoss, NextRest, PTL DEF Spec
=============================================================================

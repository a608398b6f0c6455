-------------------------- MODULE LibraryFilesProofs --------------------------
(***************************************************************************)
(* For any transfers, files, names and places, any number of deletions and *)
(* any bounds: a completed job has moved its files, and the disk with its  *)
(* jobs and deletions implements FileCustody.  For any paths and hints the *)
(* layout rules keep a season and a film together and never lead out of    *)
(* the library.                                                            *)
(***************************************************************************)
EXTENDS LibraryFiles, LibraryLayout, FiniteSetTheorems, SequenceTheorems, TLAPS

Doomed == {g \in Files : \E f \in Files : Owner[f] \in asked /\ NameOf[f] = NameOf[g]}

\* The locals of the job and of the requests.
Shape ==
    /\ run \in [pc : {"idle", "move", "copy", "remove", "fail"}, job : Nat,
                left : SUBSET Files, cur : Files \cup {NoFile}]
    /\ del \in [Clients -> [pc : {"idle", "cancel", "files"}, id : Ids \cup {NoId}, left : SUBSET Files]]

OwnJob == run.pc # "idle" => jobs[run.job].id \in arrived

\* What is copied has its slot, and what has been copied is there.
Copying ==
    /\ run.pc = "copy" => library[SlotOf[run.cur]] = Partial
    /\ run.pc = "remove" => library[SlotOf[run.cur]] = run.cur

\* A job that has not failed has moved what is not left.
MovedSoFar ==
    run.pc \in {"move", "copy", "remove"} =>
        \A f \in FilesOf(jobs[run.job].id) \ run.left : library[SlotOf[f]] = f

\* A file can vanish under the copy only by a deletion.
CopyDoomed == run.pc = "copy" /\ run.cur \notin staging => run.cur \in Doomed

JobInv == TypeOK /\ Shape /\ OwnJob /\ Copying /\ MovedSoFar

JobsInv == JobInv /\ CompletedJobMoved

IInv == JobInv /\ CopyDoomed /\ CompletedJobMoved

-----------------------------------------------------------------------------
(* The jobs. *)

LEMMA Names ==
    /\ Owner \in [Files -> Ids] /\ SlotOf \in [Files -> Slots] /\ NoFile # Partial
    /\ NoFile \notin Files /\ Partial \notin Files /\ NoId \notin Ids
BY FilesAssumption

LEMMA InitJobs == Init => JobsInv /\ CopyDoomed
BY Names, FilesAssumption
   DEF Init, JobsInv, JobInv, TypeOK, Shape, OwnJob, Copying, MovedSoFar, CopyDoomed, CompletedJobMoved,
       NotRunning, NoDelete, JobIds, JobState

LEMMA Spending ==
    ASSUME NEW kind \in {"deletes", "crashes", "faults"}, Spend(kind),
           budget \in [{"deletes", "crashes", "faults"} -> Nat]
    PROVE  budget' \in [{"deletes", "crashes", "faults"} -> Nat]
<1>1. budget[kind] \in Nat /\ budget[kind] > 0
  BY DEF Spend
<1>2. budget[kind] - 1 \in Nat
  BY <1>1
<1> QED BY <1>2 DEF Spend

\* The steps of the others leave the jobs alone.
LEMMA OthersJobs ==
    ASSUME JobsInv, UNCHANGED <<library, jobs, run>>,
           arrived \subseteq arrived', arrived' \subseteq Ids, asked' \subseteq Ids,
           staging' \subseteq {f \in Files : Owner[f] \in arrived'},
           del' \in [Clients -> [pc : {"idle", "cancel", "files"}, id : Ids \cup {NoId}, left : SUBSET Files]],
           \A c \in Clients : del'[c].pc = "idle" \/ (del'[c].id \in asked' /\ del'[c].left \subseteq FilesOf(del'[c].id)),
           budget' \in [{"deletes", "crashes", "faults"} -> Nat]
    PROVE  JobsInv'
<1>1. TypeOK'
  BY Names DEF JobsInv, JobInv, TypeOK, FilesOf, JobIds
<1>2. Shape' /\ OwnJob'
  BY DEF JobsInv, JobInv, Shape, OwnJob
<1>3. Copying' /\ MovedSoFar' /\ CompletedJobMoved'
  BY DEF JobsInv, JobInv, Copying, MovedSoFar, CompletedJobMoved, FilesOf, JobIds
<1> QED BY <1>1, <1>2, <1>3 DEF JobsInv, JobInv

LEMMA ArriveJobs == ASSUME NEW id \in Ids, JobsInv, Arrive(id) PROVE JobsInv'
<1>1. /\ UNCHANGED <<library, jobs, run, del, asked, budget>>
      /\ arrived' = arrived \cup {id} /\ staging' = staging \cup FilesOf(id)
  BY DEF Arrive
<1>2. /\ arrived \subseteq Ids /\ asked \subseteq Ids
      /\ staging \subseteq {f \in Files : Owner[f] \in arrived}
      /\ budget \in [{"deletes", "crashes", "faults"} -> Nat]
      /\ \A c \in Clients : del[c].pc = "idle" \/ (del[c].id \in asked /\ del[c].left \subseteq FilesOf(del[c].id))
  BY DEF JobsInv, JobInv, TypeOK
<1>3. Shape
  BY DEF JobsInv, JobInv
<1>4. staging' \subseteq {f \in Files : Owner[f] \in arrived'}
  BY <1>1, <1>2 DEF FilesOf
<1> QED BY <1>1, <1>2, <1>3, <1>4, OthersJobs DEF Shape

LEMMA DeleteJobs == ASSUME NEW id \in Ids, NEW c \in Clients, JobsInv, Delete(c, id) PROVE JobsInv'
<1>1. /\ arrived \subseteq Ids /\ asked \subseteq Ids
      /\ staging \subseteq {f \in Files : Owner[f] \in arrived}
      /\ budget \in [{"deletes", "crashes", "faults"} -> Nat]
      /\ \A d \in Clients : del[d].pc = "idle" \/ (del[d].id \in asked /\ del[d].left \subseteq FilesOf(del[d].id))
  BY DEF JobsInv, JobInv, TypeOK
<1>2. /\ UNCHANGED <<arrived, staging, library, jobs, run>>
      /\ asked' = asked \cup {id}
      /\ del' = [del EXCEPT ![c] = [pc |-> "cancel", id |-> id, left |-> FilesOf(id)]]
  BY DEF Delete
<1>3. budget' \in [{"deletes", "crashes", "faults"} -> Nat]
  BY <1>1, Spending DEF Delete
<1>4. del' \in [Clients -> [pc : {"idle", "cancel", "files"}, id : Ids \cup {NoId}, left : SUBSET Files]]
  BY <1>2 DEF JobsInv, JobInv, Shape, FilesOf
<1>5. \A d \in Clients : del'[d].pc = "idle" \/ (del'[d].id \in asked' /\ del'[d].left \subseteq FilesOf(del'[d].id))
  BY <1>1, <1>2 DEF JobsInv, JobInv, Shape
<1> QED BY <1>1, <1>2, <1>3, <1>4, <1>5, OthersJobs

LEMMA HandleJobs == ASSUME NEW c \in Clients, JobsInv, Handle(c) PROVE JobsInv'
<1>1. /\ arrived \subseteq Ids /\ asked \subseteq Ids
      /\ staging \subseteq {f \in Files : Owner[f] \in arrived}
      /\ budget \in [{"deletes", "crashes", "faults"} -> Nat]
      /\ \A d \in Clients : del[d].pc = "idle" \/ (del[d].id \in asked /\ del[d].left \subseteq FilesOf(del[d].id))
      /\ del \in [Clients -> [pc : {"idle", "cancel", "files"}, id : Ids \cup {NoId}, left : SUBSET Files]]
  BY DEF JobsInv, JobInv, TypeOK, Shape
<1>2. UNCHANGED <<arrived, library, jobs, run, asked>> /\ staging' \subseteq staging
  BY DEF Handle, CancelData, DeleteFile, EndDelete
<1>3. budget' \in [{"deletes", "crashes", "faults"} -> Nat]
  BY <1>1, Spending DEF Handle, CancelData, DeleteFile, EndDelete
<1>4. \/ del' = [del EXCEPT ![c].pc = "files"] /\ del[c].pc = "cancel"
      \/ (\E f \in Files : del' = [del EXCEPT ![c].left = @ \ {f}])
      \/ del' = [del EXCEPT ![c] = NoDelete]
  BY DEF Handle, CancelData, DeleteFile, EndDelete
<1>5. del' \in [Clients -> [pc : {"idle", "cancel", "files"}, id : Ids \cup {NoId}, left : SUBSET Files]]
  BY <1>1, <1>4 DEF NoDelete
<1>6. \A d \in Clients : del'[d].pc = "idle" \/ (del'[d].id \in asked' /\ del'[d].left \subseteq FilesOf(del'[d].id))
  BY <1>1, <1>2, <1>4 DEF NoDelete
<1> QED BY <1>1, <1>2, <1>3, <1>5, <1>6, OthersJobs

\* The steps of a job leave the rest of the types alone.
LEMMA OwnTypes ==
    ASSUME TypeOK, UNCHANGED <<arrived, del, asked>>, staging' \subseteq staging,
           library' \in [Slots -> Files \cup {NoFile, Partial}],
           \A s \in Slots : library'[s] \in Files => SlotOf[library'[s]] = s /\ Owner[library'[s]] \in arrived,
           jobs' \in [JobIds -> [state : JobState, id : Ids \cup {NoId}]],
           run'.pc \in {"idle", "move", "copy", "remove", "fail"},
           run'.pc # "idle" =>
              /\ run'.job \in JobIds /\ jobs'[run'.job].state = "running"
              /\ run'.left \subseteq FilesOf(jobs'[run'.job].id),
           IF run'.pc \in {"copy", "remove"} THEN run'.cur \in run'.left ELSE run'.cur = NoFile,
           budget' \in [{"deletes", "crashes", "faults"} -> Nat]
    PROVE  TypeOK'
BY DEF TypeOK, FilesOf, JobIds

LEMMA StartJobJobs == ASSUME NEW id \in Ids, NEW n \in JobIds, JobsInv, StartJob(n, id) PROVE JobsInv'
<1>1. /\ UNCHANGED <<arrived, staging, library, del, asked, budget>>
      /\ id \in arrived /\ jobs[n].state = "none"
      /\ jobs' = [jobs EXCEPT ![n] = [state |-> "running", id |-> id]]
      /\ run' = [pc |-> "move", job |-> n, left |-> FilesOf(id), cur |-> NoFile]
  BY DEF StartJob
<1>2. jobs \in [JobIds -> [state : JobState, id : Ids \cup {NoId}]] /\ TypeOK /\ Shape
  BY DEF JobsInv, JobInv, TypeOK
<1>3. /\ jobs' \in [JobIds -> [state : JobState, id : Ids \cup {NoId}]]
      /\ jobs'[n].state = "running" /\ jobs'[n].id = id
      /\ \A m \in JobIds : m # n => jobs'[m] = jobs[m]
  BY <1>1, <1>2 DEF JobState
<1>4. TypeOK'
  BY <1>1, <1>2, <1>3, OwnTypes DEF TypeOK
<1>5. Shape' /\ OwnJob' /\ Copying' /\ MovedSoFar'
  BY <1>1, <1>2, <1>3 DEF Shape, OwnJob, Copying, MovedSoFar, FilesOf, JobIds
<1>6. CompletedJobMoved'
  BY <1>1, <1>3 DEF JobsInv, CompletedJobMoved, FilesOf, JobIds
<1> QED BY <1>4, <1>5, <1>6 DEF JobsInv, JobInv

\* What is known while a job moves its files, in the form the steps below use.
LEMMA Live ==
    ASSUME JobsInv, run.pc # "idle"
    PROVE  /\ run.job \in JobIds /\ jobs[run.job].state = "running" /\ jobs[run.job].id \in arrived
           /\ run.left \subseteq FilesOf(jobs[run.job].id) /\ FilesOf(jobs[run.job].id) \subseteq Files
           /\ run.pc \in {"copy", "remove"} => run.cur \in run.left
           /\ run.pc \notin {"copy", "remove"} => run.cur = NoFile
           /\ \A f \in run.left : f \in Files /\ Owner[f] = jobs[run.job].id /\ SlotOf[f] \in Slots
BY Names DEF JobsInv, JobInv, TypeOK, OwnJob, FilesOf

\* A slot that holds a file keeps it, so what was moved stays moved.
LEMMA SlotsFilled ==
    ASSUME JobsInv, UNCHANGED jobs, \A s \in Slots : library[s] \in Files => library'[s] = library[s]
    PROVE  /\ CompletedJobMoved'
           /\ \A f \in Files : library[SlotOf[f]] = f => library'[SlotOf[f]] = f
<1>1. \A f \in Files : library[SlotOf[f]] = f => library'[SlotOf[f]] = f
  BY Names
<1>2. CompletedJobMoved'
  BY <1>1 DEF JobsInv, CompletedJobMoved, FilesOf, JobIds
<1> QED BY <1>1, <1>2

LEMMA RefuseJobs == ASSUME NEW f \in Files, JobsInv, Refuse(f) PROVE JobsInv'
<1>1. /\ UNCHANGED <<arrived, staging, library, jobs, del, asked>>
      /\ run.pc = "move" /\ run' = [run EXCEPT !.pc = "fail"]
  BY DEF Refuse
<1>2. TypeOK /\ Shape
  BY DEF JobsInv, JobInv
<1>3. budget' \in [{"deletes", "crashes", "faults"} -> Nat]
  BY <1>2, Spending DEF Refuse, TypeOK
<1>4. run'.pc = "fail" /\ run'.job = run.job /\ run'.left = run.left /\ run'.cur = run.cur /\ run.cur = NoFile
  BY <1>1, <1>2, Live DEF Shape
<1>5. TypeOK'
  BY <1>1, <1>2, <1>3, <1>4, OwnTypes, Live DEF TypeOK
<1>6. Shape' /\ OwnJob' /\ Copying' /\ MovedSoFar'
  BY <1>1, <1>2, <1>4, Live DEF Shape, OwnJob, Copying, MovedSoFar
<1>7. CompletedJobMoved'
  BY <1>1, SlotsFilled
<1> QED BY <1>5, <1>6, <1>7 DEF JobsInv, JobInv

LEMMA RenameJobs == ASSUME NEW f \in Files, JobsInv, Rename(f) PROVE JobsInv'
<1>1. /\ UNCHANGED <<arrived, jobs, del, asked, budget>>
      /\ run.pc = "move" /\ f \in run.left /\ f \in staging /\ library[SlotOf[f]] = NoFile
      /\ staging' = staging \ {f} /\ library' = [library EXCEPT ![SlotOf[f]] = f]
      /\ run' = [run EXCEPT !.left = @ \ {f}]
  BY DEF Rename, Movable
<1>2. TypeOK /\ Shape /\ MovedSoFar
  BY DEF JobsInv, JobInv
<1>3. /\ run'.pc = "move" /\ run'.job = run.job /\ run'.left = run.left \ {f} /\ run'.cur = NoFile
      /\ run' \in [pc : {"idle", "move", "copy", "remove", "fail"}, job : Nat, left : SUBSET Files, cur : Files \cup {NoFile}]
  BY <1>1, <1>2, Live DEF Shape
<1>4. /\ library' \in [Slots -> Files \cup {NoFile, Partial}] /\ SlotOf[f] \in Slots
      /\ \A s \in Slots : library'[s] = IF s = SlotOf[f] THEN f ELSE library[s]
  BY <1>1, <1>2, Names DEF TypeOK
<1>5. \A s \in Slots : library'[s] \in Files => SlotOf[library'[s]] = s /\ Owner[library'[s]] \in arrived
  BY <1>1, <1>2, <1>4 DEF TypeOK
<1>6. TypeOK'
  BY <1>1, <1>2, <1>3, <1>4, <1>5, OwnTypes, Live DEF TypeOK
<1>7. CompletedJobMoved' /\ \A g \in Files : library[SlotOf[g]] = g => library'[SlotOf[g]] = g
  BY <1>1, <1>4, Names, SlotsFilled
<1>8. MovedSoFar'
  BY <1>1, <1>2, <1>3, <1>4, <1>7 DEF MovedSoFar, FilesOf
<1>9. Shape' /\ OwnJob' /\ Copying'
  BY <1>1, <1>2, <1>3, Live DEF Shape, OwnJob, Copying
<1> QED BY <1>6, <1>7, <1>8, <1>9 DEF JobsInv, JobInv

LEMMA StartCopyJobs == ASSUME NEW f \in Files, JobsInv, StartCopy(f) PROVE JobsInv'
<1>1. /\ UNCHANGED <<arrived, staging, jobs, del, asked, budget>>
      /\ run.pc = "move" /\ f \in run.left /\ f \in staging /\ library[SlotOf[f]] = NoFile
      /\ library' = [library EXCEPT ![SlotOf[f]] = Partial]
      /\ run' = [run EXCEPT !.pc = "copy", !.cur = f]
  BY DEF StartCopy, Movable
<1>2. TypeOK /\ Shape /\ MovedSoFar
  BY DEF JobsInv, JobInv
<1>3. /\ run'.pc = "copy" /\ run'.job = run.job /\ run'.left = run.left /\ run'.cur = f
      /\ run' \in [pc : {"idle", "move", "copy", "remove", "fail"}, job : Nat, left : SUBSET Files, cur : Files \cup {NoFile}]
  BY <1>1, <1>2 DEF Shape
<1>4. /\ library' \in [Slots -> Files \cup {NoFile, Partial}] /\ SlotOf[f] \in Slots
      /\ \A s \in Slots : library'[s] = IF s = SlotOf[f] THEN Partial ELSE library[s]
  BY <1>1, <1>2, Names DEF TypeOK
<1>5. \A s \in Slots : library'[s] \in Files => SlotOf[library'[s]] = s /\ Owner[library'[s]] \in arrived
  BY <1>2, <1>4, Names DEF TypeOK
<1>6. TypeOK'
  BY <1>1, <1>2, <1>3, <1>4, <1>5, OwnTypes, Live DEF TypeOK
<1>7. CompletedJobMoved' /\ \A g \in Files : library[SlotOf[g]] = g => library'[SlotOf[g]] = g
  BY <1>1, <1>4, Names, SlotsFilled
<1>8. MovedSoFar'
  BY <1>1, <1>2, <1>3, <1>7 DEF MovedSoFar, FilesOf
<1>9. Shape' /\ OwnJob' /\ Copying'
  BY <1>1, <1>2, <1>3, <1>4, Live DEF Shape, OwnJob, Copying
<1> QED BY <1>6, <1>7, <1>8, <1>9 DEF JobsInv, JobInv

LEMMA EndCopyJobs == ASSUME JobsInv, EndCopy PROVE JobsInv'
<1>1. /\ UNCHANGED <<arrived, staging, jobs, del, asked>> /\ run.pc = "copy"
      /\ run.cur \in Files /\ run.cur \in run.left /\ SlotOf[run.cur] \in Slots /\ library[SlotOf[run.cur]] = Partial
      /\ Owner[run.cur] \in arrived
  BY Live DEF EndCopy, JobsInv, JobInv, Copying
<1>2. TypeOK /\ Shape /\ MovedSoFar
  BY DEF JobsInv, JobInv
<1>3. budget' \in [{"deletes", "crashes", "faults"} -> Nat]
  BY <1>2, Spending DEF EndCopy, TypeOK
<1>4. CASE library' = [library EXCEPT ![SlotOf[run.cur]] = run.cur] /\ run' = [run EXCEPT !.pc = "remove"]
  <2>1. /\ run'.pc = "remove" /\ run'.job = run.job /\ run'.left = run.left /\ run'.cur = run.cur
        /\ run' \in [pc : {"idle", "move", "copy", "remove", "fail"}, job : Nat, left : SUBSET Files, cur : Files \cup {NoFile}]
    BY <1>2, <1>4 DEF Shape
  <2>2. /\ library' \in [Slots -> Files \cup {NoFile, Partial}]
        /\ \A s \in Slots : library'[s] = IF s = SlotOf[run.cur] THEN run.cur ELSE library[s]
    BY <1>1, <1>2, <1>4 DEF TypeOK
  <2>3. \A s \in Slots : library'[s] \in Files => SlotOf[library'[s]] = s /\ Owner[library'[s]] \in arrived
    BY <1>1, <1>2, <2>2 DEF TypeOK
  <2>4. TypeOK'
    BY <1>1, <1>2, <1>3, <2>1, <2>2, <2>3, OwnTypes, Live DEF TypeOK
  <2>5. CompletedJobMoved' /\ \A g \in Files : library[SlotOf[g]] = g => library'[SlotOf[g]] = g
    BY <1>1, <2>2, Names, SlotsFilled
  <2>6. MovedSoFar'
    BY <1>1, <1>2, <2>1, <2>5 DEF MovedSoFar, FilesOf
  <2>7. Shape' /\ OwnJob' /\ Copying'
    BY <1>1, <1>2, <2>1, <2>2, Live DEF Shape, OwnJob, Copying
  <2> QED BY <2>4, <2>5, <2>6, <2>7 DEF JobsInv, JobInv
<1>5. CASE UNCHANGED library /\ run' = [run EXCEPT !.pc = "fail", !.cur = NoFile]
  <2>1. /\ run'.pc = "fail" /\ run'.job = run.job /\ run'.left = run.left /\ run'.cur = NoFile
        /\ run' \in [pc : {"idle", "move", "copy", "remove", "fail"}, job : Nat, left : SUBSET Files, cur : Files \cup {NoFile}]
    BY <1>2, <1>5 DEF Shape
  <2>2. TypeOK'
    BY <1>1, <1>2, <1>3, <1>5, <2>1, OwnTypes, Live DEF TypeOK
  <2>3. CompletedJobMoved'
    BY <1>1, <1>5, SlotsFilled
  <2>4. Shape' /\ OwnJob' /\ Copying' /\ MovedSoFar'
    BY <1>1, <1>2, <2>1, Live DEF Shape, OwnJob, Copying, MovedSoFar
  <2> QED BY <2>2, <2>3, <2>4 DEF JobsInv, JobInv
<1> QED BY <1>4, <1>5 DEF EndCopy

LEMMA RemoveSourceJobs == ASSUME JobsInv, RemoveSource PROVE JobsInv'
<1>1. /\ UNCHANGED <<arrived, library, jobs, del, asked>> /\ run.pc = "remove" /\ staging' \subseteq staging
      /\ library[SlotOf[run.cur]] = run.cur
  BY DEF RemoveSource, JobsInv, JobInv, Copying
<1>2. TypeOK /\ Shape /\ MovedSoFar
  BY DEF JobsInv, JobInv
<1>3. budget' \in [{"deletes", "crashes", "faults"} -> Nat]
  BY <1>2, Spending DEF RemoveSource, TypeOK
<1>4. /\ run'.job = run.job /\ run'.cur = NoFile
      /\ \/ run'.pc = "move" /\ run'.left = run.left \ {run.cur}
         \/ run'.pc = "fail" /\ run'.left = run.left
      /\ run' \in [pc : {"idle", "move", "copy", "remove", "fail"}, job : Nat, left : SUBSET Files, cur : Files \cup {NoFile}]
  <2>1. CASE run' = [run EXCEPT !.pc = "move", !.left = @ \ {run.cur}, !.cur = NoFile]
    BY <1>2, <2>1 DEF Shape
  <2>2. CASE run' = [run EXCEPT !.pc = "fail", !.cur = NoFile]
    BY <1>2, <2>2 DEF Shape
  <2> QED BY <2>1, <2>2 DEF RemoveSource
<1>5. TypeOK'
  BY <1>1, <1>2, <1>3, <1>4, OwnTypes, Live DEF TypeOK
<1>6. CompletedJobMoved'
  BY <1>1, SlotsFilled
<1>7. MovedSoFar'
  BY <1>1, <1>2, <1>4 DEF MovedSoFar, FilesOf
<1>8. Shape' /\ OwnJob' /\ Copying'
  BY <1>1, <1>2, <1>4, Live DEF Shape, OwnJob, Copying
<1> QED BY <1>5, <1>6, <1>7, <1>8 DEF JobsInv, JobInv

LEMMA EndJobJobs == ASSUME JobsInv, FailJob \/ FinishJob PROVE JobsInv'
<1>1. /\ UNCHANGED <<arrived, staging, library, del, asked>> /\ run.pc # "idle" /\ run' = NotRunning
      /\ \/ jobs' = jobs
         \/ \E state \in {"failed", "completed"} :
               /\ jobs' = [jobs EXCEPT ![run.job].state = state]
               /\ state = "completed" => run.pc = "move" /\ run.left = {}
  BY DEF FailJob, FinishJob, EndJob
<1>2. TypeOK /\ Shape /\ MovedSoFar /\ CompletedJobMoved
  BY DEF JobsInv, JobInv
<1>3. budget' \in [{"deletes", "crashes", "faults"} -> Nat]
  BY <1>2, Spending DEF FailJob, FinishJob, EndJob, TypeOK
<1>4. /\ jobs' \in [JobIds -> [state : JobState, id : Ids \cup {NoId}]]
      /\ \A n \in JobIds : jobs'[n].id = jobs[n].id
      /\ \A n \in JobIds : jobs'[n].state = "completed" =>
             jobs[n].state = "completed" \/ (n = run.job /\ run.pc = "move" /\ run.left = {})
  BY <1>1, <1>2, Live DEF TypeOK, JobState
<1>5. TypeOK'
  BY <1>1, <1>2, <1>3, <1>4, OwnTypes DEF TypeOK, NotRunning
<1>6. CompletedJobMoved'
  BY <1>1, <1>2, <1>4 DEF CompletedJobMoved, MovedSoFar, FilesOf, JobIds
<1>7. Shape' /\ OwnJob' /\ Copying' /\ MovedSoFar'
  BY <1>1, <1>2 DEF Shape, OwnJob, Copying, MovedSoFar, NotRunning
<1> QED BY <1>5, <1>6, <1>7 DEF JobsInv, JobInv

LEMMA CrashJobs == ASSUME JobsInv, Crash PROVE JobsInv'
<1>1. /\ UNCHANGED <<arrived, staging, library, jobs, asked>> /\ run' = NotRunning
      /\ del' = [c \in Clients |-> NoDelete]
  BY DEF Crash
<1>2. TypeOK
  BY DEF JobsInv, JobInv
<1>3. budget' \in [{"deletes", "crashes", "faults"} -> Nat]
  BY <1>2, Spending DEF Crash, TypeOK
<1>4. TypeOK'
  BY <1>1, <1>2, <1>3 DEF TypeOK, NotRunning, NoDelete, FilesOf, JobIds
<1>5. Shape' /\ OwnJob' /\ Copying' /\ MovedSoFar'
  BY <1>1 DEF Shape, OwnJob, Copying, MovedSoFar, NotRunning, NoDelete
<1>6. CompletedJobMoved'
  BY <1>1, SlotsFilled
<1> QED BY <1>4, <1>5, <1>6 DEF JobsInv, JobInv

LEMMA NextJobs == JobsInv /\ [Next]_vars => JobsInv'
<1> SUFFICES ASSUME JobsInv, [Next]_vars PROVE JobsInv'
  OBVIOUS
<1>1. ASSUME NEW id \in Ids, Arrive(id) \/ (\E n \in JobIds : StartJob(n, id)) \/ \E c \in Clients : Delete(c, id)
      PROVE  JobsInv'
  BY <1>1, ArriveJobs, StartJobJobs, DeleteJobs
<1>2. ASSUME NEW f \in Files, Refuse(f) \/ Rename(f) \/ StartCopy(f)
      PROVE  JobsInv'
  BY <1>2, RefuseJobs, RenameJobs, StartCopyJobs
<1>3. CASE EndCopy \/ RemoveSource \/ FailJob \/ FinishJob
  BY <1>3, EndCopyJobs, RemoveSourceJobs, EndJobJobs
<1>4. CASE \E c \in Clients : Handle(c)
  BY <1>4, HandleJobs
<1>5. CASE Crash
  BY <1>5, CrashJobs
<1>6. CASE UNCHANGED vars
  <2>1. UNCHANGED <<arrived, staging, library, jobs, run, del, asked, budget>>
    BY <1>6 DEF vars
  <2> QED BY <2>1 DEF JobsInv, JobInv, TypeOK, Shape, OwnJob, Copying, MovedSoFar, CompletedJobMoved, FilesOf, JobIds
<1> QED BY <1>1, <1>2, <1>3, <1>4, <1>5, <1>6 DEF Next, Organize

\* A job that runs is stored as running and moves files of its own transfer only, and
\* each slot of the library holds a file that belongs there, of a transfer that has
\* arrived, whatever is deleted, fails or dies: postprocess.rs 118-228.
THEOREM TypeCorrect == Spec => []TypeOK
<1>1. JobsInv => TypeOK
  BY DEF JobsInv, JobInv
<1> QED BY <1>1, InitJobs, NextJobs, PTL DEF Spec

\* The record of a job never claims more than the disk holds: postprocess.rs 171-228.
THEOREM CompletedMoved == Spec => []CompletedJobMoved
<1>1. JobsInv => CompletedJobMoved
  BY DEF JobsInv
<1> QED BY <1>1, InitJobs, NextJobs, PTL DEF Spec

-----------------------------------------------------------------------------
(* The refinement. *)

CustodyStep == [Custody!CustodyNext]_(Custody!custodyVars)

LEMMA Places ==
    /\ \A f \in Files :
          Place[f] = IF Owner[f] \notin arrived THEN "absent"
                     ELSE IF library[SlotOf[f]] = f THEN "library"
                     ELSE IF f \in staging \/ (run.pc = "copy" /\ run.cur = f) THEN "staging"
                     ELSE "gone"
    /\ \A f \in Files :
          Place'[f] = IF Owner[f] \notin arrived' THEN "absent"
                      ELSE IF library'[SlotOf[f]] = f THEN "library"
                      ELSE IF f \in staging' \/ (run'.pc = "copy" /\ run'.cur = f) THEN "staging"
                      ELSE "gone"
    /\ Place = [f \in Files |-> Place[f]] /\ Place' = [f \in Files |-> Place'[f]]
BY DEF Place

\* A step after which every file counts as being where it was.
LEMMA Stays ==
    ASSUME UNCHANGED asked, \A f \in Files : Place'[f] = Place[f]
    PROVE  CustodyStep
<1>1. Place' = Place
  BY Places
<1> QED BY <1>1 DEF CustodyStep, Custody!custodyVars

\* A step that takes files from the download folder, if a deletion may take them.
LEMMA Losses ==
    ASSUME UNCHANGED asked,
           \A f \in Files : \/ Place'[f] = Place[f]
                            \/ Place[f] = "staging" /\ Place'[f] = "gone" /\ f \in Doomed
    PROVE  CustodyStep
<1> DEFINE fs == {f \in Files : Place'[f] # Place[f]}
<1>1. Place' = [f \in Files |-> IF f \in fs THEN "gone" ELSE Place[f]]
  BY Places
<1>2. \A f \in fs : Place[f] = "staging" /\ f \in Doomed
  OBVIOUS
<1>3. fs \in SUBSET Files
  OBVIOUS
<1>4. Custody!Lost(fs)
  <2> HIDE DEF fs
  <2> QED BY <1>1, <1>2 DEF Custody!Lost, Doomed
<1> QED
  <2> HIDE DEF fs
  <2> QED BY <1>3, <1>4 DEF CustodyStep, Custody!CustodyNext

\* A step that brings one file to the library.
LEMMA Arrival ==
    ASSUME UNCHANGED asked, NEW f \in Files, Place[f] = "staging", Place'[f] = "library",
           \A g \in Files \ {f} : Place'[g] = Place[g]
    PROVE  CustodyStep
<1>1. Place' = [Place EXCEPT ![f] = "library"]
  BY Places
<1>2. Custody!Organized(f)
  BY <1>1 DEF Custody!Organized
<1> QED BY <1>2 DEF CustodyStep, Custody!CustodyNext

LEMMA ArriveCustody == ASSUME NEW id \in Ids, IInv, Arrive(id) PROVE CustodyStep /\ CopyDoomed'
<1>1. /\ UNCHANGED <<library, run, asked>> /\ id \notin arrived
      /\ arrived' = arrived \cup {id} /\ staging' = staging \cup FilesOf(id)
  BY DEF Arrive
<1>2. /\ \A s \in Slots : library[s] \in Files => Owner[library[s]] \in arrived
      /\ staging \subseteq {f \in Files : Owner[f] \in arrived}
  BY DEF IInv, JobInv, TypeOK
<1>3. \A f \in FilesOf(id) : Place[f] = "absent" /\ Place'[f] = "staging"
  BY <1>1, <1>2, Places, Names DEF FilesOf
<1>4. \A f \in Files \ FilesOf(id) : Place'[f] = Place[f]
  BY <1>1, Places DEF FilesOf
<1>5. Place' = [f \in Files |-> IF f \in FilesOf(id) THEN "staging" ELSE Place[f]]
  BY <1>3, <1>4, Places DEF FilesOf
<1>6. Custody!Downloaded(id)
  BY <1>1, <1>3, <1>5 DEF Custody!Downloaded, Custody!FilesOf, FilesOf
<1>7. CustodyStep
  BY <1>6 DEF CustodyStep, Custody!CustodyNext
<1>8. CopyDoomed'
  BY <1>1 DEF IInv, CopyDoomed, Doomed
<1> QED BY <1>7, <1>8

LEMMA DeleteCustody ==
    ASSUME NEW id \in Ids, NEW c \in Clients, IInv, Delete(c, id) PROVE CustodyStep /\ CopyDoomed'
<1>1. UNCHANGED <<arrived, staging, library, run>> /\ asked' = asked \cup {id}
  BY DEF Delete
<1>2. Place' = Place
  BY <1>1, Places
<1>3. Doomed' = Doomed \cup Custody!InReach(id)
  BY <1>1 DEF Doomed, Custody!InReach, Custody!FilesOf
<1>4. Custody!Doom(id)
  BY <1>2, <1>3 DEF Custody!Doom, Doomed
<1>5. CustodyStep
  BY <1>4 DEF CustodyStep, Custody!CustodyNext
<1>6. CopyDoomed'
  BY <1>1, <1>3 DEF IInv, CopyDoomed
<1> QED BY <1>5, <1>6

\* What a request removes has a name of its transfer.
LEMMA HandleCustody == ASSUME NEW c \in Clients, IInv, Handle(c) PROVE CustodyStep /\ CopyDoomed'
<1>1. UNCHANGED <<arrived, library, run, asked>> /\ staging' \subseteq staging
  BY DEF Handle, CancelData, DeleteFile, EndDelete
<1>2. /\ \A d \in Clients : del[d].pc = "idle" \/ (del[d].id \in asked /\ del[d].left \subseteq FilesOf(del[d].id))
      /\ staging \subseteq {f \in Files : Owner[f] \in arrived}
  BY DEF IInv, JobInv, TypeOK
<1>3. \A f \in staging \ staging' : f \in Doomed
  <2>1. CASE CancelData(c)
    BY <1>2, <2>1 DEF CancelData, FilesOf, Doomed
  <2>2. ASSUME NEW f \in Files, DeleteFile(c, f)
        PROVE  \A g \in staging \ staging' : g \in Doomed
    <3>1. Owner[f] \in asked
      BY <1>2, <2>2 DEF DeleteFile, FilesOf
    <3>2. \A g \in staging \ staging' : g \in Files /\ NameOf[f] = NameOf[g]
      BY <1>2, <2>2 DEF DeleteFile, Targets
    <3> QED BY <3>1, <3>2 DEF Doomed
  <2>3. CASE EndDelete(c)
    BY <2>3 DEF EndDelete
  <2> QED BY <2>1, <2>2, <2>3 DEF Handle
<1>4. \A f \in Files : \/ Place'[f] = Place[f]
                       \/ Place[f] = "staging" /\ Place'[f] = "gone" /\ f \in Doomed
  BY <1>1, <1>3, Places
<1>5. CustodyStep
  BY <1>1, <1>4, Losses
<1>6. CopyDoomed'
  BY <1>1, <1>3 DEF IInv, CopyDoomed, Doomed
<1> QED BY <1>5, <1>6

LEMMA RenameCustody == ASSUME NEW f \in Files, IInv, Rename(f) PROVE CustodyStep /\ CopyDoomed'
<1>1. /\ UNCHANGED <<arrived, asked>> /\ f \in staging /\ library[SlotOf[f]] = NoFile
      /\ staging' = staging \ {f} /\ library' = [library EXCEPT ![SlotOf[f]] = f]
      /\ run.pc = "move" /\ run' = [run EXCEPT !.left = @ \ {f}]
  BY DEF Rename, Movable
<1>2. /\ Owner[f] \in arrived /\ library \in [Slots -> Files \cup {NoFile, Partial}] /\ Shape
      /\ \A g \in Files : SlotOf[g] \in Slots
  BY <1>1, Names DEF IInv, JobInv, TypeOK
<1>3. run'.pc = "move"
  BY <1>1, <1>2 DEF Shape
<1>4. Place[f] = "staging" /\ Place'[f] = "library"
  BY <1>1, <1>2, <1>3, Places, Names
<1>5. \A g \in Files \ {f} : Place'[g] = Place[g]
  BY <1>1, <1>2, <1>3, Places, Names
<1> QED BY <1>1, <1>3, <1>4, <1>5, Arrival DEF CopyDoomed

LEMMA StartCopyCustody == ASSUME NEW f \in Files, IInv, StartCopy(f) PROVE CustodyStep /\ CopyDoomed'
<1>1. /\ UNCHANGED <<arrived, asked, staging>> /\ f \in staging /\ library[SlotOf[f]] = NoFile
      /\ library' = [library EXCEPT ![SlotOf[f]] = Partial]
      /\ run.pc = "move" /\ run' = [run EXCEPT !.pc = "copy", !.cur = f]
  BY DEF StartCopy, Movable
<1>2. /\ library \in [Slots -> Files \cup {NoFile, Partial}] /\ Shape
      /\ \A g \in Files : SlotOf[g] \in Slots
  BY <1>1, Names DEF IInv, JobInv, TypeOK
<1>3. run'.pc = "copy" /\ run'.cur = f
  BY <1>1, <1>2 DEF Shape
<1>4. \A g \in Files : Place'[g] = Place[g]
  BY <1>1, <1>2, <1>3, Places, Names
<1> QED BY <1>1, <1>3, <1>4, Stays DEF CopyDoomed

LEMMA EndCopyCustody == ASSUME IInv, EndCopy PROVE CustodyStep /\ CopyDoomed'
<1>1. JobsInv /\ run.pc = "copy" /\ UNCHANGED <<arrived, staging, asked>>
  BY DEF IInv, JobsInv, EndCopy
<1>2. /\ run.cur \in Files /\ Owner[run.cur] \in arrived /\ library[SlotOf[run.cur]] = Partial
      /\ library \in [Slots -> Files \cup {NoFile, Partial}] /\ Shape
      /\ \A g \in Files : SlotOf[g] \in Slots
  BY <1>1, Live, Names DEF JobsInv, JobInv, TypeOK, Copying
<1>3. CASE library' = [library EXCEPT ![SlotOf[run.cur]] = run.cur] /\ run' = [run EXCEPT !.pc = "remove"]
  <2>1. run'.pc = "remove"
    BY <1>2, <1>3 DEF Shape
  <2>2. Place[run.cur] = "staging" /\ Place'[run.cur] = "library"
    BY <1>1, <1>2, <1>3, <2>1, Places, Names
  <2>3. \A g \in Files \ {run.cur} : Place'[g] = Place[g]
    BY <1>1, <1>2, <1>3, <2>1, Places, Names
  <2> QED BY <1>1, <1>2, <2>1, <2>2, <2>3, Arrival DEF CopyDoomed
<1>4. CASE UNCHANGED library /\ run' = [run EXCEPT !.pc = "fail", !.cur = NoFile]
  <2>1. run'.pc = "fail"
    BY <1>2, <1>4 DEF Shape
  <2>2. \A g \in Files : \/ Place'[g] = Place[g]
                         \/ Place[g] = "staging" /\ Place'[g] = "gone" /\ g \in Doomed
    BY <1>1, <1>2, <1>4, <2>1, Places DEF IInv, CopyDoomed
  <2> QED BY <1>1, <2>1, <2>2, Losses DEF CopyDoomed
<1> QED BY <1>3, <1>4 DEF EndCopy

LEMMA RemoveSourceCustody == ASSUME IInv, RemoveSource PROVE CustodyStep /\ CopyDoomed'
<1>1. /\ JobsInv /\ run.pc = "remove" /\ UNCHANGED <<arrived, library, asked>>
      /\ staging \ {run.cur} \subseteq staging' /\ staging' \subseteq staging
  BY DEF IInv, JobsInv, RemoveSource
<1>2. library[SlotOf[run.cur]] = run.cur /\ Shape
  BY <1>1 DEF JobsInv, JobInv, Copying
<1>3. run'.pc \in {"move", "fail"}
  BY <1>2 DEF RemoveSource, Shape
<1>4. \A g \in Files : Place'[g] = Place[g]
  BY <1>1, <1>2, <1>3, Places
<1> QED BY <1>1, <1>3, <1>4, Stays DEF CopyDoomed

\* Steps of the job that move nothing.
LEMMA QuietCustody ==
    ASSUME IInv, \/ FailJob \/ FinishJob \/ UNCHANGED vars
                 \/ \E f \in Files : Refuse(f)
                 \/ \E id \in Ids, n \in JobIds : StartJob(n, id)
    PROVE  CustodyStep /\ CopyDoomed'
<1>1. /\ UNCHANGED <<arrived, staging, library, asked>> /\ Shape
      /\ UNCHANGED run \/ run.pc # "copy"
  BY DEF FailJob, FinishJob, EndJob, vars, Refuse, StartJob, IInv, JobInv
<1>2. UNCHANGED run \/ (run.pc # "copy" /\ run'.pc # "copy")
  BY <1>1 DEF FailJob, FinishJob, EndJob, vars, Refuse, StartJob, NotRunning, Shape
<1>3. \A g \in Files : Place'[g] = Place[g]
  BY <1>1, <1>2, Places
<1>4. CopyDoomed'
  BY <1>1, <1>2 DEF IInv, CopyDoomed, Doomed
<1> QED BY <1>1, <1>3, <1>4, Stays

\* A copy that is cut short loses a file only if a deletion has taken the original.
LEMMA CrashCustody == ASSUME IInv, Crash PROVE CustodyStep /\ CopyDoomed'
<1>1. UNCHANGED <<arrived, staging, library, asked>> /\ run'.pc = "idle"
  BY DEF Crash, NotRunning
<1>2. \A g \in Files : \/ Place'[g] = Place[g]
                       \/ Place[g] = "staging" /\ Place'[g] = "gone" /\ g \in Doomed
  BY <1>1, Places DEF IInv, CopyDoomed
<1> QED BY <1>1, <1>2, Losses DEF CopyDoomed

LEMMA NextCustody == IInv /\ [Next]_vars => CustodyStep /\ IInv'
<1> SUFFICES ASSUME IInv, [Next]_vars PROVE CustodyStep /\ IInv'
  OBVIOUS
<1>1. JobsInv'
  BY NextJobs DEF IInv, JobsInv
<1>2. CustodyStep /\ CopyDoomed'
  <2>1. ASSUME NEW id \in Ids, Arrive(id) \/ \E c \in Clients : Delete(c, id)
        PROVE  CustodyStep /\ CopyDoomed'
    BY <2>1, ArriveCustody, DeleteCustody
  <2>2. ASSUME NEW f \in Files, Rename(f) \/ StartCopy(f)
        PROVE  CustodyStep /\ CopyDoomed'
    BY <2>2, RenameCustody, StartCopyCustody
  <2>3. CASE EndCopy \/ RemoveSource
    BY <2>3, EndCopyCustody, RemoveSourceCustody
  <2>4. CASE \/ FailJob \/ FinishJob \/ UNCHANGED vars
             \/ \E f \in Files : Refuse(f)
             \/ \E id \in Ids, n \in JobIds : StartJob(n, id)
    BY <2>4, QuietCustody
  <2>5. CASE \E c \in Clients : Handle(c)
    BY <2>5, HandleCustody
  <2>6. CASE Crash
    BY <2>6, CrashCustody
  <2> QED BY <2>1, <2>2, <2>3, <2>4, <2>5, <2>6 DEF Next, Organize
<1> QED BY <1>1, <1>2 DEF IInv, JobsInv

LEMMA InitCustody == Init => Custody!CustodyInit /\ IInv
<1> SUFFICES ASSUME Init PROVE Custody!CustodyInit /\ IInv
  OBVIOUS
<1>1. Place = [f \in Files |-> "absent"]
  BY DEF Init, Place
<1>2. Doomed = {}
  BY DEF Init, Doomed
<1> QED BY <1>1, <1>2, InitJobs DEF Custody!CustodyInit, Doomed, IInv, JobsInv

\* The disk, the jobs and the deletions implement FileCustody: no file is lost, moved
\* back or overwritten by a job, a retry or a crash, and a deletion takes only files
\* that bear a name of the deleted transfer (organize.rs 251-297, routes.rs 233-316).
THEOREM KeepsCustody == Spec => FilesInCustody
BY InitCustody, NextCustody, PTL DEF Spec, FilesInCustody, Custody!CustodySpec, CustodyStep

-----------------------------------------------------------------------------
(* The layout rules. *)

Token == AllKinds \X Values

\* Every set of positions has a least one: the numbers below all of it are counted
\* from 0 on, and their count is in it.
LEMMA Least ==
    ASSUME NEW n \in Nat, NEW T, T \subseteq 1 .. n, T # {}
    PROVE  \E i \in T : \A k \in T : i <= k
<1> DEFINE U == {i \in 0 .. n : \A k \in T : i < k}
           c == Cardinality(U)
<1>1. IsFiniteSet(0 .. n)
  BY FS_Interval
<1>2. IsFiniteSet(U) /\ c \in Nat
  <2>1. U \subseteq 0 .. n
    OBVIOUS
  <2>2. IsFiniteSet(U)
    BY <1>1, <2>1, FS_Subset
  <2> QED BY <2>2, FS_CardinalityType
<1>3. U \subseteq 0 .. c - 1
  <2> SUFFICES ASSUME NEW i \in U PROVE i \in 0 .. c - 1
    OBVIOUS
  <2>1. 0 .. i \subseteq U
    OBVIOUS
  <2>2. Cardinality(0 .. i) = i + 1
    BY FS_Interval
  <2>3. Cardinality(0 .. i) <= c
    BY <1>2, <2>1, FS_Subset
  <2> HIDE DEF c
  <2> QED BY <2>2, <2>3, <1>2
<1>4. c # 0
  <2>1. 0 \in U
    OBVIOUS
  <2> HIDE DEF U
  <2> QED BY <2>1, <1>2, FS_EmptySet
<1>5. U = 0 .. c - 1
  <2>1. IsFiniteSet(0 .. c - 1) /\ Cardinality(0 .. c - 1) = c
    <3> HIDE DEF c
    <3>1. c - 1 \in Nat
      BY <1>2, <1>4
    <3>2. IsFiniteSet(0 .. c - 1) /\ Cardinality(0 .. c - 1) = IF 0 > c - 1 THEN 0 ELSE (c - 1) - 0 + 1
      BY <3>1, FS_Interval
    <3> QED BY <1>2, <3>1, <3>2
  <2> HIDE DEF U
  <2>2. U # 0 .. c - 1 => Cardinality(U) < Cardinality(0 .. c - 1)
    BY <1>3, <2>1, FS_Subset
  <2> QED BY <2>1, <2>2, <1>2
<1>6. PICK t \in T : TRUE
  OBVIOUS
<1>7. c \notin U
  <2> HIDE DEF c, U
  <2> QED BY <1>2, <1>5
<1>8. c <= n
  <2>1. t \notin U
    OBVIOUS
  <2> HIDE DEF c, U
  <2> QED BY <1>2, <1>5, <1>6, <2>1
<1>9. PICK k \in T : ~(c < k)
  <2> HIDE DEF c
  <2> QED BY <1>7, <1>8, <1>2
<1>10. c - 1 < k
  <2>1. c - 1 \in U
    <3> HIDE DEF c, U
    <3> QED BY <1>2, <1>4, <1>5
  <2> HIDE DEF c
  <2> QED BY <2>1
<1>11. \A j \in T : c - 1 < j
  <2>1. c - 1 \in U
    <3> HIDE DEF c, U
    <3> QED BY <1>2, <1>4, <1>5
  <2> HIDE DEF c
  <2> QED BY <2>1
<1> HIDE DEF c, U
<1>12. k = c
  BY <1>2, <1>9, <1>10
<1> QED BY <1>11, <1>12, <1>2, <1>9

LEMMA MinOf ==
    ASSUME NEW n \in Nat, NEW T, T \subseteq 1 .. n, T # {}
    PROVE  Min(T) \in T /\ \A k \in T : Min(T) <= k
BY Least DEF Min

LEMMA FirstOf ==
    ASSUME NEW seq, NEW n \in Nat, Len(seq) = n, NEW at, at \subseteq 1 .. n
    PROVE  /\ First(at, seq) \in at \cup {n + 1}
           /\ \A k \in at \cup {n + 1} : First(at, seq) <= k
<1> DEFINE T == at \cup {n + 1}
<1>1. T \subseteq 1 .. n + 1 /\ T # {} /\ n + 1 \in Nat
  OBVIOUS
<1>2. First(at, seq) = Min(T)
  BY DEF First
<1> HIDE DEF T
<1>3. Min(T) \in T /\ \A k \in T : Min(T) <= k
  BY <1>1, MinOf
<1> QED BY <1>2, <1>3 DEF T

LEMMA FirstIs ==
    ASSUME NEW seq, NEW n \in Nat, Len(seq) = n, NEW at, at \subseteq 1 .. n,
           NEW i \in at \cup {n + 1}, \A k \in at : i <= k
    PROVE  First(at, seq) = i
<1>1. /\ First(at, seq) \in at \cup {n + 1}
      /\ \A k \in at \cup {n + 1} : First(at, seq) <= k
  BY FirstOf
<1>2. i \in Int /\ First(at, seq) \in Int
  <2>1. at \cup {n + 1} \subseteq Int
    OBVIOUS
  <2> QED BY <1>1, <2>1
<1>3. First(at, seq) <= i
  BY <1>1
<1>4. i <= First(at, seq)
  BY <1>1, <1>2
<1> QED BY <1>2, <1>3, <1>4

LEMMA FindIn ==
    ASSUME NEW ts \in Seq(Token), NEW kinds
    PROVE  /\ Find(ts, kinds) \in 1 .. Len(ts) + 1
           /\ Find(ts, kinds) <= Len(ts) => ts[Find(ts, kinds)][1] \in kinds
           /\ \A k \in 1 .. Find(ts, kinds) - 1 : ts[k][1] \notin kinds
           /\ Kinds(ts) \cap kinds # {} => Find(ts, kinds) <= Len(ts)
<1> DEFINE at == {i \in DOMAIN ts : ts[i][1] \in kinds}
<1> DEFINE f == Find(ts, kinds)
<1>1. at \subseteq 1 .. Len(ts) /\ f = First(at, ts) /\ Len(ts) \in Nat
  BY DEF Find
<1>2. f \in at \cup {Len(ts) + 1} /\ \A k \in at \cup {Len(ts) + 1} : f <= k
  <2> HIDE DEF at, f
  <2> QED BY <1>1, FirstOf
<1> HIDE DEF f
<1>3. f \in 1 .. Len(ts) + 1
  BY <1>1, <1>2
<1>4. f <= Len(ts) => ts[f][1] \in kinds
  BY <1>2
<1>5. \A k \in 1 .. f - 1 : ts[k][1] \notin kinds
  <2> SUFFICES ASSUME NEW k \in 1 .. f - 1, ts[k][1] \in kinds PROVE FALSE
    OBVIOUS
  <2>1. k \in at
    BY <1>3
  <2> QED BY <2>1, <1>2, <1>3
<1>6. Kinds(ts) \cap kinds # {} => f <= Len(ts)
  <2> SUFFICES ASSUME NEW k \in at PROVE f <= Len(ts)
    BY DEF Kinds
  <2> QED BY <1>2, <1>3
<1> QED BY <1>3, <1>4, <1>5, <1>6 DEF f

\* What comes after the first such token does not matter.
LEMMA FindAppend ==
    ASSUME NEW ts \in Seq(Token), NEW t \in Token, NEW kinds, Kinds(ts) \cap kinds # {}
    PROVE  Find(Append(ts, t), kinds) = Find(ts, kinds)
<1> DEFINE more == Append(ts, t)
           f == Find(ts, kinds)
           on == {i \in DOMAIN more : more[i][1] \in kinds}
<1>1. /\ Len(more) = Len(ts) + 1 /\ DOMAIN more = 1 .. Len(ts) + 1
      /\ \A i \in 1 .. Len(ts) : more[i] = ts[i]
      /\ Len(ts) \in Nat
  OBVIOUS
<1>2. f \in 1 .. Len(ts) /\ ts[f][1] \in kinds /\ \A k \in 1 .. f - 1 : ts[k][1] \notin kinds
  BY FindIn
<1> HIDE DEF f, more
<1>3. f \in on
  BY <1>1, <1>2
<1>4. \A k \in on : f <= k
  <2> SUFFICES ASSUME NEW k \in on, ~(f <= k) PROVE FALSE
    OBVIOUS
  <2>1. k \in 1 .. f - 1 /\ k \in 1 .. Len(ts)
    BY <1>1, <1>2
  <2> QED BY <2>1, <1>1, <1>2
<1>5. on \subseteq 1 .. Len(ts) + 1
  BY <1>1
<1>6. Find(more, kinds) = First(on, more)
  BY DEF Find
<1> HIDE DEF on
<1>7. First(on, more) = f
  <2>1. Len(ts) + 1 \in Nat
    BY <1>1
  <2> QED BY <1>1, <1>3, <1>4, <1>5, <2>1, FirstIs
<1> QED BY <1>6, <1>7 DEF f, more

LEMMA BeforeAppend ==
    ASSUME NEW ts \in Seq(Token), NEW t \in Token, NEW i \in 1 .. Len(ts) + 1
    PROVE  Before(Append(ts, t), i) = Before(ts, i)
BY DEF Before

\* The positions of a set can be counted through, which is what Without does.
LEMMA Ranked ==
    ASSUME NEW n \in Nat, NEW K, K \subseteq 1 .. n, NEW k \in 1 .. Cardinality(K)
    PROVE  \E i \in K : Cardinality(K \cap 1 .. i) = k
<1> DEFINE C(i) == Cardinality(K \cap 1 .. i)
<1>1. \A i \in 0 .. n : IsFiniteSet(K \cap 1 .. i) /\ C(i) \in Nat
  <2> TAKE i \in 0 .. n
  <2>1. IsFiniteSet(1 .. i)
    BY FS_Interval
  <2>2. K \cap 1 .. i \subseteq 1 .. i
    OBVIOUS
  <2>3. IsFiniteSet(K \cap 1 .. i)
    BY <2>1, <2>2, FS_Subset
  <2> QED BY <2>3, FS_CardinalityType
<1>2. K \cap 1 .. n = K
  OBVIOUS
<1>3. k <= C(n) /\ n \in 1 .. n
  <2>1. Cardinality(K) # 0
    OBVIOUS
  <2>2. n # 0
    <3> SUFFICES ASSUME n = 0 PROVE FALSE
      OBVIOUS
    <3>1. K = {}
      OBVIOUS
    <3> QED BY <3>1, <2>1, FS_EmptySet
  <2> QED BY <1>2, <2>2
<1>4. C(0) = 0
  <2>1. K \cap 1 .. 0 = {}
    OBVIOUS
  <2> QED BY <2>1, FS_EmptySet
<1>5. \A i \in 1 .. n : C(i) = IF i \in K THEN C(i - 1) + 1 ELSE C(i - 1)
  <2> TAKE i \in 1 .. n
  <2>1. IsFiniteSet(K \cap 1 .. i - 1)
    BY <1>1
  <2>2. CASE i \in K
    <3>1. K \cap 1 .. i = (K \cap 1 .. i - 1) \cup {i} /\ i \notin K \cap 1 .. i - 1
      BY <2>2
    <3> QED BY <2>1, <2>2, <3>1, FS_AddElement
  <2>3. CASE i \notin K
    <3>1. K \cap 1 .. i = K \cap 1 .. i - 1
      BY <2>3
    <3> QED BY <2>3, <3>1
  <2> QED BY <2>2, <2>3
<1> DEFINE T == {i \in 1 .. n : k <= C(i)}
<1> HIDE DEF C
<1>6. PICK i \in T : \A j \in T : i <= j
  <2>1. T # {} /\ T \subseteq 1 .. n
    BY <1>3
  <2> HIDE DEF T
  <2> QED BY <2>1, Least
<1>7. i \in 1 .. n /\ k <= C(i) /\ i - 1 \in 0 .. n
  OBVIOUS
<1>8. C(i - 1) < k
  <2>1. CASE i = 1
    BY <2>1, <1>4
  <2>2. CASE i # 1
    <3>1. i - 1 \in 1 .. n /\ ~(i <= i - 1)
      BY <2>2, <1>7
    <3>2. ~(k <= C(i - 1))
      BY <3>1, <1>6
    <3>3. C(i - 1) \in Nat
      BY <1>1, <1>7
    <3>4. k \in Int
      OBVIOUS
    <3> QED BY <3>2, <3>3, <3>4
  <2> QED BY <2>1, <2>2
<1>9. C(i - 1) \in Nat /\ k \in Int /\ C(i) = IF i \in K THEN C(i - 1) + 1 ELSE C(i - 1)
  <2>1. C(i - 1) \in Nat
    BY <1>1, <1>7
  <2>2. k \in Int
    OBVIOUS
  <2>3. C(i) = IF i \in K THEN C(i - 1) + 1 ELSE C(i - 1)
    BY <1>5, <1>7
  <2> QED BY <2>1, <2>2, <2>3
<1>10. i \in K /\ C(i) = k
  BY <1>7, <1>8, <1>9
<1> QED BY <1>10 DEF C

LEMMA WithoutKeeps ==
    ASSUME NEW S, NEW ts \in Seq(S), NEW kinds
    PROVE  /\ Without(ts, kinds) \in Seq(S)
           /\ Kinds(Without(ts, kinds)) \subseteq Kinds(ts) \ kinds
<1> DEFINE kept == {i \in DOMAIN ts : ts[i][1] \notin kinds}
           Nth(k) == CHOOSE i \in kept : Cardinality(kept \cap 1 .. i) = k
<1>1. kept \subseteq 1 .. Len(ts) /\ IsFiniteSet(kept)
  <2>1. IsFiniteSet(1 .. Len(ts)) /\ kept \subseteq 1 .. Len(ts)
    BY FS_Interval
  <2> QED BY <2>1, FS_Subset
<1>2. Cardinality(kept) \in Nat
  BY <1>1, FS_CardinalityType
<1>3. \A k \in 1 .. Cardinality(kept) : Nth(k) \in kept
  <2> TAKE k \in 1 .. Cardinality(kept)
  <2>1. Len(ts) \in Nat
    OBVIOUS
  <2> HIDE DEF kept
  <2>2. \E i \in kept : Cardinality(kept \cap 1 .. i) = k
    BY <1>1, <2>1, Ranked
  <2> QED BY <2>2
<1>4. Without(ts, kinds) = [k \in 1 .. Cardinality(kept) |-> ts[Nth(k)]]
  BY DEF Without
<1> HIDE DEF Nth
<1>5. \A k \in 1 .. Cardinality(kept) : ts[Nth(k)] \in S /\ ts[Nth(k)][1] \in Kinds(ts) \ kinds
  BY <1>3 DEF Kinds
<1> HIDE DEF kept
<1> QED BY <1>2, <1>4, <1>5 DEF Kinds

\* Part and FirstValue, of any components.
Having(c, kinds) == {i \in DOMAIN c : Kinds(c[i]) \cap kinds # {}}
PartOf(c, kinds) == Append(c, <<>>)[First(Having(c, kinds), c)]
ValueOf(c, kinds) == PartOf(c, kinds)[Find(PartOf(c, kinds), kinds)][2]

LEMMA PartOfHas ==
    ASSUME NEW c \in Seq(Seq(Token)), NEW kinds
    PROVE  /\ PartOf(c, kinds) \in Seq(Token)
           /\ PartOf(c, kinds) = <<>> <=> Having(c, kinds) = {}
           /\ Having(c, kinds) # {} => Kinds(PartOf(c, kinds)) \cap kinds # {}
<1> DEFINE i == First(Having(c, kinds), c)
<1>1. Len(c) \in Nat /\ Having(c, kinds) \subseteq 1 .. Len(c)
  BY DEF Having
<1>2. /\ i \in Having(c, kinds) \cup {Len(c) + 1}
      /\ \A k \in Having(c, kinds) : i <= k
  <2>1. /\ i \in Having(c, kinds) \cup {Len(c) + 1}
        /\ \A k \in Having(c, kinds) \cup {Len(c) + 1} : i <= k
    BY <1>1, FirstOf
  <2> QED BY <2>1
<1> HIDE DEF i
<1>3. CASE Having(c, kinds) # {}
  <2>1. i \in Having(c, kinds)
    BY <1>1, <1>2, <1>3
  <2>2. i \in 1 .. Len(c) /\ Kinds(c[i]) \cap kinds # {}
    BY <1>1, <2>1 DEF Having
  <2>3. PartOf(c, kinds) = c[i] /\ c[i] \in Seq(Token)
    BY <2>2 DEF PartOf, i
  <2>4. c[i] # <<>>
    BY <2>2 DEF Kinds
  <2> QED BY <1>3, <2>2, <2>3, <2>4
<1>4. CASE Having(c, kinds) = {}
  <2>1. i = Len(c) + 1
    BY <1>2, <1>4
  <2>2. PartOf(c, kinds) = <<>>
    BY <1>1, <2>1 DEF PartOf, i
  <2> QED BY <1>4, <2>2
<1> QED BY <1>3, <1>4

LEMMA KindsAppend ==
    ASSUME NEW ts \in Seq(Token), NEW t \in Token
    PROVE  Kinds(Append(ts, t)) = Kinds(ts) \cup {t[1]}
<1>1. /\ DOMAIN Append(ts, t) = DOMAIN ts \cup {Len(ts) + 1}
      /\ \A i \in DOMAIN ts : Append(ts, t)[i] = ts[i]
      /\ Append(ts, t)[Len(ts) + 1] = t
  OBVIOUS
<1> QED BY <1>1 DEF Kinds

\* A name that has such a token may go on: the first value stays.
LEMMA ValueStays ==
    ASSUME NEW dirs \in Seq(Seq(Token)), NEW stem \in Seq(Token), NEW t \in Token, NEW kinds,
           Kinds(stem) \cap kinds # {}
    PROVE  ValueOf(Append(dirs, Append(stem, t)), kinds) = ValueOf(Append(dirs, stem), kinds)
<1> DEFINE c == Append(dirs, stem)
           d == Append(dirs, Append(stem, t))
           n == Len(dirs) + 1
<1>1. Append(stem, t) \in Seq(Token)
  OBVIOUS
<1>2. /\ c \in Seq(Seq(Token)) /\ d \in Seq(Seq(Token))
      /\ Len(c) = n /\ Len(d) = n /\ n \in Nat
      /\ c[n] = stem /\ d[n] = Append(stem, t) /\ \A i \in 1 .. Len(dirs) : c[i] = d[i]
  BY <1>1
<1>3. Kinds(Append(stem, t)) \cap kinds # {}
  BY KindsAppend
<1> HIDE DEF c, d
<1>4. Having(c, kinds) = Having(d, kinds) /\ n \in Having(c, kinds)
  <2>1. DOMAIN c = 1 .. n /\ DOMAIN d = 1 .. n
    BY <1>2
  <2>2. \A i \in 1 .. n : Kinds(c[i]) \cap kinds # {} <=> Kinds(d[i]) \cap kinds # {}
    <3> TAKE i \in 1 .. n
    <3>1. CASE i = n
      BY <3>1, <1>2, <1>3
    <3>2. CASE i # n
      <4>1. c[i] = d[i]
        BY <3>2, <1>2
      <4> QED BY <4>1
    <3> QED BY <3>1, <3>2
  <2>3. n \in 1 .. n /\ Kinds(c[n]) \cap kinds # {}
    BY <1>2
  <2> QED BY <2>1, <2>2, <2>3 DEF Having
<1> DEFINE i == First(Having(c, kinds), c)
<1>5. First(Having(d, kinds), d) = i
  BY <1>2, <1>4 DEF First
<1>6. Having(c, kinds) \subseteq 1 .. n
  BY <1>2 DEF Having
<1>7. i \in 1 .. n
  <2>1. i \in Having(c, kinds) \cup {n + 1} /\ \A k \in Having(c, kinds) \cup {n + 1} : i <= k
    BY <1>2, <1>6, FirstOf
  <2>2. i <= n
    BY <1>4, <2>1
  <2> HIDE DEF i
  <2> QED BY <1>6, <2>1, <2>2
<1> HIDE DEF i, n
<1>8. PartOf(c, kinds) = c[i] /\ PartOf(d, kinds) = d[i]
  BY <1>2, <1>5, <1>7 DEF PartOf, i
<1>9. CASE i = n
  <2>1. Find(Append(stem, t), kinds) = Find(stem, kinds)
    BY FindAppend
  <2>2. Find(stem, kinds) \in 1 .. Len(stem)
    BY FindIn
  <2>3. Append(stem, t)[Find(stem, kinds)] = stem[Find(stem, kinds)]
    BY <2>2
  <2> QED BY <1>2, <1>8, <1>9, <2>1, <2>3 DEF ValueOf, c, d
<1>10. CASE i # n
  <2>1. c[i] = d[i]
    BY <1>2, <1>7, <1>10 DEF n
  <2> QED BY <1>8, <2>1 DEF ValueOf, c, d
<1> QED BY <1>9, <1>10

\* What the rules are asked for.
Typed ==
    /\ src \in [dirs : Folders, stem : Seq(Tokens) \ {<<>>}, category : DOMAIN CategoryFolder]
    /\ hints \in Hints

LEMMA Types ==
    ASSUME Typed
    PROVE  /\ src.dirs \in Seq(Seq(Token)) /\ src.stem \in Seq(Token) /\ src.stem # <<>>
           /\ Components \in Seq(Seq(Token))
           /\ Len(Components) = Len(src.dirs) + 1 /\ Components[Len(Components)] = src.stem
<1>1. src.dirs \in Seq(Seq(Token)) /\ src.stem # <<>>
  BY LayoutAssumption DEF Typed, Token
<1>2. src.stem \in Seq(Token)
  BY LayoutAssumption DEF Typed, Token
<1> QED BY <1>1, <1>2 DEF Components

LEMMA PartIs ==
    ASSUME NEW kinds
    PROVE  Part(kinds) = PartOf(Components, kinds) /\ FirstValue(kinds) = ValueOf(Components, kinds)
BY DEF Part, FirstValue, PartOf, ValueOf, Having

\* The name goes on.
Going(t) == src' = [src EXCEPT !.stem = Append(@, t)] /\ hints' = hints

LEMMA TypedAlways == LayoutSpec => []Typed
<1>1. AnyFile => Typed
  <2> SUFFICES ASSUME AnyFile PROVE Typed
    OBVIOUS
  <2>1. PICK t \in Tokens : src.stem = <<t>>
    BY DEF AnyFile
  <2>2. src.stem \in Seq(Tokens) \ {<<>>}
    BY <2>1
  <2> QED BY <2>2 DEF AnyFile, Typed
<1>2. Typed /\ [NextFile]_<<src, hints>> => Typed'
  <2> SUFFICES ASSUME Typed, [NextFile]_<<src, hints>> PROVE Typed'
    OBVIOUS
  <2>1. CASE NextFile
    <3>1. PICK t \in Tokens : src' = [src EXCEPT !.stem = Append(@, t)] /\ hints' = hints
      BY <2>1 DEF NextFile
    <3>2. Append(src.stem, t) \in Seq(Tokens) \ {<<>>}
      BY DEF Typed
    <3> QED BY <3>1, <3>2 DEF Typed
  <2>2. CASE UNCHANGED <<src, hints>>
    BY <2>2 DEF Typed
  <2> QED BY <2>1, <2>2
<1> QED BY <1>1, <1>2, PTL DEF LayoutSpec

LEMMA Goes ==
    ASSUME Typed, NEW t \in Tokens, Going(t)
    PROVE  /\ t \in Token /\ Len(src.stem) \in Nat
           /\ src'.dirs = src.dirs /\ src'.category = src.category
           /\ src'.stem = Append(src.stem, t)
           /\ Components' = Append(src.dirs, Append(src.stem, t))
BY LayoutAssumption, Types DEF Going, Typed, Token, Components

\* A kind the name has is there, with its first value, whatever follows.
LEMMA ValueKept ==
    ASSUME Typed, NEW t \in Tokens, Going(t), NEW kinds, Kinds(src.stem) \cap kinds # {}
    PROVE  /\ Part(kinds) # <<>> /\ Part(kinds)' # <<>>
           /\ FirstValue(kinds)' = FirstValue(kinds)
<1> DEFINE c == Append(src.dirs, src.stem)
           d == Append(src.dirs, Append(src.stem, t))
<1>1. /\ src.dirs \in Seq(Seq(Token)) /\ src.stem \in Seq(Token) /\ t \in Token
      /\ Components = c /\ Components' = d
  BY Types, Goes DEF Components
<1>2. /\ Part(kinds) = PartOf(c, kinds) /\ Part(kinds)' = PartOf(d, kinds)
      /\ FirstValue(kinds) = ValueOf(c, kinds) /\ FirstValue(kinds)' = ValueOf(d, kinds)
  <2>1. Part(kinds)' = PartOf(Components', kinds) /\ FirstValue(kinds)' = ValueOf(Components', kinds)
    BY DEF Part, FirstValue, PartOf, ValueOf, Having
  <2> QED BY <1>1, <2>1, PartIs
<1>3. ValueOf(d, kinds) = ValueOf(c, kinds)
  BY <1>1, ValueStays
<1>4. Kinds(Append(src.stem, t)) \cap kinds # {}
  BY <1>1, KindsAppend
<1>5. /\ c \in Seq(Seq(Token)) /\ d \in Seq(Seq(Token)) /\ Append(src.stem, t) \in Seq(Token)
      /\ Len(src.dirs) + 1 \in DOMAIN c /\ c[Len(src.dirs) + 1] = src.stem
      /\ Len(src.dirs) + 1 \in DOMAIN d /\ d[Len(src.dirs) + 1] = Append(src.stem, t)
  BY <1>1
<1> HIDE DEF c, d
<1>6. Having(c, kinds) # {} /\ Having(d, kinds) # {}
  BY <1>4, <1>5 DEF Having
<1>7. PartOf(c, kinds) # <<>> /\ PartOf(d, kinds) # <<>>
  BY <1>5, <1>6, PartOfHas
<1> QED BY <1>2, <1>3, <1>7

\* And what follows brings no kind of its own into a path without it.
LEMMA NoneAppears ==
    ASSUME Typed, NEW t \in Tokens, Going(t), NEW kinds, Part(kinds) = <<>>, t[1] \notin kinds
    PROVE  Part(kinds)' = <<>>
<1> DEFINE c == Append(src.dirs, src.stem)
           d == Append(src.dirs, Append(src.stem, t))
<1>1. /\ src.dirs \in Seq(Seq(Token)) /\ src.stem \in Seq(Token) /\ t \in Token
      /\ Components = c /\ Components' = d
  BY Types, Goes DEF Components
<1>2. Part(kinds) = PartOf(c, kinds) /\ Part(kinds)' = PartOf(d, kinds)
  <2>1. Part(kinds)' = PartOf(Components', kinds)
    BY DEF Part, FirstValue, PartOf, ValueOf, Having
  <2> QED BY <1>1, <2>1, PartIs
<1>3. Append(src.stem, t) \in Seq(Token) /\ c \in Seq(Seq(Token)) /\ d \in Seq(Seq(Token))
  BY <1>1
<1>4. Having(c, kinds) = {}
  BY <1>2, <1>3, PartOfHas
<1>5. /\ DOMAIN c = 1 .. Len(src.dirs) + 1 /\ DOMAIN d = 1 .. Len(src.dirs) + 1
      /\ \A i \in 1 .. Len(src.dirs) : c[i] = d[i]
      /\ c[Len(src.dirs) + 1] = src.stem /\ d[Len(src.dirs) + 1] = Append(src.stem, t)
      /\ Len(src.dirs) \in Nat
  BY <1>1
<1> HIDE DEF c, d
<1>6. \A i \in 1 .. Len(src.dirs) + 1 : Kinds(c[i]) \cap kinds = {}
  BY <1>4, <1>5 DEF Having
<1>7. Kinds(Append(src.stem, t)) \cap kinds = {}
  <2>1. Kinds(src.stem) \cap kinds = {}
    <3>1. Len(src.dirs) + 1 \in 1 .. Len(src.dirs) + 1
      BY <1>5
    <3> QED BY <1>5, <1>6, <3>1
  <2> QED BY <1>1, <2>1, KindsAppend
<1>8. \A i \in DOMAIN d : Kinds(d[i]) \cap kinds = {}
  <2> TAKE i \in DOMAIN d
  <2>1. CASE i = Len(src.dirs) + 1
    BY <2>1, <1>5, <1>7
  <2>2. CASE i # Len(src.dirs) + 1
    <3>1. i \in 1 .. Len(src.dirs)
      BY <2>2, <1>5
    <3> QED BY <3>1, <1>5, <1>6
  <2> QED BY <2>1, <2>2
<1>9. Having(d, kinds) = {}
  BY <1>8 DEF Having
<1> QED BY <1>2, <1>3, <1>9, PartOfHas

LEMMA TitleKept ==
    ASSUME NEW stem \in Seq(Token), NEW t \in Token, NEW kinds, Kinds(stem) \cap kinds # {}
    PROVE  Before(Append(stem, t), Find(Append(stem, t), kinds)) = Before(stem, Find(stem, kinds))
<1>1. Find(Append(stem, t), kinds) = Find(stem, kinds) /\ Find(stem, kinds) \in 1 .. Len(stem) + 1
  BY FindAppend, FindIn
<1> QED BY <1>1, BeforeAppend

\* An episode number after the first mark, season or year does not cut a title.
LEMMA NumberIn ==
    ASSUME NEW ts \in Seq(Token)
    PROVE  /\ DashNumber(ts) \in 1 .. Len(ts) + 1
           /\ DashNumber(ts) <= Len(ts) =>
                /\ DashNumber(ts) < Len(ts)
                /\ ts[DashNumber(ts)][1] = "dash" /\ ts[DashNumber(ts) + 1][1] \in Digits
           /\ \A k \in 1 .. Len(ts) - 1 :
                ts[k][1] = "dash" /\ ts[k + 1][1] \in Digits => DashNumber(ts) <= k
<1> DEFINE at == {k \in DOMAIN ts : k < Len(ts) /\ ts[k][1] = "dash" /\ ts[k + 1][1] \in Digits}
           f == DashNumber(ts)
<1>1. at \subseteq 1 .. Len(ts) /\ f = First(at, ts) /\ Len(ts) \in Nat
  BY DEF DashNumber
<1>2. f \in at \cup {Len(ts) + 1} /\ \A k \in at \cup {Len(ts) + 1} : f <= k
  <2> HIDE DEF at, f
  <2> QED BY <1>1, FirstOf
<1> HIDE DEF f
<1>3. f \in 1 .. Len(ts) + 1
  BY <1>1, <1>2
<1>4. f <= Len(ts) => f \in at
  BY <1>1, <1>2
<1>5. f <= Len(ts) => f < Len(ts) /\ ts[f][1] = "dash" /\ ts[f + 1][1] \in Digits
  BY <1>4
<1>6. \A k \in 1 .. Len(ts) - 1 : ts[k][1] = "dash" /\ ts[k + 1][1] \in Digits => f <= k
  <2> SUFFICES ASSUME NEW k \in 1 .. Len(ts) - 1, ts[k][1] = "dash", ts[k + 1][1] \in Digits PROVE f <= k
    OBVIOUS
  <2>1. k \in at
    OBVIOUS
  <2> QED BY <2>1, <1>2
<1> QED BY <1>3, <1>5, <1>6 DEF f

LEMMA CutKept ==
    ASSUME NEW ts \in Seq(Token), NEW t \in Token, NEW cut \in 1 .. Len(ts)
    PROVE  Min({DashNumber(Append(ts, t)), cut}) = Min({DashNumber(ts), cut})
<1> DEFINE more == Append(ts, t)
           f == DashNumber(ts)
           g == DashNumber(more)
           n == Len(ts)
<1>1. /\ more \in Seq(Token) /\ Len(more) = n + 1 /\ n \in Nat
      /\ \A i \in 1 .. n : more[i] = ts[i]
  OBVIOUS
<1>2. /\ f \in 1 .. n + 1
      /\ f <= n => f < n /\ ts[f][1] = "dash" /\ ts[f + 1][1] \in Digits
      /\ \A k \in 1 .. n - 1 : ts[k][1] = "dash" /\ ts[k + 1][1] \in Digits => f <= k
  BY NumberIn
<1>3. /\ g \in 1 .. n + 2
      /\ g <= n + 1 => g < n + 1 /\ more[g][1] = "dash" /\ more[g + 1][1] \in Digits
      /\ \A k \in 1 .. n : more[k][1] = "dash" /\ more[k + 1][1] \in Digits => g <= k
  <2> HIDE DEF more
  <2>1. /\ g \in 1 .. Len(more) + 1
        /\ g <= Len(more) => g < Len(more) /\ more[g][1] = "dash" /\ more[g + 1][1] \in Digits
        /\ \A k \in 1 .. Len(more) - 1 : more[k][1] = "dash" /\ more[k + 1][1] \in Digits => g <= k
    BY <1>1, NumberIn
  <2> QED BY <1>1, <2>1
<1> HIDE DEF f, g, more
<1>4. f < n => g = f
  <2> SUFFICES ASSUME f < n PROVE g = f
    OBVIOUS
  <2>1. more[f] = ts[f] /\ more[f + 1] = ts[f + 1] /\ f \in 1 .. n
    BY <1>1, <1>2
  <2>2. g <= f
    BY <1>2, <1>3, <2>1
  <2>3. more[g] = ts[g] /\ more[g + 1] = ts[g + 1] /\ g \in 1 .. n - 1
    BY <1>1, <1>2, <1>3, <2>2
  <2>4. f <= g
    BY <1>2, <1>3, <2>2, <2>3
  <2> QED BY <1>2, <1>3, <2>2, <2>4
<1>5. f = n + 1 => n <= g
  <2> SUFFICES ASSUME f = n + 1, g < n PROVE FALSE
    BY <1>1, <1>3
  <2>1. more[g] = ts[g] /\ more[g + 1] = ts[g + 1] /\ g \in 1 .. n - 1
    BY <1>1, <1>3
  <2> QED BY <1>2, <1>3, <2>1
<1>6. (f < n /\ g = f) \/ (f = n + 1 /\ n <= g)
  BY <1>2, <1>4, <1>5
<1>7. n \in Int /\ f \in Int /\ g \in Int /\ cut \in Int /\ cut <= n
  BY <1>1, <1>2, <1>3
<1>8. ASSUME n <= f, n <= g PROVE Min({f, cut}) = cut /\ Min({g, cut}) = cut
  BY ONLY <1>7, <1>8 DEF Min
<1>9. CASE f < n
  BY <1>4, <1>9 DEF f, g, more
<1>10. CASE f = n + 1
  <2>1. n <= f /\ n <= g
    BY <1>5, <1>7, <1>10
  <2> QED BY <1>8, <2>1 DEF f, g, more
<1> QED BY <1>2, <1>7, <1>9, <1>10

\* The title of a group's release, of any name.
LeadOf(s) == IF s # <<>> /\ s[1][1] = "group" THEN Find(s, AllKinds \ {"group", "dash"}) ELSE 1
RestOf(s) == SubSeq(s, LeadOf(s), Len(s))

LEMMA RestKept ==
    ASSUME NEW s \in Seq(Token), s # <<>>, NEW t \in Token, Kinds(s) \cap {"mark", "season", "year"} # {}
    PROVE  /\ RestOf(s) \in Seq(Token) /\ RestOf(Append(s, t)) = Append(RestOf(s), t)
           /\ Kinds(RestOf(s)) \cap {"mark", "season", "year"} # {}
<1> DEFINE i == LeadOf(s)
           named == AllKinds \ {"group", "dash"}
<1>1. PICK p \in 1 .. Len(s) : s[p][1] \in {"mark", "season", "year"}
  BY DEF Kinds
<1>2. s[p][1] \in named /\ Kinds(s) \cap named # {}
  <2>1. s[p][1] \in named
    BY <1>1 DEF AllKinds
  <2>2. s[p][1] \in Kinds(s)
    BY DEF Kinds
  <2> QED BY <2>1, <2>2
<1>3. Append(s, t)[1] = s[1] /\ Append(s, t) # <<>> /\ Len(s) \in Nat /\ Len(s) # 0
  OBVIOUS
<1> HIDE DEF named
<1>4. i \in 1 .. p /\ LeadOf(Append(s, t)) = i
  <2>1. /\ Find(s, named) \in 1 .. Len(s) + 1
        /\ \A k \in 1 .. Find(s, named) - 1 : s[k][1] \notin named
    BY FindIn
  <2>2. Find(s, named) \in 1 .. p
    <3> SUFFICES ASSUME p < Find(s, named) PROVE FALSE
      BY <2>1
    <3>1. p \in 1 .. Find(s, named) - 1
      BY <2>1
    <3> QED BY <3>1, <2>1, <1>2
  <2>3. Find(Append(s, t), named) = Find(s, named)
    BY <1>2, FindAppend
  <2> QED BY <1>3, <2>2, <2>3 DEF LeadOf, named
<1> HIDE DEF i
<1>5. RestOf(s) = SubSeq(s, i, Len(s)) /\ RestOf(Append(s, t)) = SubSeq(Append(s, t), i, Len(s) + 1)
  BY <1>4 DEF RestOf, i
<1>6. /\ RestOf(s) \in Seq(Token) /\ Len(RestOf(s)) = Len(s) - i + 1
      /\ \A k \in 1 .. Len(s) - i + 1 : RestOf(s)[k] = s[k + i - 1]
  BY <1>3, <1>4, <1>5
<1>7. RestOf(Append(s, t)) = Append(RestOf(s), t)
  BY <1>3, <1>4, <1>5
<1>8. p - i + 1 \in DOMAIN RestOf(s) /\ RestOf(s)[p - i + 1] = s[p]
  BY <1>4, <1>6
<1>9. s[p][1] \in Kinds(RestOf(s))
  BY <1>8 DEF Kinds
<1> QED BY <1>1, <1>6, <1>7, <1>9

LEMMA AnimeKept ==
    ASSUME Typed, NEW t \in Tokens, Going(t), Kinds(src.stem) \cap {"mark", "season", "year"} # {}
    PROVE  AnimeTitle' = AnimeTitle
<1> DEFINE cuts == {"mark", "season", "year"}
           EndOf(r) == Min({DashNumber(r), Find(r, cuts)})
           r == RestOf(src.stem)
<1>1. AnimeTitle = Titled(Before(r, EndOf(r)))
  BY DEF AnimeTitle, RestOf, LeadOf
<1>2. AnimeTitle' = Titled(Before(RestOf(Append(src.stem, t)), EndOf(RestOf(Append(src.stem, t)))))
  <2>1. src'.stem = Append(src.stem, t)
    BY Goes
  <2> QED BY <2>1 DEF AnimeTitle, RestOf, LeadOf
<1>3. /\ r \in Seq(Token) /\ t \in Token /\ Kinds(r) \cap cuts # {}
      /\ RestOf(Append(src.stem, t)) = Append(r, t)
  <2>1. src.stem \in Seq(Token) /\ src.stem # <<>> /\ t \in Token
    BY Types, Goes
  <2> QED BY <2>1, RestKept
<1> HIDE DEF r, cuts
<1>4. Find(Append(r, t), cuts) = Find(r, cuts) /\ Find(r, cuts) \in 1 .. Len(r)
  <2>1. Find(r, cuts) \in 1 .. Len(r) + 1 /\ Find(r, cuts) <= Len(r)
    BY <1>3, FindIn
  <2>2. Len(r) \in Nat
    BY <1>3
  <2> QED BY <1>3, <2>1, <2>2, FindAppend
<1>5. EndOf(Append(r, t)) = EndOf(r)
  <2>1. Min({DashNumber(Append(r, t)), Find(r, cuts)}) = Min({DashNumber(r), Find(r, cuts)})
    BY <1>3, <1>4, CutKept
  <2> QED BY <1>4, <2>1
<1>6. EndOf(r) \in 1 .. Len(r) + 1
  <2>1. DashNumber(r) \in 1 .. Len(r) + 1 /\ Len(r) + 1 \in Nat
    BY <1>3, NumberIn
  <2>2. {DashNumber(r), Find(r, cuts)} \subseteq 1 .. Len(r) + 1
    BY <2>1, <1>4
  <2>3. EndOf(r) \in {DashNumber(r), Find(r, cuts)}
    BY <2>1, <2>2, MinOf
  <2> QED BY <2>2, <2>3
<1> HIDE DEF EndOf
<1>7. Before(Append(r, t), EndOf(r)) = Before(r, EndOf(r))
  BY <1>3, <1>6, BeforeAppend
<1> QED BY <1>1, <1>2, <1>3, <1>5, <1>7

LEMMA SeasonStep ==
    ASSUME Typed, NEW t \in Tokens, Going(t), src.category = "video", "mark" \in Kinds(src.stem)
    PROVE  Destination' = Destination
<1> DEFINE tv == [kind |-> "tv", value |-> FindSeason]
<1>1. FindSeason' = FindSeason /\ MediaKind = tv /\ MediaKind' = tv
  <2>1. Kinds(src.stem) \cap {"mark", "spread"} # {}
    OBVIOUS
  <2>2. /\ Part({"mark", "spread"}) # <<>> /\ Part({"mark", "spread"})' # <<>>
        /\ FirstValue({"mark", "spread"})' = FirstValue({"mark", "spread"})
    BY <2>1, ValueKept
  <2>3. HasSeason /\ HasSeason'
    BY <2>2 DEF HasSeason
  <2>4. FindSeason' = FindSeason
    BY <2>2 DEF FindSeason
  <2> QED BY <2>3, <2>4 DEF MediaKind
<1>2. tv.kind = "tv"
  OBVIOUS
<1> HIDE DEF tv
<1>3. src.stem \in Seq(Token) /\ src.stem # <<>> /\ t \in Token /\ src'.stem = Append(src.stem, t)
  BY Types, Goes
<1>4. TitleFromPath' = TitleFromPath
  <2>1. Kinds(src.stem) \cap {"mark"} # {}
    OBVIOUS
  <2>2. Before(src'.stem, Find(src'.stem, {"mark"})) = Before(src.stem, Find(src.stem, {"mark"}))
    BY <1>3, <2>1, TitleKept
  <2>3. TitleFromPath = Titled(Before(src.stem, Find(src.stem, {"mark"})))
    BY <1>1, <1>2 DEF TitleFromPath
  <2>4. TitleFromPath' = Titled(Before(src'.stem, Find(src'.stem, {"mark"})))
    BY <1>1, <1>2 DEF TitleFromPath
  <2> QED BY <2>2, <2>3, <2>4
<1>5. AnimeTitle' = AnimeTitle
  <2>1. Kinds(src.stem) \cap {"mark", "season", "year"} # {}
    OBVIOUS
  <2> QED BY <2>1, AnimeKept
<1>6. LooksLikeAnime' = LooksLikeAnime
  <2>1. "mark" \in Kinds(src'.stem)
    BY <1>3, KindsAppend
  <2>2. src'.stem # <<>> /\ src'.stem[1] = src.stem[1]
    BY <1>3
  <2>3. LooksLikeAnime = (src.stem[1][1] = "group")
    BY <1>3 DEF LooksLikeAnime
  <2>4. LooksLikeAnime' = (src'.stem[1][1] = "group")
    BY <2>1, <2>2 DEF LooksLikeAnime
  <2> QED BY <2>2, <2>3, <2>4
<1>7. hints' = hints /\ src'.category = "video"
  BY Goes DEF Going
<1>8. VideoFolder' = VideoFolder
  BY <1>1, <1>2, <1>4, <1>5, <1>6, <1>7 DEF VideoFolder
<1> QED BY <1>7, <1>8 DEF Destination

LEMMA FilmStep ==
    ASSUME Typed, NEW t \in Tokens, Going(t), src.category = "video",
           MediaKind.kind = "movie", Part({"season"}) = <<>>,
           "year" \in Kinds(src.stem), t[1] \notin {"mark", "spread", "season"},
           hints.media # Absent \/ src.stem[1][1] # "group"
    PROVE  Destination' = Destination
<1> DEFINE film == [kind |-> "movie", value |-> FirstValue({"year"})]
<1>1. MediaKind = film /\ MediaKind' = film
  <2>1. ~HasSeason /\ Part({"mark", "spread"}) = <<>>
    BY DEF MediaKind, HasSeason
  <2>2. ~HasSeason'
    <3>1. Part({"mark", "spread"})' = <<>>
      BY <2>1, NoneAppears
    <3>2. Part({"season"})' = <<>>
      BY NoneAppears
    <3> QED BY <3>1, <3>2 DEF HasSeason
  <2>3. Kinds(src.stem) \cap {"year"} # {}
    OBVIOUS
  <2>4. /\ Part({"year"}) # <<>> /\ Part({"year"})' # <<>>
        /\ FirstValue({"year"})' = FirstValue({"year"})
    BY <2>3, ValueKept
  <2> QED BY <2>1, <2>2, <2>4 DEF MediaKind
<1>2. film.kind = "movie" /\ film.kind # "tv"
  OBVIOUS
<1> HIDE DEF film
<1>3. src.stem \in Seq(Token) /\ src.stem # <<>> /\ t \in Token /\ src'.stem = Append(src.stem, t)
  BY Types, Goes
<1>4. TitleFromPath' = TitleFromPath
  <2>1. Kinds(src.stem) \cap {"year"} # {}
    OBVIOUS
  <2>2. Before(src'.stem, Find(src'.stem, {"year"})) = Before(src.stem, Find(src.stem, {"year"}))
    BY <1>3, <2>1, TitleKept
  <2>3. TitleFromPath = Titled(Before(src.stem, Find(src.stem, {"year"})))
    BY <1>1, <1>2 DEF TitleFromPath
  <2>4. TitleFromPath' = Titled(Before(src'.stem, Find(src'.stem, {"year"})))
    BY <1>1, <1>2 DEF TitleFromPath
  <2> QED BY <2>2, <2>3, <2>4
<1>5. AnimeTitle' = AnimeTitle
  <2>1. Kinds(src.stem) \cap {"mark", "season", "year"} # {}
    OBVIOUS
  <2> QED BY <2>1, AnimeKept
<1>6. hints' = hints /\ src'.category = "video"
  BY Goes DEF Going
<1>7. hints.media = Absent => ~LooksLikeAnime /\ ~LooksLikeAnime'
  <2>1. src'.stem[1] = src.stem[1]
    BY <1>3
  <2> QED BY <2>1 DEF LooksLikeAnime
<1>8. VideoFolder' = VideoFolder
  BY <1>1, <1>2, <1>4, <1>5, <1>6, <1>7 DEF VideoFolder
<1> QED BY <1>6, <1>8 DEF Destination

\* For any folders, tokens and hints: the files of a season that lie together and are
\* named alike up to the mark come to one folder, whatever follows the mark
\* (organize.rs 307-419, 649-679).
THEOREM SeasonsStay == LayoutSpec => SeasonKeptTogether
<1>1. Typed /\ [NextFile]_<<src, hints>> =>
        [src.category = "video" /\ "mark" \in Kinds(src.stem) => Destination' = Destination]_src
  <2> SUFFICES ASSUME Typed, NextFile, src.category = "video", "mark" \in Kinds(src.stem)
               PROVE  Destination' = Destination
    OBVIOUS
  <2>1. PICK t \in Tokens : Going(t)
    BY DEF NextFile, Going
  <2> QED BY <2>1, SeasonStep
<1> QED BY <1>1, TypedAlways, PTL DEF LayoutSpec, SeasonKeptTogether

\* And so do a film and what belongs to it, named alike up to the year (organize.rs
\* 357-373, 592-630).
THEOREM FilmsStay == LayoutSpec => FilmKeptTogether
<1> DEFINE Kept ==
        /\ src.category = "video" /\ MediaKind.kind = "movie" /\ Part({"season"}) = <<>> /\ "year" \in Kinds(src.stem)
        /\ Last(src.stem')[1] \notin {"mark", "spread", "season"}
        /\ hints.media # Absent \/ Head(src.stem)[1] # "group"
        => Destination' = Destination
<1>1. Typed /\ [NextFile]_<<src, hints>> => [Kept]_src
  <2> SUFFICES ASSUME Typed, NextFile,
                      src.category = "video", MediaKind.kind = "movie", Part({"season"}) = <<>>,
                      "year" \in Kinds(src.stem),
                      Last(src.stem')[1] \notin {"mark", "spread", "season"},
                      hints.media # Absent \/ Head(src.stem)[1] # "group"
               PROVE  Destination' = Destination
    OBVIOUS
  <2>1. PICK t \in Tokens : Going(t)
    BY DEF NextFile, Going
  <2>2. src.stem \in Seq(Token) /\ src.stem # <<>> /\ t \in Token /\ src'.stem = Append(src.stem, t)
    BY <2>1, Types, Goes
  <2>3. Last(src.stem') = t /\ Head(src.stem) = src.stem[1]
    <3>1. src.stem' = Append(src.stem, t)
      BY <2>2
    <3> QED BY <2>2, <3>1 DEF Last
  <2> QED BY <2>1, <2>3, FilmStep
<1> QED BY <1>1, TypedAlways, PTL DEF LayoutSpec, FilmKeptTogether

-----------------------------------------------------------------------------
(* Inside the library. *)

Roots == {CategoryFolder[c] : c \in DOMAIN CategoryFolder} \cup {TvFolder, MoviesFolder, AnimeFolder}
Below(name) == Kinds(name) \cap {"up", "drive"} = {}
Inside(path) == Head(path) \in Roots /\ \A i \in 2 .. Len(path) : Below(path[i])

LEMMA BelowNames ==
    ASSUME NEW V, NEW name \in Seq(AllKinds \X V)
    PROVE  Below(name)
BY DEF Below, Kinds, AllKinds

LEMMA InsidePaths ==
    ASSUME NEW root \in Roots
    PROVE  /\ Inside(<<root>>)
           /\ \A a : Below(a) => Inside(<<root, a>>)
           /\ \A a, b : Below(a) /\ Below(b) => Inside(<<root, a, b>>)
<1>1. Inside(<<root>>)
  BY DEF Inside
<1>2. ASSUME NEW a, Below(a) PROVE Inside(<<root, a>>)
  <2>1. Head(<<root, a>>) = root /\ Len(<<root, a>>) = 2 /\ <<root, a>>[2] = a
    OBVIOUS
  <2> QED BY <1>2, <2>1 DEF Inside
<1>3. ASSUME NEW a, NEW b, Below(a), Below(b) PROVE Inside(<<root, a, b>>)
  <2>1. /\ Head(<<root, a, b>>) = root /\ Len(<<root, a, b>>) = 3
        /\ <<root, a, b>>[2] = a /\ <<root, a, b>>[3] = b
    OBVIOUS
  <2>2. \A i \in 2 .. 3 : i = 2 \/ i = 3
    OBVIOUS
  <2> QED BY <1>3, <2>1, <2>2 DEF Inside
<1> QED BY <1>1, <1>2, <1>3

LEMMA TitledNames ==
    ASSUME NEW ts \in Seq(Token)
    PROVE  /\ CleanTitle(ts) \in Seq(Token)
           /\ Titled(ts) \in Seq(AllKinds \X (Values \cup {Unknown}))
<1>1. CleanTitle(ts) \in Seq(Token)
  BY WithoutKeeps DEF CleanTitle
<1>2. CleanTitle(ts) \in Seq(AllKinds \X (Values \cup {Unknown}))
  BY <1>1 DEF Token
<1>3. <<<<"word", Unknown>>>> \in Seq(AllKinds \X (Values \cup {Unknown}))
  BY DEF AllKinds
<1> QED BY <1>1, <1>2, <1>3 DEF Titled

LEMMA BeforeNames ==
    ASSUME NEW ts \in Seq(Token), NEW i \in 1 .. Len(ts) + 1
    PROVE  Before(ts, i) \in Seq(Token)
BY DEF Before

LEMMA Titles ==
    ASSUME Typed
    PROVE  /\ TitleFromPath \in Seq(AllKinds \X (Values \cup {Unknown}))
           /\ AnimeTitle \in Seq(AllKinds \X (Values \cup {Unknown}))
<1> DEFINE s == src.stem
           r == RestOf(s)
           cut == Min({DashNumber(r), Find(r, {"mark", "season", "year"})})
<1>1. s \in Seq(Token) /\ Len(s) \in Nat
  BY Types
<1>2. \A kinds : Before(s, Find(s, kinds)) \in Seq(Token)
  BY <1>1, FindIn, BeforeNames
<1>3. r \in Seq(Token) /\ Len(r) \in Nat
  <2>1. LeadOf(s) \in 1 .. Len(s) + 1
    BY <1>1, FindIn DEF LeadOf
  <2> HIDE DEF s
  <2> QED BY <1>1, <2>1 DEF RestOf
<1>4. cut \in 1 .. Len(r) + 1
  <2> HIDE DEF r
  <2>1. DashNumber(r) \in 1 .. Len(r) + 1 /\ Find(r, {"mark", "season", "year"}) \in 1 .. Len(r) + 1
    BY <1>3, NumberIn, FindIn
  <2>2. {DashNumber(r), Find(r, {"mark", "season", "year"})} \subseteq 1 .. Len(r) + 1 /\ Len(r) + 1 \in Nat
    BY <1>3, <2>1
  <2>3. cut \in {DashNumber(r), Find(r, {"mark", "season", "year"})}
    BY <2>2, MinOf
  <2> QED BY <2>2, <2>3
<1>5. AnimeTitle = Titled(Before(r, cut))
  BY DEF AnimeTitle, RestOf, LeadOf
<1> HIDE DEF s, r, cut
<1>6. Before(r, cut) \in Seq(Token)
  BY <1>3, <1>4, BeforeNames
<1>7. AnimeTitle \in Seq(AllKinds \X (Values \cup {Unknown}))
  BY <1>5, <1>6, TitledNames
<1>8. PICK ts \in Seq(Token) : TitleFromPath = Titled(ts)
  <2>1. CASE MediaKind.kind = "tv"
    BY <1>2, <2>1 DEF TitleFromPath, s
  <2>2. CASE MediaKind.kind = "movie"
    BY <1>2, <2>2 DEF TitleFromPath, s
  <2>3. CASE MediaKind.kind # "tv" /\ MediaKind.kind # "movie"
    BY <1>1, <2>3 DEF TitleFromPath, s
  <2> QED BY <2>1, <2>2, <2>3
<1> QED BY <1>7, <1>8, TitledNames

LEMMA VideoInside ==
    ASSUME Typed
    PROVE  Inside(VideoFolder)
<1> DEFINE V == Values \cup {Unknown, MediaKind.value}
           anime == hints.media = "anime" \/ (hints.media = Absent /\ LooksLikeAnime)
           movie == hints.media = "movie" \/ (hints.media = Absent /\ ~anime /\ MediaKind.kind = "movie")
           title == IF anime THEN AnimeTitle ELSE TitleFromPath
           named == IF MediaKind.kind = "movie" THEN Append(title, <<"year", MediaKind.value>>) ELSE title
           base == IF anime /\ AnimeFolder # Absent THEN AnimeFolder ELSE TvFolder
           season == <<<<"season", MediaKind.value>>>>
<1>1. title \in Seq(AllKinds \X V)
  <2>1. title \in Seq(AllKinds \X (Values \cup {Unknown}))
    BY Titles
  <2> HIDE DEF title
  <2> QED BY <2>1
<1>2. named \in Seq(AllKinds \X V)
  <2>1. <<"year", MediaKind.value>> \in AllKinds \X V
    BY DEF AllKinds
  <2> HIDE DEF title, V
  <2> QED BY <1>1, <2>1
<1>3. season \in Seq(AllKinds \X V)
  <2>1. <<"season", MediaKind.value>> \in AllKinds \X V
    BY DEF AllKinds
  <2> HIDE DEF V
  <2> QED BY <2>1
<1>4. VideoFolder = IF movie THEN <<MoviesFolder, named>>
                    ELSE IF MediaKind.kind = "tv" THEN <<base, title, season>>
                    ELSE <<base, named>>
  BY DEF VideoFolder
<1>5. base \in Roots /\ MoviesFolder \in Roots
  BY DEF Roots
<1> HIDE DEF V, movie, title, named, base, season
<1>6. Below(title) /\ Below(named) /\ Below(season)
  BY <1>1, <1>2, <1>3, BelowNames
<1>7. Inside(<<MoviesFolder, named>>) /\ Inside(<<base, title, season>>) /\ Inside(<<base, named>>)
  BY <1>5, <1>6, InsidePaths
<1> QED BY <1>4, <1>7

LEMMA SubPathInside ==
    ASSUME Typed, NEW root \in Roots, SubPath # Absent
    PROVE  Inside(<<root>> \o SubPath)
<1> DEFINE m == Music
<1>1. m # <<>> /\ Kinds(m) \cap {"up", "drive"} = {} /\ SubPath = [i \in DOMAIN m |-> <<m[i]>>]
  BY DEF SubPath
<1>2. m \in Seq({"word", "blank", "up", "drive"} \X Values)
  <2>1. CASE hints.music = Absent
    BY <2>1 DEF Music
  <2>2. CASE hints.music # Absent
    <3>1. hints.music \in Seq({"word", "blank", "up", "drive"} \X Values)
      BY <2>2, LayoutAssumption DEF Typed
    <3> QED BY <2>2, <3>1, WithoutKeeps DEF Music
  <2> QED BY <2>1, <2>2
<1> HIDE DEF m
<1> DEFINE path == <<root>> \o SubPath
<1>3. /\ Len(path) = Len(m) + 1 /\ Head(path) = root
      /\ \A i \in 2 .. Len(path) : path[i] = <<m[i - 1]>> /\ i - 1 \in DOMAIN m
  <2>1. SubPath \in Seq({<<m[i]>> : i \in DOMAIN m}) /\ Len(SubPath) = Len(m)
    BY <1>1, <1>2
  <2>2. Len(path) = Len(m) + 1 /\ Head(path) = root /\ Len(m) \in Nat /\ DOMAIN m = 1 .. Len(m)
    BY <1>2, <2>1
  <2>3. \A i \in 2 .. Len(path) : path[i] = SubPath[i - 1]
    BY <1>2, <2>1
  <2>4. \A i \in 2 .. Len(path) : i - 1 \in DOMAIN m
    BY <2>2
  <2> QED BY <1>1, <2>2, <2>3, <2>4
<1>4. \A i \in DOMAIN m : Below(<<m[i]>>)
  <2> TAKE i \in DOMAIN m
  <2>1. m[i][1] \in Kinds(m)
    BY DEF Kinds
  <2>2. Kinds(<<m[i]>>) = {m[i][1]}
    BY DEF Kinds
  <2> QED BY <1>1, <2>1, <2>2 DEF Below
<1> HIDE DEF path
<1>5. Inside(path)
  BY <1>3, <1>4 DEF Inside
<1> QED BY <1>5 DEF path

LEMMA TrackInside ==
    ASSUME Typed, NEW root \in Roots, IsTrack,
           NEW first, first = Min(Separators(src.stem)),
           NEW second, second = Min(Separators(src.stem) \ {first})
    PROVE  Inside(<<root, CleanTitle(Before(src.stem, first)),
                    CleanTitle(SubSeq(src.stem, first + 1, second - 1))>>)
<1> DEFINE s == src.stem
           seps == Separators(s)
<1>1. s \in Seq(Token) /\ Len(s) \in Nat
  BY Types
<1>2. seps \subseteq 1 .. Len(s) /\ Cardinality(seps) >= 2
  <2>1. seps \subseteq DOMAIN s
    BY DEF Separators
  <2> QED BY <1>1, <2>1 DEF IsTrack
<1> HIDE DEF s, seps
<1>3. seps # {}
  BY <1>2, FS_EmptySet
<1>4. first \in seps
  BY <1>1, <1>2, <1>3, MinOf DEF s, seps
<1>5. seps \ {first} # {}
  <2> SUFFICES ASSUME seps \ {first} = {} PROVE FALSE
    OBVIOUS
  <2>1. seps = {first}
    BY <1>4
  <2>2. Cardinality({first}) = 1
    BY FS_Singleton
  <2> QED BY <1>2, <2>1, <2>2
<1>6. second \in seps
  <2>1. seps \ {first} \subseteq 1 .. Len(s)
    BY <1>2
  <2>2. Min(seps \ {first}) \in seps \ {first}
    BY <1>1, <1>5, <2>1, MinOf
  <2> QED BY <2>2 DEF s, seps
<1>7. first \in 1 .. Len(s) /\ second \in 1 .. Len(s)
  BY <1>2, <1>4, <1>6
<1>8. Before(s, first) \in Seq(Token) /\ SubSeq(s, first + 1, second - 1) \in Seq(Token)
  <2>1. Before(s, first) \in Seq(Token)
    BY <1>1, <1>7, BeforeNames
  <2>2. SubSeq(s, first + 1, second - 1) \in Seq(Token)
    <3>1. \A i \in first + 1 .. second - 1 : s[i] \in Token
      BY <1>1, <1>7
    <3>2. first + 1 \in Int /\ second - 1 \in Int
      BY <1>7
    <3> QED BY <3>1, <3>2, SubSeqProperties
  <2> QED BY <2>1, <2>2
<1>9. /\ CleanTitle(Before(s, first)) \in Seq(Token)
      /\ CleanTitle(SubSeq(s, first + 1, second - 1)) \in Seq(Token)
  BY <1>8, TitledNames
<1>10. Below(CleanTitle(Before(s, first))) /\ Below(CleanTitle(SubSeq(s, first + 1, second - 1)))
  BY <1>9, BelowNames DEF Token
<1> QED BY <1>10, InsidePaths DEF s

LEMMA AudioInside ==
    ASSUME Typed, src.category = "audio"
    PROVE  Inside(AudioFolder)
<1> DEFINE music == CategoryFolder["audio"]
           first == Min(Separators(src.stem))
           second == Min(Separators(src.stem) \ {first})
           track == <<music, CleanTitle(Before(src.stem, first)),
                      CleanTitle(SubSeq(src.stem, first + 1, second - 1))>>
<1>1. music \in Roots
  BY DEF Typed, Roots
<1> HIDE DEF music
<1>2. CASE SubPath # Absent
  <2>1. AudioFolder = <<music>> \o SubPath
    BY <1>2 DEF AudioFolder, music
  <2> QED BY <1>1, <1>2, <2>1, SubPathInside
<1>3. CASE SubPath = Absent /\ MediaKind.kind = "music"
  <2>1. IsTrack
    BY <1>3 DEF MediaKind
  <2>2. Inside(track)
    BY <1>1, <2>1, TrackInside
  <2>3. AudioFolder = track
    BY <1>3 DEF AudioFolder, music
  <2> QED BY <2>2, <2>3
<1>4. CASE SubPath = Absent /\ MediaKind.kind = "other" /\ src.dirs # <<>>
  <2>1. AudioFolder = <<music, CleanTitle(Last(src.dirs))>>
    BY <1>4 DEF AudioFolder, music
  <2>2. Last(src.dirs) \in Seq(Token)
    BY <1>4, Types DEF Last
  <2>3. Below(CleanTitle(Last(src.dirs)))
    <3>1. CleanTitle(Last(src.dirs)) \in Seq(AllKinds \X Values)
      BY <2>2, TitledNames DEF Token
    <3> QED BY <3>1, BelowNames
  <2> QED BY <1>1, <2>1, <2>3, InsidePaths
<1>5. CASE SubPath = Absent /\ MediaKind.kind # "music" /\ ~(MediaKind.kind = "other" /\ src.dirs # <<>>)
  <2>1. AudioFolder = <<music>>
    BY <1>5 DEF AudioFolder, music
  <2> QED BY <1>1, <2>1, InsidePaths
<1> QED BY <1>2, <1>3, <1>4, <1>5

\* No path and no hint leads out of the library: the place of every file is one of
\* its folders and what lies below, without ".." or a drive (organize.rs 133-228,
\* 684-701).
THEOREM LibraryOnly == LayoutSpec => []StaysInLibrary
<1>1. Typed => StaysInLibrary
  <2> SUFFICES ASSUME Typed PROVE Inside(Destination)
    BY DEF StaysInLibrary, Inside, Below, Roots
  <2>1. CASE src.category = "video"
    BY <2>1, VideoInside DEF Destination
  <2>2. CASE src.category = "audio"
    BY <2>2, AudioInside DEF Destination
  <2>3. CASE src.category # "video" /\ src.category # "audio"
    <3>1. CategoryFolder[src.category] \in Roots
      BY DEF Typed, Roots
    <3>2. Destination = <<CategoryFolder[src.category]>>
      BY <2>3 DEF Destination
    <3> QED BY <3>1, <3>2, InsidePaths
  <2> QED BY <2>1, <2>2, <2>3
<1> QED BY <1>1, TypedAlways, PTL
=============================================================================

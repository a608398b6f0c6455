------------------------------ MODULE LogRotation ------------------------------
(***************************************************************************)
(* The log of the service (src/main.rs, LineRotatingWriter) and its reader *)
(* (crates/debug-mcp).  File 0 is agpeer.log, file i is agpeer.log.i.  A   *)
(* full file is moved up one slot, the oldest one is deleted.  The service *)
(* may die between any two of the file operations and any of them may      *)
(* fail; it counts the lines of agpeer.log when it starts again.           *)
(*                                                                         *)
(* Lines are numbered as they reach a file and a file is the set of the    *)
(* lines in it.  One service writes to a directory at a time.              *)
(***************************************************************************)
EXTENDS Integers, FiniteSets

CONSTANTS
    LOG_LINES_PER_FILE, LOG_FILE_RETENTION,
    Sizes,          \* how many lines a record may have
    MaxLines, MaxStops, MaxFaults, MaxSearches      \* bounds

ASSUME LogAssumption ==
    /\ LOG_LINES_PER_FILE \in Nat \ {0} /\ LOG_FILE_RETENTION \in Nat \ {0, 1}
    /\ Sizes \subseteq Nat \ {0} /\ Sizes # {}
    /\ MaxLines \in Nat /\ MaxStops \in Nat /\ MaxFaults \in Nat /\ MaxSearches \in Nat

VARIABLES
    there,      \* the files that exist
    content,    \* index -> the lines in the file, none if it does not exist
    pc,         \* where the writer is
    index,      \* rotate's loop variable
    lines,      \* the writer's count
    written,    \* observes: lines written so far
    uncounted,  \* observes: those of records that could not be written in full
    broken,     \* observes: rotations that were begun and not ended
    search,     \* log_search and its locals
    budget

vars == <<there, content, pc, index, lines, written, uncounted, broken, search, budget>>

Indices == 0 .. LOG_FILE_RETENTION - 1

Retained == UNION {content[i] : i \in Indices}

Idle == [pc |-> "idle", listed |-> {}, left |-> {}, known |-> {}, seen |-> {}]

Init ==
    /\ there = {} /\ content = [i \in Indices |-> {}]
    /\ pc = "off" /\ index = 0 /\ lines = 0
    /\ written = 0 /\ uncounted = 0 /\ broken = 0
    /\ search = Idle
    /\ budget = [stops |-> MaxStops, faults |-> MaxFaults, searches |-> MaxSearches]

Spend(kind) ==
    /\ budget[kind] > 0
    /\ budget' = [budget EXCEPT ![kind] = @ - 1]

-----------------------------------------------------------------------------
(* The writer.  After an error it has no file any more: without one from the  *)
(* start the service logs to the console only, and later the next record ends *)
(* the thread that writes them.                                               *)

FallSilent == pc' = "silent" /\ Spend("faults")

CountLines(i) == Cardinality(content[i])

\* Mutant: the lines of an earlier run are not counted.
OpenUncounted ==
    /\ pc = "off"
    /\ there' = there \cup {0} /\ lines' = 0
    /\ pc' = "ready"
    /\ UNCHANGED <<content, index, written, uncounted, broken, search, budget>>

\* LineRotatingWriter::new.
Open ==
    /\ pc = "off"
    /\ \/ /\ there' = there \cup {0} /\ lines' = CountLines(0)
          /\ pc' = IF lines' >= LOG_LINES_PER_FILE THEN "rotate" ELSE "ready"
          /\ UNCHANGED budget
       \/ FallSilent /\ UNCHANGED <<there, lines>>
    /\ UNCHANGED <<content, index, written, uncounted, broken, search>>

Append(k) ==
    /\ content' = [content EXCEPT ![0] = @ \cup (written + 1 .. written + k)]
    /\ written' = written + k

\* write: one record, which may have several lines.  If not all of it can be written
\* none of it is counted, and the next record finds the file open as before.
WriteRecord(n) ==
    /\ pc = "ready" /\ written + n <= MaxLines
    /\ \/ /\ Append(n) /\ lines' = lines + n
          /\ pc' = IF lines + n >= LOG_LINES_PER_FILE THEN "rotate" ELSE "ready"
          /\ UNCHANGED <<uncounted, budget>>
       \/ /\ \E k \in 0 .. n - 1 : Append(k) /\ uncounted' = uncounted + k
          /\ Spend("faults") /\ UNCHANGED <<lines, pc>>
    /\ UNCHANGED <<there, index, broken, search>>

\* rotate: the oldest file is deleted; an error is ignored, since the rename
\* that follows replaces the file.
RemoveOldest ==
    /\ pc = "rotate"
    /\ \/ /\ there' = there \ {LOG_FILE_RETENTION - 1}
          /\ content' = [content EXCEPT ![LOG_FILE_RETENTION - 1] = {}]
          /\ UNCHANGED budget
       \/ UNCHANGED <<there, content>> /\ Spend("faults")
    /\ pc' = "shift" /\ index' = LOG_FILE_RETENTION - 2
    /\ UNCHANGED <<lines, written, uncounted, broken, search>>

\* rename, if the file exists.
Rename(i) ==
    /\ there' = IF i \in there THEN (there \ {i}) \cup {i + 1} ELSE there
    /\ content' = IF i \in there THEN [content EXCEPT ![i + 1] = content[i], ![i] = {}] ELSE content

\* Mutant: a slot is filled before it is free.
ShiftUpwards ==
    /\ pc = "shift"
    /\ Rename(LOG_FILE_RETENTION - 2 - index)
    /\ IF index = 0 THEN pc' = "reopen" /\ index' = 0 ELSE index' = index - 1 /\ pc' = pc
    /\ UNCHANGED <<lines, written, uncounted, broken, search, budget>>

\* One rename of the loop, from the oldest file down to agpeer.log itself.
Shift ==
    /\ pc = "shift"
    /\ \/ /\ Rename(index)
          /\ IF index = 0 THEN pc' = "reopen" /\ index' = 0 ELSE index' = index - 1 /\ pc' = pc
          /\ UNCHANGED <<broken, budget>>
       \/ /\ index \in there /\ FallSilent
          /\ broken' = broken + 1 /\ UNCHANGED <<there, content, index>>
    /\ UNCHANGED <<lines, written, uncounted, search>>

Reopen ==
    /\ pc = "reopen"
    /\ \/ there' = there \cup {0} /\ lines' = 0 /\ pc' = "ready" /\ UNCHANGED budget
       \/ FallSilent /\ UNCHANGED <<there, lines>>
    /\ UNCHANGED <<content, index, written, uncounted, broken, search>>

\* The service ends, at any time; what it has written stays.
Stop ==
    /\ pc # "off" /\ Spend("stops")
    /\ pc' = "off"
    /\ broken' = IF pc = "shift" THEN broken + 1 ELSE broken
    /\ UNCHANGED <<there, content, index, lines, written, uncounted, search>>

-----------------------------------------------------------------------------
(* debug-mcp's log_search, beside the writer. *)

\* log_files: what there is, to be read from the last written on.
List ==
    /\ search.pc = "idle" /\ Spend("searches")
    /\ search' = [pc |-> "read", listed |-> there, left |-> there, known |-> Retained, seen |-> {}]
    /\ UNCHANGED <<there, content, pc, index, lines, written, uncounted, broken>>

\* Mutant: oldest first.
NextLast(i) == \A j \in search.left : j <= i

\* Renaming keeps the time of the last write, so the newest file is the first.
NextNewest(i) == \A j \in search.left : i <= j

\* read_lines, by the name that was listed; a file that is not there is passed over.
Read(i) ==
    /\ search.pc = "read" /\ i \in search.left /\ NextNewest(i)
    /\ search' = [search EXCEPT !.left = @ \ {i}, !.seen = @ \cup content[i]]
    /\ UNCHANGED <<there, content, pc, index, lines, written, uncounted, broken, budget>>

EndSearch ==
    /\ search.pc = "read" /\ search.left = {}
    /\ search' = Idle
    /\ UNCHANGED <<there, content, pc, index, lines, written, uncounted, broken, budget>>

Next ==
    \/ Open \/ (\E n \in Sizes : WriteRecord(n))
    \/ RemoveOldest \/ Shift \/ Reopen \/ Stop
    \/ List \/ (\E i \in Indices : Read(i)) \/ EndSearch

Spec == Init /\ [][Next]_vars

-----------------------------------------------------------------------------
(* Properties. *)

\* Type invariant: among the rest, a writer that is ready has agpeer.log and knows
\* how many lines are in it but for records written in part, a rotation that is through has moved agpeer.log away, and
\* nothing is in the files that was not written.
TypeOK ==
    /\ there \subseteq Indices
    /\ content \in [Indices -> SUBSET (1 .. written)]
    /\ \A i \in Indices \ there : content[i] = {}
    /\ pc \in {"off", "ready", "rotate", "shift", "reopen", "silent"}
    /\ index \in 0 .. LOG_FILE_RETENTION - 2
    /\ lines \in Nat /\ written \in Nat /\ uncounted \in Nat /\ broken \in Nat
    /\ pc \in {"ready", "rotate"} => 0 \in there
    /\ pc = "ready" => lines <= CountLines(0) /\ CountLines(0) <= lines + uncounted
    /\ pc = "reopen" => 0 \notin there
    /\ search.pc \in {"idle", "read"} /\ search.listed \subseteq Indices /\ search.left \subseteq search.listed
    /\ search.known \subseteq 1 .. written /\ search.seen \subseteq 1 .. written
    /\ budget \in [{"stops", "faults", "searches"} -> Int]

\* Whatever fails, wherever the service dies and however often it starts again: only
\* the oldest lines are ever given up.  What is on disk are the last lines written,
\* without a gap, each once, and older lines in files of higher number (main.rs
\* 79-106: the renames go from the oldest file down).
OnlyOldestGivenUp ==
    /\ \A m \in Retained : m .. written \subseteq Retained
    /\ \A i, j \in Indices : i < j => \A m \in content[i], n \in content[j] : n < m

\* The files grow to no more lines than allowed, the record that fills them and what
\* was written of records that failed, and
\* as many full files stay as allowed, one less for the file in use and one less for
\* each rotation that was interrupted (main.rs 53-55, 2,000 lines and 20 files).
AtMost(a, b) == IF a < b THEN a ELSE b

Retention ==
    /\ \A i \in Indices : \E n \in Sizes : CountLines(i) < LOG_LINES_PER_FILE + n + uncounted
    /\ Cardinality(Retained) >= AtMost(written, (LOG_FILE_RETENTION - 1 - broken) * LOG_LINES_PER_FILE)

\* A search that runs beside the writer finds every line that was there when it
\* began and still is there when it ends: the files are read from the newest on, and
\* lines only move the other way (debug-mcp lib.rs 97-126, 296-355).  It misses what
\* was moved beyond the last file listed, and may miss more if a rotation was going
\* on when the files were listed, or one was broken off, which shows in a number
\* missing among them.
WithoutGap(S) == \A i, j \in S : i .. j \subseteq S

SearchFindsRetained ==
    search.pc = "read" /\ search.left = {} /\ WithoutGap(search.listed) =>
        \A m \in search.known \cap Retained :
            m \in search.seen \/ \E i \in Indices \ search.listed : m \in content[i]
=============================================================================

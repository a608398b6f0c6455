---------------------------- MODULE TorrentEngines ----------------------------
(***************************************************************************)
(* The two torrent engines as the rest of the program sees them: for one   *)
(* registered transfer, the state TorrentEngine::get and ::list report,    *)
(* and the set of states each call may leave it in.  An empty set is a     *)
(* call that returns Err and changes nothing; "none" is a removed record.  *)
(*                                                                         *)
(* Engine = "memory" is the simulated engine of memory.rs, whose entries   *)
(* live under one lock.  Engine = "rqbit" is rqbit.rs over a librqbit      *)
(* session; its entry and the session's torrent are taken here as one      *)
(* record, which is what list and get show as long as no two entries name  *)
(* the same torrent.                                                       *)
(***************************************************************************)
EXTENDS TransferTypes

CONSTANT Engine

ASSUME EngineAssumption == Engine \in {"memory", "rqbit"}

-----------------------------------------------------------------------------
(* memory.rs *)

\* add: downloading, or queued for good when no selected file has a size.
MemoryAdded == {"downloading", "queued"}

\* advance: the clock can only finish a running download.
MemoryProgress(s) == IF s = "downloading" THEN {"completed"} ELSE {}

MemoryPaused(s) == IF s = "downloading" THEN {"paused"} ELSE {}

MemoryResumed(s) == IF s = "paused" THEN {"downloading"} ELSE {}

\* cancel keeps the entry, in state cancelled, and is idempotent.
MemoryCancelled(s) ==
    IF s \in {"none", "ready", "orphaned"} THEN {} ELSE {"cancelled"}

-----------------------------------------------------------------------------
(* rqbit.rs.  Stats of librqbit: Initializing is reported as resolving,    *)
(* Live as downloading or, once finished, completed, Error as failed.      *)

RqbitAdded == {"resolving"}

\* What the librqbit session may do to a torrent by itself.
RqbitProgress(s) ==
    CASE s = "resolving"   -> {"downloading", "completed", "failed"}
      [] s = "downloading" -> {"completed", "failed"}
      [] s = "completed"   -> {"failed"}
      [] OTHER             -> {}

\* A live torrent can be paused, finished or not.
RqbitPaused(s) == IF s \in {"downloading", "completed"} THEN {"paused"} ELSE {}

\* A paused torrent goes live again, already finished if all its data was
\* there; one in error is initialized anew.
RqbitResumed(s, finished) ==
    CASE s = "paused" -> {"downloading"} \cup (IF finished THEN {"completed"} ELSE {})
      [] s = "failed" -> {"resolving"}
      [] OTHER        -> {}

\* cancel deletes the torrent from the session and drops the entry.
RqbitCancelled(s) == IF s = "none" THEN {} ELSE {"none"}

-----------------------------------------------------------------------------
(* The engine chosen in the configuration (TorrentBackend). *)

Added == IF Engine = "memory" THEN MemoryAdded ELSE RqbitAdded

Progressed(s) == IF Engine = "memory" THEN MemoryProgress(s) ELSE RqbitProgress(s)

Paused(s) == IF Engine = "memory" THEN MemoryPaused(s) ELSE RqbitPaused(s)

Resumed(s, finished) ==
    IF Engine = "memory" THEN MemoryResumed(s) ELSE RqbitResumed(s, finished)

Cancelled(s) == IF Engine = "memory" THEN MemoryCancelled(s) ELSE RqbitCancelled(s)

\* The states an engine can report, and "none" for an unknown id.
EngineState ==
    {"none", "queued", "resolving", "downloading", "paused", "completed",
     "failed", "cancelled"}
=============================================================================

---------------------------- MODULE TransferTypes ----------------------------
(***************************************************************************)
(* The normalized transfer model shared by every component                 *)
(* (crates/common/src/transfer.rs): the eleven states a transfer record    *)
(* can be in, and which of them the code calls terminal.                   *)
(***************************************************************************)

\* enum TransferState.
TransferState ==
    {"queued", "resolving", "downloading", "paused", "verifying", "completed",
     "postprocessing", "ready", "failed", "cancelled", "orphaned"}

\* TransferState::is_terminal.  Note that "completed" is not terminal.
Terminal == {"ready", "failed", "cancelled", "orphaned"}

\* A place that may hold a record holds its state, or "none".
MaybeState == TransferState \cup {"none"}
=============================================================================

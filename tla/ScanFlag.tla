------------------------------ MODULE ScanFlag ------------------------------
(***************************************************************************)
(* How the Library tells that a scan has failed: LibrarySync, with the     *)
(* verdict of the scans remembered beside it.                              *)
(***************************************************************************)
EXTENDS MCLibrarySync

VARIABLE failing   \* history: the last verdict of a scan was a failure

(* A failure is a verdict, success is a verdict, a cancelled scan is none. *)
Verdict == IF shown' = "failed" THEN TRUE
           ELSE IF shown' = "completed" THEN FALSE ELSE failing

FlagSpec ==
  /\ Init /\ failing = FALSE
  /\ [][Next /\ failing' = Verdict]_<<vars, failing>>

(* docs/requirements.md says that a failed scan stays flagged until a scan *)
(* succeeds.  The page draws the flag from the state of the snapshot; a    *)
(* scan that runs may hide it while it runs.                               *)
FailedScanStaysFlagged == failing => shown \in {"failed", "running"}
=============================================================================

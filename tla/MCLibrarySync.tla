--------------------------- MODULE MCLibrarySync ---------------------------
(* LibrarySync for TLC: a folder of two directories, where a scan of some  *)
(* and a scan of all differ, and a folder of one, so that scans of both,   *)
(* of either and of none can happen.                                       *)
EXTENDS LibrarySync

TwoRoots == {"music", "drive"}
TheirDirs == [music |-> {"a", "b"}, drive |-> {"a"}]
=============================================================================

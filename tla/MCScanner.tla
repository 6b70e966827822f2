----------------------------- MODULE MCScanner -----------------------------
(* Two folders, the first with two files in one directory; the contents    *)
(* differ, in the artist also, and name the same recording.  One file is   *)
(* known, one is new, and one is missing: it may have moved to where the   *)
(* new one is.                                                             *)
EXTENDS Scanner

CONSTANTS p1, p2, p3, original, retagged

MCPaths == {p1, p2, p3}
MCDirOf == p1 :> "d1" @@ p2 :> "d1" @@ p3 :> "d2"
MCRootOf == "d1" :> "r1" @@ "d2" :> "r2"
MCContents == {original, retagged}
MCArtist == original :> "a" @@ retagged :> "b"
MCRecording == original :> "x" @@ retagged :> "x"
MCWithArtwork == {original}
MCWithInvalid == {retagged}
MCFirstFiles == p1 :> original @@ p2 :> retagged @@ p3 :> None
Known(track, file, missing) ==
  [key |-> file, seen |-> TRUE, missing |-> missing, art |-> "notPresent",
   pending |-> FALSE, track |-> track, tags |-> file, hash |-> file,
   under |-> Artist[file], misread |-> FALSE]
MCFirstRows == p1 :> [Known(1, original, FALSE) EXCEPT !.art = "stored"]
                 @@ p2 :> None
                 @@ p3 :> [Known(2, retagged, TRUE) EXCEPT !.art = "invalid"]
=============================================================================

---------------------------- MODULE MCApplication ----------------------------
(* No settings file, a good one, one with an unusable value, one that is   *)
(* no settings file, and one that is no text.                              *)
EXTENDS Application

MCFiles == {None, Defaults, [playback |-> Unusable, appearance |-> 0], Garbled, NotText}
=============================================================================

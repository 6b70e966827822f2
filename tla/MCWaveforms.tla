---------------------------- MODULE MCWaveforms ----------------------------
(* A file that states more than it holds, and is replaced by one that      *)
(* cannot be decoded; another that states less, which the library has not  *)
(* hashed.  Memory is full with one.                                       *)
EXTENDS Waveforms, TLC

CONSTANTS hashed, unhashed

MCPaths == {hashed, unhashed}
MCContents == hashed :> <<"a", "b">> @@ unhashed :> <<"c">>
MCCounted == "a" :> 5 @@ "b" :> 3 @@ "c" :> 7
MCStated == "a" :> 12 @@ "b" :> 8 @@ "c" :> 4
MCStored == hashed :> "a" @@ unhashed :> Absent
=============================================================================

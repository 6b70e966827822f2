-------------------------- MODULE MCStateMessages --------------------------
(* StateMessages for TLC: two topics stand for the five, since every topic *)
(* takes the same way and only their relative order differs.               *)
EXTENDS StateMessages

TwoTopics == <<"playback", "queue">>
OneTopic == <<"playback">>
=============================================================================

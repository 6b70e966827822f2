------------------------------- MODULE MCMeter -------------------------------
(* A stream of two channels, then one of mono; chunks do not end with the  *)
(* frames of the first.                                                    *)
EXTENDS Meter

MCChannels == <<2, 1>>
=============================================================================

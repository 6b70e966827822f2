----------------------------- MODULE PcmStream -----------------------------
(***************************************************************************)
(* What a PCM queue promises its two ends, with the ring, the waiting and  *)
(* the wake channel left out: frames are heard in the number they were     *)
(* written, never more than Capacity of them are outstanding, and the end  *)
(* is heard only once the writer has closed and everything it wrote has    *)
(* been heard.  A stream that is cancelled or fails is closed without an   *)
(* end.  PcmQueue.tla is shown to implement this.                          *)
(***************************************************************************)
EXTENDS Naturals

CONSTANT Capacity    \* frames the queue can hold

VARIABLES produced,  \* frames written so far
          heard,     \* frames the callback has taken so far
          closed,    \* the writer declared the end of the stream
          ended      \* the callback was told that the stream is over

streamVars == <<produced, heard, closed, ended>>

StreamInit ==
  /\ produced = 0
  /\ heard = 0
  /\ closed = FALSE
  /\ ended = FALSE

Write(n) ==
  /\ ~closed
  /\ produced + n <= heard + Capacity
  /\ produced' = produced + n
  /\ UNCHANGED <<heard, closed, ended>>

Hear(n) ==
  /\ heard + n <= produced
  /\ heard' = heard + n
  /\ UNCHANGED <<produced, closed, ended>>

Close ==
  /\ closed' = TRUE
  /\ UNCHANGED <<produced, heard, ended>>

End ==
  /\ closed
  /\ heard = produced
  /\ ended' = TRUE
  /\ UNCHANGED <<produced, heard, closed>>

StreamNext ==
  \/ \E n \in 1..Capacity : Write(n) \/ Hear(n)
  \/ Close
  \/ End

StreamSpec == StreamInit /\ [][StreamNext]_streamVars
=============================================================================

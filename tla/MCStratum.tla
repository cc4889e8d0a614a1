----------------------------- MODULE MCStratum -----------------------------
(* A client and the lines it reads, on small instances.  What a line is cut   *)
(* from and what a client does about its sockets share no state: a behaviour  *)
(* here is one of the two, with the other at its start.                       *)
EXTENDS Stratum, Framing

MCInit == Init /\ FramingInit

MCNext ==
  \/ FramingInit /\ Next /\ UNCHANGED framingVars
  \/ Init /\ FramingNext /\ UNCHANGED vars

MCSpec == MCInit /\ [][MCNext]_<<vars, framingVars>> /\ Fairness
=============================================================================

------------------------------- MODULE MCPage -------------------------------
(* What a page does besides its session, on small instances: the workers that *)
(* hash, and the board it shows.  The two share no state: a behaviour here is *)
(* one of them, with the other at its start.                                  *)
EXTENDS MCMining, MCBoard

MCInit == Init /\ BoardInit

MCNext ==
  \/ BoardInit /\ Next /\ UNCHANGED boardVars
  \/ Init /\ MCBoardNext /\ UNCHANGED vars

MCSpec == MCInit /\ [][MCNext]_<<vars, boardVars>> /\ Fairness
=============================================================================

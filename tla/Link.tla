-------------------------------- MODULE Link --------------------------------
(***************************************************************************)
(* What the hub may assume of one StratumClient, seen from outside: whether *)
(* it is dialling, connected, or waiting to dial again, and whether the hub *)
(* still holds it.  Stratum implements this machine, and every pool socket  *)
(* of Placement is one.                                                     *)
(***************************************************************************)
VARIABLES
  link,  \* "none", "dialing", "up", "down": waiting for the reconnect timer
  held   \* close() has not been called on it

Init == <<link, held>> \in {<<"none", FALSE>>, <<"dialing", TRUE>>}

Open == ~held /\ link = "none" /\ link' = "dialing" /\ held' = TRUE

DialSucceeds == link = "dialing" /\ link' = "up" /\ UNCHANGED held

\* A client the hub has given up never redials.
AfterLoss == IF held THEN "down" ELSE "none"

Lost == link \in {"dialing", "up"} /\ link' = AfterLoss /\ UNCHANGED held

Redial == held /\ link = "down" /\ link' = "dialing" /\ UNCHANGED held

\* close() cannot call back a dial that is in flight.
GiveUp ==
  /\ held /\ held' = FALSE
  /\ link' = IF link = "dialing" THEN link ELSE "none"

Next == Open \/ DialSucceeds \/ Lost \/ Redial \/ GiveUp

Spec == Init /\ [][Next]_<<link, held>>
=============================================================================

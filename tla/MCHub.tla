------------------------------- MODULE MCHub -------------------------------
(* Small instances of Hub: two visitors behind one address. *)
EXTENDS Hub

CONSTANTS c1, c2, home

MCClients == {c1, c2}
MCAddrOf  == [c \in MCClients |-> home]

\* Nothing chooses among jobs, sockets or listings.  Visitors are not here: the
\* slots of several who leave at once come back in an order that is chosen.
HubSymmetry == Permutations(JobIds) \cup Permutations(Conns) \cup Permutations(Listings)

\* Two submits of a socket may cross each other, or one of them a reconnect.
FewReconnect == \A k \in Conns : session'[k] > 1 => nextId'[k] < 3
=============================================================================

---------------------------- MODULE MCPlacement ----------------------------
(* Small instances of Placement: two visitors behind one address, one alone. *)
EXTENDS Placement

CONSTANTS c1, c2, c3, home, away

MCClients   == {c1, c2, c3}
MCAddresses == {home, away}
MCAddrOf    == [c \in MCClients |-> IF c = c3 THEN away ELSE home]
Pair        == {c1, c2}
PairAddrOf  == [c \in Pair |-> home]
=============================================================================

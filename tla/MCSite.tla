------------------------------- MODULE MCSite -------------------------------
(* A small instance of Site: two visitors from one address. *)
EXTENDS Site

CONSTANT home

MCAddrOf == [c \in Clients |-> home]

\* Nothing chooses among listings.
SiteSymmetry == Permutations(Listings)
=============================================================================

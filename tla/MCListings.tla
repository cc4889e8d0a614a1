----------------------------- MODULE MCListings ------------------------------
EXTENDS Listings, TLC

CONSTANTS i1, i2, t1, t2

\* Bound: what is refused is refused for its name.
MCSaid == [name : Names, tagline : {"plain"}]

\* Ids are drawn at random, and one tab is like another.
IdSymmetry == Permutations({i1, i2}) \cup Permutations({t1, t2})
=============================================================================

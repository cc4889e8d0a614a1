------------------------------- MODULE MCBoard -------------------------------
EXTENDS Board

\* No search at all, and one that matches the listing created second.
MCSearches == {Ids, Ids \cap {2}}

\* The third listing is there for the lists alone, while nobody watches any: what a
\* failed deletion took matters to who watches.
FewAreWatched ==
  /\ created' > 2 => lastBoard' = Absent /\ shown' = <<>> /\ visitor' = <<Absent, Absent, Absent, {}>>
  /\ cleared' # {} => created' < 3 /\ visitor' = <<Absent, Absent, Absent, {}>>

\* Sockets are sent one listing with up to MaxScore shares, or two of the same
\* millisecond with a share each.
LittleIsSent ==
  lastBoard' # Absent \/ shown' # <<>> =>
    /\ \A l, k \in Ids : born'[l] = born'[k]
    /\ created' > 1 => \A l \in Ids : rows'[l] # Absent => rows'[l] + unflushed'[l] < 2

MCBoardNext == BoardNext /\ FewAreWatched /\ LittleIsSent

MCBoardSpec == BoardInit /\ [][MCBoardNext]_boardVars
=============================================================================

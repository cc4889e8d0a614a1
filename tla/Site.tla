-------------------------------- MODULE Site --------------------------------
(***************************************************************************)
(* The hub and the ledger in one process: a share is followed from the     *)
(* browser that found it to the row it is written to.                      *)
(*                                                                         *)
(* They share the counters `unflushed` and the listings: what Hub calls    *)
(* listings are the rows of Ledger's disk.  The server is one thread, so   *)
(* nothing of the hub runs between two statements of a flush; a process    *)
(* that ends takes with it every seat, job and share under way.            *)
(*                                                                         *)
(* What Ledger takes from its surroundings it gets here from the hub's own *)
(* handlers: who is credited, when, and what a takedown does.              *)
(***************************************************************************)
EXTENDS Hub

CONSTANTS
  Threshold, MaxFailures,  \* as in Ledger
  MaxHour, MaxShares       \* bounds of the model: hours, shares per listing

VARIABLES
  process, failures, disk, txn, healthy, hour  \* as in Ledger

Books == INSTANCE Ledger

ASSUME SiteAssumption == Books!LedgerAssumption

bookVars == <<process, failures, disk, txn, healthy, hour>>
siteVars == <<hubVars, bookVars>>

\* What the hub has besides the listings and their counters.
tableVars == <<clientVars, connVars, frozen, bad, work, submits, nextId, wire, jobVars>>

SiteInit == HubInit /\ Books!Init /\ listings = disk.rows

-----------------------------------------------------------------------------
WithinBounds ==
  \A l \in Listings :
    unflushed'[l] # unflushed[l] => disk.total[l].shares + unflushed[l].shares < MaxShares

\* A message of a visitor, a timer or an event of the pool.  No row changes.
Handle ==
  /\ Books!Serving
  /\ HubHandler
  /\ WithinBounds
  /\ UNCHANGED bookVars

CreateListing(l) ==
  /\ Books!CreateListing(l)
  /\ listings' = listings \cup {l}
  /\ UNCHANGED tableVars

\* The miners and the counter go first; the row goes if the database answers.
DeleteListing(l) ==
  /\ Books!Serving
  /\ OnTakedown(l)
  /\ listings' = IF healthy THEN listings \ {l} ELSE listings
  /\ IF healthy THEN Books!DeleteListing(l) ELSE UNCHANGED disk
  /\ UNCHANGED <<process, failures, txn, healthy, hour>>

\* The tables of a process that has just been started.
NoTables ==
  /\ clients' = {} /\ perAddress' = [a \in Addresses |-> 0]
  /\ listing' = [c \in Clients |-> None] /\ conn' = [c \in Clients |-> None]
  /\ slot' = [c \in Clients |-> 0] /\ bad' = [c \in Clients |-> 0]
  /\ cooling' = [c \in Clients |-> FALSE] /\ mined' = [c \in Clients |-> FALSE]
  /\ connections' = {} /\ miners' = [k \in Conns |-> {}]
  /\ capacity' = [k \in Conns |-> 0] /\ window' = [k \in Conns |-> 0]
  /\ free' = [k \in Conns |-> <<>>] /\ idle' = [k \in Conns |-> FALSE]
  /\ link' = [k \in Conns |-> "none"] /\ frozen' = FALSE
  /\ work' = [c \in Clients |-> None] /\ submits' = {} /\ wire' = {}
  /\ jobs' = [k \in Conns |-> <<>>] /\ current' = [k \in Conns |-> None]
  /\ ext' = [k \in Conns |-> 0] /\ session' = [k \in Conns |-> 0]
  /\ diff' = [k \in Conns |-> FirstDifficulty] /\ nextId' = [k \in Conns |-> 1]

Ends == process = "serving" /\ process' # "serving"

\* A flush, statement by statement; an end of the process and a new start; the
\* database and the clock.
KeepBooks ==
  /\ \/ \E caller \in Books!Callers : Books!BeginFlush(caller)
     \/ Books!Statement
     \/ Books!StopWithNothingDue
     \/ Books!Crash
     \/ Books!Restart
     \/ Books!DbChanges
     \/ Books!HourPasses
  /\ IF Ends THEN NoTables ELSE UNCHANGED tableVars
  /\ UNCHANGED listings

SiteNext ==
  \/ Handle
  \/ \E l \in Listings : CreateListing(l) \/ DeleteListing(l)
  \/ KeepBooks

SiteSpec == SiteInit /\ [][SiteNext]_siteVars

-----------------------------------------------------------------------------
\* What Ledger was told of the rest of the program is what the rest of it does:
\* only a listing with a row is credited, a share at a time and never during a
\* transaction, and a takedown leaves no counter for a flush to trip over.
ImplementsLedger == Books!Spec

\* From the pool's answer to the row: while the process lives, what the board shows
\* for a listing moves by one share at a time, by an answer to a share that was sent
\* for this listing, whatever is flushed, fails, is tried again, switched, left or
\* taken down meanwhile.  A failed deletion is the one thing that takes shares back.
BoardMovesByItsShares ==
  [][process = "serving" /\ process' = "serving" => \A l \in disk.rows \cap disk'.rows :
       \/ Books!Shown(l)' = Books!Shown(l)
       \/ Books!IsOneShareMore(l) /\ \E s \in wire \ wire' : s.listing = l
       \/ ~healthy /\ DeleteListing(l)]_siteVars
=============================================================================

------------------------------- MODULE Ledger -------------------------------
(***************************************************************************)
(* From a credited share to a row in SQLite: creditShare, flush and        *)
(* dropListing of packages/server/src/hub.ts, creditShares and             *)
(* deleteListing of listings.ts, the tables of schema.sql, and the exits   *)
(* of server.ts.                                                           *)
(*                                                                         *)
(* Shares are counted in memory and written every flushMs, in one          *)
(* transaction of three statements per listing.  Each statement is a step  *)
(* here: the database may break, or the process may be killed, between any *)
(* two, and nothing else of the server runs meanwhile.  The database is    *)
(* external: a statement succeeds while it is ok and throws while it is    *)
(* down, and what a transaction wrote is there all at once or not at all.  *)
(***************************************************************************)
EXTENDS Integers, FiniteSets

CONSTANTS
  Listings, Difficulties,
  Threshold,               \* config.board.visibilityThreshold
  MaxFailures,             \* FLUSH_FAILURES_BEFORE_EXIT
  None,
  MaxHour, MaxShares       \* bounds of the model: hours, shares per listing

ASSUME LedgerAssumption ==
  /\ IsFiniteSet(Listings) /\ None \notin Listings
  /\ Difficulties \subseteq Nat \ {0}
  /\ Threshold \in Nat \ {0} /\ MaxFailures \in Nat \ {0}
  /\ MaxHour \in Nat /\ MaxShares \in Nat

VARIABLES
  process,    \* serving, or how it ended
  unflushed,  \* the map `unflushed`; NoCredit for a listing it does not hold
  failures,   \* flushFailures
  disk,       \* what SQLite has committed
  txn,        \* the transaction of creditShares in progress, or None
  healthy,    \* the database answers
  hour

vars == <<process, unflushed, failures, disk, txn, healthy, hour>>

Hours == 0 .. MaxHour

Credits == [shares : Nat, diffSum : Nat]

NoCredit == [shares |-> 0, diffSum |-> 0]

Plus(a, b) == [shares |-> a.shares + b.shares, diffSum |-> a.diffSum + b.diffSum]

\* The tables listings and share_buckets; `score` is called diffSum throughout.
Tables == [rows : SUBSET Listings, total : [Listings -> Credits],
           visible : SUBSET Listings, buckets : [Listings -> [Hours -> Credits]]]

\* Why flush was called: the loop, a signal, or an uncaught exception.
Callers == {"loop", "signal", "fatal"}

\* `at` is the listing being written and `next` the statement it is due.
Transactions == [view : Tables, todo : SUBSET Listings, at : Listings \cup {None},
                 next : {"bucket", "total", "gate"}, caller : Callers]

TypeOK ==
  /\ process \in {"serving", "stopped", "killed"} /\ healthy \in BOOLEAN
  /\ unflushed \in [Listings -> Credits]
  /\ failures \in 0 .. MaxFailures - 1
  /\ disk \in Tables
  /\ txn = None \/ txn \in Transactions
  /\ hour \in Hours

Init ==
  /\ process = "serving" /\ healthy = TRUE /\ failures = 0 /\ hour = 0 /\ txn = None
  /\ unflushed = [l \in Listings |-> NoCredit]
  /\ disk = [rows |-> {}, total |-> [l \in Listings |-> NoCredit], visible |-> {},
             buckets |-> [l \in Listings |-> [h \in Hours |-> NoCredit]]]

\* A handler can run: the process is up and not inside flush.
Serving == process = "serving" /\ txn = None

-----------------------------------------------------------------------------
(* Listings come and go; shares are credited.                              *)

CreateListing(l) ==
  /\ Serving /\ healthy
  /\ l \notin disk.rows
  /\ disk' = [disk EXCEPT !.rows = @ \cup {l}]
  /\ UNCHANGED <<process, unflushed, failures, txn, healthy, hour>>

\* A miner's listing is a row: Placement's SeatsAgree.
CreditShare(l, d) ==
  /\ Serving
  /\ l \in disk.rows
  /\ disk.total[l].shares + unflushed[l].shares < MaxShares
  /\ unflushed' = [unflushed EXCEPT ![l] = Plus(@, [shares |-> 1, diffSum |-> d])]
  /\ UNCHANGED <<process, failures, disk, txn, healthy, hour>>

\* Broken on purpose: the counter outlives the row.
DropNothing(l) == UNCHANGED unflushed

DropListing(l) == unflushed' = [unflushed EXCEPT ![l] = NoCredit]

DeleteListing(l) ==
  disk' = [rows |-> disk.rows \ {l}, visible |-> disk.visible \ {l},
           total |-> [disk.total EXCEPT ![l] = NoCredit],
           buckets |-> [disk.buckets EXCEPT ![l] = [h \in Hours |-> NoCredit]]]

\* dropListing, then deleteListing, whose ON DELETE CASCADE takes the buckets.
\* When the delete throws the row stays, and its unwritten shares are gone.
Takedown(l) ==
  /\ Serving
  /\ l \in disk.rows
  /\ DropListing(l)
  /\ IF healthy THEN DeleteListing(l) ELSE UNCHANGED disk
  /\ UNCHANGED <<process, failures, txn, healthy, hour>>

-----------------------------------------------------------------------------
(* flush and creditShares.                                                 *)

Batch == {l \in Listings : unflushed[l] # NoCredit}

\* The process ends and its memory with it.  SQLite rolls back what is open.
Exit(how) ==
  /\ process' = how
  /\ txn' = None
  /\ failures' = 0
  /\ unflushed' = [l \in Listings |-> NoCredit]

BeginFlush(caller) ==
  /\ Serving
  /\ Batch # {}
  /\ txn' = [view |-> disk, todo |-> Batch, at |-> None, next |-> "bucket", caller |-> caller]
  /\ UNCHANGED <<process, unflushed, failures, disk, healthy, hour>>

\* Broken on purpose, for the mutation runs: a signal that does not flush.
StopAtOnce == Serving /\ Exit("stopped") /\ UNCHANGED <<disk, healthy, hour>>

\* With nothing to write, a signal or an exception ends the process at once.
StopWithNothingDue ==
  /\ Serving
  /\ Batch = {}
  /\ Exit("stopped")
  /\ UNCHANGED <<disk, healthy, hour>>

\* The upsert into share_buckets.  Its foreign key needs the listing's row.
WriteBucket(l) ==
  /\ txn # None /\ healthy
  /\ txn.at = None /\ l \in txn.todo /\ l \in txn.view.rows
  /\ txn' = [txn EXCEPT !.at = l, !.next = "total",
                        !.view.buckets[l][hour] = Plus(@, unflushed[l])]
  /\ UNCHANGED <<process, unflushed, failures, disk, healthy, hour>>

WriteTotal ==
  /\ txn # None /\ healthy
  /\ txn.at # None /\ txn.next = "total"
  /\ txn' = [txn EXCEPT !.next = "gate",
                        !.view.total[txn.at] = Plus(@, unflushed[txn.at])]
  /\ UNCHANGED <<process, unflushed, failures, disk, healthy, hour>>

Passed == {txn.at} \cap {l \in Listings : txn.view.total[l].shares >= Threshold}

WriteGate ==
  /\ txn # None /\ healthy
  /\ txn.at # None /\ txn.next = "gate"
  /\ txn' = [txn EXCEPT !.at = None, !.next = "bucket", !.todo = @ \ {txn.at},
                        !.view.visible = @ \cup Passed]
  /\ UNCHANGED <<process, unflushed, failures, disk, healthy, hour>>

\* Broken on purpose: the counters stay after they were written.
StillDue == UNCHANGED unflushed

Written == unflushed' = [l \in Listings |-> NoCredit]

\* The batch is all of `unflushed`, so all of it goes.  A caller other than the
\* loop exits next.
Commit ==
  /\ txn # None /\ healthy
  /\ txn.todo = {}
  /\ disk' = txn.view
  /\ \/ /\ txn.caller = "loop"
        /\ Written
        /\ failures' = 0
        /\ txn' = None
        /\ UNCHANGED process
     \/ /\ txn.caller # "loop"
        /\ Exit("stopped")
  /\ UNCHANGED <<healthy, hour>>

\* Broken on purpose: statements without a transaction.
Half == disk' = txn.view

RolledBack == UNCHANGED disk

Counted == failures' = failures + 1

LastRound == failures + 1 >= MaxFailures

\* A statement throws: rolled back, counted, and the counters kept for the next
\* round, unless this was the last failure or the last round.
FlushFails ==
  /\ txn # None
  /\ ~healthy \/ (txn.at = None /\ ~(txn.todo \subseteq txn.view.rows))
  /\ RolledBack
  /\ IF txn.caller # "loop" \/ LastRound
     THEN Exit("stopped")
     ELSE /\ txn' = None
          /\ Counted
          /\ UNCHANGED <<process, unflushed>>
  /\ UNCHANGED <<healthy, hour>>

-----------------------------------------------------------------------------
(* The world around.                                                       *)

\* Killed, or an exit that skips flush.
Crash == process = "serving" /\ Exit("killed") /\ UNCHANGED <<disk, healthy, hour>>

\* restart: unless-stopped
Restart ==
  /\ process # "serving" /\ process' = "serving"
  /\ UNCHANGED <<unflushed, failures, disk, txn, healthy, hour>>

DbChanges == healthy' = ~healthy /\ UNCHANGED <<process, unflushed, failures, disk, txn, hour>>

\* creditShares reads the clock once, before its transaction.
HourPasses ==
  /\ txn = None /\ hour < MaxHour
  /\ hour' = hour + 1
  /\ UNCHANGED <<process, unflushed, failures, disk, txn, healthy>>

Statement == WriteTotal \/ WriteGate \/ Commit \/ FlushFails \/ \E l \in Listings : WriteBucket(l)

Next ==
  \/ \E l \in Listings : CreateListing(l) \/ Takedown(l)
  \/ \E l \in Listings, d \in Difficulties : CreditShare(l, d)
  \/ \E caller \in Callers : BeginFlush(caller)
  \/ StopWithNothingDue
  \/ Statement
  \/ Crash \/ Restart \/ DbChanges \/ HourPasses

Spec == Init /\ [][Next]_vars

\* The flush loop is an interval, and a transaction runs to its end.
FairSpec == Spec /\ WF_vars(BeginFlush("loop")) /\ WF_vars(Statement)

-----------------------------------------------------------------------------
\* What a history of numbers, one an hour, adds up to.
SumOver(f) ==
  LET upTo[h \in Hours] == IF h = 0 THEN f[0] ELSE upTo[h - 1] + f[h]
  IN  upTo[MaxHour]

Whole(history) == [shares  |-> SumOver([h \in Hours |-> history[h].shares]),
                   diffSum |-> SumOver([h \in Hours |-> history[h].diffSum])]

\* The hourly history and the running total of a listing never part: not by a
\* statement that throws half way through a batch, not by a kill between two, not
\* by a flush that is tried again.
HistoryAgrees == \A l \in Listings : disk.total[l] = Whole(disk.buckets[l])

\* On the board exactly when its written shares have reached the threshold.
GateExact ==
  disk.visible = {l \in disk.rows : disk.total[l].shares >= Threshold}

\* What is on the disk is consistent whenever a process may die.
LedgerIsSound == TypeOK /\ HistoryAgrees /\ GateExact

\* What the board shows for a listing: the row plus what is not yet written.
Shown(l) == Plus(disk.total[l], unflushed[l])

IsOneShareMore(l) ==
  /\ Shown(l)'.shares = Shown(l).shares + 1
  /\ Shown(l)'.diffSum - Shown(l).diffSum \in Difficulties

\* While the process lives, what the board shows moves by one share at a time and
\* never back: a flush, failed or tried again, neither loses a share nor writes
\* one twice.  Only taking the listing down does.
ShownMovesByShares ==
  [][process' = "serving" /\ process = "serving" => \A l \in disk.rows \cap disk'.rows :
       Shown(l)' = Shown(l) \/ IsOneShareMore(l) \/ Takedown(l)]_vars

\* An exit the program chose, with a database that answers, takes every share
\* along; any exit keeps what was written.
StopKeepsShares ==
  [][process = "serving" /\ process' # "serving" => \A l \in disk.rows :
       /\ l \in disk'.rows
       /\ disk'.total[l].shares >= disk.total[l].shares
       /\ healthy /\ process' = "stopped" => Shown(l)' = Shown(l)]_vars

\* A database that answers never fails a flush.  One missing row would: it rolls
\* back the shares of every other listing, round after round.
HealthyFlushSucceeds ==
  [][healthy => failures' <= failures /\ ~FlushFails]_vars

\* A database that is gone for good ends the process, which a supervisor can see,
\* instead of leaving it to take shares it can no longer record.
DeadDatabaseEndsProcess ==
  <>[]~healthy => []<>(process # "serving" \/ Batch = {})

\* A flush is written, or the process that cannot write it ends.
FlushComesToAnEnd == HealthyFlushSucceeds /\ DeadDatabaseEndsProcess
=============================================================================

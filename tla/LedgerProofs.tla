---------------------------- MODULE LedgerProofs ----------------------------
(***************************************************************************)
(* Theorems about Ledger: the gate, what the board shows, what an exit     *)
(* keeps, when a flush can fail, and that a listing's hours add up to its  *)
(* total, for any listings, difficulties, threshold and number of hours    *)
(* and failures.                                                           *)
(***************************************************************************)
EXTENDS Ledger, FiniteSetTheorems, WellFoundedInduction, TLAPS

LEMMA Adding ==
  ASSUME NEW a \in Credits, NEW b \in Credits
  PROVE  /\ Plus(a, b) \in Credits
         /\ Plus(a, NoCredit) = a
         /\ Plus(a, b).shares = a.shares + b.shares
         /\ Plus(a, b).diffSum = a.diffSum + b.diffSum
         /\ Plus(a, b).shares >= a.shares
<1>1. Plus(a, NoCredit) = a
  BY DEF Plus, Credits, NoCredit
<1> QED BY <1>1 DEF Plus, Credits, NoCredit

LEMMA Nothing == NoCredit \in Credits
BY DEF NoCredit, Credits

-----------------------------------------------------------------------------
(* The invariant.                                                          *)

\* No counter and no score without a row; and nothing else runs in a flush, or
\* when the process is down.
RowsIInv ==
  /\ \A l \in Listings : l \notin disk.rows => unflushed[l] = NoCredit /\ disk.total[l] = NoCredit
  /\ process # "serving" => txn = None /\ unflushed = [l \in Listings |-> NoCredit]

\* The listing `l` has had its share of transaction t's second statement.
Totalled(t, l) == l \notin t.todo \/ (l = t.at /\ t.next = "gate")

\* What an open transaction t has made of the tables.
Progress(t) ==
  /\ t.view.rows = disk.rows
  /\ t.todo \subseteq Batch
  /\ IF t.at = None THEN t.next = "bucket" ELSE t.at \in t.todo /\ t.next # "bucket"
  /\ \A l \in Listings :
       t.view.total[l] = IF Totalled(t, l) THEN Plus(disk.total[l], unflushed[l]) ELSE disk.total[l]
  /\ \A l \in Listings :
       l \in t.view.visible => l \in t.view.rows /\ t.view.total[l].shares >= Threshold
  /\ \A l \in t.view.rows :
       t.view.total[l].shares >= Threshold => l \in t.view.visible \/ (l = t.at /\ t.next = "gate")

LedgerIInv ==
  /\ TypeOK /\ RowsIInv /\ GateExact
  /\ txn # None => Progress(txn)

LEMMA InitLedger == Init => LedgerIInv
<1> SUFFICES ASSUME Init PROVE LedgerIInv
  OBVIOUS
<1>1. disk \in Tables
  BY Nothing DEF Init, Tables
<1>2. TypeOK
  BY <1>1, LedgerAssumption, Nothing DEF Init, TypeOK, Hours
<1> QED BY <1>2 DEF Init, LedgerIInv, RowsIInv, GateExact

-----------------------------------------------------------------------------
(* Handlers.                                                               *)

LEMMA HandlersKeepLedger ==
  ASSUME LedgerIInv,
         NEW l \in Listings,
         CreateListing(l) \/ Takedown(l) \/ \E d \in Difficulties : CreditShare(l, d)
  PROVE  LedgerIInv'
<1>0. /\ txn = None /\ txn' = None /\ process = "serving" /\ process' = "serving"
      /\ UNCHANGED <<failures, healthy, hour>>
  BY DEF CreateListing, Takedown, CreditShare, Serving
<1>1. disk \in Tables /\ unflushed \in [Listings -> Credits]
  BY DEF LedgerIInv, TypeOK
<1>2. CASE CreateListing(l)
  <2>1. /\ disk'.rows = disk.rows \cup {l} /\ disk'.total = disk.total /\ disk'.visible = disk.visible
        /\ disk' \in Tables /\ unflushed' = unflushed /\ l \notin disk.rows
    BY <1>1, <1>2 DEF CreateListing, Tables
  <2>2. disk.total[l].shares = 0
    BY <2>1 DEF LedgerIInv, RowsIInv, NoCredit
  <2>3. TypeOK' /\ RowsIInv'
    BY <1>0, <2>1 DEF LedgerIInv, TypeOK, RowsIInv
  <2>4. GateExact'
    BY <2>1, <2>2, LedgerAssumption DEF LedgerIInv, GateExact
  <2> QED BY <1>0, <2>3, <2>4 DEF LedgerIInv
<1>3. CASE Takedown(l)
  <2>1. unflushed' = [unflushed EXCEPT ![l] = NoCredit] /\ unflushed' \in [Listings -> Credits]
    BY <1>1, <1>3, Nothing DEF Takedown, DropListing
  <2>2. CASE healthy
    <3>1. /\ disk'.rows = disk.rows \ {l} /\ disk'.visible = disk.visible \ {l}
          /\ disk'.total = [disk.total EXCEPT ![l] = NoCredit]
          /\ disk' \in Tables
      <4> DEFINE m == [disk.total EXCEPT ![l] = NoCredit]
                 b == [disk.buckets EXCEPT ![l] = [h \in Hours |-> NoCredit]]
      <4>1. m \in [Listings -> Credits] /\ b \in [Listings -> [Hours -> Credits]]
        BY <1>1, Nothing DEF Tables
      <4>2. disk' = [rows |-> disk.rows \ {l}, visible |-> disk.visible \ {l},
                     total |-> m, buckets |-> b]
        BY <1>3, <2>2 DEF Takedown, DeleteListing
      <4>3. disk.rows \subseteq Listings /\ disk.visible \subseteq Listings
        BY <1>1 DEF Tables
      <4> HIDE DEF m, b
      <4>4. disk' \in Tables /\ disk'.total = m
        BY <4>1, <4>2, <4>3 DEF Tables
      <4> QED BY <4>2, <4>4 DEF m
    <3>2. TypeOK'
      BY <1>0, <2>1, <3>1 DEF LedgerIInv, TypeOK
    <3>3. RowsIInv'
      <4>1. unflushed'[l] = NoCredit /\ disk'.total[l] = NoCredit
        BY <1>1, <2>1, <3>1 DEF Tables
      <4>2. \A k \in Listings : k # l => unflushed'[k] = unflushed[k] /\ disk'.total[k] = disk.total[k]
        BY <1>1, <2>1, <3>1 DEF Tables
      <4> QED BY <1>0, <3>1, <4>1, <4>2 DEF LedgerIInv, RowsIInv
    <3>4. GateExact'
      BY <1>1, <3>1 DEF LedgerIInv, GateExact, Tables
    <3> QED BY <1>0, <3>2, <3>3, <3>4 DEF LedgerIInv
  <2>3. CASE ~healthy
    <3>1. disk' = disk
      BY <1>3, <2>3 DEF Takedown
    <3> QED BY <1>0, <1>1, <2>1, <3>1 DEF LedgerIInv, TypeOK, RowsIInv, GateExact
  <2> QED BY <2>2, <2>3
<1>4. ASSUME NEW d \in Difficulties, CreditShare(l, d)
      PROVE  LedgerIInv'
  <2>1. [shares |-> 1, diffSum |-> d] \in Credits
    BY LedgerAssumption DEF Credits
  <2>2. /\ unflushed' = [unflushed EXCEPT ![l] = Plus(@, [shares |-> 1, diffSum |-> d])]
        /\ l \in disk.rows /\ disk' = disk
    BY <1>4 DEF CreditShare
  <2>3. unflushed' \in [Listings -> Credits]
    BY <1>1, <2>1, <2>2, Adding
  <2> QED BY <1>0, <1>1, <2>2, <2>3 DEF LedgerIInv, TypeOK, RowsIInv, GateExact
<1> QED BY <1>2, <1>3, <1>4

\* An end of the process leaves nothing but the disk.
LEMMA ExitKeepsLedger ==
  ASSUME LedgerIInv, NEW how \in {"stopped", "killed"}, Exit(how), UNCHANGED <<healthy, hour>>,
         disk' \in Tables, disk'.rows = disk.rows, GateExact',
         \A l \in Listings : l \notin disk.rows => disk'.total[l] = NoCredit
  PROVE  LedgerIInv'
<1>1. /\ process' = how /\ txn' = None /\ failures' = 0
      /\ unflushed' = [l \in Listings |-> NoCredit] /\ unflushed' \in [Listings -> Credits]
  BY Nothing DEF Exit
<1>2. TypeOK'
  BY <1>1, LedgerAssumption DEF LedgerIInv, TypeOK
<1> QED BY <1>1, <1>2 DEF LedgerIInv, RowsIInv

-----------------------------------------------------------------------------
(* Statements.                                                             *)

LEMMA BeginKeepsLedger ==
  ASSUME LedgerIInv, NEW caller \in Callers, BeginFlush(caller)
  PROVE  LedgerIInv'
<1>1. /\ txn' = [view |-> disk, todo |-> Batch, at |-> None, next |-> "bucket", caller |-> caller]
      /\ process = "serving" /\ UNCHANGED <<process, unflushed, failures, disk, healthy, hour>>
  BY DEF BeginFlush, Serving
<1>2. disk \in Tables /\ unflushed \in [Listings -> Credits] /\ Batch \subseteq Listings
  BY DEF LedgerIInv, TypeOK, Batch
<1>3. txn' \in Transactions
  BY <1>1, <1>2 DEF Transactions
<1>4. \A l \in Listings : disk.total[l] \in Credits
  BY <1>2 DEF Tables
<1>5. \A l \in Listings \ Batch : Plus(disk.total[l], unflushed[l]) = disk.total[l]
  BY <1>4, Adding, Nothing DEF Batch
<1>6. /\ txn'.view = disk /\ txn'.todo = Batch /\ txn'.at = None /\ txn'.next = "bucket"
  BY <1>1
<1>7. Progress(txn)'
  <2>1. Batch' = Batch
    BY <1>1 DEF Batch
  <2>2. \A l \in Listings :
          txn'.view.total[l] = IF Totalled(txn', l) THEN Plus(disk.total[l], unflushed[l]) ELSE disk.total[l]
    BY <1>5, <1>6 DEF Totalled
  <2> QED BY <1>1, <1>2, <1>6, <2>1, <2>2 DEF Progress, LedgerIInv, GateExact, Tables
<1> QED BY <1>1, <1>3, <1>7 DEF LedgerIInv, TypeOK, RowsIInv, GateExact

LEMMA StatementsKeepLedger ==
  ASSUME LedgerIInv, txn # None, txn' \in Transactions, Progress(txn'),
         UNCHANGED <<process, unflushed, failures, disk, healthy, hour>>
  PROVE  LedgerIInv'
<1>1. Progress(txn)'
  BY DEF Progress, Batch
<1>2. process = "serving"
  BY DEF LedgerIInv, RowsIInv
<1> QED BY <1>1, <1>2 DEF LedgerIInv, TypeOK, RowsIInv, GateExact

LEMMA BucketKeepsLedger ==
  ASSUME LedgerIInv, NEW l \in Listings, WriteBucket(l)
  PROVE  LedgerIInv'
<1> DEFINE t == txn
<1>1. /\ t # None /\ t \in Transactions /\ Progress(t) /\ t.at = None /\ l \in t.todo
      /\ unflushed[l] \in Credits /\ hour \in Hours /\ t.view \in Tables
  BY DEF WriteBucket, LedgerIInv, TypeOK, Transactions
<1>2. /\ txn'.todo = t.todo /\ txn'.at = l /\ txn'.next = "total" /\ txn'.caller = t.caller
      /\ txn'.view.rows = t.view.rows /\ txn'.view.total = t.view.total
      /\ txn'.view.visible = t.view.visible
      /\ txn' \in Transactions
  <2> DEFINE new == Plus(t.view.buckets[l][hour], unflushed[l])
             b   == [t.view.buckets EXCEPT ![l][hour] = new]
             v   == [t.view EXCEPT !.buckets = b]
  <2>1. b \in [Listings -> [Hours -> Credits]]
    <3>1. t.view.buckets \in [Listings -> [Hours -> Credits]]
      BY <1>1 DEF Tables
    <3>2. new \in Credits
      BY <1>1, <3>1, Adding
    <3> QED BY <1>1, <3>1, <3>2
  <2>2. /\ v.rows = t.view.rows /\ v.total = t.view.total /\ v.visible = t.view.visible
        /\ v \in Tables
    BY <1>1, <2>1 DEF Tables
  <2>3. txn' = [t EXCEPT !.at = l, !.next = "total", !.view = v]
    BY <1>1 DEF WriteBucket, Transactions, Tables
  <2> HIDE DEF v
  <2> QED BY <1>1, <2>2, <2>3 DEF Transactions
<1>3. l # None
  BY LedgerAssumption
<1>4. \A k \in Listings : Totalled(txn', k) <=> Totalled(t, k)
  BY <1>1, <1>2, LedgerAssumption DEF Totalled
<1>5. Progress(txn')
  BY <1>1, <1>2, <1>3, <1>4 DEF Progress
<1> QED BY <1>1, <1>2, <1>5, StatementsKeepLedger DEF WriteBucket

LEMMA TotalKeepsLedger ==
  ASSUME LedgerIInv, WriteTotal
  PROVE  LedgerIInv'
<1> DEFINE t == txn
           l == txn.at
<1>1. /\ t # None /\ t \in Transactions /\ Progress(t) /\ l # None /\ l \in Listings
      /\ t.next = "total" /\ t.view \in Tables /\ disk \in Tables
      /\ unflushed \in [Listings -> Credits]
  BY DEF WriteTotal, LedgerIInv, TypeOK, Transactions
<1>2. l \in t.todo /\ l \in t.view.rows
  BY <1>1 DEF Progress, Batch, LedgerIInv, RowsIInv
<1>3. \A k \in Listings : t.view.total[k] \in Credits /\ disk.total[k] \in Credits /\ unflushed[k] \in Credits
  BY <1>1 DEF Tables
<1> DEFINE new == Plus(t.view.total[l], unflushed[l])
           m   == [t.view.total EXCEPT ![l] = new]
<1>4. new \in Credits /\ new.shares >= t.view.total[l].shares /\ m \in [Listings -> Credits]
  <2>1. new \in Credits /\ new.shares >= t.view.total[l].shares
    BY <1>1, <1>3, Adding
  <2> QED BY <1>1, <2>1 DEF Tables
<1>5. /\ txn'.todo = t.todo /\ txn'.at = l /\ txn'.next = "gate"
      /\ txn'.view.rows = t.view.rows /\ txn'.view.total = m /\ txn'.view.visible = t.view.visible
      /\ txn' \in Transactions
  <2> DEFINE v == [t.view EXCEPT !.total = m]
  <2>1. /\ v.rows = t.view.rows /\ v.total = m /\ v.visible = t.view.visible
        /\ v \in Tables
    BY <1>1, <1>4 DEF Tables
  <2>2. txn' = [t EXCEPT !.next = "gate", !.view = v]
    BY <1>1 DEF WriteTotal, Transactions, Tables
  <2> HIDE DEF v
  <2> QED BY <1>1, <2>1, <2>2 DEF Transactions
<1>6. \A k \in Listings : Totalled(txn', k) <=> Totalled(t, k) \/ k = l
  BY <1>1, <1>5 DEF Totalled
<1>7. \A k \in Listings : m[k] = IF k = l THEN new ELSE t.view.total[k]
  BY <1>1 DEF Tables
<1>8. ~Totalled(t, l) /\ t.view.total[l] = disk.total[l]
  BY <1>1, <1>2 DEF Totalled, Progress
<1>9. \A k \in Listings :
        m[k] = IF Totalled(txn', k) THEN Plus(disk.total[k], unflushed[k]) ELSE disk.total[k]
  BY <1>1, <1>6, <1>7, <1>8 DEF Progress
<1>10. /\ \A k \in Listings : k \in t.view.visible => k \in t.view.rows /\ m[k].shares >= Threshold
       /\ \A k \in t.view.rows : m[k].shares >= Threshold => k \in t.view.visible \/ k = l
  <2>1. \A k \in Listings : k \in t.view.visible => k \in t.view.rows /\ t.view.total[k].shares >= Threshold
    BY <1>1 DEF Progress
  <2>2. \A k \in t.view.rows : t.view.total[k].shares >= Threshold => k \in t.view.visible
    BY <1>1 DEF Progress
  <2>3. new.shares \in Nat /\ t.view.total[l].shares \in Nat /\ Threshold \in Nat
    BY <1>1, <1>3, <1>4, LedgerAssumption DEF Credits
  <2>4. t.view.rows \subseteq Listings
    BY <1>1 DEF Tables
  <2> QED BY <1>4, <1>7, <2>1, <2>2, <2>3, <2>4
<1>11. Progress(txn')
  BY <1>1, <1>2, <1>5, <1>9, <1>10 DEF Progress
<1> QED BY <1>1, <1>5, <1>11, StatementsKeepLedger DEF WriteTotal

LEMMA GateKeepsLedger ==
  ASSUME LedgerIInv, WriteGate
  PROVE  LedgerIInv'
<1> DEFINE t == txn
           l == txn.at
<1>1. /\ t # None /\ t \in Transactions /\ Progress(t) /\ l # None /\ l \in Listings
      /\ t.next = "gate" /\ t.view \in Tables
  BY DEF WriteGate, LedgerIInv, TypeOK, Transactions
<1>2. l \in t.todo /\ l \in t.view.rows
  BY <1>1 DEF Progress, Batch, LedgerIInv, RowsIInv
<1> DEFINE w == t.view.visible \cup Passed
<1>3. \A k \in Listings : k \in w <=> k \in t.view.visible \/ (k = l /\ t.view.total[k].shares >= Threshold)
  BY <1>1 DEF Passed
<1>4. w \in SUBSET Listings
  BY <1>1 DEF Passed, Tables
<1>5. /\ txn'.todo = t.todo \ {l} /\ txn'.at = None /\ txn'.next = "bucket"
      /\ txn'.view.rows = t.view.rows /\ txn'.view.total = t.view.total /\ txn'.view.visible = w
      /\ txn' \in Transactions
  <2> DEFINE v == [t.view EXCEPT !.visible = w]
  <2>1. /\ v.rows = t.view.rows /\ v.total = t.view.total /\ v.visible = w
        /\ v \in Tables
    BY <1>1, <1>4 DEF Tables
  <2>2. txn' = [t EXCEPT !.at = None, !.next = "bucket", !.todo = t.todo \ {l}, !.view = v]
    BY <1>1 DEF WriteGate, Transactions, Tables
  <2> HIDE DEF v
  <2> QED BY <1>1, <2>1, <2>2 DEF Transactions
<1>6. \A k \in Listings : Totalled(txn', k) <=> Totalled(t, k)
  BY <1>1, <1>2, <1>5 DEF Totalled
<1> HIDE DEF w
<1>7. /\ \A k \in Listings : k \in w => k \in t.view.rows /\ t.view.total[k].shares >= Threshold
      /\ \A k \in t.view.rows : t.view.total[k].shares >= Threshold => k \in w
  <2>1. t.view.rows \subseteq Listings
    BY <1>1 DEF Tables
  <2> QED BY <1>1, <1>2, <1>3, <2>1 DEF Progress
<1>8. Progress(txn')
  BY <1>1, <1>5, <1>6, <1>7 DEF Progress
<1> QED BY <1>1, <1>5, <1>8, StatementsKeepLedger DEF WriteGate

\* A transaction with nothing left to write has written all of it.
LEMMA AllIsWritten ==
  ASSUME LedgerIInv, Commit
  PROVE  /\ disk' \in Tables /\ disk'.rows = disk.rows /\ disk' = txn.view
         /\ \A l \in Listings : disk'.total[l] = Plus(disk.total[l], unflushed[l])
         /\ GateExact'
<1>1. /\ txn # None /\ txn.todo = {} /\ disk' = txn.view /\ Progress(txn) /\ txn.view \in Tables
  BY DEF Commit, LedgerIInv, TypeOK, Transactions
<1>2. \A l \in Listings : Totalled(txn, l)
  BY <1>1 DEF Totalled
<1>3. txn.at = None /\ txn.next = "bucket"
  BY <1>1 DEF Progress
<1>4. \A l \in Listings : disk'.total[l] = Plus(disk.total[l], unflushed[l])
  BY <1>1, <1>2 DEF Progress
<1>5. GateExact'
  BY <1>1, <1>3 DEF Progress, GateExact, Tables
<1> QED BY <1>1, <1>4, <1>5 DEF Progress

LEMMA CommitKeepsLedger ==
  ASSUME LedgerIInv, Commit
  PROVE  LedgerIInv'
<1>1. /\ disk' \in Tables /\ disk'.rows = disk.rows /\ GateExact'
      /\ \A l \in Listings : l \notin disk.rows => disk'.total[l] = NoCredit
  BY AllIsWritten, Adding, Nothing DEF LedgerIInv, RowsIInv
<1>2. CASE txn.caller = "loop"
  <2>1. /\ unflushed' = [l \in Listings |-> NoCredit] /\ failures' = 0 /\ txn' = None
        /\ process' = process /\ UNCHANGED <<healthy, hour>>
    BY <1>2 DEF Commit, Written
  <2>2. TypeOK'
    BY <1>1, <2>1, Nothing, LedgerAssumption DEF LedgerIInv, TypeOK
  <2> QED BY <1>1, <2>1, <2>2 DEF LedgerIInv, RowsIInv
<1>3. CASE txn.caller # "loop"
  <2>1. Exit("stopped") /\ UNCHANGED <<healthy, hour>>
    BY <1>3 DEF Commit
  <2> QED BY <1>1, <2>1, ExitKeepsLedger
<1> QED BY <1>2, <1>3

\* Only the database fails a flush: every row a batch needs is there.
LEMMA OnlyTheDatabaseFails ==
  ASSUME LedgerIInv, FlushFails
  PROVE  ~healthy
<1>1. txn # None /\ Progress(txn)
  BY DEF FlushFails, LedgerIInv
<1>2. txn.todo \subseteq txn.view.rows
  BY <1>1 DEF Progress, Batch, LedgerIInv, RowsIInv
<1> QED BY <1>2 DEF FlushFails

LEMMA FailureKeepsLedger ==
  ASSUME LedgerIInv, FlushFails
  PROVE  LedgerIInv'
<1>0. txn # None /\ disk' = disk /\ UNCHANGED <<healthy, hour>>
  BY DEF FlushFails, RolledBack
<1>1. CASE txn.caller # "loop" \/ LastRound
  <2>1. Exit("stopped")
    BY <1>1 DEF FlushFails
  <2>2. disk' \in Tables /\ GateExact' /\ \A l \in Listings : l \notin disk.rows => disk'.total[l] = NoCredit
    BY <1>0 DEF LedgerIInv, TypeOK, GateExact, RowsIInv
  <2> QED BY <1>0, <2>1, <2>2, ExitKeepsLedger
<1>2. CASE ~(txn.caller # "loop" \/ LastRound)
  <2>1. txn' = None /\ failures' = failures + 1 /\ UNCHANGED <<process, unflushed>> /\ ~(failures + 1 >= MaxFailures)
    BY <1>2 DEF FlushFails, Counted, LastRound
  <2>2. TypeOK'
    BY <1>0, <2>1, LedgerAssumption DEF LedgerIInv, TypeOK
  <2> QED BY <1>0, <2>1, <2>2 DEF LedgerIInv, RowsIInv, GateExact
<1> QED BY <1>1, <1>2

LEMMA WorldKeepsLedger ==
  ASSUME LedgerIInv, StopWithNothingDue \/ Crash \/ Restart \/ DbChanges \/ HourPasses
  PROVE  LedgerIInv'
<1>1. CASE StopWithNothingDue \/ Crash
  <2>1. \E how \in {"stopped", "killed"} : Exit(how)
    BY <1>1 DEF StopWithNothingDue, Crash
  <2>2. UNCHANGED <<disk, healthy, hour>>
    BY <1>1 DEF StopWithNothingDue, Crash
  <2>3. disk' \in Tables /\ GateExact' /\ \A l \in Listings : l \notin disk.rows => disk'.total[l] = NoCredit
    BY <2>2 DEF LedgerIInv, TypeOK, GateExact, RowsIInv
  <2> QED BY <2>1, <2>2, <2>3, ExitKeepsLedger
<1>2. CASE Restart
  BY <1>2 DEF Restart, LedgerIInv, TypeOK, RowsIInv, GateExact
<1>3. CASE DbChanges
  <2>1. healthy' \in BOOLEAN /\ UNCHANGED <<process, unflushed, failures, disk, txn, hour>>
    BY <1>3 DEF DbChanges
  <2>2. Progress(txn)' <=> Progress(txn)
    BY <2>1 DEF Progress, Batch, Totalled
  <2> QED BY <2>1, <2>2 DEF LedgerIInv, TypeOK, RowsIInv, GateExact
<1>4. CASE HourPasses
  <2>1. hour' \in Hours /\ txn = None /\ txn' = None /\ UNCHANGED <<process, unflushed, failures, disk, healthy>>
    BY <1>4, LedgerAssumption DEF HourPasses, LedgerIInv, TypeOK, Hours
  <2> QED BY <2>1 DEF LedgerIInv, TypeOK, RowsIInv, GateExact
<1> QED BY <1>1, <1>2, <1>3, <1>4

LEMMA NextLedger ==
  ASSUME LedgerIInv, [Next]_vars
  PROVE  LedgerIInv'
<1>1. CASE UNCHANGED vars
  BY <1>1 DEF vars, LedgerIInv, TypeOK, RowsIInv, GateExact, Progress, Batch, Totalled
<1>2. CASE Statement
  BY <1>2, BucketKeepsLedger, TotalKeepsLedger, GateKeepsLedger, CommitKeepsLedger, FailureKeepsLedger
     DEF Statement
<1> QED BY <1>1, <1>2, HandlersKeepLedger, BeginKeepsLedger, WorldKeepsLedger DEF Next

LEMMA LedgerHolds == Spec => []LedgerIInv
<1>1. LedgerIInv /\ [Next]_vars => LedgerIInv'
  BY NextLedger
<1> QED BY <1>1, InitLedger, PTL DEF Spec

-----------------------------------------------------------------------------
(* Theorems.                                                               *)

\* What is on the disk passes the gate exactly, whenever a process may die.
THEOREM GateIsAlwaysExact == Spec => []GateExact
<1>1. LedgerIInv => GateExact
  BY DEF LedgerIInv
<1> QED BY <1>1, LedgerHolds, PTL

\* What every statement but the last leaves as it is.
LEMMA NothingIsShownYet ==
  ASSUME Statement, ~Commit, ~FlushFails
  PROVE  UNCHANGED <<process, unflushed, failures, disk, healthy, hour>>
BY DEF Statement, WriteBucket, WriteTotal, WriteGate

\* Writing the counters moves them: the sum stays.
LEMMA CommitShowsTheSame ==
  ASSUME LedgerIInv, Commit
  PROVE  \A l \in Listings : Shown(l)' = Shown(l)
<1>1. \A l \in Listings : disk'.total[l] = Plus(disk.total[l], unflushed[l]) /\ disk'.total[l] \in Credits
  BY AllIsWritten DEF Tables
<1>2. \A l \in Listings : unflushed'[l] = NoCredit
  BY DEF Commit, Written, Exit
<1> QED BY <1>1, <1>2, Adding DEF Shown

LEMMA ShownStep ==
  ASSUME LedgerIInv, [Next]_vars, process' = "serving", process = "serving",
         NEW l \in disk.rows \cap disk'.rows
  PROVE  Shown(l)' = Shown(l) \/ IsOneShareMore(l) \/ Takedown(l)
<1>0. /\ l \in Listings /\ disk \in Tables /\ unflushed \in [Listings -> Credits]
      /\ disk.total[l] \in Credits /\ unflushed[l] \in Credits
  BY DEF LedgerIInv, TypeOK, Tables
<1>1. ASSUME NEW k \in Listings, CreateListing(k)
      PROVE  Shown(l)' = Shown(l)
  <2>1. disk'.total = disk.total /\ unflushed' = unflushed
    BY <1>0, <1>1 DEF CreateListing, Tables
  <2> QED BY <2>1 DEF Shown
<1>2. ASSUME NEW k \in Listings, Takedown(k), k # l
      PROVE  Shown(l)' = Shown(l)
  <2>1. unflushed'[l] = unflushed[l]
    BY <1>0, <1>2 DEF Takedown, DropListing
  <2>2. disk'.total[l] = disk.total[l]
    BY <1>0, <1>2 DEF Takedown, DeleteListing, Tables
  <2> QED BY <2>1, <2>2 DEF Shown
<1>3. ASSUME NEW k \in Listings, NEW d \in Difficulties, CreditShare(k, d)
      PROVE  Shown(l)' = Shown(l) \/ IsOneShareMore(l)
  <2> DEFINE one == [shares |-> 1, diffSum |-> d]
  <2>1. disk' = disk /\ unflushed' = [unflushed EXCEPT ![k] = Plus(@, one)]
    BY <1>3 DEF CreditShare
  <2>2. CASE k # l
    <3>1. unflushed'[l] = unflushed[l]
      BY <1>0, <2>1, <2>2
    <3> QED BY <2>1, <3>1 DEF Shown
  <2>3. CASE k = l
    <3>1. unflushed'[l] = Plus(unflushed[l], one)
      BY <1>0, <2>1, <2>3
    <3>2. one \in Credits /\ d \in Nat
      BY LedgerAssumption DEF Credits
    <3> QED BY <1>0, <2>1, <3>1, <3>2 DEF IsOneShareMore, Shown, Plus, Credits
  <2> QED BY <2>2, <2>3
<1>4. CASE Statement
  <2>1. CASE Commit
    BY <1>0, <2>1, CommitShowsTheSame
  <2>2. CASE FlushFails
    <3>1. disk' = disk /\ UNCHANGED unflushed
      BY <2>2 DEF FlushFails, RolledBack, Exit
    <3> QED BY <3>1 DEF Shown
  <2>3. CASE ~Commit /\ ~FlushFails
    BY <1>4, <2>3, NothingIsShownYet DEF Shown
  <2> QED BY <2>1, <2>2, <2>3
<1>5. CASE (\E caller \in Callers : BeginFlush(caller)) \/ Restart \/ DbChanges \/ HourPasses \/ UNCHANGED vars
  BY <1>5 DEF BeginFlush, Restart, DbChanges, HourPasses, vars, Shown
<1>6. CASE StopWithNothingDue \/ Crash
  BY <1>6 DEF StopWithNothingDue, Crash, Exit
<1> QED BY <1>1, <1>2, <1>3, <1>4, <1>5, <1>6 DEF Next

\* While the process lives a flush, whether it succeeds, fails or is tried
\* again, neither loses a share nor writes one twice.
THEOREM SharesAreShownOnce == Spec => ShownMovesByShares
<1>1. LedgerIInv /\ [Next]_vars =>
        [process' = "serving" /\ process = "serving" => \A l \in disk.rows \cap disk'.rows :
           Shown(l)' = Shown(l) \/ IsOneShareMore(l) \/ Takedown(l)]_vars
  BY ShownStep
<1> QED BY <1>1, LedgerHolds, PTL DEF Spec, ShownMovesByShares

LEMMA StopStep ==
  ASSUME LedgerIInv, [Next]_vars, process = "serving", process' # "serving", NEW l \in disk.rows
  PROVE  /\ l \in disk'.rows
         /\ disk'.total[l].shares >= disk.total[l].shares
         /\ healthy /\ process' = "stopped" => Shown(l)' = Shown(l)
<1>0. /\ l \in Listings /\ disk.total[l] \in Credits /\ unflushed[l] \in Credits
      /\ disk.total[l].shares \in Nat
  BY DEF LedgerIInv, TypeOK, Tables, Credits
<1>1. CASE StopWithNothingDue
  <2>1. disk' = disk /\ unflushed[l] = NoCredit /\ unflushed'[l] = NoCredit
    BY <1>0, <1>1 DEF StopWithNothingDue, Exit, Batch
  <2> QED BY <1>0, <2>1 DEF Shown
<1>2. CASE Crash
  BY <1>0, <1>2 DEF Crash, Exit
<1>3. CASE Commit
  <2>1. disk'.rows = disk.rows /\ disk'.total[l] = Plus(disk.total[l], unflushed[l])
    BY <1>0, <1>3, AllIsWritten
  <2> QED BY <1>0, <1>3, <2>1, Adding, CommitShowsTheSame
<1>4. CASE FlushFails
  BY <1>0, <1>4, OnlyTheDatabaseFails DEF FlushFails, RolledBack
<1>5. CASE Statement /\ ~Commit /\ ~FlushFails
  BY <1>5, NothingIsShownYet
<1>6. CASE \/ (\E k \in Listings : CreateListing(k) \/ Takedown(k))
           \/ (\E k \in Listings, d \in Difficulties : CreditShare(k, d))
           \/ (\E caller \in Callers : BeginFlush(caller))
           \/ Restart \/ DbChanges \/ HourPasses \/ UNCHANGED vars
  BY <1>6 DEF CreateListing, Takedown, CreditShare, BeginFlush, Restart, DbChanges, HourPasses, vars
<1> QED BY <1>1, <1>2, <1>3, <1>4, <1>5, <1>6 DEF Next

\* An exit the program chose takes every share along if the database answers;
\* any exit keeps what was written.
THEOREM AStopKeepsItsShares == Spec => StopKeepsShares
<1>1. LedgerIInv /\ [Next]_vars =>
        [process = "serving" /\ process' # "serving" => \A l \in disk.rows :
           /\ l \in disk'.rows
           /\ disk'.total[l].shares >= disk.total[l].shares
           /\ healthy /\ process' = "stopped" => Shown(l)' = Shown(l)]_vars
  BY StopStep
<1> QED BY <1>1, LedgerHolds, PTL DEF Spec, StopKeepsShares

\* A database that answers never fails a flush, however listings come and go.
THEOREM AHealthyFlushSucceeds == Spec => HealthyFlushSucceeds
<1>1. ASSUME LedgerIInv, [Next]_vars
      PROVE  [healthy => failures' <= failures /\ ~FlushFails]_vars
  <2> SUFFICES ASSUME healthy PROVE failures' <= failures \/ UNCHANGED vars
    BY <1>1, OnlyTheDatabaseFails
  <2>0. failures \in Nat
    BY <1>1, LedgerAssumption DEF LedgerIInv, TypeOK
  <2>1. failures' = failures \/ failures' = 0 \/ FlushFails
    BY <1>1 DEF Next, CreateListing, Takedown, CreditShare, BeginFlush, StopWithNothingDue, Exit,
       Statement, WriteBucket, WriteTotal, WriteGate, Commit, Crash, Restart, DbChanges, HourPasses, vars
  <2> QED BY <1>1, <2>0, <2>1, OnlyTheDatabaseFails
<1> QED BY <1>1, LedgerHolds, PTL DEF Spec, HealthyFlushSucceeds

-----------------------------------------------------------------------------
(* Sums over the hours.                                                    *)

\* A set of numbers that is not empty has a least one: what an induction needs.
LEMMA LeastNumber ==
  ASSUME NEW T \in SUBSET Nat, T # {}
  PROVE  \E n \in T : \A m \in T : n <= m
<1> DEFINE U == {0 .. n : n \in T}
<1>1. U \subseteq FiniteSubsetsOf(Nat)
  <2>1. ASSUME NEW n \in Nat PROVE 0 .. n \subseteq Nat /\ IsFiniteSet(0 .. n)
    BY FS_Interval
  <2> QED BY <2>1 DEF FiniteSubsetsOf
<1>2. U # {}
  OBVIOUS
<1>3. PICK x \in U : \A y \in U : ~ (<<y, x>> \in StrictSubsetOrdering(Nat))
  <2> HIDE DEF U
  <2> QED BY <1>1, <1>2, WFMin, FS_StrictSubsetOrderingWellFounded
<1>4. PICK n \in T : x = 0 .. n
  OBVIOUS
<1>5. ASSUME NEW m \in T, m < n
      PROVE  FALSE
  <2>1. 0 .. m \in U /\ 0 .. m \subseteq 0 .. n /\ 0 .. m # 0 .. n
    BY <1>5
  <2>2. 0 .. m \in SUBSET Nat /\ x \in SUBSET Nat
    BY <1>4
  <2>3. <<0 .. m, x>> \in StrictSubsetOrdering(Nat)
    <3>1. <<0 .. m, x>> \in (SUBSET Nat) \X (SUBSET Nat)
      BY <2>2
    <3>2. 0 .. m \subseteq x /\ 0 .. m # x
      BY <1>4, <2>1
    <3> QED BY <3>1, <3>2, Zenon DEF StrictSubsetOrdering
  <2> HIDE DEF U
  <2> QED BY <1>3, <2>1, <2>3
<1> QED BY <1>5

\* s adds f up, as far as hour n.
AddsUp(f, s, n) ==
  /\ s \in [0 .. n -> Nat]
  /\ s[0] = f[0]
  /\ \A h \in 1 .. n : s[h] = s[h - 1] + f[h]

LEMMA SumsExist ==
  ASSUME NEW f \in [Hours -> Nat], NEW n \in Hours
  PROVE  \E s : AddsUp(f, s, n)
<1> DEFINE T == {h \in Hours : ~ \E s : AddsUp(f, s, h)}
<1>0. MaxHour \in Nat /\ Hours \subseteq Nat /\ 0 \in Hours
  BY LedgerAssumption DEF Hours
<1> SUFFICES ASSUME T # {} PROVE FALSE
  OBVIOUS
<1>1. PICK h \in T : \A m \in T : h <= m
  <2> HIDE DEF T
  <2>1. T \in SUBSET Nat
    BY <1>0 DEF T
  <2> QED BY <2>1, LeastNumber
<1>2. h \in Nat /\ h \in Hours
  BY <1>0
<1>3. CASE h = 0
  <2> DEFINE s == [m \in 0 .. 0 |-> f[0]]
  <2>1. s \in [0 .. 0 -> Nat] /\ s[0] = f[0] /\ 1 .. 0 = {}
    BY <1>0
  <2>2. AddsUp(f, s, 0)
    BY <2>1 DEF AddsUp
  <2> QED BY <1>1, <1>3, <2>2
<1>4. CASE h # 0
  <2>1. h - 1 \in Hours /\ h - 1 \in Nat /\ h - 1 < h
    BY <1>0, <1>2, <1>4 DEF Hours
  <2>2. h - 1 \notin T
    BY <1>1, <1>2, <2>1
  <2>3. PICK s : AddsUp(f, s, h - 1)
    BY <2>1, <2>2
  <2> DEFINE g == [m \in 0 .. h |-> IF m = h THEN s[h - 1] + f[h] ELSE s[m]]
  <2>4. /\ s \in [0 .. h - 1 -> Nat] /\ s[0] = f[0]
        /\ \A m \in 1 .. h - 1 : s[m] = s[m - 1] + f[m]
    BY <2>3 DEF AddsUp
  <2>5. g \in [0 .. h -> Nat]
    <3>1. s[h - 1] + f[h] \in Nat
      BY <1>2, <2>1, <2>4
    <3>2. \A m \in 0 .. h : m # h => s[m] \in Nat
      BY <1>2, <2>4
    <3> QED BY <3>1, <3>2
  <2>6. g[0] = f[0]
    BY <1>2, <1>4, <2>4
  <2>7. \A m \in 1 .. h : g[m] = g[m - 1] + f[m]
    BY <1>2, <2>1, <2>4
  <2>8. AddsUp(f, g, h)
    <3> HIDE DEF g
    <3> QED BY <2>5, <2>6, <2>7 DEF AddsUp
  <2> QED BY <1>1, <2>8
<1> QED BY <1>3, <1>4

\* The recursive function of the sum adds up.
LEMMA SumOfHours ==
  ASSUME NEW f \in [Hours -> Nat]
  PROVE  \E s : AddsUp(f, s, MaxHour) /\ SumOver(f) = s[MaxHour]
<1>0. MaxHour \in Nat /\ Hours = 0 .. MaxHour /\ MaxHour \in Hours
  BY LedgerAssumption DEF Hours
<1> DEFINE P(s) == s = [h \in Hours |-> IF h = 0 THEN f[0] ELSE s[h - 1] + f[h]]
           up   == CHOOSE s : P(s)
<1>1. SumOver(f) = up[MaxHour]
  BY DEF SumOver
<1>2. PICK s : AddsUp(f, s, MaxHour)
  BY <1>0, SumsExist
<1>3. P(s)
  <2>1. s \in [Hours -> Nat] /\ s[0] = f[0] /\ \A h \in 1 .. MaxHour : s[h] = s[h - 1] + f[h]
    BY <1>0, <1>2 DEF AddsUp
  <2>2. \A h \in Hours : h # 0 => h \in 1 .. MaxHour
    BY <1>0
  <2> QED BY <2>1, <2>2
<1>4. P(up)
  <2> HIDE DEF P
  <2> QED BY <1>3
<1>5. ASSUME NEW h \in Hours
      PROVE  up[h] = s[h]
  <2> DEFINE T == {m \in Hours : up[m] # s[m]}
  <2> SUFFICES ASSUME T # {} PROVE FALSE
    OBVIOUS
  <2>1. PICK m \in T : \A k \in T : m <= k
    <3> HIDE DEF T
    <3>1. T \in SUBSET Nat
      BY <1>0 DEF T
    <3> QED BY <3>1, LeastNumber
  <2>2. m \in Nat /\ m \in Hours
    BY <1>0
  <2>3. m # 0 => m - 1 \in Hours /\ m - 1 \notin T
    BY <1>0, <2>1, <2>2
  <2>4. up[m] = (IF m = 0 THEN f[0] ELSE up[m - 1] + f[m]) /\ s[m] = (IF m = 0 THEN f[0] ELSE s[m - 1] + f[m])
    <3> HIDE DEF up
    <3> QED BY <1>3, <1>4, <2>2
  <2> QED BY <2>1, <2>3, <2>4
<1> QED BY <1>0, <1>1, <1>2, <1>5

\* More in one hour is as much more in all.
LEMMA SumGrows ==
  ASSUME NEW f \in [Hours -> Nat], NEW h \in Hours, NEW x \in Nat
  PROVE  SumOver(f) \in Nat /\ SumOver([f EXCEPT ![h] = @ + x]) = SumOver(f) + x
<1> DEFINE g == [f EXCEPT ![h] = @ + x]
<1>0. MaxHour \in Nat /\ Hours = 0 .. MaxHour /\ MaxHour \in Hours /\ h \in Nat
  BY LedgerAssumption DEF Hours
<1>1. g \in [Hours -> Nat]
  OBVIOUS
<1>2. PICK s : AddsUp(f, s, MaxHour) /\ SumOver(f) = s[MaxHour]
  BY SumOfHours
<1>3. PICK r : AddsUp(g, r, MaxHour) /\ SumOver(g) = r[MaxHour]
  BY <1>1, SumOfHours
<1>4. \A m \in Hours : s[m] \in Nat /\ r[m] \in Nat
  BY <1>0, <1>2, <1>3 DEF AddsUp
<1>5. \A m \in Hours : g[m] = f[m] + (IF m = h THEN x ELSE 0)
  OBVIOUS
<1>6. \A m \in Hours : /\ s[m] = IF m = 0 THEN f[0] ELSE s[m - 1] + f[m]
                       /\ r[m] = IF m = 0 THEN g[0] ELSE r[m - 1] + g[m]
  BY <1>0, <1>2, <1>3 DEF AddsUp
<1> HIDE DEF g
<1>7. ASSUME NEW k \in Hours
      PROVE  r[k] = s[k] + (IF k >= h THEN x ELSE 0)
  <2> DEFINE T == {m \in Hours : r[m] # s[m] + (IF m >= h THEN x ELSE 0)}
  <2> SUFFICES ASSUME T # {} PROVE FALSE
    OBVIOUS
  <2>1. PICK m \in T : \A n \in T : m <= n
    <3> HIDE DEF T
    <3>1. T \in SUBSET Nat
      BY <1>0 DEF T
    <3> QED BY <3>1, LeastNumber
  <2>2. m \in Nat /\ m \in Hours /\ f[m] \in Nat /\ f[0] \in Nat
    BY <1>0
  <2>3. CASE m = 0
    BY <1>0, <1>5, <1>6, <2>1, <2>2, <2>3
  <2>4. CASE m # 0
    <3>1. m - 1 \in Hours /\ m - 1 \notin T
      BY <1>0, <2>1, <2>2, <2>4
    <3>2. r[m - 1] = s[m - 1] + (IF m - 1 >= h THEN x ELSE 0)
      BY <3>1
    <3>3. s[m] = s[m - 1] + f[m] /\ r[m] = r[m - 1] + g[m] /\ g[m] = f[m] + (IF m = h THEN x ELSE 0)
      BY <1>5, <1>6, <2>2, <2>4
    <3>4. r[m] = s[m] + (IF m >= h THEN x ELSE 0)
      BY <1>0, <1>4, <2>2, <3>1, <3>2, <3>3
    <3> QED BY <2>1, <3>4
  <2> QED BY <2>3, <2>4
<1>8. MaxHour >= h
  BY <1>0
<1> QED BY <1>0, <1>2, <1>3, <1>4, <1>7, <1>8 DEF g

LEMMA SumOfNothing == SumOver([h \in Hours |-> 0]) = 0
<1> DEFINE f == [h \in Hours |-> 0]
<1>0. MaxHour \in Nat /\ Hours = 0 .. MaxHour /\ MaxHour \in Hours /\ f \in [Hours -> Nat]
  BY LedgerAssumption DEF Hours
<1>1. PICK s : AddsUp(f, s, MaxHour) /\ SumOver(f) = s[MaxHour]
  BY <1>0, SumOfHours
<1>2. \A m \in Hours : s[m] = IF m = 0 THEN 0 ELSE s[m - 1] + 0
  BY <1>0, <1>1 DEF AddsUp
<1> SUFFICES ASSUME NEW k \in Hours
             PROVE  s[k] = 0
  BY <1>0, <1>1
<1> DEFINE T == {m \in Hours : s[m] # 0}
<1> SUFFICES ASSUME T # {} PROVE FALSE
  OBVIOUS
<1>3. PICK m \in T : \A n \in T : m <= n
  <2> HIDE DEF T
  <2>1. T \in SUBSET Nat
    BY <1>0 DEF T
  <2> QED BY <2>1, LeastNumber
<1>4. m \in Nat /\ m \in Hours
  BY <1>0
<1>5. m # 0 => m - 1 \in Hours /\ m - 1 \notin T
  BY <1>0, <1>3, <1>4
<1> QED BY <1>2, <1>3, <1>4, <1>5

-----------------------------------------------------------------------------
(* History and total.                                                      *)

LEMMA WholeGrows ==
  ASSUME NEW b \in [Hours -> Credits], NEW h \in Hours, NEW c \in Credits
  PROVE  Whole([b EXCEPT ![h] = Plus(@, c)]) = Plus(Whole(b), c)
<1> DEFINE d  == [b EXCEPT ![h] = Plus(@, c)]
           f1 == [k \in Hours |-> b[k].shares]   g1 == [k \in Hours |-> d[k].shares]
           f2 == [k \in Hours |-> b[k].diffSum]  g2 == [k \in Hours |-> d[k].diffSum]
<1>1. f1 \in [Hours -> Nat] /\ f2 \in [Hours -> Nat] /\ c.shares \in Nat /\ c.diffSum \in Nat
  BY DEF Credits
<1>2. \A k \in Hours : d[k] = IF k = h THEN Plus(b[h], c) ELSE b[k]
  OBVIOUS
<1>3. g1 = [f1 EXCEPT ![h] = @ + c.shares] /\ g2 = [f2 EXCEPT ![h] = @ + c.diffSum]
  <2> HIDE DEF d
  <2>1. /\ \A k \in Hours : d[k].shares = IF k = h THEN b[h].shares + c.shares ELSE b[k].shares
        /\ \A k \in Hours : d[k].diffSum = IF k = h THEN b[h].diffSum + c.diffSum ELSE b[k].diffSum
    BY <1>2 DEF Plus
  <2>2. g1 = [f1 EXCEPT ![h] = @ + c.shares]
    BY <2>1
  <2>3. g2 = [f2 EXCEPT ![h] = @ + c.diffSum]
    BY <2>1
  <2> QED BY <2>2, <2>3
<1>4. Whole(d) = [shares |-> SumOver(g1), diffSum |-> SumOver(g2)]
  BY DEF Whole
<1>5. Whole(b) = [shares |-> SumOver(f1), diffSum |-> SumOver(f2)]
  BY DEF Whole
<1> HIDE DEF d, f1, f2, g1, g2
<1>6. SumOver(g1) = SumOver(f1) + c.shares /\ SumOver(g2) = SumOver(f2) + c.diffSum
  BY <1>1, <1>3, SumGrows
<1>7. Whole(d) = Plus(Whole(b), c)
  BY <1>4, <1>5, <1>6 DEF Plus
<1> QED BY <1>7 DEF d

LEMMA WholeOfNothing == Whole([h \in Hours |-> NoCredit]) = NoCredit
<1> DEFINE b == [h \in Hours |-> NoCredit]
<1>1. /\ [h \in Hours |-> b[h].shares] = [h \in Hours |-> 0]
      /\ [h \in Hours |-> b[h].diffSum] = [h \in Hours |-> 0]
  BY DEF NoCredit
<1> QED BY <1>1, SumOfNothing DEF Whole, NoCredit

\* In an open transaction t, what a listing's first statement has added to its
\* history its second has yet to add to its total.
HistoryProgress(t) ==
  \A l \in Listings :
    Whole(t.view.buckets[l]) =
      IF l = t.at /\ t.next = "total" THEN Plus(t.view.total[l], unflushed[l]) ELSE t.view.total[l]

HistoryIInv ==
  /\ LedgerIInv /\ HistoryAgrees
  /\ txn # None => HistoryProgress(txn)

\* Outside a transaction, a listing's history and total are dropped together.
LEMMA HandlersKeepHistory ==
  ASSUME HistoryIInv, NEW l \in Listings, Takedown(l) \/ CreateListing(l)
  PROVE  HistoryAgrees'
<1>0. disk \in Tables
  BY DEF HistoryIInv, LedgerIInv, TypeOK
<1>1. disk'.total = disk.total /\ disk'.buckets = disk.buckets => HistoryAgrees'
  BY DEF HistoryIInv, HistoryAgrees
<1>2. CASE CreateListing(l)
  BY <1>0, <1>1, <1>2 DEF CreateListing, Tables
<1>3. CASE Takedown(l) /\ ~healthy
  BY <1>1, <1>3 DEF Takedown
<1>4. CASE Takedown(l) /\ healthy
  <2> DEFINE none == [h \in Hours |-> NoCredit]
  <2>1. /\ disk'.total = [disk.total EXCEPT ![l] = NoCredit]
        /\ disk'.buckets = [disk.buckets EXCEPT ![l] = none]
    BY <1>4 DEF Takedown, DeleteListing
  <2>2. disk.total \in [Listings -> Credits] /\ disk.buckets \in [Listings -> [Hours -> Credits]]
    BY <1>0 DEF Tables
  <2> HIDE DEF none
  <2>3. disk'.total[l] = NoCredit /\ disk'.buckets[l] = none
    BY <2>1, <2>2
  <2>4. \A k \in Listings : k # l => disk'.total[k] = disk.total[k] /\ disk'.buckets[k] = disk.buckets[k]
    BY <2>1, <2>2
  <2>5. Whole(none) = NoCredit
    BY WholeOfNothing DEF none
  <2> QED BY <2>3, <2>4, <2>5 DEF HistoryIInv, HistoryAgrees
<1> QED BY <1>2, <1>3, <1>4

LEMMA BucketKeepsHistory ==
  ASSUME HistoryIInv, NEW l \in Listings, WriteBucket(l)
  PROVE  HistoryProgress(txn)'
<1> DEFINE t == txn
           b == t.view.buckets
<1>1. /\ t # None /\ t \in Transactions /\ t.at = None /\ unflushed' = unflushed
      /\ unflushed[l] \in Credits /\ hour \in Hours /\ t.view \in Tables /\ HistoryProgress(t)
  BY DEF WriteBucket, HistoryIInv, LedgerIInv, TypeOK, Transactions
<1>2. b \in [Listings -> [Hours -> Credits]]
  BY <1>1 DEF Tables
<1> DEFINE c == [b[l] EXCEPT ![hour] = Plus(@, unflushed[l])]
           d == [b EXCEPT ![l] = c]
<1>3. txn'.at = l /\ txn'.next = "total" /\ txn'.view.total = t.view.total /\ txn'.view.buckets = d
  <2> DEFINE v == [t.view EXCEPT !.buckets = d]
  <2>1. v.total = t.view.total /\ v.buckets = d
    BY <1>1 DEF Tables
  <2>2. txn' = [t EXCEPT !.at = l, !.next = "total", !.view = v]
    BY <1>1 DEF WriteBucket, Transactions, Tables
  <2> HIDE DEF v
  <2> QED BY <1>1, <2>1, <2>2 DEF Transactions
<1>4. Whole(c) = Plus(Whole(b[l]), unflushed[l])
  BY <1>1, <1>2, WholeGrows
<1>5. \A k \in Listings : Whole(b[k]) = t.view.total[k]
  BY <1>1, LedgerAssumption DEF HistoryProgress
<1>6. d[l] = c /\ \A k \in Listings : k # l => d[k] = b[k]
  BY <1>2
<1> HIDE DEF c, d
<1> QED BY <1>1, <1>3, <1>4, <1>5, <1>6 DEF HistoryProgress

LEMMA TotalKeepsHistory ==
  ASSUME HistoryIInv, WriteTotal
  PROVE  HistoryProgress(txn)'
<1> DEFINE t == txn
           l == txn.at
<1>1. /\ t # None /\ t \in Transactions /\ l # None /\ l \in Listings /\ t.next = "total"
      /\ t.view \in Tables /\ HistoryProgress(t) /\ unflushed' = unflushed
  BY DEF WriteTotal, HistoryIInv, LedgerIInv, TypeOK, Transactions
<1> DEFINE m == [t.view.total EXCEPT ![l] = Plus(@, unflushed[l])]
<1>2. /\ txn'.at = l /\ txn'.next = "gate" /\ txn'.view.total = m
      /\ txn'.view.buckets = t.view.buckets
  <2> DEFINE v == [t.view EXCEPT !.total = m]
  <2>1. v.total = m /\ v.buckets = t.view.buckets
    BY <1>1 DEF Tables
  <2>2. txn' = [t EXCEPT !.next = "gate", !.view = v]
    BY <1>1 DEF WriteTotal, Transactions, Tables
  <2> HIDE DEF v
  <2> QED BY <1>1, <2>1, <2>2 DEF Transactions
<1>3. \A k \in Listings : m[k] = IF k = l THEN Plus(t.view.total[l], unflushed[l]) ELSE t.view.total[k]
  BY <1>1 DEF Tables
<1> HIDE DEF m
<1> QED BY <1>1, <1>2, <1>3 DEF HistoryProgress

LEMMA GateKeepsHistory ==
  ASSUME HistoryIInv, WriteGate
  PROVE  HistoryProgress(txn)'
<1> DEFINE t == txn
<1>1. /\ t # None /\ t \in Transactions /\ t.next = "gate"
      /\ t.view \in Tables /\ HistoryProgress(t) /\ unflushed' = unflushed
  BY DEF WriteGate, HistoryIInv, LedgerIInv, TypeOK, Transactions
<1>2. /\ txn'.next = "bucket" /\ txn'.view.total = t.view.total
      /\ txn'.view.buckets = t.view.buckets
  <2> DEFINE v == [t.view EXCEPT !.visible = @ \cup Passed]
  <2>1. v.total = t.view.total /\ v.buckets = t.view.buckets
    BY <1>1 DEF Tables
  <2>2. txn' = [t EXCEPT !.at = None, !.next = "bucket", !.todo = @ \ {t.at}, !.view = v]
    BY <1>1 DEF WriteGate, Transactions, Tables
  <2> HIDE DEF v
  <2> QED BY <1>1, <2>1, <2>2 DEF Transactions
<1> QED BY <1>1, <1>2 DEF HistoryProgress

LEMMA NextHistory ==
  ASSUME HistoryIInv, [Next]_vars
  PROVE  HistoryIInv'
<1>0. LedgerIInv /\ LedgerIInv'
  BY NextLedger DEF HistoryIInv
<1>1. ASSUME disk' = disk, txn' = None
      PROVE  HistoryIInv'
  BY <1>0, <1>1 DEF HistoryIInv, HistoryAgrees
<1>2. ASSUME disk' = disk, HistoryProgress(txn)'
      PROVE  HistoryIInv'
  BY <1>0, <1>2 DEF HistoryIInv, HistoryAgrees
<1>3. ASSUME UNCHANGED <<disk, txn, unflushed>>
      PROVE  HistoryIInv'
  BY <1>0, <1>3 DEF HistoryIInv, HistoryAgrees, HistoryProgress
<1>4. ASSUME NEW l \in Listings, CreateListing(l) \/ Takedown(l)
      PROVE  HistoryIInv'
  <2>1. txn' = None
    BY <1>4 DEF CreateListing, Takedown, Serving
  <2> QED BY <1>0, <1>4, <2>1, HandlersKeepHistory DEF HistoryIInv
<1>5. ASSUME NEW caller \in Callers, BeginFlush(caller)
      PROVE  HistoryIInv'
  <2>1. /\ disk' = disk /\ txn'.view = disk /\ txn'.next = "bucket"
    BY <1>5 DEF BeginFlush
  <2>2. HistoryProgress(txn)'
    BY <2>1 DEF HistoryIInv, HistoryAgrees, HistoryProgress
  <2> QED BY <1>2, <2>1, <2>2
<1>6. CASE WriteTotal \/ WriteGate \/ \E l \in Listings : WriteBucket(l)
  <2>1. disk' = disk
    BY <1>6 DEF WriteTotal, WriteGate, WriteBucket
  <2> QED BY <1>2, <1>6, <2>1, TotalKeepsHistory, GateKeepsHistory, BucketKeepsHistory
<1>7. CASE Commit
  <2>1. /\ txn # None /\ txn.todo = {} /\ disk' = txn.view /\ txn' = None
        /\ Progress(txn) /\ HistoryProgress(txn)
    BY <1>0, <1>7 DEF Commit, Exit, HistoryIInv, LedgerIInv
  <2>2. txn.next = "bucket"
    BY <2>1 DEF Progress
  <2>3. HistoryAgrees'
    BY <2>1, <2>2 DEF HistoryProgress, HistoryAgrees
  <2> QED BY <1>0, <2>1, <2>3 DEF HistoryIInv
<1>8. CASE FlushFails \/ StopWithNothingDue \/ Crash
  <2>1. disk' = disk /\ txn' = None
    BY <1>8 DEF FlushFails, RolledBack, StopWithNothingDue, Crash, Exit
  <2> QED BY <1>1, <2>1
<1>9. CASE \E l \in Listings, d \in Difficulties : CreditShare(l, d)
  <2>1. disk' = disk /\ txn' = None
    BY <1>9 DEF CreditShare, Serving
  <2> QED BY <1>1, <2>1
<1>10. CASE Restart \/ DbChanges \/ HourPasses \/ UNCHANGED vars
  <2>1. UNCHANGED <<disk, txn, unflushed>>
    BY <1>10 DEF Restart, DbChanges, HourPasses, vars
  <2> QED BY <1>3, <2>1
<1> QED BY <1>4, <1>5, <1>6, <1>7, <1>8, <1>9, <1>10 DEF Next, Statement

\* Whenever a process may die, the disk holds a total that is what its hours add
\* up to, for shares and difficulty both, and exactly the listings that passed the
\* gate: for any number of hours, listings and failures.
THEOREM TheDiskIsAlwaysSound == Spec => []LedgerIsSound
<1>1. Init => HistoryIInv
  <2> SUFFICES ASSUME Init PROVE HistoryIInv
    OBVIOUS
  <2>1. \A l \in Listings : disk.total[l] = NoCredit /\ disk.buckets[l] = [h \in Hours |-> NoCredit]
    BY DEF Init
  <2>2. HistoryAgrees
    BY <2>1, WholeOfNothing DEF HistoryAgrees
  <2> QED BY <2>2, InitLedger DEF Init, HistoryIInv
<1>2. HistoryIInv /\ [Next]_vars => HistoryIInv'
  BY NextHistory
<1>3. HistoryIInv => LedgerIsSound
  BY DEF HistoryIInv, LedgerIInv, LedgerIsSound
<1> QED BY <1>1, <1>2, <1>3, PTL DEF Spec
=============================================================================

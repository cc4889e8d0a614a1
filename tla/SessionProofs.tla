--------------------------- MODULE SessionProofs ---------------------------
(***************************************************************************)
(* The visitor's word, the server's answer and the work of the seat: what  *)
(* hashes was asked for, what was last asked for is what is wanted, what   *)
(* is not served is said, and what is hashed is what the pool would take.  *)
(* Proved for any number of listings, slots, jobs, timers and messages in  *)
(* flight.                                                                 *)
(***************************************************************************)
EXTENDS Session, TLAPS

-----------------------------------------------------------------------------
(* Types.                                                                  *)

PageOK ==
  /\ consented \in BOOLEAN /\ hashing \in BOOLEAN
  /\ want \in Listings \cup {None}
  /\ sock \in {"connecting", "open", "closed"}
  /\ status \in {"connected", "connecting"} \cup Errors
  /\ timers \in [Listings -> 0 .. MaxTimers]
  /\ job \in Work \cup {None}

WireOK == up \in Seq(UpMessages) /\ down \in Seq(DownMessages)

ServerOK ==
  /\ cooled \in BOOLEAN
  /\ seat \in Listings \cup {None} /\ heard \in Listings \cup {None}
  /\ rows \in SUBSET Listings
  /\ slot \in Slots \cup {None} /\ (slot = None <=> seat = None)
  /\ bad \in 0 .. MaxBadSubmits + 1

PoolOK ==
  /\ pool \in [up : BOOLEAN, jobs : SUBSET JobNumbers, current : JobNumbers \cup {None},
              diff : Difficulties]
  /\ issued \in 0 .. MaxJobs

LEMMA TypeParts == TypeOK <=> PageOK /\ WireOK /\ ServerOK /\ PoolOK
BY DEF TypeOK, PageOK, WireOK, ServerOK, PoolOK

LEMMA Messages ==
  /\ \A l \in Listings : Mine(l) \in UpMessages
  /\ [t |-> "stop"] \in UpMessages
  /\ \A w \in Errors : Refusal(w) \in DownMessages
  /\ \A m \in UpMessages : m.t = "mine" => m.listing \in Listings
  /\ \A m \in UpMessages : m.t = "share" => m.job \in JobNumbers
  /\ \A m \in DownMessages : m.t = "job" => m.work \in Work
  /\ \A m \in DownMessages : m.t = "error" => m.why \in Errors
BY DEF Mine, Refusal, UpMessages, DownMessages

LEMMA Sending ==
  ASSUME WireOK, NEW m
  PROVE  /\ m \in UpMessages => Sent(m) \in Seq(UpMessages)
         /\ m \in DownMessages => Told(m) \in Seq(DownMessages)
BY DEF WireOK, Sent, Told

LEMMA Giving ==
  ASSUME WireOK, NEW p, NEW s \in Slots \cup {None}, NEW l,
         p.current \in JobNumbers \cup {None}, p.diff \in Difficulties,
         l # None => s # None
  PROVE  Given(p, s, l) \in Seq(DownMessages)
<1>1. CASE l # None /\ p.current # None
  <2>1. JobFor(p, s) \in DownMessages
    BY <1>1 DEF JobFor, DownMessages, Work
  <2> QED BY <1>1, <2>1, Sending DEF Given
<1>2. CASE ~(l # None /\ p.current # None)
  BY <1>2 DEF Given, WireOK
<1> QED BY <1>1, <1>2

LEMMA Reading ==
  ASSUME WireOK
  PROVE  /\ up # <<>> => Head(up) \in UpMessages /\ Tail(up) \in Seq(UpMessages)
         /\ down # <<>> => Head(down) \in DownMessages /\ Tail(down) \in Seq(DownMessages)
BY DEF WireOK

LEMMA InitType == Init => TypeOK
<1> SUFFICES ASSUME Init PROVE TypeOK
  OBVIOUS
<1> USE SessionAssumption DEF Init
<1>1. PageOK
  <2>1. timers \in [Listings -> 0 .. MaxTimers]
    OBVIOUS
  <2>2. consented \in BOOLEAN /\ hashing \in BOOLEAN
    OBVIOUS
  <2> QED BY <2>1, <2>2 DEF PageOK
<1>2. WireOK
  BY DEF WireOK
<1>3. ServerOK
  BY DEF ServerOK
<1>4. PoolOK
  BY DEF PoolOK
<1> QED BY <1>1, <1>2, <1>3, <1>4, TypeParts

\* A handler of the page changes the page and what it sends.
LEMMA BrowserType ==
  ASSUME TypeOK, Visitor \/ Browser
  PROVE  PageOK' /\ WireOK' /\ ServerOK' /\ PoolOK'
<1>0. PageOK /\ WireOK /\ ServerOK /\ PoolOK
  BY TypeParts
<1> USE <1>0, SessionAssumption
<1>1. CASE Accept
  BY <1>1 DEF Accept, PageOK, WireOK, ServerOK, PoolOK, server
<1>2. ASSUME NEW l \in Listings, Press(l)
      PROVE  PageOK' /\ WireOK' /\ ServerOK' /\ PoolOK'
  <2>1. WireOK'
    BY <1>2, Messages, Sending DEF Press, WireOK
  <2> QED BY <1>2, <2>1 DEF Press, PageOK, ServerOK, PoolOK, server
<1>3. CASE Halt
  <2>1. WireOK'
    BY <1>3, Messages, Sending DEF Halt, WireOK
  <2> QED BY <1>3, <2>1 DEF Halt, PageOK, ServerOK, PoolOK, server
<1>4. CASE Reload
  <2>1. WireOK'
    BY <1>4 DEF Reload, WireOK
  <2>2. timers' \in [Listings -> 0 .. MaxTimers]
    BY <1>4 DEF Reload
  <2>3. consented' \in BOOLEAN /\ hashing' \in BOOLEAN
    BY <1>4 DEF Reload, PageOK
  <2>4. PageOK'
    BY <1>4, <2>2, <2>3 DEF Reload, PageOK
  <2> QED BY <1>4, <2>1, <2>4 DEF Reload, Unseated, ServerOK, PoolOK
<1>5. CASE Share
  <2>1. [t |-> "share", job |-> job.header[1]] \in UpMessages
    BY <1>5 DEF Share, PageOK, Work, UpMessages
  <2>2. WireOK'
    BY <1>5, <2>1, Sending DEF Share, WireOK
  <2> QED BY <1>5, <2>2 DEF Share, page, PageOK, ServerOK, PoolOK, server
<1>6. CASE Connect
  BY <1>6 DEF Connect, PageOK, WireOK, ServerOK, PoolOK, server
<1>7. CASE Open
  <2>1. WireOK'
    BY <1>7, Messages DEF Open, Resumed, WireOK, PageOK
  <2> QED BY <1>7, <2>1 DEF Open, PageOK, ServerOK, PoolOK, server
<1>8. CASE Receive
  <2>1. Head(down) \in DownMessages /\ down' = Tail(down) /\ down' \in Seq(DownMessages)
    BY <1>8, Reading DEF Receive
  <2>2. /\ UNCHANGED <<consented, want, sock, hashing, up, server, pool, issued>>
        /\ \/ /\ job' = job \/ (job' = Head(down).work /\ Head(down).t = "job")
              /\ UNCHANGED <<status, timers>>
           \/ /\ Head(down).t = "error" /\ status' = Head(down).why
              /\ Schedule(Head(down).why)
              /\ UNCHANGED job
    BY <1>8 DEF Receive
  <2>3. job' \in Work \cup {None} /\ status' \in {"connected", "connecting"} \cup Errors
    BY <2>1, <2>2, Messages DEF PageOK
  <2>4. ASSUME NEW why, Schedule(why)
        PROVE  timers' \in [Listings -> 0 .. MaxTimers]
    BY <2>4 DEF Schedule, PageOK
  <2>5. timers' \in [Listings -> 0 .. MaxTimers]
    BY <2>2, <2>4 DEF PageOK
  <2> QED BY <2>1, <2>2, <2>3, <2>5 DEF PageOK, WireOK, ServerOK, PoolOK, server
<1>9. ASSUME NEW l \in Listings, Retry(l)
      PROVE  PageOK' /\ WireOK' /\ ServerOK' /\ PoolOK'
  <2>1. WireOK'
    BY <1>9, Messages, Sending DEF Retry, WireOK
  <2>2. timers' \in [Listings -> 0 .. MaxTimers]
    BY <1>9 DEF Retry, PageOK
  <2> QED BY <1>9, <2>1, <2>2 DEF Retry, PageOK, ServerOK, PoolOK, server
<1> QED BY <1>1, <1>2, <1>3, <1>4, <1>5, <1>6, <1>7, <1>8, <1>9 DEF Visitor, Browser

\* The server changes what it knows and what it answers.
LEMMA ServerType ==
  ASSUME TypeOK, Lose \/ Handle \/ CooldownEnds \/ \E l \in Listings : Takedown(l)
  PROVE  PageOK' /\ WireOK' /\ ServerOK' /\ PoolOK'
<1>0. PageOK /\ WireOK /\ ServerOK /\ PoolOK
  BY TypeParts
<1> USE <1>0, SessionAssumption
<1>1. CASE Lose
  BY <1>1 DEF Lose, Unseated, PageOK, WireOK, ServerOK, PoolOK
<1>2. CASE TooSoon \/ NoSuchListing \/ TurnedAway \/ Seated
  <2>1. Asks /\ UNCHANGED <<page, pool, issued>>
    BY <1>2 DEF TooSoon, NoSuchListing, TurnedAway, Seated
  <2>2. up' \in Seq(UpMessages) /\ heard' = Asked /\ Asked \in Listings
    BY <2>1, Reading, Messages DEF Asks, Handles, Asked
  <2>3. PageOK' /\ PoolOK'
    BY <2>1 DEF page, PageOK, PoolOK
  <2>4. CASE ~Seated
    <3>1. WireOK'
      BY <1>2, <2>2, <2>4, Messages, Sending DEF TooSoon, NoSuchListing, TurnedAway, WireOK, Errors
    <3>2. cooled' \in BOOLEAN
      BY <1>2, <2>4 DEF TooSoon, NoSuchListing, TurnedAway, ServerOK
    <3>3. ServerOK'
      BY <1>2, <2>2, <2>4, <3>2 DEF TooSoon, NoSuchListing, TurnedAway, Unseated, ServerOK
    <3> QED BY <2>3, <3>1, <3>3
  <2>5. CASE Seated
    <3>1. slot' \in Slots /\ seat' \in Listings /\ down' = Given(pool, slot', seat')
      BY <2>2, <2>5 DEF Seated
    <3>2. WireOK'
      BY <2>2, <3>1, Giving DEF WireOK, PoolOK
    <3>3. cooled' \in BOOLEAN
      BY <2>5 DEF Seated
    <3>4. ServerOK'
      BY <2>2, <2>5, <3>1, <3>3 DEF Seated, ServerOK
    <3> QED BY <2>3, <3>2, <3>4
  <2> QED BY <2>4, <2>5
<1>3. CASE StopMining \/ DropShare \/ Forward \/ CutOff
  <2>1. UNCHANGED <<page, pool, issued>> /\ up' \in Seq(UpMessages)
    BY <1>3, Reading DEF StopMining, DropShare, Forward, CutOff, Handles
  <2>2. WireOK'
    BY <1>3, <2>1, Messages, Sending DEF StopMining, DropShare, Forward, CutOff, WireOK, Errors
  <2>3. ServerOK'
    BY <1>3 DEF StopMining, DropShare, Forward, CutOff, Unseated, ServerOK, server
  <2> QED BY <2>1, <2>2, <2>3 DEF page, PageOK, PoolOK
<1>4. CASE CooldownEnds
  BY <1>4 DEF CooldownEnds, page, PageOK, WireOK, ServerOK, PoolOK
<1>5. ASSUME NEW l \in Listings, Takedown(l)
      PROVE  PageOK' /\ WireOK' /\ ServerOK' /\ PoolOK'
  <2>1. WireOK'
    BY <1>5, Messages, Sending DEF Takedown, WireOK, Errors
  <2>2. ServerOK'
    BY <1>5 DEF Takedown, Unseated, ServerOK
  <2> QED BY <1>5, <2>1, <2>2 DEF Takedown, page, PageOK, PoolOK
<1> QED BY <1>1, <1>2, <1>3, <1>4, <1>5 DEF Handle

LEMMA PoolType ==
  ASSUME TypeOK, PoolEvent
  PROVE  PageOK' /\ WireOK' /\ ServerOK' /\ PoolOK'
<1>0. PageOK /\ WireOK /\ ServerOK /\ PoolOK
  BY TypeParts
<1> USE <1>0, SessionAssumption
<1>1. CASE PoolAccepts
  BY <1>1 DEF PoolAccepts, page, PageOK, WireOK, ServerOK, PoolOK
<1>2. CASE Subscribed
  BY <1>2 DEF Subscribed, page, server, PageOK, WireOK, ServerOK, PoolOK
<1>3. CASE Disconnected
  <2>1. WireOK'
    BY <1>3, Messages, Sending DEF Disconnected, WireOK, Errors
  <2> QED BY <1>3, <2>1 DEF Disconnected, page, server, PageOK, ServerOK, PoolOK
<1>4. CASE NewJob
  <2>1. PoolOK'
    <3>1. issued' \in 0 .. MaxJobs /\ issued' \in JobNumbers
      BY <1>4 DEF NewJob, PoolOK, JobNumbers
    <3>2. {j \in pool.jobs \cup {issued'} : j > issued' - JobHistory} \in SUBSET JobNumbers
      BY <3>1 DEF PoolOK
    <3> QED BY <1>4, <3>1, <3>2 DEF NewJob, PoolOK
  <2>2. WireOK'
    BY <1>4, <2>1, Giving DEF NewJob, WireOK, ServerOK, PoolOK
  <2> QED BY <1>4, <2>1, <2>2 DEF NewJob, page, server, PageOK, ServerOK
<1>5. ASSUME NEW d \in Difficulties, NewDifficulty(d)
      PROVE  PageOK' /\ WireOK' /\ ServerOK' /\ PoolOK'
  <2>1. PoolOK'
    BY <1>5 DEF NewDifficulty, PoolOK
  <2>2. WireOK'
    BY <1>5, <2>1, Giving DEF NewDifficulty, WireOK, ServerOK, PoolOK
  <2> QED BY <1>5, <2>1, <2>2 DEF NewDifficulty, page, server, PageOK, ServerOK
<1> QED BY <1>1, <1>2, <1>3, <1>4, <1>5 DEF PoolEvent

LEMMA NextType ==
  ASSUME TypeOK, [Next]_vars
  PROVE  TypeOK'
<1>1. CASE UNCHANGED vars
  BY <1>1 DEF vars, page, server, TypeOK
<1>2. TypeOK' <=> PageOK' /\ WireOK' /\ ServerOK' /\ PoolOK'
  BY DEF TypeOK, PageOK, WireOK, ServerOK, PoolOK
<1> QED BY <1>1, <1>2, BrowserType, ServerType, PoolType DEF Next

-----------------------------------------------------------------------------
(* Nothing hashes unasked.                                                 *)

\* Nothing but the visitor's own steps touches what this is about.
LEMMA AskedFrame ==
  ASSUME [Next]_vars
  PROVE  \/ Accept \/ Halt \/ Reload \/ \E l \in Listings : Press(l)
         \/ UNCHANGED <<consented, want, hashing>>
<1>1. CASE Share \/ Connect \/ Open \/ Receive \/ (\E l \in Listings : Retry(l)) \/ Lose
  BY <1>1 DEF Share, Connect, Open, Receive, Retry, Lose, page
<1>2. CASE Handle \/ CooldownEnds \/ \E l \in Listings : Takedown(l)
  BY <1>2 DEF Handle, TooSoon, NoSuchListing, TurnedAway, Seated, StopMining, DropShare, Forward,
     CutOff, CooldownEnds, Takedown, page
<1>3. CASE PoolEvent
  BY <1>3 DEF PoolEvent, PoolAccepts, Subscribed, Disconnected, NewJob, NewDifficulty, page
<1>4. CASE UNCHANGED vars
  BY <1>4 DEF vars, page
<1> QED BY <1>1, <1>2, <1>3, <1>4 DEF Next, Visitor, Browser

\* Stronger than what it shows: a listing is wanted only after the banner.
AskedIInv == TypeOK /\ (hashing <=> want # None) /\ (want # None => consented)

LEMMA NextAsked ==
  ASSUME AskedIInv, [Next]_vars
  PROVE  AskedIInv'
<1>0. TypeOK' /\ (hashing <=> want # None) /\ (want # None => consented)
  BY NextType DEF AskedIInv
<1>1. CASE Accept
  BY <1>0, <1>1 DEF Accept, AskedIInv
<1>2. CASE Halt \/ Reload
  BY <1>0, <1>2 DEF Halt, Reload, AskedIInv
<1>3. ASSUME NEW l \in Listings, Press(l)
      PROVE  AskedIInv'
  BY <1>0, <1>3, SessionAssumption DEF Press, AskedIInv
<1>4. CASE UNCHANGED <<consented, want, hashing>>
  BY <1>0, <1>4 DEF AskedIInv
<1> QED BY <1>1, <1>2, <1>3, <1>4, AskedFrame

LEMMA AskedHolds == Spec => []AskedIInv
<1>1. Init => AskedIInv
  BY InitType DEF Init, AskedIInv
<1>2. AskedIInv /\ [Next]_vars => AskedIInv'
  BY NextAsked
<1> QED BY <1>1, <1>2, PTL DEF Spec

\* Workers hash exactly while the visitor has accepted the banner and wants a
\* listing mined, whatever sockets, timers and the server do.
THEOREM NothingEverMinesUnasked == Spec => []NothingMinesUnasked
<1>1. AskedIInv => NothingMinesUnasked
  BY DEF AskedIInv, NothingMinesUnasked
<1> QED BY <1>1, AskedHolds, PTL

-----------------------------------------------------------------------------
(* The last word.                                                          *)

IntentsOf(u) == {i \in DOMAIN u : u[i].t \in {"mine", "stop"}}

\* What someone who was asked for h comes to be asked for by reading u.
Says(u, h, l) ==
  IF IntentsOf(u) = {} THEN h = l
  ELSE \E i \in IntentsOf(u) : (\A k \in IntentsOf(u) : k <= i) /\ Intent(u[i]) = l

LEMMA SaysWhatIsNew ==
  ASSUME NEW u \in Seq(UpMessages), NEW m \in UpMessages, m.t \in {"mine", "stop"}, NEW h
  PROVE  Says(Append(u, m), h, Intent(m))
<1> DEFINE v == Append(u, m)  n == Len(u) + 1
<1>1. n \in DOMAIN v /\ v[n] = m /\ \A k \in DOMAIN v : k <= n
  OBVIOUS
<1>2. n \in IntentsOf(v) /\ \A k \in IntentsOf(v) : k <= n
  BY <1>1 DEF IntentsOf
<1> QED BY <1>1, <1>2 DEF Says

LEMMA SharesSayNothing ==
  ASSUME NEW u \in Seq(UpMessages), NEW m \in UpMessages, m.t = "share", NEW h, NEW l, Says(u, h, l)
  PROVE  Says(Append(u, m), h, l)
<1> DEFINE v == Append(u, m)
<1>1. \A i \in DOMAIN v : (i \in DOMAIN u /\ v[i] = u[i]) \/ v[i] = m
  OBVIOUS
<1>2. \A i \in DOMAIN u : i \in DOMAIN v /\ v[i] = u[i]
  OBVIOUS
<1>3. IntentsOf(v) = IntentsOf(u)
  BY <1>1, <1>2 DEF IntentsOf
<1>4. \A i \in IntentsOf(u) : v[i] = u[i]
  BY <1>2 DEF IntentsOf
<1> QED BY <1>3, <1>4 DEF Says

LEMMA ReadingKeepsTheWord ==
  ASSUME NEW u \in Seq(UpMessages), u # <<>>, NEW h, NEW l, Says(u, h, l)
  PROVE  Says(Tail(u), IF Head(u).t = "share" THEN h ELSE Intent(Head(u)), l)
<1> DEFINE v == Tail(u)
           g == IF Head(u).t = "share" THEN h ELSE Intent(Head(u))
<1>1. /\ DOMAIN v = 1 .. Len(u) - 1 /\ DOMAIN u = 1 .. Len(u) /\ Len(u) \in Nat \ {0}
      /\ \A i \in DOMAIN v : v[i] = u[i + 1]
      /\ Head(u) = u[1] /\ u[1] \in UpMessages
  OBVIOUS
<1>2. u[1].t \in {"mine", "stop", "share"}
  BY <1>1 DEF UpMessages
<1>3. \A i \in IntentsOf(v) : i + 1 \in IntentsOf(u)
  BY <1>1 DEF IntentsOf
<1>4. \A i \in IntentsOf(u) : i # 1 => i - 1 \in IntentsOf(v) /\ v[i - 1] = u[i]
  BY <1>1 DEF IntentsOf
<1>5. CASE IntentsOf(v) = {}
  <2>1. \A i \in IntentsOf(u) : i = 1
    BY <1>4, <1>5
  <2>2. CASE u[1].t = "share"
    <3>1. IntentsOf(u) = {}
      BY <2>1, <2>2 DEF IntentsOf
    <3> QED BY <1>1, <1>5, <2>2, <3>1 DEF Says
  <2>3. CASE u[1].t # "share"
    <3>1. 1 \in IntentsOf(u)
      BY <1>1, <1>2, <2>3 DEF IntentsOf
    <3>2. Intent(u[1]) = l
      BY <2>1, <3>1 DEF Says
    <3> QED BY <1>1, <1>5, <2>3, <3>2 DEF Says
  <2> QED BY <2>2, <2>3
<1>6. CASE IntentsOf(v) # {}
  <2>1. IntentsOf(u) # {}
    BY <1>3, <1>6
  <2>2. PICK i \in IntentsOf(u) : (\A k \in IntentsOf(u) : k <= i) /\ Intent(u[i]) = l
    BY <2>1 DEF Says
  <2>3. i # 1
    <3>1. PICK k \in IntentsOf(v) : TRUE
      BY <1>6
    <3>2. k \in Nat \ {0} /\ k + 1 <= i
      BY <1>1, <1>3, <2>2 DEF IntentsOf
    <3> QED BY <3>2
  <2>4. i - 1 \in IntentsOf(v) /\ v[i - 1] = u[i]
    BY <1>4, <2>3
  <2>5. \A k \in IntentsOf(v) : k \in Nat /\ k + 1 <= i
    BY <1>1, <1>3, <2>2 DEF IntentsOf
  <2>6. i \in Nat
    BY <1>1 DEF IntentsOf
  <2>7. \A k \in IntentsOf(v) : k <= i - 1
    BY <2>5, <2>6
  <2> QED BY <1>6, <2>2, <2>4, <2>7 DEF Says
<1> QED BY <1>5, <1>6

\* The word of an open socket, and nothing at all on any other.
WordOK ==
  /\ sock # "open" => up = <<>> /\ heard = None
  /\ sock = "open" => Says(up, heard, want)

WordIInv == TypeOK /\ WordOK

LEMMA BrowserKeepsWord ==
  ASSUME WordIInv, Visitor \/ Browser \/ Lose
  PROVE  WordOK'
<1>0. /\ up \in Seq(UpMessages) /\ want \in Listings \cup {None} /\ WordOK
      /\ sock \in {"connecting", "open", "closed"}
  BY DEF WordIInv, TypeOK
<1> USE <1>0
<1>1. CASE Accept \/ Receive
  BY <1>1 DEF Accept, Receive, server, WordOK
<1>2. ASSUME NEW l \in Listings, Press(l)
      PROVE  WordOK'
  <2>1. want' = l /\ up' = Sent(Mine(l)) /\ UNCHANGED <<sock, heard>>
    BY <1>2 DEF Press, server
  <2>2. Mine(l) \in UpMessages /\ Mine(l).t = "mine" /\ Intent(Mine(l)) = l
    BY Messages DEF Mine, Intent
  <2>3. Says(Append(up, Mine(l)), heard, l)
    BY <2>2, SaysWhatIsNew
  <2> QED BY <2>1, <2>3 DEF Sent, WordOK
<1>3. CASE Halt
  <2> DEFINE m == [t |-> "stop"]
  <2>1. want' = None /\ up' = Sent(m) /\ UNCHANGED <<sock, heard>>
    BY <1>3 DEF Halt, server
  <2>2. m \in UpMessages /\ m.t = "stop" /\ Intent(m) = None
    BY Messages DEF Intent
  <2>3. Says(Append(up, m), heard, None)
    BY <2>2, SaysWhatIsNew
  <2> QED BY <2>1, <2>3 DEF Sent, WordOK
<1>4. CASE Reload \/ Lose
  BY <1>4 DEF Reload, Lose, WordOK
<1>5. CASE Share
  <2> DEFINE m == [t |-> "share", job |-> job.header[1]]
  <2>1. sock = "open" /\ up' = Append(up, m) /\ UNCHANGED <<want, sock, heard>>
    BY <1>5 DEF Share, Sent, page, server
  <2>2. m \in UpMessages /\ m.t = "share"
    BY <1>5 DEF Share, WordIInv, TypeOK, Work, UpMessages
  <2>3. Says(Append(up, m), heard, want)
    BY <2>1, <2>2, SharesSayNothing DEF WordOK
  <2> QED BY <2>1, <2>3 DEF WordOK
<1>6. CASE Connect
  BY <1>6 DEF Connect, server, WordOK
<1>7. CASE Open
  <2>1. up = <<>> /\ heard = None /\ heard' = None /\ want' = want /\ up' = Resumed /\ sock' = "open"
    BY <1>7 DEF Open, server, WordOK
  <2>2. CASE want = None
    BY <2>1, <2>2 DEF Resumed, WordOK, Says, IntentsOf
  <2>3. CASE want # None
    <3>1. Mine(want) \in UpMessages /\ Mine(want).t = "mine" /\ Intent(Mine(want)) = want
      BY <2>3, Messages DEF Mine, Intent
    <3>2. Says(Append(up, Mine(want)), heard, want)
      BY <3>1, SaysWhatIsNew
    <3>3. up' = Append(up, Mine(want))
      BY <2>1, <2>3 DEF Resumed
    <3> QED BY <2>1, <3>2, <3>3 DEF WordOK
  <2> QED BY <2>2, <2>3
<1>8. ASSUME NEW l \in Listings, Retry(l)
      PROVE  WordOK'
  <2>1. UNCHANGED <<want, sock, heard>> /\ up' = IF want = l THEN Sent(Mine(l)) ELSE up
    BY <1>8 DEF Retry, server
  <2>2. Mine(l) \in UpMessages /\ Mine(l).t = "mine" /\ Intent(Mine(l)) = l
    BY Messages DEF Mine, Intent
  <2>3. Says(Append(up, Mine(l)), heard, l)
    BY <2>2, SaysWhatIsNew
  <2> QED BY <2>1, <2>3 DEF Sent, WordOK
<1> QED BY <1>1, <1>2, <1>3, <1>4, <1>5, <1>6, <1>7, <1>8 DEF Visitor, Browser

\* What the server reads next is what it was last asked for.
LEMMA HandlersRead ==
  ASSUME TypeOK, Handle
  PROVE  /\ up # <<>> /\ up' = Tail(up) /\ UNCHANGED <<want, sock>>
         /\ heard' = IF Head(up).t = "share" THEN heard ELSE Intent(Head(up))
<1>1. CASE TooSoon \/ NoSuchListing \/ TurnedAway \/ Seated
  <2>1. Asks /\ UNCHANGED page
    BY <1>1 DEF TooSoon, NoSuchListing, TurnedAway, Seated
  <2> QED BY <2>1 DEF Asks, Handles, page, Intent
<1>2. CASE StopMining
  BY <1>2 DEF StopMining, Handles, page, Intent
<1>3. CASE DropShare \/ Forward \/ CutOff
  <2>1. Handles("share") /\ UNCHANGED <<page, heard>>
    BY <1>3 DEF DropShare, Forward, CutOff, server
  <2> QED BY <2>1 DEF Handles, page
<1> QED BY <1>1, <1>2, <1>3 DEF Handle

LEMMA NextWord ==
  ASSUME WordIInv, [Next]_vars
  PROVE  WordIInv'
<1>0. TypeOK' /\ (WordOK' => WordIInv')
  BY NextType DEF WordIInv
<1>1. CASE Visitor \/ Browser \/ Lose
  BY <1>0, <1>1, BrowserKeepsWord
<1>2. CASE Handle
  <2>1. /\ up # <<>> /\ up' = Tail(up) /\ UNCHANGED <<want, sock>>
        /\ heard' = IF Head(up).t = "share" THEN heard ELSE Intent(Head(up))
    BY <1>2, HandlersRead DEF WordIInv
  <2>2. up \in Seq(UpMessages) /\ sock = "open" /\ Says(up, heard, want)
    BY <2>1 DEF WordIInv, WordOK, TypeOK
  <2>3. Says(Tail(up), IF Head(up).t = "share" THEN heard ELSE Intent(Head(up)), want)
    BY <2>1, <2>2, ReadingKeepsTheWord
  <2> QED BY <1>0, <2>1, <2>2, <2>3 DEF WordOK
<1>3. CASE CooldownEnds \/ (\E l \in Listings : Takedown(l)) \/ PoolEvent \/ UNCHANGED vars
  <2>1. UNCHANGED <<want, sock, up, heard>>
    BY <1>3 DEF CooldownEnds, Takedown, PoolEvent, PoolAccepts, Subscribed, Disconnected, NewJob,
       NewDifficulty, vars, page, server
  <2> QED BY <1>0, <2>1 DEF WordIInv, WordOK
<1> QED BY <1>1, <1>2, <1>3 DEF Next

\* The last word an open socket carries is what the visitor wants, for any
\* listings, limits and lengths of the queues.
THEOREM LastWordIsAlwaysTheWish == Spec => []LastWordIsTheWish
<1>1. Init => WordIInv
  BY InitType DEF Init, WordIInv, WordOK
<1>2. WordIInv /\ [Next]_vars => WordIInv'
  BY NextWord
<1>3. WordIInv => LastWordIsTheWish
  BY DEF WordIInv, WordOK, LastWordIsTheWish, LastWord, Says, Intents, IntentsOf
<1> QED BY <1>1, <1>2, <1>3, PTL DEF Spec
-----------------------------------------------------------------------------
(* What the page is told.                                                  *)

ErrorIn(d) == \E i \in DOMAIN d : d[i].t = "error"

\* The panel says what is wrong, or is about to.
Troubled == status \in Errors \/ ErrorIn(down)

\* Nobody has a seat without a socket, or without having asked for it; a seat
\* that is not what was asked for is trouble the page hears of.
SeatOK ==
  /\ sock # "open" => seat = None /\ down = <<>>
  /\ heard = None => seat = None
  /\ seat # heard => Troubled

ToldIInv == WordIInv /\ SeatOK

LEMMA ErrorsArePassedOn ==
  ASSUME NEW d \in Seq(DownMessages), NEW m \in DownMessages
  PROVE  /\ ErrorIn(d) => ErrorIn(Append(d, m))
         /\ m.t = "error" => ErrorIn(Append(d, m))
<1> DEFINE v == Append(d, m)  n == Len(d) + 1
<1>1. \A i \in DOMAIN d : i \in DOMAIN v /\ v[i] = d[i]
  OBVIOUS
<1>2. n \in DOMAIN v /\ v[n] = m
  OBVIOUS
<1> QED BY <1>1, <1>2 DEF ErrorIn

LEMMA ErrorsAreRead ==
  ASSUME NEW d \in Seq(DownMessages), d # <<>>, ErrorIn(d)
  PROVE  Head(d).t = "error" \/ ErrorIn(Tail(d))
<1>1. PICK i \in DOMAIN d : d[i].t = "error"
  BY DEF ErrorIn
<1>2. CASE i = 1
  BY <1>1, <1>2
<1>3. CASE i # 1
  <2>1. i - 1 \in DOMAIN Tail(d) /\ Tail(d)[i - 1] = d[i]
    BY <1>3
  <2> QED BY <1>1, <2>1 DEF ErrorIn
<1> QED BY <1>2, <1>3

\* What the server sends an open socket adds to its line, and takes nothing off.
LEMMA TellingKeepsTrouble ==
  ASSUME TypeOK, NEW m \in DownMessages, UNCHANGED status, down' = Told(m)
  PROVE  /\ Troubled => Troubled'
         /\ sock = "open" /\ m.t = "error" => Troubled'
<1>1. down \in Seq(DownMessages)
  BY DEF TypeOK
<1>2. ErrorIn(down) => ErrorIn(down')
  BY <1>1, ErrorsArePassedOn DEF Told
<1>3. sock = "open" /\ m.t = "error" => ErrorIn(down')
  BY <1>1, ErrorsArePassedOn DEF Told
<1> QED BY <1>2, <1>3 DEF Troubled

LEMMA GivingKeepsTrouble ==
  ASSUME TypeOK, UNCHANGED status, NEW p, NEW s \in Slots \cup {None}, NEW l,
         p.current \in JobNumbers \cup {None}, p.diff \in Difficulties,
         l # None => s # None, down' = Given(p, s, l), Troubled
  PROVE  Troubled'
<1>1. CASE l # None /\ p.current # None
  <2>1. JobFor(p, s) \in DownMessages
    BY <1>1 DEF JobFor, DownMessages, Work
  <2>2. down' = Told(JobFor(p, s))
    BY <1>1 DEF Given
  <2> QED BY <2>1, <2>2, TellingKeepsTrouble
<1>2. CASE ~(l # None /\ p.current # None)
  BY <1>2 DEF Given, Troubled
<1> QED BY <1>1, <1>2

LEMMA BrowserKeepsSeat ==
  ASSUME ToldIInv, Visitor \/ Browser \/ Lose
  PROVE  SeatOK'
<1>0. TypeOK /\ WordOK /\ SeatOK /\ sock \in {"connecting", "open", "closed"}
  BY DEF ToldIInv, WordIInv, TypeOK
<1> USE <1>0
<1>1. CASE Accept \/ Halt \/ Share \/ (\E l \in Listings : Press(l) \/ Retry(l))
  BY <1>1 DEF Accept, Halt, Share, Press, Retry, page, server, SeatOK, Troubled
<1>2. CASE Reload \/ Lose
  BY <1>2 DEF Reload, Lose, Unseated, SeatOK
<1>3. CASE Connect
  BY <1>3 DEF Connect, server, SeatOK, Troubled
<1>4. CASE Open
  BY <1>4 DEF Open, server, SeatOK, WordOK
<1>5. CASE Receive
  <2>1. /\ down # <<>> /\ down' = Tail(down) /\ UNCHANGED <<sock, seat, heard>>
        /\ \/ Head(down).t = "job" /\ UNCHANGED status
           \/ Head(down).t = "error" /\ status' = Head(down).why
    BY <1>5 DEF Receive, server
  <2>2. down \in Seq(DownMessages) /\ Head(down) \in DownMessages
    BY <2>1, Reading DEF TypeOK, WireOK
  <2>3. Troubled => Troubled'
    <3>1. CASE Head(down).t = "error"
      BY <2>1, <2>2, <3>1, Messages DEF Troubled
    <3>2. CASE Head(down).t # "error"
      BY <2>1, <2>2, <3>2, ErrorsAreRead DEF Troubled
    <3> QED BY <3>1, <3>2
  <2> QED BY <2>1, <2>3 DEF SeatOK
<1> QED BY <1>1, <1>2, <1>3, <1>4, <1>5 DEF Visitor, Browser

LEMMA HandlersKeepSeat ==
  ASSUME ToldIInv, Handle
  PROVE  SeatOK'
<1>0. TypeOK /\ WordOK /\ SeatOK /\ ServerOK /\ PoolOK
  BY TypeParts DEF ToldIInv, WordIInv
<1>1. sock = "open" /\ sock' = "open" /\ status' = status
  <2>1. up # <<>> /\ UNCHANGED page
    BY <1>0, HandlersRead DEF Handle, TooSoon, NoSuchListing, TurnedAway, Seated, StopMining, DropShare,
       Forward, CutOff
  <2> QED BY <1>0, <2>1 DEF WordOK, page
<1>2. Refusal("refused") \in DownMessages /\ Refusal("retry") \in DownMessages
  BY Messages DEF Errors
<1>3. Refusal("refused").t = "error" /\ Refusal("retry").t = "error"
  BY DEF Refusal
<1>4. CASE TooSoon \/ NoSuchListing \/ TurnedAway
  <2>1. Asks /\ (down' = Told(Refusal("refused")) \/ down' = Told(Refusal("retry")))
    BY <1>4 DEF TooSoon, NoSuchListing, TurnedAway
  <2>2. heard' \in Listings
    BY <1>0, <2>1, Reading, Messages DEF Asks, Handles, TypeOK, WireOK
  <2>3. Troubled'
    BY <1>0, <1>1, <1>2, <1>3, <2>1, TellingKeepsTrouble
  <2> QED BY <1>1, <2>2, <2>3, SessionAssumption DEF SeatOK
<1>5. CASE Seated
  <2>1. seat' = heard'
    BY <1>5 DEF Seated, Asks, Asked
  <2> QED BY <1>1, <2>1 DEF SeatOK
<1>6. CASE StopMining
  BY <1>1, <1>6 DEF StopMining, Unseated, SeatOK
<1>7. CASE DropShare \/ Forward
  BY <1>0, <1>1, <1>7 DEF DropShare, Forward, server, SeatOK, Troubled
<1>8. CASE CutOff
  <2>1. Troubled'
    BY <1>0, <1>1, <1>2, <1>3, <1>8, TellingKeepsTrouble DEF CutOff
  <2> QED BY <1>1, <1>8, <2>1 DEF CutOff, Unseated, SeatOK
<1> QED BY <1>4, <1>5, <1>6, <1>7, <1>8 DEF Handle

LEMMA PoolKeepsSeat ==
  ASSUME ToldIInv, CooldownEnds \/ (\E l \in Listings : Takedown(l)) \/ PoolEvent \/ UNCHANGED vars
  PROVE  SeatOK'
<1>0. TypeOK /\ SeatOK /\ ServerOK /\ PoolOK
  BY TypeParts DEF ToldIInv, WordIInv
<1>1. UNCHANGED <<sock, status, heard>>
  BY DEF CooldownEnds, Takedown, PoolEvent, PoolAccepts, Subscribed, Disconnected, NewJob,
     NewDifficulty, vars, page, server
<1>2. Refusal("refused") \in DownMessages /\ Refusal("pool") \in DownMessages
  BY Messages DEF Errors
<1>3. Refusal("refused").t = "error"
  BY DEF Refusal
<1>4. CASE CooldownEnds \/ PoolAccepts \/ Subscribed \/ UNCHANGED vars
  BY <1>0, <1>4 DEF CooldownEnds, PoolAccepts, Subscribed, vars, page, server, SeatOK, Troubled
<1>5. ASSUME NEW l \in Listings, Takedown(l)
      PROVE  SeatOK'
  <2>1. CASE seat = l
    <3>1. sock = "open"
      BY <1>0, <2>1, SessionAssumption DEF SeatOK
    <3>2. Troubled'
      BY <1>0, <1>1, <1>2, <1>3, <1>5, <2>1, <3>1, TellingKeepsTrouble DEF Takedown
    <3> QED BY <1>1, <1>5, <2>1, <3>1, <3>2 DEF Takedown, Unseated, SeatOK
  <2>2. CASE seat # l
    BY <1>0, <1>1, <1>5, <2>2 DEF Takedown, SeatOK, Troubled
  <2> QED BY <2>1, <2>2
<1>6. CASE Disconnected
  <2>1. Troubled => Troubled'
    BY <1>0, <1>1, <1>2, <1>6, TellingKeepsTrouble DEF Disconnected, Troubled
  <2> QED BY <1>0, <1>1, <1>6, <2>1 DEF Disconnected, Told, server, SeatOK
<1>7. CASE NewJob \/ \E d \in Difficulties : NewDifficulty(d)
  <2>1. PoolOK'
    BY <1>7, PoolType DEF PoolEvent, ToldIInv, WordIInv
  <2>2. down' = Given(pool', slot, seat) /\ UNCHANGED server
    BY <1>7 DEF NewJob, NewDifficulty
  <2>3. Troubled => Troubled'
    BY <1>0, <1>1, <2>1, <2>2, GivingKeepsTrouble DEF ServerOK, PoolOK
  <2>4. sock # "open" => down' = <<>>
    BY <1>0, <2>2 DEF Given, Told, SeatOK
  <2> QED BY <1>0, <1>1, <2>2, <2>3, <2>4 DEF server, SeatOK
<1> QED BY <1>4, <1>5, <1>6, <1>7 DEF PoolEvent

LEMMA NextTold ==
  ASSUME ToldIInv, [Next]_vars
  PROVE  ToldIInv'
<1>1. WordIInv'
  BY NextWord DEF ToldIInv
<1> QED BY <1>1, BrowserKeepsSeat, HandlersKeepSeat, PoolKeepsSeat DEF Next, ToldIInv

LEMMA ToldHolds == Spec => []ToldIInv
<1>1. Init => ToldIInv
  BY InitType DEF Init, ToldIInv, WordIInv, WordOK, SeatOK
<1>2. ToldIInv /\ [Next]_vars => ToldIInv'
  BY NextTold
<1> QED BY <1>1, <1>2, PTL DEF Spec

\* Once every word is read and every answer shown, the seat is the one the page
\* shows or the page says why not, and who wants nothing has no seat: for any
\* listings, limits and lengths of the queues.
THEOREM TheVisitorIsAlwaysTold == Spec => []TheVisitorIsTold
<1>1. ASSUME ToldIInv
      PROVE  TheVisitorIsTold
  <2> SUFFICES ASSUME Settled, seat # want
               PROVE  want # None /\ status \in Errors
    BY DEF TheVisitorIsTold
  <2>1. heard = want
    BY <1>1 DEF ToldIInv, WordIInv, WordOK, Says, Settled, Intents, IntentsOf
  <2>2. ~ErrorIn(down)
    BY DEF Settled, ErrorIn
  <2> QED BY <1>1, <2>1, <2>2 DEF ToldIInv, SeatOK, Troubled
<1> QED BY <1>1, ToldHolds, PTL
-----------------------------------------------------------------------------
(* The work of the seat.                                                   *)

JobsIn(d) == {i \in DOMAIN d : d[i].t = "job"}

\* Who holds work j comes to hold work of header h by reading d.
Brings(d, j, h) ==
  IF JobsIn(d) = {} THEN j # None /\ j.header = h
  ELSE \E i \in JobsIn(d) : (\A k \in JobsIn(d) : k <= i) /\ d[i].work.header = h

\* A seated browser is on its seat's work, or that is the newest on its way.
WorkOK == seat # None /\ pool.current # None => Brings(down, job, <<pool.current, slot>>)

WorkIInv == ToldIInv /\ WorkOK

LEMMA BringsWhatIsNew ==
  ASSUME NEW d \in Seq(DownMessages), NEW m \in DownMessages, m.t = "job", NEW j
  PROVE  Brings(Append(d, m), j, m.work.header)
<1> DEFINE v == Append(d, m)  n == Len(d) + 1
<1>1. n \in DOMAIN v /\ v[n] = m /\ \A k \in DOMAIN v : k <= n
  OBVIOUS
<1>2. n \in JobsIn(v) /\ \A k \in JobsIn(v) : k <= n
  BY <1>1 DEF JobsIn
<1> QED BY <1>1, <1>2 DEF Brings

LEMMA ErrorsBringNothing ==
  ASSUME NEW d \in Seq(DownMessages), NEW m \in DownMessages, m.t = "error",
         NEW j, NEW h, Brings(d, j, h)
  PROVE  Brings(Append(d, m), j, h)
<1> DEFINE v == Append(d, m)
<1>1. \A i \in DOMAIN v : (i \in DOMAIN d /\ v[i] = d[i]) \/ v[i] = m
  OBVIOUS
<1>2. \A i \in DOMAIN d : i \in DOMAIN v /\ v[i] = d[i]
  OBVIOUS
<1>3. JobsIn(v) = JobsIn(d)
  BY <1>1, <1>2 DEF JobsIn
<1>4. \A i \in JobsIn(d) : v[i] = d[i]
  BY <1>2 DEF JobsIn
<1> QED BY <1>3, <1>4 DEF Brings

\* k is what the reader holds once it has read the head of the line.
LEMMA ReadingKeepsTheWork ==
  ASSUME NEW d \in Seq(DownMessages), d # <<>>, NEW j, NEW k, NEW h, Brings(d, j, h),
         Head(d).t = "job" => k # None /\ k.header = Head(d).work.header,
         Head(d).t = "error" => k = j
  PROVE  Brings(Tail(d), k, h)
<1> DEFINE v == Tail(d)
<1>1. /\ DOMAIN v = 1 .. Len(d) - 1 /\ DOMAIN d = 1 .. Len(d) /\ Len(d) \in Nat \ {0}
      /\ \A i \in DOMAIN v : v[i] = d[i + 1]
      /\ Head(d) = d[1] /\ d[1] \in DownMessages
  OBVIOUS
<1>2. d[1].t \in {"job", "error"}
  BY <1>1 DEF DownMessages
<1>3. \A i \in JobsIn(v) : i + 1 \in JobsIn(d)
  BY <1>1 DEF JobsIn
<1>4. \A i \in JobsIn(d) : i # 1 => i - 1 \in JobsIn(v) /\ v[i - 1] = d[i]
  BY <1>1 DEF JobsIn
<1>5. CASE JobsIn(v) = {}
  <2>1. \A i \in JobsIn(d) : i = 1
    BY <1>4, <1>5
  <2>2. CASE d[1].t = "error"
    <3>1. JobsIn(d) = {}
      BY <2>1, <2>2 DEF JobsIn
    <3> QED BY <1>1, <1>5, <2>2, <3>1 DEF Brings
  <2>3. CASE d[1].t = "job"
    <3>1. 1 \in JobsIn(d)
      BY <1>1, <2>3 DEF JobsIn
    <3>2. d[1].work.header = h
      BY <2>1, <3>1 DEF Brings
    <3> QED BY <1>1, <1>5, <2>3, <3>2 DEF Brings
  <2> QED BY <1>2, <2>2, <2>3
<1>6. CASE JobsIn(v) # {}
  <2>1. JobsIn(d) # {}
    BY <1>3, <1>6
  <2>2. PICK i \in JobsIn(d) : (\A n \in JobsIn(d) : n <= i) /\ d[i].work.header = h
    BY <2>1 DEF Brings
  <2>3. i # 1
    <3>1. PICK n \in JobsIn(v) : TRUE
      BY <1>6
    <3>2. n \in Nat \ {0} /\ n + 1 <= i
      BY <1>1, <1>3, <2>2 DEF JobsIn
    <3> QED BY <3>2
  <2>4. i - 1 \in JobsIn(v) /\ v[i - 1] = d[i]
    BY <1>4, <2>3
  <2>5. \A n \in JobsIn(v) : n \in Nat /\ n + 1 <= i
    BY <1>1, <1>3, <2>2 DEF JobsIn
  <2>6. i \in Nat
    BY <1>1 DEF JobsIn
  <2>7. \A n \in JobsIn(v) : n <= i - 1
    BY <2>5, <2>6
  <2> QED BY <1>6, <2>2, <2>4, <2>7 DEF Brings
<1> QED BY <1>5, <1>6

\* A refusal on the line of an open socket leaves its work as it was.
LEMMA TellingKeepsWork ==
  ASSUME TypeOK, SeatOK, WorkOK, NEW m \in DownMessages, m.t = "error",
         down' = down \/ down' = Told(m), UNCHANGED <<seat, slot, job>>, pool'.current = pool.current
  PROVE  WorkOK'
<1>1. seat # None /\ pool.current # None => Brings(Append(down, m), job, <<pool.current, slot>>)
  BY ErrorsBringNothing DEF TypeOK, WorkOK
<1> QED BY <1>1 DEF WorkOK, Told, SeatOK

\* A seat given, and a job or a difficulty under one: its work is on the line.
LEMMA GivingBringsWork ==
  ASSUME TypeOK, sock = "open" \/ seat' = None, PoolOK', ServerOK',
         down' = Given(pool', slot', seat')
  PROVE  WorkOK'
<1> SUFFICES ASSUME seat' # None, pool'.current # None
             PROVE  Brings(down', job', <<pool'.current, slot'>>)
  BY DEF WorkOK
<1> DEFINE m == JobFor(pool', slot')
<1>1. m \in DownMessages
  BY DEF JobFor, DownMessages, Work, PoolOK, ServerOK
<1>2. m.t = "job" /\ m.work.header = <<pool'.current, slot'>>
  BY DEF JobFor
<1>3. down' = Append(down, m)
  BY DEF Given, Told
<1>4. down \in Seq(DownMessages)
  BY DEF TypeOK
<1> QED BY <1>1, <1>2, <1>3, <1>4, BringsWhatIsNew

LEMMA BrowserKeepsWork ==
  ASSUME WorkIInv, Visitor \/ Browser \/ Lose
  PROVE  WorkOK'
<1>0. TypeOK /\ SeatOK /\ WorkOK
  BY DEF WorkIInv, ToldIInv, WordIInv
<1>1. CASE Accept \/ Halt \/ Share \/ Connect \/ (\E l \in Listings : Press(l) \/ Retry(l))
  BY <1>0, <1>1 DEF Accept, Halt, Share, Connect, Press, Retry, page, server, WorkOK
<1>2. CASE Reload \/ Lose
  BY <1>2 DEF Reload, Lose, Unseated, WorkOK
<1>3. CASE Open
  BY <1>0, <1>3 DEF Open, server, WorkOK
<1>4. CASE Receive
  <2>1. /\ down # <<>> /\ down' = Tail(down) /\ UNCHANGED <<seat, slot, pool>>
        /\ \/ /\ Head(down).t = "job"
              /\ job' = IF SameHeader(Head(down).work) THEN job ELSE Head(down).work
           \/ Head(down).t = "error" /\ job' = job
    BY <1>4 DEF Receive, server
  <2>2. down \in Seq(DownMessages) /\ Head(down) \in DownMessages
    BY <1>0, <2>1, Reading DEF TypeOK, WireOK
  <2>3. Head(down).t = "job" => Head(down).work # None
    BY <2>2, Messages, NoneIsNoWork
  <2>4. /\ Head(down).t = "job" => job' # None /\ job'.header = Head(down).work.header
        /\ Head(down).t = "error" => job' = job
    BY <2>1, <2>3 DEF SameHeader
  <2> QED BY <1>0, <2>1, <2>2, <2>4, ReadingKeepsTheWork DEF WorkOK
<1> QED BY <1>1, <1>2, <1>3, <1>4 DEF Visitor, Browser

LEMMA HandlersKeepWork ==
  ASSUME WorkIInv, Handle
  PROVE  WorkOK'
<1>0. TypeOK /\ WordOK /\ SeatOK /\ WorkOK /\ ServerOK' /\ PoolOK'
  BY ServerType DEF WorkIInv, ToldIInv, WordIInv
<1>1. sock = "open" /\ UNCHANGED <<pool, job>>
  <2>1. up # <<>> /\ UNCHANGED <<page, pool>>
    BY <1>0, HandlersRead DEF Handle, TooSoon, NoSuchListing, TurnedAway, Seated, StopMining, DropShare,
       Forward, CutOff
  <2> QED BY <1>0, <2>1 DEF WordOK, page
<1>2. CASE TooSoon \/ NoSuchListing
  <2>1. Refusal("refused") \in DownMessages /\ Refusal("refused").t = "error"
    BY Messages DEF Errors, Refusal
  <2>2. down' = Told(Refusal("refused")) /\ UNCHANGED <<seat, slot>>
    BY <1>2 DEF TooSoon, NoSuchListing
  <2> QED BY <1>0, <1>1, <2>1, <2>2, TellingKeepsWork
<1>3. CASE TurnedAway \/ StopMining \/ CutOff
  BY <1>3 DEF TurnedAway, StopMining, CutOff, Unseated, WorkOK
<1>4. CASE Seated
  <2>1. down' = Given(pool', slot', seat')
    BY <1>1, <1>4 DEF Seated, Given, Told, JobFor
  <2> QED BY <1>0, <1>1, <2>1, GivingBringsWork
<1>5. CASE DropShare \/ Forward
  BY <1>0, <1>1, <1>5 DEF DropShare, Forward, server, WorkOK
<1> QED BY <1>2, <1>3, <1>4, <1>5 DEF Handle

LEMMA PoolKeepsWork ==
  ASSUME WorkIInv, CooldownEnds \/ (\E l \in Listings : Takedown(l)) \/ PoolEvent \/ UNCHANGED vars
  PROVE  WorkOK'
<1>0. TypeOK /\ SeatOK /\ WorkOK /\ PoolOK
  BY TypeParts DEF WorkIInv, ToldIInv, WordIInv
<1>1. CASE CooldownEnds \/ PoolAccepts \/ UNCHANGED vars
  BY <1>0, <1>1 DEF CooldownEnds, PoolAccepts, vars, page, server, WorkOK
<1>2. ASSUME NEW l \in Listings, Takedown(l)
      PROVE  WorkOK'
  BY <1>0, <1>2 DEF Takedown, Unseated, page, WorkOK
<1>3. CASE Subscribed
  <2>1. pool'.current = None
    BY <1>0, <1>3 DEF Subscribed, PoolOK
  <2> QED BY <2>1 DEF WorkOK
<1>4. CASE Disconnected
  <2>1. Refusal("pool") \in DownMessages /\ Refusal("pool").t = "error"
    BY Messages DEF Errors, Refusal
  <2>2. /\ down' = down \/ down' = Told(Refusal("pool"))
        /\ UNCHANGED <<seat, slot, job>> /\ pool'.current = pool.current
    BY <1>0, <1>4 DEF Disconnected, page, server, PoolOK
  <2> QED BY <1>0, <2>1, <2>2, TellingKeepsWork
<1>5. CASE NewJob \/ \E d \in Difficulties : NewDifficulty(d)
  <2>1. PoolOK' /\ ServerOK'
    BY <1>5, PoolType DEF PoolEvent, WorkIInv, ToldIInv, WordIInv
  <2>2. UNCHANGED <<seat, slot>> /\ down' = Given(pool', slot', seat')
    BY <1>5 DEF NewJob, NewDifficulty, server
  <2>3. sock = "open" \/ seat' = None
    BY <1>0, <2>2 DEF SeatOK
  <2> QED BY <1>0, <2>1, <2>2, <2>3, GivingBringsWork
<1> QED BY <1>1, <1>2, <1>3, <1>4, <1>5 DEF PoolEvent

LEMMA NextWork ==
  ASSUME WorkIInv, [Next]_vars
  PROVE  WorkIInv'
<1>1. ToldIInv'
  BY NextTold DEF WorkIInv
<1> QED BY <1>1, BrowserKeepsWork, HandlersKeepWork, PoolKeepsWork DEF Next, WorkIInv

\* Once everything sent has been read, a browser with a seat hashes its own
\* slot's header of the pool's current job, whatever moves, refusals, reconnects
\* and repeats came before: a share it finds is neither stale nor another's.
THEOREM AlwaysHashesTheSeatsWork == Spec => []HashesTheSeatsWork
<1>1. Init => WorkIInv
  BY InitType DEF Init, WorkIInv, ToldIInv, WordIInv, WordOK, SeatOK, WorkOK
<1>2. WorkIInv /\ [Next]_vars => WorkIInv'
  BY NextWork
<1>3. WorkIInv => HashesTheSeatsWork
  BY DEF WorkIInv, WorkOK, HashesTheSeatsWork, Brings, JobsIn
<1> QED BY <1>1, <1>2, <1>3, PTL DEF Spec
=============================================================================

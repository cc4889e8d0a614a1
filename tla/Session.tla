------------------------------ MODULE Session -------------------------------
(***************************************************************************)
(* One visitor: useMiner of packages/web/src/miner-session.ts with the     *)
(* Miner of mining.ts, and the part of hub.ts that answers this browser.   *)
(*                                                                         *)
(* The page says which listing it wants mined; the server says what it     *)
(* mines.  Between them is a WebSocket: ordered both ways, and everything  *)
(* in flight is lost when it closes, with all the server knew of it.       *)
(* What the workers do with a job is Mining; how the hub shares out seats  *)
(* is Placement, and here a seat is simply there or not.                   *)
(***************************************************************************)
EXTENDS Integers, Sequences, FiniteSets

CONSTANTS
  Listings, None,
  HasCooldown,       \* config.pool.mineCooldownMs > 0
  MaxBadSubmits,     \* config.pool.maxBadSubmits
  JobHistory,        \* config.pool.jobHistory
  Difficulties, FirstDifficulty,
  Slots,             \* extranonce2 slots a seat may come with
  MaxJobs, MaxInFlight, MaxTimers  \* bounds of the model

ASSUME SessionAssumption ==
  /\ None \notin Listings \cup Slots
  /\ HasCooldown \in BOOLEAN
  /\ FirstDifficulty \in Difficulties
  /\ {MaxBadSubmits, JobHistory, MaxJobs, MaxInFlight, MaxTimers} \subseteq Nat \ {0}

VARIABLES
  \* the page
  consented, \* hasConsented()
  want,      \* mineForRef.current
  sock,      \* ws.current.readyState; the reconnect timer runs while it is closed
  status,    \* what the panel says
  timers,    \* retries scheduled for a listing
  hashing,   \* Miner.running
  job,       \* Miner.#job
  \* the wire
  up, down,
  \* the server
  rows,      \* listings in the database
  seat,      \* Client.listingId, with a place on a pool socket
  slot,      \* Client.extranonce2Index, None while it means nothing
  cooled,    \* mineCooldownMs have passed since lastMineAt
  bad,       \* Client.badSubmits
  heard,     \* what the last mine or stop this socket brought asked for
  pool,      \* the pool socket: is it up, its jobs, the current one, its difficulty
  issued     \* jobs the pool has handed out

page   == <<consented, want, sock, status, timers, hashing, job>>
server == <<rows, seat, slot, cooled, bad, heard>>
vars   == <<page, up, down, server, pool, issued>>

JobNumbers == 1 .. MaxJobs

\* A job message: what makes its header, and its target.
Work == [header : JobNumbers \X Slots, target : Difficulties]

ASSUME NoneIsNoWork == None \notin Work

\* What an error message says, as far as the page tells them apart: at capacity,
\* with `retry`; a refusal without it (too soon, no such listing, removed, too
\* many invalid shares); the pool reconnecting.
Errors == {"retry", "refused", "pool"}

UpMessages ==
  [t : {"mine"}, listing : Listings] \cup [t : {"stop"}] \cup [t : {"share"}, job : JobNumbers]

DownMessages == [t : {"job"}, work : Work] \cup [t : {"error"}, why : Errors]

TypeOK ==
  /\ consented \in BOOLEAN /\ hashing \in BOOLEAN /\ cooled \in BOOLEAN
  /\ want \in Listings \cup {None} /\ seat \in Listings \cup {None}
  /\ heard \in Listings \cup {None}
  /\ sock \in {"connecting", "open", "closed"}
  /\ status \in {"connected", "connecting"} \cup Errors
  /\ timers \in [Listings -> 0 .. MaxTimers]
  /\ job \in Work \cup {None}
  /\ up \in Seq(UpMessages) /\ down \in Seq(DownMessages)
  /\ rows \in SUBSET Listings
  /\ slot \in Slots \cup {None} /\ (slot = None <=> seat = None)
  /\ bad \in 0 .. MaxBadSubmits + 1
  /\ pool \in [up : BOOLEAN, jobs : SUBSET JobNumbers, current : JobNumbers \cup {None},
              diff : Difficulties]
  /\ issued \in 0 .. MaxJobs

Init ==
  /\ consented = FALSE /\ hashing = FALSE
  /\ want = None /\ seat = None /\ heard = None /\ job = None
  /\ sock = "connecting" /\ status = "connecting"
  /\ timers = [l \in Listings |-> 0]
  /\ up = <<>> /\ down = <<>>
  /\ rows = Listings
  /\ slot = None /\ cooled = TRUE /\ bad = 0
  /\ pool = [up |-> FALSE, jobs |-> {}, current |-> None, diff |-> FirstDifficulty]
  /\ issued = 0

-----------------------------------------------------------------------------
(* The page.                                                               *)

Mine(l)  == [t |-> "mine", listing |-> l]
Refusal(w) == [t |-> "error", why |-> w]

\* leaveConnection, and the listing forgotten.
Unseated == seat' = None /\ slot' = None

\* send(): a socket that is not open is not written to, and nothing throws.
Sent(m) == IF sock = "open" THEN Append(up, m) ELSE up

\* Bound of the model: nobody but a timer adds to a line this full.
Room == Len(up) + Len(down) < MaxInFlight

Accept ==
  /\ ~consented
  /\ consented' = TRUE
  /\ UNCHANGED <<want, sock, status, timers, hashing, job, up, down, server, pool, issued>>

\* start(), by the button of a row, a panel or a listing page: each accepts the
\* banner instead as long as it has not been.
Press(l) ==
  /\ consented /\ Room
  /\ want' = l
  /\ up' = Sent(Mine(l))
  /\ hashing' = TRUE
  /\ UNCHANGED <<consented, sock, status, timers, job, down, server, pool, issued>>

\* Broken on purpose: the server is told first, and a socket that is not open throws.
HaltServerFirst ==
  /\ want # None /\ Room
  /\ want' = None
  /\ hashing' = (sock # "open" /\ hashing)
  /\ up' = Sent([t |-> "stop"])
  /\ UNCHANGED <<consented, sock, status, timers, job, down, server, pool, issued>>

\* stop(): workers first.
Halt ==
  /\ want # None /\ Room
  /\ want' = None
  /\ hashing' = FALSE
  /\ up' = Sent([t |-> "stop"])
  /\ UNCHANGED <<consented, sock, status, timers, job, down, server, pool, issued>>

\* A worker found a nonce for the job it is on; one share is in flight at a time.
Share ==
  /\ hashing /\ job # None /\ sock = "open"
  /\ Room /\ \A i \in DOMAIN up : up[i].t # "share"
  /\ up' = Sent([t |-> "share", job |-> job.header[1]])
  /\ UNCHANGED <<page, down, server, pool, issued>>

\* The socket closes, or the dial fails: the server forgets the client.
Lose ==
  /\ sock # "closed"
  /\ sock' = "closed" /\ status' = "connecting"
  /\ up' = <<>> /\ down' = <<>>
  /\ Unseated /\ heard' = None /\ cooled' = TRUE /\ bad' = 0
  /\ UNCHANGED <<consented, want, timers, hashing, job, rows, pool, issued>>

\* The reconnect timer.
Connect ==
  /\ sock = "closed"
  /\ sock' = "connecting"
  /\ UNCHANGED <<consented, want, status, timers, hashing, job, up, down, server, pool, issued>>

\* Broken on purpose: a fresh socket says nothing.
OpensSilently == <<>>

\* onopen resumes what was being mined: the server has forgotten it.
Resumed == IF want = None THEN <<>> ELSE <<Mine(want)>>

Open ==
  /\ sock = "connecting"
  /\ sock' = "open" /\ status' = "connected"
  /\ up' = Resumed
  /\ UNCHANGED <<consented, want, timers, hashing, job, down, server, pool, issued>>

\* Broken on purpose: a repeat is told by the pool's job alone.
SameJobNumber(w) == job # None /\ job.header[1] = w.header[1]

\* setJob compares the header, and only the header.
SameHeader(w) == job # None /\ job.header = w.header

\* Broken on purpose: the page says it and leaves it at that.
NoRetry(why) == UNCHANGED timers

\* A refusal that may pass is asked again later, while its listing is wanted.
Schedule(why) ==
  timers' = IF why = "retry" /\ want # None /\ timers[want] < MaxTimers
            THEN [timers EXCEPT ![want] = @ + 1] ELSE timers

Receive ==
  /\ down # <<>>
  /\ down' = Tail(down)
  /\ LET m == Head(down)
     IN  \/ /\ m.t = "job"
            /\ job' = IF SameHeader(m.work) THEN job ELSE m.work
            /\ UNCHANGED <<status, timers>>
         \/ /\ m.t = "error"
            /\ status' = m.why
            /\ Schedule(m.why)
            /\ UNCHANGED job
  /\ UNCHANGED <<consented, want, sock, hashing, up, server, pool, issued>>

\* Broken on purpose: asked again whatever the visitor has done since.
RetryBlindly(l) ==
  /\ timers[l] > 0
  /\ timers' = [timers EXCEPT ![l] = @ - 1]
  /\ up' = Sent(Mine(l))
  /\ UNCHANGED <<consented, want, sock, status, hashing, job, down, server, pool, issued>>

\* The retry timer, which a visitor who moved on has made pointless.
Retry(l) ==
  /\ timers[l] > 0
  /\ timers' = [timers EXCEPT ![l] = @ - 1]
  /\ up' = IF want = l THEN Sent(Mine(l)) ELSE up
  /\ UNCHANGED <<consented, want, sock, status, hashing, job, down, server, pool, issued>>

\* The page is closed and opened again: only what localStorage holds remains.
Reload ==
  /\ sock' = "connecting" /\ status' = "connecting"
  /\ want' = None /\ hashing' = FALSE /\ job' = None
  /\ timers' = [l \in Listings |-> 0]
  /\ up' = <<>> /\ down' = <<>>
  /\ Unseated /\ heard' = None /\ cooled' = TRUE /\ bad' = 0
  /\ UNCHANGED <<consented, rows, pool, issued>>

-----------------------------------------------------------------------------
(* The server.                                                             *)

Told(m) == IF sock = "open" THEN Append(down, m) ELSE down

\* broadcastJob for this client, once it sits at slot s and the pool is p.
JobFor(p, s) == [t |-> "job", work |-> [header |-> <<p.current, s>>, target |-> p.diff]]

Given(p, s, l) == IF l # None /\ p.current # None THEN Told(JobFor(p, s)) ELSE down

\* handleMessage takes the head of what the socket brought.
Handles(t) == up # <<>> /\ Head(up).t = t /\ up' = Tail(up)

\* startMining up to joinConnection: lastMineAt is set before the lookup.
Asks == Handles("mine") /\ heard' = Head(up).listing

Asked == Head(up).listing

TooSoon ==
  /\ Asks /\ ~cooled
  /\ down' = Told(Refusal("refused"))
  /\ UNCHANGED <<page, rows, seat, slot, cooled, bad, pool, issued>>

NoSuchListing ==
  /\ Asks /\ cooled /\ Asked \notin rows
  /\ cooled' = ~HasCooldown
  /\ down' = Told(Refusal("refused"))
  /\ UNCHANGED <<page, rows, seat, slot, bad, pool, issued>>

\* The old seat is given up before there is a new one.
TurnedAway ==
  /\ Asks /\ cooled /\ Asked \in rows
  /\ cooled' = ~HasCooldown
  /\ Unseated
  /\ down' = Told(Refusal("retry"))
  /\ UNCHANGED <<page, rows, bad, pool, issued>>

Seated ==
  /\ Asks /\ cooled /\ Asked \in rows
  /\ cooled' = ~HasCooldown
  /\ seat' = Asked
  /\ slot' \in Slots
  /\ down' = Given(pool, slot', seat')
  /\ UNCHANGED <<page, rows, bad, pool, issued>>

StopMining ==
  /\ Handles("stop")
  /\ heard' = None /\ Unseated
  /\ UNCHANGED <<page, down, rows, cooled, bad, pool, issued>>

\* submitShare: dropped without a word when there is no seat, or no such job any more.
DropShare ==
  /\ Handles("share")
  /\ seat = None \/ Head(up).job \notin pool.jobs
  /\ UNCHANGED <<page, down, server, pool, issued>>

Forward ==
  /\ Handles("share")
  /\ seat # None /\ Head(up).job \in pool.jobs
  /\ bad < MaxBadSubmits
  /\ bad' = bad + 1
  /\ UNCHANGED <<page, down, rows, seat, slot, cooled, heard, pool, issued>>

CutOff ==
  /\ Handles("share")
  /\ seat # None /\ Head(up).job \in pool.jobs
  /\ bad >= MaxBadSubmits
  /\ bad' = MaxBadSubmits + 1
  /\ Unseated
  /\ down' = Told(Refusal("refused"))
  /\ UNCHANGED <<page, rows, cooled, heard, pool, issued>>

\* The answer to a share that was forwarded and accepted.
PoolAccepts ==
  /\ pool.up /\ seat # None /\ bad \in 1 .. MaxBadSubmits
  /\ bad' = 0
  /\ UNCHANGED <<page, up, down, rows, seat, slot, cooled, heard, pool, issued>>

CooldownEnds ==
  /\ ~cooled
  /\ cooled' = TRUE
  /\ UNCHANGED <<page, up, down, rows, seat, slot, bad, heard, pool, issued>>

\* dropListing and deleteListing.
Takedown(l) ==
  /\ l \in rows /\ Room
  /\ rows' = rows \ {l}
  /\ IF seat = l
     THEN Unseated /\ down' = Told(Refusal("refused"))
     ELSE UNCHANGED <<seat, slot, down>>
  /\ UNCHANGED <<page, up, cooled, bad, heard, pool, issued>>

\* onSubscribed: the jobs of the old extranonce1 are forgotten.
Subscribed ==
  /\ ~pool.up
  /\ pool' = [pool EXCEPT !.up = TRUE, !.jobs = {}, !.current = None]
  /\ UNCHANGED <<page, up, down, server, issued>>

Disconnected ==
  /\ pool.up /\ Room
  /\ pool' = [pool EXCEPT !.up = FALSE]
  /\ down' = IF seat = None THEN down ELSE Told(Refusal("pool"))
  /\ UNCHANGED <<page, up, server, issued>>

\* The last few jobs are remembered, as they came.
NewJob ==
  /\ pool.up /\ Room /\ issued < MaxJobs
  /\ issued' = issued + 1
  /\ pool' = [pool EXCEPT !.current = issued',
                          !.jobs = {j \in @ \cup {issued'} : j > issued' - JobHistory}]
  /\ down' = Given(pool', slot, seat)
  /\ UNCHANGED <<page, up, server>>

NewDifficulty(d) ==
  /\ pool.up /\ Room
  /\ pool' = [pool EXCEPT !.diff = d]
  /\ down' = Given(pool', slot, seat)
  /\ UNCHANGED <<page, up, server, issued>>

-----------------------------------------------------------------------------
Visitor == Accept \/ Halt \/ Reload \/ \E l \in Listings : Press(l)

Browser == Share \/ Connect \/ Open \/ Receive \/ \E l \in Listings : Retry(l)

Handle == TooSoon \/ NoSuchListing \/ TurnedAway \/ Seated \/ StopMining
            \/ DropShare \/ Forward \/ CutOff

PoolEvent ==
  PoolAccepts \/ Subscribed \/ Disconnected \/ NewJob \/ \E d \in Difficulties : NewDifficulty(d)

Next ==
  \/ Visitor \/ Browser \/ Lose
  \/ Handle \/ CooldownEnds \/ \E l \in Listings : Takedown(l)
  \/ PoolEvent

Spec == Init /\ [][Next]_vars

\* Timers fire, messages arrive, and a visitor who keeps asking is at some point
\* not turned away: other miners leave and the controller opens room.
Fairness ==
  /\ WF_vars(Connect) /\ WF_vars(Receive) /\ WF_vars(Handle) /\ WF_vars(CooldownEnds)
  /\ \A l \in Listings : WF_vars(Retry(l)) /\ SF_vars(Seated /\ seat' = l)

FairSpec == Spec /\ Fairness

-----------------------------------------------------------------------------
(* Safety.                                                                 *)

\* "Nothing mines until you accept the banner and choose a listing.  Never on
\* load", and nothing mines on after stop, whatever the socket is doing.
NothingMinesUnasked == TypeOK /\ (hashing <=> consented /\ want # None)

Intents == {i \in DOMAIN up : up[i].t \in {"mine", "stop"}}

Intent(m) == IF m.t = "mine" THEN m.listing ELSE None

\* What the server was last asked for on this socket, or is about to be.
LastWord(l) ==
  IF Intents = {} THEN heard = l
  ELSE \E i \in Intents : (\A k \in Intents : k <= i) /\ Intent(up[i]) = l

\* The last word an open socket carries is what the visitor wants: no retry, no
\* reconnect and no late message of an earlier wish comes after it.
LastWordIsTheWish == sock = "open" => LastWord(want)

Settled == sock = "open" /\ Intents = {} /\ \A i \in DOMAIN down : down[i].t = "job"

\* Once both sides have heard each other, the server mines what the page shows,
\* or the page says why not.  A visitor who stopped has no seat.
TheVisitorIsTold == Settled /\ seat # want => want # None /\ status \in Errors

\* The workers are on the seat's own work: current job, own slot.  Anything
\* else would be dropped, or rejected and counted against the miner.
HashesTheSeatsWork ==
  Settled /\ down = <<>> /\ seat # None /\ pool.current # None =>
    job # None /\ job.header = <<pool.current, slot>>

(* Liveness.                                                               *)

\* A listing that stays wanted over a socket that stays up is mined again and
\* again, however often it was turned away, unless what the panel was left
\* with is a refusal that has no retry, or that the pool is reconnecting.
WishIsServed ==
  \A l \in Listings :
    <>[](want = l /\ sock = "open") => []<>(seat = l \/ status \in {"refused", "pool"})
=============================================================================

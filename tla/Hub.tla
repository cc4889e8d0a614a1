-------------------------------- MODULE Hub --------------------------------
(***************************************************************************)
(* Jobs, shares and credit: the rest of packages/server/src/hub.ts, on top *)
(* of the seats of Placement.                                              *)
(*                                                                         *)
(* The pool hands a job to a socket; the hub builds one header per miner   *)
(* from the job, the socket's extranonce1 and the miner's slot, and sends  *)
(* it.  A miner sends back shares; the hub forwards each under a request   *)
(* id, remembers whose it is, and credits the miner's listing when the     *)
(* pool accepts it.  Each action is one handler of hub.ts: a message from  *)
(* a browser, a timer, or an event of the StratumClient.                   *)
(*                                                                         *)
(* The pool is external.  It answers any submit it was sent, in any order, *)
(* either way; it hands out work and difficulty once it has answered       *)
(* mining.subscribe; what was in flight on a socket is lost with it.       *)
(***************************************************************************)
EXTENDS Placement

CONSTANTS
  JobIds, JobHistory,             \* config.pool.jobHistory
  MaxBadSubmits,                  \* config.pool.maxBadSubmits
  Difficulties, FirstDifficulty,  \* a new connection starts at FirstDifficulty
  MaxSessions, MaxSubmits,        \* bounds of the model, per pool socket
  MaxUnflushed                    \* bound of the model: shares between flushes

ASSUME HubAssumption ==
  /\ None \notin JobIds
  /\ JobHistory \in Nat \ {0}
  /\ MaxBadSubmits \in Nat \ {0}
  /\ Difficulties \subseteq Nat \ {0} /\ FirstDifficulty \in Difficulties
  /\ MaxSessions \in Nat /\ MaxSubmits \in Nat /\ MaxUnflushed \in Nat

VARIABLES
  bad,        \* Client.badSubmits
  work,       \* the last job message sent to a client
  jobs,       \* PoolConnection.jobs, oldest first
  current,    \* PoolConnection.currentJobId
  ext,        \* PoolConnection.extranonce1: the session it belongs to, 0 for ""
  diff,       \* PoolConnection.difficulty
  submits,    \* PoolConnection.submits: whose answer a request id brings
  nextId,     \* StratumClient.#nextId, counting submits only
  unflushed,  \* credited shares not yet in SQLite
  \* the pool's side
  session,    \* sockets the pool has accepted so far: one extranonce1 each
  wire        \* submits it has been sent and not answered, with their origin

shareVars == <<bad, work, submits, nextId, unflushed, wire>>
jobVars   == <<jobs, current, ext, diff, session>>
hubVars   == <<vars, shareVars, jobVars>>

Work == [conn : Conns, job : JobIds, ext : Nat, slot : Slots, diff : Difficulties]

Submit == [conn : Conns, id : Nat, by : Clients]

\* `listing` is what was mined for when the share was sent; the code does not keep it.
Sent == [conn : Conns, id : Nat, by : Clients, listing : Listings \cup {None}]

HubTypeOK ==
  /\ bad \in [Clients -> 0 .. MaxBadSubmits + 1]
  /\ work \in [Clients -> Work \cup {None}]
  /\ jobs \in [Conns -> Seq(JobIds)]
  /\ current \in [Conns -> JobIds \cup {None}]
  /\ ext \in [Conns -> Nat] /\ session \in [Conns -> Nat]
  /\ diff \in [Conns -> Difficulties]
  /\ submits \in SUBSET Submit
  /\ nextId \in [Conns -> Nat]
  /\ unflushed \in [Listings -> [shares : Nat, diffSum : Nat]]
  /\ wire \in SUBSET Sent

NoCredit == [shares |-> 0, diffSum |-> 0]

HubInit ==
  /\ Init
  /\ bad = [c \in Clients |-> 0]
  /\ work = [c \in Clients |-> None]
  /\ jobs = [k \in Conns |-> <<>>]
  /\ current = [k \in Conns |-> None]
  /\ ext = [k \in Conns |-> 0]
  /\ session = [k \in Conns |-> 0]
  /\ diff = [k \in Conns |-> FirstDifficulty]
  /\ submits = {}
  /\ nextId = [k \in Conns |-> 1]
  /\ unflushed = [l \in Listings |-> NoCredit]
  /\ wire = {}

-----------------------------------------------------------------------------
(* broadcastJob for the miners in L, on socket k as the step leaves it.  A *)
(* socket with no extranonce1 or no current job has nothing to send.       *)

\* Broken on purpose, for the mutation runs: the slot the miner had before.
JobAtOldSlot(c, k) == [conn |-> k, job |-> current'[k], ext |-> ext'[k],
                       slot |-> slot[c], diff |-> diff'[k]]

JobFor(c, k) == [conn |-> k, job |-> current'[k], ext |-> ext'[k],
                 slot |-> slot'[c], diff |-> diff'[k]]

Broadcast(k, L) ==
  work' = [c \in Clients |->
    IF c \in L /\ ext'[k] # 0 /\ current'[k] # None THEN JobFor(c, k) ELSE work[c]]

\* Broken on purpose: the submits of a miner who left are still his.
ForgetNothing(L) == UNCHANGED submits

\* What leaveConnection does to submits: an answer to come finds nobody.
Forget(L) ==
  submits' = {s \in submits : ~(s.by \in L /\ s.conn = conn[s.by])}

-----------------------------------------------------------------------------
(* The browser's side.                                                     *)

OnOpen(c) ==
  /\ AddClient(c)
  /\ bad' = [bad EXCEPT ![c] = 0]
  /\ work' = [work EXCEPT ![c] = None]
  /\ UNCHANGED <<submits, nextId, unflushed, wire, jobVars>>

\* The visitor's socket closed, they stopped, or their `mine` found no seat.
OnLeave(c) ==
  /\ \/ RemoveClient(c)
     \/ Stop(c)
     \/ \E l \in Listings : MineTurnedAway(c, l)
  /\ Forget({c})
  /\ UNCHANGED <<bad, work, nextId, unflushed, wire, jobVars>>

\* A mine that changes no seat, or the cooldown it started being over.
OnCooldown(c) ==
  /\ CooldownEnds(c) \/ \E l \in Listings : MineRefused(c, l)
  /\ UNCHANGED <<shareVars, jobVars>>

\* A throw in countHit also skips the job the new miner should be sent.
OnMine(c, l, k, counted) ==
  /\ MineJoins(c, l, k, counted)
  /\ Forget({c})
  /\ UNCHANGED jobVars
  /\ Broadcast(k, IF counted THEN {c} ELSE {})
  /\ UNCHANGED <<bad, nextId, unflushed, wire>>

\* A new PoolConnection and StratumClient: nothing to send yet.
OnMineOpens(c, l, k, counted) ==
  /\ MineOpens(c, l, k, counted)
  /\ Forget({c})
  /\ nextId' = [nextId EXCEPT ![k] = 1]
  /\ UNCHANGED <<bad, work, unflushed, wire, jobVars>>

\* submitShare past the stale-job check, which drops a share without a trace.
MaySubmit(c, j) == conn[c] # None /\ j \in Range(jobs[conn[c]])

\* One more than MaxBadSubmits stands for every larger count.
CountBad(c) == bad' = [bad EXCEPT ![c] = Smaller(@ + 1, MaxBadSubmits + 1)]

\* The submit is remembered whether or not there is a socket to write it to.
OnShare(c, j) ==
  /\ MaySubmit(c, j)
  /\ bad[c] < MaxBadSubmits
  /\ CountBad(c)
  /\ LET k  == conn[c]
         id == nextId[k]
     IN  /\ id <= MaxSubmits
         /\ nextId' = [nextId EXCEPT ![k] = @ + 1]
         /\ submits' = submits \cup {[conn |-> k, id |-> id, by |-> c]}
         /\ wire' = IF link[k] = "up"
                    THEN wire \cup {[conn |-> k, id |-> id, by |-> c,
                                     listing |-> listing[c]]}
                    ELSE wire
  /\ UNCHANGED <<vars, work, unflushed, jobVars>>

\* Too many unaccepted submits in a row: the share is not sent and the miner
\* loses its seat.
CutOff(c, j) ==
  /\ MaySubmit(c, j)
  /\ bad[c] >= MaxBadSubmits
  /\ CountBad(c)
  /\ Stop(c)
  /\ Forget({c})
  /\ UNCHANGED <<work, nextId, unflushed, wire, jobVars>>

\* Broken on purpose: the counter outlives the row.
CreditKept(l) == unflushed

CreditDropped(l) == [unflushed EXCEPT ![l] = NoCredit]

\* DELETE /api/listings/:id.  Its unflushed counter goes with the row.
OnTakedown(l) ==
  /\ Takedown(l)
  /\ Forget(MinersOf(l))
  /\ unflushed' = CreditDropped(l)
  /\ UNCHANGED <<bad, work, nextId, wire, jobVars>>

-----------------------------------------------------------------------------
(* The pool's side.                                                        *)

\* The whole PoolConnection goes when closeConnection gives it up.
Renew(f, k, new) == [f EXCEPT ![k] = IF k \in connections' THEN @ ELSE new]

OnIdle(k) ==
  /\ IdleFires(k)
  /\ jobs' = Renew(jobs, k, <<>>)
  /\ current' = Renew(current, k, None)
  /\ ext' = Renew(ext, k, 0)
  /\ diff' = Renew(diff, k, FirstDifficulty)
  /\ wire' = {s \in wire : s.conn \in connections'}
  /\ UNCHANGED <<bad, work, submits, nextId, unflushed, session>>

OnConnected(k) ==
  /\ DialSucceeds(k)
  /\ session[k] < MaxSessions
  /\ session' = [session EXCEPT ![k] = @ + 1]
  /\ UNCHANGED <<shareVars, jobs, current, ext, diff>>

\* The answers in flight will never come.
OnDisconnected(k) ==
  /\ LinkDrops(k)
  /\ submits' = {s \in submits : s.conn # k}
  /\ wire' = {s \in wire : s.conn # k}
  /\ UNCHANGED <<bad, work, nextId, unflushed, jobVars>>

\* Events that only move the link, the freeze or the capacities.
OnPoolWeather ==
  /\ \/ \E k \in Conns : PoolError(k) \/ DialFails(k) \/ Redial(k)
     \/ Thaw
     \/ TuneConnections
  /\ UNCHANGED <<shareVars, jobVars>>

Listening(k) == k \in connections /\ link[k] = "up"

\* Broken on purpose: the jobs of the old extranonce1 stay.
JobsKept(k) == jobs

JobsForgotten(k) == [jobs EXCEPT ![k] = <<>>]

\* A fresh extranonce1 invalidates every header built from the old one, so the
\* remembered jobs go too; with no current job there is nothing to broadcast.
OnSubscribed(k) ==
  /\ Listening(k) /\ ext[k] # session[k]
  /\ ext' = [ext EXCEPT ![k] = session[k]]
  /\ jobs' = JobsForgotten(k)
  /\ current' = [current EXCEPT ![k] = None]
  /\ UNCHANGED <<vars, shareVars, diff, session>>

Subscribed(k) == Listening(k) /\ ext[k] = session[k]

OnDifficulty(k, d) ==
  /\ Subscribed(k)
  /\ diff' = [diff EXCEPT ![k] = d]
  /\ UNCHANGED <<vars, jobs, current, ext, session>>
  /\ Broadcast(k, miners[k])
  /\ UNCHANGED <<bad, submits, nextId, unflushed, wire>>

\* A known job keeps its place in the map; a new one may push out the oldest.
Remember(known, j) ==
  LET grown == IF j \in Range(known) THEN known ELSE Append(known, j)
  IN  IF Len(grown) > JobHistory THEN Tail(grown) ELSE grown

OnJob(k, j) ==
  /\ Subscribed(k)
  /\ jobs' = [jobs EXCEPT ![k] = Remember(@, j)]
  /\ current' = [current EXCEPT ![k] = j]
  /\ UNCHANGED <<vars, ext, diff, session>>
  /\ Broadcast(k, miners[k])
  /\ UNCHANGED <<bad, submits, nextId, unflushed, wire>>

\* The submits entry an answer finds: none when the miner has left meanwhile.
Owner(s) == {m \in submits : m.conn = s.conn /\ m.id = s.id}

\* Broken on purpose: nothing is counted.
NotCredited(l, d) == UNCHANGED unflushed

Credit(l, d) ==
  unflushed' = [x \in Listings |->
    IF x = l THEN [shares  |-> unflushed[x].shares + 1,
                   diffSum |-> unflushed[x].diffSum + d]
             ELSE unflushed[x]]

Answered(s) ==
  /\ s \in wire
  /\ wire' = wire \ {s}
  /\ submits' = submits \ Owner(s)
  /\ UNCHANGED <<work, nextId, jobVars>>

OnRejected(s) ==
  /\ Answered(s)
  /\ UNCHANGED <<vars, bad, unflushed>>

OnAcceptedUnknown(s) ==
  /\ Answered(s)
  /\ Owner(s) = {}
  /\ UNCHANGED <<vars, bad, unflushed>>

\* Credited at the difficulty in force now, to the listing mined now.
OnAccepted(s) ==
  /\ Answered(s)
  /\ \E m \in Owner(s) :
       /\ bad' = [bad EXCEPT ![m.by] = 0]
       /\ CountAccepted(m.conn)
       /\ listing[m.by] # None => unflushed[listing[m.by]].shares < MaxUnflushed
       /\ Credit(listing[m.by], diff[m.conn])

\* flush() when the transaction commits.
Flush ==
  /\ \E l \in Listings : unflushed[l] # NoCredit
  /\ unflushed' = [l \in Listings |-> NoCredit]
  /\ UNCHANGED <<vars, bad, work, submits, nextId, wire, jobVars>>

-----------------------------------------------------------------------------
\* What a visitor or the pool makes the hub do.
HubHandler ==
  \/ \E c \in Clients : OnOpen(c) \/ OnLeave(c) \/ OnCooldown(c)
  \/ \E c \in Clients, l \in Listings, k \in Conns, counted \in BOOLEAN :
       OnMine(c, l, k, counted) \/ OnMineOpens(c, l, k, counted)
  \/ \E c \in Clients, j \in JobIds : OnShare(c, j) \/ CutOff(c, j)
  \/ \E k \in Conns : OnIdle(k) \/ OnConnected(k) \/ OnDisconnected(k) \/ OnSubscribed(k)
  \/ \E k \in Conns, d \in Difficulties : OnDifficulty(k, d)
  \/ \E k \in Conns, j \in JobIds : OnJob(k, j)
  \/ \E s \in wire : OnRejected(s) \/ OnAcceptedUnknown(s) \/ OnAccepted(s)
  \/ OnPoolWeather

HubNext == HubHandler \/ (\E l \in Listings : OnTakedown(l)) \/ Flush

HubSpec == HubInit /\ [][HubNext]_hubVars

-----------------------------------------------------------------------------
(* Safety.                                                                 *)

Mining(k) == {c \in miners[k] : listing[c] # None}

\* broadcastJob reaches whom it must: on a socket with work, the last job each
\* miner was sent is the current one, under the extranonce1, slot and
\* difficulty of now - after a join, a job rotation, a difficulty change, a
\* reconnect, a change of socket.
MinersAreCurrent ==
  \A k \in connections :
    current[k] # None =>
      /\ current[k] \in Range(jobs[k])
      /\ \A c \in Mining(k) :
           work[c] = [conn |-> k, job |-> current[k], ext |-> ext[k],
                      slot |-> slot[c], diff |-> diff[k]]

\* Two miners the pool is waiting for never hash the same header, whoever
\* joined, left, moved or was cut off before (Client.extranonce2Index).
DistinctHeaders ==
  \A k \in Conns : \A c, d \in Mining(k) :
    c # d /\ current[k] # None =>
      <<work[c].job, work[c].ext, work[c].slot>> # <<work[d].job, work[d].ext, work[d].slot>>

\* A share the hub would forward was hashed on a header the hub can name: same
\* socket, same extranonce1, same slot.  Any other would be rejected and held
\* against its miner, which is why onSubscribed forgets the jobs.
ForwardableIsCurrent ==
  \A c \in Clients :
    conn[c] # None /\ listing[c] # None /\ work[c] # None =>
      LET k == conn[c]
      IN  work[c].job \in Range(jobs[k]) =>
            work[c].conn = k /\ work[c].ext = ext[k] /\ work[c].slot = slot[c]

\* The three together, for every order of joins, moves, jobs and reconnects.
WorkIsCurrent == HubTypeOK /\ MinersAreCurrent /\ DistinctHeaders /\ ForwardableIsCurrent

\* An answer never finds a miner who is no longer on the socket it came from,
\* nor any miner but the one who found the share.
SubmitsAreSeated ==
  /\ \A m \in submits : conn[m.by] = m.conn
  /\ \A s \in wire : \A m \in Owner(s) : m.by = s.by

\* A listing that was taken down leaves no counter behind: the next flush
\* would break the foreign key and take every other listing's shares with it.
NoOrphanCredit == \A l \in Listings : unflushed[l] # NoCredit => l \in listings

\* What an answer or a flush will find is still there.
NothingIsOrphaned == SubmitsAreSeated /\ NoOrphanCredit

Credited(l) == unflushed'[l].shares = unflushed[l].shares + 1

\* Credit goes to the listing that was being mined when the share was sent,
\* one share at a time, even when its miner has since changed listings.
CreditsTheListingMined ==
  [][\A l \in Listings : unflushed'[l].shares > unflushed[l].shares =>
       Credited(l) /\ \E s \in wire \ wire' : s.listing = l]_hubVars

\* Nothing is lost on the way: a share that is accepted while its miner keeps the
\* seat it was sent from is credited to the listing it was sent for, and to no other.
\* What was sent from a seat without a listing is credited to nobody.
AcceptedIsCreditedAsSent ==
  [][\A s \in wire : OnAccepted(s) => \A l \in Listings : Credited(l) <=> l = s.listing]_hubVars

\* "Every share the pool accepts moves that listing up the board", README.md:29 of the
\* repository, said of a miner who is still seated.  It is not so where startMining
\* throws between the seat and the listing (hub.ts:576).
AcceptedMovesAListing ==
  [][\A s \in wire : OnAccepted(s) => \E l \in Listings : Credited(l)]_hubVars

\* badSubmits goes down by an accepted share of that client and by nothing
\* else, and once past the limit it never does: an answer that was still in
\* flight at the cut-off cannot let the client back in.
BrakeHolds ==
  [][\A c \in clients \cap clients' : bad'[c] < bad[c] =>
       /\ bad[c] <= MaxBadSubmits
       /\ \E s \in wire \ wire' : s.by = c]_hubVars

=============================================================================

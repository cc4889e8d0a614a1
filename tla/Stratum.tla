------------------------------ MODULE Stratum ------------------------------
(***************************************************************************)
(* packages/server/src/stratum.ts: one StratumClient, from connect() to    *)
(* close(), with the sockets Bun opens for it and the timers it sets.      *)
(*                                                                         *)
(* A handler runs to its end, except connect(): it awaits Bun.connect, so  *)
(* a dial is in flight between two handlers and anything may happen        *)
(* meanwhile, close() included.  Time passes as it likes: the reconnect    *)
(* timer fires some time after it was set, and a socket nothing was heard  *)
(* from may count as silent at any moment.  The bytes are in Framing.      *)
(*                                                                         *)
(* The pool is external.  It answers any request on the socket it was sent *)
(* on, in any order, either way or never, and may hang up at any moment.   *)
(***************************************************************************)
EXTENDS Integers, FiniteSets, Functions

CONSTANTS
  BaseDelay, MaxDelay,   \* RECONNECT_BASE_MS, RECONNECT_MAX_MS
  None,                  \* JavaScript's null
  MaxSockets, MaxRequests  \* bounds of the model

ASSUME StratumAssumption ==
  /\ BaseDelay \in Nat \ {0} /\ MaxDelay \in Nat /\ BaseDelay <= MaxDelay
  /\ MaxSockets \in Nat /\ MaxRequests \in Nat
  /\ None \notin Nat

VARIABLES
  dials,     \* calls of connect() waiting for Bun.connect
  open,      \* sockets whose close event has not come
  ending,    \* those end() was called on
  socket,    \* #socket
  closed,    \* #closed
  delay,     \* #reconnectDelay
  timer,     \* #reconnectTimer is set
  watchdog,  \* #silenceTimer is set
  silent,    \* now - #lastByteAt >= SILENCE_MS
  nextId,    \* #nextId
  pending,   \* #pending, a function from request ids to methods
  asked,     \* requests the pool has been sent and not answered
  opened     \* sockets Bun has opened so far; names the next one

netVars  == <<dials, open, ending, socket, opened>>
timeVars == <<delay, timer, watchdog, silent>>
idVars   == <<nextId, pending, asked>>
vars     == <<netVars, closed, timeVars, idVars>>

Methods == {"subscribe", "authorize", "submit"}

Sockets == 1 .. MaxSockets

TypeOK ==
  /\ dials \in Nat /\ opened \in 0 .. MaxSockets
  /\ open \subseteq Sockets /\ ending \subseteq open
  /\ socket \in open \cup {None}
  /\ closed \in BOOLEAN /\ timer \in BOOLEAN /\ watchdog \in BOOLEAN /\ silent \in BOOLEAN
  /\ delay \in BaseDelay .. MaxDelay
  /\ nextId \in Nat \ {0}
  /\ DOMAIN pending \subseteq 1 .. nextId - 1 /\ Range(pending) \subseteq Methods
  /\ asked \subseteq [socket : Sockets, id : 1 .. nextId - 1, method : Methods]

\* openConnection constructs the client and calls connect() at once.
Init ==
  /\ dials = 1 /\ open = {} /\ ending = {} /\ socket = None /\ opened = 0
  /\ closed = FALSE
  /\ delay = BaseDelay /\ timer = FALSE /\ watchdog = FALSE /\ silent = FALSE
  /\ nextId = 1 /\ pending = <<>> /\ asked = {}

Doubled == IF 2 * delay < MaxDelay THEN 2 * delay ELSE MaxDelay

\* Broken on purpose, for the mutation runs: no reconnect, or one even after close().
NeverAgain == UNCHANGED <<delay, timer>>
RescheduleAlways ==
  IF timer THEN UNCHANGED <<delay, timer>> ELSE delay' = Doubled /\ timer' = TRUE

ScheduleReconnect ==
  IF closed \/ timer
  THEN UNCHANGED <<delay, timer>>
  ELSE delay' = Doubled /\ timer' = TRUE

Greeting ==
  [id \in {nextId, nextId + 1} |-> IF id = nextId THEN "subscribe" ELSE "authorize"]

\* Bun.connect resolves: what was pending is forgotten, the watchdog runs, and
\* subscribe and authorize go out.  Nothing here looks at #closed.
DialSucceeds ==
  /\ dials > 0 /\ opened < MaxSockets
  /\ dials' = dials - 1
  /\ opened' = opened + 1
  /\ open' = open \cup {opened'}
  /\ socket' = opened'
  /\ silent' = FALSE
  /\ watchdog' = TRUE
  /\ nextId' = nextId + 2
  /\ pending' = Greeting
  /\ asked' = asked \cup {[socket |-> opened', id |-> nextId, method |-> "subscribe"],
                          [socket |-> opened', id |-> nextId + 1, method |-> "authorize"]}
  /\ UNCHANGED <<ending, closed, delay, timer>>

DialFails ==
  /\ dials > 0
  /\ dials' = dials - 1
  /\ ScheduleReconnect
  /\ UNCHANGED <<open, ending, socket, opened, closed, watchdog, silent, idVars>>

\* The callback of #reconnectTimer.
TimerFires ==
  /\ timer
  /\ timer' = FALSE
  /\ dials' = dials + 1
  /\ UNCHANGED <<open, ending, socket, opened, closed, delay, watchdog, silent, idVars>>

\* #onClose, whichever side hung up and whichever socket it was.
SocketCloses(s) ==
  /\ s \in open
  /\ open' = open \ {s}
  /\ ending' = ending \ {s}
  /\ socket' = None
  /\ asked' = {r \in asked : r.socket # s}
  /\ ScheduleReconnect
  /\ UNCHANGED <<dials, opened, closed, watchdog, silent, nextId, pending>>

Silence ==
  /\ open # {} /\ ~silent
  /\ silent' = TRUE
  /\ UNCHANGED <<netVars, closed, delay, timer, watchdog, idVars>>

\* Broken on purpose: the watchdog reconnects by itself, or only reports.
WatchdogReconnects ==
  /\ watchdog /\ socket # None /\ silent
  /\ ending' = ending \cup {socket}
  /\ ScheduleReconnect
  /\ UNCHANGED <<dials, open, socket, opened, closed, watchdog, silent, idVars>>
WatchdogReports == watchdog /\ socket # None /\ silent /\ UNCHANGED vars

WatchdogFires ==
  /\ watchdog /\ socket # None /\ silent
  /\ ending' = ending \cup {socket}
  /\ UNCHANGED <<dials, open, socket, opened, closed, timeVars, idVars>>

\* submit().  Recorded even when there is no socket to write it to.
Submit ==
  /\ nextId <= MaxRequests
  /\ nextId' = nextId + 1
  /\ pending' = [id \in DOMAIN pending \cup {nextId} |->
                   IF id = nextId THEN "submit" ELSE pending[id]]
  /\ asked' = IF socket # None /\ socket \notin ending
              THEN asked \cup {[socket |-> socket, id |-> nextId, method |-> "submit"]}
              ELSE asked
  /\ UNCHANGED <<netVars, closed, timeVars>>

\* A mining.notify or mining.set_difficulty: bytes, and nothing kept here.
Push ==
  /\ open # {} /\ silent
  /\ silent' = FALSE
  /\ UNCHANGED <<netVars, closed, delay, timer, watchdog, idVars>>

\* handleMessage looks the method up by the id alone.  The backoff ladder is
\* cleared by an authorized login and by nothing else.
Method(id) == IF id \in DOMAIN pending THEN pending[id] ELSE None

\* Broken on purpose: any good answer clears the ladder.
DelayAfterAny(id, ok) == IF ok THEN BaseDelay ELSE delay

DelayAfter(id, ok) == IF Method(id) = "authorize" /\ ok THEN BaseDelay ELSE delay

Reply(r, ok) ==
  /\ r \in asked
  /\ silent' = FALSE
  /\ pending' = Restrict(pending, DOMAIN pending \ {r.id})
  /\ asked' = asked \ {r}
  /\ delay' = DelayAfter(r.id, ok)
  /\ UNCHANGED <<netVars, closed, timer, watchdog, nextId>>

Close ==
  /\ ~closed
  /\ closed' = TRUE
  /\ timer' = FALSE
  /\ watchdog' = FALSE
  /\ ending' = IF socket # None THEN ending \cup {socket} ELSE ending
  /\ socket' = None
  /\ UNCHANGED <<dials, open, opened, delay, silent, idVars>>

Next ==
  \/ DialSucceeds \/ DialFails \/ TimerFires
  \/ \E s \in Sockets : SocketCloses(s)
  \/ Silence \/ WatchdogFires \/ Push \/ Submit \/ Close
  \/ \E r \in asked, ok \in BOOLEAN : Reply(r, ok)

Spec == Init /\ [][Next]_vars

\* Timers fire; a socket end() was called on reports its close; a pool that can
\* be reached again and again is reached once.
Fairness ==
  /\ WF_vars(TimerFires) /\ WF_vars(WatchdogFires)
  /\ \A s \in Sockets : WF_vars(s \in ending /\ SocketCloses(s))
  /\ WF_vars(DialSucceeds \/ DialFails)

FairSpec == Spec /\ Fairness

-----------------------------------------------------------------------------
\* Until it is closed, the client has exactly one of: a dial in flight, a
\* socket, a reconnect timer.  None of them and it is never heard from again;
\* two of them and one login holds two sockets.  Closed, it has at most one.
OneLifeline ==
  LET lifelines == dials + Cardinality(open) + (IF timer THEN 1 ELSE 0)
  IN  lifelines <= 1 /\ (~closed => lifelines = 1)

\* #socket is the open socket, never one that is gone: a submit is not written
\* into a dead socket while a live one waits, and poolHealthy() is not fooled.
HoldsTheLiveSocket == ~closed => (socket # None <=> open # {})

\* Every answer still to come finds the method it answers, whatever was
\* reconnected, resubmitted or closed since: clearing #pending on connect
\* forgets only requests of sockets that are gone.
AnswersAreKnown == \A r \in asked : Method(r.id) = r.method

\* The three together: one connection, and the one the client believes in.
OneLiveSocket == TypeOK /\ OneLifeline /\ HoldsTheLiveSocket /\ AnswersAreKnown

\* The ladder climbs and stays up: only the pool's answer to a login brings the
\* delay down, so neither accepting a connection nor dropping one resets it.
OnlyLoginClearsBackoff ==
  [][delay' < delay =>
       \E r \in asked \ asked' : r.method = "authorize" /\ delay' = BaseDelay]_vars

\* A socket that is connected and says nothing is given up: the one failure with
\* no symptom at all does not last.
SilenceIsNoticed ==
  (~closed /\ silent /\ socket # None) ~> (closed \/ ~silent \/ socket = None)

\* A client without a socket does not stay in wait: it reaches a dial again.
KeepsTrying == (~closed /\ socket = None) ~> (closed \/ socket # None \/ dials > 0)

\* The machine the hub sees.
Abstract == INSTANCE Link WITH
  held <- ~closed,
  link <- IF dials > 0 THEN "dialing"
          ELSE IF socket # None THEN "up"
          ELSE IF timer THEN "down" ELSE "none"

ImplementsLink == Abstract!Spec
=============================================================================

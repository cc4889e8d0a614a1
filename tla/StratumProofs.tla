--------------------------- MODULE StratumProofs ---------------------------
(***************************************************************************)
(* stratum.ts, in two parts.                                               *)
(*                                                                         *)
(* The first is about Stratum: one lifeline per StratumClient, and the     *)
(* machine the hub sees, proved for every delay, every number of sockets   *)
(* and every number of requests.  The inductive invariant says which of    *)
(* the dial, the socket and the timer exclude each other, without          *)
(* counting; what #pending, the ladder and the watchdog do cannot disturb  *)
(* it.                                                                     *)
(*                                                                         *)
(* The second is about Framing: the lines a client reads are the lines of  *)
(* what the chunks were taken for, and that is what was sent but for the   *)
(* characters that were cut, for every stream, every way of cutting it and *)
(* every limit of the buffer.                                              *)
(***************************************************************************)
EXTENDS Stratum, Framing, FiniteSetTheorems, SequenceTheorems, TLAPS

Lifeline ==
  /\ dials \in {0, 1} /\ timer \in BOOLEAN /\ closed \in BOOLEAN
  /\ opened \in Nat
  /\ open = {} \/ \E s \in Nat : open = {s}
  /\ socket \in open \cup {None}
  /\ dials = 1 => open = {} /\ ~timer
  /\ timer => open = {} /\ ~closed
  /\ ~closed => dials = 1 \/ timer \/ open # {}
  /\ ~closed /\ open # {} => socket # None

lifeVars == <<dials, open, socket, closed, timer, opened>>

LEMMA InitLifeline == Init => Lifeline
<1> SUFFICES ASSUME Init PROVE Lifeline
  OBVIOUS
<1>1. /\ dials = 1 /\ open = {} /\ socket = None /\ opened = 0
      /\ closed = FALSE /\ timer = FALSE
  BY DEF Init
<1> QED BY <1>1 DEF Lifeline

\* ScheduleReconnect, called when the last dial or socket has just gone.
LEMMA Scheduled ==
  ASSUME timer \in BOOLEAN, closed \in BOOLEAN, ScheduleReconnect, timer => ~closed
  PROVE  timer' = ~closed
BY DEF ScheduleReconnect

LEMMA NextLifeline ==
  ASSUME Lifeline, [Next]_vars
  PROVE  Lifeline'
<1> USE DEF Lifeline
<1>0. None \notin Nat
  BY StratumAssumption
<1>1. CASE DialSucceeds
  <2>1. /\ dials' = 0 /\ open' = {opened + 1} /\ socket' = opened + 1 /\ opened' = opened + 1
        /\ UNCHANGED <<closed, timer>> /\ ~timer
    BY <1>1 DEF DialSucceeds
  <2> QED BY <1>0, <2>1
<1>2. CASE DialFails
  <2>1. /\ dials' = 0 /\ open = {} /\ ScheduleReconnect
        /\ UNCHANGED <<open, socket, opened, closed>>
    BY <1>2 DEF DialFails
  <2>2. timer' = ~closed
    BY <2>1, Scheduled
  <2>3. timer' \in BOOLEAN /\ closed' \in BOOLEAN /\ (timer' <=> ~closed')
    BY <2>1, <2>2
  <2>4. /\ dials' = 0 /\ open' = {} /\ opened' \in Nat /\ socket' = None
    BY <2>1
  <2> QED BY ONLY <2>3, <2>4 DEF Lifeline
<1>3. CASE TimerFires
  <2>1. /\ dials' = 1 /\ timer' = FALSE /\ open = {} /\ ~closed
        /\ UNCHANGED <<open, socket, opened, closed>>
    BY <1>3 DEF TimerFires
  <2> QED BY <2>1
<1>4. ASSUME NEW s \in Sockets, SocketCloses(s)
      PROVE  Lifeline'
  <2>1. /\ s \in open /\ open' = {} /\ socket' = None /\ ScheduleReconnect
        /\ UNCHANGED <<dials, opened, closed>> /\ dials = 0
    BY <1>4 DEF SocketCloses
  <2>2. timer' = ~closed
    BY <2>1, Scheduled
  <2> QED BY <2>1, <2>2
<1>5. CASE Close
  <2>1. /\ closed' = TRUE /\ timer' = FALSE /\ socket' = None
        /\ UNCHANGED <<dials, open, opened>>
    BY <1>5 DEF Close
  <2> QED BY <2>1
<1>6. CASE UNCHANGED lifeVars
  BY <1>6 DEF lifeVars
<1>7. CASE Silence \/ WatchdogFires \/ Push \/ Submit
  BY <1>6, <1>7 DEF Silence, WatchdogFires, Push, Submit, netVars, timeVars, lifeVars
<1>8. ASSUME NEW r \in asked, NEW ok \in BOOLEAN, Reply(r, ok)
      PROVE  Lifeline'
  BY <1>6, <1>8 DEF Reply, netVars, lifeVars
<1>9. CASE UNCHANGED vars
  BY <1>6, <1>9 DEF vars, netVars, timeVars, lifeVars
<1> QED BY <1>1, <1>2, <1>3, <1>4, <1>5, <1>7, <1>8, <1>9 DEF Next

LEMMA LifelineHolds == Spec => []Lifeline
<1>1. Lifeline /\ [Next]_vars => Lifeline'
  BY NextLifeline
<1> QED BY <1>1, InitLifeline, PTL DEF Spec

\* Until close(), exactly one of a dial, a socket and a reconnect timer; after
\* it at most one: never stranded, never two sockets for one login.
THEOREM ExactlyOneLifeline == Spec => []OneLifeline
<1>1. Lifeline => OneLifeline
  <2> SUFFICES ASSUME Lifeline PROVE OneLifeline
    OBVIOUS
  <2>1. Cardinality(open) \in {0, 1} /\ (Cardinality(open) = 0 <=> open = {})
    BY FS_EmptySet, FS_Singleton DEF Lifeline
  <2> QED BY <2>1 DEF Lifeline, OneLifeline
<1> QED BY <1>1, LifelineHolds, PTL

\* #socket is the open socket for as long as the client is not closed.
THEOREM AlwaysTheLiveSocket == Spec => []HoldsTheLiveSocket
<1>1. Lifeline => HoldsTheLiveSocket
  BY DEF Lifeline, HoldsTheLiveSocket
<1> QED BY <1>1, LifelineHolds, PTL

-----------------------------------------------------------------------------
(* Refinement.                                                             *)

Seen == IF dials > 0 THEN "dialing"
        ELSE IF socket # None THEN "up"
        ELSE IF timer THEN "down" ELSE "none"

\* Every step of the client is one the hub may see, or one it cannot.
LEMMA StepSimulates ==
  ASSUME Lifeline, Lifeline', [Next]_vars
  PROVE  Abstract!Next \/ UNCHANGED <<Seen, ~closed>>
<1> USE DEF Lifeline, Seen
<1>0. None \notin Nat
  BY StratumAssumption
<1>1. CASE DialSucceeds
  <2>1. /\ dials = 1 /\ dials' = 0 /\ socket' = opened + 1 /\ closed' = closed
    BY <1>1 DEF DialSucceeds
  <2> QED BY <1>0, <2>1 DEF Abstract!Next, Abstract!DialSucceeds
<1>2. CASE DialFails
  <2>1. /\ dials = 1 /\ dials' = 0 /\ socket = None /\ socket' = None /\ closed' = closed
        /\ ScheduleReconnect
    BY <1>2 DEF DialFails
  <2>2. timer' = ~closed
    BY <2>1, Scheduled
  <2> QED BY <2>1, <2>2 DEF Abstract!Next, Abstract!Lost, Abstract!AfterLoss
<1>3. CASE TimerFires
  <2>1. /\ timer /\ dials = 0 /\ dials' = 1 /\ socket = None /\ ~closed /\ ~closed'
    BY <1>3 DEF TimerFires
  <2> QED BY <2>1 DEF Abstract!Next, Abstract!Redial
<1>4. ASSUME NEW s \in Sockets, SocketCloses(s)
      PROVE  Abstract!Next \/ UNCHANGED <<Seen, ~closed>>
  <2>1. /\ dials = 0 /\ dials' = 0 /\ socket' = None /\ closed' = closed /\ ~timer
        /\ ScheduleReconnect /\ (~closed => socket # None)
    BY <1>4 DEF SocketCloses
  <2>2. timer' = ~closed
    BY <2>1, Scheduled
  <2> QED BY <2>1, <2>2 DEF Abstract!Next, Abstract!Lost, Abstract!AfterLoss
<1>5. CASE Close
  <2>1. /\ ~closed /\ closed' /\ ~timer' /\ socket' = None /\ dials' = dials
    BY <1>5 DEF Close
  <2> QED BY <2>1 DEF Abstract!Next, Abstract!GiveUp
<1>6. CASE UNCHANGED lifeVars
  BY <1>6 DEF lifeVars
<1>7. CASE Silence \/ WatchdogFires \/ Push \/ Submit
  BY <1>6, <1>7 DEF Silence, WatchdogFires, Push, Submit, netVars, timeVars, lifeVars
<1>8. ASSUME NEW r \in asked, NEW ok \in BOOLEAN, Reply(r, ok)
      PROVE  Abstract!Next \/ UNCHANGED <<Seen, ~closed>>
  BY <1>6, <1>8 DEF Reply, netVars, lifeVars
<1>9. CASE UNCHANGED vars
  BY <1>6, <1>9 DEF vars, netVars, timeVars, lifeVars
<1> QED BY <1>1, <1>2, <1>3, <1>4, <1>5, <1>7, <1>8, <1>9 DEF Next

\* The StratumClient is the machine Placement takes a pool socket to be,
\* whatever the pool and the timers do.
THEOREM ClientIsALink == Spec => ImplementsLink
<1>1. Init => Abstract!Init
  <2> SUFFICES ASSUME Init PROVE Abstract!Init
    OBVIOUS
  <2>1. dials = 1 /\ closed = FALSE
    BY DEF Init
  <2>2. (~closed) = TRUE /\ 1 > 0
    BY <2>1
  <2> QED BY <2>1, <2>2 DEF Abstract!Init
<1>2. Lifeline /\ Lifeline' /\ [Next]_vars => [Abstract!Next]_<<Seen, ~closed>>
  BY StepSimulates
<1>3. Abstract!Spec <=> Abstract!Init /\ [][Abstract!Next]_<<Seen, ~closed>>
  BY DEF Abstract!Spec, Seen
<1> QED BY <1>1, <1>2, <1>3, LifelineHolds, PTL DEF Spec, ImplementsLink

-----------------------------------------------------------------------------
(* Request ids and the ladder.                                             *)

\* Every id is handed out once, and what the pool has yet to answer was asked on
\* the socket that is open: that is why clearing #pending on connect is safe.
IdIInv ==
  /\ Lifeline /\ TypeOK /\ AnswersAreKnown
  /\ \A r \in asked : r.socket \in open
  /\ \A r, q \in asked : r.id = q.id => r = q

LEMMA InitIds == Init => IdIInv
<1> SUFFICES ASSUME Init PROVE IdIInv
  OBVIOUS
<1>1. Lifeline
  BY InitLifeline
<1>2. DOMAIN pending = {} /\ Range(pending) = {}
  <2>1. pending = <<>>
    BY DEF Init
  <2>2. DOMAIN pending = {}
    BY <2>1
  <2> QED BY <2>2 DEF Range
<1>3. TypeOK
  <2>1. delay \in BaseDelay .. MaxDelay
    BY StratumAssumption DEF Init
  <2>2. /\ dials \in Nat /\ opened \in 0 .. MaxSockets /\ nextId \in Nat \ {0}
        /\ open = {} /\ ending = {} /\ socket = None /\ asked = {}
    BY StratumAssumption DEF Init
  <2>3. closed \in BOOLEAN /\ timer \in BOOLEAN /\ watchdog \in BOOLEAN /\ silent \in BOOLEAN
    BY DEF Init
  <2> QED BY <1>2, <2>1, <2>2, <2>3 DEF TypeOK
<1> QED BY <1>1, <1>3 DEF Init, IdIInv, AnswersAreKnown

LEMMA LadderClimbs ==
  ASSUME TypeOK, ScheduleReconnect
  PROVE  delay' \in BaseDelay .. MaxDelay /\ delay' >= delay /\ timer' \in BOOLEAN
<1>1. delay \in BaseDelay .. MaxDelay /\ BaseDelay \in Nat /\ MaxDelay \in Nat
  BY StratumAssumption DEF TypeOK
<1>2. delay' = delay \/ delay' = Doubled
  BY DEF ScheduleReconnect
<1>3. timer \in BOOLEAN /\ (timer' = timer \/ timer' = TRUE)
  BY Zenon DEF TypeOK, ScheduleReconnect
<1>4. delay' \in BaseDelay .. MaxDelay /\ delay' >= delay
  BY <1>1, <1>2 DEF Doubled
<1>5. timer' \in BOOLEAN
  BY <1>3
<1> QED BY <1>4, <1>5

LEMMA NextIds ==
  ASSUME IdIInv, [Next]_vars
  PROVE  IdIInv'
<1>0. Lifeline' /\ Lifeline /\ TypeOK
  BY NextLifeline DEF IdIInv
<1>1. CASE DialSucceeds
  <2>1. asked = {} /\ open = {}
    BY <1>1 DEF DialSucceeds, IdIInv, Lifeline
  <2>2. /\ DOMAIN pending' = {nextId, nextId + 1}
        /\ pending'[nextId] = "subscribe" /\ pending'[nextId + 1] = "authorize"
    BY <1>0, <1>1 DEF DialSucceeds, Greeting, TypeOK
  <2>3. Range(pending') \subseteq Methods
    BY <2>2 DEF Range, Methods
  <2>4. /\ nextId' = nextId + 2 /\ opened' = opened + 1 /\ open' = {opened'} /\ socket' = opened'
        /\ asked' = {[socket |-> opened', id |-> nextId, method |-> "subscribe"],
                     [socket |-> opened', id |-> nextId + 1, method |-> "authorize"]}
        /\ UNCHANGED <<ending, closed, delay, timer>> /\ dials' = 0
        /\ watchdog' = TRUE /\ silent' = FALSE /\ opened' \in Sockets
    BY <1>0, <1>1, <2>1, StratumAssumption DEF DialSucceeds, TypeOK, Lifeline, Sockets
  <2>5. TypeOK'
    <3>1. nextId \in Nat \ {0} /\ nextId' \in Nat \ {0} /\ opened' \in 0 .. MaxSockets
      BY <1>0, <2>4, StratumAssumption DEF TypeOK, Sockets
    <3>2. DOMAIN pending' \subseteq 1 .. nextId' - 1
      BY <2>2, <2>4, <3>1
    <3>3. asked' \subseteq [socket : Sockets, id : 1 .. nextId' - 1, method : Methods]
      BY <2>4, <3>1 DEF Methods
    <3>4. open' \subseteq Sockets /\ ending' \subseteq open' /\ socket' \in open'
      BY <1>0, <2>1, <2>4 DEF TypeOK
    <3>5. closed' \in BOOLEAN /\ timer' \in BOOLEAN /\ watchdog' \in BOOLEAN /\ silent' \in BOOLEAN
      BY <1>0, <2>4 DEF TypeOK
    <3>6. dials' \in Nat /\ delay' \in BaseDelay .. MaxDelay
      BY <1>0, <2>4 DEF TypeOK
    <3> QED BY <2>3, <3>1, <3>2, <3>3, <3>4, <3>5, <3>6 DEF TypeOK
  <2>6. AnswersAreKnown'
    BY <2>2, <2>4 DEF AnswersAreKnown, Method
  <2>7. \A r, q \in asked' : r.id = q.id => r = q
    BY <1>0, <2>4 DEF TypeOK
  <2> QED BY <1>0, <2>4, <2>5, <2>6, <2>7 DEF IdIInv
<1>2. ASSUME NEW s \in Sockets, SocketCloses(s)
      PROVE  IdIInv'
  <2>1. asked' = {r \in asked : r.socket # s} /\ UNCHANGED <<nextId, pending>>
    BY <1>2 DEF SocketCloses
  <2>2. TypeOK'
    BY <1>0, <1>2, <2>1, LadderClimbs DEF SocketCloses, TypeOK
  <2> QED BY <1>0, <1>2, <2>1, <2>2 DEF IdIInv, SocketCloses, AnswersAreKnown, Method
<1>3. ASSUME UNCHANGED <<open, nextId, pending, asked>>, TypeOK'
      PROVE  IdIInv'
  BY <1>0, <1>3 DEF IdIInv, AnswersAreKnown, Method
<1>4. CASE DialFails
  <2>1. TypeOK'
    BY <1>0, <1>4, LadderClimbs DEF DialFails, TypeOK, idVars
  <2> QED BY <1>3, <1>4, <2>1 DEF DialFails, idVars
<1>5. CASE TimerFires \/ Silence \/ WatchdogFires \/ Push \/ Close
  <2>1. TypeOK'
    <3>1. CASE TimerFires
      <4>1. dials' \in Nat /\ timer' = FALSE
        BY <1>0, <3>1 DEF TimerFires, TypeOK
      <4>2. UNCHANGED <<open, ending, socket, opened, closed, delay, watchdog, silent, idVars>>
        BY <3>1 DEF TimerFires
      <4>3. timer' \in BOOLEAN
        BY <4>1
      <4> QED BY <1>0, <4>1, <4>2, <4>3 DEF TypeOK, idVars
    <3>2. CASE Silence \/ Push
      BY <1>0, <3>2 DEF Silence, Push, TypeOK, netVars, idVars
    <3>3. CASE WatchdogFires
      BY <1>0, <3>3 DEF WatchdogFires, TypeOK, timeVars, idVars
    <3>4. CASE Close
      <4>1. closed' \in BOOLEAN /\ timer' \in BOOLEAN /\ watchdog' \in BOOLEAN /\ silent' \in BOOLEAN
        BY <1>0, <3>4 DEF Close, TypeOK
      <4>2. open' = open /\ ending' \subseteq open' /\ socket' = None
        BY <1>0, <3>4, StratumAssumption DEF Close, TypeOK, Lifeline
      <4> QED BY <1>0, <3>4, <4>1, <4>2 DEF Close, TypeOK, idVars
    <3> QED BY <1>5, <3>1, <3>2, <3>3, <3>4
  <2> QED BY <1>3, <1>5, <2>1 DEF TimerFires, Silence, WatchdogFires, Push, Close,
          netVars, idVars
<1>6. CASE Submit
  <2>1. /\ DOMAIN pending' = DOMAIN pending \cup {nextId} /\ pending'[nextId] = "submit"
        /\ \A k \in DOMAIN pending : k # nextId => pending'[k] = pending[k]
    BY <1>6 DEF Submit
  <2>2. Range(pending') \subseteq Methods
    BY <1>0, <2>1 DEF Range, Methods, TypeOK
  <2>3. /\ nextId' = nextId + 1 /\ nextId \notin {r.id : r \in asked}
        /\ UNCHANGED <<netVars, closed, timeVars>>
    BY <1>0, <1>6 DEF Submit, TypeOK
  <2>4. \A r \in asked' : \/ r \in asked
                          \/ r = [socket |-> socket, id |-> nextId, method |-> "submit"]
                             /\ socket \in open
    BY <1>0, <1>6 DEF Submit, TypeOK
  <2>5. TypeOK'
    BY <1>0, <2>1, <2>2, <2>3, <2>4 DEF TypeOK, netVars, timeVars, Methods
  <2>6. AnswersAreKnown'
    <3> SUFFICES ASSUME NEW r \in asked' PROVE (Method(r.id))' = r.method
      BY DEF AnswersAreKnown
    <3>1. CASE r \in asked
      BY <1>0, <2>1, <2>3, <3>1 DEF IdIInv, AnswersAreKnown, Method, TypeOK
    <3>2. CASE r \notin asked
      BY <2>1, <2>4, <3>2 DEF Method
    <3> QED BY <3>1, <3>2
  <2> QED BY <1>0, <2>3, <2>4, <2>5, <2>6 DEF IdIInv, netVars
<1>7. ASSUME NEW r \in asked, NEW ok \in BOOLEAN, Reply(r, ok)
      PROVE  IdIInv'
  <2>1. /\ asked' = asked \ {r} /\ DOMAIN pending' = DOMAIN pending \ {r.id}
        /\ \A k \in DOMAIN pending' : pending'[k] = pending[k]
        /\ UNCHANGED <<netVars, closed, timer, watchdog, nextId>>
    BY <1>7 DEF Reply, Restrict
  <2>2. delay' \in BaseDelay .. MaxDelay /\ silent' \in BOOLEAN
    <3>1. silent' = FALSE /\ (delay' = BaseDelay \/ delay' = delay)
      BY <1>7 DEF Reply, DelayAfter
    <3>2. BaseDelay \in BaseDelay .. MaxDelay /\ delay \in BaseDelay .. MaxDelay
      BY <1>0, StratumAssumption DEF TypeOK
    <3>3. silent' \in BOOLEAN
      BY <3>1
    <3> QED BY <3>1, <3>2, <3>3
  <2>3. Range(pending') \subseteq Methods
    BY <1>0, <2>1 DEF Range, TypeOK
  <2>4. TypeOK'
    BY <1>0, <2>1, <2>2, <2>3 DEF TypeOK, netVars
  <2>5. AnswersAreKnown'
    BY <2>1 DEF IdIInv, AnswersAreKnown, Method
  <2> QED BY <1>0, <2>1, <2>4, <2>5 DEF IdIInv, netVars
<1>8. CASE UNCHANGED vars
  <2>1. TypeOK'
    BY <1>0, <1>8 DEF vars, TypeOK, netVars, timeVars, idVars
  <2> QED BY <1>3, <1>8, <2>1 DEF vars, netVars, idVars
<1> QED BY <1>1, <1>2, <1>4, <1>5, <1>6, <1>7, <1>8 DEF Next

LEMMA IdsHold == Spec => []IdIInv
<1>1. IdIInv /\ [Next]_vars => IdIInv'
  BY NextIds
<1> QED BY <1>1, InitIds, PTL DEF Spec

\* One connection, the one the client believes in, and no answer it cannot name:
\* for every number of sockets and requests.
THEOREM AlwaysOneLiveSocket == Spec => []OneLiveSocket
<1>1. IdIInv => TypeOK /\ AnswersAreKnown
  BY DEF IdIInv
<1> QED BY <1>1, IdsHold, ExactlyOneLifeline, AlwaysTheLiveSocket, PTL DEF OneLiveSocket

\* The delay only ever comes down by the pool's answer to a login.
THEOREM LadderNeedsALogin == Spec => OnlyLoginClearsBackoff
<1>1. IdIInv /\ [Next]_vars =>
        [delay' < delay =>
           \E r \in asked \ asked' : r.method = "authorize" /\ delay' = BaseDelay]_vars
  <2> SUFFICES ASSUME IdIInv, [Next]_vars, delay' < delay
               PROVE  \E r \in asked \ asked' : r.method = "authorize" /\ delay' = BaseDelay
    OBVIOUS
  <2>1. TypeOK
    BY DEF IdIInv
  <2>2. ~ScheduleReconnect /\ ~UNCHANGED delay
    BY <2>1, LadderClimbs DEF TypeOK
  <2>3. PICK r \in asked : \E ok \in BOOLEAN : Reply(r, ok)
    BY <2>2 DEF Next, DialSucceeds, DialFails, TimerFires, SocketCloses, Silence, WatchdogFires,
       Push, Submit, Close, vars, timeVars
  <2>4. r \notin asked' /\ Method(r.id) = "authorize" /\ delay' = BaseDelay
    BY <2>2, <2>3 DEF Reply, DelayAfter
  <2> QED BY <2>4 DEF IdIInv, AnswersAreKnown
<1> QED BY <1>1, IdsHold, PTL DEF Spec, OnlyLoginClearsBackoff

-----------------------------------------------------------------------------
(* The framing.  What At picks of a sequence depends on the positions alone, *)
(* and positions are counted: so what two chunks give is what each gives.    *)

Rank(P, i) == Cardinality({j \in P : j < i})

\* Ranks grow with the positions.
LEMMA RankGrows ==
  ASSUME NEW P \in SUBSET Nat, IsFiniteSet(P)
  PROVE  \A i, j \in P : i < j => Rank(P, i) < Rank(P, j)
<1> DEFINE Below(i) == {j \in P : j < i}
<1>1. \A i \in Nat : IsFiniteSet(Below(i)) /\ Cardinality(Below(i)) \in Nat
  BY FS_CardinalityType, FS_Subset
<1> SUFFICES ASSUME NEW i \in P, NEW j \in P, i < j
             PROVE  Rank(P, i) < Rank(P, j)
  OBVIOUS
<1> DEFINE a == Below(i)
           b == Below(j)
<1>0. i \in Nat /\ j \in Nat /\ \A m \in P : m \in Nat
  OBVIOUS
<1>2. a \cup {i} \in SUBSET b /\ i \notin a
  <2>1. ASSUME NEW m \in P, m < i
        PROVE  m < j
    <3>1. m \in Nat
      BY <1>0
    <3> QED BY <1>0, <2>1, <3>1
  <2>2. ~(i < i)
    BY <1>0
  <2> QED BY <1>0, <2>1, <2>2
<1>3. IsFiniteSet(a) /\ IsFiniteSet(b) /\ Cardinality(a) \in Nat /\ Cardinality(b) \in Nat
  BY <1>1
<1> HIDE DEF a, b
<1>4. Cardinality(a \cup {i}) = Cardinality(a) + 1 /\ Cardinality(a \cup {i}) <= Cardinality(b)
  BY <1>2, <1>3, FS_AddElement, FS_Subset
<1>5. Cardinality(a) < Cardinality(b)
  BY <1>3, <1>4
<1> QED BY <1>5 DEF a, b, Rank

\* Each position has a rank of its own, and each rank a position.
LEMMA Ranks ==
  ASSUME NEW P \in SUBSET Nat, IsFiniteSet(P)
  PROVE  /\ Cardinality(P) \in Nat
         /\ \A i \in P : Rank(P, i) \in 0 .. Cardinality(P) - 1
         /\ \A i, j \in P : Rank(P, i) = Rank(P, j) => i = j
         /\ \A k \in 1 .. Cardinality(P) : Nth(P, k) \in P /\ Rank(P, Nth(P, k)) = k - 1
<1> DEFINE n == Cardinality(P)
           Below(i) == {j \in P : j < i}
           r == [i \in P |-> Rank(P, i)]
<1>1. n \in Nat /\ \A i \in Nat : IsFiniteSet(Below(i)) /\ Cardinality(Below(i)) \in Nat
  BY FS_CardinalityType, FS_Subset
<1>2. ASSUME NEW i \in P
      PROVE  Rank(P, i) \in 0 .. n - 1
  <2>1. Below(i) \in SUBSET P /\ Below(i) # P
    OBVIOUS
  <2>2. Cardinality(Below(i)) <= n /\ Cardinality(Below(i)) # n
    BY <2>1, FS_Subset
  <2> HIDE DEF n
  <2>3. Cardinality(Below(i)) \in 0 .. n - 1
    BY <1>1, <2>2
  <2> QED BY <2>3 DEF Rank
<1>3. \A i, j \in P : i < j => Rank(P, i) < Rank(P, j)
  BY RankGrows
<1>4. \A i, j \in P : Rank(P, i) = Rank(P, j) => i = j
  <2> SUFFICES ASSUME NEW i \in P, NEW j \in P, Rank(P, i) = Rank(P, j) PROVE i = j
    OBVIOUS
  <2>1. Rank(P, i) \in Nat /\ ~(i < j) /\ ~(j < i)
    BY <1>1, <1>2, <1>3
  <2> QED BY <2>1
<1>5. r \in [P -> 0 .. n - 1] /\ \A i, j \in P : r[i] = r[j] => i = j
  BY <1>2, <1>4
<1> HIDE DEF r
<1>6. r \in Injection(P, 0 .. n - 1)
  BY <1>5 DEF Injection, IsInjective
<1>7. IsFiniteSet(0 .. n - 1) /\ Cardinality(0 .. n - 1) = n
  <2> HIDE DEF n
  <2> DEFINE m == n - 1
  <2>1. m \in Int /\ 0 \in Int
    BY <1>1
  <2> HIDE DEF m
  <2>2. IsFiniteSet(0 .. m) /\ Cardinality(0 .. m) = IF 0 > m THEN 0 ELSE m - 0 + 1
    BY <2>1, FS_Interval
  <2>3. n = m + 1 /\ n \in Nat
    BY <1>1 DEF m
  <2>4. Cardinality(0 .. m) = n
    BY <2>1, <2>2, <2>3
  <2> QED BY <2>2, <2>4 DEF m
<1>8. r \in Surjection(P, 0 .. n - 1)
  BY <1>6, <1>7, FS_Injection
<1>9. ASSUME NEW k \in 1 .. n
      PROVE  Nth(P, k) \in P /\ Rank(P, Nth(P, k)) = k - 1
  <2>1. k - 1 \in 0 .. n - 1
    <3> HIDE DEF n
    <3> QED BY <1>1
  <2>2. \E i \in P : r[i] = k - 1
    BY <1>8, <2>1 DEF Surjection
  <2>3. \E i \in P : Cardinality({j \in P : j < i}) = k - 1
    BY <2>2 DEF r, Rank
  <2> QED BY <2>3 DEF Nth, Rank
<1> HIDE DEF n
<1>10. n \in Nat /\ \A i \in P : Rank(P, i) \in 0 .. n - 1
  BY <1>1, <1>2
<1> QED BY <1>4, <1>9, <1>10 DEF n

LEMMA NthIs ==
  ASSUME NEW P \in SUBSET Nat, IsFiniteSet(P), NEW i \in P, NEW k \in Nat, Rank(P, i) = k - 1
  PROVE  k \in 1 .. Cardinality(P) /\ Nth(P, k) = i
<1>1. k \in 1 .. Cardinality(P)
  <2> DEFINE n == Cardinality(P)
  <2>1. n \in Nat /\ Rank(P, i) \in 0 .. n - 1
    BY Ranks
  <2> HIDE DEF n
  <2>2. k - 1 \in 0 .. n - 1
    BY <2>1
  <2>3. k \in 1 .. n
    BY <2>1, <2>2
  <2> QED BY <2>3 DEF n
<1>2. Nth(P, k) \in P /\ Rank(P, Nth(P, k)) = Rank(P, i)
  BY <1>1, Ranks
<1>3. \A x, y \in P : Rank(P, x) = Rank(P, y) => x = y
  BY Ranks
<1>4. Nth(P, k) = i
  BY <1>2, <1>3
<1> QED BY <1>1, <1>4

\* The positions of Q, d further on.
Shift(Q, d) == {d + i : i \in Q}

LEMMA ShiftIsAsLarge ==
  ASSUME NEW Q \in SUBSET Nat, IsFiniteSet(Q), NEW d \in Nat
  PROVE  IsFiniteSet(Shift(Q, d)) /\ Cardinality(Shift(Q, d)) = Cardinality(Q)
<1> DEFINE f == [i \in Q |-> d + i]
<1>1. \A i \in Q : i \in Nat
  OBVIOUS
<1>2. f \in [Q -> Shift(Q, d)] /\ \A x \in Shift(Q, d) : \E i \in Q : f[i] = x
  BY DEF Shift
<1>3. \A i, j \in Q : f[i] = f[j] => i = j
  BY <1>1
<1> HIDE DEF f
<1>4. f \in Bijection(Q, Shift(Q, d))
  BY <1>2, <1>3 DEF Bijection, Injection, IsInjective, Surjection
<1> QED BY <1>4, FS_Bijection DEF ExistsBijection

\* Two sets of positions, one wholly before the other.
LEMMA Both ==
  ASSUME NEW d \in Nat, NEW P \in SUBSET (1 .. d), NEW Q \in SUBSET (Nat \ {0}),
         IsFiniteSet(P), IsFiniteSet(Q)
  PROVE  LET R == P \cup Shift(Q, d)
         IN  /\ R \in SUBSET Nat /\ IsFiniteSet(R)
             /\ Cardinality(R) = Cardinality(P) + Cardinality(Q)
             /\ \A i \in P : Rank(R, i) = Rank(P, i)
             /\ \A i \in Q : Rank(R, d + i) = Cardinality(P) + Rank(Q, i)
<1> DEFINE R == P \cup Shift(Q, d)
<1>1. /\ \A i \in P : i \in Nat /\ i <= d
      /\ \A i \in Q : i \in Nat /\ i > 0
  OBVIOUS
<1>2. R \in SUBSET Nat
  <2>1. \A i \in Q : d + i \in Nat
    BY <1>1
  <2>2. \A x \in Shift(Q, d) : x \in Nat
    BY <2>1 DEF Shift
  <2> QED BY <1>1, <2>2
<1>3. ASSUME NEW T \in SUBSET Q
      PROVE  /\ IsFiniteSet(P \cup Shift(T, d))
             /\ Cardinality(P \cup Shift(T, d)) = Cardinality(P) + Cardinality(T)
  <2>1. IsFiniteSet(T) /\ Cardinality(T) \in Nat /\ Cardinality(P) \in Nat
    BY FS_Subset, FS_CardinalityType
  <2>2. IsFiniteSet(Shift(T, d)) /\ Cardinality(Shift(T, d)) = Cardinality(T)
    BY <1>1, <2>1, ShiftIsAsLarge
  <2>3. P \cap Shift(T, d) = {}
    BY <1>1 DEF Shift
  <2> QED BY <2>1, <2>2, <2>3, FS_Union, FS_EmptySet
<1>4. ASSUME NEW i \in P
      PROVE  Rank(R, i) = Rank(P, i)
  <2>1. \A x \in Shift(Q, d) : ~(x < i)
    BY <1>1 DEF Shift
  <2>2. {j \in R : j < i} = {j \in P : j < i}
    BY <2>1
  <2> QED BY <2>2 DEF Rank
<1>5. ASSUME NEW i \in Q
      PROVE  Rank(R, d + i) = Cardinality(P) + Rank(Q, i)
  <2> DEFINE T == {j \in Q : j < i}
  <2>1. \A x \in P : x < d + i
    BY <1>1
  <2>2. ASSUME NEW j \in Q
        PROVE  d + j < d + i <=> j < i
    BY <1>1
  <2>3. {j \in R : j < d + i} = P \cup Shift(T, d)
    BY <2>1, <2>2 DEF Shift
  <2> QED BY <1>3, <2>3 DEF Rank
<1>6. IsFiniteSet(R) /\ Cardinality(R) = Cardinality(P) + Cardinality(Q)
  BY <1>3
<1> HIDE DEF R
<1>7. /\ R \in SUBSET Nat /\ IsFiniteSet(R)
      /\ Cardinality(R) = Cardinality(P) + Cardinality(Q)
      /\ \A i \in P : Rank(R, i) = Rank(P, i)
      /\ \A i \in Q : Rank(R, d + i) = Cardinality(P) + Rank(Q, i)
  BY <1>2, <1>4, <1>5, <1>6
<1> QED BY <1>7 DEF R

LEMMA AtIsASequence ==
  ASSUME NEW S, NEW s \in Seq(S), NEW P \in SUBSET (1 .. Len(s))
  PROVE  /\ IsFiniteSet(P) /\ P \in SUBSET Nat /\ Cardinality(P) \in Nat
         /\ Len(At(s, P)) = Cardinality(P)
         /\ \A i \in P : \A k \in Nat : Rank(P, i) = k - 1 => k \in 1 .. Cardinality(P) /\ At(s, P)[k] = s[i]
         /\ \A k \in 1 .. Cardinality(P) : \E i \in P : Rank(P, i) = k - 1 /\ At(s, P)[k] = s[i]
         /\ \A T : (\A i \in P : s[i] \in T) => At(s, P) \in Seq(T)
<1>1. IsFiniteSet(P) /\ P \in SUBSET Nat /\ Cardinality(P) \in Nat
  <2>1. Len(s) \in Nat
    OBVIOUS
  <2>2. IsFiniteSet(1 .. Len(s)) /\ 1 .. Len(s) \subseteq Nat
    BY <2>1, FS_Interval
  <2> QED BY <2>2, FS_Subset, FS_CardinalityType
<1> DEFINE n == Cardinality(P)
<1>2. \A k \in 1 .. n : Nth(P, k) \in P /\ Rank(P, Nth(P, k)) = k - 1
  BY <1>1, Ranks
<1>3. \A i \in P : \A k \in Nat : Rank(P, i) = k - 1 => k \in 1 .. n /\ Nth(P, k) = i
  BY <1>1, NthIs
<1>4. At(s, P) = [k \in 1 .. n |-> s[Nth(P, k)]]
  BY DEF At
<1>5. n \in Nat
  BY <1>1
<1> HIDE DEF n
<1>6. Len(At(s, P)) = n /\ \A k \in 1 .. n : At(s, P)[k] = s[Nth(P, k)]
  BY <1>4, <1>5
<1>7. ASSUME NEW T, \A i \in P : s[i] \in T
      PROVE  At(s, P) \in Seq(T)
  <2>1. \A k \in 1 .. n : s[Nth(P, k)] \in T
    BY <1>2, <1>7
  <2> QED BY <1>4, <1>5, <2>1
<1>8. \A k \in 1 .. n : \E i \in P : Rank(P, i) = k - 1 /\ At(s, P)[k] = s[i]
  BY <1>2, <1>6
<1>9. \A i \in P : \A k \in Nat : Rank(P, i) = k - 1 => k \in 1 .. n /\ At(s, P)[k] = s[i]
  BY <1>3, <1>6
<1> QED BY <1>1, <1>6, <1>7, <1>8, <1>9 DEF n

LEMMA ConcatIs ==
  ASSUME NEW S, NEW a \in Seq(S), NEW b \in Seq(S), NEW r \in Seq(S),
         Len(r) = Len(a) + Len(b),
         \A k \in 1 .. Len(a) : r[k] = a[k],
         \A k \in 1 .. Len(b) : r[Len(a) + k] = b[k]
  PROVE  r = a \o b
<1> DEFINE p == Len(a)
           q == Len(b)
           c == a \o b
<1>1. /\ p \in Nat /\ q \in Nat /\ c \in Seq(S) /\ Len(c) = p + q
      /\ \A i \in 1 .. p : c[i] = a[i]
      /\ \A i \in 1 .. q : c[p + i] = b[i]
  OBVIOUS
<1> HIDE DEF p, q, c
<1>2. Len(r) = p + q /\ (\A k \in 1 .. p : r[k] = a[k]) /\ (\A k \in 1 .. q : r[p + k] = b[k])
  BY DEF p, q
<1>3. ASSUME NEW i \in 1 .. p + q
      PROVE  r[i] = c[i]
  <2>1. CASE i <= p
    BY <1>1, <1>2, <2>1
  <2>2. CASE i > p
    <3>1. i - p \in 1 .. q /\ p + (i - p) = i
      BY <1>1, <2>2
    <3>2. r[p + (i - p)] = c[p + (i - p)]
      BY <1>1, <1>2, <3>1
    <3> QED BY <3>1, <3>2
  <2> QED BY <1>1, <2>1, <2>2
<1>4. r = c
  <2>1. Len(r) = Len(c) /\ \A i \in 1 .. Len(r) : r[i] = c[i]
    BY <1>1, <1>2, <1>3
  <2> QED BY <1>1, <2>1, SeqEqual
<1> QED BY <1>4 DEF c

Joins(s, t, P, Q) == At(s \o t, P \cup Shift(Q, Len(s))) = At(s, P) \o At(t, Q)

\* What is picked of two sequences, one after the other, is picked of each.
LEMMA AtConcat ==
  ASSUME NEW S, NEW s \in Seq(S), NEW t \in Seq(S),
         NEW P \in SUBSET (1 .. Len(s)), NEW Q \in SUBSET (1 .. Len(t))
  PROVE  Joins(s, t, P, Q)
<1> DEFINE d == Len(s)
           R == P \cup Shift(Q, d)
           p == Cardinality(P)
           q == Cardinality(Q)
           u == s \o t
           a == At(s, P)
           b == At(t, Q)
           r == At(u, R)
<1>1. /\ d \in Nat /\ Len(t) \in Nat /\ u \in Seq(S) /\ Len(u) = d + Len(t)
      /\ \A i \in 1 .. d : u[i] = s[i]
      /\ \A i \in 1 .. Len(t) : u[d + i] = t[i]
  OBVIOUS
<1>2. /\ IsFiniteSet(P) /\ IsFiniteSet(Q) /\ Q \in SUBSET (Nat \ {0})
      /\ a \in Seq(S) /\ b \in Seq(S) /\ Len(a) = p /\ Len(b) = q /\ p \in Nat /\ q \in Nat
  <2>1. (\A i \in P : s[i] \in S) /\ (\A i \in Q : t[i] \in S)
    OBVIOUS
  <2> QED BY <2>1, AtIsASequence
<1>3. /\ Cardinality(R) = p + q
      /\ \A i \in P : Rank(R, i) = Rank(P, i)
      /\ \A i \in Q : Rank(R, d + i) = p + Rank(Q, i)
  BY <1>1, <1>2, Both
<1>4. R \in SUBSET (1 .. Len(u))
  <2> HIDE DEF d, u
  <2>1. \A i \in P : i \in 1 .. Len(u)
    BY <1>1 DEF d
  <2>2. \A i \in Q : d + i \in 1 .. Len(u)
    BY <1>1
  <2> QED BY <2>1, <2>2 DEF Shift
<1>5. /\ Len(r) = p + q
      /\ \A i \in R : \A k \in Nat : Rank(R, i) = k - 1 => k \in 1 .. p + q /\ r[k] = u[i]
      /\ r \in Seq(S)
  <2> HIDE DEF u, R, p, q
  <2>1. u \in Seq(S) /\ R \in SUBSET (1 .. Len(u)) /\ Cardinality(R) = p + q
    BY <1>1, <1>3, <1>4
  <2>2. \A i \in R : u[i] \in S
    BY <2>1
  <2>3. /\ Len(At(u, R)) = Cardinality(R)
        /\ \A i \in R : \A k \in Nat : Rank(R, i) = k - 1 => k \in 1 .. Cardinality(R) /\ At(u, R)[k] = u[i]
        /\ At(u, R) \in Seq(S)
    BY <2>1, <2>2, AtIsASequence
  <2> QED BY <2>1, <2>3
<1>6. ASSUME NEW k \in 1 .. p
      PROVE  r[k] = a[k]
  <2>1. PICK i \in P : Rank(P, i) = k - 1 /\ a[k] = s[i]
    BY AtIsASequence
  <2> HIDE DEF p, q, d, u, r, a
  <2>2. Rank(R, i) = k - 1 /\ i \in R
    BY <1>3, <2>1
  <2>3. k \in Nat /\ u[i] = s[i]
    BY <1>1, <1>2 DEF d
  <2> HIDE DEF R
  <2> QED BY <1>5, <2>1, <2>2, <2>3
<1>7. ASSUME NEW k \in 1 .. q
      PROVE  r[p + k] = b[k]
  <2>1. PICK i \in Q : Rank(Q, i) = k - 1 /\ b[k] = t[i]
    BY AtIsASequence
  <2>2. d + i \in R /\ u[d + i] = t[i] /\ Rank(R, d + i) = p + (k - 1)
    BY <1>1, <1>3, <2>1 DEF Shift
  <2> HIDE DEF p, q, d, u, r, R, b
  <2>3. p + k \in Nat /\ p + (k - 1) = (p + k) - 1
    BY <1>2
  <2> QED BY <1>5, <2>1, <2>2, <2>3
<1> HIDE DEF p, q, d, u, r, a, b, R
<1>8. r = a \o b
  <2>1. Len(r) = Len(a) + Len(b) /\ \A k \in 1 .. Len(a) : r[k] = a[k]
    BY <1>2, <1>5, <1>6
  <2>2. \A k \in 1 .. Len(b) : r[Len(a) + k] = b[k]
    BY <1>2, <1>7
  <2> QED BY <1>2, <1>5, <2>1, <2>2, ConcatIs
<1> QED BY <1>8 DEF r, u, R, a, b, d, Joins

\* Everything, in its order, is what there was.
LEMMA AtAll ==
  ASSUME NEW S, NEW s \in Seq(S)
  PROVE  At(s, 1 .. Len(s)) = s
<1> DEFINE n == Len(s)
           P == 1 .. n
<1>1. n \in Nat /\ \A i \in P : s[i] \in S
  OBVIOUS
<1>2. \A i \in P : Rank(P, i) = i - 1
  <2> HIDE DEF n
  <2> SUFFICES ASSUME NEW i \in P PROVE Rank(P, i) = i - 1
    OBVIOUS
  <2> DEFINE m == i - 1
  <2>1. {j \in P : j < i} = 1 .. m /\ m \in Nat
    BY <1>1
  <2> HIDE DEF m, P
  <2>2. Cardinality(1 .. m) = IF 1 > m THEN 0 ELSE m - 1 + 1
    BY <2>1, FS_Interval
  <2>3. Cardinality(1 .. m) = m
    BY <2>1, <2>2
  <2>4. Rank(P, i) = m
    BY <2>1, <2>3 DEF Rank
  <2> QED BY <2>4 DEF m
<1>3. P \in SUBSET (1 .. Len(s)) /\ Cardinality(P) = n
  <2>1. Cardinality(1 .. n) = IF 1 > n THEN 0 ELSE n - 1 + 1
    BY <1>1, FS_Interval
  <2>2. (IF 1 > n THEN 0 ELSE n - 1 + 1) = n
    <3> HIDE DEF n
    <3> QED BY <1>1
  <2> QED BY <2>1, <2>2
<1> HIDE DEF P
<1>4. /\ Len(At(s, P)) = n /\ At(s, P) \in Seq(S)
      /\ \A i \in P : \A k \in Nat : Rank(P, i) = k - 1 => At(s, P)[k] = s[i]
  <2>1. \A i \in P : s[i] \in S
    BY <1>1
  <2> QED BY <1>3, <2>1, AtIsASequence
<1>5. \A i \in 1 .. n : At(s, P)[i] = s[i]
  <2> SUFFICES ASSUME NEW i \in 1 .. n PROVE At(s, P)[i] = s[i]
    OBVIOUS
  <2>1. i \in P /\ i \in Nat /\ Rank(P, i) = i - 1
    BY <1>2 DEF P
  <2> QED BY <1>4, <2>1
<1>6. Len(At(s, P)) = Len(s) /\ \A i \in 1 .. Len(At(s, P)) : At(s, P)[i] = s[i]
  BY <1>4, <1>5
<1> QED BY <1>4, <1>6, SeqEqual DEF P

LEMMA AtNone ==
  ASSUME NEW S, NEW s \in Seq(S)
  PROVE  At(s, {}) = <<>>
<1>1. Cardinality({}) = 0
  BY FS_EmptySet
<1>2. Len(At(s, {})) = 0 /\ At(s, {}) \in Seq(S)
  BY <1>1, AtIsASequence
<1> QED BY <1>2

-----------------------------------------------------------------------------
(* Newlines and pieces.                                                    *)

Newlines(s) == NewlinesBefore(s, Len(s) + 1)
Bit(s, k)   == At(s, Piece(s, k))

LEMMA Counts ==
  ASSUME NEW S, NEW s \in Seq(S), NEW i \in 1 .. Len(s) + 1
  PROVE  /\ IsFiniteSet({j \in 1 .. i - 1 : s[j] = NL})
         /\ NewlinesBefore(s, i) \in Nat /\ Newlines(s) \in Nat
         /\ NewlinesBefore(s, i) <= Newlines(s)
<1> DEFINE n == Len(s)
           a == {j \in 1 .. i - 1 : s[j] = NL}
           b == {j \in 1 .. n + 1 - 1 : s[j] = NL}
<1>1. n \in Nat /\ IsFiniteSet(1 .. n) /\ 1 .. n + 1 - 1 = 1 .. n
  <2>1. n \in Nat
    OBVIOUS
  <2> HIDE DEF n
  <2> QED BY <2>1, FS_Interval
<1>2. b \in SUBSET (1 .. n) /\ a \in SUBSET b
  <2> HIDE DEF n
  <2>1. \A j \in 1 .. i - 1 : j \in 1 .. n
    BY <1>1 DEF n
  <2> QED BY <1>1, <2>1
<1> HIDE DEF a, b
<1>3. IsFiniteSet(b) /\ IsFiniteSet(a) /\ Cardinality(a) <= Cardinality(b)
      /\ Cardinality(a) \in Nat /\ Cardinality(b) \in Nat
  BY <1>1, <1>2, FS_Subset, FS_CardinalityType
<1> QED BY <1>3 DEF a, b, Newlines, NewlinesBefore

\* A piece is made of text, and is no longer than the whole.
LEMMA BitIs ==
  ASSUME NEW s \in Seq(Chars), NEW k \in Int
  PROVE  /\ Piece(s, k) \in SUBSET (1 .. Len(s))
         /\ Bit(s, k) \in Seq(Text) /\ Len(Bit(s, k)) \in Nat /\ Len(Bit(s, k)) <= Len(s)
<1>1. Piece(s, k) \in SUBSET (1 .. Len(s)) /\ \A i \in Piece(s, k) : s[i] \in Text
  BY DEF Piece, Chars
<1>2. Bit(s, k) \in Seq(Text) /\ Len(Bit(s, k)) = Cardinality(Piece(s, k))
  BY <1>1, AtIsASequence DEF Bit
<1> DEFINE n == Len(s)
           P == Piece(s, k)
<1>3. n \in Nat
  OBVIOUS
<1> HIDE DEF n, P
<1>4. P \in SUBSET (1 .. n) /\ IsFiniteSet(1 .. n)
  BY <1>1, <1>3, FS_Interval DEF n, P
<1>5. Cardinality(1 .. n) = n
  <2>1. Cardinality(1 .. n) = IF 1 > n THEN 0 ELSE n - 1 + 1
    BY <1>3, FS_Interval
  <2> QED BY <1>3, <2>1
<1>6. Cardinality(P) <= Cardinality(1 .. n) /\ Cardinality(P) \in Nat
  BY <1>4, FS_Subset, FS_CardinalityType
<1> QED BY <1>1, <1>2, <1>5, <1>6 DEF n, P

\* Newlines of two sequences are counted one after the other.
LEMMA CountsAdd ==
  ASSUME NEW r \in Seq(Chars), NEW c \in Seq(Chars)
  PROVE  /\ \A i \in 1 .. Len(r) : NewlinesBefore(r \o c, i) = NewlinesBefore(r, i)
         /\ \A i \in 1 .. Len(c) + 1 : NewlinesBefore(r \o c, Len(r) + i) = Newlines(r) + NewlinesBefore(c, i)
         /\ Newlines(r \o c) = Newlines(r) + Newlines(c)
<1> DEFINE d == Len(r)
           e == Len(c)
           u == r \o c
<1>1. /\ d \in Nat /\ e \in Nat /\ u \in Seq(Chars) /\ Len(u) = d + e
      /\ \A i \in 1 .. d : u[i] = r[i]
      /\ \A i \in 1 .. e : u[d + i] = c[i]
  OBVIOUS
<1>2. ASSUME NEW i \in 1 .. d
      PROVE  NewlinesBefore(u, i) = NewlinesBefore(r, i)
  <2> HIDE DEF d, u
  <2>1. \A j \in 1 .. i - 1 : u[j] = r[j]
    BY <1>1
  <2>2. {j \in 1 .. i - 1 : u[j] = NL} = {j \in 1 .. i - 1 : r[j] = NL}
    BY <2>1
  <2> QED BY <2>2 DEF NewlinesBefore
<1>3. ASSUME NEW i \in 1 .. e + 1
      PROVE  NewlinesBefore(u, d + i) = Newlines(r) + NewlinesBefore(c, i)
  <2> DEFINE P == {j \in 1 .. d + 1 - 1 : r[j] = NL}
             Q == {j \in 1 .. i - 1 : c[j] = NL}
             U == {j \in 1 .. d + i - 1 : u[j] = NL}
  <2>0. d + 1 \in 1 .. d + 1
    <3> HIDE DEF d
    <3> QED BY <1>1
  <2>1. IsFiniteSet(P) /\ IsFiniteSet(Q)
    BY <2>0, Counts
  <2> HIDE DEF d, e, u
  <2>2. d + 1 - 1 = d /\ P \in SUBSET (1 .. d) /\ Q \in SUBSET (Nat \ {0})
    BY <1>1
  <2>3. ASSUME NEW j \in U
        PROVE  j \in P \cup Shift(Q, d)
    <3>1. CASE j <= d
      <4>1. j \in 1 .. d /\ u[j] = NL
        BY <1>1, <3>1
      <4> QED BY <1>1, <2>2, <4>1
    <3>2. CASE j > d
      <4>1. j - d \in 1 .. i - 1 /\ j - d \in 1 .. e /\ d + (j - d) = j
        BY <1>1, <3>2
      <4>2. c[j - d] = u[d + (j - d)]
        BY <1>1, <4>1
      <4>3. j - d \in Q
        BY <4>1, <4>2
      <4> QED BY <4>1, <4>3 DEF Shift
    <3> QED BY <1>1, <3>1, <3>2
  <2>4. ASSUME NEW j \in P
        PROVE  j \in U
    <3>1. j \in 1 .. d /\ r[j] = NL /\ j \in 1 .. d + i - 1
      BY <1>1, <2>2
    <3> QED BY <1>1, <3>1
  <2>5. ASSUME NEW j \in Q
        PROVE  d + j \in U
    <3>1. j \in 1 .. e /\ c[j] = NL /\ d + j \in 1 .. d + i - 1
      BY <1>1
    <3> QED BY <1>1, <3>1
  <2>6. U = P \cup Shift(Q, d)
    BY <2>3, <2>4, <2>5 DEF Shift
  <2> HIDE DEF P, Q, U
  <2>7. Cardinality(U) = Cardinality(P) + Cardinality(Q)
    BY <1>1, <2>1, <2>2, <2>6, Both
  <2> QED BY <2>7 DEF P, Q, U, Newlines, NewlinesBefore, d
<1>4. Newlines(u) = Newlines(r) + Newlines(c)
  <2> HIDE DEF d, e, u
  <2>1. e + 1 \in 1 .. e + 1 /\ d + (e + 1) = (d + e) + 1
    BY <1>1
  <2>2. NewlinesBefore(u, d + (e + 1)) = Newlines(r) + NewlinesBefore(c, e + 1)
    BY <1>3, <2>1
  <2> QED BY <1>1, <2>1, <2>2 DEF Newlines, e
<1> QED BY <1>2, <1>3, <1>4

\* A piece of the whole is the piece of the first, then that of the second: of which
\* one has any letters, or both where the one ends and the other begins.
LEMMA BitsJoin ==
  ASSUME NEW r \in Seq(Chars), NEW c \in Seq(Chars), NEW k \in Int
  PROVE  Bit(r \o c, k) = Bit(r, k) \o Bit(c, k - Newlines(r))
<1> DEFINE d == Len(r)
           e == Len(c)
           u == r \o c
           n == Newlines(r)
           P == Piece(r, k)
           Q == Piece(c, k - n)
           U == Piece(u, k)
<1>1. /\ d \in Nat /\ e \in Nat /\ u \in Seq(Chars) /\ Len(u) = d + e
      /\ \A i \in 1 .. d : u[i] = r[i]
      /\ \A i \in 1 .. e : u[d + i] = c[i]
  OBVIOUS
<1>2. /\ n \in Nat
      /\ \A i \in 1 .. d : NewlinesBefore(u, i) = NewlinesBefore(r, i)
      /\ \A i \in 1 .. e : NewlinesBefore(u, d + i) = n + NewlinesBefore(c, i) /\ NewlinesBefore(c, i) \in Nat
  <2>1. \A i \in 1 .. e : i \in 1 .. e + 1
    BY <1>1
  <2>2. 1 \in 1 .. d + 1
    BY <1>1
  <2> QED BY <2>1, <2>2, Counts, CountsAdd
<1> HIDE DEF d, e, u, n
<1>3. ASSUME NEW i \in U
      PROVE  i \in P \cup Shift(Q, d)
  <2>1. i \in 1 .. d + e /\ u[i] # NL /\ NewlinesBefore(u, i) = k - 1
    BY <1>1 DEF Piece
  <2>2. CASE i <= d
    <3>1. i \in 1 .. d
      BY <1>1, <2>1, <2>2
    <3>2. i \in 1 .. Len(r) /\ r[i] # NL /\ NewlinesBefore(r, i) = k - 1
      BY <1>1, <1>2, <2>1, <3>1 DEF d
    <3> QED BY <3>2 DEF Piece
  <2>3. CASE i > d
    <3>1. i - d \in 1 .. e /\ d + (i - d) = i
      BY <1>1, <2>1, <2>3
    <3>2. c[i - d] = u[i] /\ k - 1 = n + NewlinesBefore(c, i - d) /\ NewlinesBefore(c, i - d) \in Nat
      BY <1>1, <1>2, <2>1, <3>1
    <3>3. NewlinesBefore(c, i - d) = (k - n) - 1
      BY <1>2, <3>2
    <3>4. i - d \in Q
      BY <2>1, <3>1, <3>2, <3>3 DEF Piece, e
    <3> QED BY <3>1, <3>4 DEF Shift
  <2> QED BY <1>1, <2>1, <2>2, <2>3
<1>4. ASSUME NEW i \in P
      PROVE  i \in U
  <2>1. i \in 1 .. d /\ r[i] # NL /\ NewlinesBefore(r, i) = k - 1
    BY DEF Piece, d
  <2>2. i \in 1 .. Len(u) /\ u[i] # NL /\ NewlinesBefore(u, i) = k - 1
    BY <1>1, <1>2, <2>1
  <2> QED BY <2>2 DEF Piece
<1>5. ASSUME NEW i \in Q
      PROVE  d + i \in U
  <2>1. i \in 1 .. e /\ c[i] # NL /\ NewlinesBefore(c, i) = (k - n) - 1
    BY DEF Piece, e
  <2>2. d + i \in 1 .. Len(u) /\ u[d + i] # NL
    BY <1>1, <2>1
  <2>3. NewlinesBefore(u, d + i) = k - 1
    BY <1>2, <2>1
  <2> QED BY <2>2, <2>3 DEF Piece
<1>6. U = P \cup Shift(Q, d)
  BY <1>3, <1>4, <1>5 DEF Shift
<1>7. P \in SUBSET (1 .. Len(r)) /\ Q \in SUBSET (1 .. Len(c))
  BY DEF Piece
<1> HIDE DEF P, Q, U
<1>8. Joins(r, c, P, Q)
  BY <1>7, AtConcat
<1> QED BY <1>6, <1>8 DEF Joins, Bit, P, Q, U, u, n, d

LEMMA NoBit ==
  ASSUME NEW s \in Seq(Chars), NEW k \in Int, k < 1 \/ k > Newlines(s) + 1
  PROVE  Bit(s, k) = <<>>
<1>1. Len(s) \in Nat /\ 1 \in 1 .. Len(s) + 1
  OBVIOUS
<1>2. \A i \in 1 .. Len(s) : NewlinesBefore(s, i) \in Nat /\ NewlinesBefore(s, i) <= Newlines(s)
  <2>1. \A i \in 1 .. Len(s) : i \in 1 .. Len(s) + 1
    BY <1>1
  <2> QED BY <2>1, Counts
<1>3. Newlines(s) \in Nat
  BY <1>1, Counts
<1>4. \A i \in 1 .. Len(s) : NewlinesBefore(s, i) # k - 1
  BY <1>2, <1>3
<1>5. Piece(s, k) = {}
  BY <1>4 DEF Piece
<1> QED BY <1>5, AtNone DEF Bit

LEMMA TextIsOneBit ==
  ASSUME NEW b \in Seq(Text)
  PROVE  b \in Seq(Chars) /\ Newlines(b) = 0 /\ Bit(b, 1) = b
<1>1. b \in Seq(Chars) /\ Len(b) \in Nat /\ \A i \in 1 .. Len(b) : b[i] # NL
  <2>1. NL \notin Text
    <3>1. NL \notin Letters /\ NL # Wide /\ NL # Replacement
      BY FramingAssumption
    <3> QED BY <3>1 DEF Text
  <2>2. Text \subseteq Chars
    BY DEF Chars
  <2>3. \A i \in 1 .. Len(b) : b[i] \in Text
    OBVIOUS
  <2> QED BY <2>1, <2>2, <2>3
<1> DEFINE d == Len(b)
<1> HIDE DEF d
<1>2. \A i \in 1 .. d + 1 : NewlinesBefore(b, i) = 0
  <2> SUFFICES ASSUME NEW i \in 1 .. d + 1 PROVE NewlinesBefore(b, i) = 0
    OBVIOUS
  <2>1. \A j \in 1 .. i - 1 : j \in 1 .. d
    BY <1>1 DEF d
  <2>2. {j \in 1 .. i - 1 : b[j] = NL} = {}
    BY <1>1, <2>1 DEF d
  <2> QED BY <2>2, FS_EmptySet DEF NewlinesBefore
<1>3. Newlines(b) = 0
  <2>1. d + 1 \in 1 .. d + 1
    BY <1>1 DEF d
  <2> QED BY <1>2, <2>1 DEF Newlines, d
<1>4. Piece(b, 1) = 1 .. Len(b)
  <2>1. \A i \in 1 .. d : i \in 1 .. d + 1
    BY <1>1 DEF d
  <2>2. \A i \in 1 .. d : NewlinesBefore(b, i) = 1 - 1
    BY <1>2, <2>1
  <2> QED BY <1>1, <2>2 DEF Piece, d
<1> QED BY <1>1, <1>3, <1>4, AtAll DEF Bit

\* What is kept of a line goes before the next chunk, and changes only its first piece.
LEMMA Carry ==
  ASSUME NEW b \in Seq(Text), NEW c \in Seq(Chars)
  PROVE  /\ b \o c \in Seq(Chars) /\ Newlines(b \o c) = Newlines(c)
         /\ Bit(b \o c, 1) = b \o Bit(c, 1)
         /\ \A k \in Nat : k > 1 => Bit(b \o c, k) = Bit(c, k)
<1>1. b \in Seq(Chars) /\ Newlines(b) = 0 /\ Bit(b, 1) = b
  BY TextIsOneBit
<1>2. b \o c \in Seq(Chars)
  BY <1>1
<1>3. Newlines(c) \in Nat
  <2>1. 1 \in 1 .. Len(c) + 1
    OBVIOUS
  <2> QED BY <2>1, Counts
<1>4. Newlines(b \o c) = Newlines(c)
  BY <1>1, <1>3, CountsAdd
<1>5. ASSUME NEW k \in Int
      PROVE  Bit(b \o c, k) = Bit(b, k) \o Bit(c, k)
  <2>1. Bit(b \o c, k) = Bit(b, k) \o Bit(c, k - Newlines(b))
    BY <1>1, BitsJoin
  <2>2. k - Newlines(b) = k
    BY <1>1
  <2> QED BY <2>1, <2>2
<1>6. ASSUME NEW k \in Nat, k > 1
      PROVE  Bit(b \o c, k) = Bit(c, k)
  <2>1. Bit(b, k) = <<>>
    BY <1>1, <1>6, NoBit
  <2>2. Bit(c, k) \in Seq(Text)
    BY BitIs
  <2>3. <<>> \o Bit(c, k) = Bit(c, k)
    BY <2>2, ConcatEmptySeq
  <2>4. Bit(b \o c, k) = Bit(b, k) \o Bit(c, k)
    <3>1. k \in Int
      OBVIOUS
    <3> QED BY <1>5, <3>1, Zenon
  <2> QED BY <2>1, <2>3, <2>4
<1>7. Bit(b \o c, 1) = b \o Bit(c, 1)
  <2>1. 1 \in Int
    OBVIOUS
  <2>2. Bit(b \o c, 1) = Bit(b, 1) \o Bit(c, 1)
    BY <1>5, <2>1, Zenon
  <2> QED BY <1>1, <2>2
<1> QED BY <1>2, <1>4, <1>6, <1>7

\* A chunk changes only the last piece of what came before, and the pieces that begin
\* there are those of that piece and the chunk.
LEMMA Grow ==
  ASSUME NEW r \in Seq(Chars), NEW c \in Seq(Chars)
  PROVE  LET n    == Newlines(r)
             full == Bit(r, n + 1)
         IN  /\ n \in Nat /\ Newlines(c) \in Nat /\ Newlines(r \o c) = n + Newlines(c)
             /\ full \in Seq(Text)
             /\ \A k \in 1 .. n : Bit(r \o c, k) = Bit(r, k)
             /\ \A k \in Nat \ {0} : Bit(r \o c, n + k) = Bit(full \o c, k)
<1> DEFINE n == Newlines(r)
           full == Bit(r, n + 1)
<1>1. n \in Nat /\ Newlines(c) \in Nat
  <2>1. 1 \in 1 .. Len(c) + 1 /\ 1 \in 1 .. Len(r) + 1
    OBVIOUS
  <2> QED BY <2>1, Counts
<1>2. Newlines(r \o c) = n + Newlines(c)
  BY CountsAdd
<1> HIDE DEF n
<1>3. full \in Seq(Text)
  BY <1>1, BitIs
<1>4. ASSUME NEW k \in 1 .. n
      PROVE  Bit(r \o c, k) = Bit(r, k)
  <2>1. k \in Int /\ k - n \in Int /\ k - n < 1
    BY <1>1
  <2>2. Bit(c, k - n) = <<>>
    BY <2>1, NoBit
  <2>3. Bit(r, k) \in Seq(Text)
    BY <2>1, BitIs
  <2>4. Bit(r \o c, k) = Bit(r, k) \o Bit(c, k - n)
    BY <2>1, BitsJoin DEF n
  <2> QED BY <2>2, <2>3, <2>4, ConcatEmptySeq
<1>5. ASSUME NEW k \in Nat \ {0}
      PROVE  Bit(r \o c, n + k) = Bit(full \o c, k)
  <2>1. n + k \in Int /\ (n + k) - n = k /\ k \in Int
    BY <1>1
  <2>2. Bit(r \o c, n + k) = Bit(r, n + k) \o Bit(c, k)
    <3>1. Bit(r \o c, n + k) = Bit(r, n + k) \o Bit(c, (n + k) - n)
      BY <2>1, BitsJoin DEF n
    <3> QED BY <2>1, <3>1
  <2>3. Bit(c, k) \in Seq(Text)
    BY <2>1, BitIs
  <2> HIDE DEF full
  <2>4. /\ Bit(full \o c, 1) = full \o Bit(c, 1)
        /\ \A m \in Nat : m > 1 => Bit(full \o c, m) = Bit(c, m)
    BY <1>3, Carry
  <2>5. CASE k = 1
    BY <2>2, <2>4, <2>5 DEF full
  <2>6. CASE k > 1
    <3>1. n + k > n + 1
      BY <1>1, <2>6
    <3>2. Bit(r, n + k) = <<>>
      BY <2>1, <3>1, NoBit DEF n
    <3> QED BY <2>2, <2>3, <2>4, <2>6, <3>2, ConcatEmptySeq
  <2> QED BY <2>5, <2>6
<1> HIDE DEF full
<1>6. /\ n \in Nat /\ Newlines(c) \in Nat /\ Newlines(r \o c) = n + Newlines(c)
      /\ full \in Seq(Text)
      /\ \A k \in 1 .. n : Bit(r \o c, k) = Bit(r, k)
      /\ \A k \in Nat \ {0} : Bit(r \o c, n + k) = Bit(full \o c, k)
  BY <1>1, <1>2, <1>3, <1>4, <1>5
<1> QED BY <1>6 DEF n, full

LEMMA SplitIs ==
  ASSUME NEW s \in Seq(Chars)
  PROVE  /\ Newlines(s) \in Nat
         /\ Last(Split(s)) = Bit(s, Newlines(s) + 1)
         /\ Front(Split(s)) \in Seq(Seq(Text)) /\ Len(Front(Split(s))) = Newlines(s)
         /\ \A k \in 1 .. Newlines(s) : Front(Split(s))[k] = Bit(s, k)
         /\ DOMAIN Split(s) = 1 .. Newlines(s) + 1
         /\ \A k \in 1 .. Newlines(s) + 1 : Split(s)[k] = Bit(s, k)
<1> DEFINE n == Newlines(s)
           q == Split(s)
<1>1. n \in Nat
  <2>1. 1 \in 1 .. Len(s) + 1
    OBVIOUS
  <2> QED BY <2>1, Counts
<1>2. q = [k \in 1 .. n + 1 |-> Bit(s, k)]
  BY DEF Split, Bit, Newlines
<1> HIDE DEF n, q
<1>3. \A k \in 1 .. n + 1 : Bit(s, k) \in Seq(Text)
  <2>1. \A k \in 1 .. n + 1 : k \in Int
    BY <1>1
  <2> QED BY <2>1, BitIs
<1>4. Len(q) = n + 1 /\ \A k \in 1 .. n + 1 : q[k] = Bit(s, k)
  BY <1>1, <1>2
<1>5. Last(q) = Bit(s, n + 1)
  BY <1>1, <1>4 DEF Last
<1>6. Len(q) - 1 = n /\ Front(q) = SubSeq(q, 1, n)
  BY <1>1, <1>4 DEF Front
<1>7. \A k \in 1 .. n : k \in 1 .. n + 1 /\ q[k] \in Seq(Text)
  BY <1>1, <1>3, <1>4
<1>8. /\ Front(q) \in Seq(Seq(Text)) /\ Len(Front(q)) = n
      /\ \A k \in 1 .. n : Front(q)[k] = q[k]
  <2>1. 1 \in Int /\ n \in Int /\ (IF 1 <= n THEN n - 1 + 1 ELSE 0) = n /\ n - 1 + 1 = n
    BY <1>1
  <2>2. /\ SubSeq(q, 1, n) \in Seq(Seq(Text))
        /\ Len(SubSeq(q, 1, n)) = IF 1 <= n THEN n - 1 + 1 ELSE 0
        /\ \A k \in 1 .. n - 1 + 1 : SubSeq(q, 1, n)[k] = q[1 + k - 1]
    BY <1>7, <2>1, SubSeqProperties
  <2>3. \A k \in 1 .. n : 1 + k - 1 = k
    BY <1>1
  <2> QED BY <1>6, <2>1, <2>2, <2>3
<1> QED BY <1>1, <1>2, <1>4, <1>5, <1>7, <1>8 DEF n, q

LEMMA MessagesAre ==
  ASSUME NEW a \in Seq(Seq(Text))
  PROVE  /\ Messages(a) \in Seq(Seq(Text))
         /\ \A i \in DOMAIN Messages(a) : \E j \in 1 .. Len(a) : Messages(a)[i] = a[j]
<1> DEFINE P == {i \in DOMAIN a : a[i] # <<>>}
<1>1. P \in SUBSET (1 .. Len(a)) /\ \A i \in P : a[i] \in Seq(Text)
  OBVIOUS
<1> HIDE DEF P
<1>2. /\ At(a, P) \in Seq(Seq(Text)) /\ Len(At(a, P)) = Cardinality(P)
      /\ \A k \in 1 .. Cardinality(P) : \E i \in P : At(a, P)[k] = a[i]
  BY <1>1, AtIsASequence
<1>3. \A k \in DOMAIN At(a, P) : \E j \in 1 .. Len(a) : At(a, P)[k] = a[j]
  BY <1>1, <1>2
<1> QED BY <1>2, <1>3 DEF Messages, P

LEMMA MessagesAdd ==
  ASSUME NEW a \in Seq(Seq(Text)), NEW b \in Seq(Seq(Text))
  PROVE  Messages(a \o b) = Messages(a) \o Messages(b)
<1> DEFINE d == Len(a)
           e == Len(b)
           u == a \o b
           P == {i \in DOMAIN a : a[i] # <<>>}
           Q == {i \in DOMAIN b : b[i] # <<>>}
           U == {i \in DOMAIN u : u[i] # <<>>}
<1>1. /\ d \in Nat /\ e \in Nat /\ DOMAIN a = 1 .. d /\ DOMAIN b = 1 .. e /\ DOMAIN u = 1 .. d + e
      /\ \A i \in 1 .. d : u[i] = a[i]
      /\ \A i \in 1 .. e : u[d + i] = b[i]
  OBVIOUS
<1> HIDE DEF d, e, u
<1>2. ASSUME NEW i \in U
      PROVE  i \in P \cup Shift(Q, d)
  <2>1. i \in 1 .. d + e /\ u[i] # <<>>
    BY <1>1
  <2>2. CASE i <= d
    BY <1>1, <2>1, <2>2
  <2>3. CASE i > d
    <3>1. i - d \in 1 .. e /\ d + (i - d) = i
      BY <1>1, <2>1, <2>3
    <3>2. i - d \in Q
      BY <1>1, <2>1, <3>1
    <3> QED BY <3>1, <3>2 DEF Shift
  <2> QED BY <1>1, <2>1, <2>2, <2>3
<1>3. \A i \in P : i \in U
  <2>1. \A i \in 1 .. d : i \in 1 .. d + e
    BY <1>1
  <2> QED BY <1>1, <2>1
<1>4. \A i \in Q : d + i \in U
  <2>1. \A i \in 1 .. e : d + i \in 1 .. d + e
    BY <1>1
  <2> QED BY <1>1, <2>1
<1>5. U = P \cup Shift(Q, d)
  BY <1>2, <1>3, <1>4 DEF Shift
<1>6. P \in SUBSET (1 .. Len(a)) /\ Q \in SUBSET (1 .. Len(b))
  BY <1>1 DEF d, e
<1> HIDE DEF P, Q, U
<1>7. Joins(a, b, P, Q)
  BY <1>6, AtConcat
<1> QED BY <1>5, <1>7 DEF Joins, Messages, P, Q, U, u, d

-----------------------------------------------------------------------------
(* Decoding.  What is kept of what is kept.                                *)

Twice(s, P, T) ==
  At(At(s, P), {k \in 1 .. Len(At(s, P)) : At(s, P)[k] \in T}) = At(s, {i \in P : s[i] \in T})

\* Picking twice is picking once.
LEMMA AtAt ==
  ASSUME NEW S, NEW s \in Seq(S), NEW P \in SUBSET (1 .. Len(s)), NEW T
  PROVE  Twice(s, P, T)
<1> DEFINE a == At(s, P)
           n == Cardinality(P)
           Q == {k \in 1 .. n : a[k] \in T}
           R == {i \in P : s[i] \in T}
           g == [k \in Q |-> Nth(P, k)]
<1>1. /\ IsFiniteSet(P) /\ P \in SUBSET Nat /\ n \in Nat /\ Len(a) = n /\ a \in Seq(S)
      /\ a = [k \in 1 .. n |-> s[Nth(P, k)]]
  <2>1. \A i \in P : s[i] \in S
    OBVIOUS
  <2> QED BY <2>1, AtIsASequence DEF At
<1>2. /\ \A k \in 1 .. n : Nth(P, k) \in P /\ Rank(P, Nth(P, k)) = k - 1 /\ a[k] = s[Nth(P, k)]
      /\ \A i, j \in P : Rank(P, i) = Rank(P, j) => i = j
      /\ \A i \in P : Rank(P, i) \in 0 .. n - 1
  BY <1>1, Ranks
<1> HIDE DEF a, n
<1>3. \A k, m \in 1 .. n : (Nth(P, k) < Nth(P, m) <=> k < m) /\ (Nth(P, k) = Nth(P, m) => k = m)
  <2>1. \A k, m \in 1 .. n : Nth(P, k) = Nth(P, m) => k = m
    BY <1>1, <1>2
  <2>2. ASSUME NEW k \in 1 .. n, NEW m \in 1 .. n, Nth(P, k) < Nth(P, m)
        PROVE  k < m
    <3>1. Rank(P, Nth(P, k)) < Rank(P, Nth(P, m))
      BY <1>1, <1>2, <2>2, RankGrows
    <3> QED BY <1>1, <1>2, <3>1
  <2>3. \A k \in 1 .. n : Nth(P, k) \in Nat
    BY <1>1, <1>2
  <2>4. ASSUME NEW k \in 1 .. n, NEW m \in 1 .. n, k < m
        PROVE  Nth(P, k) < Nth(P, m)
    <3>1. ~(Nth(P, m) < Nth(P, k)) /\ Nth(P, m) # Nth(P, k)
      BY <1>1, <2>1, <2>2, <2>4
    <3> QED BY <2>3, <3>1
  <2> QED BY <2>1, <2>2, <2>4
<1>4. \A i \in P : \E k \in 1 .. n : Nth(P, k) = i
  <2> SUFFICES ASSUME NEW i \in P PROVE \E k \in 1 .. n : Nth(P, k) = i
    OBVIOUS
  <2>1. Rank(P, i) + 1 \in 1 .. n
    BY <1>1, <1>2
  <2>2. Rank(P, Nth(P, Rank(P, i) + 1)) = Rank(P, i) /\ Nth(P, Rank(P, i) + 1) \in P
    BY <1>1, <1>2, <2>1
  <2> QED BY <1>2, <2>1, <2>2
<1>5. Q \in SUBSET (1 .. n) /\ R \in SUBSET P /\ Q \in SUBSET Nat /\ IsFiniteSet(Q) /\ IsFiniteSet(R)
      /\ R \in SUBSET Nat
  <2>1. Q \in SUBSET (1 .. n) /\ R \in SUBSET P
    OBVIOUS
  <2>2. IsFiniteSet(1 .. n) /\ 1 .. n \in SUBSET Nat
    BY <1>1, FS_Interval
  <2> HIDE DEF Q, R
  <2>3. IsFiniteSet(Q) /\ IsFiniteSet(R)
    BY <1>1, <2>1, <2>2, FS_Subset
  <2> QED BY <1>1, <2>1, <2>2, <2>3
<1>6. \A k \in Q : g[k] \in R /\ g[k] = Nth(P, k)
  BY <1>2
<1>7. \A i \in R : \E k \in Q : g[k] = i
  BY <1>2, <1>4
<1> HIDE DEF Q, R, g
<1>8. \A X \in SUBSET Q : \A Y \in SUBSET R :
        (\A k \in X : g[k] \in Y) /\ (\A i \in Y : \E k \in X : g[k] = i)
        => IsFiniteSet(X) /\ Cardinality(X) = Cardinality(Y)
  <2> SUFFICES ASSUME NEW X \in SUBSET Q, NEW Y \in SUBSET R,
                      \A k \in X : g[k] \in Y, \A i \in Y : \E k \in X : g[k] = i
               PROVE  IsFiniteSet(X) /\ Cardinality(X) = Cardinality(Y)
    OBVIOUS
  <2> DEFINE h == [k \in X |-> g[k]]
  <2>1. h \in [X -> Y] /\ \A k, m \in X : h[k] = h[m] => k = m
    BY <1>3, <1>5, <1>6
  <2>2. \A i \in Y : \E k \in X : h[k] = i
    OBVIOUS
  <2> HIDE DEF h
  <2>3. h \in Bijection(X, Y)
    BY <2>1, <2>2 DEF Bijection, Injection, IsInjective, Surjection
  <2>4. IsFiniteSet(X)
    BY <1>5, FS_Subset
  <2> QED BY <2>3, <2>4, FS_Bijection DEF ExistsBijection
<1>9. Cardinality(Q) = Cardinality(R)
  BY <1>6, <1>7, <1>8
<1>10. ASSUME NEW k \in Q
       PROVE  Rank(R, g[k]) = Rank(Q, k)
  <2> DEFINE X == {m \in Q : m < k}
             Y == {i \in R : i < g[k]}
  <2>1. \A m \in X : g[m] \in Y
    BY <1>3, <1>5, <1>6
  <2>2. \A i \in Y : \E m \in X : g[m] = i
    <3> SUFFICES ASSUME NEW i \in Y PROVE \E m \in X : g[m] = i
      OBVIOUS
    <3>1. PICK m \in Q : g[m] = i
      BY <1>7
    <3>2. m < k
      BY <1>3, <1>5, <1>6, <3>1
    <3> QED BY <3>1, <3>2
  <2>3. X \in SUBSET Q /\ Y \in SUBSET R
    OBVIOUS
  <2> HIDE DEF X, Y
  <2>4. Cardinality(X) = Cardinality(Y)
    BY <1>8, <2>1, <2>2, <2>3
  <2> QED BY <2>4 DEF X, Y, Rank
<1> DEFINE x == At(a, Q)
           y == At(s, R)
<1>11. /\ Len(x) = Cardinality(Q) /\ x \in Seq(S) /\ Cardinality(Q) \in Nat
       /\ \A k \in 1 .. Cardinality(Q) : \E m \in Q : Rank(Q, m) = k - 1 /\ x[k] = a[m]
  <2>1. a \in Seq(S) /\ Q \in SUBSET (1 .. Len(a)) /\ \A i \in Q : a[i] \in S
    BY <1>1, <1>5
  <2> QED BY <2>1, AtIsASequence
<1>12. /\ Len(y) = Cardinality(R) /\ y \in Seq(S)
       /\ \A i \in R : \A k \in Nat : Rank(R, i) = k - 1 => y[k] = s[i]
  <2>1. R \in SUBSET (1 .. Len(s)) /\ \A i \in R : s[i] \in S
    BY <1>5
  <2> QED BY <2>1, AtIsASequence
<1> HIDE DEF x, y
<1>13. ASSUME NEW k \in 1 .. Cardinality(Q)
       PROVE  x[k] = y[k]
  <2>1. PICK m \in Q : Rank(Q, m) = k - 1 /\ x[k] = a[m]
    BY <1>11
  <2>2. Rank(R, g[m]) = k - 1 /\ g[m] \in R /\ k \in Nat
    BY <1>6, <1>10, <1>11, <2>1
  <2>3. y[k] = s[g[m]]
    BY <1>12, <2>2
  <2>4. a[m] = s[g[m]]
    BY <1>2, <1>5, <1>6
  <2> QED BY <2>1, <2>3, <2>4
<1>14. x = y
  BY <1>9, <1>11, <1>12, <1>13, SeqEqual
<1>15. At(a, {k \in 1 .. Len(a) : a[k] \in T}) = At(s, {i \in P : s[i] \in T})
  BY <1>1, <1>14 DEF x, y, Q, R
<1> QED BY <1>15 DEF a, Twice

LEMMA DecodeIs ==
  ASSUME NEW s \in Seq(Bytes)
  PROVE  Decode(s) \in Seq(Chars)
<1> DEFINE n == Len(s)
           c == [i \in 1 .. n |-> CharAt(s, i)]
           P == {i \in 1 .. n : ~Completes(s, i)}
<1>1. n \in Nat
  OBVIOUS
<1>2. \A i \in 1 .. n : c[i] \in Chars
  BY DEF CharAt, Chars, Text
<1>3. c \in Seq(Chars) /\ Len(c) = n
  <2> HIDE DEF n
  <2>1. c \in [1 .. n -> Chars]
    BY <1>2
  <2> HIDE DEF c
  <2> QED BY <1>1, <2>1
<1>4. P \in SUBSET (1 .. Len(c)) /\ \A i \in P : c[i] \in Chars
  BY <1>2, <1>3
<1> HIDE DEF P, c
<1>5. At(c, P) \in Seq(Chars)
  BY <1>3, <1>4, AtIsASequence
<1> QED BY <1>5 DEF Decode, c, P, n

LEMMA NothingToDecode == Decode(<<>>) = <<>>
<1> DEFINE c == [i \in 1 .. Len(<<>>) |-> CharAt(<<>>, i)]
           P == {i \in 1 .. Len(<<>>) : ~Completes(<<>>, i)}
<1>1. P = {} /\ c = <<>>
  OBVIOUS
<1>2. <<>> \in Seq(Chars)
  OBVIOUS
<1> HIDE DEF P, c
<1>3. At(c, P) = <<>>
  BY <1>1, <1>2, AtNone
<1> QED BY <1>3 DEF Decode, P, c

\* Two chunks that have no character between them may as well be one.
LEMMA DecodeConcat ==
  ASSUME NEW a \in Seq(Bytes), NEW b \in Seq(Bytes), ~Severs(a, b)
  PROVE  Decode(a \o b) = Decode(a) \o Decode(b)
<1> DEFINE d == Len(a)
           e == Len(b)
           u == a \o b
           C(s) == [i \in 1 .. Len(s) |-> CharAt(s, i)]
           P(s) == {i \in 1 .. Len(s) : ~Completes(s, i)}
<1>1. /\ d \in Nat /\ e \in Nat /\ u \in Seq(Bytes) /\ Len(u) = d + e
      /\ \A i \in 1 .. d : u[i] = a[i]
      /\ \A i \in 1 .. e : u[d + i] = b[i]
      /\ (a # <<>> <=> d > 0) /\ (b # <<>> <=> e > 0)
  OBVIOUS
<1>2. ~(d > 0 /\ e > 0 /\ a[d] = Lead /\ b[1] = Follow)
  BY <1>1 DEF Severs
<1> HIDE DEF d, e, u
<1>3. ASSUME NEW i \in 1 .. d
      PROVE  (Completes(u, i) <=> Completes(a, i)) /\ CharAt(u, i) = CharAt(a, i)
  <2>1. u[i] = a[i] /\ i \in Nat /\ i > 0 /\ i <= d
    BY <1>1
  <2>2. i > 1 => u[i - 1] = a[i - 1]
    BY <1>1, <2>1
  <2>3. i < d => u[i + 1] = a[i + 1] /\ i < d + e
    BY <1>1, <2>1
  <2>4. i = d /\ i < d + e => u[i + 1] = b[1] /\ e > 0 /\ d > 0
    BY <1>1, <2>1
  <2>5. Opens(u, i) <=> Opens(a, i)
    <3>1. Opens(a, i) <=> i < d /\ a[i] = Lead /\ a[i + 1] = Follow
      BY DEF Opens, d
    <3>2. Opens(u, i) <=> i < d + e /\ a[i] = Lead /\ u[i + 1] = Follow
      BY <1>1, <2>1 DEF Opens
    <3>3. i < d \/ i = d
      BY <1>1, <2>1
    <3>4. ~(d < d)
      BY <1>1
    <3>5. CASE i < d
      BY <2>3, <3>1, <3>2, <3>5
    <3>6. CASE i = d
      BY <1>2, <2>4, <3>1, <3>2, <3>4, <3>6
    <3> QED BY <3>3, <3>5, <3>6
  <2> QED BY <2>1, <2>2, <2>5 DEF Completes, CharAt
<1>4. ASSUME NEW i \in 1 .. e
      PROVE  (Completes(u, d + i) <=> Completes(b, i)) /\ CharAt(u, d + i) = CharAt(b, i)
  <2>1. u[d + i] = b[i] /\ i \in Nat /\ i > 0 /\ i <= e
    BY <1>1
  <2>2. i > 1 => u[(d + i) - 1] = b[i - 1] /\ d + i > 1
    <3>1. i > 1 => i - 1 \in 1 .. e /\ d + (i - 1) = (d + i) - 1 /\ d + i > 1
      BY <1>1, <2>1
    <3> QED BY <1>1, <3>1
  <2>3. i < e => u[(d + i) + 1] = b[i + 1]
    <3>1. i < e => i + 1 \in 1 .. e /\ d + (i + 1) = (d + i) + 1
      BY <1>1, <2>1
    <3> QED BY <1>1, <3>1
  <2>4. d + i < d + e <=> i < e
    BY <1>1, <2>1
  <2>5. Opens(u, d + i) <=> Opens(b, i)
    BY <1>1, <2>1, <2>3, <2>4 DEF Opens, e
  <2>6. Completes(u, d + i) <=> Completes(b, i)
    <3>1. CASE i > 1
      BY <2>1, <2>2, <3>1 DEF Completes
    <3>2. CASE i = 1
      <4>1. ~Completes(b, i)
        BY <3>2 DEF Completes
      <4>2. (d + i) - 1 = d /\ (d + i > 1 => d \in 1 .. d /\ d > 0 /\ e > 0)
        BY <1>1, <2>1, <3>2
      <4>3. ~Completes(u, d + i)
        BY <1>1, <1>2, <2>1, <3>2, <4>2 DEF Completes
      <4> QED BY <4>1, <4>3
    <3> QED BY <2>1, <3>1, <3>2
  <2> QED BY <2>1, <2>5, <2>6 DEF CharAt
<1>5. \A s \in Seq(Bytes) : C(s) \in Seq(Chars) /\ Len(C(s)) = Len(s)
  <2> SUFFICES ASSUME NEW s \in Seq(Bytes) PROVE C(s) \in Seq(Chars) /\ Len(C(s)) = Len(s)
    OBVIOUS
  <2>1. \A i \in 1 .. Len(s) : CharAt(s, i) \in Chars
    BY DEF CharAt, Chars, Text
  <2>2. C(s) \in [1 .. Len(s) -> Chars] /\ Len(s) \in Nat
    BY <2>1
  <2> HIDE DEF C
  <2> QED BY <2>2
<1>6. C(u) = C(a) \o C(b)
  <2>1. /\ C(a) \in Seq(Chars) /\ C(b) \in Seq(Chars) /\ C(u) \in Seq(Chars)
        /\ Len(C(a)) = d /\ Len(C(b)) = e /\ Len(C(u)) = d + e
    BY <1>1, <1>5 DEF d, e
  <2>2. \A k \in 1 .. d : C(u)[k] = C(a)[k]
    <3>1. \A k \in 1 .. d : k \in 1 .. Len(u)
      BY <1>1
    <3> QED BY <1>3, <3>1 DEF d
  <2>3. \A k \in 1 .. e : C(u)[d + k] = C(b)[k]
    <3>1. \A k \in 1 .. e : d + k \in 1 .. Len(u)
      BY <1>1
    <3> QED BY <1>4, <3>1 DEF e
  <2> HIDE DEF C
  <2> QED BY <2>1, <2>2, <2>3, ConcatIs
<1>7. P(u) = P(a) \cup Shift(P(b), d)
  <2>1. ASSUME NEW i \in P(u)
        PROVE  i \in P(a) \cup Shift(P(b), d)
    <3>1. i \in 1 .. d \/ (i - d \in 1 .. e /\ d + (i - d) = i)
      BY <1>1, <2>1
    <3>2. CASE i \in 1 .. d
      BY <1>3, <2>1, <3>2 DEF d
    <3>3. CASE i - d \in 1 .. e /\ d + (i - d) = i
      <4>1. ~Completes(b, i - d)
        BY <1>4, <2>1, <3>3
      <4>2. i - d \in P(b)
        BY <3>3, <4>1 DEF e
      <4> QED BY <3>3, <4>2 DEF Shift
    <3> QED BY <3>1, <3>2, <3>3
  <2>2. ASSUME NEW i \in P(a)
        PROVE  i \in P(u)
    <3>1. i \in 1 .. d /\ i \in 1 .. Len(u)
      BY <1>1, <2>2 DEF d
    <3> QED BY <1>3, <2>2, <3>1
  <2>3. ASSUME NEW i \in P(b)
        PROVE  d + i \in P(u)
    <3>1. i \in 1 .. e /\ d + i \in 1 .. Len(u)
      BY <1>1, <2>3 DEF e
    <3> QED BY <1>4, <2>3, <3>1
  <2>4. \A i \in Shift(P(b), d) : i \in P(u)
    BY <2>3 DEF Shift
  <2> QED BY <2>1, <2>2, <2>4
<1>8. \A s : Decode(s) = At(C(s), P(s))
  BY DEF Decode
<1>9. /\ C(a) \in Seq(Chars) /\ C(b) \in Seq(Chars) /\ Len(C(a)) = d
      /\ P(a) \in SUBSET (1 .. Len(C(a))) /\ P(b) \in SUBSET (1 .. Len(C(b)))
  <2>1. P(a) \in SUBSET (1 .. Len(a)) /\ P(b) \in SUBSET (1 .. Len(b))
    OBVIOUS
  <2> HIDE DEF C, P
  <2> QED BY <1>5, <2>1 DEF d
<1> HIDE DEF C, P
<1>10. Joins(C(a), C(b), P(a), P(b))
  BY <1>9, AtConcat
<1>11. At(C(a) \o C(b), P(a) \cup Shift(P(b), d)) = At(C(a), P(a)) \o At(C(b), P(b))
  BY <1>9, <1>10 DEF Joins
<1> QED BY <1>6, <1>7, <1>8, <1>11 DEF u

LEMMA AsciiConcat ==
  ASSUME NEW S, NEW a \in Seq(S), NEW b \in Seq(S)
  PROVE  Ascii(a \o b) = Ascii(a) \o Ascii(b)
<1> DEFINE d == Len(a)
           e == Len(b)
           u == a \o b
           T == Letters \cup {NL}
           P(s) == {i \in 1 .. Len(s) : s[i] \in T}
<1>1. /\ d \in Nat /\ e \in Nat /\ Len(u) = d + e
      /\ \A i \in 1 .. d : u[i] = a[i]
      /\ \A i \in 1 .. e : u[d + i] = b[i]
  OBVIOUS
<1>2. P(a) \in SUBSET (1 .. Len(a)) /\ P(b) \in SUBSET (1 .. Len(b))
  OBVIOUS
<1> HIDE DEF d, e, u, T
<1>3. P(u) = P(a) \cup Shift(P(b), d)
  <2>1. ASSUME NEW i \in P(u)
        PROVE  i \in P(a) \cup Shift(P(b), d)
    <3>1. i \in 1 .. d \/ (i - d \in 1 .. e /\ d + (i - d) = i)
      BY <1>1, <2>1
    <3>2. CASE i \in 1 .. d
      BY <1>1, <2>1, <3>2 DEF d
    <3>3. CASE i - d \in 1 .. e /\ d + (i - d) = i
      <4>1. b[i - d] \in T
        BY <1>1, <2>1, <3>3
      <4>2. i - d \in P(b)
        BY <3>3, <4>1 DEF e
      <4> QED BY <3>3, <4>2 DEF Shift
    <3> QED BY <3>1, <3>2, <3>3
  <2>2. ASSUME NEW i \in P(a)
        PROVE  i \in P(u)
    <3>1. i \in 1 .. d /\ i \in 1 .. Len(u)
      BY <1>1, <2>2 DEF d
    <3> QED BY <1>1, <2>2, <3>1
  <2>3. ASSUME NEW i \in P(b)
        PROVE  d + i \in P(u)
    <3>1. i \in 1 .. e /\ d + i \in 1 .. Len(u)
      BY <1>1, <2>3 DEF e
    <3> QED BY <1>1, <2>3, <3>1
  <2>4. \A i \in Shift(P(b), d) : i \in P(u)
    BY <2>3 DEF Shift
  <2> QED BY <2>1, <2>2, <2>4
<1>4. \A s : Ascii(s) = At(s, P(s))
  BY DEF Ascii, T
<1> HIDE DEF P
<1>5. Joins(a, b, P(a), P(b))
  BY <1>2, AtConcat
<1>6. At(a \o b, P(a) \cup Shift(P(b), d)) = At(a, P(a)) \o At(b, P(b))
  BY <1>5 DEF Joins, d
<1> QED BY <1>3, <1>4, <1>6 DEF u

\* Decoding touches no letter and no newline.
LEMMA AsciiOfDecode ==
  ASSUME NEW s \in Seq(Bytes)
  PROVE  Ascii(Decode(s)) = Ascii(s)
<1> DEFINE n == Len(s)
           T == Letters \cup {NL}
           c == [i \in 1 .. n |-> CharAt(s, i)]
           K == {i \in 1 .. n : ~Completes(s, i)}
           R == {i \in 1 .. n : s[i] \in T}
<1>1. n \in Nat /\ \A i \in 1 .. n : c[i] \in Chars
  BY DEF CharAt, Chars, Text
<1>2. Wide \notin T /\ Replacement \notin T /\ Follow \notin T /\ Lead \notin T
  BY FramingAssumption
<1>3. \A i \in 1 .. n : (c[i] \in T <=> s[i] \in T) /\ (s[i] \in T => c[i] = s[i] /\ i \in K)
  <2> SUFFICES ASSUME NEW i \in 1 .. n
               PROVE  (c[i] \in T <=> s[i] \in T) /\ (s[i] \in T => c[i] = s[i] /\ i \in K)
    OBVIOUS
  <2>1. c[i] = CharAt(s, i)
    OBVIOUS
  <2> HIDE DEF c
  <2>2. CASE s[i] \in T
    <3>1. CharAt(s, i) = s[i]
      <4>1. ~Opens(s, i)
        BY <1>2, <2>2 DEF Opens
      <4> QED BY <2>2, <4>1 DEF CharAt
    <3>2. ~Completes(s, i)
      BY <1>2, <2>2 DEF Completes
    <3> QED BY <2>1, <2>2, <3>1, <3>2
  <2>3. CASE s[i] \notin T
    <3>1. CharAt(s, i) = Wide \/ CharAt(s, i) = Replacement
      BY <2>3 DEF CharAt
    <3> QED BY <1>2, <2>1, <2>3, <3>1
  <2> QED BY <2>2, <2>3
<1>4. c \in Seq(Chars) /\ Len(c) = n
  <2> HIDE DEF n
  <2>1. c \in [1 .. n -> Chars]
    BY <1>1
  <2> HIDE DEF c
  <2> QED BY <1>1, <2>1
<1>5. K \in SUBSET (1 .. Len(c)) /\ R \in SUBSET (1 .. Len(c)) /\ {i \in K : c[i] \in T} = R
  BY <1>3, <1>4
<1> HIDE DEF T
<1>6. Ascii(Decode(s)) = At(At(c, K), {k \in 1 .. Len(At(c, K)) : At(c, K)[k] \in T})
  BY DEF Ascii, Decode, T
<1> HIDE DEF c, K, R
<1>7. At(At(c, K), {k \in 1 .. Len(At(c, K)) : At(c, K)[k] \in T}) = At(c, {i \in K : c[i] \in T})
  <2>1. c \in Seq(Chars) /\ K \in SUBSET (1 .. Len(c))
    BY <1>4, <1>5
  <2>2. Twice(c, K, T)
    BY <2>1, AtAt
  <2> QED BY <2>2 DEF Twice
<1>8. IsFiniteSet(R) /\ R \in SUBSET Nat
  BY <1>4, <1>5, AtIsASequence
<1>9. \A k \in 1 .. Cardinality(R) : Nth(R, k) \in R
  BY <1>8, Ranks
<1>10. \A i \in R : c[i] = s[i]
  BY <1>3 DEF R
<1>11. At(c, R) = At(s, R)
  BY <1>9, <1>10 DEF At
<1> QED BY <1>5, <1>6, <1>7, <1>11 DEF Ascii, R, T, n

LEMMA ReadingGoesOn ==
  ASSUME received \in Seq(Bytes), decoded \in Seq(Chars), cut \in BOOLEAN, OnlyTheCutIsMisread,
         NEW chunk \in Seq(Bytes), Feed(chunk)
  PROVE  received' \in Seq(Bytes) /\ cut' \in BOOLEAN /\ OnlyTheCutIsMisread'
<1>1. /\ received' = received \o chunk /\ decoded' = decoded \o Decode(chunk)
      /\ cut' = (cut \/ Severs(received, chunk))
  BY DEF Feed
<1>2. received' \in Seq(Bytes) /\ cut' \in BOOLEAN
  <2>1. received' \in Seq(Bytes)
    BY <1>1
  <2>2. cut' \in BOOLEAN
    BY <1>1 DEF Severs
  <2> QED BY <2>1, <2>2
<1>3. ASSUME ~cut'
      PROVE  decoded' = Decode(received')
  <2>1. ~Severs(received, chunk) /\ decoded = Decode(received)
    BY <1>1, <1>3 DEF OnlyTheCutIsMisread
  <2> QED BY <1>1, <2>1, DecodeConcat
<1>4. Ascii(decoded') = Ascii(received')
  <2>1. Decode(chunk) \in Seq(Chars) /\ Ascii(Decode(chunk)) = Ascii(chunk)
    BY DecodeIs, AsciiOfDecode
  <2>2. Ascii(decoded \o Decode(chunk)) = Ascii(decoded) \o Ascii(Decode(chunk))
    BY <2>1, AsciiConcat
  <2>3. Ascii(received \o chunk) = Ascii(received) \o Ascii(chunk)
    BY AsciiConcat
  <2> QED BY <1>1, <2>1, <2>2, <2>3 DEF OnlyTheCutIsMisread
<1>5. Ascii(decoded)' = Ascii(decoded') /\ Ascii(received)' = Ascii(received')
      /\ Decode(received)' = Decode(received')
  BY DEF Ascii, Decode
<1> QED BY <1>2, <1>3, <1>4, <1>5 DEF OnlyTheCutIsMisread

-----------------------------------------------------------------------------
(* The buffer holds the end of the last piece: all of it, if nothing was ever *)
(* thrown away.                                                              *)

Full == Bit(decoded, Newlines(decoded) + 1)

FrameIInv ==
  /\ FramingTypeOK /\ OnlyTheCutIsMisread
  /\ \E p \in Seq(Text) : Full = p \o buffer /\ (~dropped => p = <<>>)
  /\ ~dropped => delivered = Messages(Front(Split(decoded)))
  /\ \A i \in DOMAIN delivered :
       \E j \in 1 .. Newlines(decoded), p \in Seq(Text) : Bit(decoded, j) = p \o delivered[i]

LEMMA FirstFrame ==
  ASSUME buffer = <<>>, delivered = <<>>, received = <<>>, decoded = <<>>, cut = FALSE, dropped = FALSE
  PROVE  FrameIInv
<1>1. decoded \in Seq(Text) /\ decoded \in Seq(Chars)
  OBVIOUS
<1>2. Newlines(decoded) = 0 /\ Bit(decoded, 1) = <<>>
  BY <1>1, TextIsOneBit
<1>3. Full = <<>> \o buffer
  BY <1>2 DEF Full
<1>4. Front(Split(decoded)) = <<>>
  <2>1. Front(Split(decoded)) \in Seq(Seq(Text)) /\ Len(Front(Split(decoded))) = 0
    BY <1>1, <1>2, SplitIs
  <2> QED BY <2>1
<1>5. Messages(<<>>) = <<>>
  <2>1. {i \in DOMAIN <<>> : <<>>[i] # <<>>} = {} /\ <<>> \in Seq(Text)
    OBVIOUS
  <2> QED BY <2>1, AtNone DEF Messages
<1>6. FramingTypeOK
  <2>1. buffer \in Seq(Text) /\ delivered \in Seq(Seq(Text))
    OBVIOUS
  <2>2. Len(buffer) = 0 /\ 0 <= MaxBuffer
    BY FramingAssumption
  <2>3. received \in Seq(Bytes)
    OBVIOUS
  <2> QED BY <1>1, <2>1, <2>2, <2>3 DEF FramingTypeOK
<1>7. \E p \in Seq(Text) : Full = p \o buffer /\ (~dropped => p = <<>>)
  <2>1. <<>> \in Seq(Text)
    OBVIOUS
  <2> QED BY <1>3, <2>1
<1>8. DOMAIN delivered = {}
  OBVIOUS
<1>9. OnlyTheCutIsMisread
  <2>1. received \in Seq(Bytes) /\ Len(received) = 0
    OBVIOUS
  <2>2. Decode(received) = <<>>
    BY <2>1, NothingToDecode
  <2> QED BY <2>2 DEF OnlyTheCutIsMisread
<1> QED BY <1>4, <1>5, <1>6, <1>7, <1>8, <1>9 DEF FrameIInv

LEMMA PartsOfConcat ==
  ASSUME NEW S, NEW a \in Seq(S), NEW b \in Seq(S), NEW i \in DOMAIN (a \o b)
  PROVE  \/ i \in DOMAIN a /\ (a \o b)[i] = a[i]
         \/ \E x \in DOMAIN b : (a \o b)[i] = b[x]
<1>1. Len(a) \in Nat /\ Len(b) \in Nat /\ i \in 1 .. Len(a) + Len(b)
  OBVIOUS
<1>2. CASE i <= Len(a)
  BY <1>1, <1>2
<1>3. CASE i > Len(a)
  <2>1. i - Len(a) \in 1 .. Len(b)
    BY <1>1, <1>3
  <2>2. (a \o b)[i] = b[i - Len(a)]
    BY <1>1, <1>3, ConcatProperties
  <2> QED BY <2>1, <2>2
<1> QED BY <1>1, <1>2, <1>3

\* What a chunk does to the buffer it does to the line the buffer is the end of.
LEMMA FeedKeepsLines ==
  ASSUME FrameIInv, NEW chunk \in Seq(Bytes), Feed(chunk)
  PROVE  FrameIInv'
<1> DEFINE c == Decode(chunk)
<1>a. c \in Seq(Chars)
  BY DecodeIs
<1>b. /\ decoded' = decoded \o c
      /\ IF TooLong(buffer \o c)
         THEN buffer' = <<>> /\ dropped' = TRUE /\ UNCHANGED delivered
         ELSE /\ buffer' = Last(Split(buffer \o c))
              /\ delivered' = delivered \o Messages(Front(Split(buffer \o c)))
              /\ UNCHANGED dropped
  BY DEF Feed
<1>c. received' \in Seq(Bytes) /\ cut' \in BOOLEAN /\ OnlyTheCutIsMisread'
  BY ReadingGoesOn DEF FrameIInv, FramingTypeOK
<1> HIDE DEF c
<1> DEFINE r == decoded
           n == Newlines(decoded)
           m == Newlines(c)
           u == decoded \o c
           g == buffer \o c
           full == Full
<1>1. /\ buffer \in Seq(Text) /\ Len(buffer) <= MaxBuffer /\ delivered \in Seq(Seq(Text))
      /\ r \in Seq(Chars) /\ dropped \in BOOLEAN /\ c \in Seq(Chars)
  BY <1>a DEF FrameIInv, FramingTypeOK
<1>2. PICK p \in Seq(Text) : full = p \o buffer /\ (~dropped => p = <<>>)
  BY DEF FrameIInv
<1>3. /\ n \in Nat /\ m \in Nat /\ Newlines(u) = n + m /\ full \in Seq(Text)
      /\ \A k \in 1 .. n : Bit(u, k) = Bit(r, k)
      /\ \A k \in Nat \ {0} : Bit(u, n + k) = Bit(full \o c, k)
  BY <1>1, Grow DEF Full
<1>4. g \in Seq(Chars) /\ Newlines(g) = m /\ u \in Seq(Chars)
  <2>1. g \in Seq(Chars) /\ Newlines(g) = m
    BY <1>1, Carry
  <2> QED BY <1>1, <2>1
<1>5. full \o c = p \o g
  <2>1. p \in Seq(Chars) /\ buffer \in Seq(Chars)
    BY <1>1, TextIsOneBit
  <2>2. (p \o buffer) \o c = p \o (buffer \o c)
    BY <2>1, ConcatAssociative
  <2> QED BY <1>2, <2>2
<1> HIDE DEF r, n, m, u, g, full
<1>6. ASSUME NEW k \in Nat \ {0}
      PROVE  /\ Bit(g, k) \in Seq(Text)
             /\ \E o \in Seq(Text) : Bit(u, n + k) = o \o Bit(g, k) /\ (~dropped => o = <<>>)
  <2>1. Bit(g, k) \in Seq(Text)
    <3>1. k \in Int
      OBVIOUS
    <3> QED BY <1>4, <3>1, BitIs
  <2>2. Bit(p \o g, 1) = p \o Bit(g, 1) /\ \A x \in Nat : x > 1 => Bit(p \o g, x) = Bit(g, x)
    BY <1>4, Carry
  <2>3. Bit(u, n + k) = Bit(p \o g, k)
    BY <1>3, <1>5
  <2>4. CASE k = 1
    BY <1>2, <2>1, <2>2, <2>3, <2>4
  <2>5. CASE k > 1
    <3>1. Bit(u, n + k) = Bit(g, k)
      BY <2>2, <2>3, <2>5
    <3>2. <<>> \in Seq(Text) /\ Bit(g, k) = <<>> \o Bit(g, k)
      BY <2>1, ConcatEmptySeq
    <3> QED BY <2>1, <3>1, <3>2
  <2>6. k = 1 \/ k > 1
    OBVIOUS
  <2> QED BY <2>4, <2>5, <2>6, Zenon
<1>7. \A i \in DOMAIN delivered :
        \E j \in 1 .. n, o \in Seq(Text) : Bit(r, j) = o \o delivered[i]
  BY DEF FrameIInv, n, r
<1>8. \A j \in 1 .. n : j \in 1 .. n + m
  BY <1>3
<1>9. decoded' = u /\ (TooLong(g) \/ ~TooLong(g))
  BY <1>b DEF u
<1>10. CASE TooLong(g)
  <2>1. buffer' = <<>> /\ dropped' = TRUE /\ delivered' = delivered
    BY <1>10, <1>b DEF g
  <2>2. FramingTypeOK'
    BY <1>1, <1>4, <1>9, <1>c, <2>1, FramingAssumption DEF FramingTypeOK
  <2>3. \E o \in Seq(Text) : Full' = o \o buffer' /\ (~dropped' => o = <<>>)
    <3>1. n + m + 1 \in Int /\ Full' = Bit(u, n + m + 1)
      BY <1>3, <1>9 DEF Full
    <3>2. Full' \in Seq(Text)
      BY <1>4, <3>1, BitIs
    <3>3. Full' = Full' \o <<>>
      BY <3>2, ConcatEmptySeq
    <3> QED BY <2>1, <3>2, <3>3
  <2>4. ASSUME NEW i \in DOMAIN delivered'
        PROVE  \E j \in 1 .. Newlines(decoded'), o \in Seq(Text) : Bit(decoded', j) = o \o delivered'[i]
    <3>1. PICK j \in 1 .. n, o \in Seq(Text) : Bit(r, j) = o \o delivered[i]
      BY <1>7, <2>1
    <3>2. j \in 1 .. Newlines(decoded') /\ Bit(decoded', j) = Bit(r, j)
      BY <1>3, <1>8, <1>9
    <3> QED BY <2>1, <3>1, <3>2
  <2> QED BY <1>c, <2>1, <2>2, <2>3, <2>4 DEF FrameIInv
<1>11. CASE ~TooLong(g)
  <2> DEFINE f == Front(Split(g))
             w == Messages(f)
  <2>1. buffer' = Last(Split(g)) /\ delivered' = delivered \o w /\ dropped' = dropped
    BY <1>11, <1>b DEF g
  <2>2. /\ buffer' = Bit(g, m + 1) /\ f \in Seq(Seq(Text)) /\ Len(f) = m
        /\ \A k \in 1 .. m : f[k] = Bit(g, k)
    BY <1>4, <2>1, SplitIs
  <2>3. w \in Seq(Seq(Text)) /\ \A i \in DOMAIN w : \E j \in 1 .. m : w[i] = f[j]
    BY <2>2, MessagesAre
  <2> HIDE DEF w, f
  <2>4. FramingTypeOK'
    <3>1. m + 1 \in Int
      BY <1>3
    <3>2. buffer' \in Seq(Text) /\ Len(buffer') \in Nat /\ Len(buffer') <= Len(g)
      BY <1>4, <2>2, <3>1, BitIs
    <3>3. Len(g) <= MaxBuffer /\ Len(g) \in Nat
      BY <1>4, <1>11, FramingAssumption DEF TooLong
    <3>4. Len(buffer') <= MaxBuffer
      BY <3>2, <3>3, FramingAssumption
    <3>5. delivered' \in Seq(Seq(Text))
      BY <1>1, <2>1, <2>3
    <3> QED BY <1>1, <1>4, <1>9, <1>c, <2>1, <3>2, <3>4, <3>5 DEF FramingTypeOK
  <2>5. \E o \in Seq(Text) : Full' = o \o buffer' /\ (~dropped' => o = <<>>)
    <3>1. m + 1 \in Nat \ {0} /\ n + (m + 1) = n + m + 1
      BY <1>3
    <3>2. Full' = Bit(u, n + (m + 1))
      BY <1>3, <1>9, <3>1 DEF Full
    <3> QED BY <1>6, <2>1, <2>2, <3>1, <3>2
  <2>6. ASSUME NEW i \in DOMAIN delivered'
        PROVE  \E j \in 1 .. Newlines(decoded'), o \in Seq(Text) : Bit(decoded', j) = o \o delivered'[i]
    <3>1. \/ i \in DOMAIN delivered /\ delivered'[i] = delivered[i]
          \/ \E x \in DOMAIN w : delivered'[i] = w[x]
      BY <1>1, <2>1, <2>3, PartsOfConcat
    <3>2. CASE i \in DOMAIN delivered /\ delivered'[i] = delivered[i]
      <4>1. PICK j \in 1 .. n, o \in Seq(Text) : Bit(r, j) = o \o delivered[i]
        BY <1>7, <3>2
      <4>2. j \in 1 .. Newlines(decoded') /\ Bit(decoded', j) = Bit(r, j)
        BY <1>3, <1>8, <1>9
      <4> QED BY <3>2, <4>1, <4>2
    <3>3. CASE \E x \in DOMAIN w : delivered'[i] = w[x]
      <4>1. PICK x \in DOMAIN w : delivered'[i] = w[x]
        BY <3>3
      <4>2. PICK j \in 1 .. m : w[x] = f[j]
        BY <2>3
      <4>3. j \in Nat \ {0} /\ n + j \in 1 .. n + m
        BY <1>3
      <4>4. PICK o \in Seq(Text) : Bit(u, n + j) = o \o Bit(g, j)
        BY <1>6, <4>3
      <4>5. delivered'[i] = Bit(g, j)
        BY <2>2, <4>1, <4>2
      <4>6. n + j \in 1 .. Newlines(decoded') /\ Bit(decoded', n + j) = o \o delivered'[i]
        BY <1>3, <1>9, <4>3, <4>4, <4>5
      <4> QED BY <4>6
    <3> QED BY <3>1, <3>2, <3>3
  <2>7. ASSUME ~dropped'
        PROVE  delivered' = Messages(Front(Split(decoded')))
    <3> DEFINE h == Front(Split(r))
               v == Front(Split(u))
    <3>1. ~dropped /\ delivered = Messages(h)
      BY <2>1, <2>7 DEF FrameIInv, r
    <3>2. /\ h \in Seq(Seq(Text)) /\ Len(h) = n
          /\ \A k \in 1 .. n : h[k] = Bit(r, k)
      BY <1>1, SplitIs DEF n, r
    <3>3. /\ v \in Seq(Seq(Text)) /\ Len(v) = n + m
          /\ \A k \in 1 .. n + m : v[k] = Bit(u, k)
      BY <1>3, <1>4, SplitIs
    <3> HIDE DEF h, v
    <3>4. \A k \in 1 .. Len(h) : v[k] = h[k]
      BY <1>3, <1>8, <3>2, <3>3
    <3>5. ASSUME NEW k \in 1 .. Len(f)
          PROVE  v[Len(h) + k] = f[k]
      <4>1. k \in Nat \ {0} /\ k \in 1 .. m /\ n + k \in 1 .. n + m
        BY <1>3, <2>2
      <4>2. PICK o \in Seq(Text) : Bit(u, n + k) = o \o Bit(g, k) /\ (~dropped => o = <<>>)
        BY <1>6, <4>1
      <4>3. Bit(g, k) \in Seq(Text)
        BY <1>6, <4>1
      <4>4. Bit(u, n + k) = Bit(g, k)
        BY <3>1, <4>2, <4>3, ConcatEmptySeq
      <4> QED BY <2>2, <3>2, <3>3, <4>1, <4>4
    <3>6. v = h \o f
      <4>1. Len(v) = Len(h) + Len(f)
        BY <2>2, <3>2, <3>3
      <4> QED BY <2>2, <3>2, <3>3, <3>4, <3>5, <4>1, ConcatIs
    <3>7. Messages(v) = Messages(h) \o Messages(f)
      BY <2>2, <3>2, <3>6, MessagesAdd
    <3> QED BY <1>9, <2>1, <3>1, <3>7 DEF v, w
  <2> QED BY <1>c, <2>4, <2>5, <2>6, <2>7 DEF FrameIInv
<1> QED BY <1>9, <1>10, <1>11

LEMMA EndOfALine ==
  ASSUME NEW s \in Seq(Text), NEW p \in Seq(Text)
  PROVE  IsSuffix(s, p \o s)
<1> DEFINE n == Len(s)
           d == Len(p)
           t == p \o s
           a == Reverse(s)
           b == Reverse(t)
<1>1. /\ n \in Nat /\ d \in Nat /\ t \in Seq(Text) /\ Len(t) = d + n
      /\ \A i \in 1 .. n : t[d + i] = s[i] /\ s[i] \in Text
      /\ \A i \in 1 .. Len(t) : t[i] \in Text
  OBVIOUS
<1>2. a = [i \in 1 .. n |-> s[(n - i) + 1]] /\ b = [i \in 1 .. Len(t) |-> t[(Len(t) - i) + 1]]
  BY DEF Reverse
<1> HIDE DEF n, d, t, a, b
<1>3. \A i \in 1 .. n : /\ i \in 1 .. d + n /\ (n - i) + 1 \in 1 .. n
                        /\ ((d + n) - i) + 1 = d + ((n - i) + 1)
  BY <1>1
<1>4. Len(a) = n /\ Len(b) = d + n
  BY <1>1, <1>2
<1>5. \A i \in 1 .. n : b[i] = a[i] /\ a[i] \in Text
  BY <1>1, <1>2, <1>3
<1>6. /\ SubSeq(a, 1, n) \in Seq(Text) /\ SubSeq(b, 1, n) \in Seq(Text)
      /\ Len(SubSeq(a, 1, n)) = Len(SubSeq(b, 1, n))
      /\ \A i \in 1 .. n - 1 + 1 : SubSeq(a, 1, n)[i] = a[1 + i - 1] /\ SubSeq(b, 1, n)[i] = b[1 + i - 1]
  <2>1. n \in Int /\ 1 \in Int /\ (\A i \in 1 .. n : a[i] \in Text) /\ (\A i \in 1 .. n : b[i] \in Text)
    BY <1>1, <1>5
  <2> QED BY <2>1, SubSeqProperties
<1>7. Len(SubSeq(a, 1, n)) = n
  <2>1. n \in Int /\ 1 \in Int /\ (\A i \in 1 .. n : a[i] \in Text)
    BY <1>1, <1>5
  <2>2. Len(SubSeq(a, 1, n)) = IF 1 <= n THEN n - 1 + 1 ELSE 0
    BY <2>1, SubSeqProperties
  <2> QED BY <1>1, <2>2
<1>8. \A i \in 1 .. n : SubSeq(a, 1, n)[i] = SubSeq(b, 1, n)[i]
  <2>1. n - 1 + 1 = n /\ \A i \in 1 .. n : 1 + i - 1 = i
    BY <1>1
  <2> QED BY <1>5, <1>6, <2>1
<1>9. SubSeq(a, 1, n) = SubSeq(b, 1, n)
  BY <1>6, <1>7, <1>8, SeqEqual
<1>10. IsPrefix(a, b)
  BY <1>1, <1>4, <1>9 DEF IsPrefix
<1> QED BY <1>10 DEF IsSuffix, a, b, t

LEMMA FramingIsSound == FrameIInv => LinesAreWhole
<1> SUFFICES ASSUME FrameIInv PROVE LinesAreWhole
  OBVIOUS
<1>1. decoded \in Seq(Chars) /\ buffer \in Seq(Text) /\ delivered \in Seq(Seq(Text))
  BY DEF FrameIInv, FramingTypeOK
<1>2. /\ Newlines(decoded) \in Nat
      /\ Last(Split(decoded)) = Full
      /\ DOMAIN Split(decoded) = 1 .. Newlines(decoded) + 1
      /\ \A k \in 1 .. Newlines(decoded) + 1 : Split(decoded)[k] = Bit(decoded, k)
  BY <1>1, SplitIs DEF Full
<1>3. FramingExact
  <2> SUFFICES ASSUME ~dropped
               PROVE  delivered = Messages(Front(Split(decoded))) /\ buffer = Last(Split(decoded))
    BY DEF FramingExact
  <2>1. Full = <<>> \o buffer
    BY DEF FrameIInv
  <2>2. Full = buffer
    BY <1>1, <2>1, ConcatEmptySeq
  <2> QED BY <1>2, <2>2 DEF FrameIInv
<1>4. NothingIsSpliced
  <2> SUFFICES ASSUME NEW i \in DOMAIN delivered
               PROVE  \E j \in DOMAIN Split(decoded) : IsSuffix(delivered[i], Split(decoded)[j])
    BY DEF NothingIsSpliced
  <2>1. PICK j \in 1 .. Newlines(decoded), p \in Seq(Text) : Bit(decoded, j) = p \o delivered[i]
    BY DEF FrameIInv
  <2>2. delivered[i] \in Seq(Text)
    BY <1>1
  <2>3. IsSuffix(delivered[i], Bit(decoded, j))
    BY <2>1, <2>2, EndOfALine
  <2>4. j \in DOMAIN Split(decoded) /\ Split(decoded)[j] = Bit(decoded, j)
    <3>1. j \in 1 .. Newlines(decoded) + 1
      BY <1>2
    <3> QED BY <1>2, <3>1
  <2> QED BY <2>3, <2>4
<1> QED BY <1>3, <1>4 DEF LinesAreWhole, FrameIInv

\* feed() of stratum.ts: wherever the stream is cut, the messages handed on are the whole
\* lines of this socket, and, once an oversized buffer was thrown away, never one made of
\* pieces of two; a character that was cut is misread, and nothing else is.
THEOREM LinesAreAlwaysWhole == FramingSpec => []LinesAreWhole
<1>1. FramingInit => FrameIInv
  BY FirstFrame DEF FramingInit
<1>2. FrameIInv /\ [FramingNext]_framingVars => FrameIInv'
  <2> SUFFICES ASSUME FrameIInv, [FramingNext]_framingVars PROVE FrameIInv'
    OBVIOUS
  <2>1. ASSUME NEW chunk \in Chunks, Feed(chunk)
        PROVE  FrameIInv'
    <3>1. \A k \in Nat : [1 .. k -> Bytes] \subseteq Seq(Bytes)
      OBVIOUS
    <3>2. chunk \in Seq(Bytes)
      BY <3>1, FramingAssumption DEF Chunks
    <3> QED BY <2>1, <3>2, FeedKeepsLines
  <2>2. CASE Reconnect
    <3>1. (/\ buffer = <<>> /\ delivered = <<>>
          /\ received = <<>> /\ decoded = <<>> /\ cut = FALSE /\ dropped = FALSE)'
      BY <2>2 DEF Reconnect
    <3> QED BY <3>1, FirstFrame, PTL
  <2>3. CASE UNCHANGED framingVars
    BY <2>3 DEF framingVars, history, FrameIInv, FramingTypeOK, Full, OnlyTheCutIsMisread
  <2> QED BY <2>1, <2>2, <2>3 DEF FramingNext
<1> QED BY <1>1, <1>2, FramingIsSound, PTL DEF FramingSpec
=============================================================================

----------------------------- MODULE Placement -----------------------------
(***************************************************************************)
(* Who mines where: packages/server/src/hub.ts without jobs and shares.    *)
(*                                                                         *)
(* Visitors (clients) hold one WebSocket each.  A visitor who mines is     *)
(* seated on a pool socket (a connection) shared with other miners, and    *)
(* owns one extranonce2 slot of it: the slot is the miner's share of the   *)
(* work, so two miners on one slot hash the same nonces.  Sockets are      *)
(* opened when no open one has room, held for a grace period once empty,   *)
(* resized by a controller, and frozen after trouble with the pool.        *)
(*                                                                         *)
(* The server is one JavaScript thread: every handler below runs to its    *)
(* end before the next one starts, so it is one action.  Time is not       *)
(* modelled: a timer that is set may fire at any later moment, a freeze    *)
(* or a cooldown may be over at any later moment.                          *)
(***************************************************************************)
EXTENDS Integers, Sequences, FiniteSets, SequencesExt

CONSTANTS
  Clients,              \* visitors' sockets; a socket that left may come back
  Conns,                \* identities of pool sockets, reused once fully gone
  Listings,             \* identities of listings
  Addresses, AddrOf,    \* the network address each client comes from
  None,                 \* JavaScript's null
  MaxClients, MaxPerAddress,                    \* config.limits
  MinersPerConnection, MaxConnections,          \* config.pool
  StartingCapacity, MinCapacity, TuneStep,      \* constants of hub.ts
  TuneSeconds, TargetShareSeconds,              \* window and target of the controller
  HasCooldown,          \* mineCooldownMs > 0
  HasBackoff,           \* backoffMs > 0
  MaxWindow,            \* bound of the model: accepted shares counted per window
  DbMayFail             \* whether a statement on SQLite may throw

ASSUME PlacementAssumption ==
  /\ IsFiniteSet(Clients)
  /\ IsFiniteSet(Conns)
  /\ AddrOf \in [Clients -> Addresses]
  /\ None \notin Clients \cup Conns \cup Listings
  /\ MaxClients \in Nat \ {0}
  /\ MaxPerAddress \in Nat \ {0}
  /\ MinersPerConnection \in Nat \ {0}
  /\ MaxConnections \in Nat \ {0}
  /\ StartingCapacity \in Nat /\ MinCapacity \in Nat \ {0}
  /\ MinCapacity <= StartingCapacity
  /\ TuneStep \in Nat \ {0}
  /\ TuneSeconds \in Nat /\ TargetShareSeconds \in Nat
  /\ MaxWindow \in Nat
  /\ {HasCooldown, HasBackoff, DbMayFail} \subseteq BOOLEAN

VARIABLES
  \* one entry per visitor: the Client object
  clients,      \* the set `clients`
  perAddress,   \* sockets held per address
  listing,      \* Client.listingId
  conn,         \* Client.conn
  slot,         \* Client.extranonce2Index
  cooling,      \* the last `mine` is younger than mineCooldownMs
  mined,        \* Client.mined
  \* the listings table, as far as listingExists sees it
  listings,
  \* one entry per pool socket: the PoolConnection object
  connections,  \* the set `connections`
  miners,       \* PoolConnection.miners
  capacity,     \* PoolConnection.capacity
  window,       \* PoolConnection.acceptedInWindow
  free,         \* PoolConnection.freeSlots, a stack whose top is last
  idle,         \* PoolConnection.idleTimer is set
  link,         \* the StratumClient behind it, see LinkStates
  frozen        \* Date.now() < openingFrozenUntil

clientVars == <<clients, perAddress, listing, conn, slot, cooling, mined>>
connVars   == <<connections, miners, capacity, window, free, idle, link>>
vars       == <<clientVars, listings, connVars, frozen>>

Slots == 0 .. MinersPerConnection - 1

\* A StratumClient is dialling, has a socket, or waits for its reconnect timer.
\* "none": nothing of it is left, so the identity can be used again.
LinkStates == {"none", "dialing", "up", "down"}

TypeOK ==
  /\ clients \in SUBSET Clients
  /\ perAddress \in [Addresses -> Nat]
  /\ listing \in [Clients -> Listings \cup {None}]
  /\ conn \in [Clients -> Conns \cup {None}]
  /\ slot \in [Clients -> Slots]
  /\ cooling \in [Clients -> BOOLEAN]
  /\ mined \in [Clients -> BOOLEAN]
  /\ listings \in SUBSET Listings
  /\ connections \in SUBSET Conns
  /\ miners \in [Conns -> SUBSET Clients]
  /\ capacity \in [Conns -> Nat]
  /\ window \in [Conns -> Nat]
  /\ free \in [Conns -> Seq(Slots)]
  /\ idle \in [Conns -> BOOLEAN]
  /\ link \in [Conns -> LinkStates]
  /\ frozen \in BOOLEAN

Init ==
  /\ clients = {}
  /\ perAddress = [a \in Addresses |-> 0]
  /\ listing = [c \in Clients |-> None]
  /\ conn = [c \in Clients |-> None]
  /\ slot = [c \in Clients |-> 0]
  /\ cooling = [c \in Clients |-> FALSE]
  /\ mined = [c \in Clients |-> FALSE]
  /\ listings \in SUBSET Listings
  /\ connections = {}
  /\ miners = [k \in Conns |-> {}]
  /\ capacity = [k \in Conns |-> 0]
  /\ window = [k \in Conns |-> 0]
  /\ free = [k \in Conns |-> <<>>]
  /\ idle = [k \in Conns |-> FALSE]
  /\ link = [k \in Conns |-> "none"]
  /\ frozen = FALSE

Larger(a, b)  == IF a < b THEN b ELSE a
Smaller(a, b) == IF a < b THEN a ELSE b

-----------------------------------------------------------------------------
(* leaveConnection and stopMining, for a set L of clients: one client in   *)
(* most callers, every miner of a listing in dropListing.  The order in    *)
(* which several slots come back is an arbitrary fixed one.                *)

Seated(L, k) == {c \in L : conn[c] = k}

\* Broken on purpose, for the mutation runs: slots kept.
NoneReturned(L, k) == <<>>

Returned(L, k) ==
  LET leaving == SetToSeq(Seated(L, k))
  IN  [i \in 1 .. Len(leaving) |-> slot[leaving[i]]]

MinersWithout(L) == [k \in Conns |-> miners[k] \ Seated(L, k)]

\* Broken on purpose: freeSlots as a queue.
FreeAsQueue(L) == [k \in Conns |-> Returned(L, k) \o free[k]]

FreeWith(L) == [k \in Conns |-> free[k] \o Returned(L, k)]

\* Broken on purpose: the grace period is never armed.
TimersUntouched(L) == idle

\* The last miner to leave arms the grace period.
TimersAfter(L) ==
  [k \in Conns |-> idle[k] \/ (Seated(L, k) # {} /\ miners[k] \subseteq Seated(L, k))]

StopMining(L) ==
  /\ listing' = [c \in Clients |-> IF c \in L THEN None ELSE listing[c]]
  /\ conn' = [c \in Clients |-> IF c \in L THEN None ELSE conn[c]]
  /\ miners' = MinersWithout(L)
  /\ free' = FreeWith(L)
  /\ idle' = TimersAfter(L)

-----------------------------------------------------------------------------
(* Visitors come and go.                                                   *)

AddClient(c) ==
  /\ c \notin clients
  /\ Cardinality(clients) < MaxClients
  /\ perAddress[AddrOf[c]] < MaxPerAddress
  /\ clients' = clients \cup {c}
  /\ perAddress' = [perAddress EXCEPT ![AddrOf[c]] = @ + 1]
  /\ slot' = [slot EXCEPT ![c] = 0]
  /\ cooling' = [cooling EXCEPT ![c] = FALSE]
  /\ mined' = [mined EXCEPT ![c] = FALSE]
  /\ UNCHANGED <<listing, conn, listings, connVars, frozen>>

OneLess(held) == Larger(held - 1, 0)

RemoveClient(c) ==
  /\ c \in clients
  /\ StopMining({c})
  /\ clients' = clients \ {c}
  /\ perAddress' = [perAddress EXCEPT ![AddrOf[c]] = OneLess(@)]
  /\ UNCHANGED <<slot, cooling, mined, listings,
                 connections, capacity, window, link, frozen>>

Stop(c) ==
  /\ c \in clients
  /\ StopMining({c})
  /\ UNCHANGED <<clients, perAddress, slot, cooling, mined, listings,
                 connections, capacity, window, link, frozen>>

-----------------------------------------------------------------------------
(* startMining.  A `mine` inside the cooldown changes nothing here.        *)

\* Sockets with room once c has left the one it is on.  The code takes the
\* oldest of them; the model any, which is all the properties need.
Room(c) ==
  {k \in connections : /\ Cardinality(MinersWithout({c})[k]) < capacity[k]
                       /\ FreeWith({c})[k] # <<>>}

MayOpen == ~frozen /\ Cardinality(connections) < MaxConnections

\* Past the cooldown, and the listing is there to be mined.
MayMine(c, l) == c \in clients /\ ~cooling[c] /\ l \in listings

\* The listing is not in the table, or asking for it threw.
MineRefused(c, l) ==
  /\ c \in clients /\ ~cooling[c]
  /\ l \notin listings \/ DbMayFail
  /\ cooling' = [cooling EXCEPT ![c] = HasCooldown]
  /\ UNCHANGED <<clients, perAddress, listing, conn, slot, mined,
                 listings, connVars, frozen>>

\* No socket has room and none may be opened: the miner has lost its old seat.
MineTurnedAway(c, l) ==
  /\ MayMine(c, l)
  /\ Room(c) = {} /\ ~MayOpen
  /\ StopMining({c})
  /\ cooling' = [cooling EXCEPT ![c] = HasCooldown]
  /\ UNCHANGED <<clients, perAddress, slot, mined, listings,
                 connections, capacity, window, link, frozen>>

\* c leaves its seat, takes the top slot of k's stack, and counts a conversion
\* once per socket.  countHit is a write: when it throws, c keeps the seat and
\* `mined` but never gets its listing.
Seat(c, l, k, stack, counted) ==
  /\ cooling' = [cooling EXCEPT ![c] = HasCooldown]
  /\ conn' = [conn EXCEPT ![c] = k]
  /\ slot' = [slot EXCEPT ![c] = Last(stack)]
  /\ miners' = [MinersWithout({c}) EXCEPT ![k] = @ \cup {c}]
  /\ free' = [FreeWith({c}) EXCEPT ![k] = Front(stack)]
  /\ idle' = [TimersAfter({c}) EXCEPT ![k] = FALSE]
  /\ counted \/ (DbMayFail /\ ~mined[c])
  /\ mined' = [mined EXCEPT ![c] = TRUE]
  /\ listing' = [listing EXCEPT ![c] = IF counted THEN l ELSE None]
  /\ UNCHANGED <<clients, perAddress, listings, frozen>>

MineJoins(c, l, k, counted) ==
  /\ MayMine(c, l)
  /\ k \in Room(c)
  /\ Seat(c, l, k, FreeWith({c})[k], counted)
  /\ UNCHANGED <<connections, capacity, window, link>>

FullStack == [i \in 1 .. MinersPerConnection |-> i - 1]

\* openConnection, then the seat.  MayOpen also binds a client that could not
\* be reseated on the socket it has just left.
MineOpens(c, l, k, counted) ==
  /\ MayMine(c, l)
  /\ Room(c) = {} /\ MayOpen
  /\ k \notin connections /\ link[k] = "none"
  /\ Seat(c, l, k, FullStack, counted)
  /\ connections' = connections \cup {k}
  /\ capacity' = [capacity EXCEPT ![k] = StartingCapacity]
  /\ window' = [window EXCEPT ![k] = 0]
  /\ link' = [link EXCEPT ![k] = "dialing"]

CooldownEnds(c) ==
  /\ cooling[c]
  /\ cooling' = [cooling EXCEPT ![c] = FALSE]
  /\ UNCHANGED <<clients, perAddress, listing, conn, slot, mined,
                 listings, connVars, frozen>>

MinersOf(l) == {c \in clients : listing[c] = l}

\* DELETE /api/listings/:id: dropListing, then deleteListing, in one handler.
\* When the delete throws, the row is still there and its miners are not.
Takedown(l) ==
  /\ l \in listings
  /\ StopMining(MinersOf(l))
  /\ \/ listings' = listings \ {l}
     \/ DbMayFail /\ UNCHANGED listings
  /\ UNCHANGED <<clients, perAddress, slot, cooling, mined,
                 connections, capacity, window, link, frozen>>

-----------------------------------------------------------------------------
(* Pool sockets.                                                           *)

\* The grace period runs out: closeConnection.  A StratumClient whose connect
\* is still in flight survives its close(), see Stratum.
IdleFires(k) ==
  /\ idle[k]
  /\ idle' = [idle EXCEPT ![k] = FALSE]
  /\ IF miners[k] # {}
     THEN UNCHANGED <<connections, miners, capacity, window, free, link>>
     ELSE /\ connections' = connections \ {k}
          /\ capacity' = [capacity EXCEPT ![k] = 0]
          /\ window' = [window EXCEPT ![k] = 0]
          /\ free' = [free EXCEPT ![k] = <<>>]
          /\ link' = [link EXCEPT ![k] = IF @ = "dialing" THEN @ ELSE "none"]
          /\ UNCHANGED miners
  /\ UNCHANGED <<clientVars, listings, frozen>>

\* Stop opening sockets for a while, and halve what each one will hold.
PoolTrouble ==
  /\ frozen' = HasBackoff
  /\ capacity' = [k \in Conns |-> IF k \in connections
                                  THEN Larger(MinCapacity, capacity[k] \div 2)
                                  ELSE capacity[k]]

Thaw ==
  /\ frozen
  /\ frozen' = FALSE
  /\ UNCHANGED <<clientVars, listings, connVars>>

\* onError from a live socket: a refused login, an unusable message, silence.
PoolError(k) ==
  /\ link[k] = "up"
  /\ PoolTrouble
  /\ UNCHANGED <<clientVars, listings, connections, miners, window, free, idle, link>>

DialSucceeds(k) ==
  /\ link[k] = "dialing"
  /\ link' = [link EXCEPT ![k] = "up"]
  /\ UNCHANGED <<clientVars, listings, connections, miners, capacity, window,
                 free, idle, frozen>>

\* Broken on purpose: a client that was closed schedules a reconnect too.
AlwaysDown(k) == "down"

AfterLoss(k) == IF k \in connections THEN "down" ELSE "none"

\* connect() throws: onError, then the reconnect timer unless it was closed.
DialFails(k) ==
  /\ link[k] = "dialing"
  /\ link' = [link EXCEPT ![k] = AfterLoss(k)]
  /\ PoolTrouble
  /\ UNCHANGED <<clientVars, listings, connections, miners, window, free, idle>>

\* The socket closes.  A client that was closed meanwhile says nothing.
LinkDrops(k) ==
  /\ link[k] = "up"
  /\ link' = [link EXCEPT ![k] = AfterLoss(k)]
  /\ IF k \in connections THEN PoolTrouble ELSE UNCHANGED <<capacity, frozen>>
  /\ UNCHANGED <<clientVars, listings, connections, miners, window, free, idle>>

Redial(k) ==
  /\ link[k] = "down"
  /\ link' = [link EXCEPT ![k] = "dialing"]
  /\ UNCHANGED <<clientVars, listings, connections, miners, capacity, window,
                 free, idle, frozen>>

\* onSubmitResult, as far as the controller is concerned.  MaxWindow stands for
\* every larger count.
CountAccepted(k) ==
  /\ k \in connections /\ link[k] = "up"
  /\ window' = [window EXCEPT ![k] = Smaller(@ + 1, MaxWindow)]
  /\ UNCHANGED <<clientVars, listings, connections, miners, capacity, free,
                 idle, link, frozen>>

\* Seconds between accepted shares above the target, and below half of it.
TooSlow(m, accepted) ==
  accepted = 0 \/ TuneSeconds * m > TargetShareSeconds * accepted
TooFast(m, accepted) ==
  accepted > 0 /\ 2 * TuneSeconds * m < TargetShareSeconds * accepted

\* Only a full socket is evidence of how full a socket should be.
NextCapacity(cap, m, accepted) ==
  CASE m < cap              -> cap
    [] m >= cap /\ TooSlow(m, accepted) -> Larger(MinCapacity, cap - TuneStep)
    [] m >= cap /\ TooFast(m, accepted) -> Smaller(MinersPerConnection, cap + TuneStep)
    [] OTHER                -> cap

TuneConnections ==
  /\ window' = [k \in Conns |-> 0]
  /\ capacity' = [k \in Conns |->
       IF k \in connections /\ miners[k] # {} /\ ~frozen
       THEN NextCapacity(capacity[k], Cardinality(miners[k]), window[k])
       ELSE capacity[k]]
  /\ UNCHANGED <<clientVars, listings, connections, miners, free, idle, link, frozen>>

-----------------------------------------------------------------------------
Next ==
  \/ \E c \in Clients : AddClient(c) \/ RemoveClient(c) \/ Stop(c) \/ CooldownEnds(c)
  \/ \E c \in Clients, l \in Listings : MineRefused(c, l) \/ MineTurnedAway(c, l)
  \/ \E c \in Clients, l \in Listings, k \in Conns, counted \in BOOLEAN :
       MineJoins(c, l, k, counted) \/ MineOpens(c, l, k, counted)
  \/ \E l \in Listings : Takedown(l)
  \/ \E k \in Conns : IdleFires(k) \/ PoolError(k) \/ DialSucceeds(k) \/ DialFails(k)
                        \/ LinkDrops(k) \/ Redial(k) \/ CountAccepted(k)
  \/ Thaw
  \/ TuneConnections

Spec == Init /\ [][Next]_vars

\* The grace period is a timer: once set and not cleared, it fires.
FairSpec == Spec /\ \A k \in Conns : WF_vars(IdleFires(k))

-----------------------------------------------------------------------------
(* Safety.                                                                 *)

\* The client side and the socket side of a seat tell the same story, a seat
\* belongs to a visitor who is here, on a socket that is open, and a credited
\* listing exists (client.conn, conn.miners, client.listingId in hub.ts).
SeatsAgree ==
  /\ \A c \in Clients, k \in Conns : c \in miners[k] <=> conn[c] = k
  /\ \A c \in Clients : conn[c] # None => c \in clients /\ conn[c] \in connections
  /\ \A c \in Clients : listing[c] # None => conn[c] # None /\ listing[c] \in listings

\* Every extranonce2 slot of an open socket is in exactly one place: once on
\* the stack, or held by one miner.  A slot in two places is two browsers
\* hashing the same nonces; a slot in none is a seat the socket has lost.
SlotLedger ==
  \A k \in connections :
    /\ IsInjective(free[k])
    /\ \A c \in miners[k] : slot[c] \notin Range(free[k])
    /\ \A c, d \in miners[k] : slot[c] = slot[d] => c = d
    /\ Slots = Range(free[k]) \cup {slot[c] : c \in miners[k]}

\* The grace period runs for exactly the open sockets nobody mines on: an
\* empty socket without it is never closed, a busy one with it may be.
EmptyHasTimer ==
  \A k \in Conns : idle[k] <=> (k \in connections /\ miners[k] = {})

\* perAddress counts the live sockets of an address through every way a socket
\* comes and goes; a drift upwards would lock the address out for good.
AddressCount ==
  \A a \in Addresses :
    perAddress[a] = Cardinality({c \in clients : AddrOf[c] = a})

\* Tuning up, tuning down and halving on trouble, in any order, keep the
\* capacity of an open socket where a miner can still be seated.
CapacityInBounds ==
  \A k \in connections :
    /\ capacity[k] >= Smaller(MinCapacity, MinersPerConnection)
    /\ capacity[k] <= Larger(StartingCapacity, MinersPerConnection)

\* The tables hub.ts keeps of its visitors and its pool sockets never disagree,
\* whatever they do in between: the parts are the ones above.
TablesAgree ==
  TypeOK /\ SeatsAgree /\ SlotLedger /\ EmptyHasTimer /\ AddressCount /\ CapacityInBounds

\* A miner reseated on the socket it was on gets the slot it had: freeSlots is
\* a stack, and a share found on work handed out before the switch is submitted
\* under the slot held after it.
SameSocketSameSlot ==
  [][\A c \in Clients :
       conn[c] # None /\ conn'[c] = conn[c] => slot'[c] = slot[c]]_vars

\* No step of one visitor moves another: several seats change hands at once
\* only when the listing they mine is taken down.
SeatsAreOwn ==
  [][\A c, d \in Clients :
       c # d /\ conn'[c] # conn[c] /\ conn'[d] # conn[d]
         => listing[c] = listing[d] /\ conn'[c] = None /\ conn'[d] = None]_vars

\* A seat moves with its own visitor and otherwise stays what it was.
SeatsStayPut == SameSocketSameSlot /\ SeatsAreOwn

\* Seen from the hub, a pool socket behaves as the StratumClient behind it does:
\* the link this module abstracts it to is the one Stratum is shown to implement.
LinkOf(k) == INSTANCE Link WITH link <- link[k], held <- k \in connections

EachSocketIsALink ==
  /\ \A k \in Conns : LinkOf(k)!Init
  /\ [][\A k \in Conns : LinkOf(k)!Next \/ UNCHANGED <<link[k], k \in connections>>]_vars

\* Once nobody visits, every pool socket the hub knows is given back.
QuietSiteHoldsNoSocket == <>[](clients = {}) => <>[](connections = {})
=============================================================================

------------------------------- MODULE Traffic -------------------------------
(***************************************************************************)
(* What the site counts of itself: the page that says where it is          *)
(* (miner-session.ts), the hub that turns that into one of a bounded set   *)
(* of keys (hub.ts, "traffic") and the table it is counted in (listings.ts)*)
(* which is all of it that outlives the process (Startup).                 *)
(*                                                                         *)
(* One browser tab, loaded again and again.  The page's lines arrive in    *)
(* order, or are lost with the socket.  SQLite may throw at any statement: *)
(* the message is then given up where it is.                               *)
(***************************************************************************)
EXTENDS Startup, Sequences, SequencesExt

CONSTANTS
  Hosts, Nothing,  \* hosts a visitor may come from
  Paths, Listed,  \* page keys; those that are a listing's, with its id
  RefMax,         \* REF_MAX_PER_DAY
  SeenMax,        \* keys a socket may spend
  MaxDay, MaxLoads, MaxSent  \* bounds of the model

Other == "(other)"

ASSUME TrafficAssumption ==
  /\ Listed \subseteq Paths /\ Nothing \notin Hosts /\ Other \notin Hosts
  /\ {RefMax, SeenMax, MaxLoads, MaxSent} \subseteq Nat \ {0} /\ MaxDay \in Nat

VARIABLES
  day,      \* the date
  visits,   \* the traffic table: its visits
  refs,     \* and, per day, its visits by referrer
  refDay, refSeen,  \* the hub's own
  blind,    \* refKeysToday threw after refDay was set, today (history)
  loads,    \* page loads so far (history)
  path,     \* where the page is, Nothing before the first load
  open,     \* its socket is open
  pending,  \* pendingView
  wire,     \* lines the server has yet to read
  counted, mined, seen,  \* what the server knows of this socket
  spent     \* writes this socket has cost (history)

clientVars == <<counted, mined, seen, spent>>
pageVars   == <<loads, path, open, pending, wire>>
hubVars    == <<visits, refs, refDay, refSeen, blind>>
trafficVars       == <<startVars, day, hubVars, pageVars, clientVars>>

Days == 0 .. MaxDay
RefKeys == Hosts \cup {Other}

\* What a hit is counted under, besides its day.
Hit(kind, key) == [kind |-> kind, key |-> key]

Views == [t : {"view"}, path : Paths, first : BOOLEAN, ref : Hosts \cup {Nothing}]
Lines == Views \cup [t : {"mine"}]

TrafficTypeOK ==
  /\ day \in Days /\ visits \in Nat /\ refs \in [Days -> [RefKeys -> Nat]]
  /\ refDay \in Days \cup {-1} /\ refSeen \subseteq RefKeys
  /\ blind \in BOOLEAN /\ open \in BOOLEAN
  /\ counted \in BOOLEAN /\ mined \in BOOLEAN
  /\ loads \in 0 .. MaxLoads /\ path \in Paths \cup {Nothing}
  /\ pending \in Views \cup {Nothing} /\ wire \in Seq(Lines)
  /\ seen \subseteq [kind : {"page", "listing"}, key : Paths] /\ spent \in Nat

Unknown == counted' = FALSE /\ mined' = FALSE /\ seen' = {} /\ spent' = 0

TrafficInit ==
  /\ StartInit
  /\ day = 0 /\ visits = 0 /\ refs = [d \in Days |-> [h \in RefKeys |-> 0]]
  /\ refDay = -1 /\ refSeen = {} /\ blind = FALSE
  /\ loads = 0 /\ path = Nothing /\ open = FALSE /\ pending = Nothing /\ wire = <<>>
  /\ counted = FALSE /\ mined = FALSE /\ seen = {} /\ spent = 0

-----------------------------------------------------------------------------
(* The page.                                                               *)

View(p, first, ref) == [t |-> "view", path |-> p, first |-> first, ref |-> ref]

\* A page load, from a host or from nowhere: its first line is composed while the
\* socket is still being opened.  Bound of the model: on a server of the last
\* release, in its ordinary environment.
Load(p, ref) ==
  /\ phase = "up" /\ env = Ordinary /\ code = MaxSteps
  /\ loads < MaxLoads
  /\ loads' = loads + 1
  /\ path' = p
  /\ pending' = View(p, TRUE, ref)
  /\ open' = FALSE /\ wire' = <<>>
  /\ Unknown
  /\ UNCHANGED <<startVars, day, hubVars>>

\* send() of a line, which says whether it was sent: a line that was not takes the
\* place of the one that waits, the first one too.
Navigate(p) ==
  /\ path \notin {Nothing, p} /\ Len(wire) < MaxSent
  /\ path' = p
  /\ IF open
     THEN wire' = Append(wire, View(p, FALSE, Nothing)) /\ UNCHANGED pending
     ELSE pending' = View(p, FALSE, Nothing) /\ UNCHANGED wire
  /\ UNCHANGED <<startVars, day, hubVars, loads, open, clientVars>>

\* Broken on purpose: every socket that opens says where the page is, as the first.
OpenAgain ==
  /\ phase = "up" /\ path # Nothing /\ ~open
  /\ open' = TRUE /\ pending' = Nothing
  /\ wire' = <<View(path, TRUE, Nothing)>>
  /\ UNCHANGED <<startVars, day, hubVars, loads, path, clientVars>>

\* onopen
Open ==
  /\ phase = "up" /\ path # Nothing /\ ~open
  /\ open' = TRUE /\ pending' = Nothing
  /\ wire' = IF pending = Nothing THEN <<>> ELSE <<pending>>
  /\ UNCHANGED <<startVars, day, hubVars, loads, path, clientVars>>

\* The visitor mines, or the page does so again on a socket that has just opened.
Mine ==
  /\ open /\ Len(wire) < MaxSent
  /\ wire' = Append(wire, [t |-> "mine"])
  /\ UNCHANGED <<startVars, day, hubVars, loads, path, open, pending, clientVars>>

\* The socket closes, for any reason; one is that it sent too many messages.
Close ==
  /\ open
  /\ open' = FALSE /\ wire' = <<>>
  /\ Unknown
  /\ UNCHANGED <<startVars, day, hubVars, loads, path, pending>>

-----------------------------------------------------------------------------
(* The hub.                                                                *)

RefKeysToday == {h \in RefKeys : refs[day][h] > 0}

\* Broken on purpose: a new day, or a new process, starts with no host.
NoneSeen == IF day # refDay THEN {} ELSE refSeen

SeenToday == IF day # refDay THEN RefKeysToday ELSE refSeen

RefKey(host) == IF host \in SeenToday \/ Cardinality(SeenToday) < RefMax THEN host ELSE Other

\* What refKey leaves in refSeen.
Admitted(host) == IF RefKey(host) = host THEN SeenToday \cup {host} ELSE SeenToday

Fresh(m) == m.first /\ ~counted

Referred(m) == Fresh(m) /\ m.ref # Nothing

\* countOnce, for a socket that has `known` behind it.
Once(k, known) == k \notin known /\ Cardinality(known) < SeenMax

\* What countView counts for m, in its order; `exists` is listingExists.
Visit(m)  == IF Fresh(m) THEN <<Hit("visit", "")>> ELSE <<>>
Ref(m)    == IF Referred(m) THEN <<Hit("ref", RefKey(m.ref))>> ELSE <<>>
Page(m)   == IF Once(Hit("page", m.path), seen) THEN <<Hit("page", m.path)>> ELSE <<>>
OfListing(m, exists) ==
  IF /\ exists /\ m.path \in Listed
     /\ Once(Hit("listing", m.path), seen \cup ToSet(Page(m)))
  THEN <<Hit("listing", m.path)>> ELSE <<>>

\* countHit for the first n of these; a next one is marked and not written.
\* Pages and listings are counted here only in what they cost.
Counts(todo, n) ==
  LET done   == {todo[i] : i \in 1 .. n}
      marked == {todo[i] : i \in DOMAIN todo \cap 1 .. n + 1}
  IN  /\ visits' = visits + Cardinality({k \in done : k.kind = "visit"})
      /\ refs' = [refs EXCEPT ![day] =
           [h \in RefKeys |-> @[h] + Cardinality({k \in done : k = Hit("ref", h)})]]
      /\ seen' = seen \cup {k \in marked : k.kind \in {"page", "listing"}}
      /\ spent' = spent + n

Reads(t) == phase = "up" /\ wire # <<>> /\ Head(wire).t = t /\ wire' = Tail(wire)

CountView ==
  /\ Reads("view")
  /\ LET m == Head(wire)
     IN  \E exists \in BOOLEAN :
           LET todo == Visit(m) \o Ref(m) \o Page(m) \o OfListing(m, exists)
           IN  \E n \in 0 .. Len(todo) :
                 /\ Counts(todo, n)
                 /\ counted' = (counted \/ m.first)
                 /\ IF Referred(m) /\ n > 0
                    THEN /\ refDay' = day
                         /\ refSeen' = Admitted(m.ref)
                    ELSE UNCHANGED <<refDay, refSeen>>
  /\ UNCHANGED <<startVars, day, blind, loads, path, open, pending, mined>>

\* refKeysToday throws: the day is marked as read, what was seen before stays.
CountBlindly ==
  /\ Reads("view") /\ Referred(Head(wire)) /\ day # refDay
  /\ Counts(Visit(Head(wire)), 1)
  /\ counted' = TRUE
  /\ refDay' = day /\ blind' = TRUE
  /\ UNCHANGED <<startVars, day, refSeen, loads, path, open, pending, mined>>

\* startMining: no seat, or not the first one of this socket; or one that counts,
\* unless SQLite throws once `mined` is set.
CountMine ==
  /\ Reads("mine")
  /\ \/ UNCHANGED <<mined, spent>>
     \/ ~mined /\ mined' = TRUE /\ spent' \in {spent, spent + 1}
  /\ UNCHANGED <<startVars, day, hubVars, loads, path, open, pending, counted, seen>>

Midnight ==
  /\ day < MaxDay
  /\ day' = day + 1 /\ blind' = FALSE
  /\ UNCHANGED <<startVars, visits, refs, refDay, refSeen, pageVars, clientVars>>

\* The process dies with everything but the table.
ServerDies ==
  /\ Die
  /\ refDay' = -1 /\ refSeen' = {}
  /\ open' = FALSE /\ wire' = <<>>
  /\ Unknown
  /\ UNCHANGED <<day, visits, refs, blind, loads, path, pending>>

\* Bound of the model: once there has been a visitor, only the release and the
\* environment that let the server start before.
ServerStarts ==
  /\ Starting \/ IF loads = 0 THEN Operator ELSE Boot(Ordinary)
  /\ UNCHANGED <<day, hubVars, pageVars, clientVars>>

-----------------------------------------------------------------------------
Visitor ==
  \/ \E p \in Paths : (\E ref \in Hosts \cup {Nothing} : Load(p, ref)) \/ Navigate(p)
  \/ Open \/ Mine \/ Close

TrafficNext == ServerStarts \/ ServerDies \/ Midnight \/ Visitor \/ CountView \/ CountBlindly \/ CountMine

TrafficSpec == TrafficInit /\ [][TrafficNext]_trafficVars

-----------------------------------------------------------------------------
(* Safety.                                                                 *)

RefTotal == Cardinality(UNION {{<<d, h>>} \X (1 .. refs[d][h]) : d \in Days, h \in RefKeys})

\* A visit is a page load: no reconnect, restart or retry counts one again, and
\* none has more than one referrer.  What a socket can write is bounded, however
\* long it walks the site: "what bounds the disk one socket can spend".
CountsAreBounded ==
  /\ TrafficTypeOK
  /\ visits <= loads /\ RefTotal <= visits
  /\ spent <= SeenMax + 3

\* "An unbounded host is an unbounded table": a day has RefMax hosts and the one
\* key for all others, however often the process starts in it; unless the table
\* could not be read when the day began for the hub.
RefKeysAreBounded == blind \/ Cardinality(RefKeysToday \ {Other}) <= RefMax
=============================================================================

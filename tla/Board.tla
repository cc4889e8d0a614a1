-------------------------------- MODULE Board --------------------------------
(***************************************************************************)
(* The board: what hub.ts builds of the listings (listings.ts) and the     *)
(* shares not yet written, hands to a socket that opens (sendBoard) and    *)
(* publishes to all of them (startLoops); the rank and the pages the HTTP  *)
(* API answers; and the list one visitor's Home page shows of it.          *)
(*                                                                         *)
(* Every share is worth one, so a listing's score is its share count.  Who *)
(* mines what is Placement, how shares are credited and what a failed      *)
(* flush leads to is Ledger: here they only change what there is to show.  *)
(***************************************************************************)
EXTENDS Integers, Sequences, SequencesExt, FiniteSets

CONSTANTS
  MaxListings,    \* listings are numbered as they are created
  Sockets, Absent,
  Entries,        \* config.board.entries
  Threshold,      \* config.board.visibilityThreshold
  Searches,       \* what a visitor may type: the listings each search matches
  Times,          \* the milliseconds a listing may be created in
  MaxScore, MaxOffset, MaxPolls  \* bounds of the model: MaxPolls requests in flight

Ids == 1 .. MaxListings

ASSUME BoardAssumption ==
  /\ Absent \notin Ids
  /\ {MaxListings, Entries, Threshold, MaxScore} \subseteq Nat \ {0}
  /\ {MaxOffset, MaxPolls} \subseteq Nat
  /\ Searches \subseteq SUBSET Ids /\ Ids \in Searches
  /\ Times \subseteq Nat /\ Times # {}

VARIABLES
  created,   \* listings created so far
  born,      \* created_at: the clock may stand still or step back between two of them
  rows,      \* the written score of each listing, Absent when it has no row
  unflushed, \* shares credited and not written
  shown,     \* the board each socket of `clients` last received; no other is there
  lastBoard, \* the last snapshot built by a broadcast or for a joiner
  current,   \* lastBoardAt is less than broadcastMs ago
  overtaken, \* lastBoard was built for a joiner and never published (history)
  cleared,   \* listings that lost shares to a failed deletion since a board was
             \* published to all (history)
  path,      \* the query Home renders, Absent while its list is the live board
  polled,    \* the query the hook's last effect was run for
  page,      \* the answer it keeps
  polls      \* requests in flight, each with the `live` of its effect

listed    == <<created, born, rows, unflushed, cleared>>
boards    == <<shown, lastBoard, current, overtaken>>
visitor   == <<path, polled, page, polls>>
boardVars == <<listed, boards, visitor>>

Query == [search : Searches, offset : {k \in 0 .. MaxOffset : k % Entries = 0}]

Home == [search |-> Ids, offset |-> 0]

\* A row of a snapshot, and the snapshot: `pending` is the queue at the gate.
Entry    == [id : Ids, score : Nat]
Snapshot == [entries : Seq(Entry), pending : Seq(Entry), total : Nat, online : Nat]

Answer == [query : Query, rows : Seq(Ids), total : Nat]

BoardTypeOK ==
  /\ created \in 0 .. MaxListings /\ born \in [Ids -> Times]
  /\ rows \in [Ids -> (0 .. MaxScore) \cup {Absent}]
  /\ unflushed \in [Ids -> 0 .. MaxScore]
  /\ DOMAIN shown \subseteq Sockets /\ shown \in [DOMAIN shown -> Snapshot \cup {Absent}]
  /\ lastBoard \in Snapshot \cup {Absent}
  /\ current \in BOOLEAN /\ overtaken \in BOOLEAN /\ cleared \subseteq Ids
  /\ {path, polled} \subseteq Query \cup {Absent} /\ page \in Answer \cup {Absent}
  /\ polls \subseteq [query : Query, live : BOOLEAN]

BoardInit ==
  /\ created = 0 /\ born = [l \in Ids |-> CHOOSE t \in Times : TRUE]
  /\ rows = [l \in Ids |-> Absent] /\ unflushed = [l \in Ids |-> 0] /\ cleared = {}
  /\ shown = <<>>
  /\ lastBoard = Absent /\ current = FALSE /\ overtaken = FALSE
  /\ path = Absent /\ polled = Absent /\ page = Absent /\ polls = {}

-----------------------------------------------------------------------------
(* The queries.  Rows that are equal in all that ORDER BY names come in    *)
(* the order SQLite finds them in, another one each time: `tie`.           *)

Visible == {l \in Ids : rows[l] # Absent /\ rows[l] >= Threshold}
Queue   == {l \in Ids : rows[l] # Absent} \ Visible

Ties == Injection(Ids, Ids)

\* ORDER.board, ORDER.queue
Above(l, k)   == rows[l] > rows[k] \/ (rows[l] = rows[k] /\ born[l] < born[k])
Nearest(l, k) == rows[l] > rows[k] \/ (rows[l] = rows[k] /\ born[l] > born[k])

Equals(l) == {k \in Visible \ {l} : rows[k] = rows[l] /\ born[k] = born[l]}

Listed(tie, l, k) == Above(l, k) \/ (~Above(k, l) /\ tie[l] < tie[k])
Queued(tie, l, k) == Nearest(l, k) \/ (~Nearest(k, l) /\ tie[l] < tie[k])

\* The elements of S in the order of Before: defined here, and not as SetToSortSeq,
\* for the proofs to see what it is.
Sorted(S, Before(_, _)) ==
  CHOOSE s \in [1 .. Cardinality(S) -> S] :
    \A i, j \in 1 .. Cardinality(S) : i < j => Before(s[i], s[j])

\* At most Entries of s, from the offset on.
Cut(s, offset) == [i \in {i \in 1 .. Entries : offset + i <= Len(s)} |-> s[offset + i]]

\* Broken on purpose: between equal scores the older comes after.
RankByAge(l) == 1 + Cardinality({k \in Visible : Nearest(k, l)})

\* listBoard and countBoard under a search
ListBoard(q, tie) ==
  LET Before(l, k) == Listed(tie, l, k)
  IN  Cut(Sorted(Visible \cap q.search, Before), q.offset)

CountBoard(q) == Cardinality(Visible \cap q.search)

Pending(tie) ==
  LET Before(l, k) == Queued(tie, l, k)
  IN  Cut(Sorted(Queue, Before), 0)

\* listingRank, asked for a listing that is on the board
RankOf(l) == 1 + Cardinality({k \in Visible : Above(k, l)})

-----------------------------------------------------------------------------
(* The snapshot.                                                           *)

Score(l) == rows[l] + unflushed[l]

Live(l) == [id |-> l, score |-> Score(l)]

LiveAll(s) == [i \in DOMAIN s |-> Live(s[i])]

\* Array.sort is stable: rows of one live score stay in the order the query gave them.
SortedByScore(s) ==
  LET Before(i, k) == Score(s[i]) > Score(s[k]) \/ (Score(s[i]) = Score(s[k]) /\ i < k)
      order == Sorted(DOMAIN s, Before)
  IN  [i \in DOMAIN s |-> s[order[i]]]

BoardSnapshot(tie) ==
  [entries |-> LiveAll(SortedByScore(ListBoard(Home, tie))),
   pending |-> LiveAll(Pending(tie)),
   total   |-> CountBoard(Home),
   online  |-> Cardinality(DOMAIN shown)]

-----------------------------------------------------------------------------
(* The hub.                                                                *)

With(f, c, x)  == [d \in DOMAIN f \cup {c} |-> IF d = c THEN x ELSE f[d]]
Without(f, c)  == [d \in DOMAIN f \ {c} |-> f[d]]

\* Broken on purpose: every joiner gets a snapshot of the moment, kept nowhere.
PaintAfresh(c, tie, answers) ==
  /\ shown' = With(shown, c, [BoardSnapshot(tie) EXCEPT !.online = @ + 1])
  /\ UNCHANGED <<lastBoard, current, overtaken>>

\* sendBoard to c, which is counted already.  What it throws is swallowed;
\* `answers` says whether SQLite does.
FirstPaint(c, tie, answers) ==
  IF lastBoard # Absent /\ current
  THEN /\ shown' = With(shown, c, lastBoard)
       /\ UNCHANGED <<lastBoard, current, overtaken>>
  ELSE IF ~answers
  THEN /\ shown' = With(shown, c, Absent)
       /\ UNCHANGED <<lastBoard, current, overtaken>>
  ELSE /\ lastBoard' = [BoardSnapshot(tie) EXCEPT !.online = @ + 1]
       /\ shown' = With(shown, c, lastBoard')
       /\ current' = TRUE /\ overtaken' = TRUE

Open(c) ==
  /\ c \notin DOMAIN shown
  /\ \E tie \in Ties, answers \in BOOLEAN : FirstPaint(c, tie, answers)
  /\ UNCHANGED <<listed, visitor>>

Close(c) ==
  /\ c \in DOMAIN shown
  /\ shown' = Without(shown, c)
  /\ UNCHANGED <<listed, lastBoard, current, overtaken, visitor>>

Credit(l) ==
  /\ rows[l] # Absent
  /\ Score(l) < MaxScore
  /\ unflushed' = [unflushed EXCEPT ![l] = @ + 1]
  /\ UNCHANGED <<created, born, rows, cleared, boards, visitor>>

\* Broken on purpose: the counters are cleared before the transaction, which fails.
FlushClearsFirst ==
  /\ unflushed' = [l \in Ids |-> 0]
  /\ \/ UNCHANGED rows
     \/ rows' = [l \in Ids |-> IF rows[l] = Absent THEN Absent ELSE Score(l)]
  /\ UNCHANGED <<created, born, cleared, boards, visitor>>

\* flush, when SQLite takes the batch: a listing past the gate becomes visible.
Flush ==
  /\ unflushed' = [l \in Ids |-> 0]
  /\ rows' = [l \in Ids |-> IF rows[l] = Absent THEN Absent ELSE Score(l)]
  /\ UNCHANGED <<created, born, cleared, boards, visitor>>

Create ==
  /\ created < MaxListings
  /\ created' = created + 1
  /\ rows' = [rows EXCEPT ![created'] = 0]
  /\ \E t \in Times : born' = [born EXCEPT ![created'] = t]
  /\ UNCHANGED <<unflushed, cleared, boards, visitor>>

\* dropListing, then deleteListing.  When that throws the row stays, without what
\* dropListing has thrown away.
Takedown(l) ==
  /\ rows[l] # Absent
  /\ unflushed' = [unflushed EXCEPT ![l] = 0]
  /\ \/ rows' = [rows EXCEPT ![l] = Absent] /\ UNCHANGED cleared
     \/ UNCHANGED rows /\ cleared' = cleared \cup {k \in {l} : unflushed[k] > 0}
  /\ UNCHANGED <<created, born, boards, visitor>>

NothingMoved(json) == json = lastBoard

Publish(json) ==
  /\ lastBoard' = json
  /\ shown' = [c \in DOMAIN shown |-> json]
  /\ overtaken' = FALSE /\ cleared' = {}

\* The broadcast loop; with nobody there, and when SQLite does not answer, it
\* does nothing.
Tick ==
  /\ DOMAIN shown # {}
  /\ current' = TRUE
  /\ \E tie \in Ties :
       IF NothingMoved(BoardSnapshot(tie))
       THEN UNCHANGED <<lastBoard, shown, overtaken, cleared>>
       ELSE Publish(BoardSnapshot(tie))
  /\ UNCHANGED <<created, born, rows, unflushed, visitor>>

\* broadcastMs pass with no tick that worked.
Age ==
  /\ current
  /\ current' = FALSE
  /\ UNCHANGED <<listed, shown, lastBoard, overtaken, visitor>>

-----------------------------------------------------------------------------
(* The list on Home.                                                       *)

Polled(q) == IF q = Home THEN Absent ELSE q

\* A tab, a settled search (which goes back to the first page) or a page number
\* is rendered, with the answer kept from before, once the effect of the render
\* before it has run.
Ask(q) ==
  /\ path = polled /\ Cardinality(polls) < MaxPolls
  /\ path # Polled(q)
  /\ q.offset > 0 => q.search = (IF path = Absent THEN Ids ELSE path.search)
  /\ path' = Polled(q)
  /\ UNCHANGED <<listed, boards, polled, page, polls>>

Dropped == {[p EXCEPT !.live = FALSE] : p \in polls}

\* The effect of a new path, after the one before it is cleaned up: a query clears
\* the answer and is asked at once; no query leaves the answer where it is.
Effect ==
  /\ path # polled
  /\ polled' = path
  /\ IF path = Absent
     THEN polls' = Dropped /\ UNCHANGED page
     ELSE polls' = Dropped \cup {[query |-> path, live |-> TRUE]} /\ page' = Absent
  /\ UNCHANGED <<listed, boards, path>>

\* The ten seconds of the poll: its timer runs until the effect is cleaned up.
Poll ==
  /\ polled # Absent /\ Cardinality(polls) < MaxPolls
  /\ polls' = polls \cup {[query |-> polled, live |-> TRUE]}
  /\ UNCHANGED <<listed, boards, path, polled, page>>

\* `live &&`: the effect that asked has not been cleaned up.
Heard(p) == p.live

\* GET /api/board is answered, from what is written; or the request fails.
Arrive(p) ==
  /\ polls' = polls \ {p}
  /\ \/ UNCHANGED page
     \/ /\ Heard(p)
        /\ \E tie \in Ties :
             page' = [query |-> p.query, rows |-> ListBoard(p.query, tie),
                      total |-> CountBoard(p.query)]
  /\ UNCHANGED <<listed, boards, path, polled>>

-----------------------------------------------------------------------------
Rows == Create \/ Flush \/ \E l \in Ids : Credit(l) \/ Takedown(l)

Broadcast == Tick \/ Age \/ \E c \in Sockets : Open(c) \/ Close(c)

View == Poll \/ Effect \/ (\E q \in Query : Ask(q)) \/ (\E p \in polls : Arrive(p))

\* Sockets and polls share nothing but the rows: a behaviour has one or the other.
BoardNext ==
  \/ Rows
  \/ Broadcast /\ visitor = <<Absent, Absent, Absent, {}>>
  \/ View /\ lastBoard = Absent /\ shown = <<>>

BoardSpec == BoardInit /\ [][BoardNext]_boardVars

\* The timer goes on firing, and SQLite answers it now and then.
BoardFairSpec == BoardSpec /\ WF_boardVars(Tick)

-----------------------------------------------------------------------------
(* Safety.                                                                 *)

\* One broadcast for all: whoever has had a board has the last one.  Two things
\* may come in between: a joiner's own snapshot, and a first paint that failed.
AllShowTheLastBoard ==
  /\ BoardTypeOK
  /\ \A c \in DOMAIN shown : shown[c] \in {lastBoard, Absent} \/ overtaken

\* The places a listing of that rank may have: SQLite may list its equals first.
PlacesOf(l) == LET rank == RankOf(l) IN rank .. rank + Cardinality(Equals(l))

\* The rank a listing's page gives is its place among the pages of GET /api/board:
\* the count behind the one and the order of the other differ only between listings
\* of one score and one millisecond.
RankIsThePlace ==
  \A tie \in Ties : \A q \in {q \in Query : q.search = Ids} :
    LET list == ListBoard(q, tie)
    IN  \A i \in DOMAIN list : q.offset + i \in PlacesOf(list[i])

Shows(b, l) == \E i \in DOMAIN b.entries : b.entries[i].id = l

\* The first page is not one of those, but the live one, cut by what is written and
\* sorted by what is not.  A listing that is missing from it outranks what it shows
\* by unwritten shares alone, and with all written its places are the ranks.
FirstPageIsTheTop ==
  \A tie \in Ties : LET b == BoardSnapshot(tie) IN
    /\ \A l \in Visible, i \in DOMAIN b.entries : ~Shows(b, l) => rows[l] <= b.entries[i].score
    /\ (\A l \in Visible : unflushed[l] = 0) =>
         \A i \in DOMAIN b.entries : i \in PlacesOf(b.entries[i].id)

\* From the effect of a query on, what Home lists answers the search and the page
\* that are on the screen, whatever was asked, kept or dropped before.
PageAnswersTheQuery ==
  path # Absent /\ path = polled /\ page # Absent =>
    page.query = path /\ ToSet(page.rows) \subseteq path.search

\* The lists a visitor pages through, as the three above say.
ListsAreRight == RankIsThePlace /\ FirstPageIsTheTop /\ PageAnswersTheQuery

ScoreIn(b, l) ==
  LET all == ToSet(b.entries) \cup ToSet(b.pending)
  IN  {e.score : e \in {e \in all : e.id = l}}

\* While a listing exists, the score a visitor is shown for it never falls: not
\* across the flush, nor when it passes the gate from the queue to the board.  Only a
\* deletion that failed after dropListing takes shares back, in the next board.
ShownNeverFalls ==
  [][\A c \in DOMAIN shown \cap DOMAIN shown', l \in Ids \ cleared :
       /\ rows[l] # Absent /\ rows'[l] # Absent /\ shown[c] # Absent /\ shown'[c] # Absent
       => \A old \in ScoreIn(shown[c], l), new \in ScoreIn(shown'[c], l) : new >= old]_boardVars

(* Liveness.                                                               *)

AtRest == UNCHANGED <<rows, unflushed, DOMAIN shown>>

\* "The next broadcast reaches them", hub.ts:142 of the repository: when the site comes
\* to rest, every visitor's board comes to be a true one.  It is not so: sendBoard has
\* put its own snapshot in lastBoard, or the board is again what was last published,
\* and the loop takes that for nothing to send.
NextBroadcastReachesThem ==
  <>[][AtRest]_boardVars =>
    <>[](\A c \in DOMAIN shown : \E tie \in Ties : shown[c] = BoardSnapshot(tie))

=============================================================================

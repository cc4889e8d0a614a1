# outmine: a TLA+ verification project

outmine is a site whose visitors mine for a listing in their browser. One Bun
process (`src/packages/server`) serves the page, keeps a WebSocket per visitor,
shares a few Stratum sockets to a mining pool among all who mine, credits every
share the pool accepts to the listing it was mined for, and keeps the result in
SQLite. The page (`src/packages/web`) keeps the visitor's wish over reconnects
and hashes in workers. This directory models that program, checks it with TLC
and proves its safety properties with TLAPS.

- [Inventory](#inventory)
- [Modules](#modules)
- [Runs](#runs)
- [Fairness](#fairness)
- [Proofs](#proofs)
- [Where documents and code part](#where-documents-and-code-part)
- [Remarks on the code](#remarks-on-the-code)
- [Not modelled, and why](#not-modelled-and-why)
- [Plan](#plan)

Run `tlc -config <run>.cfg <module>.tla` for a run and `tlapm <module>.tla` for
the proofs. `PROJECT.json` lists every run, the mutated definition that each
property is shown to catch, the source lines of every definition, and the
hazards.

## Inventory

The server is one JavaScript thread: a handler runs to its end before the next
one starts. What interleaves are handlers (messages of many visitors, timers,
events of many pool sockets), and the two places that `await`: dialling the pool
and fetching or encoding an icon. The page is one thread too, beside its
workers, each of which is one.

| part | source | state it keeps | operations | correct when |
|---|---|---|---|---|
| visitors and seats | `hub.ts` | `clients`, `perAddress`, `Client`, `connections`, `PoolConnection`, `openingFrozenUntil` | `addClient`, `removeClient`, `startMining`, `stopMining`, `joinConnection`, `leaveConnection`, `openConnection`, `closeConnection`, `tuneConnections`, `poolTrouble`, `dropListing` | both sides of a seat agree; every extranonce2 slot is in one place; an empty socket is timed and a busy one is not; counts do not drift; capacity stays usable |
| jobs, shares, credit | `hub.ts` | `jobs`, `currentJobId`, `extranonce1`, `difficulty`, `submits`, `badSubmits`, `unflushed` | `broadcastJob`, `submitShare`, `onSubscribed`, `onDifficulty`, `onJob`, `onSubmitResult`, `onDisconnected`, `creditShare` | everyone mines the current job on a header of their own; credit goes to the listing mined, once |
| Stratum client | `stratum.ts` | `#socket`, `#closed`, `#reconnectDelay`, two timers, `#nextId`, `#pending` | `connect`, `#startWatchdog`, `submit`, `handleMessage`, `#onClose`, `#scheduleReconnect`, `close` | one socket at a time; it comes back, and slower each time until a login; silence is noticed; an answer finds its request; closed means closed |
| framing | `stratum.ts` | `#buffer` | `feed` | the lines delivered are the lines sent, and no more than a cut character is misread |
| ledger | `hub.ts`, `listings.ts`, `schema.sql`, `server.ts` | `unflushed`, `flushFailures`, tables `listings` and `share_buckets` | `creditShare`, `flush`, `creditShares`, `dropListing`, `deleteListing`, exits | no share lost or written twice; history, total and gate agree; a dead database ends the process |
| board | `hub.ts`, `listings.ts`, `Home.tsx`, `api.ts` | `lastBoard`, `lastBoardAt`; the page's query and answer | `boardSnapshot`, `sendBoard`, broadcast loop, `listBoard`, `listingRank`, polling | one board for all; a score falls by a failed deletion only; a rank is a place |
| listings and icons | `listings.ts`, `avatar.ts`, `routes.ts`; `SubmitForm.tsx`, `OwnedPanel.tsx`, `storage.ts` | table `listings`; tokens in `localStorage` | `createListing`, `updateListing`, `setIcon`, `setHandleAvatar`; `claim`, `save`, `upload`, `forget` | one listing per target; only the owner writes; a token is lost in no way but those the code names |
| traffic counters | `hub.ts`, `listings.ts`, `miner-session.ts` | `refDay`, `refSeen`, `Client.seen`, table `traffic`; `pendingView` | `countView`, `countOnce`, `refKey`, `countHit` | a page load counts once; the table stays bounded |
| start-up | `config.ts`, `db.ts`, `schema.sql`, `server.ts` | `problems`, `config`, `user_version`, columns | the readers, `openDatabase`, migrations, `exitIfMisconfigured` | what was set is used or the server does not start; a file any release has touched is one that can be started on |
| HTTP and limits | `routes.ts`, `security.ts`, `server.ts` | rate limiter windows | routes, `originAllowed`, `clientAddress`, upgrade | see their callees |
| browser session | `miner-session.ts`, `mining.ts` | `ws`, `mineForRef`, timers, `Miner` | connect, resume, retry, start, stop, reload | nothing mines unasked; page and server agree, or the page says why not |
| browser worker | `mining.ts`, `miner.worker.ts`, `packages/wasm` | `#workers`, `#job`; `job`, `nonce`, `running`, `loaded` | `start`, `stop`, `setJob`; `onmessage`, `loop`, `load`, `mine` | one loop per worker; slices do not overlap; a posted share is a share |

How they interact: a browser's `mine` becomes a seat on a pool socket and maybe
a new `StratumClient`; the client calls back into the hub (`onSubscribed`,
`onJob`, `onDifficulty`, `onSubmitResult`, `onError`, `onDisconnected`); the hub
sends jobs to browsers, forwards their shares and adds what is accepted to
`unflushed`; the flush loop writes that to SQLite and the broadcast loop shows
rows and counters together; the takedown route reaches into both
(`dropListing`, then `deleteListing`). In the page, `useMiner` posts jobs to the
workers through `Miner`, and a share comes back the same way; the HTTP API is
used for what is not live: creating and editing listings, searches and pages.

What is hard, and hard to test: seats change hands in any order under timers
that race arrivals; answers of the pool outlive the miner they answer; a
reconnect invalidates the work everyone is hashing; a dial cannot be called
back; statements and whole flushes fail and are tried again; a process ends
between any two steps; a browser's retry timers, reconnects and queued messages
meet a visitor who has changed their mind; workers are given work while their
module is still being loaded; calls are lost before or after the server has seen
them. `PROJECT.json` lists each at its line.

## Modules

| module | models | built on |
|---|---|---|
| `Placement` | visitors, seats, slots, pool sockets, capacity, freeze | |
| `Hub` | jobs, shares, submits, credit, on the seats of `Placement` | `Placement` |
| `Link` | abstract: what may be assumed of one Stratum client | |
| `Stratum` | one `StratumClient`, its sockets and timers | refines `Link` |
| `Framing` | bytes to lines | |
| `Ledger` | from a credited share to a committed row | |
| `Site` | hub and ledger in one process, from the browser's share to the row | `Hub`; refines `Ledger` |
| `Session` | the browser's session and the part of the hub that answers it | |
| `Mining` | `Miner`, its workers and the nonce loop | |
| `Board` | snapshot, broadcast, first paint, rank, the list on Home | |
| `Listings` | listings, ownership and icons; the forms and tokens of a browser | |
| `Startup` | settings, database file, migrations, the order of the start | |
| `Traffic` | what the site counts of itself, over restarts and midnights | `Startup` |
| `MCPlacement`, `MCHub`, `MCSite`, `MCMining`, `MCBoard`, `MCListings` | constants, bounds and symmetries of the runs | the module named |
| `MCStratum`, `MCDatabase`, `MCPage` | two parts that share no state, in one run: a behaviour is of one or the other | `Stratum` and `Framing`; `Ledger` and `Traffic`; `MCMining` and `MCBoard` |
| `HubProofs`, `StratumProofs`, `LedgerProofs`, `SessionProofs`, `MiningProofs`, `BoardProofs`, `ListingsProofs`, `TrafficProofs` | theorems | the module named; `HubProofs` has those on `Placement` and `Site` too, `StratumProofs` those on `Framing` |

**Placement.** A visitor's `Client` object is one entry of `listing`, `conn`,
`slot`, `cooling` and `mined`; a `PoolConnection` is one entry of `miners`,
`capacity`, `window`, `free` (the stack `freeSlots`, top last) and `idle`. A
handler is one action: `MineJoins` is all of `startMining` when a socket has
room, the departure from the old seat included; `MineOpens` is the same through
`openConnection`; `MineTurnedAway` and `MineRefused` are its early returns.
`StopMining(L)` is `stopMining` for a set of visitors, since `dropListing` stops
all miners of a listing in one handler. Which of several sockets with room is
taken is left open (the code takes the oldest). Time is abstracted: a timer that
is set may fire at any later moment, and a freeze or a cooldown may end at any
later moment. `link` is the Stratum client behind the socket, kept as far as
`Link` describes it. When `countHit("mine")` throws, the seat is
taken and `listing` stays `None`: that is a state of the model like any other.
Identities of pool sockets are reused when nothing of the
old one is left, so a finite set of them models any number. The shares of a
tuning window are counted up to `MaxWindow`, where they stay.

**Hub.** Extends each action of `Placement` with what the same handler does to
jobs and shares (`OnMine` is `MineJoins` plus `Forget` plus `Broadcast`), and
adds the pool's events. A header is abstracted to what tells two apart: socket,
job, extranonce1 (the number of the pool session), slot, difficulty. `work[c]`
is the last job message sent to a visitor. `wire` is the pool's side: submits it
has been sent and has not answered; it also records for whose listing a share was
sent, which the code does not keep and only a property looks at. The pool answers
in any order, either way, or never.

**Stratum.** Handlers are actions, except that `connect()` is two: the dial
starts (`TimerFires`, or the constructor) and ends (`DialSucceeds`,
`DialFails`), and anything may happen in between, `Close` included. A socket
`end()` was called on closes later. `silent` says that the last byte is
`SILENCE_MS` old.

**Framing.** `feed` over every way of cutting a stream into chunks. A byte is a
character, or the first or second of one that has two; a chunk is decoded by
itself (`Decode`), so a character that was cut becomes two that nobody sent.
`received`, `decoded`, `cut` and `dropped` are history variables. Longer
characters, and those that count twice in a string's length, are left out: they are
cut in the same way, in more places. `split("\n")` is said by counting: a character
belongs to the piece numbered by the newlines before it, and a piece is the
characters at its positions, in their order. The module's names are its own
(`FramingSpec`, `FramingTypeOK`), since `StratumProofs` extends it beside
`Stratum`; so are those of `Board` and `Traffic`, for the runs that have them beside
others.

**Ledger.** The three statements per listing of `creditShares` are separate
steps, so the database can break and the process can be killed between two of
them; no handler runs meanwhile, since `flush` is synchronous. `txn.view` is
what the open transaction sees, `disk` what is committed.

**Site.** Joins `Hub` and `Ledger`, which were written apart: the hub flushes in
one step, and the ledger is credited by anybody. They share the counters
`unflushed`, and what the hub calls `listings` are the rows on the ledger's disk
(`Placement` starts with any set of them, as a server does). `Handle` is whatever a
visitor, a timer or the pool makes the hub do, and no row changes; `CreateListing`
and `DeleteListing` are the two routes, of which the second is `dropListing` and
then the row, if the database answers. `KeepBooks` is everything else the ledger
does: nothing of the hub runs inside a transaction, and a process that ends takes
seats, jobs and shares under way with it (`NoTables`).

**Link.** A client is dialling, up, waiting, or gone, and held by the hub or
not. `Stratum!ImplementsLink` shows the detailed client implements it, and
`Placement!EachSocketIsALink` that the hub's view of each of its sockets is the
same machine. The two together are what allows `Placement` and `Hub` to leave
the client's inside to `Stratum`.

**Session.** One browser and one socket at a time. `up` and `down` are the two
directions of the WebSocket; both are lost when it closes, with all the server
knew of this client. The visitor's handlers, the socket's callbacks and the
retry timers are actions of the page; each way through `startMining`,
`stopMining` and `submitShare` is an action of the server, in which every other
visitor is hidden: a seat is there or it is not (`Seated`, `TurnedAway`), at any
slot. `pool.jobs` are the jobs a share may still name, the last `JobHistory`. `heard` is a history variable, what
this socket last asked for. `status`
is the panel's line as far as it tells a refusal with `retry` from one without
and from "pool reconnecting".

**Mining.** `Miner` is `pool`, `job` and what it has posted to each worker;
a worker is `mining`, `nonce`, `modules` (its map of promises), `running` and
its `loops`, a sequence so that a second one could be there. A step of a loop
runs from one `await` to the next: hash a chunk, go and fetch another module, or
throw. A nonce has `Bits` bits and everything about it wraps there, the signed
number `mine()` returns included. Which nonces win is left open.

**Board.** `rows` and `unflushed` change as `Ledger` and `Hub` have them change;
here they are what there is to show, with a share worth one. A takedown clears the
counter and then deletes the row, or fails to (`cleared` remembers which listings
lost shares in this way since a board was published). `born` is `created_at` in
milliseconds, of which several listings may have the same, and later ones an
earlier, since the clock is the system's. Rows equal in all that `ORDER BY` names
come in any order, another one in each query (`tie`). `FirstPaint` is `sendBoard`
in its three cases, the snapshot that makes `lastBoard` current included. The
queue at the gate is cut at `Entries`, as the board is. The list on Home is the
query that is rendered (`path`), the one the hook's effect last ran for (`polled`),
the answer it keeps, and requests that are answered in any order or not at all:
between a render and its effect, and when Home goes back to the live board, the old
answer is kept. Sockets and polls share only the rows, so a behaviour has one or the
other; the first half of the properties is about the one, the second about the
other.

**Listings.** A tab awaits one call at a time, as the forms do; the server
handles a call in one step, an icon in two, since the encoder is awaited. The list
of tokens in `localStorage` is changed in two steps, `Claim` or `Forget`, which
read it, and `Stores`, which writes: other tabs go on in between. A read that
throws is an empty list (`Readings`), and the write that follows replaces what is
there; a write that throws changes nothing and nobody hears of it. `writes` says of
each tab what it is about to write, and, as history, what has come since it read
(`came`) and whether it could read at all (`blind`). `lost` is a history variable:
the tokens gone by a cause that is named (the answer was lost, the creator was told
500, storage did not take it, the visitor forgot it, or a tab wrote a list back that
did not have it). Ids are drawn at random, so a new listing has any id that was
never drawn. Of an icon only this is kept, whether its owner uploaded it; a fetched
avatar takes the place of that.

**Startup.** The order of the imports: `config.ts` collects its problems,
`db.ts` opens, creates and migrates, `server.ts` looks at the problems and
listens. A setting is what its reader tells apart: unset, blank, a value that
will do, one that will not; for the pool's host, `"bad"` is the one known host
that goes with the other algorithm. `columns` is what the file really has, which
`version` only claims.

**Traffic.** Extends `Startup`, so that a restart is the whole start. A visit's
writes are a sequence, of which any prefix may succeed before SQLite throws, and
what the next one had marked stays marked. Days are numbers; referrer rows of
today are what a new process reads back.

## Runs

All run with two workers and deadlock checking, except `stratum`: a closed
client with no socket left has nothing to do, which is its end.

| run | checks | states |
|---|---|---|
| `placement` | `TablesAgree`, `SeatsStayPut`, `EachSocketIsALink`, `QuietSiteHoldsNoSocket` | 1.0 M |
| `hub` | `WorkIsCurrent`, `NothingIsOrphaned`, `AcceptedIsCreditedAsSent`, `BrakeHolds` | 0.79 M |
| `hub_moves` | `WorkIsCurrent`, over two pool sockets | 1.4 M |
| `stratum` | `OneLiveSocket`, `LinesAreWhole`, `OnlyLoginClearsBackoff`, `SilenceIsNoticed`, `KeepsTrying`, `ImplementsLink` | 95 k |
| `site` | `ImplementsLedger`, `BoardMovesByItsShares` | 1.7 M |
| `session` | `NothingMinesUnasked`, `LastWordIsTheWish`, `TheVisitorIsTold`, `HashesTheSeatsWork`, `WishIsServed` | 1.0 M |
| `listings` | `OneListingEach`, `TokenHasAHome`, `IconIsOwnAndEarned` | 3.4 M |
| `database` | of the ledger `LedgerIsSound`, `StopKeepsShares`, `FlushComesToAnEnd`; of start and traffic `StartIsSound`, `CountsAreBounded`, `RefKeysAreBounded` | 1.2 M |
| `page` | of the workers `OneLoop`, `SlicesAreDisjoint`, `PostedSharesAreReal`, `LatestJobIsHashed`; of the board `AllShowTheLastBoard`, `ListsAreRight`, `ShownNeverFalls` | 0.44 M |
| `nonce_sign` | `EveryWinnerIsPosted`, refuted | |
| `half_seat` | `AcceptedMovesAListing`, refuted | |
| `next_broadcast` | `NextBroadcastReachesThem`, refuted | |

What they show, by part:

- *Seats.* `TablesAgree` is type correctness with `SeatsAgree`, `SlotLedger`,
  `EmptyHasTimer`, `AddressCount` and `CapacityInBounds`: every table `hub.ts`
  keeps of a seat says the same. `SeatsStayPut`: no handler moves another
  visitor's seat, and a switch within a socket keeps the slot, on which shares
  already sent rely. A database that throws in `startMining` breaks neither.
- *Work and credit.* `WorkIsCurrent`: whoever is seated and has a listing is on
  the current job, at the current difficulty, on a header nobody else has, and
  what the hub would forward is a header it can name. `AcceptedIsCreditedAsSent`:
  what is accepted while its miner keeps his seat is credited to the listing it was
  sent for, once and nowhere else, by a database that may throw whenever a seat is
  taken. A share sent for no listing, from a half-taken seat, is credited to none;
  that this happens is `half_seat`.
- *The pool.* `ImplementsLink` and `EachSocketIsALink` meet at `Link`.
  `LinesAreWhole`: wherever the stream is cut, the lines handed on are the whole
  lines of what its chunks were decoded to; a cut character is misread, and takes no
  newline and no other character along.
- *The ledger.* `LedgerIsSound` after a kill at any statement; `StopKeepsShares`;
  `FlushComesToAnEnd`.
- *The two together.* `ImplementsLedger`: the hub's handlers do to the counters
  only what `Ledger` lets its surroundings do: a share at a time, for a listing
  with a row, never during a transaction, and a takedown leaves nothing for a flush
  to trip over. `BoardMovesByItsShares` follows a share from the pool's answer to
  the board: what is shown for a listing moves by an answer to a share that was
  sent for it, and by nothing else but a takedown whose deletion fails: not by a
  flush, failed or tried again, nor by an answer that comes after its miner has
  switched. `ShownMovesByShares` of `Ledger` and `CreditsTheListingMined` of `Hub`
  say its two halves of the parts alone; they are proved, and have no run of their
  own.
- *The browser.* `LastWordIsTheWish`: the last thing an open socket carries is
  what the visitor wants, whatever timers and reconnects add. `TheVisitorIsTold`
  and `HashesTheSeatsWork` join the two sides: when nothing is under way, server
  and page agree, or the panel says why not, and the workers hash the seat's own
  header. `WishIsServed` is its liveness.
- *The workers.* `OneLoop` and `SlicesAreDisjoint`: nothing is hashed twice, by
  one worker or by two, until one has been through its slice.
  `LatestJobIsHashed`: workers started late or still loading a module come to
  the page's last job.
- *The board.* `AllShowTheLastBoard`, but for a snapshot a joiner was handed in
  between; what that does to a board at rest is `next_broadcast`. `ListsAreRight`:
  a rank is a place that the list of written scores may give the listing among its
  equals; Home's first page, which is the live one, leaves out nobody who is ahead by
  what is written, and is the top of the list when nothing is unwritten; and once the
  effect of a query has run, the answer shown is the answer to it. `ShownNeverFalls`,
  but for what a failed deletion has thrown away, in the one board after it.
- *Listings.* Over calls that are lost before or after they were handled, and two
  tabs at one storage. `TokenHasAHome` does not say that no token is lost: the code
  loses tokens when two tabs meet at the list, or storage throws. It says that there
  are no other ways: no takedown, no other creation, and no reload of a tab that had no
  new listing coming costs one.
- *Start-up and traffic.* `StartIsSound`: whatever releases, rollbacks and deaths
  a file has seen, its version tells what it has; and a server that is up runs on
  what was set. `CountsAreBounded`, `RefKeysAreBounded`: over reconnects,
  restarts and midnights.

### Bounds

The constants of the code (`MinersPerConnection`, `MaxBadSubmits`,
`MaxFailures`, `CHUNK`, ...) are small in the runs; the proofs take them as they
come.

`placement` has two visitors behind one address, room for two miners per socket
and two sockets, reused: enough for them to share a socket or not, for a slot to
change hands while the other is held, and for one socket to close while another
is open or a closed one's late dial meets its successor. A socket starts at one
miner and grows to two; one accepted share per window is "too fast" here and
none "too slow", so every branch of the controller is taken, and it is halved
back by trouble.

`hub` has two visitors on one socket, two listings, a job id that every pool session
announces anew, two pool sessions, two submits in flight (one after a reconnect,
`FewReconnect`) and a database that may throw: a reconnect brings a new extranonce1 under the id everyone is hashing, an
answer arrives after its miner has left, switched or been cut off, and a seat may be
taken without its listing. Sockets and listings are interchangeable (`SYMMETRY`);
visitors are not, since the slots of several who leave at once come back in an
order. `hub_moves` gives two sockets room for one miner each, two difficulties and
two jobs of which the history keeps one, so that miners swap sockets, a job is pushed
out under a miner, an old job's id comes back, and identities are reused; no shares
are sent there. `half_seat` is the smallest `hub` in which a share can follow a throw.

`stratum` allows three sockets over a client's life (one lost, one lost again,
one lasting) and a ladder of three rungs. A client and the stream it reads share no
state, so each of its behaviours is of one or the other; the stream lets the buffer
overflow, a line span chunks, several lines share one, and a character of two bytes
be cut. `database` is the ledger, then start-up and traffic. Of the ledger it has two
listings, two hours, two failures and a threshold of two shares, so that one batch
holds a listing that passes the gate and one that does not, either can be removed
before it, and a failed batch is tried again with more in it. Of the traffic, two
migrations, so that a release can be ahead by one or behind; a setting for each
reader, of which two at a time are not the ordinary ones; three hosts for two
places; two days; three page loads. `site` has two visitors on one socket, so that a share may wait for its answer while the other's is flushed, and two interchangeable listings, of which one can be taken down under its miner
while the other is in the batch; two failures end the process, and two shares show a
listing. What `hub` and `database` have checked of jobs and hours is at its smallest
here.

`session`: two listings to change one's mind between, two slots, and one retry timer
per listing. There is one job and one difficulty: a second of either multiplies the
states by more than the run has time for, so that jobs pushed out of the history, and
difficulties that change within a job, are in the theorems only. A line carries
`MaxInFlight` messages before the visitor, the pool or an operator may add to it;
answers and timers may always.

`page` is the workers, then the board. Of the workers it has eight nonces, two
workers, a chunk of two: a worker goes round its slice and into the other's, and half
of the nonces are negative as signed numbers; two jobs of different algorithms and a
queue of one, behind which the worker still works on what came before, let a job
overtake a load. Of the board, three listings of two scores and two milliseconds on
pages and queues of two, so that there are ties within a page and across two, and a
listing may be left out. What sockets are sent is one listing with up to two
shares, or two listings with one (`LittleIsSent`); the third listing is there for the
lists alone, and what a failed deletion took is there for the sockets alone
(`FewAreWatched`). More sockets are had with two, which come and go.
`next_broadcast` is one listing, one share and two sockets.

`listings`: two tabs, two targets of which one is a handle, two ids; with two
creations in flight both want one target or one id, and with two tabs at the list of
tokens each can overtake the other. What is refused is refused for its name
(`MCSaid`); a tagline that is refused differs in an edit only, where the name has
been written (see the remarks).

## Fairness

`Placement!FairSpec`: an idle timer that stays set fires. `unref()` does not
change that: it only lets a process end that has nothing else to do.

`Stratum!Fairness`: the reconnect timer and the watchdog's interval fire; a
socket that `end()` was called on reports its close; a dial ends one way or the
other. No fairness is assumed of the pool: it may refuse every dial, hang up at
any moment or say nothing.

`Ledger!FairSpec`: the flush loop runs when there is something to write, and a
transaction that was begun proceeds statement by statement, since it is
synchronous code. Nothing is assumed of the database or of the supervisor.

`Mining!FairSpec`: a worker takes its messages and goes on with its loop (both
are tasks of its event loop, and `loop` yields between chunks), and an import
settles one way or the other.

`Session!FairSpec`: timers fire, messages that were delivered are handled, the
cooldown ends. Of being seated strong fairness is assumed: a visitor who asks
again and again finds a free seat at some time. That is not the code's doing, but
other visitors', who are not in this module; without it a full site turns
everyone away for ever, as it should.

`Board!BoardFairSpec`: the broadcast interval goes on firing, and SQLite answers it now
and then. It is stated for `NextBroadcastReachesThem`, which is refuted although it
holds.

`Listings` and `Traffic` have safety only, and no fairness.

## Proofs

For every number of visitors, sockets, listings, tabs and workers, every length
of queue and every configuration that satisfies the assumptions its module
declares (`PlacementAssumption`, `HubAssumption`, `StratumAssumption`,
`FramingAssumption`, `LedgerAssumption`, `SessionAssumption` with `NoneIsNoWork`,
`MiningAssumption`, `BoardAssumption`, `ListingsAssumption` with `NoCall`,
`StartupAssumption`, `TrafficAssumption`). They say that limits are positive, that
what the code has finitely many of is finite, and that `None` is not one of the
things it stands beside. Every invariant and every action property of a passing
run is the subject of a theorem here.

`HubProofs`, the seats (`Placement`):
- `TypeCorrect`, `SeatsAlwaysAgree`, `SlotsNeverShared`, `EmptySocketIsTimed`,
  `CapacityStaysInBounds` and, of all of them with the address counts,
  `TablesAlwaysAgree`. The inductive invariant is the conjunction of type
  correctness, `SeatsAgree`, `SlotLedger` and `EmptyHasTimer` with what they need
  of each other: returning a slot is only safe if the one who returns it holds it
  (`SeatsAgree`), opening a socket with a fresh stack is only safe if nobody is
  still seated on it, and closing one is only safe if its timer means it is
  empty (`EmptyHasTimer`). None of the three is inductive alone. The lemmas
  about `Returned` and `FreeWith` say that what comes back to a stack are
  exactly the slots of those who leave, each once; they carry `SlotLedger`
  through every action by one argument. Address counts change by one visitor at a
  time (`ArrivalCounts`, `DepartureCounts`).
- `SeatsAlwaysStayPut`: the action property, from the same invariant. A miner who
  leaves a socket and is seated on it again in the same handler takes the top of
  the stack, which is the slot it has just put there (`TopIsOwnSlot`).
- `EverySocketIsALink`: what the hub does to one entry of `connections` is a
  behaviour of `Link`. `LinkIInv` adds that a socket waiting to dial again is one
  the hub holds, which `Redial` does not ask: a client that was given up has no
  timer left to dial again.

`HubProofs`, the work (`Hub`):
- `HubImplementsPlacement`: every step of the hub is a step of `Placement` or
  leaves its variables alone, so each theorem about seats is one about the hub
  (`HubNeverSharesSlots`).
- `CreditIsNeverOrphaned`: no counter is left for a listing that is gone. It
  rests on `SeatsAgree`: a listing that is mined exists.
- `NothingIsEverOrphaned`: with it, that every submit the hub waits for belongs
  to a miner seated on that socket, and an answer finds the miner it is for. The
  invariant (`AnswerIInv`) is that request ids are drawn once: every id in use on
  a socket is below the next one, an answer to come belongs to a socket that is
  still open, and the record its id finds is its sender's.
- `WorkIsAlwaysCurrent`. What is inductive (`WorkIInv`) is: a miner with a seat
  and a listing holds the header of its socket as that is now, if the socket has a
  current job; a socket without one remembers no jobs, one with one remembers it
  and has an extranonce1. The second part is what `onSubscribed` is careful about:
  the miners' headers are stale from there until the next job, and only because
  the jobs are forgotten too is nothing of them forwarded. `DistinctHeaders` is
  then a consequence of `SlotLedger`.
- `CreditGoesToTheListingMined`, `TheBrakeHolds`, `AcceptedIsCredited`, from one
  invariant more (`OwnIInv`): a record that an answer may still find belongs to a
  miner who mines what was mined when the share was sent, and who is not past the
  limit. Both hold because whoever switches, leaves or is cut off is forgotten in
  the same handler. Nothing is assumed of the database: a seat
  without a listing is a state of the invariant, and a share sent from it names none.

`HubProofs`, the site (`Site`; `SiteAssumption` is `LedgerAssumption` of the same
constants):
- `SiteIsALedger`, the refinement of `Ledger`, and with it `TheSitesBooksAreSound`:
  what is proved of the ledger alone holds of it beside the real hub. What
  `Ledger` takes for granted is proved of the hub: a counter changes in one
  handler, by one share, and for a listing with a row (`HandlesAreCredits`); a
  takedown leaves none (`DeletionsAreTakedowns`). The invariant (`SiteIInv`) is
  that of both parts and that the hub's listings are the rows on the disk.
  `HubIInv` holds of an empty process too (`FreshHub`), which is what a restart
  needs, and keeps holding when a row is added (`MoreListings`).
- `TheBoardMovesByShares`: a step of the books leaves what is shown alone
  (`BooksShowTheSame`, from the ledger's `Progress`), and a handler changes it only
  by the share of one answer, whose record names the listing the miner had when
  it was sent (`HandlersShowShares`, from `OwnIInv`).

`StratumProofs`, the client (`Stratum`):
- `ExactlyOneLifeline`, `AlwaysTheLiveSocket`, and `ClientIsALink`, the
  refinement of `Link`. The invariant is that dials, open sockets and the
  reconnect timer add up to one until the client is closed and to at most one
  afterwards, with the socket held being the open one.
- `AlwaysOneLiveSocket`: with both, that every answer to come has a request
  (`AnswersAreKnown`). The invariant (`IdIInv`) adds that only the open socket is
  asked anything and that no two requests share an id: without the first, a
  request forgotten at a disconnect could still be answered.
- `LadderNeedsALogin`: the action property, step by step.

`StratumProofs`, the stream (`Framing`):
- `LinesAreAlwaysWhole`, for every chunk, stream and buffer size. The invariant
  (`FrameIInv`): the buffer is an end of the last piece of what was decoded, and all of
  it as long as nothing was thrown away; every message handed on is an end of a piece
  that is complete. Only the second is asked for, but it is the buffer that says
  what the next chunk completes. The lemmas are about characters cut in two: the
  newlines add up (`CountsAdd`), the pieces are those of both parts with the last
  of the one and the first of the other joined (`BitsJoin`), and the messages of
  two lists of lines are those of one after those of the other (`MessagesAdd`). And
  about bytes: two chunks that have no character between them decode to what they
  decode to together (`DecodeConcat`), and whatever they have between them the
  characters of one byte are the same (`AsciiConcat`, `AsciiOfDecode`); the newline is
  one of these.

`LedgerProofs`:
- `SharesAreShownOnce`, `AStopKeepsItsShares`, `AHealthyFlushSucceeds`,
  `GateIsAlwaysExact`. The invariant (`LedgerIInv`) says of an open transaction
  which listings have had which statement (`Progress`): its view is the disk plus
  the batch for those that are through and the disk for the others, and the gate is
  exact but for the listing that is at its third statement. That the counters keep
  still meanwhile is part of it; so are the rows a counter needs (`RowsIInv`), the
  reason no foreign key fails.
- `TheDiskIsAlwaysSound`: with the gate, that a total is the sum of its hours.
  `HistoryIInv` adds the same of an open transaction's view, but for the listing
  between its first and its second statement, whose history is ahead by the batch.
  A sum over hours changes by what one of them changes by (by least counterexample
  in the number of hours).

`SessionProofs`:
- `NothingEverMinesUnasked`: hashing, wanting and having accepted go together
  (`AskedIInv`), and no timer or message of the server's can set one without the
  others.
- `LastWordIsAlwaysTheWish` (`WordIInv`): what an open socket carries last, or,
  with nothing on its way, what it has heard last, is the wish. Each handler of
  the page that changes the wish also sends; the retry timers send only what is
  still wanted.
- `TheVisitorIsAlwaysTold` (`ToldIInv`): a seat is what was heard last, unless the
  page shows a trouble or one is on its way to it. While messages are
  under way the two sides need not agree; this is why they do once nothing is.
- `AlwaysHashesTheSeatsWork` (`WorkIInv`): the newest job on its way to a seated
  browser, or with none on its way the one it hashes, is that of its seat's socket
  and slot. It is about the header, because `Miner.setJob` compares nothing else: a
  new difficulty on the same header does not reach the workers (see the remarks).

`MiningProofs`:
- `EveryWorkerRunsOneLoop` (`LoopIInv`): `running` is set exactly while there is a
  loop, a loop has work, and a worker with work and its modules is running; a
  worker outside the pool has an empty queue.
- `NoShareIsMadeUp`: with it and a little arithmetic of the nonce space
  (`SpaceIsLarge`), that what is posted has won.
- `SlicesNeverMeet` (`SliceIInv`): a worker has tried a first part of its slice and
  is at the nonce after it, or has been through the slice and one nonce more. The
  slices of two workers lie in order (`Ordered`), and a chunk that stays in the
  space does not wrap, so that two who have not been through theirs cannot meet.

`BoardProofs`:
- `TheBoardIsSound`, the invariant: in two halves, for the sockets and for Home.
- `EveryoneHasTheLastBoard`: with `overtaken` kept in it, the property is its own
  invariant.
- `TheShownNeverFalls`: an action property, and the reason for the rest of
  `HubIInv`. Every board there is (`Boards`: those shown and the last one) is one
  the listings have reached (`Dated`): its listings have been created, one score
  each, and none with a row is past what it has now, unless it is `cleared`. Then a
  newer board cannot show less, whatever the flush has moved from counter to row in
  between.
- `TheListsAreRight`: `HomeIInv` says that the answer and the requests that will
  be listened to are of the query whose effect ran last. That a rank is a place, but
  for its equals, rests on one lemma (`PlaceIsCount`): in a list sorted by a total
  order a thing stands where the number of things ahead of it says; `listingRank`
  counts those that are ahead whatever the tie (`RankAndPlace`). That such a list
  exists at all is `SortExists`. `TopOfTheBoard` is the same of the live page, whose
  sort is stable (`StableSort`).

`ListingsProofs`:
- `TargetsAreUnique`: of the table alone.
- `NoTokenIsLostUnseen`, `IconsAreOwnAndEarned` (`TokenIInv`): every id that a tab
  shows as its own, or makes a call with the token of, is in storage or recorded
  as lost; and a list that is about to be written has all that storage has now, but
  for what has come since it was read and what is being let go, unless reading it
  threw (`ListsStayRight`). So a write can drop nothing but what `Stores` records.
  A call that waits for the encoder has shown the token, and the listing it is for
  had the points and does not lose them.

`TrafficProofs`:
- `EveryStartIsSound` (`StartIInv`): a file has the columns its version claims, or
  it is one that an old release made with a column and no version; while a process
  is up, what it complained of is what its environment deserves.
- `ReferrersAreBounded` (`RefIInv`): the hosts in today's rows are among those the
  process has seen, or the one key for all others. It is about two sets because a
  restart forgets one of them and reads it back from the other.
- `EveryCountIsBounded` (`CountsIInv`): a page load's first view is in one place,
  pending or at the head of what the socket carries, so visits counted and to be
  counted stay within the loads; and what a socket has written is paid for by the
  keys it has spent.

Only model-checked: liveness (`QuietSiteHoldsNoSocket`, `SilenceIsNoticed`,
`KeepsTrying`, `FlushComesToAnEnd`, `LatestJobIsHashed`, `WishIsServed`), since
fairness and `ENABLED` are out of the prover's reach; and `EveryWinnerIsPosted`,
`AcceptedMovesAListing` and `NextBroadcastReachesThem`, which are false.

No module declares a recursive
operator: the provers cannot open one, nor instantiate the library's induction
theorems.
Where a proof needs an induction over data (hours, positions of a list, elements
of a set) it counts, or takes a least counterexample; for that, sums, sorting and
splitting are defined in the modules themselves, by a recursive function
(`SumOver` of `Ledger`) or by cardinalities and choices (`Sorted` of `Board`, `Nth`
and `At` of `Framing`), and not by the folds of the community modules.

## Where documents and code part

- `nonce_sign`: `packages/wasm/module.ts:14` says `mine()` returns the nonce, or
  -1 when the range is exhausted. It returns `(int32_t)nonce` (`mine.c:39`), so a
  winner in the upper half of the nonce space comes back negative, and the
  worker's `found >= 0` (`miner.worker.ts:106`) takes it for none. Workers whose
  slice lies there hash a whole chunk and post nothing.

- `half_seat`: `README.md:29` says that every share the pool accepts moves its listing
  up the board. `startMining` takes the seat, writes `countHit("mine")`, and then sets
  the listing (`hub.ts:568-579`). When the statement throws, the visitor has a seat,
  gets the next job and hashes, and what the pool accepts from that seat is credited
  to nobody until they mine again.
- `next_broadcast`: `hub.ts:142` says of a first paint that failed that the next
  broadcast reaches the visitor. `sendBoard` puts the snapshot it builds for one
  joiner in `lastBoard`, and the loop sends nothing when its own is the same
  (`hub.ts:778`): who has an older board, or none, keeps it until something moves. The
  same happens without a second joiner when the board is again what was last
  published.

## Remarks on the code

What the models have and no property forbids, for whoever reads the code next.
Nothing here follows from a property that fails.

*Pool sockets*
- `config.ts:231` calls `maxConnections` a hard ceiling on sockets held against
  the pool. `close()` cannot call back a dial, and `connect()` does not look at
  `#closed` when it resolves: the socket logs in, stays open until the pool hangs
  up, and no longer counts. Its watchdog is started after `close()` and never
  cleared.
- `closeConnection`'s "the timer lost the race" branch is never taken: by
  `EmptyHasTimer` the timer is cleared by whoever joins.
- `feed` decodes each chunk by itself (`stratum.ts:149`): a character of several
  bytes that TCP cuts is replaced in the message. In a line of JSON it can only stand
  inside a string, and no line is lost by it.
- `stratum.ts:30` gives the buffer limit as the longest run with no newline in
  it. It is compared with everything that arrived, before it is split: a burst of
  short lines is thrown away as well.

*Shares and credit*
- `hub.ts:414` says reconnecting is not something a miner should be cut off for.
  Between the disconnect and the next subscribe the jobs are still there, and
  shares count as bad submits no answer can clear.
- A share accepted after its miner left, switched listings or was cut off is
  credited to nobody, against `README.md:29` too; `onSubmitResult` says so.
- A share is credited at the difficulty in force when its answer arrives.
- A difficulty that changes within a job is sent with the same header, and
  `Miner.setJob` compares headers alone: "the target travels with the job"
  (`hub.ts:422`), and is dropped on arrival.
- `flush` subtracts what was written "so that anything credited during the
  transaction stays". The batch holds the same objects as the map, so it always
  subtracts everything; that is right, because nothing is credited during a
  synchronous transaction.
- At a signal or an exception `flush` is tried once: if that fails, what is in
  memory is gone. If `deleteListing` throws, `dropListing` has cleared the counter
  of a listing that stays, and the board shows less for it than before.

*The browser*
- "one moment" carries no `retry`: who presses twice within the cooldown is left
  on the earlier listing, and nothing asks again.
- A miner who is cut off, or whose listing is taken down, gets an error and no
  job to stop on: the panel says so, and the workers go on.
- A module that fails to load stays in `loaded` as a rejected promise: the
  algorithm cannot be mined by that worker again. The page is not told.
- `pendingView` holds one line. Navigating before the first socket is open
  replaces the line that says `first`, and the visit is not counted.

*The board*
- `listings.ts:295` would rather have no rank than one that disagrees with its list.
  It agrees with the pages of `GET /api/board`, but for listings of one score and one
  millisecond, which have one rank and two places; and with Home's first page, the
  live one, only when nothing on it is unwritten. The header's numbers come from the
  whole site and the rows of that page from the first by written score: a listing
  whose unwritten shares would bring it onto the page is not on it until the flush.
- Home keeps the answer to the query before until the effect of the new one has run
  (`api.ts:52-56`): for one paint, or after a visit to the live board, the old rows are
  under the new search.
- After a takedown the page a visitor is on may lie past the last one; the pager
  then has no current page.

*Listings*
- `updateListing` writes the name before it looks at the tagline: what is answered
  400 may have changed the name.
- Two tabs that change the list of tokens at once cost one of them its token: the
  list is read and written back with nothing between them to wait for
  (`storage.ts:63-67`), and a read that throws is taken for an empty list
  (`storage.ts:11-17`), which the write then stores.
- If `countHit("created")` throws, the creator is told 500, the target is taken
  and the token is gone. If storage throws, the token is kept nowhere although
  the form says where it is.
- The fetched avatar is written whenever it comes, over an icon its owner has
  uploaded meanwhile, too.
- `patched` of `OwnedPanel` is not cleared: what was saved in this tab hides what
  is saved in another until a reload.

*Start-up and traffic*
- `server.ts:10` checks the settings "before anything opens a socket or touches
  the database". Imports run first: `db.ts` has opened, created and migrated the
  file by then. `MigrationSound` is why that does no harm.
- `mined` is kept per socket, so a resume after a reconnect is a second conversion.
- `refDay` is set before `refKeysToday` is read; if that throws, the day goes on
  with yesterday's hosts (`blind` in `Traffic`).

## Not modelled, and why

Rendering (share cards, page heads, what the web interface only draws) keeps no
state a property is about. The block header and the hash functions are byte
layout and cryptography; of `mine()` only the loop over nonces is modelled.
Static files, the backup schedule and the load-test scripts are I/O. Rate limits,
origin checks, redirects, clicks, trending, statistics and the 24 hours' window of
the board read or count beside the system's state and decide nothing in it; the
message rate limit closes a visitor's socket, which `RemoveClient`, `Lose` and
`Close` cover at any moment. The feed, hashrate and number of miners of a board
row are not in `Board`. The values the client parses out of the pool's messages
(extranonce2 size, difficulty) are checked in one place and not followed further.
A power cut, which with `synchronous = NORMAL` may lose the last commits, is the
file system's; a killed process is in `Ledger`. `socket.write` of a line when the
send buffer is full is Bun's.

## Plan

Done: all components above except what the last section names, and a theorem for
every safety property and action property the passing runs check.

Next module: `Session` over `Placement`'s seats in place of its own, with the
theorem that it refines both, so that what is proved of the browser holds beside
other visitors.

`close()` during a dial (`stratum.ts:83`) stays without a property of its own:
what the code does there is in `Stratum`, and described in the remarks.

------------------------------- MODULE Mining -------------------------------
(***************************************************************************)
(* The browser's workers: the Miner of packages/web/src/mining.ts, its     *)
(* workers (miner.worker.ts) and the nonce loop they call (mine() of       *)
(* packages/wasm/mine.c and rin.c).                                        *)
(*                                                                         *)
(* The page posts a job to every worker; a worker hashes its slice of the  *)
(* nonce space a chunk at a time and yields between chunks, so a new job   *)
(* lands there.  A module is fetched once per algorithm and may fail to    *)
(* load.  Miner.stop terminates the workers: what they had posted or were  *)
(* yet to receive is gone, as the HTML standard says.                      *)
(***************************************************************************)
EXTENDS Integers, Sequences, FiniteSets

CONSTANTS
  MaxThreads,    \* workers the page may ask for
  Bits,          \* the width of a nonce; 32 in the code
  Chunk,         \* CHUNK
  Jobs, AlgoOf,  \* jobs with different headers, and the algorithm each names
  None,
  MaxPosted      \* bound of the model: messages a worker has yet to receive

ASSUME MiningAssumption ==
  /\ MaxThreads \in Nat \ {0}
  /\ Bits \in Nat \ {0} /\ Chunk \in 1 .. 2 ^ Bits - 1
  /\ None \notin Jobs /\ AlgoOf \in [Jobs -> STRING]
  /\ MaxPosted \in Nat

Workers == 0 .. MaxThreads - 1
Algos   == {AlgoOf[j] : j \in Jobs}
Space   == 2 ^ Bits
Nonces  == 0 .. Space - 1

VARIABLES
  pool,     \* Miner.#workers.length
  job,      \* Miner.#job
  inbox,    \* job messages posted to a worker, oldest first
  mining,   \* the worker's job
  nonce,    \* the worker's nonce
  modules,  \* the worker's `loaded`: what became of each module it asked for
  running,  \* the worker's running
  loops,    \* the loops of the worker, each with the algorithm it resolved
  tried,    \* nonces the worker has put behind it on the job it is on
  call      \* the call of mine() this step made, or None

pageVars   == <<pool, job, inbox>>
workerVars == <<mining, nonce, modules, running, loops, tried>>
vars       == <<pageVars, workerVars, call>>

Fetched == {"no", "loading", "ready", "failed"}

Calls == [job : Jobs, algo : Algos, won : Nonces \cup {None}, posted : Nonces \cup {None}]

TypeOK ==
  /\ pool \in 0 .. MaxThreads
  /\ job \in Jobs \cup {None}
  /\ inbox \in [Workers -> Seq(Jobs)]
  /\ mining \in [Workers -> Jobs \cup {None}]
  /\ nonce \in [Workers -> Nonces]
  /\ modules \in [Workers -> [Algos -> Fetched]]
  /\ running \in [Workers -> BOOLEAN]
  /\ loops \in [Workers -> Seq(Algos)]
  /\ tried \in [Workers -> SUBSET Nonces]
  /\ call \in Calls \cup {None}

\* A worker that has just been spawned, or is not there.
Blank(f, new) == [i \in DOMAIN f |-> new]

Unfetched == [a \in Algos |-> "no"]

Init ==
  /\ pool = 0 /\ job = None /\ call = None
  /\ inbox = [i \in Workers |-> <<>>]
  /\ mining = [i \in Workers |-> None]
  /\ nonce = [i \in Workers |-> 0]
  /\ modules = [i \in Workers |-> Unfetched]
  /\ running = [i \in Workers |-> FALSE]
  /\ loops = [i \in Workers |-> <<>>]
  /\ tried = [i \in Workers |-> {}]

-----------------------------------------------------------------------------
(* The page.                                                               *)

\* stop() and, for n > 0, the workers start() spawns in their place.
Respawn(n) ==
  /\ pool' = n
  /\ mining' = Blank(mining, None)
  /\ nonce' = Blank(nonce, 0)
  /\ modules' = Blank(modules, Unfetched)
  /\ running' = Blank(running, FALSE)
  /\ loops' = Blank(loops, <<>>)
  /\ tried' = Blank(tried, {})
  /\ call' = None

\* #dispatch of j to n workers whose queues are q.
Dispatched(q, n, j) == [i \in Workers |-> IF i < n THEN Append(q[i], j) ELSE q[i]]

Emptied == [i \in Workers |-> <<>>]

\* Broken on purpose: new workers wait for the pool's next job.
StartAndWait(n) ==
  /\ Respawn(n)
  /\ inbox' = Emptied
  /\ UNCHANGED job

\* Miner.start: the new workers are given the job the old ones were on.
Start(n) ==
  /\ Respawn(n)
  /\ inbox' = IF job = None THEN Emptied ELSE Dispatched(Emptied, n, job)
  /\ UNCHANGED job

\* Miner.stop: #job stays.
Stop ==
  /\ pool > 0
  /\ Respawn(0)
  /\ inbox' = Emptied
  /\ UNCHANGED job

\* Miner.setJob.  The job it already has is not posted again.
SetJob(j) ==
  /\ job # j
  /\ \A i \in Workers : Len(inbox[i]) < MaxPosted
  /\ job' = j
  /\ inbox' = Dispatched(inbox, pool, j)
  /\ call' = None
  /\ UNCHANGED <<pool, workerVars>>

-----------------------------------------------------------------------------
(* A worker.                                                               *)

Slice(n) == (Space - 1) \div n

\* Broken on purpose: one thread too many shares the space.
StartOneShort(i) == (i * Slice(pool + 1)) % Space

StartOf(i) == (i * Slice(pool)) % Space

\* load(a): the import is started by whoever asks first.
Asked(m, a) == IF m[a] = "no" THEN [m EXCEPT ![a] = "loading"] ELSE m

\* Broken on purpose: running is set after the module has loaded.
BeginUnmarked(i, a) ==
  /\ UNCHANGED running
  /\ loops' = [loops EXCEPT ![i] = Append(@, a)]
  /\ modules' = [modules EXCEPT ![i] = Asked(@, a)]

\* loop() up to its first await.
Begin(i, a) ==
  /\ running' = [running EXCEPT ![i] = TRUE]
  /\ loops' = [loops EXCEPT ![i] = Append(@, a)]
  /\ modules' = [modules EXCEPT ![i] = Asked(@, a)]

Receive(i) ==
  /\ inbox[i] # <<>>
  /\ LET j == Head(inbox[i])
     IN  /\ mining' = [mining EXCEPT ![i] = j]
         /\ IF running[i] THEN UNCHANGED <<running, loops, modules>>
                          ELSE Begin(i, AlgoOf[j])
  /\ inbox' = [inbox EXCEPT ![i] = Tail(@)]
  /\ nonce' = [nonce EXCEPT ![i] = StartOf(i)]
  /\ tried' = [tried EXCEPT ![i] = {}]
  /\ call' = None
  /\ UNCHANGED <<pool, job>>

\* The import of a module settles, one way or the other.
Fetch(i, a, how) ==
  /\ modules[i][a] = "loading"
  /\ modules' = [modules EXCEPT ![i][a] = how]
  /\ call' = None
  /\ UNCHANGED <<pageVars, mining, nonce, running, loops, tried>>

\* The n nonces from `from` on, in the width a nonce has.
Run(from, n) == {(from + o) % Space : o \in 0 .. n - 1}

\* What mine() returns reaches the page as a signed number.
Signed(n) == IF n >= Space \div 2 THEN n - Space ELSE n

\* mine() from the worker's nonce: the first winner of the chunk, `won` nonces
\* along, or none.  Which nonces win is the hash function's business.
Scan(i, a) ==
  \E won \in 0 .. Chunk - 1 \cup {None} :
    LET hit   == IF won = None THEN None ELSE (nonce[i] + won) % Space
        found == IF won = None THEN -1 ELSE Signed(hit)
        past  == IF found >= 0 THEN won + 1 ELSE Chunk
    IN  /\ tried' = [tried EXCEPT ![i] = @ \cup Run(nonce[i], past)]
        /\ nonce' = [nonce EXCEPT ![i] = (@ + past) % Space]
        /\ call' = [job |-> mining[i], algo |-> a, won |-> hit,
                    posted |-> IF found >= 0 THEN found ELSE None]

\* Broken on purpose: the module that happens to be loaded will do.
AnyModule(i, a) == TRUE

\* The job still names the algorithm this loop resolved.
SameAlgo(i, a) == AlgoOf[mining[i]] = a

Ready(i) == loops[i] # <<>> /\ modules[i][Head(loops[i])] = "ready"

\* After an await of the module or of the yield: the next chunk.
Hash(i) ==
  /\ Ready(i)
  /\ SameAlgo(i, Head(loops[i]))
  /\ Scan(i, Head(loops[i]))
  /\ loops' = [loops EXCEPT ![i] = Append(Tail(@), Head(@))]
  /\ UNCHANGED <<pageVars, mining, modules, running>>

\* The outer loop: the job names another algorithm, whose module is awaited.
Switch(i) ==
  /\ Ready(i)
  /\ ~SameAlgo(i, Head(loops[i]))
  /\ loops' = [loops EXCEPT ![i] = Append(Tail(@), AlgoOf[mining[i]])]
  /\ modules' = [modules EXCEPT ![i] = Asked(@, AlgoOf[mining[i]])]
  /\ call' = None
  /\ UNCHANGED <<pageVars, mining, nonce, running, tried>>

\* The await of a module that did not load throws, and `finally` runs.  The
\* rejected promise stays in the map: a later loop throws on it again.
Fail(i) ==
  /\ loops[i] # <<>> /\ modules[i][Head(loops[i])] = "failed"
  /\ loops' = [loops EXCEPT ![i] = Tail(@)]
  /\ running' = [running EXCEPT ![i] = FALSE]
  /\ call' = None
  /\ UNCHANGED <<pageVars, mining, nonce, modules, tried>>

-----------------------------------------------------------------------------
Next ==
  \/ \E n \in 1 .. MaxThreads : Start(n)
  \/ Stop
  \/ \E j \in Jobs : SetJob(j)
  \/ \E i \in Workers : Receive(i) \/ Hash(i) \/ Switch(i) \/ Fail(i)
  \/ \E i \in Workers, a \in Algos, how \in {"ready", "failed"} : Fetch(i, a, how)

Spec == Init /\ [][Next]_vars

\* A worker runs on while the page does nothing, and an import settles.
Fairness ==
  \A i \in Workers :
    /\ WF_vars(Receive(i))
    /\ WF_vars(Hash(i) \/ Switch(i) \/ Fail(i))
    /\ \A a \in Algos : WF_vars(\E how \in {"ready", "failed"} : Fetch(i, a, how))

FairSpec == Spec /\ Fairness

-----------------------------------------------------------------------------
(* Safety.                                                                 *)

Broken(i) == \E a \in Algos : modules[i][a] = "failed"

\* A worker never runs two loops, which would hash the same nonces twice, and
\* one that has been given work and every module it asked for runs one.
OneLoop ==
  /\ TypeOK
  /\ \A i \in Workers :
       /\ Len(loops[i]) = (IF running[i] THEN 1 ELSE 0)
       /\ mining[i] # None /\ ~Broken(i) => running[i]

\* Two workers on the same work try no nonce twice before one of them has
\* been through its slice ("no overlap between threads").
SlicesAreDisjoint ==
  \A i, k \in 0 .. pool - 1 :
    /\ i # k /\ mining[i] = mining[k]
    /\ Cardinality(tried[i]) <= Slice(pool) /\ Cardinality(tried[k]) <= Slice(pool)
    => tried[i] \cap tried[k] = {}

\* A share names the nonce that won, and was hashed with the function its job
\* asks for: a share that is not, the pool rejects and the hub counts.
PostedSharesAreReal ==
  call # None /\ call.posted # None =>
    call.posted = call.won /\ call.algo = AlgoOf[call.job]

(* Liveness.                                                               *)

Hashing(j) == \A i \in 0 .. pool - 1 : mining[i] = j /\ running[i]

PageAtRest == UNCHANGED <<pool, job>> /\ \A n \in 1 .. MaxThreads : ~Start(n)

\* Once the page leaves its workers alone, the job it holds is hashed by each of
\* them: also by workers started after it came, or still loading another module.
LatestJobIsHashed ==
  <>[][PageAtRest]_vars =>
    <>[](pool = 0 \/ job = None \/ Hashing(job) \/ \E i \in Workers : Broken(i))

-----------------------------------------------------------------------------
(* What the repository says of the program and the code does not do.       *)

\* module.ts: mine() returns the nonce, or -1 when the range is exhausted.
EveryWinnerIsPosted == call # None /\ call.won # None => call.posted = call.won
=============================================================================

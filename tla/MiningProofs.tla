---------------------------- MODULE MiningProofs ----------------------------
(***************************************************************************)
(* Theorems about Mining: one loop per worker, no share but a real one,    *)
(* and slices that never meet, for any number of workers, any width of a   *)
(* nonce, any chunk and any jobs.                                          *)
(***************************************************************************)
EXTENDS Mining, FiniteSetTheorems, TLAPS

\* A loop runs exactly in a worker that is `running`; a worker has something to
\* hash if it runs, and runs if it has and no module failed it; workers that were
\* not spawned have no mail.
LoopIInv ==
  /\ TypeOK
  /\ \A i \in Workers :
       /\ Len(loops[i]) = (IF running[i] THEN 1 ELSE 0)
       /\ mining[i] # None /\ ~Broken(i) => running[i]
       /\ running[i] => mining[i] # None
       /\ pool = 0 => inbox[i] = <<>>

-----------------------------------------------------------------------------
(* Numbers.                                                                *)

LEMMA SpaceIsLarge == Space \in Nat /\ Space > 1 /\ Chunk \in Nat \ {0} /\ Chunk < Space
<1>1. 2 ^ Bits \in Int
  BY MiningAssumption
<1> QED BY <1>1, MiningAssumption DEF Space

LEMMA Wraps ==
  ASSUME NEW x \in Int
  PROVE  x % Space \in Nonces
BY SpaceIsLarge DEF Nonces

LEMMA WorkersAreNumbers == MaxThreads \in Nat \ {0} /\ \A i \in Workers : i \in Nat
BY MiningAssumption DEF Workers

\* A worker starts somewhere in the space.
LEMMA StartIsANonce ==
  ASSUME NEW i \in Workers, pool \in 1 .. MaxThreads
  PROVE  StartOf(i) \in Nonces
<1>1. Slice(pool) \in Int
  BY SpaceIsLarge, WorkersAreNumbers DEF Slice
<1>2. i * Slice(pool) \in Int
  BY <1>1, WorkersAreNumbers
<1> QED BY <1>2, Wraps DEF StartOf

\* A winner that reaches the page unsigned is the winner.
LEMMA SignedNonce ==
  ASSUME NEW n \in Nonces, Signed(n) >= 0
  PROVE  Signed(n) = n
<1>1. n \in Nat /\ n < Space
  BY SpaceIsLarge DEF Nonces
<1> QED BY <1>1, SpaceIsLarge DEF Signed

-----------------------------------------------------------------------------
(* The steps.                                                              *)

LEMMA InitLoops == Init => LoopIInv
<1> SUFFICES ASSUME Init PROVE LoopIInv
  OBVIOUS
<1>1. TypeOK
  BY SpaceIsLarge, WorkersAreNumbers DEF Init, TypeOK, Nonces, Unfetched, Fetched
<1> QED BY <1>1 DEF Init, LoopIInv, Broken

\* Workers that have just been spawned, some of them with a job to take.
LEMMA RespawnLoops ==
  ASSUME LoopIInv, NEW n \in 0 .. MaxThreads, Respawn(n), UNCHANGED job,
         inbox' \in [Workers -> Seq(Jobs)], n = 0 => \A i \in Workers : inbox'[i] = <<>>
  PROVE  LoopIInv'
<1>1. /\ mining' = [i \in Workers |-> None] /\ nonce' = [i \in Workers |-> 0]
      /\ modules' = [i \in Workers |-> Unfetched] /\ running' = [i \in Workers |-> FALSE]
      /\ loops' = [i \in Workers |-> <<>>] /\ tried' = [i \in Workers |-> {}]
      /\ pool' = n /\ call' = None
  BY DEF Respawn, Blank, LoopIInv, TypeOK
<1>2. TypeOK'
  BY <1>1, SpaceIsLarge DEF LoopIInv, TypeOK, Nonces, Unfetched, Fetched
<1> QED BY <1>1, <1>2 DEF LoopIInv

LEMMA PageLoops ==
  ASSUME LoopIInv,
         Stop \/ (\E n \in 1 .. MaxThreads : Start(n)) \/ (\E j \in Jobs : SetJob(j))
  PROVE  LoopIInv'
<1> USE WorkersAreNumbers
<1>1. CASE Stop
  <2>1. 0 \in 0 .. MaxThreads
    OBVIOUS
  <2>2. /\ Respawn(0) /\ UNCHANGED job
        /\ inbox' \in [Workers -> Seq(Jobs)] /\ \A i \in Workers : inbox'[i] = <<>>
    BY <1>1 DEF Stop, Emptied
  <2> QED BY <2>1, <2>2, RespawnLoops
<1>2. ASSUME NEW n \in 1 .. MaxThreads, Start(n)
      PROVE  LoopIInv'
  <2>1. n \in 0 .. MaxThreads /\ n # 0
    OBVIOUS
  <2>2. Respawn(n) /\ UNCHANGED job
    BY <1>2 DEF Start
  <2>3. inbox' \in [Workers -> Seq(Jobs)]
    BY <1>2 DEF Start, Emptied, Dispatched, LoopIInv, TypeOK
  <2> QED BY <2>1, <2>2, <2>3, RespawnLoops
<1>3. ASSUME NEW j \in Jobs, SetJob(j)
      PROVE  LoopIInv'
  <2>1. job' = j /\ call' = None /\ inbox' = Dispatched(inbox, pool, j) /\ UNCHANGED <<pool, workerVars>>
    BY <1>3 DEF SetJob
  <2>2. inbox' \in [Workers -> Seq(Jobs)] /\ (pool = 0 => \A i \in Workers : inbox'[i] = inbox[i])
    BY <2>1 DEF Dispatched, LoopIInv, TypeOK
  <2>3. TypeOK'
    BY <2>1, <2>2 DEF LoopIInv, TypeOK, workerVars
  <2> QED BY <2>1, <2>2, <2>3 DEF LoopIInv, workerVars, Broken
<1> QED BY <1>1, <1>2, <1>3

\* Asking for a module breaks none.
LEMMA AskingBreaksNothing ==
  ASSUME NEW m \in [Algos -> Fetched], NEW a \in Algos
  PROVE  /\ Asked(m, a) \in [Algos -> Fetched]
         /\ \A b \in Algos : Asked(m, a)[b] = "failed" <=> m[b] = "failed"
BY DEF Asked, Fetched

LEMMA AlgosOfJobs == \A j \in Jobs : AlgoOf[j] \in Algos
BY DEF Algos

LEMMA ReceiveLoops ==
  ASSUME LoopIInv, NEW i \in Workers, Receive(i)
  PROVE  LoopIInv'
<1> DEFINE j == Head(inbox[i])
<1>1. inbox[i] \in Seq(Jobs) /\ inbox[i] # <<>> /\ j \in Jobs /\ Tail(inbox[i]) \in Seq(Jobs)
  BY DEF Receive, LoopIInv, TypeOK
<1>2. pool \in 1 .. MaxThreads
  BY <1>1, WorkersAreNumbers DEF LoopIInv, TypeOK
<1>3. /\ mining' = [mining EXCEPT ![i] = j] /\ inbox' = [inbox EXCEPT ![i] = Tail(@)]
      /\ nonce' = [nonce EXCEPT ![i] = StartOf(i)] /\ tried' = [tried EXCEPT ![i] = {}]
      /\ call' = None /\ UNCHANGED <<pool, job>>
      /\ running[i] => UNCHANGED <<running, loops, modules>>
      /\ ~running[i] => Begin(i, AlgoOf[j])
  BY DEF Receive
<1>4. StartOf(i) \in Nonces /\ AlgoOf[j] \in Algos /\ j # None
  BY <1>1, <1>2, StartIsANonce, AlgosOfJobs, MiningAssumption
<1>5. CASE running[i]
  <2>1. TypeOK'
    BY <1>1, <1>3, <1>4, <1>5 DEF LoopIInv, TypeOK
  <2> QED BY <1>1, <1>2, <1>3, <1>4, <1>5, <2>1, WorkersAreNumbers DEF LoopIInv, TypeOK, Broken
<1>6. CASE ~running[i]
  <2> DEFINE a == AlgoOf[j]
  <2>1. /\ running' = [running EXCEPT ![i] = TRUE]
        /\ loops' = [loops EXCEPT ![i] = Append(@, a)]
        /\ modules' = [modules EXCEPT ![i] = Asked(@, a)]
    BY <1>3, <1>6 DEF Begin
  <2>2. /\ Asked(modules[i], a) \in [Algos -> Fetched]
        /\ \A b \in Algos : Asked(modules[i], a)[b] = "failed" <=> modules[i][b] = "failed"
    BY <1>4, AskingBreaksNothing DEF LoopIInv, TypeOK
  <2>3. loops[i] \in Seq(Algos) /\ Len(loops[i]) = 0 /\ Len(Append(loops[i], a)) = 1
    BY <1>6 DEF LoopIInv, TypeOK
  <2>4. modules' \in [Workers -> [Algos -> Fetched]] /\ loops' \in [Workers -> Seq(Algos)]
    BY <1>4, <2>1, <2>2, <2>3 DEF LoopIInv, TypeOK
  <2>5. TypeOK'
    BY <1>1, <1>3, <1>4, <2>1, <2>4 DEF LoopIInv, TypeOK
  <2>6. \A k \in Workers : Len(loops'[k]) = (IF running'[k] THEN 1 ELSE 0)
    BY <2>1, <2>3 DEF LoopIInv, TypeOK
  <2>7. \A k \in Workers : k # i => Broken(k)' = Broken(k) /\ running'[k] = running[k] /\ mining'[k] = mining[k]
    BY <1>3, <2>1 DEF Broken, LoopIInv, TypeOK
  <2>8. running'[i] /\ mining'[i] # None
    BY <1>3, <1>4, <2>1 DEF LoopIInv, TypeOK
  <2>9. pool' # 0
    BY <1>2, <1>3
  <2> QED BY <2>5, <2>6, <2>7, <2>8, <2>9 DEF LoopIInv
<1> QED BY <1>5, <1>6

\* What mine() puts behind it, and where it leaves the worker.
LEMMA ScanType ==
  ASSUME LoopIInv, NEW i \in Workers, NEW a \in Algos, Scan(i, a), mining[i] # None
  PROVE  /\ tried' \in [Workers -> SUBSET Nonces] /\ nonce' \in [Workers -> Nonces]
         /\ call' \in Calls /\ call'.job = mining[i] /\ call'.algo = a
         /\ call'.posted # None => call'.posted = call'.won
<1>1. PICK won \in 0 .. Chunk - 1 \cup {None} :
        LET hit   == IF won = None THEN None ELSE (nonce[i] + won) % Space
            found == IF won = None THEN -1 ELSE Signed(hit)
            past  == IF found >= 0 THEN won + 1 ELSE Chunk
        IN  /\ tried' = [tried EXCEPT ![i] = @ \cup Run(nonce[i], past)]
            /\ nonce' = [nonce EXCEPT ![i] = (@ + past) % Space]
            /\ call' = [job |-> mining[i], algo |-> a, won |-> hit,
                        posted |-> IF found >= 0 THEN found ELSE None]
  BY DEF Scan
<1> DEFINE hit   == IF won = None THEN None ELSE (nonce[i] + won) % Space
           found == IF won = None THEN -1 ELSE Signed(hit)
           past  == IF found >= 0 THEN won + 1 ELSE Chunk
<1>2. nonce[i] \in Nonces /\ nonce[i] \in Int /\ mining[i] \in Jobs
  BY SpaceIsLarge DEF LoopIInv, TypeOK, Nonces
<1>3. won # None => won \in Int /\ hit \in Nonces
  <2>1. won # None => won \in Int
    BY SpaceIsLarge
  <2>2. won # None => (nonce[i] + won) \in Int
    BY <1>2, <2>1
  <2> QED BY <2>1, <2>2, Wraps
<1>4. past \in Int
  BY <1>3, SpaceIsLarge
<1>5. found >= 0 => won # None /\ found = hit
  BY <1>3, SignedNonce
<1>6. Run(nonce[i], past) \subseteq Nonces
  <2>1. \A o \in 0 .. past - 1 : nonce[i] + o \in Int
    BY <1>2, <1>4
  <2> QED BY <2>1, Wraps DEF Run
<1>7. (nonce[i] + past) % Space \in Nonces
  <2>1. nonce[i] + past \in Int
    BY <1>2, <1>4
  <2> QED BY <2>1, Wraps
<1> HIDE DEF hit, found, past
<1>8. /\ tried' = [tried EXCEPT ![i] = @ \cup Run(nonce[i], past)]
      /\ nonce' = [nonce EXCEPT ![i] = (@ + past) % Space]
      /\ call' = [job |-> mining[i], algo |-> a, won |-> hit,
                  posted |-> IF found >= 0 THEN found ELSE None]
  BY <1>1 DEF hit, found, past
<1>9. hit \in Nonces \cup {None} /\ (found >= 0 => found \in Nonces /\ found = hit)
  BY <1>3, <1>5 DEF hit
<1> QED BY <1>2, <1>6, <1>7, <1>8, <1>9 DEF LoopIInv, TypeOK, Calls

LEMMA HashLoops ==
  ASSUME LoopIInv, NEW i \in Workers, Hash(i)
  PROVE  LoopIInv' /\ PostedSharesAreReal'
<1> DEFINE a == Head(loops[i])
<1>1. loops[i] \in Seq(Algos) /\ loops[i] # <<>> /\ a \in Algos /\ Len(loops[i]) \in Nat
  BY DEF Hash, Ready, LoopIInv, TypeOK
<1>2. running[i] /\ mining[i] # None
  BY <1>1 DEF LoopIInv
<1>3. /\ loops' = [loops EXCEPT ![i] = Append(Tail(@), Head(@))]
      /\ UNCHANGED <<pageVars, mining, modules, running>>
      /\ AlgoOf[mining[i]] = a /\ Scan(i, a)
  BY DEF Hash, SameAlgo
<1>4. Append(Tail(loops[i]), a) \in Seq(Algos) /\ Len(Append(Tail(loops[i]), a)) = Len(loops[i])
  BY <1>1
<1>5. /\ tried' \in [Workers -> SUBSET Nonces] /\ nonce' \in [Workers -> Nonces]
      /\ call' \in Calls /\ call'.job = mining[i] /\ call'.algo = a
      /\ call'.posted # None => call'.posted = call'.won
  BY <1>1, <1>2, <1>3, ScanType
<1>6. TypeOK'
  BY <1>3, <1>4, <1>5 DEF LoopIInv, TypeOK, pageVars
<1>7. \A k \in Workers : Len(loops'[k]) = Len(loops[k])
  BY <1>3, <1>4 DEF LoopIInv, TypeOK
<1>8. LoopIInv'
  BY <1>3, <1>6, <1>7 DEF LoopIInv, Broken, pageVars
<1> QED BY <1>3, <1>5, <1>8 DEF PostedSharesAreReal

LEMMA SwitchLoops ==
  ASSUME LoopIInv, NEW i \in Workers, Switch(i)
  PROVE  LoopIInv'
<1> DEFINE a == AlgoOf[mining[i]]
<1>1. loops[i] \in Seq(Algos) /\ loops[i] # <<>> /\ Len(loops[i]) \in Nat
  BY DEF Switch, Ready, LoopIInv, TypeOK
<1>2. mining[i] \in Jobs /\ a \in Algos
  BY <1>1, AlgosOfJobs DEF LoopIInv, TypeOK
<1>3. /\ loops' = [loops EXCEPT ![i] = Append(Tail(@), a)]
      /\ modules' = [modules EXCEPT ![i] = Asked(@, a)]
      /\ call' = None /\ UNCHANGED <<pageVars, mining, nonce, running, tried>>
  BY DEF Switch
<1>4. Append(Tail(loops[i]), a) \in Seq(Algos) /\ Len(Append(Tail(loops[i]), a)) = Len(loops[i])
  BY <1>1, <1>2
<1>5. /\ Asked(modules[i], a) \in [Algos -> Fetched]
      /\ \A b \in Algos : Asked(modules[i], a)[b] = "failed" <=> modules[i][b] = "failed"
  BY <1>2, AskingBreaksNothing DEF LoopIInv, TypeOK
<1>6. TypeOK'
  BY <1>3, <1>4, <1>5 DEF LoopIInv, TypeOK, pageVars
<1>7. \A k \in Workers : Len(loops'[k]) = Len(loops[k])
  BY <1>3, <1>4 DEF LoopIInv, TypeOK
<1>8. \A k \in Workers : Broken(k)' <=> Broken(k)
  BY <1>3, <1>5 DEF Broken, LoopIInv, TypeOK
<1> QED BY <1>3, <1>6, <1>7, <1>8 DEF LoopIInv, pageVars

LEMMA FailLoops ==
  ASSUME LoopIInv, NEW i \in Workers, Fail(i)
  PROVE  LoopIInv'
<1>1. loops[i] \in Seq(Algos) /\ loops[i] # <<>> /\ Head(loops[i]) \in Algos /\ Len(loops[i]) \in Nat
  BY DEF Fail, LoopIInv, TypeOK
<1>2. Len(loops[i]) = 1 /\ Tail(loops[i]) \in Seq(Algos) /\ Len(Tail(loops[i])) = 0
  <2>1. Len(loops[i]) \in {0, 1}
    BY DEF LoopIInv
  <2>2. Len(loops[i]) # 0
    BY <1>1
  <2> QED BY <1>1, <2>1, <2>2
<1>3. /\ loops' = [loops EXCEPT ![i] = Tail(@)] /\ running' = [running EXCEPT ![i] = FALSE]
      /\ call' = None /\ UNCHANGED <<pageVars, mining, nonce, modules, tried>>
      /\ Broken(i)
  BY <1>1 DEF Fail, Broken
<1>4. TypeOK'
  BY <1>2, <1>3 DEF LoopIInv, TypeOK, pageVars
<1>5. \A k \in Workers : Len(loops'[k]) = (IF running'[k] THEN 1 ELSE 0)
  BY <1>2, <1>3 DEF LoopIInv, TypeOK
<1>6. \A k \in Workers : running'[k] => running[k]
  BY <1>3 DEF LoopIInv, TypeOK
<1>7. \A k \in Workers : k # i => running'[k] = running[k]
  BY <1>3 DEF LoopIInv, TypeOK
<1> QED BY <1>3, <1>4, <1>5, <1>6, <1>7 DEF LoopIInv, Broken, pageVars

LEMMA FetchLoops ==
  ASSUME LoopIInv, NEW i \in Workers, NEW a \in Algos, NEW how \in {"ready", "failed"}, Fetch(i, a, how)
  PROVE  LoopIInv'
<1>1. /\ modules[i][a] = "loading" /\ modules' = [modules EXCEPT ![i][a] = how] /\ call' = None
      /\ UNCHANGED <<pageVars, mining, nonce, running, loops, tried>>
  BY DEF Fetch
<1>2. TypeOK'
  BY <1>1 DEF LoopIInv, TypeOK, Fetched, pageVars
<1>3. \A k \in Workers, b \in Algos : modules[k][b] = "failed" => modules'[k][b] = "failed"
  BY <1>1 DEF LoopIInv, TypeOK
<1>4. \A k \in Workers : Broken(k) => Broken(k)'
  BY <1>3 DEF Broken
<1> QED BY <1>1, <1>2, <1>4 DEF LoopIInv, pageVars

LEMMA NextLoops ==
  ASSUME LoopIInv, PostedSharesAreReal, [Next]_vars
  PROVE  LoopIInv' /\ PostedSharesAreReal'
<1>1. CASE UNCHANGED vars
  BY <1>1 DEF vars, pageVars, workerVars, LoopIInv, TypeOK, Broken, PostedSharesAreReal
<1>2. CASE Stop \/ (\E n \in 1 .. MaxThreads : Start(n)) \/ (\E j \in Jobs : SetJob(j))
  <2>1. call' = None
    BY <1>2 DEF Stop, Start, SetJob, Respawn
  <2> QED BY <1>2, <2>1, PageLoops DEF PostedSharesAreReal
<1>3. ASSUME NEW i \in Workers, Receive(i) \/ Switch(i) \/ Fail(i)
      PROVE  LoopIInv' /\ PostedSharesAreReal'
  <2>1. call' = None
    BY <1>3 DEF Receive, Switch, Fail
  <2> QED BY <1>3, <2>1, ReceiveLoops, SwitchLoops, FailLoops DEF PostedSharesAreReal
<1>4. ASSUME NEW i \in Workers, Hash(i)
      PROVE  LoopIInv' /\ PostedSharesAreReal'
  BY <1>4, HashLoops
<1>5. ASSUME NEW i \in Workers, NEW a \in Algos, NEW how \in {"ready", "failed"}, Fetch(i, a, how)
      PROVE  LoopIInv' /\ PostedSharesAreReal'
  <2>1. call' = None
    BY <1>5 DEF Fetch
  <2> QED BY <1>5, <2>1, FetchLoops DEF PostedSharesAreReal
<1> QED BY <1>1, <1>2, <1>3, <1>4, <1>5 DEF Next

-----------------------------------------------------------------------------
(* Theorems.                                                               *)

LEMMA LoopsHold == Spec => [](LoopIInv /\ PostedSharesAreReal)
<1>1. Init => LoopIInv /\ PostedSharesAreReal
  BY InitLoops DEF Init, PostedSharesAreReal
<1>2. LoopIInv /\ PostedSharesAreReal /\ [Next]_vars => (LoopIInv /\ PostedSharesAreReal)'
  BY NextLoops
<1> QED BY <1>1, <1>2, PTL DEF Spec

\* A worker never runs two loops, and runs one when it has work and its modules.
THEOREM EveryWorkerRunsOneLoop == Spec => []OneLoop
<1>1. LoopIInv => OneLoop
  BY DEF LoopIInv, OneLoop
<1> QED BY <1>1, LoopsHold, PTL

\* A posted share names the nonce that won, hashed as its job asks.
THEOREM NoShareIsMadeUp == Spec => []PostedSharesAreReal
BY LoopsHold, PTL
-----------------------------------------------------------------------------
(* Slices.                                                                 *)

LEMMA NoWrap ==
  ASSUME NEW x \in 0 .. Space - 1
  PROVE  x % Space = x
BY SpaceIsLarge

LEMMA SliceFits ==
  ASSUME NEW n \in Nat \ {0}
  PROVE  Slice(n) \in Nat /\ n * Slice(n) <= Space - 1
<1>1. Space - 1 \in Nat
  BY SpaceIsLarge
<1> QED BY <1>1 DEF Slice

LEMMA Ordered ==
  ASSUME NEW i \in Nat, NEW k \in Nat, NEW s \in Nat, i < k
  PROVE  i * s \in Nat /\ k * s \in Nat /\ i * s + s <= k * s
<1>1. (i + 1) * s <= k * s
  OBVIOUS
<1>2. (i + 1) * s = i * s + s
  OBVIOUS
<1> QED BY <1>1, <1>2

\* Where worker i of n starts; its slice ends inside the space.
LEMMA SliceEnds ==
  ASSUME NEW n \in 1 .. MaxThreads, NEW i \in 0 .. n - 1
  PROVE  /\ i \in Workers /\ Slice(n) \in Nat /\ i * Slice(n) \in Nat
         /\ i * Slice(n) + Slice(n) <= Space - 1
<1>1. n \in Nat \ {0} /\ i \in Nat /\ i < n /\ i \in Workers
  BY WorkersAreNumbers DEF Workers
<1>2. Slice(n) \in Nat /\ n * Slice(n) <= Space - 1
  BY <1>1, SliceFits
<1>3. i * Slice(n) \in Nat /\ n * Slice(n) \in Nat /\ i * Slice(n) + Slice(n) <= n * Slice(n)
  BY <1>1, <1>2, Ordered
<1> QED BY <1>1, <1>2, <1>3, SpaceIsLarge

\* Worker i has tried the first k nonces of its slice and is at the next, or has
\* been through the slice and one nonce more.
Sweeps(i, first, size) ==
  \/ \E k \in 0 .. size : nonce[i] = first + k /\ tried[i] = first .. first + k - 1
  \/ first .. first + size \subseteq tried[i]

SliceIInv ==
  /\ LoopIInv
  /\ \A i \in 0 .. pool - 1 :
       IF mining[i] = None THEN tried[i] = {}
                           ELSE Sweeps(i, i * Slice(pool), Slice(pool))

\* A run that stays inside the space is an interval.
LEMMA RunIsAnInterval ==
  ASSUME NEW from \in Nat, NEW n \in Nat, from + n <= Space
  PROVE  Run(from, n) = from .. from + n - 1
<1>1. \A o \in 0 .. n - 1 : (from + o) % Space = from + o
  BY SpaceIsLarge, NoWrap
<1>2. ASSUME NEW x \in from .. from + n - 1
      PROVE  x \in Run(from, n)
  <2>1. x - from \in 0 .. n - 1 /\ from + (x - from) = x
    OBVIOUS
  <2>2. (from + (x - from)) % Space = x
    BY <1>1, <2>1
  <2> QED BY <2>1, <2>2 DEF Run
<1>3. ASSUME NEW x \in Run(from, n)
      PROVE  x \in from .. from + n - 1
  <2>1. PICK o \in 0 .. n - 1 : x = (from + o) % Space
    BY <1>3 DEF Run
  <2>2. x = from + o
    BY <1>1, <2>1
  <2> QED BY <2>2
<1> QED BY <1>2, <1>3

\* Hashing on from inside a slice leaves the worker inside it, or through it.
LEMMA RunsInside ==
  ASSUME NEW first \in Nat, NEW size \in Nat, first + size <= Space - 1,
         NEW k \in 0 .. size, NEW past \in Nat, k + past <= size
  PROVE  /\ (first .. first + k - 1) \cup Run(first + k, past) = first .. first + (k + past) - 1
         /\ (first + k + past) % Space = first + (k + past)
<1>1. Run(first + k, past) = first + k .. first + k + past - 1
  <2>1. first + k \in Nat /\ first + k + past <= Space
    BY SpaceIsLarge
  <2> QED BY <2>1, RunIsAnInterval
<1>2. first + k + past \in 0 .. Space - 1
  BY SpaceIsLarge
<1>3. (first + k + past) % Space = first + k + past
  BY <1>2, NoWrap
<1> QED BY <1>1, <1>3

LEMMA RunsThrough ==
  ASSUME NEW first \in Nat, NEW size \in Nat, first + size <= Space - 1,
         NEW k \in 0 .. size, NEW past \in Nat, k + past > size
  PROVE  first .. first + size \subseteq (first .. first + k - 1) \cup Run(first + k, past)
<1> SUFFICES ASSUME NEW x \in first .. first + size
             PROVE  x \in (first .. first + k - 1) \cup Run(first + k, past)
  OBVIOUS
<1>1. CASE x < first + k
  BY <1>1
<1>2. CASE x >= first + k
  <2> DEFINE o == x - (first + k)
  <2>1. o \in 0 .. past - 1 /\ first + k + o = x /\ x \in 0 .. Space - 1
    BY <1>2, SpaceIsLarge
  <2>2. (first + k + o) % Space = x
    BY <2>1, NoWrap
  <2> QED BY <2>1, <2>2 DEF Run
<1> QED BY <1>1, <1>2

\* What mine() does to a worker: it puts a run behind it and stands at its end.
LEMMA ScanRuns ==
  ASSUME LoopIInv, NEW i \in Workers, NEW a \in Algos, Scan(i, a)
  PROVE  \E past \in Nat :
           /\ tried' = [tried EXCEPT ![i] = @ \cup Run(nonce[i], past)]
           /\ nonce' = [nonce EXCEPT ![i] = (@ + past) % Space]
<1>1. PICK won \in 0 .. Chunk - 1 \cup {None} :
        LET hit   == IF won = None THEN None ELSE (nonce[i] + won) % Space
            found == IF won = None THEN -1 ELSE Signed(hit)
            past  == IF found >= 0 THEN won + 1 ELSE Chunk
        IN  /\ tried' = [tried EXCEPT ![i] = @ \cup Run(nonce[i], past)]
            /\ nonce' = [nonce EXCEPT ![i] = (@ + past) % Space]
  BY DEF Scan
<1> DEFINE hit   == IF won = None THEN None ELSE (nonce[i] + won) % Space
           found == IF won = None THEN -1 ELSE Signed(hit)
           past  == IF found >= 0 THEN won + 1 ELSE Chunk
<1>2. past \in Nat
  <2>1. CASE won = None
    BY <2>1, SpaceIsLarge
  <2>2. CASE won # None
    <3>1. won \in Nat
      BY <2>2, SpaceIsLarge
    <3> QED BY <3>1, SpaceIsLarge
  <2> QED BY <2>1, <2>2
<1> QED BY <1>1, <1>2

LEMMA HashSweeps ==
  ASSUME SliceIInv, NEW i \in Workers, Hash(i)
  PROVE  SliceIInv'
<1>0. LoopIInv /\ TypeOK /\ pool \in 0 .. MaxThreads /\ MaxThreads \in Nat
  BY WorkersAreNumbers DEF SliceIInv, LoopIInv, TypeOK
<1>1. LoopIInv' /\ UNCHANGED <<pool, mining>>
  BY <1>0, HashLoops DEF Hash, pageVars
<1>2. Head(loops[i]) \in Algos /\ mining[i] # None
  BY <1>0 DEF Hash, Ready, LoopIInv, TypeOK
<1>3. PICK past \in Nat : /\ tried' = [tried EXCEPT ![i] = @ \cup Run(nonce[i], past)]
                          /\ nonce' = [nonce EXCEPT ![i] = (@ + past) % Space]
  BY <1>0, <1>2, ScanRuns DEF Hash
<1>4. SUFFICES ASSUME NEW w \in 0 .. pool - 1
               PROVE  IF mining[w] = None THEN tried'[w] = {}
                                          ELSE Sweeps(w, w * Slice(pool), Slice(pool))'
  BY <1>1 DEF SliceIInv
<1> DEFINE first == w * Slice(pool)  size == Slice(pool)
<1>5. /\ w \in Workers /\ size \in Nat /\ first \in Nat /\ first + size <= Space - 1
      /\ IF mining[w] = None THEN tried[w] = {} ELSE Sweeps(w, first, size)
  BY <1>0, SliceEnds DEF SliceIInv
<1> HIDE DEF first, size
<1>6. CASE w # i
  <2>1. tried'[w] = tried[w] /\ nonce'[w] = nonce[w]
    BY <1>0, <1>3, <1>5, <1>6 DEF TypeOK
  <2>2. Sweeps(w, first, size) => Sweeps(w, first, size)'
    BY <2>1, <1>1 DEF Sweeps, first, size
  <2> QED BY <1>1, <1>5, <2>1, <2>2 DEF first, size
<1>7. CASE w = i
  <2>1. /\ tried'[w] = tried[w] \cup Run(nonce[w], past)
        /\ nonce'[w] = (nonce[w] + past) % Space
    BY <1>0, <1>3, <1>5, <1>7 DEF TypeOK
  <2>2. CASE first .. first + size \subseteq tried[w]
    BY <1>1, <1>2, <1>7, <2>1, <2>2 DEF Sweeps, first, size
  <2>3. ASSUME NEW k \in 0 .. size, nonce[w] = first + k, tried[w] = first .. first + k - 1
        PROVE  Sweeps(w, first, size)'
    <3>1. CASE k + past <= size
      <4>1. k + past \in 0 .. size
        BY <1>5, <3>1
      <4>2. /\ (first .. first + k - 1) \cup Run(first + k, past) = first .. first + (k + past) - 1
            /\ (first + k + past) % Space = first + (k + past)
        BY <1>5, <3>1, RunsInside
      <4>3. nonce'[w] = first + (k + past) /\ tried'[w] = first .. first + (k + past) - 1
        BY <2>1, <2>3, <4>2
      <4> QED BY <1>1, <4>1, <4>3 DEF Sweeps, first, size
    <3>2. CASE k + past > size
      <4>1. first .. first + size \subseteq (first .. first + k - 1) \cup Run(first + k, past)
        BY <1>5, <3>2, RunsThrough
      <4>2. first .. first + size \subseteq tried'[w]
        BY <2>1, <2>3, <4>1
      <4> QED BY <1>1, <4>2 DEF Sweeps, first, size
    <3> QED BY <1>5, <3>1, <3>2
  <2> QED BY <1>2, <1>5, <1>7, <2>2, <2>3 DEF Sweeps, first, size
<1> QED BY <1>6, <1>7

LEMMA ReceiveSweeps ==
  ASSUME SliceIInv, NEW i \in Workers, Receive(i)
  PROVE  SliceIInv'
<1>0. LoopIInv /\ TypeOK /\ pool \in 0 .. MaxThreads /\ MaxThreads \in Nat
  BY WorkersAreNumbers DEF SliceIInv, LoopIInv, TypeOK
<1>1. /\ LoopIInv' /\ UNCHANGED pool /\ mining' = [mining EXCEPT ![i] = Head(inbox[i])]
      /\ nonce' = [nonce EXCEPT ![i] = StartOf(i)] /\ tried' = [tried EXCEPT ![i] = {}]
  BY <1>0, ReceiveLoops DEF Receive
<1>2. SUFFICES ASSUME NEW w \in 0 .. pool - 1
               PROVE  IF mining'[w] = None THEN tried'[w] = {}
                                           ELSE Sweeps(w, w * Slice(pool), Slice(pool))'
  BY <1>1 DEF SliceIInv
<1> DEFINE first == w * Slice(pool)  size == Slice(pool)
<1>3. /\ w \in Workers /\ size \in Nat /\ first \in Nat /\ first + size <= Space - 1
      /\ IF mining[w] = None THEN tried[w] = {} ELSE Sweeps(w, first, size)
  BY <1>0, SliceEnds DEF SliceIInv
<1>4. StartOf(w) = first
  BY <1>3, NoWrap, SpaceIsLarge DEF StartOf
<1> HIDE DEF first, size
<1>5. CASE w # i
  <2>1. tried'[w] = tried[w] /\ nonce'[w] = nonce[w] /\ mining'[w] = mining[w]
    BY <1>0, <1>1, <1>3, <1>5 DEF TypeOK
  <2>2. Sweeps(w, first, size) => Sweeps(w, first, size)'
    BY <2>1, <1>1 DEF Sweeps, first, size
  <2> QED BY <1>1, <1>3, <2>1, <2>2 DEF first, size
<1>6. CASE w = i
  <2>1. tried'[w] = {} /\ nonce'[w] = first + 0 /\ 0 \in 0 .. size
    BY <1>0, <1>1, <1>3, <1>4, <1>6 DEF TypeOK
  <2>2. {} = first .. first + 0 - 1
    BY <1>3
  <2>3. Sweeps(w, first, size)'
    BY <1>1, <2>1, <2>2 DEF Sweeps, first, size
  <2> QED BY <1>1, <2>1, <2>3 DEF first, size
<1> QED BY <1>5, <1>6

LEMMA NextSweeps ==
  ASSUME SliceIInv, PostedSharesAreReal, [Next]_vars
  PROVE  SliceIInv'
<1>0. LoopIInv' /\ TypeOK /\ pool \in 0 .. MaxThreads /\ MaxThreads \in Nat
  BY NextLoops, WorkersAreNumbers DEF SliceIInv, LoopIInv, TypeOK
<1>1. ASSUME UNCHANGED <<pool, mining, nonce, tried>>
      PROVE  SliceIInv'
  BY <1>0, <1>1 DEF SliceIInv, Sweeps, Slice
<1>2. CASE Stop \/ (\E n \in 1 .. MaxThreads : Start(n))
  <2>1. PICK n \in 0 .. MaxThreads : Respawn(n)
    BY <1>2, WorkersAreNumbers DEF Stop, Start
  <2>2. /\ pool' = n /\ mining' = [i \in Workers |-> None] /\ tried' = [i \in Workers |-> {}]
    BY <1>0, <2>1 DEF Respawn, Blank, TypeOK
  <2>3. \A i \in 0 .. n - 1 : i \in Workers
    BY WorkersAreNumbers DEF Workers
  <2> QED BY <1>0, <2>2, <2>3 DEF SliceIInv
<1>3. ASSUME NEW i \in Workers, Hash(i) \/ Receive(i)
      PROVE  SliceIInv'
  BY <1>3, HashSweeps, ReceiveSweeps
<1>4. CASE UNCHANGED vars \/ (\E j \in Jobs : SetJob(j)) \/ (\E i \in Workers : Switch(i) \/ Fail(i))
           \/ \E i \in Workers, a \in Algos, how \in {"ready", "failed"} : Fetch(i, a, how)
  <2>1. UNCHANGED <<pool, mining, nonce, tried>>
    BY <1>4 DEF vars, SetJob, Switch, Fail, Fetch, pageVars, workerVars
  <2> QED BY <1>1, <2>1
<1> QED BY <1>2, <1>3, <1>4 DEF Next

\* A worker that is not through its slice is inside it.
LEMMA InsideTheSlice ==
  ASSUME SliceIInv, NEW i \in 0 .. pool - 1, Cardinality(tried[i]) <= Slice(pool)
  PROVE  tried[i] \subseteq i * Slice(pool) .. i * Slice(pool) + Slice(pool) - 1
<1>0. pool \in 1 .. MaxThreads /\ tried \in [Workers -> SUBSET Nonces]
  BY WorkersAreNumbers DEF SliceIInv, LoopIInv, TypeOK
<1> DEFINE first == i * Slice(pool)  size == Slice(pool)
<1>1. i \in Workers /\ size \in Nat /\ first \in Nat /\ first + size <= Space - 1
  BY <1>0, SliceEnds
<1>2. tried[i] = {} \/ Sweeps(i, first, size)
  BY DEF SliceIInv
<1> HIDE DEF first, size
<1>3. IsFiniteSet(tried[i]) /\ Cardinality(tried[i]) \in Nat
  <2>1. IsFiniteSet(Nonces)
    BY SpaceIsLarge, FS_Interval DEF Nonces
  <2>2. IsFiniteSet(tried[i])
    BY <1>0, <1>1, <2>1, FS_Subset
  <2> QED BY <2>2, FS_CardinalityType
<1>4. ~(first .. first + size \subseteq tried[i])
  <2> SUFFICES ASSUME first .. first + size \subseteq tried[i] PROVE FALSE
    OBVIOUS
  <2>1. Cardinality(first .. first + size) = size + 1
    BY <1>1, FS_Interval
  <2>2. Cardinality(first .. first + size) <= Cardinality(tried[i])
    BY <1>3, FS_Subset
  <2>3. Cardinality(tried[i]) <= size
    BY DEF size
  <2> QED BY <1>1, <1>3, <2>1, <2>2, <2>3
<1>5. CASE tried[i] = {}
  BY <1>5
<1>6. ASSUME NEW k \in 0 .. size, tried[i] = first .. first + k - 1
      PROVE  tried[i] \subseteq first .. first + size - 1
  BY <1>1, <1>6
<1> QED BY <1>2, <1>4, <1>5, <1>6 DEF Sweeps, first, size

\* Of any number of threads and any width of a nonce, no two that are on the same
\* job and inside their slices have tried the same nonce: whatever jobs, winners
\* and restarts brought them there, no slice wraps round or meets the next.
THEOREM SlicesNeverMeet == Spec => []SlicesAreDisjoint
<1>1. Init => SliceIInv
  <2> SUFFICES ASSUME Init PROVE SliceIInv
    OBVIOUS
  <2>1. 0 .. pool - 1 = {}
    BY DEF Init
  <2> QED BY <2>1, InitLoops DEF SliceIInv
<1>2. SliceIInv /\ PostedSharesAreReal /\ [Next]_vars => SliceIInv'
  BY NextSweeps
<1>3. ASSUME SliceIInv
      PROVE  SlicesAreDisjoint
  <2>0. pool \in Nat /\ (pool = 0 \/ pool \in 1 .. MaxThreads)
    BY <1>3, WorkersAreNumbers DEF SliceIInv, LoopIInv, TypeOK
  <2>1. ASSUME NEW i \in 0 .. pool - 1, NEW k \in 0 .. pool - 1, i < k,
               Cardinality(tried[i]) <= Slice(pool), Cardinality(tried[k]) <= Slice(pool)
        PROVE  tried[i] \cap tried[k] = {}
    <3> DEFINE s == Slice(pool)
    <3>1. /\ tried[i] \subseteq i * s .. i * s + s - 1
          /\ tried[k] \subseteq k * s .. k * s + s - 1
      BY <1>3, <2>1, InsideTheSlice
    <3>2. s \in Nat
      BY <2>0, SliceEnds
    <3> HIDE DEF s
    <3>3. i * s \in Nat /\ k * s \in Nat /\ i * s + s <= k * s
      BY <2>1, <3>2, Ordered
    <3>4. \A x \in i * s .. i * s + s - 1 : x \notin k * s .. k * s + s - 1
      BY <3>2, <3>3
    <3> QED BY <3>1, <3>4
  <2>2. \A i, k \in 0 .. pool - 1 : i # k => i < k \/ k < i
    BY <2>0
  <2> QED BY <2>1, <2>2 DEF SlicesAreDisjoint
<1> QED BY <1>1, <1>2, <1>3, LoopsHold, PTL DEF Spec
=============================================================================

--------------------------- MODULE TrafficProofs ---------------------------
(***************************************************************************)
(* The start of the server, the bound on its referrers and that a visit is *)
(* a page load, proved for any settings, any number of migrations, of      *)
(* hosts and of pages.                                                     *)
(***************************************************************************)
EXTENDS Traffic, FiniteSetTheorems, TLAPS

-----------------------------------------------------------------------------
(* The start.                                                              *)

Found(e) == {s \in Settings : Complains(s, e[s])} \cup (IF Mismatch(e) THEN {Host} ELSE {})

\* Past Adopt the version is the number of columns, so what is owed is missing;
\* past Boot the problems are those of the environment the process runs in.
StartIInv ==
  /\ StartTypeOK
  /\ columns = 1 .. version \/ (version = 0 /\ columns = {1})
  /\ phase \in {"adopted", "up"} => columns = 1 .. version
  /\ phase # "down" => problems = Found(env)
  /\ phase = "up" => problems = {} /\ version >= code

LEMMA InitStart == StartInit => StartIInv
<1> SUFFICES ASSUME StartInit PROVE StartIInv
  OBVIOUS
<1>1. Ordinary \in [Settings -> Raw]
  BY DEF Ordinary, Raw
<1>2. version = 0 /\ (columns = 1 .. version \/ columns = {1}) /\ columns \subseteq 1 .. MaxSteps
  BY StartupAssumption DEF StartInit
<1> QED BY <1>1, <1>2, StartupAssumption DEF StartInit, StartIInv, StartTypeOK, Phases

LEMMA NextStart ==
  ASSUME StartIInv,
         \/ \E e \in [Settings -> Raw] : Boot(e)
         \/ Starting \/ Die \/ (\E n \in 1 .. MaxSteps : Release(n))
         \/ UNCHANGED startVars
  PROVE  StartIInv'
<1> USE DEF StartIInv, StartTypeOK
<1>1. ASSUME NEW e \in [Settings -> Raw], Boot(e)
      PROVE  StartIInv'
  <2>1. problems' = Found(e) /\ env' = e /\ phase' = "configured"
        /\ UNCHANGED <<code, version, columns>>
    BY <1>1 DEF Boot, Found
  <2>2. problems' \subseteq Settings
    BY <2>1, StartupAssumption DEF Found
  <2> QED BY <2>1, <2>2 DEF Phases, Found, Mismatch
<1>2. CASE OpenDatabase
  BY <1>2 DEF OpenDatabase, Phases, Found, Mismatch
<1>3. CASE Adopt
  <2>1. /\ phase' = "adopted" /\ UNCHANGED <<code, columns, env, problems>>
        /\ version' = IF version = 0 /\ 1 \in columns THEN 1 ELSE version
        /\ phase = "opened"
    BY <1>3 DEF Adopt
  <2>2. columns' = 1 .. version'
    <3>1. version \in Nat
      BY StartupAssumption
    <3>2. CASE columns = {1} /\ version = 0
      <4>1. version' = 1 /\ columns' = {1}
        BY <2>1, <3>2
      <4> QED BY <4>1
    <3>3. CASE columns = 1 .. version
      <4>1. version = 0 => 1 \notin columns
        BY <3>3
      <4> QED BY <2>1, <3>3, <4>1
    <3> QED BY <3>2, <3>3
  <2>3. version' \in 0 .. MaxSteps
    BY <2>1, StartupAssumption
  <2> QED BY <2>1, <2>2, <2>3 DEF Phases, Found, Mismatch
<1>4. CASE Migrate
  <2>1. /\ phase = "adopted" /\ version < code /\ columns = 1 .. version
        /\ columns' = columns \cup {version + 1} /\ version' = version + 1
        /\ UNCHANGED <<code, env, problems, phase>>
    BY <1>4 DEF Migrate, Owed
  <2>2. version' \in 0 .. MaxSteps /\ columns' = 1 .. version'
    BY <2>1, StartupAssumption
  <2>3. columns' \subseteq 1 .. MaxSteps
    BY <2>2, StartupAssumption
  <2> QED BY <2>1, <2>2, <2>3 DEF Phases, Found, Mismatch
<1>5. CASE Serve
  BY <1>5 DEF Serve, Owed, Phases, Found, Mismatch
<1>6. CASE Die
  <2>1. Ordinary \in [Settings -> Raw]
    BY DEF Ordinary, Raw
  <2> QED BY <1>6, <2>1 DEF Die, Phases
<1>7. ASSUME NEW n \in 1 .. MaxSteps, Release(n)
      PROVE  StartIInv'
  BY <1>7 DEF Release, Phases
<1>8. CASE UNCHANGED startVars
  BY <1>8 DEF startVars, Phases, Found, Mismatch
<1> QED BY <1>1, <1>2, <1>3, <1>4, <1>5, <1>6, <1>7, <1>8 DEF Starting

\* With no problem found, every reader gives what was set.
LEMMA NoProblems ==
  ASSUME StartTypeOK, Found(env) = {}
  PROVE  /\ \A s \in Settings :
              /\ env[s] \in {"good", "bad"} => Value(s, env[s]) = env[s]
              /\ ReaderOf[s] = "required" => Value(s, env[s]) # "nothing"
              /\ ReaderOf[s] \in {"int", "oneOf", "pattern", "cron"} => Value(s, env[s]) # "bad"
         /\ ~Mismatch(env)
<1>1. ~Mismatch(env)
  BY DEF Found
<1>2. ASSUME NEW s \in Settings
      PROVE  /\ env[s] \in {"good", "bad"} => Value(s, env[s]) = env[s]
             /\ ReaderOf[s] = "required" => Value(s, env[s]) # "nothing"
             /\ ReaderOf[s] \in {"int", "oneOf", "pattern", "cron"} => Value(s, env[s]) # "bad"
  <2>1. ~Complains(s, env[s]) /\ env[s] \in Raw /\ ReaderOf[s] \in Readers
    BY StartupAssumption DEF Found, StartTypeOK
  <2> QED BY <2>1 DEF Complains, Value, Raw, Readers
<1> QED BY <1>1, <1>2

LEMMA StartStep ==
  ASSUME [TrafficNext]_trafficVars
  PROVE  \/ \E e \in [Settings -> Raw] : Boot(e)
         \/ Starting \/ Die \/ (\E n \in 1 .. MaxSteps : Release(n))
         \/ UNCHANGED startVars
<1>1. CASE ServerStarts
  <2>1. Ordinary \in [Settings -> Raw]
    BY DEF Ordinary, Raw
  <2>2. ASSUME NEW e \in Environments
        PROVE  e \in [Settings -> Raw]
    <3>1. PICK odd \in SUBSET Settings :
            e \in {[s \in Settings |-> IF s \in odd THEN f[s] ELSE Ordinary[s]] : f \in [odd -> Raw]}
      BY <2>2 DEF Environments
    <3>2. PICK f \in [odd -> Raw] :
            e = [s \in Settings |-> IF s \in odd THEN f[s] ELSE Ordinary[s]]
      BY <3>1
    <3> QED BY <2>1, <3>2
  <2> QED BY <1>1, <2>1, <2>2 DEF ServerStarts, Operator
<1>2. CASE ServerDies
  BY <1>2 DEF ServerDies
<1>3. CASE Midnight \/ CountView \/ CountBlindly \/ CountMine
  BY <1>3 DEF Midnight, CountView, CountBlindly, CountMine
<1>4. CASE Visitor
  BY <1>4 DEF Visitor, Load, Navigate, Open, Mine, Close
<1>5. CASE UNCHANGED trafficVars
  BY <1>5 DEF trafficVars
<1> QED BY <1>1, <1>2, <1>3, <1>4, <1>5 DEF TrafficNext

LEMMA StartHolds == TrafficSpec => []StartIInv
<1>1. TrafficInit => StartIInv
  BY InitStart DEF TrafficInit
<1>2. StartIInv /\ [TrafficNext]_trafficVars => StartIInv'
  BY NextStart, StartStep
<1> QED BY <1>1, <1>2, PTL DEF TrafficSpec

\* Whatever releases, rollbacks, environments and deaths there have been: the
\* file's version tells what it has, and a server that is up runs on what was set.
THEOREM EveryStartIsSound == TrafficSpec => []StartIsSound
<1>1. StartIInv => StartIsSound
  <2> SUFFICES ASSUME StartIInv PROVE StartIsSound
    OBVIOUS
  <2>1. StartTypeOK
    BY DEF StartIInv
  <2>2. MigrationSound
    BY <2>1 DEF StartIInv, StartTypeOK, MigrationSound, Owed
  <2>3. RunsAsSet
    BY <2>1, NoProblems DEF StartIInv, RunsAsSet
  <2> QED BY <2>1, <2>2, <2>3 DEF StartIsSound
<1> QED BY <1>1, StartHolds, PTL

-----------------------------------------------------------------------------
(* The referrers.                                                          *)

Bounded(s) == IsFiniteSet(s) /\ Cardinality(s \ {Other}) <= RefMax

\* What the table has of a day the hub could read is among what the hub has seen.
RefIInv ==
  /\ day \in Days /\ refs \in [Days -> [RefKeys -> Nat]]
  /\ refDay \in Days \cup {-1} /\ refDay <= day
  /\ \A d \in Days, h \in RefKeys : d > day => refs[d][h] = 0
  /\ ~blind => Bounded(RefKeysToday) /\ Bounded(SeenToday)
               /\ RefKeysToday \subseteq SeenToday \cup {Other}

LEMMA DaysAreNumbers == Days \subseteq Nat /\ 0 \in Days /\ RefMax \in Nat \ {0}
BY TrafficAssumption DEF Days

LEMMA NobodyIsBounded == Bounded({})
<1>1. {} \ {Other} = {}
  OBVIOUS
<1> QED BY <1>1, FS_EmptySet, DaysAreNumbers DEF Bounded

LEMMA FewerAreBounded ==
  ASSUME NEW s, NEW t, Bounded(s), t \subseteq s \cup {Other}
  PROVE  Bounded(t)
<1>1. IsFiniteSet(s) /\ IsFiniteSet(s \cup {Other})
  BY FS_AddElement DEF Bounded
<1>2. IsFiniteSet(t)
  BY <1>1, FS_Subset
<1>3. IsFiniteSet(s \ {Other}) /\ IsFiniteSet(t \ {Other})
  BY <1>1, <1>2, FS_RemoveElement
<1>4. t \ {Other} \in SUBSET (s \ {Other})
  OBVIOUS
<1>5. /\ Cardinality(t \ {Other}) <= Cardinality(s \ {Other})
      /\ Cardinality(t \ {Other}) \in Nat /\ Cardinality(s \ {Other}) \in Nat
  BY <1>3, <1>4, FS_Subset, FS_CardinalityType
<1> QED BY <1>2, <1>5, DaysAreNumbers DEF Bounded

\* A host is let in only while there is room for it.
LEMMA AdmittedAreBounded ==
  ASSUME Bounded(SeenToday), NEW host
  PROVE  Bounded(Admitted(host)) /\ RefKey(host) \in Admitted(host) \cup {Other}
<1>0. IsFiniteSet(SeenToday) /\ IsFiniteSet(SeenToday \ {Other})
  BY FS_RemoveElement DEF Bounded
<1>1. CASE host \in SeenToday \/ ~(Cardinality(SeenToday) < RefMax)
  <2>1. Admitted(host) \subseteq SeenToday \cup {Other}
    BY <1>1 DEF Admitted, RefKey
  <2>2. RefKey(host) \in Admitted(host) \cup {Other}
    BY <1>1 DEF Admitted, RefKey
  <2> QED BY <2>1, <2>2, FewerAreBounded
<1>2. CASE host \notin SeenToday /\ Cardinality(SeenToday) < RefMax
  <2>1. Admitted(host) = SeenToday \cup {host} /\ RefKey(host) = host
    BY <1>2 DEF Admitted, RefKey
  <2>2. IsFiniteSet(SeenToday \cup {host})
    BY <1>0, FS_AddElement
  <2>3. Cardinality(SeenToday \cup {host}) = Cardinality(SeenToday) + 1
    BY <1>0, <1>2, FS_AddElement
  <2>4. (SeenToday \cup {host}) \ {Other} \in SUBSET (SeenToday \cup {host})
    OBVIOUS
  <2>5. /\ Cardinality((SeenToday \cup {host}) \ {Other}) <= Cardinality(SeenToday \cup {host})
        /\ Cardinality((SeenToday \cup {host}) \ {Other}) \in Nat
        /\ Cardinality(SeenToday) \in Nat
    BY <1>0, <2>2, <2>4, FS_Subset, FS_CardinalityType
  <2>6. Cardinality((SeenToday \cup {host}) \ {Other}) <= RefMax
    BY <1>2, <2>3, <2>5, DaysAreNumbers
  <2> QED BY <2>1, <2>2, <2>6 DEF Bounded
<1> QED BY <1>1, <1>2

\* Counting touches the keys of today that are counted.
LEMMA CountsOf ==
  ASSUME refs \in [Days -> [RefKeys -> Nat]], day \in Days,
         NEW S, NEW todo \in Seq(S), NEW n \in 0 .. Len(todo), Counts(todo, n)
  PROVE  /\ refs' \in [Days -> [RefKeys -> Nat]]
         /\ \A d \in Days : d # day => refs'[d] = refs[d]
         /\ \A h \in RefKeys : n = 0 \/ Hit("ref", h) \notin S => refs'[day][h] = refs[day][h]
<1> DEFINE done == {todo[i] : i \in 1 .. n}
           of(h) == {k \in done : k = Hit("ref", h)}
           today == [h \in RefKeys |-> refs[day][h] + Cardinality(of(h))]
<1>1. refs' = [refs EXCEPT ![day] = today]
  BY DEF Counts
<1>2. \A h \in RefKeys : Cardinality(of(h)) \in Nat
  <2> TAKE h \in RefKeys
  <2>1. IsFiniteSet({Hit("ref", h)}) /\ of(h) \in SUBSET {Hit("ref", h)}
    BY FS_Singleton
  <2> QED BY <2>1, FS_Subset, FS_CardinalityType
<1>3. today \in [RefKeys -> Nat]
  <2>1. \A h \in RefKeys : refs[day][h] \in Nat
    OBVIOUS
  <2> HIDE DEF of
  <2>2. \A h \in RefKeys : refs[day][h] + Cardinality(of(h)) \in Nat
    BY <1>2, <2>1
  <2> QED BY <2>2
<1>4. done \subseteq S /\ (n = 0 => done = {})
  OBVIOUS
<1>5. \A h \in RefKeys : n = 0 \/ Hit("ref", h) \notin S => today[h] = refs[day][h]
  <2> SUFFICES ASSUME NEW h \in RefKeys, n = 0 \/ Hit("ref", h) \notin S
               PROVE  today[h] = refs[day][h]
    OBVIOUS
  <2>1. of(h) = {}
    BY <1>4
  <2>2. Cardinality(of(h)) = 0
    BY <2>1, FS_EmptySet
  <2> QED BY <2>2
<1> HIDE DEF today
<1> QED BY <1>1, <1>3, <1>5

LEMMA NoneOrOne ==
  ASSUME NEW S
  PROVE  <<>> \in Seq(S) /\ \A x \in S : <<x>> \in Seq(S)
OBVIOUS

LEMMA OnlyToday ==
  ASSUME RefIInv, refs' \in [Days -> [RefKeys -> Nat]], day' = day,
         \A d \in Days : d # day => refs'[d] = refs[d]
  PROVE  \A d \in Days, h \in RefKeys : d > day' => refs'[d][h] = 0
BY DaysAreNumbers DEF RefIInv

LEMMA ViewKeepsRefs ==
  ASSUME RefIInv, CountView
  PROVE  RefIInv'
<1> DEFINE m == Head(wire)
<1>1. PICK exists \in BOOLEAN :
        LET todo == Visit(m) \o Ref(m) \o Page(m) \o OfListing(m, exists)
        IN  \E n \in 0 .. Len(todo) :
              /\ Counts(todo, n)
              /\ IF Referred(m) /\ n > 0
                 THEN /\ refDay' = day
                      /\ refSeen' = Admitted(m.ref)
                 ELSE UNCHANGED <<refDay, refSeen>>
  BY DEF CountView
<1> DEFINE todo == Visit(m) \o Ref(m) \o Page(m) \o OfListing(m, exists)
           S == {k \in {Hit("visit", ""), Hit("page", m.path), Hit("listing", m.path),
                        Hit("ref", RefKey(m.ref))} : k.kind = "ref" => Referred(m)}
<1>2. PICK n \in 0 .. Len(todo) :
        /\ Counts(todo, n)
        /\ IF Referred(m) /\ n > 0
           THEN refDay' = day /\ refSeen' = Admitted(m.ref)
           ELSE UNCHANGED <<refDay, refSeen>>
  BY <1>1
<1>3. todo \in Seq(S)
  <2>0. /\ Hit("visit", "") \in S /\ Hit("page", m.path) \in S /\ Hit("listing", m.path) \in S
        /\ Referred(m) => Hit("ref", RefKey(m.ref)) \in S
    BY DEF Hit
  <2> HIDE DEF S
  <2>1. Visit(m) \in Seq(S)
    BY <2>0, NoneOrOne DEF Visit
  <2>2. Ref(m) \in Seq(S)
    BY <2>0, NoneOrOne DEF Ref
  <2>3. Page(m) \in Seq(S)
    BY <2>0, NoneOrOne DEF Page
  <2>4. OfListing(m, exists) \in Seq(S)
    BY <2>0, NoneOrOne DEF OfListing
  <2> QED BY <2>1, <2>2, <2>3, <2>4
<1>4. \A h \in RefKeys : Hit("ref", h) \in S => Referred(m) /\ h = RefKey(m.ref)
  BY DEF Hit
<1>5. refs \in [Days -> [RefKeys -> Nat]] /\ day \in Days /\ UNCHANGED <<day, blind>>
  BY DEF CountView, RefIInv
<1> HIDE DEF S, todo
<1>6. /\ refs' \in [Days -> [RefKeys -> Nat]]
      /\ \A d \in Days : d # day => refs'[d] = refs[d]
      /\ \A h \in RefKeys : n = 0 \/ Hit("ref", h) \notin S => refs'[day][h] = refs[day][h]
  BY <1>2, <1>3, <1>5, CountsOf
<1>7. \A d \in Days, h \in RefKeys : d > day' => refs'[d][h] = 0
  BY <1>5, <1>6, OnlyToday
<1>8. refDay' \in Days \cup {-1} /\ refDay' <= day'
  BY <1>2, <1>5, DaysAreNumbers DEF RefIInv
<1>9. ASSUME ~blind'
      PROVE  /\ Bounded(RefKeysToday') /\ Bounded(SeenToday')
             /\ RefKeysToday' \subseteq SeenToday' \cup {Other}
  <2>0. Bounded(SeenToday) /\ Bounded(RefKeysToday) /\ RefKeysToday \subseteq SeenToday \cup {Other}
    BY <1>5, <1>9 DEF RefIInv
  <2>1. CASE Referred(m) /\ n > 0
    <3>1. SeenToday' = Admitted(m.ref)
      BY <1>2, <1>5, <2>1 DEF SeenToday
    <3>2. Bounded(Admitted(m.ref)) /\ RefKey(m.ref) \in Admitted(m.ref) \cup {Other}
      BY <2>0, AdmittedAreBounded
    <3>3. RefKeysToday' \subseteq RefKeysToday \cup {RefKey(m.ref)}
      BY <1>4, <1>5, <1>6 DEF RefKeysToday
    <3>4. SeenToday \subseteq Admitted(m.ref)
      BY DEF Admitted
    <3>5. RefKeysToday' \subseteq Admitted(m.ref) \cup {Other}
      BY <2>0, <3>2, <3>3, <3>4
    <3>6. Bounded(RefKeysToday')
      BY <3>2, <3>5, FewerAreBounded
    <3> QED BY <3>1, <3>2, <3>5, <3>6
  <2>2. CASE ~(Referred(m) /\ n > 0)
    <3>1. \A h \in RefKeys : refs'[day][h] = refs[day][h]
      BY <1>4, <1>6, <2>2
    <3>2. RefKeysToday' = RefKeysToday
      BY <1>5, <3>1 DEF RefKeysToday
    <3>3. SeenToday' = SeenToday
      BY <1>2, <1>5, <2>2, <3>2 DEF SeenToday
    <3> QED BY <2>0, <3>2, <3>3
  <2> QED BY <2>1, <2>2
<1> QED BY <1>5, <1>6, <1>7, <1>8, <1>9 DEF RefIInv

LEMMA BlindKeepsRefs ==
  ASSUME RefIInv, CountBlindly
  PROVE  RefIInv'
<1>1. PICK S : Visit(Head(wire)) \in Seq(S) /\ Len(Visit(Head(wire))) = 1
  <2>1. Visit(Head(wire)) = <<Hit("visit", "")>>
    BY DEF CountBlindly, Visit, Referred
  <2>2. <<Hit("visit", "")>> \in Seq({Hit("visit", "")}) /\ Len(<<Hit("visit", "")>>) = 1
    OBVIOUS
  <2> QED BY <2>1, <2>2
<1>2. Counts(Visit(Head(wire)), 1) /\ UNCHANGED day /\ refDay' = day /\ blind'
  BY DEF CountBlindly
<1>3. 1 \in 0 .. Len(Visit(Head(wire)))
  BY <1>1
<1>4. refs \in [Days -> [RefKeys -> Nat]] /\ day \in Days
  BY DEF RefIInv
<1>5. /\ refs' \in [Days -> [RefKeys -> Nat]]
      /\ \A d \in Days : d # day => refs'[d] = refs[d]
  BY <1>1, <1>2, <1>3, <1>4, CountsOf
<1>6. \A d \in Days, h \in RefKeys : d > day' => refs'[d][h] = 0
  BY <1>2, <1>5, OnlyToday
<1> QED BY <1>2, <1>4, <1>5, <1>6, DaysAreNumbers DEF RefIInv

LEMMA NextRefs ==
  ASSUME RefIInv, [TrafficNext]_trafficVars
  PROVE  RefIInv'
<1>1. CASE Midnight
  <2>1. day' = day + 1 /\ ~blind' /\ UNCHANGED <<refs, refDay>> /\ day < MaxDay /\ day' \in Days
    BY <1>1, TrafficAssumption DEF Midnight, RefIInv, Days
  <2>2. day' # refDay' /\ refDay' <= day'
    BY <2>1, DaysAreNumbers DEF RefIInv
  <2>3. \A h \in RefKeys : refs'[day'][h] = 0
    BY <2>1, DaysAreNumbers DEF RefIInv
  <2>4. RefKeysToday' = {} /\ SeenToday' = {}
    BY <2>2, <2>3 DEF RefKeysToday, SeenToday
  <2>5. \A d \in Days, h \in RefKeys : d > day' => refs'[d][h] = 0
    BY <2>1, DaysAreNumbers DEF RefIInv
  <2> QED BY <2>1, <2>2, <2>4, <2>5, NobodyIsBounded DEF RefIInv
<1>2. CASE ServerDies
  <2>1. refDay' = -1 /\ UNCHANGED <<day, refs, blind>>
    BY <1>2 DEF ServerDies
  <2>2. RefKeysToday' = RefKeysToday /\ SeenToday' = RefKeysToday
    BY <2>1, DaysAreNumbers DEF RefKeysToday, SeenToday, RefIInv
  <2> QED BY <2>1, <2>2, DaysAreNumbers DEF RefIInv
<1>3. CASE ServerStarts \/ Visitor \/ CountMine \/ UNCHANGED trafficVars
  <2>1. UNCHANGED <<day, refs, refDay, refSeen, blind>>
    BY <1>3 DEF ServerStarts, Visitor, Load, Navigate, Open, Mine, Close, CountMine, trafficVars, hubVars
  <2> QED BY <2>1 DEF RefIInv, Bounded, RefKeysToday, SeenToday
<1> QED BY <1>1, <1>2, <1>3, ViewKeepsRefs, BlindKeepsRefs DEF TrafficNext

\* A day has at most RefMax hosts in the table, and the one key for all others,
\* however often the process starts in it; unless the table could not be read.
THEOREM ReferrersAreBounded == TrafficSpec => []RefKeysAreBounded
<1>1. TrafficInit => RefIInv
  <2> SUFFICES ASSUME TrafficInit PROVE RefIInv
    OBVIOUS
  <2>1. day = 0 /\ refDay = -1 /\ refs = [d \in Days |-> [h \in RefKeys |-> 0]]
    BY DEF TrafficInit
  <2>2. RefKeysToday = {} /\ SeenToday = {}
    BY <2>1, DaysAreNumbers DEF RefKeysToday, SeenToday
  <2> QED BY <2>1, <2>2, DaysAreNumbers, NobodyIsBounded DEF RefIInv
<1>2. RefIInv /\ [TrafficNext]_trafficVars => RefIInv'
  BY NextRefs
<1>3. RefIInv => RefKeysAreBounded
  BY DEF RefIInv, Bounded, RefKeysAreBounded
<1> QED BY <1>1, <1>2, <1>3, PTL DEF TrafficSpec
-----------------------------------------------------------------------------
(* The counts.                                                             *)

Referrals == UNION {{<<d, h>>} \X (1 .. refs[d][h]) : d \in Days, h \in RefKeys}

IsFirst(m) == m.t = "view" /\ m.first

\* The line that would count the visit of this load is still to be read.
FirstAhead == (pending # Nothing /\ IsFirst(pending)) \/ (wire # <<>> /\ IsFirst(Head(wire)))

If(b, n) == IF b THEN n ELSE 0

\* Only the oldest line can be a first view: nothing is sent before it and it is
\* kept in one place.  A write of a socket is for a key it has spent, for its visit,
\* with or without a referrer, or for its one session.
CountsIInv ==
  /\ TrafficTypeOK
  /\ open => pending = Nothing
  /\ ~open => wire = <<>>
  /\ \A i \in 2 .. Len(wire) : ~IsFirst(wire[i])
  /\ visits + If(FirstAhead, 1) <= loads
  /\ IsFiniteSet(Referrals) /\ Cardinality(Referrals) <= visits
  /\ IsFiniteSet(seen) /\ Cardinality(seen) <= SeenMax
  /\ spent <= Cardinality(seen) + If(counted, 2) + If(mined, 1)

LEMMA LineTypes ==
  /\ \A p \in Paths, first \in BOOLEAN, ref \in Hosts \cup {Nothing} : View(p, first, ref) \in Views
  /\ [t |-> "mine"] \in Lines /\ Views \subseteq Lines
  /\ \A m \in Lines : m.t = "view" => m \in Views
BY DEF View, Views, Lines

\* Sequences of one element or none, one behind the other.
LEMMA FourInARow ==
  ASSUME NEW S, NEW a \in Seq(S), NEW b \in Seq(S), NEW c \in Seq(S), NEW d \in Seq(S),
         Len(a) <= 1, Len(b) <= 1, Len(c) <= 1, Len(d) <= 1, NEW t, t = a \o b \o c \o d
  PROVE  /\ t \in Seq(S) /\ Len(t) = Len(a) + Len(b) + Len(c) + Len(d)
         /\ Len(a) = 1 => t[1] = a[1]
         /\ Len(b) = 1 => t[Len(a) + 1] = b[1]
         /\ Len(c) = 1 => t[Len(a) + Len(b) + 1] = c[1]
         /\ Len(d) = 1 => t[Len(a) + Len(b) + Len(c) + 1] = d[1]
<1> DEFINE u == a \o b
           v == u \o c
<1>1. u \in Seq(S) /\ Len(u) = Len(a) + Len(b)
  OBVIOUS
<1>2. (Len(a) = 1 => u[1] = a[1]) /\ (Len(b) = 1 => u[Len(a) + 1] = b[1])
  OBVIOUS
<1> HIDE DEF u
<1>3. v \in Seq(S) /\ Len(v) = Len(u) + Len(c)
  BY <1>1
<1>4. (\A i \in 1 .. Len(u) : v[i] = u[i]) /\ (Len(c) = 1 => v[Len(u) + 1] = c[1])
  BY <1>1
<1>5. t = v \o d
  BY DEF u
<1> HIDE DEF v
<1>6. t \in Seq(S) /\ Len(t) = Len(v) + Len(d)
  BY <1>3, <1>5
<1>7. (\A i \in 1 .. Len(v) : t[i] = v[i]) /\ (Len(d) = 1 => t[Len(v) + 1] = d[1])
  BY <1>3, <1>5
<1>8. Len(a) \in Nat /\ Len(b) \in Nat /\ Len(c) \in Nat /\ Len(d) \in Nat
  OBVIOUS
<1>9. (Len(a) = 1 => t[1] = a[1]) /\ (Len(b) = 1 => t[Len(a) + 1] = b[1])
  <2>1. ASSUME NEW i \in 1 .. Len(u)
        PROVE  t[i] = u[i]
    BY <1>1, <1>3, <1>4, <1>7, <1>8
  <2>2. Len(a) = 1 => 1 \in 1 .. Len(u)
    BY <1>1, <1>8
  <2>3. Len(b) = 1 => Len(a) + 1 \in 1 .. Len(u)
    BY <1>1, <1>8
  <2> QED BY <1>2, <2>1, <2>2, <2>3
<1>10. Len(c) = 1 => t[Len(a) + Len(b) + 1] = c[1]
  BY <1>1, <1>3, <1>4, <1>7, <1>8
<1> QED BY <1>1, <1>3, <1>6, <1>7, <1>8, <1>9, <1>10

\* What countView counts for m, piece by piece.
Todo(m, exists) == Visit(m) \o Ref(m) \o Page(m) \o OfListing(m, exists)

AVisit == Hit("visit", "")

Hits == {AVisit} \cup [kind : {"ref"}, key : RefKeys] \cup [kind : {"page", "listing"}, key : Paths]

LEMMA KindsOfHits ==
  /\ AVisit.kind = "visit"
  /\ \A kind, key : Hit(kind, key).kind = kind /\ Hit(kind, key).key = key
BY Zenon DEF AVisit, Hit

LEMMA PiecesOf ==
  ASSUME NEW m \in Views, NEW exists \in BOOLEAN
  PROVE  /\ Visit(m) \in Seq(Hits) /\ Visit(m) = IF Fresh(m) THEN <<AVisit>> ELSE <<>>
         /\ Ref(m) \in Seq(Hits)
         /\ Page(m) \in Seq(Hits) /\ (Page(m) = <<Hit("page", m.path)>> \/ Page(m) = <<>>)
         /\ OfListing(m, exists) \in Seq(Hits)
         /\ OfListing(m, exists) = <<Hit("listing", m.path)>> \/ OfListing(m, exists) = <<>>
<1>0. m.path \in Paths /\ m.ref \in Hosts \cup {Nothing}
  BY DEF Views
<1>1. AVisit \in Hits /\ Hit("page", m.path) \in Hits /\ Hit("listing", m.path) \in Hits
  BY <1>0 DEF Hit, Hits
<1>2. Referred(m) => Hit("ref", RefKey(m.ref)) \in Hits
  BY <1>0 DEF Hit, Hits, Referred, RefKey, RefKeys
<1>3. <<>> \in Seq(Hits) /\ \A x \in Hits : <<x>> \in Seq(Hits)
  BY NoneOrOne
<1>5. Visit(m) \in Seq(Hits) /\ Visit(m) = IF Fresh(m) THEN <<AVisit>> ELSE <<>>
  BY <1>1, <1>3, Zenon DEF Visit, AVisit
<1>6. Ref(m) \in Seq(Hits)
  BY <1>2, <1>3, Zenon DEF Ref
<1>7. Page(m) \in Seq(Hits) /\ (Page(m) = <<Hit("page", m.path)>> \/ Page(m) = <<>>)
  BY <1>1, <1>3, Zenon DEF Page
<1>8. /\ OfListing(m, exists) \in Seq(Hits)
      /\ OfListing(m, exists) = <<Hit("listing", m.path)>> \/ OfListing(m, exists) = <<>>
  BY <1>1, <1>3, Zenon DEF OfListing
<1> QED BY <1>5, <1>6, <1>7, <1>8, Zenon

\* How many of them are the visit and its referrer.
OfVisit(m) == IF Referred(m) THEN 2 ELSE IF Fresh(m) THEN 1 ELSE 0

\* The visit comes first, then its referrer; then the page and then the listing.
LEMMA TodoOf ==
  ASSUME NEW m \in Views, NEW exists \in BOOLEAN, NEW t, t = Todo(m, exists),
         NEW f, f = OfVisit(m), NEW c, c = Page(m), NEW d, d = OfListing(m, exists)
  PROVE  /\ t \in Seq(Hits) /\ Len(t) = f + Len(c) + Len(d)
         /\ f \in 0 .. 2 /\ Len(c) \in 0 .. 1 /\ Len(d) \in 0 .. 1
         /\ f > 0 => t[1] = AVisit
         /\ f > 1 => t[2] = Hit("ref", RefKey(m.ref))
         /\ Len(c) = 1 => t[f + 1] = Hit("page", m.path)
         /\ Len(d) = 1 => t[f + Len(c) + 1] = Hit("listing", m.path)
<1> DEFINE a == Visit(m)
           b == Ref(m)
<1>0. a \in Seq(Hits) /\ b \in Seq(Hits) /\ c \in Seq(Hits) /\ d \in Seq(Hits)
  BY PiecesOf, Zenon
<1>1. /\ a = IF Fresh(m) THEN <<AVisit>> ELSE <<>>
      /\ b = IF Referred(m) THEN <<Hit("ref", RefKey(m.ref))>> ELSE <<>>
      /\ c = <<Hit("page", m.path)>> \/ c = <<>>
      /\ d = <<Hit("listing", m.path)>> \/ d = <<>>
      /\ t = a \o b \o c \o d
  BY PiecesOf, Zenon DEF Todo, Ref
<1>2. Referred(m) => Fresh(m)
  BY DEF Referred
<1> HIDE DEF a, b
<1> DEFINE r == Hit("ref", RefKey(m.ref))
           p == Hit("page", m.path)
           q == Hit("listing", m.path)
<1> HIDE DEF r, p, q
<1>3. /\ Len(a) = (IF Fresh(m) THEN 1 ELSE 0) /\ (Fresh(m) => a[1] = AVisit)
      /\ Len(b) = (IF Referred(m) THEN 1 ELSE 0) /\ (Referred(m) => b[1] = r)
  BY <1>1 DEF r
<1>4. /\ (Len(c) = 1 /\ c[1] = p) \/ Len(c) = 0
      /\ (Len(d) = 1 /\ d[1] = q) \/ Len(d) = 0
  BY <1>1 DEF p, q
<1> DEFINE la == Len(a)
           lb == Len(b)
           lc == Len(c)
           ld == Len(d)
<1>5. la + lb = f /\ f \in 0 .. 2 /\ lc \in 0 .. 1 /\ ld \in 0 .. 1
      /\ la <= 1 /\ lb <= 1 /\ lc <= 1 /\ ld <= 1
  <2>1. /\ la = (IF Fresh(m) THEN 1 ELSE 0)
        /\ lb = (IF Referred(m) THEN 1 ELSE 0)
        /\ lc = 1 \/ lc = 0
        /\ ld = 1 \/ ld = 0
    BY <1>3, <1>4
  <2> HIDE DEF la, lb, lc, ld
  <2>2. f = IF Referred(m) THEN 2 ELSE IF Fresh(m) THEN 1 ELSE 0
    BY DEF OfVisit
  <2> QED BY <1>2, <2>1, <2>2
<1>6. /\ t \in Seq(Hits) /\ Len(t) = Len(a) + Len(b) + Len(c) + Len(d)
      /\ Len(a) = 1 => t[1] = a[1]
      /\ Len(b) = 1 => t[Len(a) + 1] = b[1]
      /\ Len(c) = 1 => t[Len(a) + Len(b) + 1] = c[1]
      /\ Len(d) = 1 => t[Len(a) + Len(b) + Len(c) + 1] = d[1]
  <2>1. t = a \o b \o c \o d
    BY <1>1
  <2>2. Len(a) <= 1 /\ Len(b) <= 1 /\ Len(c) <= 1 /\ Len(d) <= 1
    BY <1>5
  <2> QED BY <1>0, <2>1, <2>2, FourInARow
<1>7. f > 0 => t[1] = AVisit
  BY <1>2, <1>3, <1>6 DEF OfVisit
<1>8. f > 1 => t[2] = r
  BY <1>2, <1>3, <1>6 DEF OfVisit
<1>9. (Len(c) = 1 => t[f + 1] = p) /\ (Len(d) = 1 => t[f + Len(c) + 1] = q)
  BY <1>4, <1>5, <1>6
<1> QED BY <1>5, <1>6, <1>7, <1>8, <1>9 DEF r, p, q

\* Whatever is counted is one of these four.
LEMMA EachOfTodo ==
  ASSUME NEW m \in Views, NEW exists \in BOOLEAN, NEW t, t = Todo(m, exists), NEW i \in 1 .. Len(t)
  PROVE  LET f == OfVisit(m)
             c == Page(m)
         IN  \/ i = 1 /\ f > 0 /\ t[i] = AVisit
             \/ i = 2 /\ f > 1 /\ t[i] = Hit("ref", RefKey(m.ref))
             \/ i = f + 1 /\ Len(c) = 1 /\ t[i] = Hit("page", m.path)
             \/ i = f + Len(c) + 1 /\ Len(OfListing(m, exists)) = 1 /\ t[i] = Hit("listing", m.path)
<1> DEFINE f == OfVisit(m)
           c == Page(m)
           d == OfListing(m, exists)
           r == Hit("ref", RefKey(m.ref))
           p == Hit("page", m.path)
           q == Hit("listing", m.path)
           lc == Len(c)
           ld == Len(d)
<1>1. /\ Len(t) = f + lc + ld
      /\ f \in 0 .. 2 /\ lc \in 0 .. 1 /\ ld \in 0 .. 1
      /\ f > 0 => t[1] = AVisit
      /\ f > 1 => t[2] = r
      /\ lc = 1 => t[f + 1] = p
      /\ ld = 1 => t[f + lc + 1] = q
  BY TodoOf
<1> HIDE DEF f, c, d, r, p, q, lc, ld
<1>2. CASE i <= f
  <2>1. i = 1 \/ i = 2
    BY <1>1, <1>2
  <2> QED BY <1>1, <1>2, <2>1 DEF f, c, d, r, p, q
<1>3. CASE i = f + 1 /\ lc = 1
  BY <1>1, <1>3 DEF f, c, d, r, p, q, lc
<1>4. CASE i > f /\ ~(i = f + 1 /\ lc = 1)
  <2>1. i = f + lc + 1 /\ ld = 1
    BY <1>1, <1>4
  <2> QED BY <1>1, <2>1 DEF f, c, d, r, p, q, lc, ld
<1> QED BY <1>1, <1>2, <1>3, <1>4

LEMMA ReferralIs ==
  \A x : x \in Referrals <=> \E d \in Days, h \in RefKeys : x \in {<<d, h>>} \X (1 .. refs[d][h])
<1> DEFINE part(d, h) == {<<d, h>>} \X (1 .. refs[d][h])
           parts == {part(d, h) : d \in Days, h \in RefKeys}
<1> HIDE DEF part
<1>1. \A s : s \in parts <=> \E d \in Days, h \in RefKeys : s = part(d, h)
  BY SMT
<1>2. Referrals = UNION parts
  BY DEF Referrals, part
<1> HIDE DEF parts
<1>3. \A x : x \in Referrals <=> \E d \in Days, h \in RefKeys : x \in part(d, h)
  BY <1>1, <1>2
<1> QED BY <1>3 DEF part

LEMMA SameReferrals == refs' = refs => Referrals' = Referrals
BY DEF Referrals

LEMMA OneMoreReferral ==
  ASSUME refs \in [Days -> [RefKeys -> Nat]], refs' \in [Days -> [RefKeys -> Nat]], IsFiniteSet(Referrals),
         NEW k, \A h \in RefKeys : refs'[day][h] = IF h = k THEN refs[day][h] + 1 ELSE refs[day][h],
         \A d \in Days : d # day => refs'[d] = refs[d]
  PROVE  IsFiniteSet(Referrals') /\ Cardinality(Referrals') <= Cardinality(Referrals) + 1
<1> DEFINE one == << <<day, k>>, refs[day][k] + 1 >>
           more == Referrals \cup {one}
<1>1. IsFiniteSet(more) /\ Cardinality(more) \in Nat /\ Cardinality(Referrals) \in Nat
      /\ Cardinality(more) <= Cardinality(Referrals) + 1
  <2> HIDE DEF one
  <2>1. /\ IsFiniteSet(more)
        /\ Cardinality(more) = IF one \in Referrals THEN Cardinality(Referrals) ELSE Cardinality(Referrals) + 1
    BY FS_AddElement
  <2>2. Cardinality(more) \in Nat /\ Cardinality(Referrals) \in Nat
    BY <2>1, FS_CardinalityType
  <2> QED BY <2>1, <2>2
<1>2. ASSUME NEW x \in Referrals'
      PROVE  x \in more
  <2>1. PICK d \in Days, h \in RefKeys : x \in {<<d, h>>} \X (1 .. refs'[d][h])
    BY <1>2, SMT DEF Referrals
  <2>2. PICK j \in 1 .. refs'[d][h] : x = << <<d, h>>, j >>
    BY <2>1
  <2>3. refs'[d][h] \in Nat /\ refs[d][h] \in Nat
    BY <2>1
  <2>4. CASE j <= refs[d][h]
    <3>1. j \in 1 .. refs[d][h]
      BY <2>2, <2>3, <2>4
    <3>2. x \in {<<d, h>>} \X (1 .. refs[d][h])
      BY <2>2, <3>1
    <3>3. \E d_1 \in Days, h_1 \in RefKeys : x \in {<<d_1, h_1>>} \X (1 .. refs[d_1][h_1])
      BY <3>2, Zenon
    <3>4. x \in Referrals
      BY <3>3, ReferralIs
    <3> QED BY <3>4
  <2>5. CASE ~(j <= refs[d][h])
    <3>1. d = day /\ h = k
      BY <2>2, <2>3, <2>5
    <3>2. refs'[day][k] = refs[day][k] + 1
      BY <3>1
    <3>3. j = refs[day][k] + 1
      <4> DEFINE was == refs[day][k]
                 now == refs'[day][k]
      <4>1. j \in 1 .. now /\ now = was + 1 /\ was \in Nat /\ ~(j <= was)
        BY <2>2, <2>3, <2>5, <3>1, <3>2
      <4> HIDE DEF was, now
      <4>2. j = was + 1
        BY <4>1
      <4> QED BY <4>2 DEF was
    <3> QED BY <2>2, <3>1, <3>3
  <2> QED BY <2>4, <2>5
<1>3. Referrals' \in SUBSET more
  BY <1>2
<1> HIDE DEF more
<1>4. IsFiniteSet(Referrals') /\ Cardinality(Referrals') <= Cardinality(more)
  BY <1>1, <1>3, FS_Subset
<1>5. Cardinality(Referrals') \in Nat
  BY <1>4, FS_CardinalityType
<1> QED BY <1>1, <1>4, <1>5

\* A view writes its visit first, and its referrer only once that is written.
LEMMA ViewCounts ==
  ASSUME CountsIInv, NEW m \in Views, NEW exists \in BOOLEAN,
         NEW n \in 0 .. Len(Todo(m, exists)), Counts(Todo(m, exists), n)
  PROVE  /\ visits' = visits + If(n > 0 /\ Fresh(m), 1)
         /\ refs' \in [Days -> [RefKeys -> Nat]]
         /\ IsFiniteSet(Referrals') /\ Cardinality(Referrals') <= visits'
<1> DEFINE t == Todo(m, exists)
           done == {t[i] : i \in 1 .. n}
           visit == {k \in done : k.kind = "visit"}
           of(h) == {k \in done : k = Hit("ref", h)}
           r == RefKey(m.ref)
<1>0. /\ refs \in [Days -> [RefKeys -> Nat]] /\ day \in Days /\ visits \in Nat
      /\ IsFiniteSet(Referrals) /\ Cardinality(Referrals) <= visits
      /\ Cardinality(Referrals) \in Nat
  BY FS_CardinalityType DEF CountsIInv, TrafficTypeOK
<1>1. t \in Seq(Hits) /\ n \in 0 .. Len(t) /\ Len(t) \in Nat
  BY TodoOf
<1>2. /\ OfVisit(m) \in 0 .. 2
      /\ Fresh(m) <=> OfVisit(m) > 0
      /\ Referred(m) <=> OfVisit(m) > 1
      /\ OfVisit(m) > 0 => t[1] = AVisit
      /\ OfVisit(m) > 1 => t[2] = Hit("ref", r)
  <2>1. Referred(m) => Fresh(m)
    BY DEF Referred
  <2> QED BY <2>1, TodoOf DEF OfVisit
<1>3. ASSUME NEW i \in 1 .. n
      PROVE  \/ i = 1 /\ Fresh(m) /\ t[i] = AVisit
             \/ i = 2 /\ Referred(m) /\ t[i] = Hit("ref", r)
             \/ t[i].kind \in {"page", "listing"}
  <2>1. i \in 1 .. Len(t)
    BY <1>1
  <2> HIDE DEF t
  <2> QED BY <1>2, <2>1, EachOfTodo, KindsOfHits DEF t
<1> HIDE DEF t
<1>4. visit = IF n > 0 /\ Fresh(m) THEN {AVisit} ELSE {}
  <2>1. ASSUME NEW k \in visit
        PROVE  n > 0 /\ Fresh(m) /\ k = AVisit
    BY <1>3, <2>1, KindsOfHits
  <2>2. ASSUME n > 0, Fresh(m)
        PROVE  AVisit \in visit
    <3>1. 1 \in 1 .. n /\ t[1] = AVisit
      BY <1>1, <1>2, <2>2
    <3> QED BY <3>1, KindsOfHits
  <2> HIDE DEF visit
  <2> QED BY <2>1, <2>2
<1>5. Cardinality(visit) = If(n > 0 /\ Fresh(m), 1)
  BY <1>4, FS_EmptySet, FS_Singleton DEF If
<1>6. visits' = visits + If(n > 0 /\ Fresh(m), 1)
  BY <1>5 DEF Counts, t
<1>7. /\ refs' \in [Days -> [RefKeys -> Nat]]
      /\ \A d \in Days : d # day => refs'[d] = refs[d]
  BY <1>0, <1>1, CountsOf DEF t
<1>8. \A h \in RefKeys : refs'[day][h] = refs[day][h] + Cardinality(of(h))
  <2>1. refs' = [refs EXCEPT ![day] = [h \in RefKeys |-> refs[day][h] + Cardinality(of(h))]]
    BY DEF Counts, t
  <2> HIDE DEF of
  <2> QED BY <1>0, <2>1
<1>9. CASE Referred(m) /\ n > 1
  <2>1. ASSUME NEW h \in RefKeys
        PROVE  of(h) = IF h = r THEN {Hit("ref", h)} ELSE {}
    <3>1. ASSUME NEW k \in of(h)
          PROVE  k = Hit("ref", h) /\ h = r
      BY <1>3, <3>1, KindsOfHits
    <3>2. ASSUME h = r
          PROVE  Hit("ref", h) \in of(h)
      <4>1. 2 \in 1 .. n /\ t[2] = Hit("ref", h)
        BY <1>1, <1>2, <1>9, <3>2
      <4> QED BY <4>1
    <3> HIDE DEF of
    <3> QED BY <3>1, <3>2
  <2>2. \A h \in RefKeys : Cardinality(of(h)) = IF h = r THEN 1 ELSE 0
    BY <2>1, FS_EmptySet, FS_Singleton
  <2> HIDE DEF of, r
  <2>3. \A h \in RefKeys : refs'[day][h] = IF h = r THEN refs[day][h] + 1 ELSE refs[day][h]
    <3>1. \A h \in RefKeys : refs[day][h] \in Nat
      BY <1>0
    <3> QED BY <1>8, <2>2, <3>1
  <2>4. IsFiniteSet(Referrals') /\ Cardinality(Referrals') <= Cardinality(Referrals) + 1
    BY <1>0, <1>7, <2>3, OneMoreReferral
  <2>5. visits' = visits + 1
    BY <1>1, <1>2, <1>6, <1>9 DEF If
  <2>6. Cardinality(Referrals') \in Nat
    BY <2>4, FS_CardinalityType
  <2> QED BY <1>0, <1>6, <1>7, <2>4, <2>5, <2>6
<1>10. CASE ~(Referred(m) /\ n > 1)
  <2>1. \A h \in RefKeys : of(h) = {}
    BY <1>1, <1>3, <1>10, KindsOfHits
  <2>2. \A h \in RefKeys : Cardinality(of(h)) = 0
    BY <2>1, FS_EmptySet
  <2> HIDE DEF of
  <2>3. \A h \in RefKeys : refs'[day][h] = refs[day][h]
    <3>1. \A h \in RefKeys : refs[day][h] \in Nat
      BY <1>0
    <3> QED BY <1>8, <2>2, <3>1
  <2>4. refs' = refs
    BY <1>0, <1>7, <2>3
  <2>5. Referrals' = Referrals
    BY <2>4, SameReferrals
  <2>6. visits' >= visits /\ visits' \in Nat
    BY <1>0, <1>6 DEF If
  <2> QED BY <1>0, <1>6, <1>7, <2>5, <2>6
<1> QED BY <1>9, <1>10

\* A page and a listing are counted once for a socket, and only while it may spend:
\* what a view writes besides its visit is among what the socket has spent by it.
LEMMA ViewSpends ==
  ASSUME CountsIInv, NEW m \in Views, NEW exists \in BOOLEAN,
         NEW n \in 0 .. Len(Todo(m, exists)), Counts(Todo(m, exists), n)
  PROVE  /\ seen' \subseteq [kind : {"page", "listing"}, key : Paths]
         /\ IsFiniteSet(seen') /\ Cardinality(seen') <= SeenMax
         /\ spent' \in Nat
         /\ spent' <= Cardinality(seen') + If(counted \/ m.first, 2) + If(mined, 1)
<1> DEFINE t == Todo(m, exists)
           f == OfVisit(m)
           c == Page(m)
           d == OfListing(m, exists)
           p == Hit("page", m.path)
           q == Hit("listing", m.path)
           lc == Len(c)
           ld == Len(d)
           P == IF lc = 1 THEN {p} ELSE {}
           Q == IF ld = 1 THEN {q} ELSE {}
           new == {k \in {t[i] : i \in DOMAIN t \cap 1 .. n + 1} : k.kind \in {"page", "listing"}}
<1>0. /\ seen \subseteq [kind : {"page", "listing"}, key : Paths]
      /\ IsFiniteSet(seen) /\ Cardinality(seen) <= SeenMax /\ Cardinality(seen) \in Nat
      /\ spent \in Nat /\ SeenMax \in Nat
      /\ spent <= Cardinality(seen) + If(counted, 2) + If(mined, 1)
  BY FS_CardinalityType, TrafficAssumption DEF CountsIInv, TrafficTypeOK
<1>1. /\ t \in Seq(Hits) /\ Len(t) = f + lc + ld
      /\ f \in 0 .. 2 /\ lc \in 0 .. 1 /\ ld \in 0 .. 1
      /\ lc = 1 => t[f + 1] = p
      /\ ld = 1 => t[f + lc + 1] = q
  BY TodoOf
<1>2. /\ p \in [kind : {"page", "listing"}, key : Paths] /\ p.kind = "page"
      /\ q \in [kind : {"page", "listing"}, key : Paths] /\ q.kind = "listing"
  BY DEF Hit, Views
<1>3. f > 0 <=> Fresh(m)
  BY DEF OfVisit, Referred
<1>4. ToSet(c) = P
  <2>1. c = <<p>> \/ c = <<>>
    BY PiecesOf, Zenon
  <2> HIDE DEF c, p
  <2>2. CASE c = <<p>>
    <3>1. Len(c) = 1 /\ DOMAIN c = {1} /\ c[1] = p
      BY <2>2
    <3>2. ToSet(c) = {p}
      BY <3>1, Zenon DEF ToSet
    <3> QED BY <3>1, <3>2
  <2>3. CASE c = <<>>
    <3>1. Len(c) = 0 /\ DOMAIN c = {}
      BY <2>3
    <3>2. ToSet(c) = {}
      BY <3>1, Zenon DEF ToSet
    <3> QED BY <3>1, <3>2
  <2> QED BY <2>1, <2>2, <2>3
<1>5. /\ lc = 1 => p \notin seen /\ Cardinality(seen) < SeenMax
      /\ ld = 1 => q \notin seen \cup P /\ Cardinality(seen \cup P) < SeenMax
  <2>1. Len(<<>>) # 1
    OBVIOUS
  <2>2. ASSUME lc = 1
        PROVE  Once(p, seen)
    <3>1. Page(m) # <<>>
      BY <2>1, <2>2, Zenon
    <3> QED BY <3>1, Zenon DEF Page
  <2>3. ASSUME ld = 1
        PROVE  Once(q, seen \cup ToSet(c))
    <3>1. OfListing(m, exists) # <<>>
      BY <2>1, <2>3, Zenon
    <3> QED BY <3>1, Zenon DEF OfListing
  <2> QED BY <1>4, <2>2, <2>3, Zenon DEF Once
<1>6. \A i \in 1 .. Len(t) : t[i].kind \in {"page", "listing"} =>
        \/ i = f + 1 /\ lc = 1 /\ t[i] = p
        \/ i = f + lc + 1 /\ ld = 1 /\ t[i] = q
  <2> TAKE i \in 1 .. Len(t)
  <2>1. \/ i = 1 /\ f > 0 /\ t[i] = AVisit
        \/ i = 2 /\ f > 1 /\ t[i] = Hit("ref", RefKey(m.ref))
        \/ i = f + 1 /\ Len(c) = 1 /\ t[i] = p
        \/ i = f + Len(c) + 1 /\ Len(d) = 1 /\ t[i] = q
    BY EachOfTodo
  <2> HIDE DEF t, f, c, d, p, q
  <2> QED BY <2>1, KindsOfHits
<1>7. seen' = seen \cup new /\ spent' = spent + n
  BY DEF Counts
<1>8. n \in Nat /\ n <= Len(t) /\ Len(t) \in Nat /\ DOMAIN t = 1 .. Len(t)
  BY <1>1
<1> HIDE DEF t, f, c, d, p, q, lc, ld
<1>9. seen' \subseteq seen \cup P \cup Q
  BY <1>6, <1>7, <1>8
<1>10. IsFiniteSet(seen \cup P) /\ Cardinality(seen \cup P) = Cardinality(seen) + lc
       /\ Cardinality(seen \cup P) <= SeenMax
  <2>1. CASE lc = 1
    <3>1. P = {p}
      BY <2>1
    <3>2. IsFiniteSet(seen \cup {p}) /\ Cardinality(seen \cup {p}) = Cardinality(seen) + 1
      BY <1>0, <1>5, <2>1, FS_AddElement
    <3>3. Cardinality(seen \cup {p}) <= SeenMax
      BY <1>0, <1>5, <2>1, <3>2
    <3>4. seen \cup P = seen \cup {p}
      BY <3>1
    <3> HIDE DEF P
    <3> QED BY <2>1, <3>2, <3>3, <3>4
  <2>2. CASE lc = 0
    <3>1. seen \cup P = seen
      BY <2>2
    <3> QED BY <1>0, <2>2, <3>1
  <2> QED BY <1>1, <2>1, <2>2
<1>11. IsFiniteSet(seen \cup P \cup Q) /\ Cardinality(seen \cup P \cup Q) = Cardinality(seen) + lc + ld
       /\ Cardinality(seen \cup P \cup Q) <= SeenMax
  <2> DEFINE known == seen \cup P
  <2>0. IsFiniteSet(known) /\ Cardinality(known) = Cardinality(seen) + lc /\ Cardinality(known) <= SeenMax
        /\ (ld = 1 => q \notin known /\ Cardinality(known) < SeenMax)
    BY <1>5, <1>10
  <2> HIDE DEF known
  <2>1. CASE ld = 1
    <3>1. Q = {q}
      BY <2>1
    <3>2. IsFiniteSet(known \cup Q) /\ Cardinality(known \cup Q) = Cardinality(known) + 1
      BY <2>0, <2>1, <3>1, FS_AddElement
    <3>3. Cardinality(known \cup Q) = Cardinality(seen) + lc + ld /\ Cardinality(known \cup Q) <= SeenMax
      BY <1>0, <1>1, <2>0, <2>1, <3>2
    <3> QED BY <3>2, <3>3 DEF known
  <2>2. CASE ld = 0
    <3>1. known \cup Q = known
      BY <2>2
    <3>2. Cardinality(known) = Cardinality(seen) + lc + ld
      BY <1>0, <1>1, <2>0, <2>2
    <3> QED BY <2>0, <3>1, <3>2 DEF known
  <2> QED BY <1>1, <2>1, <2>2
<1>12. /\ IsFiniteSet(seen') /\ Cardinality(seen') \in Nat
       /\ Cardinality(seen') <= SeenMax /\ Cardinality(seen') >= Cardinality(seen)
  <2> DEFINE all == seen \cup P \cup Q
  <2>1. seen' \in SUBSET all /\ seen \in SUBSET seen' /\ IsFiniteSet(all) /\ Cardinality(all) <= SeenMax
    BY <1>7, <1>9, <1>11
  <2> HIDE DEF all
  <2>2. IsFiniteSet(seen') /\ Cardinality(seen') <= Cardinality(all)
    BY <2>1, FS_Subset
  <2>3. Cardinality(seen) <= Cardinality(seen')
    BY <2>1, <2>2, FS_Subset
  <2>4. Cardinality(all) \in Nat /\ Cardinality(seen') \in Nat
    BY <2>1, <2>2, FS_CardinalityType
  <2> QED BY <1>0, <2>1, <2>2, <2>3, <2>4
<1>13. n > f => Cardinality(seen') >= Cardinality(seen) + (n - f)
  <2> SUFFICES ASSUME n > f PROVE Cardinality(seen') >= Cardinality(seen) + (n - f)
    OBVIOUS
  <2>1. P \subseteq seen'
    <3> SUFFICES ASSUME lc = 1 PROVE p \in seen'
      OBVIOUS
    <3>1. f + 1 \in DOMAIN t \cap 1 .. n + 1 /\ t[f + 1] = p
      BY <1>1, <1>8
    <3> QED BY <1>2, <1>7, <3>1
  <2>2. ASSUME n > f + lc
        PROVE  Q \subseteq seen'
    <3> SUFFICES ASSUME ld = 1 PROVE q \in seen'
      OBVIOUS
    <3>1. f + lc + 1 \in DOMAIN t \cap 1 .. n + 1 /\ t[f + lc + 1] = q
      BY <1>1, <1>8, <2>2
    <3> QED BY <1>2, <1>7, <3>1
  <2>3. CASE n > f + lc
    <3>1. seen \cup P \cup Q \in SUBSET seen'
      BY <1>7, <2>1, <2>2, <2>3
    <3>2. Cardinality(seen') >= Cardinality(seen) + lc + ld
      BY <1>11, <1>12, <3>1, FS_Subset
    <3> QED BY <1>0, <1>1, <1>8, <1>12, <3>2
  <2>4. CASE ~(n > f + lc)
    <3>1. seen \cup P \in SUBSET seen'
      BY <1>7, <2>1
    <3>2. Cardinality(seen') >= Cardinality(seen) + lc
      BY <1>10, <1>12, <3>1, FS_Subset
    <3> QED BY <1>0, <1>1, <1>8, <1>12, <2>4, <3>2
  <2> QED BY <2>3, <2>4
<1>14. spent' \in Nat
  BY <1>0, <1>7, <1>8
<1>15. spent' <= Cardinality(seen') + If(counted \/ m.first, 2) + If(mined, 1)
  <2> DEFINE cs == Cardinality(seen)
             cn == Cardinality(seen')
  <2>0. cs \in Nat /\ cn \in Nat /\ cn >= cs /\ (n > f => cn >= cs + (n - f))
    BY <1>0, <1>12, <1>13
  <2>1. If(counted, 2) \in Nat /\ If(counted \/ m.first, 2) \in Nat /\ If(mined, 1) \in Nat
    BY DEF If
  <2>2. f > 0 => If(counted, 2) = 0 /\ If(counted \/ m.first, 2) = 2
    BY <1>3 DEF Fresh, If
  <2>3. If(counted \/ m.first, 2) >= If(counted, 2)
    BY DEF If
  <2>4. If(counted \/ m.first, 2) >= If(counted, 2) + f
    BY <1>1, <2>1, <2>2, <2>3
  <2>5. spent <= cs + If(counted, 2) + If(mined, 1)
    BY <1>0
  <2> HIDE DEF cs, cn
  <2>6. CASE n > f
    <3> DEFINE a == If(counted, 2)
               b == If(counted \/ m.first, 2)
               e == If(mined, 1)
    <3>1. a \in Nat /\ b \in Nat /\ e \in Nat /\ b >= a + f /\ spent <= cs + a + e
          /\ spent' = spent + n /\ cn >= cs + (n - f) /\ f \in Nat /\ n \in Nat /\ spent \in Nat
      BY <1>0, <1>1, <1>7, <1>8, <2>0, <2>1, <2>4, <2>5, <2>6
    <3> HIDE DEF a, b, e
    <3>2. spent' <= cn + b + e
      BY <2>0, <3>1
    <3> QED BY <3>2 DEF cn, b, e
  <2>7. CASE ~(n > f)
    <3> DEFINE a == If(counted, 2)
               b == If(counted \/ m.first, 2)
               e == If(mined, 1)
    <3>1. a \in Nat /\ b \in Nat /\ e \in Nat /\ b >= a + f /\ spent <= cs + a + e
          /\ spent' = spent + n /\ cn >= cs /\ f \in Nat /\ n \in Nat /\ spent \in Nat /\ n <= f
      BY <1>0, <1>1, <1>7, <1>8, <2>0, <2>1, <2>4, <2>5, <2>7
    <3> HIDE DEF a, b, e
    <3>2. spent' <= cn + b + e
      BY <2>0, <3>1
    <3> QED BY <3>2 DEF cn, b, e
  <2> QED BY <2>6, <2>7
<1>16. seen' \subseteq [kind : {"page", "listing"}, key : Paths]
  BY <1>0, <1>2, <1>9
<1> QED BY <1>12, <1>14, <1>15, <1>16

LEMMA ReadsOne ==
  ASSUME CountsIInv, wire # <<>>, wire' = Tail(wire), UNCHANGED <<open, pending>>
  PROVE  /\ Head(wire) \in Lines /\ wire' \in Seq(Lines)
         /\ open' => pending' = Nothing
         /\ ~open' => wire' = <<>>
         /\ \A i \in 2 .. Len(wire') : ~IsFirst(wire'[i])
         /\ ~FirstAhead'
         /\ IsFirst(Head(wire)) => FirstAhead
<1>1. /\ wire \in Seq(Lines) /\ open \in BOOLEAN
      /\ open => pending = Nothing
      /\ ~open => wire = <<>>
      /\ \A i \in 2 .. Len(wire) : ~IsFirst(wire[i])
  BY DEF CountsIInv, TrafficTypeOK
<1>2. /\ Head(wire) \in Lines /\ wire' \in Seq(Lines) /\ Len(wire) \in Nat \ {0}
      /\ Len(wire') = Len(wire) - 1
      /\ \A i \in 1 .. Len(wire') : wire'[i] = wire[i + 1]
  BY <1>1
<1>3. \A i \in 1 .. Len(wire') : ~IsFirst(wire'[i])
  <2> TAKE i \in 1 .. Len(wire')
  <2>1. i + 1 \in 2 .. Len(wire)
    BY <1>2
  <2> QED BY <1>1, <1>2, <2>1
<1>4. open /\ pending = Nothing
  BY <1>1
<1>5. wire' # <<>> => ~IsFirst(Head(wire'))
  <2> SUFFICES ASSUME wire' # <<>> PROVE ~IsFirst(Head(wire'))
    OBVIOUS
  <2>1. 1 \in 1 .. Len(wire') /\ Head(wire') = wire'[1]
    BY <1>2
  <2> QED BY <1>3, <2>1
<1>6. \A i \in 2 .. Len(wire') : ~IsFirst(wire'[i])
  BY <1>2, <1>3
<1>7. ~FirstAhead'
  BY <1>4, <1>5 DEF FirstAhead
<1> QED BY <1>2, <1>4, <1>6, <1>7 DEF FirstAhead

LEMMA AdmittedAreKeys ==
  ASSUME TrafficTypeOK, NEW host \in Hosts
  PROVE  Admitted(host) \subseteq RefKeys
BY DEF Admitted, SeenToday, RefKeysToday, RefKeys, TrafficTypeOK

LEMMA ViewKeepsCounts ==
  ASSUME CountsIInv, CountView
  PROVE  CountsIInv'
<1> DEFINE m == Head(wire)
<1>0. /\ wire # <<>> /\ m.t = "view" /\ wire' = Tail(wire)
      /\ UNCHANGED <<day, blind, loads, path, open, pending, mined>>
  BY DEF CountView, Reads
<1>1. /\ m \in Lines /\ wire' \in Seq(Lines)
      /\ open' => pending' = Nothing
      /\ ~open' => wire' = <<>>
      /\ \A i \in 2 .. Len(wire') : ~IsFirst(wire'[i])
      /\ ~FirstAhead'
      /\ IsFirst(m) => FirstAhead
  BY <1>0, ReadsOne
<1>2. m \in Views
  BY <1>0, <1>1, LineTypes
<1> HIDE DEF m
<1>a. PICK exists \in BOOLEAN :
        \E n \in 0 .. Len(Todo(m, exists)) :
          /\ Counts(Todo(m, exists), n)
          /\ counted' = (counted \/ m.first)
          /\ IF Referred(m) /\ n > 0
             THEN refDay' = day /\ refSeen' = Admitted(m.ref)
             ELSE UNCHANGED <<refDay, refSeen>>
  BY DEF CountView, Todo, m
<1>3. PICK n \in 0 .. Len(Todo(m, exists)) :
        /\ Counts(Todo(m, exists), n)
        /\ counted' = (counted \/ m.first)
        /\ IF Referred(m) /\ n > 0
           THEN refDay' = day /\ refSeen' = Admitted(m.ref)
           ELSE UNCHANGED <<refDay, refSeen>>
  BY <1>a
<1>4. /\ visits' = visits + If(n > 0 /\ Fresh(m), 1)
      /\ refs' \in [Days -> [RefKeys -> Nat]]
      /\ IsFiniteSet(Referrals') /\ Cardinality(Referrals') <= visits'
  BY <1>2, <1>3, ViewCounts
<1>5. /\ seen' \subseteq [kind : {"page", "listing"}, key : Paths]
      /\ IsFiniteSet(seen') /\ Cardinality(seen') <= SeenMax
      /\ spent' \in Nat
      /\ spent' <= Cardinality(seen') + If(counted \/ m.first, 2) + If(mined, 1)
  BY <1>2, <1>3, ViewSpends
<1>6. /\ visits \in Nat /\ loads \in 0 .. MaxLoads /\ MaxLoads \in Nat
      /\ visits + If(FirstAhead, 1) <= loads
  BY TrafficAssumption DEF CountsIInv, TrafficTypeOK
<1>7. visits' \in Nat /\ visits' + If(FirstAhead, 1)' <= loads'
  <2>1. n > 0 /\ Fresh(m) => FirstAhead
    BY <1>0, <1>1 DEF Fresh, IsFirst, m
  <2> QED BY <1>0, <1>1, <1>4, <1>6, <2>1 DEF If
<1>8. refDay' \in Days \cup {-1} /\ refSeen' \subseteq RefKeys
  <2>1. refDay \in Days \cup {-1} /\ refSeen \subseteq RefKeys /\ day \in Days /\ TrafficTypeOK
    BY DEF CountsIInv, TrafficTypeOK
  <2>2. CASE Referred(m) /\ n > 0
    <3>1. m.ref \in Hosts
      BY <1>2, <2>2 DEF Referred, Views
    <3> QED BY <1>3, <2>1, <2>2, <3>1, AdmittedAreKeys
  <2> QED BY <1>3, <2>1, <2>2
<1>9. counted' \in BOOLEAN /\ spent' <= Cardinality(seen') + If(counted', 2) + If(mined', 1)
  <2>1. m.first \in BOOLEAN
    BY <1>2 DEF Views
  <2> QED BY <1>0, <1>3, <1>5, <2>1, Zenon DEF CountsIInv, TrafficTypeOK
<1>10. TrafficTypeOK'
  BY <1>0, <1>1, <1>4, <1>5, <1>7, <1>8, <1>9 DEF CountsIInv, TrafficTypeOK
<1> QED BY <1>0, <1>1, <1>4, <1>5, <1>7, <1>9, <1>10 DEF CountsIInv

LEMMA BlindKeepsCounts ==
  ASSUME CountsIInv, CountBlindly
  PROVE  CountsIInv'
<1> DEFINE m == Head(wire)
           t == Visit(m)
<1>0. /\ wire # <<>> /\ m.t = "view" /\ wire' = Tail(wire) /\ Referred(m) /\ Counts(t, 1)
      /\ counted' = TRUE /\ refDay' = day /\ blind' = TRUE
      /\ UNCHANGED <<day, refSeen, loads, path, open, pending, mined>>
  BY DEF CountBlindly, Reads
<1>1. /\ m \in Lines /\ wire' \in Seq(Lines)
      /\ open' => pending' = Nothing
      /\ ~open' => wire' = <<>>
      /\ \A i \in 2 .. Len(wire') : ~IsFirst(wire'[i])
      /\ ~FirstAhead'
      /\ IsFirst(m) => FirstAhead
  BY <1>0, ReadsOne
<1>2. Fresh(m) /\ ~counted /\ m.first /\ IsFirst(m)
  BY <1>0 DEF Referred, Fresh, IsFirst
<1>3. t = <<AVisit>>
  BY <1>2, Zenon DEF Visit, AVisit
<1> HIDE DEF m, t
<1>4. {t[i] : i \in 1 .. 1} = {AVisit} /\ {t[i] : i \in DOMAIN t \cap 1 .. 1 + 1} = {AVisit}
  BY <1>3
<1>5. /\ visits' = visits + Cardinality({k \in {AVisit} : k.kind = "visit"})
      /\ seen' = seen \cup {k \in {AVisit} : k.kind \in {"page", "listing"}}
      /\ spent' = spent + 1
  BY <1>0, <1>4, Zenon DEF Counts
<1>6. /\ {k \in {AVisit} : k.kind = "visit"} = {AVisit}
      /\ {k \in {AVisit} : k.kind \in {"page", "listing"}} = {}
  BY KindsOfHits
<1>7. visits' = visits + 1 /\ seen' = seen
  BY <1>5, <1>6, FS_Singleton
<1>8. refs' = refs
  <2>1. refs \in [Days -> [RefKeys -> Nat]] /\ day \in Days
    BY DEF CountsIInv, TrafficTypeOK
  <2>2. t \in Seq({AVisit}) /\ 1 \in 0 .. Len(t)
    BY <1>3
  <2>3. \A h \in RefKeys : Hit("ref", h) \notin {AVisit}
    BY KindsOfHits
  <2>4. /\ refs' \in [Days -> [RefKeys -> Nat]]
        /\ \A d \in Days : d # day => refs'[d] = refs[d]
        /\ \A h \in RefKeys : refs'[day][h] = refs[day][h]
    BY <1>0, <2>1, <2>2, <2>3, CountsOf
  <2> QED BY <2>1, <2>4
<1>9. Referrals' = Referrals
  BY <1>8, SameReferrals
<1>10. /\ visits \in Nat /\ loads \in 0 .. MaxLoads /\ MaxLoads \in Nat /\ spent \in Nat
       /\ visits + If(FirstAhead, 1) <= loads
       /\ IsFiniteSet(Referrals) /\ Cardinality(Referrals) <= visits
       /\ IsFiniteSet(seen) /\ Cardinality(seen) <= SeenMax
       /\ spent <= Cardinality(seen) + If(counted, 2) + If(mined, 1)
       /\ mined \in BOOLEAN
  BY TrafficAssumption DEF CountsIInv, TrafficTypeOK
<1>11. Cardinality(Referrals) \in Nat /\ Cardinality(seen) \in Nat
  BY <1>10, FS_CardinalityType
<1>12. visits' \in Nat /\ visits' + If(FirstAhead, 1)' <= loads' /\ Cardinality(Referrals') <= visits'
  BY <1>0, <1>1, <1>2, <1>7, <1>9, <1>10, <1>11 DEF If
<1>13. spent' \in Nat /\ spent' <= Cardinality(seen') + If(counted', 2) + If(mined', 1)
  <2>1. If(counted, 2) = 0 /\ If(counted', 2) = 2 /\ If(mined', 1) = If(mined, 1) /\ If(mined, 1) \in Nat
    BY <1>0, <1>2 DEF If
  <2>2. seen' = seen /\ spent' = spent + 1
    BY <1>5, <1>7
  <2> QED BY <1>10, <1>11, <2>1, <2>2
<1>14. TrafficTypeOK'
  BY <1>0, <1>1, <1>7, <1>8, <1>12, <1>13 DEF CountsIInv, TrafficTypeOK
<1> QED BY <1>0, <1>1, <1>7, <1>9, <1>10, <1>12, <1>13, <1>14 DEF CountsIInv

LEMMA NothingFirst == <<>> \in Seq(Lines) /\ \A i \in 2 .. Len(<<>>) : ~IsFirst(<<>>[i])
<1>1. Len(<<>>) = 0
  OBVIOUS
<1> QED BY <1>1

\* What the page does, and a session, write nothing of what is counted of a view.
LEMMA NextCounts ==
  ASSUME CountsIInv, [TrafficNext]_trafficVars
  PROVE  CountsIInv'
<1> DEFINE PageOK ==
             /\ loads' \in 0 .. MaxLoads /\ path' \in Paths \cup {Nothing} /\ open' \in BOOLEAN
             /\ pending' \in Views \cup {Nothing} /\ wire' \in Seq(Lines)
             /\ open' => pending' = Nothing
             /\ ~open' => wire' = <<>>
             /\ \A i \in 2 .. Len(wire') : ~IsFirst(wire'[i])
             /\ visits + If(FirstAhead, 1)' <= loads'
           ClientOK ==
             /\ counted' \in BOOLEAN /\ mined' \in BOOLEAN /\ spent' \in Nat
             /\ seen' \subseteq [kind : {"page", "listing"}, key : Paths]
             /\ IsFiniteSet(seen') /\ Cardinality(seen') <= SeenMax
             /\ spent' <= Cardinality(seen') + If(counted', 2) + If(mined', 1)
           HubOK ==
             /\ day' \in Days /\ refDay' \in Days \cup {-1} /\ refSeen' \subseteq RefKeys
             /\ blind' \in BOOLEAN
<1>0. /\ loads \in 0 .. MaxLoads /\ MaxLoads \in Nat /\ path \in Paths \cup {Nothing}
      /\ open \in BOOLEAN /\ pending \in Views \cup {Nothing} /\ wire \in Seq(Lines) /\ Len(wire) \in Nat
      /\ open => pending = Nothing
      /\ ~open => wire = <<>>
      /\ \A i \in 2 .. Len(wire) : ~IsFirst(wire[i])
      /\ visits \in Nat /\ visits + If(FirstAhead, 1) <= loads
  BY TrafficAssumption DEF CountsIInv, TrafficTypeOK
<1>1. /\ counted \in BOOLEAN /\ mined \in BOOLEAN /\ spent \in Nat /\ SeenMax \in Nat
      /\ IsFiniteSet(seen) /\ Cardinality(seen) <= SeenMax /\ Cardinality(seen) \in Nat
      /\ spent <= Cardinality(seen) + If(counted, 2) + If(mined, 1)
  BY TrafficAssumption, FS_CardinalityType DEF CountsIInv, TrafficTypeOK
<1>2. ASSUME PageOK, ClientOK, HubOK, UNCHANGED <<visits, refs>>
      PROVE  CountsIInv'
  <2>1. TrafficTypeOK'
    BY <1>2 DEF CountsIInv, TrafficTypeOK
  <2>2. Referrals' = Referrals
    BY <1>2, SameReferrals
  <2> QED BY <1>2, <2>1, <2>2 DEF CountsIInv
<1>3. UNCHANGED pageVars => PageOK
  BY <1>0 DEF pageVars, If, FirstAhead
<1>4. UNCHANGED clientVars => ClientOK
  BY <1>1 DEF clientVars, CountsIInv, TrafficTypeOK
<1>5. UNCHANGED <<day, hubVars>> => HubOK
  BY DEF hubVars, CountsIInv, TrafficTypeOK
<1>6. Unknown => ClientOK
  <2> SUFFICES ASSUME Unknown PROVE ClientOK
    OBVIOUS
  <2>1. seen' = {} /\ Cardinality({}) = 0 /\ IsFiniteSet({})
    BY FS_EmptySet DEF Unknown
  <2>2. Cardinality(seen') = 0 /\ If(counted', 2) = 0 /\ If(mined', 1) = 0
    BY <2>1 DEF Unknown, If
  <2>3. spent' <= Cardinality(seen') + If(counted', 2) + If(mined', 1) /\ Cardinality(seen') <= SeenMax
    BY <1>1, <2>2 DEF Unknown
  <2> QED BY <2>1, <2>3 DEF Unknown
<1>7. open' = FALSE /\ wire' = <<>> /\ UNCHANGED <<loads, path, pending>> => PageOK
  <2> SUFFICES ASSUME open' = FALSE, wire' = <<>>, UNCHANGED <<loads, path, pending>> PROVE PageOK
    OBVIOUS
  <2>1. wire' \in Seq(Lines) /\ \A i \in 2 .. Len(wire') : ~IsFirst(wire'[i])
    BY NothingFirst
  <2>2. FirstAhead' => FirstAhead
    BY DEF FirstAhead
  <2>3. visits + If(FirstAhead, 1)' <= loads'
    BY <1>0, <2>2 DEF If
  <2> QED BY <1>0, <2>1, <2>3
<1>8. ASSUME NEW x \in Lines, open, ~IsFirst(x), wire' = Append(wire, x), path' \in Paths \cup {Nothing},
             UNCHANGED <<loads, open, pending>>
      PROVE  PageOK
  <2>1. /\ wire' \in Seq(Lines) /\ Len(wire') = Len(wire) + 1 /\ wire'[Len(wire) + 1] = x
        /\ \A i \in 1 .. Len(wire) : wire'[i] = wire[i]
    BY <1>0, <1>8
  <2>2. \A i \in 2 .. Len(wire') : ~IsFirst(wire'[i])
    BY <1>0, <1>8, <2>1
  <2>3. FirstAhead' => FirstAhead
    <3>1. wire = <<>> => Head(wire') = x
      BY <1>0, <1>8
    <3>2. wire # <<>> => Head(wire') = Head(wire)
      BY <1>0, <1>8
    <3> QED BY <1>0, <1>8, <3>1, <3>2 DEF FirstAhead
  <2> QED BY <1>0, <1>8, <2>1, <2>2, <2>3 DEF If
<1> HIDE DEF PageOK, ClientOK, HubOK
<1>9. ASSUME NEW p \in Paths, NEW ref \in Hosts \cup {Nothing}, Load(p, ref)
      PROVE  CountsIInv'
  <2>1. /\ loads' = loads + 1 /\ path' = p /\ pending' = View(p, TRUE, ref) /\ open' = FALSE
        /\ wire' = <<>> /\ Unknown /\ UNCHANGED <<day, hubVars>> /\ loads < MaxLoads
    BY <1>9 DEF Load
  <2>2. visits + If(FirstAhead, 1)' <= loads' /\ loads' \in 0 .. MaxLoads
    BY <1>0, <2>1 DEF If
  <2>3. wire' \in Seq(Lines) /\ \A i \in 2 .. Len(wire') : ~IsFirst(wire'[i])
    BY <2>1, NothingFirst
  <2>4. pending' \in Views
    BY <2>1, LineTypes
  <2>5. PageOK
    BY <2>1, <2>2, <2>3, <2>4 DEF PageOK
  <2> QED BY <1>2, <1>5, <1>6, <2>1, <2>5 DEF hubVars
<1>10. ASSUME NEW p \in Paths, Navigate(p)
       PROVE  CountsIInv'
  <2> DEFINE v == View(p, FALSE, Nothing)
  <2>1. /\ path' = p /\ UNCHANGED <<day, hubVars, loads, open, clientVars>>
        /\ IF open THEN wire' = Append(wire, v) /\ UNCHANGED pending
                   ELSE pending' = v /\ UNCHANGED wire
    BY <1>10 DEF Navigate
  <2>2. v \in Views /\ v \in Lines /\ ~IsFirst(v)
    BY LineTypes DEF IsFirst, View
  <2> HIDE DEF v
  <2>3. CASE open
    BY <1>2, <1>4, <1>5, <1>8, <2>1, <2>2, <2>3 DEF hubVars
  <2>4. CASE ~open
    <3>1. pending' = v /\ wire' = <<>> /\ wire' \in Seq(Lines) /\ Len(wire') = 0
      BY <1>0, <2>1, <2>4
    <3>2. ~FirstAhead'
      BY <2>2, <3>1 DEF FirstAhead
    <3>3. visits + If(FirstAhead, 1)' <= loads'
      BY <1>0, <2>1, <3>2 DEF If
    <3>4. PageOK
      BY <1>0, <2>1, <2>2, <2>4, <3>1, <3>3 DEF PageOK
    <3> QED BY <1>2, <1>4, <1>5, <2>1, <3>4 DEF hubVars
  <2> QED BY <1>0, <2>3, <2>4
<1>11. CASE Open
  <2>1. /\ ~open /\ open' = TRUE /\ pending' = Nothing
        /\ wire' = IF pending = Nothing THEN <<>> ELSE <<pending>>
        /\ UNCHANGED <<day, hubVars, loads, path, clientVars>>
    BY <1>11 DEF Open
  <2>2. /\ wire' \in Seq(Lines) /\ Len(wire') <= 1 /\ Len(wire') \in Nat
        /\ wire' # <<>> => pending # Nothing /\ Head(wire') = pending
    <3>1. CASE pending = Nothing
      BY <2>1, <3>1
    <3>2. CASE pending # Nothing
      <4>1. pending \in Lines /\ wire' = <<pending>>
        BY <1>0, <2>1, <3>2, LineTypes
      <4> QED BY <3>2, <4>1
    <3> QED BY <3>1, <3>2
  <2>3. FirstAhead' => FirstAhead
    BY <2>1, <2>2 DEF FirstAhead
  <2>4. visits + If(FirstAhead, 1)' <= loads'
    BY <1>0, <2>1, <2>3 DEF If
  <2>5. \A i \in 2 .. Len(wire') : ~IsFirst(wire'[i])
    BY <2>2
  <2>6. PageOK
    BY <1>0, <2>1, <2>2, <2>4, <2>5 DEF PageOK
  <2> QED BY <1>2, <1>4, <1>5, <2>1, <2>6 DEF hubVars
<1>12. CASE Mine
  <2>1. /\ open /\ wire' = Append(wire, [t |-> "mine"])
        /\ UNCHANGED <<day, hubVars, loads, path, open, pending, clientVars>>
    BY <1>12 DEF Mine
  <2>2. [t |-> "mine"] \in Lines /\ ~IsFirst([t |-> "mine"])
    BY LineTypes DEF IsFirst
  <2>3. PageOK
    BY <1>0, <1>8, <2>1, <2>2
  <2> QED BY <1>2, <1>4, <1>5, <2>1, <2>3 DEF hubVars
<1>13. CASE Close
  BY <1>2, <1>5, <1>6, <1>7, <1>13 DEF Close, hubVars
<1>14. CASE CountMine
  <2>1. /\ wire # <<>> /\ wire' = Tail(wire)
        /\ UNCHANGED <<day, hubVars, loads, path, open, pending, counted, seen>>
        /\ \/ UNCHANGED <<mined, spent>>
           \/ ~mined /\ mined' = TRUE /\ spent' \in {spent, spent + 1}
    BY <1>14 DEF CountMine, Reads
  <2>2. /\ wire' \in Seq(Lines)
        /\ open' => pending' = Nothing
        /\ ~open' => wire' = <<>>
        /\ \A i \in 2 .. Len(wire') : ~IsFirst(wire'[i])
        /\ ~FirstAhead'
    BY <2>1, ReadsOne
  <2>3. visits + If(FirstAhead, 1)' <= loads'
    BY <1>0, <2>1, <2>2 DEF If
  <2>4. PageOK
    BY <1>0, <2>1, <2>2, <2>3 DEF PageOK
  <2>5. ClientOK
    <3>1. CASE UNCHANGED <<mined, spent>>
      BY <1>4, <2>1, <3>1 DEF clientVars
    <3>2. CASE ~mined /\ mined' = TRUE /\ spent' \in {spent, spent + 1}
      <4>1. If(mined, 1) = 0 /\ If(mined', 1) = 1 /\ If(counted', 2) = If(counted, 2) /\ If(counted, 2) \in Nat
        BY <2>1, <3>2 DEF If
      <4>2. spent' \in Nat /\ spent' <= spent + 1
        BY <1>1, <3>2
      <4>3. seen' = seen /\ counted' = counted
        BY <2>1
      <4>4. spent' <= Cardinality(seen') + If(counted', 2) + If(mined', 1)
        BY <1>1, <4>1, <4>2, <4>3
      <4>5. seen' \subseteq [kind : {"page", "listing"}, key : Paths]
        BY <4>3 DEF CountsIInv, TrafficTypeOK
      <4> QED BY <1>1, <3>2, <4>2, <4>3, <4>4, <4>5 DEF ClientOK
    <3> QED BY <2>1, <3>1, <3>2
  <2> QED BY <1>2, <1>5, <2>1, <2>4, <2>5 DEF hubVars
<1>15. CASE Midnight
  <2>1. UNCHANGED <<visits, refs, refDay, refSeen, pageVars, clientVars>> /\ day' \in Days /\ blind' = FALSE
    BY <1>15, TrafficAssumption DEF Midnight, CountsIInv, TrafficTypeOK, Days
  <2>2. HubOK
    BY <2>1 DEF HubOK, CountsIInv, TrafficTypeOK
  <2> QED BY <1>2, <1>3, <1>4, <2>1, <2>2
<1>16. CASE ServerDies
  <2>1. HubOK
    BY <1>16 DEF HubOK, ServerDies, CountsIInv, TrafficTypeOK
  <2> QED BY <1>2, <1>6, <1>7, <1>16, <2>1 DEF ServerDies
<1>17. CASE ServerStarts \/ UNCHANGED trafficVars
  <2>1. UNCHANGED <<day, hubVars, pageVars, clientVars>>
    BY <1>17 DEF ServerStarts, trafficVars
  <2> QED BY <1>2, <1>3, <1>4, <1>5, <2>1 DEF hubVars
<1> QED BY <1>9, <1>10, <1>11, <1>12, <1>13, <1>14, <1>15, <1>16, <1>17, ViewKeepsCounts, BlindKeepsCounts
        DEF TrafficNext, Visitor

\* A visit is a page load and a referral is a visit, whatever was lost, sent again
\* or restarted in between; and what a socket writes is bounded by SeenMax.
THEOREM EveryCountIsBounded == TrafficSpec => []CountsAreBounded
<1>1. TrafficInit => CountsIInv
  <2> SUFFICES ASSUME TrafficInit PROVE CountsIInv
    OBVIOUS
  <2>1. /\ day = 0 /\ visits = 0 /\ refs = [d \in Days |-> [h \in RefKeys |-> 0]]
        /\ refDay = -1 /\ refSeen = {} /\ blind = FALSE
        /\ loads = 0 /\ path = Nothing /\ open = FALSE /\ pending = Nothing /\ wire = <<>>
        /\ counted = FALSE /\ mined = FALSE /\ seen = {} /\ spent = 0
    BY DEF TrafficInit
  <2>2. Referrals = {}
    BY <2>1, ReferralIs
  <2>3. IsFiniteSet({}) /\ Cardinality({}) = 0 /\ SeenMax \in Nat /\ MaxLoads \in Nat
    BY TrafficAssumption, FS_EmptySet
  <2>4. wire \in Seq(Lines) /\ Len(wire) = 0 /\ ~FirstAhead
    BY <2>1 DEF FirstAhead
  <2>5. TrafficTypeOK
    <3>1. refs \in [Days -> [RefKeys -> Nat]]
      BY <2>1
    <3>2. wire \in Seq(Lines) /\ loads \in 0 .. MaxLoads
      BY <2>1, <2>3, <2>4
    <3> QED BY <2>1, <3>1, <3>2, DaysAreNumbers DEF TrafficTypeOK
  <2> QED BY <2>1, <2>2, <2>3, <2>4, <2>5 DEF CountsIInv, If
<1>2. CountsIInv /\ [TrafficNext]_trafficVars => CountsIInv'
  BY NextCounts
<1>3. CountsIInv => CountsAreBounded
  <2> SUFFICES ASSUME CountsIInv PROVE CountsAreBounded
    OBVIOUS
  <2>1. /\ visits \in Nat /\ spent \in Nat /\ SeenMax \in Nat /\ Cardinality(seen) \in Nat /\ loads \in Nat
    BY FS_CardinalityType, TrafficAssumption DEF CountsIInv, TrafficTypeOK
  <2>2. If(FirstAhead, 1) \in 0 .. 1 /\ If(counted, 2) \in 0 .. 2 /\ If(mined, 1) \in 0 .. 1
    BY DEF If
  <2>3. /\ visits + If(FirstAhead, 1) <= loads /\ Cardinality(seen) <= SeenMax
        /\ spent <= Cardinality(seen) + If(counted, 2) + If(mined, 1)
    BY DEF CountsIInv
  <2>4. visits <= loads /\ spent <= SeenMax + 3
    BY <2>1, <2>2, <2>3
  <2>5. RefTotal = Cardinality(Referrals)
    BY DEF RefTotal, Referrals
  <2> QED BY <2>4, <2>5 DEF CountsAreBounded, CountsIInv
<1> QED BY <1>1, <1>2, <1>3, PTL DEF TrafficSpec
=============================================================================

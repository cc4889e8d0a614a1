----------------------------- MODULE HubProofs ------------------------------
(***************************************************************************)
(* The hub, proved for every number of visitors, sockets, listings and     *)
(* slots, in three parts.                                                  *)
(*                                                                         *)
(* The first is about Placement: the inductive invariant is TypeOK and     *)
(* Seating, that is, the two sides of a seat agree, every slot is in one   *)
(* place, a timer runs exactly where a socket is empty, and a closed       *)
(* socket holds no stack (so that the slots returned to it are none).  The *)
(* argument is one step of stopMining (AfterLeaving), one of startMining   *)
(* (SeatPreserves), and a frame for everything else.                       *)
(*                                                                         *)
(* The second is about Hub: its every step is a step of Placement or       *)
(* leaves the seats alone, so everything proved of seats and slots holds   *)
(* with jobs and shares in play.  From there, credit: what is waiting to   *)
(* be written is owed to listings that exist.                              *)
(*                                                                         *)
(* The third is about Site: the hub beside the ledger is a ledger, so what *)
(* is proved of Ledger holds there, and what the board shows is followed   *)
(* from the pool's answer to the row.                                      *)
(***************************************************************************)
EXTENDS Site, FiniteSetTheorems, SequenceTheorems, TLAPS

-----------------------------------------------------------------------------
(* Placement: seats, slots and capacity.                                   *)

\* SlotLedger for one socket: its stack f, its miners M, their slots sl.
Balanced(f, M, sl) ==
  /\ IsInjective(f)
  /\ \A c \in M : sl[c] \notin Range(f)
  /\ \A c, d \in M : sl[c] = sl[d] => c = d
  /\ Slots = Range(f) \cup {sl[c] : c \in M}

\* The community module's SetToSeq lists every element of a finite set once.
LEMMA SetToSeqFacts ==
  ASSUME NEW S, IsFiniteSet(S)
  PROVE  /\ SetToSeq(S) \in Seq(S)
         /\ IsInjective(SetToSeq(S))
         /\ Range(SetToSeq(S)) = S
<1> DEFINE n == Cardinality(S)
           q == SetToSeq(S)
<1>1. n \in Nat /\ \E f \in [1 .. n -> S] : IsInjective(f)
  BY FS_CardinalityType DEF ExistsBijection, Bijection, Injection
<1>2. q \in [1 .. n -> S] /\ IsInjective(q)
  <2> HIDE DEF n
  <2> QED BY <1>1 DEF SetToSeq, n
<1>3. q \in Surjection(1 .. n, S)
  <2>1. q \in Injection(1 .. n, S)
    BY <1>2 DEF Injection
  <2>2. Cardinality(1 .. n) = Cardinality(S)
    BY <1>1, FS_Interval
  <2> QED BY <2>1, <2>2, FS_Injection
<1>4. Range(q) = S
  BY <1>2, <1>3 DEF Surjection, Range
<1>5. q \in Seq(S)
  BY <1>1, <1>2
<1> QED BY <1>2, <1>4, <1>5

\* leaveConnection: miners L give their slots back, in the order q.
LEMMA LeaveBalanced ==
  ASSUME NEW f \in Seq(Slots), NEW M \in SUBSET Clients, NEW sl \in [Clients -> Slots],
         Balanced(f, M, sl), NEW L \in SUBSET M,
         NEW q \in Seq(L), IsInjective(q), Range(q) = L,
         NEW r, r = [i \in 1 .. Len(q) |-> sl[q[i]]]
  PROVE  /\ f \o r \in Seq(Slots)
         /\ Balanced(f \o r, M \ L, sl)
<1>1. r \in Seq(Slots) /\ Len(r) = Len(q) /\ \A i \in 1 .. Len(q) : q[i] \in L /\ r[i] = sl[q[i]]
  OBVIOUS
<1>2. f \o r \in Seq(Slots)
  BY <1>1
<1>3. /\ DOMAIN (f \o r) = 1 .. Len(f) + Len(q)
      /\ \A i \in 1 .. Len(f) : (f \o r)[i] = f[i]
      /\ \A i \in Len(f) + 1 .. Len(f) + Len(q) : (f \o r)[i] = sl[q[i - Len(f)]]
  BY <1>1
<1>4. Range(f \o r) = Range(f) \cup {sl[c] : c \in L}
  <2>1. ASSUME NEW i \in 1 .. Len(f) + Len(q)
        PROVE  (f \o r)[i] \in Range(f) \cup {sl[c] : c \in L}
    <3>1. CASE i <= Len(f)
      BY <3>1, <1>3 DEF Range
    <3>2. CASE i > Len(f)
      <4>1. i - Len(f) \in 1 .. Len(q)
        BY <3>2
      <4> QED BY <4>1, <3>2, <1>1, <1>3
    <3> QED BY <3>1, <3>2
  <2>2. \A x \in Range(f) : x \in Range(f \o r)
    <3> TAKE x \in Range(f)
    <3>1. PICK i \in 1 .. Len(f) : f[i] = x
      BY DEF Range
    <3>2. (f \o r)[i] = x /\ i \in 1 .. Len(f) + Len(q)
      BY <3>1, <1>3
    <3> QED BY <3>2, <1>3 DEF Range
  <2>3. \A c \in L : sl[c] \in Range(f \o r)
    <3> TAKE c \in L
    <3>1. PICK i \in 1 .. Len(q) : q[i] = c
      BY DEF Range
    <3>2. (f \o r)[i + Len(f)] = sl[c] /\ i + Len(f) \in 1 .. Len(f) + Len(q)
      BY <1>3, <3>1
    <3> QED BY <3>2, <1>3 DEF Range
  <2>4. Range(f \o r) \subseteq Range(f) \cup {sl[c] : c \in L}
    BY <1>3, <2>1 DEF Range
  <2> QED BY <2>2, <2>3, <2>4
<1>5. IsInjective(f \o r)
  <2> SUFFICES ASSUME NEW i \in 1 .. Len(f) + Len(q), NEW j \in 1 .. Len(f) + Len(q),
                      (f \o r)[i] = (f \o r)[j]
               PROVE  i = j
    BY <1>3 DEF IsInjective
  <2>1. CASE i <= Len(f) /\ j <= Len(f)
    BY <2>1, <1>3 DEF Balanced, IsInjective
  <2>2. CASE i > Len(f) /\ j > Len(f)
    <3>1. i - Len(f) \in 1 .. Len(q) /\ j - Len(f) \in 1 .. Len(q)
      BY <2>2
    <3>2. sl[q[i - Len(f)]] = sl[q[j - Len(f)]]
      BY <2>2, <1>3
    <3>3. q[i - Len(f)] = q[j - Len(f)]
      BY <3>1, <3>2, <1>1 DEF Balanced
    <3> QED BY <3>1, <3>3 DEF IsInjective
  <2>3. CASE i <= Len(f) /\ j > Len(f)
    <3>1. (f \o r)[i] \in Range(f) /\ j - Len(f) \in 1 .. Len(q)
      BY <2>3, <1>3 DEF Range
    <3> QED BY <3>1, <2>3, <1>1, <1>3 DEF Balanced
  <2>4. CASE i > Len(f) /\ j <= Len(f)
    <3>1. (f \o r)[j] \in Range(f) /\ i - Len(f) \in 1 .. Len(q)
      BY <2>4, <1>3 DEF Range
    <3> QED BY <3>1, <2>4, <1>1, <1>3 DEF Balanced
  <2> QED BY <2>1, <2>2, <2>3, <2>4
<1>6. \A c \in M \ L : sl[c] \notin Range(f \o r)
  BY <1>4 DEF Balanced
<1>7. Slots = Range(f \o r) \cup {sl[c] : c \in M \ L}
  BY <1>4 DEF Balanced
<1> QED BY <1>2, <1>5, <1>6, <1>7 DEF Balanced

\* joinConnection: the top of the stack goes to a client who held no seat here.
LEMMA TakeBalanced ==
  ASSUME NEW f \in Seq(Slots), f # <<>>, NEW M \in SUBSET Clients,
         NEW sl \in [Clients -> Slots], Balanced(f, M, sl),
         NEW c \in Clients, c \notin M
  PROVE  /\ Front(f) \in Seq(Slots)
         /\ Last(f) \in Slots
         /\ Balanced(Front(f), M \cup {c}, [sl EXCEPT ![c] = Last(f)])
<1> DEFINE g == Front(f)
           t == [sl EXCEPT ![c] = Last(f)]
<1>1. /\ Len(f) \in Nat \ {0} /\ Last(f) \in Slots /\ g \in Seq(Slots)
      /\ DOMAIN g = 1 .. Len(f) - 1 /\ \A i \in 1 .. Len(f) - 1 : g[i] = f[i]
  BY DEF Front, Last
<1>2. /\ Last(f) = f[Len(f)] /\ DOMAIN f = 1 .. Len(f)
      /\ \A i, j \in 1 .. Len(f) : f[i] = f[j] => i = j
  BY DEF Balanced, IsInjective, Last
<1> HIDE DEF g
<1>3. Range(f) = Range(g) \cup {Last(f)} /\ Last(f) \notin Range(g)
  <2>1. \A i \in 1 .. Len(f) : f[i] \in Range(g) \cup {Last(f)}
    <3> TAKE i \in 1 .. Len(f)
    <3>1. CASE i = Len(f)
      BY <3>1, <1>2
    <3>2. CASE i # Len(f)
      BY <3>2, <1>1 DEF Range
    <3> QED BY <3>1, <3>2
  <2>2. Last(f) \in Range(f) /\ Range(g) \subseteq Range(f)
    BY <1>1, <1>2 DEF Range
  <2>3. Last(f) \notin Range(g)
    BY <1>1, <1>2 DEF Range
  <2> QED BY <2>1, <2>2, <2>3, <1>2 DEF Range
<1>4. IsInjective(g)
  BY <1>1, <1>2 DEF IsInjective
<1>5. /\ t[c] = Last(f) /\ \A d \in M : t[d] = sl[d]
  OBVIOUS
<1>6. Last(f) \notin {sl[d] : d \in M}
  BY <1>3 DEF Balanced
<1> HIDE DEF t
<1>7. Balanced(g, M \cup {c}, t)
  <2>1. \A d \in M \cup {c} : t[d] \notin Range(g)
    BY <1>3, <1>5 DEF Balanced
  <2>2. \A d, e \in M \cup {c} : t[d] = t[e] => d = e
    BY <1>5, <1>6 DEF Balanced
  <2>3. Slots = Range(g) \cup {t[d] : d \in M \cup {c}}
    <3>1. {t[d] : d \in M \cup {c}} = {sl[d] : d \in M} \cup {Last(f)}
      BY <1>5
    <3> QED BY <3>1, <1>3 DEF Balanced
  <2> QED BY <1>4, <2>1, <2>2, <2>3 DEF Balanced
<1> QED BY <1>1, <1>7 DEF g, t

\* Only the slots of the socket's own miners matter to it.
LEMMA BalancedFrame ==
  ASSUME NEW f, NEW M, NEW s, NEW t, Balanced(f, M, s), \A c \in M : t[c] = s[c]
  PROVE  Balanced(f, M, t)
<1>1. {t[c] : c \in M} = {s[c] : c \in M}
  OBVIOUS
<1> QED BY <1>1 DEF Balanced

\* A socket just opened has every slot on its stack.
LEMMA FullBalanced ==
  ASSUME NEW sl
  PROVE  /\ FullStack \in Seq(Slots) /\ FullStack # <<>>
         /\ Balanced(FullStack, {}, sl)
<1> USE PlacementAssumption
<1>1. FullStack \in Seq(Slots) /\ Len(FullStack) = MinersPerConnection
  BY DEF FullStack, Slots
<1>2. IsInjective(FullStack)
  BY DEF FullStack, IsInjective
<1>3. Range(FullStack) = Slots
  <2>1. \A s \in Slots : s + 1 \in 1 .. MinersPerConnection /\ FullStack[s + 1] = s
    BY DEF FullStack, Slots
  <2>2. DOMAIN FullStack = 1 .. MinersPerConnection
    BY DEF FullStack
  <2>3. \A i \in 1 .. MinersPerConnection : FullStack[i] \in Slots
    BY DEF FullStack, Slots
  <2> QED BY <2>1, <2>2, <2>3 DEF Range
<1> QED BY <1>1, <1>2, <1>3 DEF Balanced

-----------------------------------------------------------------------------
(* What stopMining(L) leaves behind, stated on the operators it is made of *)

ClosedIsEmpty == \A k \in Conns \ connections : free[k] = <<>>

Seating == SeatsAgree /\ SlotLedger /\ EmptyHasTimer /\ ClosedIsEmpty

IInv == TypeOK /\ Seating

LEMMA SeatedFinite ==
  ASSUME NEW L \in SUBSET Clients, NEW k
  PROVE  IsFiniteSet(Seated(L, k)) /\ Seated(L, k) \in SUBSET L
<1>1. Seated(L, k) \in SUBSET Clients
  BY DEF Seated
<1> QED BY <1>1, PlacementAssumption, FS_Subset DEF Seated

\* Everything a socket looks like once L has left.
LEMMA AfterLeaving ==
  ASSUME IInv, NEW L \in SUBSET Clients, NEW k \in Conns
  PROVE  /\ MinersWithout(L)[k] \in SUBSET Clients
         /\ FreeWith(L)[k] \in Seq(Slots)
         /\ TimersAfter(L)[k] \in BOOLEAN
         /\ \A c \in Clients : c \in MinersWithout(L)[k] <=> (conn[c] = k /\ c \notin L)
         /\ k \in connections => Balanced(FreeWith(L)[k], MinersWithout(L)[k], slot)
         /\ k \notin connections => FreeWith(L)[k] = <<>>
         /\ TimersAfter(L)[k] <=> (k \in connections /\ MinersWithout(L)[k] = {})
<1> USE DEF IInv, Seating
<1> DEFINE S == Seated(L, k)
           q == SetToSeq(S)
           r == Returned(L, k)
<1>1. /\ q \in Seq(S) /\ IsInjective(q) /\ Range(q) = S
      /\ IsFiniteSet(S) /\ S \in SUBSET L
  BY SeatedFinite, SetToSeqFacts
<1>2. r = [i \in 1 .. Len(q) |-> slot[q[i]]]
  BY DEF Returned
<1>3. /\ MinersWithout(L)[k] = miners[k] \ S
      /\ FreeWith(L)[k] = free[k] \o r
      /\ TimersAfter(L)[k] = (idle[k] \/ (S # {} /\ miners[k] \subseteq S))
  BY DEF MinersWithout, FreeWith, TimersAfter
<1>4. /\ free[k] \in Seq(Slots) /\ miners[k] \in SUBSET Clients /\ idle[k] \in BOOLEAN
      /\ slot \in [Clients -> Slots]
  BY DEF TypeOK
<1>5. \A c \in Clients : (c \in miners[k] <=> conn[c] = k) /\ (c \in S <=> c \in L /\ conn[c] = k)
  BY <1>1 DEF SeatsAgree, Seated
<1>6. S \in SUBSET miners[k]
  BY <1>1, <1>5
<1> HIDE DEF S, q, r
<1>7. CASE k \in connections
  <2>1. Balanced(free[k], miners[k], slot)
    BY <1>7 DEF SlotLedger, Balanced
  <2>2. free[k] \o r \in Seq(Slots) /\ Balanced(free[k] \o r, miners[k] \ S, slot)
    BY <2>1, <1>1, <1>2, <1>4, <1>6, LeaveBalanced
  <2>3. idle[k] <=> miners[k] = {}
    BY <1>7 DEF EmptyHasTimer
  <2> QED BY <2>2, <2>3, <1>1, <1>3, <1>4, <1>5, <1>6, <1>7
<1>8. CASE k \notin connections
  <2>1. miners[k] = {} /\ S = {}
    BY <1>8, <1>4, <1>5, <1>6, PlacementAssumption DEF SeatsAgree
  <2>2. ~idle[k] /\ free[k] = <<>>
    BY <1>8 DEF EmptyHasTimer, ClosedIsEmpty
  <2>3. q = <<>>
    BY <1>1, <2>1
  <2>4. r = <<>>
    BY <1>2, <2>3
  <2>5. free[k] \o r = <<>>
    BY <2>2, <2>4
  <2> QED BY <2>1, <2>2, <2>5, <1>3, <1>4, <1>5, <1>8
<1> QED BY <1>7, <1>8

SeatTypes ==
  /\ listing \in [Clients -> Listings \cup {None}]
  /\ conn \in [Clients -> Conns \cup {None}]
  /\ miners \in [Conns -> SUBSET Clients]
  /\ free \in [Conns -> Seq(Slots)]
  /\ idle \in [Conns -> BOOLEAN]

\* stopMining, by whichever handler calls it.
LEMMA StopPreserves ==
  ASSUME IInv, NEW L \in SUBSET Clients, StopMining(L),
         UNCHANGED <<slot, connections>>,
         clients \ L \subseteq clients',
         \A c \in Clients \ L : listing[c] # None => listing[c] \in listings'
  PROVE  SeatTypes' /\ Seating'
<1>1. \A k \in Conns :
         /\ miners'[k] \in SUBSET Clients
         /\ free'[k] \in Seq(Slots)
         /\ idle'[k] \in BOOLEAN
         /\ \A c \in Clients : c \in miners'[k] <=> (conn[c] = k /\ c \notin L)
         /\ k \in connections' => Balanced(free'[k], miners'[k], slot')
         /\ k \notin connections' => free'[k] = <<>>
         /\ idle'[k] <=> (k \in connections' /\ miners'[k] = {})
  BY AfterLeaving DEF StopMining
<1>2. /\ \A c \in Clients : conn'[c] = (IF c \in L THEN None ELSE conn[c])
      /\ \A c \in Clients : listing'[c] = (IF c \in L THEN None ELSE listing[c])
      /\ None \notin Conns /\ None \notin Listings
  BY PlacementAssumption DEF StopMining
<1>3. SeatTypes'
  <2>1. listing' \in [Clients -> Listings \cup {None}] /\ conn' \in [Clients -> Conns \cup {None}]
    BY DEF StopMining, IInv, TypeOK
  <2>2. miners' \in [Conns -> SUBSET Clients] /\ free' \in [Conns -> Seq(Slots)] /\ idle' \in [Conns -> BOOLEAN]
    BY <1>1 DEF StopMining, MinersWithout, FreeWith, TimersAfter
  <2> QED BY <2>1, <2>2 DEF SeatTypes
<1>4. SeatsAgree'
  <2>1. \A c \in Clients, k \in Conns : c \in miners'[k] <=> conn'[c] = k
    BY <1>1, <1>2
  <2>2. \A c \in Clients : conn'[c] # None => c \in clients' /\ conn'[c] \in connections'
    BY <1>2 DEF IInv, Seating, SeatsAgree
  <2>3. \A c \in Clients : listing'[c] # None => conn'[c] # None /\ listing'[c] \in listings'
    BY <1>2 DEF IInv, Seating, SeatsAgree
  <2> QED BY <2>1, <2>2, <2>3 DEF SeatsAgree
<1>5. SlotLedger' /\ EmptyHasTimer' /\ ClosedIsEmpty'
  <2>1. connections' \in SUBSET Conns
    BY DEF IInv, TypeOK
  <2> QED BY <1>1, <2>1 DEF SlotLedger, Balanced, EmptyHasTimer, ClosedIsEmpty
<1> QED BY <1>3, <1>4, <1>5 DEF Seating

\* startMining, on a socket that was there or one just opened.
LEMMA SeatPreserves ==
  ASSUME IInv, NEW c \in clients, NEW l \in listings, NEW k \in Conns,
         NEW counted \in BOOLEAN,
         NEW stack \in Seq(Slots), stack # <<>>,
         Balanced(stack, MinersWithout({c})[k], slot),
         Seat(c, l, k, stack, counted),
         connections' = connections \cup {k}
  PROVE  SeatTypes' /\ slot' \in [Clients -> Slots] /\ Seating'
<1>1. /\ c \in Clients /\ l \in Listings /\ {c} \in SUBSET Clients
      /\ None \notin Conns /\ None \notin Listings
      /\ conn \in [Clients -> Conns \cup {None}]
      /\ listing \in [Clients -> Listings \cup {None}]
      /\ slot \in [Clients -> Slots]
      /\ connections \in SUBSET Conns /\ listings \in SUBSET Listings
  BY PlacementAssumption DEF IInv, TypeOK
<1>2. /\ conn' = [conn EXCEPT ![c] = k]
      /\ slot' = [slot EXCEPT ![c] = Last(stack)]
      /\ listing' = [listing EXCEPT ![c] = IF counted THEN l ELSE None]
      /\ clients' = clients /\ listings' = listings
  BY DEF Seat
<1>M. /\ miners' = [x \in Conns |-> miners'[x]]
      /\ miners'[k] = MinersWithout({c})[k] \cup {c}
      /\ \A x \in Conns \ {k} : miners'[x] = MinersWithout({c})[x]
  BY DEF Seat, MinersWithout
<1>F. /\ free' = [x \in Conns |-> free'[x]]
      /\ free'[k] = Front(stack)
      /\ \A x \in Conns \ {k} : free'[x] = FreeWith({c})[x]
  BY DEF Seat, FreeWith
<1>I. /\ idle' = [x \in Conns |-> idle'[x]]
      /\ idle'[k] = FALSE
      /\ \A x \in Conns \ {k} : idle'[x] = TimersAfter({c})[x]
  BY DEF Seat, TimersAfter
<1>3. \A x \in Conns :
         /\ MinersWithout({c})[x] \in SUBSET Clients
         /\ FreeWith({c})[x] \in Seq(Slots)
         /\ TimersAfter({c})[x] \in BOOLEAN
         /\ \A d \in Clients : d \in MinersWithout({c})[x] <=> (conn[d] = x /\ d \notin {c})
         /\ x \in connections => Balanced(FreeWith({c})[x], MinersWithout({c})[x], slot)
         /\ x \notin connections => FreeWith({c})[x] = <<>>
         /\ TimersAfter({c})[x] <=> (x \in connections /\ MinersWithout({c})[x] = {})
  BY <1>1, AfterLeaving
<1>5. \A x \in Conns, d \in Clients : d \in MinersWithout({c})[x] <=> (conn[d] = x /\ d # c)
  BY <1>3
<1>4. /\ Front(stack) \in Seq(Slots) /\ Last(stack) \in Slots
      /\ Balanced(Front(stack), MinersWithout({c})[k] \cup {c}, slot')
  BY <1>1, <1>2, <1>3, TakeBalanced
<1>0. slot' \in [Clients -> Slots]
  BY <1>1, <1>2, <1>4
<1>6. \A x \in Conns :
         /\ miners'[x] \in SUBSET Clients
         /\ free'[x] \in Seq(Slots)
         /\ idle'[x] \in BOOLEAN
         /\ \A d \in Clients : d \in miners'[x] <=> conn'[d] = x
         /\ x \in connections' => Balanced(free'[x], miners'[x], slot')
         /\ x \notin connections' => free'[x] = <<>>
         /\ idle'[x] <=> (x \in connections' /\ miners'[x] = {})
  <2> TAKE x \in Conns
  <2>1. CASE x = k
    <3>1. \A d \in Clients : d \in miners'[k] <=> conn'[d] = k
      BY <1>1, <1>2, <1>5, <1>M
    <3>2. miners'[k] \in SUBSET Clients /\ c \in miners'[k] /\ k \in connections'
      <4>1. MinersWithout({c})[k] \in SUBSET Clients
        BY <1>3
      <4>2. c \in Clients
        BY <1>1
      <4>3. miners'[k] = MinersWithout({c})[k] \cup {c}
        BY <1>M
      <4>4. k \in connections'
        OBVIOUS
      <4> QED BY ONLY <4>1, <4>2, <4>3, <4>4
    <3>3. Balanced(free'[k], miners'[k], slot') /\ free'[k] \in Seq(Slots)
      BY ONLY <1>4, <1>M, <1>F
    <3> QED BY <2>1, <3>1, <3>2, <3>3, <1>I
  <2>2. CASE x # k
    <3>1. MinersWithout({c})[x] \in SUBSET Clients /\ c \notin MinersWithout({c})[x]
      BY <1>1, <1>3, <1>5
    <3>2. \A d \in MinersWithout({c})[x] : slot'[d] = slot[d]
      BY <3>1, <1>1, <1>2
    <3>3. ASSUME x \in connections
          PROVE  Balanced(FreeWith({c})[x], MinersWithout({c})[x], slot')
      <4>1. Balanced(FreeWith({c})[x], MinersWithout({c})[x], slot)
        BY <3>3, <1>3
      <4> QED BY ONLY <4>1, <3>2, BalancedFrame
    <3>6. /\ miners'[x] = MinersWithout({c})[x] /\ free'[x] = FreeWith({c})[x]
          /\ idle'[x] = TimersAfter({c})[x]
      BY <2>2, <1>M, <1>F, <1>I
    <3>4. \A d \in Clients : d \in miners'[x] <=> conn'[d] = x
      <4> TAKE d \in Clients
      <4>1. CASE d = c
        <5>1. conn'[d] = k
          BY <4>1, <1>1, <1>2
        <5>2. d \notin miners'[x]
          BY <4>1, <3>1, <3>6
        <5> QED BY <5>1, <5>2, <2>2
      <4>2. CASE d # c
        BY <4>2, <3>6, <1>1, <1>2, <1>5
      <4> QED BY <4>1, <4>2
    <3>5. x \in connections' <=> x \in connections
      BY <2>2
    <3> QED BY <3>1, <3>3, <3>4, <3>5, <3>6, <1>3
  <2> QED BY <2>1, <2>2
<1>7. SeatTypes'
  <2>1. listing' \in [Clients -> Listings \cup {None}] /\ conn' \in [Clients -> Conns \cup {None}]
    BY <1>1, <1>2
  <2> QED BY <2>1, <1>M, <1>F, <1>I, <1>6 DEF SeatTypes
<1>8. SeatsAgree'
  <2>1. \A d \in Clients : conn'[d] # None => d \in clients' /\ conn'[d] \in connections'
    BY <1>1, <1>2 DEF IInv, Seating, SeatsAgree
  <2>2. \A d \in Clients : listing'[d] # None => conn'[d] # None /\ listing'[d] \in listings'
    BY <1>1, <1>2 DEF IInv, Seating, SeatsAgree
  <2> QED BY <1>6, <2>1, <2>2 DEF SeatsAgree
<1>9. SlotLedger' /\ EmptyHasTimer' /\ ClosedIsEmpty'
  <2>1. connections' \in SUBSET Conns
    BY <1>1
  <2> QED BY <1>6, <2>1 DEF SlotLedger, Balanced, EmptyHasTimer, ClosedIsEmpty
<1> QED BY <1>0, <1>7, <1>8, <1>9 DEF Seating

-----------------------------------------------------------------------------
(* The inductive invariant.                                                *)

LEMMA InitSeating == Init => IInv
<1> SUFFICES ASSUME Init PROVE IInv
  OBVIOUS
<1> USE PlacementAssumption DEF Init
<1>1. TypeOK
  <2>1. 0 \in Slots /\ <<>> \in Seq(Slots)
    BY DEF Slots
  <2>2. /\ cooling \in [Clients -> BOOLEAN] /\ mined \in [Clients -> BOOLEAN]
        /\ idle \in [Conns -> BOOLEAN] /\ frozen \in BOOLEAN
    OBVIOUS
  <2>3. link \in [Conns -> LinkStates]
    BY DEF LinkStates
  <2>4. /\ perAddress \in [Addresses -> Nat]
        /\ capacity \in [Conns -> Nat] /\ window \in [Conns -> Nat]
    OBVIOUS
  <2>5. slot \in [Clients -> Slots] /\ free \in [Conns -> Seq(Slots)]
    BY <2>1
  <2>6. /\ listing \in [Clients -> Listings \cup {None}]
        /\ conn \in [Clients -> Conns \cup {None}]
        /\ miners \in [Conns -> SUBSET Clients]
    OBVIOUS
  <2> QED BY ONLY <2>2, <2>3, <2>4, <2>5, <2>6, Init DEF TypeOK, Init
<1>2. SeatsAgree
  BY DEF SeatsAgree
<1> QED BY <1>1, <1>2 DEF IInv, Seating, SlotLedger, EmptyHasTimer, ClosedIsEmpty

\* Steps that leave every seat, stack and timer alone.
LEMMA FrameSeating ==
  ASSUME IInv, UNCHANGED <<clients, listing, conn, slot, listings, connections,
                           miners, free, idle>>
  PROVE  SeatTypes' /\ Seating'
<1>1. /\ listing' = listing /\ conn' = conn /\ slot' = slot /\ listings' = listings
      /\ connections' = connections /\ miners' = miners /\ free' = free /\ idle' = idle
      /\ clients' = clients
  OBVIOUS
<1>2. SeatTypes'
  BY <1>1 DEF IInv, TypeOK, SeatTypes
<1>3. SeatsAgree'
  BY <1>1 DEF IInv, Seating, SeatsAgree
<1>4. SlotLedger'
  BY <1>1 DEF IInv, Seating, SlotLedger
<1>5. EmptyHasTimer' /\ ClosedIsEmpty'
  BY <1>1 DEF IInv, Seating, EmptyHasTimer, ClosedIsEmpty
<1> QED BY <1>2, <1>3, <1>4, <1>5 DEF Seating

\* A step that keeps the seats well-typed is well-typed if the rest is.
LEMMA TypeFrame ==
  ASSUME SeatTypes', clients' \in SUBSET Clients,
         perAddress' \in [Addresses -> Nat], slot' \in [Clients -> Slots],
         cooling' \in [Clients -> BOOLEAN], mined' \in [Clients -> BOOLEAN],
         listings' \in SUBSET Listings, connections' \in SUBSET Conns,
         capacity' \in [Conns -> Nat], window' \in [Conns -> Nat],
         link' \in [Conns -> LinkStates], frozen' \in BOOLEAN
  PROVE  TypeOK'
BY DEF TypeOK, SeatTypes

LEMMA TroubleType ==
  ASSUME TypeOK, PoolTrouble
  PROVE  capacity' \in [Conns -> Nat] /\ frozen' \in BOOLEAN
<1>1. \A k \in Conns : Larger(MinCapacity, capacity[k] \div 2) \in Nat
  BY PlacementAssumption DEF TypeOK, Larger
<1> QED BY <1>1, PlacementAssumption DEF PoolTrouble, TypeOK

LEMMA NextSeating ==
  ASSUME IInv, [Next]_vars
  PROVE  IInv'
<1> USE DEF IInv
<1>0. /\ HasCooldown \in BOOLEAN /\ HasBackoff \in BOOLEAN /\ DbMayFail \in BOOLEAN
      /\ 0 \in Slots /\ MinersPerConnection \in Nat /\ StartingCapacity \in Nat
      /\ MinCapacity \in Nat /\ TuneStep \in Nat
  BY PlacementAssumption DEF Slots
<1>1. ASSUME NEW c \in Clients, AddClient(c)
      PROVE  IInv'
  <2>1. /\ clients' = clients \cup {c} /\ \A d \in Clients \ {c} : slot'[d] = slot[d]
        /\ UNCHANGED <<listing, conn, listings, connections, miners, free, idle>>
    BY <1>1 DEF AddClient, connVars, TypeOK
  <2>2. \A k \in connections : c \notin miners[k]
    BY <1>1, PlacementAssumption DEF AddClient, Seating, SeatsAgree, TypeOK
  <2>3. SlotLedger'
    <3> SUFFICES ASSUME NEW k \in connections PROVE Balanced(free[k], miners[k], slot')
      BY <2>1 DEF SlotLedger, Balanced
    <3>1. Balanced(free[k], miners[k], slot)
      BY DEF Seating, SlotLedger, Balanced
    <3>2. \A d \in miners[k] : slot'[d] = slot[d]
      BY <2>1, <2>2 DEF TypeOK
    <3> QED BY ONLY <3>1, <3>2, BalancedFrame
  <2>4. Seating'
    BY <2>1, <2>3 DEF Seating, SeatsAgree, EmptyHasTimer, ClosedIsEmpty
  <2>5. SeatTypes'
    BY <2>1 DEF SeatTypes, TypeOK
  <2>6. perAddress' \in [Addresses -> Nat]
    <3>1. AddrOf[c] \in Addresses
      BY PlacementAssumption
    <3> QED BY <1>1, <3>1 DEF AddClient, TypeOK
  <2>7. slot' \in [Clients -> Slots] /\ clients' \in SUBSET Clients
    BY <1>0, <1>1 DEF AddClient, TypeOK
  <2>8. cooling' \in [Clients -> BOOLEAN] /\ mined' \in [Clients -> BOOLEAN]
    BY <1>1 DEF AddClient, TypeOK
  <2> QED BY <1>1, <2>4, <2>5, <2>6, <2>7, <2>8, TypeFrame DEF AddClient, TypeOK, connVars
<1>2. ASSUME NEW c \in Clients, RemoveClient(c)
      PROVE  IInv'
  <2>1. SeatTypes' /\ Seating'
    BY <1>2, StopPreserves DEF RemoveClient, Seating, SeatsAgree
  <2>2. perAddress' \in [Addresses -> Nat]
    BY <1>2, PlacementAssumption DEF RemoveClient, OneLess, TypeOK, Larger
  <2> QED BY <1>2, <2>1, <2>2, TypeFrame DEF RemoveClient, TypeOK
<1>3. ASSUME NEW c \in Clients, Stop(c)
      PROVE  IInv'
  <2>1. SeatTypes' /\ Seating'
    BY <1>3, StopPreserves DEF Stop, Seating, SeatsAgree
  <2> QED BY <1>3, <2>1, TypeFrame DEF Stop, TypeOK
<1>4. ASSUME NEW c \in Clients, CooldownEnds(c)
      PROVE  IInv'
  <2>1. SeatTypes' /\ Seating'
    BY <1>4, FrameSeating DEF CooldownEnds, connVars
  <2> QED BY <1>4, <2>1, TypeFrame DEF CooldownEnds, connVars, TypeOK
<1>5. ASSUME NEW c \in Clients, NEW l \in Listings, MineRefused(c, l)
      PROVE  IInv'
  <2>1. SeatTypes' /\ Seating'
    BY <1>5, FrameSeating DEF MineRefused, connVars
  <2> QED BY <1>0, <1>5, <2>1, TypeFrame DEF MineRefused, connVars, TypeOK
<1>6. ASSUME NEW c \in Clients, NEW l \in Listings, MineTurnedAway(c, l)
      PROVE  IInv'
  <2>1. SeatTypes' /\ Seating'
    BY <1>6, StopPreserves DEF MineTurnedAway, Seating, SeatsAgree
  <2> QED BY <1>0, <1>6, <2>1, TypeFrame DEF MineTurnedAway, TypeOK
<1>7. ASSUME NEW c \in Clients, NEW l \in Listings, NEW k \in Conns,
             NEW counted \in BOOLEAN, MineJoins(c, l, k, counted)
      PROVE  IInv'
  <2>1. /\ c \in clients /\ l \in listings /\ k \in connections
        /\ FreeWith({c})[k] # <<>> /\ connections' = connections \cup {k}
        /\ Seat(c, l, k, FreeWith({c})[k], counted)
    BY <1>7 DEF MineJoins, MayMine, Room
  <2>2. FreeWith({c})[k] \in Seq(Slots) /\ Balanced(FreeWith({c})[k], MinersWithout({c})[k], slot)
    BY <2>1, AfterLeaving
  <2>3. SeatTypes' /\ slot' \in [Clients -> Slots] /\ Seating'
    BY <2>1, <2>2, SeatPreserves
  <2> QED BY <1>0, <1>7, <2>3, TypeFrame DEF MineJoins, Seat, TypeOK
<1>8. ASSUME NEW c \in Clients, NEW l \in Listings, NEW k \in Conns,
             NEW counted \in BOOLEAN, MineOpens(c, l, k, counted)
      PROVE  IInv'
  <2>1. /\ c \in clients /\ l \in listings /\ k \notin connections
        /\ connections' = connections \cup {k}
        /\ Seat(c, l, k, FullStack, counted)
    BY <1>8 DEF MineOpens, MayMine
  <2>2. MinersWithout({c})[k] = {}
    <3>1. \A d \in Clients : d \notin MinersWithout({c})[k]
      BY <2>1, AfterLeaving, PlacementAssumption DEF Seating, SeatsAgree
    <3>2. MinersWithout({c})[k] \in SUBSET Clients
      BY DEF MinersWithout, TypeOK
    <3> QED BY <3>1, <3>2
  <2>3. /\ FullStack \in Seq(Slots) /\ FullStack # <<>>
        /\ Balanced(FullStack, MinersWithout({c})[k], slot)
    BY <2>2, FullBalanced
  <2>4. SeatTypes' /\ slot' \in [Clients -> Slots] /\ Seating'
    BY <2>1, <2>3, SeatPreserves
  <2> QED BY <1>0, <1>8, <2>4, TypeFrame DEF MineOpens, Seat, TypeOK, LinkStates
<1>9. ASSUME NEW l \in Listings, Takedown(l)
      PROVE  IInv'
  <2> DEFINE L == MinersOf(l)
  <2>1. L \in SUBSET Clients /\ StopMining(L) /\ clients \ L \subseteq clients'
    BY <1>9 DEF Takedown, MinersOf, TypeOK
  <2>2. \A c \in Clients \ L : listing[c] # None => listing[c] \in listings'
    BY <1>9 DEF Takedown, MinersOf, Seating, SeatsAgree
  <2>3. UNCHANGED <<slot, connections>>
    BY <1>9 DEF Takedown
  <2> HIDE DEF L
  <2>4. SeatTypes' /\ Seating'
    BY <2>1, <2>2, <2>3, StopPreserves
  <2> QED BY <1>9, <2>4, TypeFrame DEF Takedown, TypeOK
<1>10. ASSUME NEW k \in Conns, IdleFires(k)
       PROVE  IInv'
  <2>1. /\ idle[k] /\ k \in connections /\ miners[k] = {}
    BY <1>10 DEF IdleFires, Seating, EmptyHasTimer
  <2>2. /\ UNCHANGED <<clients, listing, conn, slot, listings, miners>>
        /\ connections' = connections \ {k}
        /\ free' = [free EXCEPT ![k] = <<>>]
        /\ idle' = [idle EXCEPT ![k] = FALSE]
    BY <1>10, <2>1 DEF IdleFires, clientVars
  <2>3. SeatsAgree'
    <3>1. \A c \in Clients : conn[c] # k
      BY <2>1 DEF Seating, SeatsAgree
    <3> QED BY <2>2, <3>1 DEF Seating, SeatsAgree
  <2>4. SlotLedger' /\ EmptyHasTimer' /\ ClosedIsEmpty'
    BY <2>1, <2>2 DEF Seating, SlotLedger, EmptyHasTimer, ClosedIsEmpty, TypeOK
  <2>5. <<>> \in Seq(Slots)
    OBVIOUS
  <2>7. /\ free' \in [Conns -> Seq(Slots)] /\ idle' \in [Conns -> BOOLEAN]
    BY <2>2, <2>5 DEF TypeOK
  <2>8. SeatTypes'
    BY <2>2, <2>7 DEF SeatTypes, TypeOK
  <2>9. capacity' \in [Conns -> Nat] /\ window' \in [Conns -> Nat]
    <3>1. /\ capacity' = [capacity EXCEPT ![k] = 0]
          /\ window' = [window EXCEPT ![k] = 0]
      BY <1>10, <2>1 DEF IdleFires
    <3>2. capacity \in [Conns -> Nat] /\ window \in [Conns -> Nat]
      BY DEF TypeOK
    <3> QED BY ONLY <3>1, <3>2
  <2>10. link' \in [Conns -> LinkStates]
    BY <1>10, <2>1 DEF IdleFires, TypeOK, LinkStates
  <2>6. TypeOK'
    BY <1>10, <2>2, <2>8, <2>9, <2>10, TypeFrame DEF IdleFires, TypeOK, clientVars
  <2> QED BY <2>3, <2>4, <2>6 DEF Seating
<1>11. ASSUME NEW k \in Conns,
              PoolError(k) \/ DialSucceeds(k) \/ DialFails(k) \/ LinkDrops(k)
                \/ Redial(k) \/ CountAccepted(k)
       PROVE  IInv'
  <2>1. SeatTypes' /\ Seating'
    BY <1>11, FrameSeating
       DEF PoolError, DialSucceeds, DialFails, LinkDrops, Redial, CountAccepted, clientVars
  <2>2. capacity' \in [Conns -> Nat] /\ frozen' \in BOOLEAN
    BY <1>11, TroubleType
       DEF PoolError, DialSucceeds, DialFails, LinkDrops, Redial, CountAccepted, TypeOK
  <2>3. window' \in [Conns -> Nat]
    <3>1. CASE CountAccepted(k)
      BY <3>1, PlacementAssumption DEF CountAccepted, TypeOK, Smaller
    <3>2. CASE ~CountAccepted(k)
      BY <1>11, <3>2 DEF PoolError, DialSucceeds, DialFails, LinkDrops, Redial, TypeOK
    <3> QED BY <3>1, <3>2
  <2>4. link' \in [Conns -> LinkStates]
    <3>1. PICK s \in LinkStates : link' = [link EXCEPT ![k] = s]
      <4>1. CASE DialSucceeds(k) \/ Redial(k) \/ DialFails(k) \/ LinkDrops(k)
        BY <4>1 DEF DialSucceeds, Redial, DialFails, LinkDrops, AfterLoss, LinkStates
      <4>2. CASE PoolError(k) \/ CountAccepted(k)
        BY <4>2 DEF PoolError, CountAccepted, TypeOK
      <4> QED BY <1>11, <4>1, <4>2
    <3> QED BY <3>1 DEF TypeOK
  <2> QED BY <1>11, <2>1, <2>2, <2>3, <2>4, TypeFrame
          DEF PoolError, DialSucceeds, DialFails, LinkDrops, Redial, CountAccepted,
              TypeOK, clientVars
<1>12. CASE Thaw
  <2>1. SeatTypes' /\ Seating'
    BY <1>12, FrameSeating DEF Thaw, clientVars, connVars
  <2> QED BY <1>12, <2>1, TypeFrame DEF Thaw, clientVars, connVars, TypeOK
<1>13. CASE TuneConnections
  <2>1. SeatTypes' /\ Seating'
    BY <1>13, FrameSeating DEF TuneConnections, clientVars
  <2>2. capacity' \in [Conns -> Nat] /\ window' \in [Conns -> Nat]
    <3>1. ASSUME NEW cap \in Nat, NEW m, NEW w
          PROVE  NextCapacity(cap, m, w) \in Nat
      BY <1>0 DEF NextCapacity, Larger, Smaller
    <3> QED BY <1>13, <3>1 DEF TuneConnections, TypeOK
  <2> QED BY <1>13, <2>1, <2>2, TypeFrame DEF TuneConnections, clientVars, TypeOK
<1>14. CASE UNCHANGED vars
  <2>1. SeatTypes' /\ Seating'
    BY <1>14, FrameSeating DEF vars, clientVars, connVars
  <2> QED BY <1>14, <2>1, TypeFrame DEF vars, clientVars, connVars, TypeOK
<1> QED BY <1>1, <1>2, <1>3, <1>4, <1>5, <1>6, <1>7, <1>8, <1>9, <1>10, <1>11,
           <1>12, <1>13, <1>14 DEF Next

LEMMA Invariance == Spec => []IInv
<1>1. Init => IInv
  BY InitSeating
<1>2. IInv /\ [Next]_vars => IInv'
  BY NextSeating
<1> QED BY <1>1, <1>2, PTL DEF Spec

\* Every field of the hub stays in its type, slots within 0..MinersPerConnection-1.
THEOREM TypeCorrect == Spec => []TypeOK
<1>1. IInv => TypeOK
  BY DEF IInv
<1> QED BY <1>1, Invariance, PTL

\* client.conn and conn.miners never disagree, a seat belongs to a visitor who is
\* here on a socket that is open, and a credited listing exists.
THEOREM SeatsAlwaysAgree == Spec => []SeatsAgree
<1>1. IInv => SeatsAgree
  BY DEF IInv, Seating
<1> QED BY <1>1, Invariance, PTL

\* However visitors join, switch, leave and are taken down, no two miners of a
\* socket hold one extranonce2 slot and no slot of it is lost.
THEOREM SlotsNeverShared == Spec => []SlotLedger
<1>1. IInv => SlotLedger
  BY DEF IInv, Seating
<1> QED BY <1>1, Invariance, PTL

\* The grace period runs for exactly the sockets nobody mines on: closeConnection
\* never throws a miner off, and an empty socket is never forgotten.
THEOREM EmptySocketIsTimed == Spec => []EmptyHasTimer
<1>1. IInv => EmptyHasTimer
  BY DEF IInv, Seating
<1> QED BY <1>1, Invariance, PTL

-----------------------------------------------------------------------------
(* The controller.  Capacity depends on which sockets are open and on       *)
(* nothing else of the seating.                                             *)

LEMMA NextCapacityBounds ==
  ASSUME NEW lo \in Nat, lo = Smaller(MinCapacity, MinersPerConnection),
         NEW hi \in Nat, hi = Larger(StartingCapacity, MinersPerConnection),
         NEW cap \in Nat, lo <= cap, cap <= hi, NEW m \in Nat, NEW w \in Nat
  PROVE  lo <= NextCapacity(cap, m, w) /\ NextCapacity(cap, m, w) <= hi
<1>1. /\ MinCapacity \in Nat /\ StartingCapacity \in Nat /\ MinersPerConnection \in Nat
      /\ TuneStep \in Nat /\ MinCapacity <= StartingCapacity
  BY PlacementAssumption
<1>2. \/ NextCapacity(cap, m, w) = cap
      \/ NextCapacity(cap, m, w) = Larger(MinCapacity, cap - TuneStep)
      \/ NextCapacity(cap, m, w) = Smaller(MinersPerConnection, cap + TuneStep)
  BY DEF NextCapacity
<1>3. /\ lo <= Larger(MinCapacity, cap - TuneStep)
      /\ Larger(MinCapacity, cap - TuneStep) <= hi
  BY <1>1 DEF Larger, Smaller
<1>4. /\ lo <= Smaller(MinersPerConnection, cap + TuneStep)
      /\ Smaller(MinersPerConnection, cap + TuneStep) <= hi
  BY <1>1 DEF Larger, Smaller
<1> QED BY <1>2, <1>3, <1>4

LEMMA TroubleBounds ==
  ASSUME TypeOK, CapacityInBounds, PoolTrouble, connections' = connections
  PROVE  CapacityInBounds'
<1> SUFFICES ASSUME NEW k \in connections
             PROVE  /\ capacity'[k] >= Smaller(MinCapacity, MinersPerConnection)
                    /\ capacity'[k] <= Larger(StartingCapacity, MinersPerConnection)
  BY DEF CapacityInBounds
<1>1. capacity'[k] = Larger(MinCapacity, capacity[k] \div 2) /\ capacity[k] \in Nat
  BY DEF PoolTrouble, TypeOK
<1>2. /\ capacity[k] >= Smaller(MinCapacity, MinersPerConnection)
      /\ capacity[k] <= Larger(StartingCapacity, MinersPerConnection)
  BY DEF CapacityInBounds
<1> QED BY <1>1, <1>2, PlacementAssumption DEF Larger, Smaller

\* One step of Next, or a stutter, keeps every open socket's capacity in bounds.
LEMMA NextCapacityInBounds ==
  ASSUME IInv, CapacityInBounds, [Next]_vars
  PROVE  CapacityInBounds'
<1>0. TypeOK
  BY DEF IInv
<1>1. ASSUME connections' \subseteq connections,
             \A k \in connections' : capacity'[k] = capacity[k]
      PROVE  CapacityInBounds'
  BY <1>1 DEF CapacityInBounds
<1>2. ASSUME NEW c \in Clients, NEW l \in Listings, NEW k \in Conns,
             NEW counted \in BOOLEAN, MineOpens(c, l, k, counted)
      PROVE  CapacityInBounds'
  <2>1. /\ connections' = connections \cup {k}
        /\ capacity' = [capacity EXCEPT ![k] = StartingCapacity]
    BY <1>2 DEF MineOpens
  <2>2. /\ StartingCapacity >= Smaller(MinCapacity, MinersPerConnection)
        /\ StartingCapacity <= Larger(StartingCapacity, MinersPerConnection)
    BY PlacementAssumption DEF Larger, Smaller
  <2> QED BY <1>0, <2>1, <2>2 DEF CapacityInBounds, TypeOK
<1>3. ASSUME NEW k \in Conns, IdleFires(k)
      PROVE  CapacityInBounds'
  <2>1. \/ UNCHANGED <<connections, capacity>>
        \/ /\ connections' = connections \ {k}
           /\ capacity' = [capacity EXCEPT ![k] = 0]
    BY <1>3 DEF IdleFires
  <2> QED BY <1>0, <2>1 DEF CapacityInBounds, TypeOK
<1>4. ASSUME NEW k \in Conns, PoolError(k) \/ DialFails(k) \/ LinkDrops(k)
      PROVE  CapacityInBounds'
  <2>1. connections' = connections /\ (PoolTrouble \/ capacity' = capacity)
    BY <1>4 DEF PoolError, DialFails, LinkDrops
  <2> QED BY <1>0, <1>1, <2>1, TroubleBounds
<1>5. CASE TuneConnections
  <2>1. connections' = connections
    BY <1>5 DEF TuneConnections
  <2> SUFFICES ASSUME NEW k \in connections
               PROVE  /\ capacity'[k] >= Smaller(MinCapacity, MinersPerConnection)
                      /\ capacity'[k] <= Larger(StartingCapacity, MinersPerConnection)
    BY <2>1 DEF CapacityInBounds
  <2>2. /\ k \in Conns /\ capacity[k] \in Nat /\ window[k] \in Nat
        /\ miners[k] \in SUBSET Clients
    BY <1>0 DEF TypeOK
  <2>3. Cardinality(miners[k]) \in Nat
    BY <2>2, PlacementAssumption, FS_Subset, FS_CardinalityType
  <2>4. \/ capacity'[k] = capacity[k]
        \/ capacity'[k] = NextCapacity(capacity[k], Cardinality(miners[k]), window[k])
    BY <1>5, <2>2 DEF TuneConnections
  <2>5. /\ capacity[k] >= Smaller(MinCapacity, MinersPerConnection)
        /\ capacity[k] <= Larger(StartingCapacity, MinersPerConnection)
    BY DEF CapacityInBounds
  <2>6. /\ Smaller(MinCapacity, MinersPerConnection) \in Nat
        /\ Larger(StartingCapacity, MinersPerConnection) \in Nat
    BY PlacementAssumption DEF Smaller, Larger
  <2>7. ASSUME NEW w \in Nat, NEW m \in Nat
        PROVE  /\ NextCapacity(capacity[k], m, w) >= Smaller(MinCapacity, MinersPerConnection)
               /\ NextCapacity(capacity[k], m, w) <= Larger(StartingCapacity, MinersPerConnection)
    <3> DEFINE lo == Smaller(MinCapacity, MinersPerConnection)
               hi == Larger(StartingCapacity, MinersPerConnection)
               n  == NextCapacity(capacity[k], m, w)
    <3>1. lo <= n /\ n <= hi
      BY <2>2, <2>5, <2>6, NextCapacityBounds
    <3> QED BY <3>1
  <2> QED BY <2>2, <2>3, <2>4, <2>5, <2>7
<1>6. ASSUME UNCHANGED <<connections, capacity>>
      PROVE  CapacityInBounds'
  BY <1>1, <1>6
<1>7. CASE UNCHANGED vars
  BY <1>6, <1>7 DEF vars, connVars
<1>8. ASSUME NEW c \in Clients,
             AddClient(c) \/ RemoveClient(c) \/ Stop(c) \/ CooldownEnds(c)
      PROVE  CapacityInBounds'
  BY <1>6, <1>8 DEF AddClient, RemoveClient, Stop, CooldownEnds, connVars
<1>9. ASSUME NEW c \in Clients, NEW l \in Listings,
             MineRefused(c, l) \/ MineTurnedAway(c, l)
      PROVE  CapacityInBounds'
  BY <1>6, <1>9 DEF MineRefused, MineTurnedAway, connVars
<1>10. ASSUME NEW c \in Clients, NEW l \in Listings, NEW k \in Conns,
              NEW counted \in BOOLEAN, MineJoins(c, l, k, counted)
       PROVE  CapacityInBounds'
  BY <1>6, <1>10 DEF MineJoins
<1>11. ASSUME NEW l \in Listings, Takedown(l)
       PROVE  CapacityInBounds'
  BY <1>6, <1>11 DEF Takedown
<1>12. ASSUME NEW k \in Conns, DialSucceeds(k) \/ Redial(k) \/ CountAccepted(k)
       PROVE  CapacityInBounds'
  BY <1>6, <1>12 DEF DialSucceeds, Redial, CountAccepted
<1>13. CASE Thaw
  BY <1>6, <1>13 DEF Thaw, connVars
<1> QED BY <1>2, <1>3, <1>4, <1>5, <1>7, <1>8, <1>9, <1>10, <1>11, <1>12, <1>13 DEF Next

\* No sequence of tuning up, tuning down and halving on trouble leaves an open
\* socket with a capacity at which it can seat nobody, or above its slots.
THEOREM CapacityStaysInBounds == Spec => []CapacityInBounds
<1>1. Init => CapacityInBounds
  BY DEF Init, CapacityInBounds
<1>2. IInv /\ CapacityInBounds /\ [Next]_vars => CapacityInBounds'
  BY NextCapacityInBounds
<1> QED BY <1>1, <1>2, Invariance, PTL DEF Spec

-----------------------------------------------------------------------------
(* Addresses: one more at an arrival, one less at a departure.             *)

At(a) == {c \in clients : AddrOf[c] = a}

LEMMA ArrivalCounts ==
  ASSUME IInv, AddressCount, NEW c \in Clients, AddClient(c)
  PROVE  AddressCount'
<1> SUFFICES ASSUME NEW a \in Addresses
             PROVE  perAddress'[a] = Cardinality({d \in clients' : AddrOf[d] = a})
  BY DEF AddressCount
<1>1. IsFiniteSet(At(a)) /\ c \notin At(a)
  <2>1. At(a) \in SUBSET Clients
    BY DEF IInv, TypeOK, At
  <2> QED BY <2>1, PlacementAssumption, FS_Subset DEF AddClient, At
<1>2. perAddress[a] = Cardinality(At(a))
  BY DEF AddressCount, At
<1>3. perAddress'[a] = IF AddrOf[c] = a THEN perAddress[a] + 1 ELSE perAddress[a]
  BY DEF AddClient, IInv, TypeOK
<1>4. CASE AddrOf[c] = a
  <2>1. {d \in clients' : AddrOf[d] = a} = At(a) \cup {c}
    BY <1>4 DEF AddClient, At
  <2>2. Cardinality(At(a) \cup {c}) = Cardinality(At(a)) + 1
    BY <1>1, FS_AddElement
  <2> QED BY <1>2, <1>3, <1>4, <2>1, <2>2
<1>5. CASE AddrOf[c] # a
  <2>1. {d \in clients' : AddrOf[d] = a} = At(a)
    BY <1>5 DEF AddClient, At
  <2> QED BY <1>2, <1>3, <1>5, <2>1
<1> QED BY <1>4, <1>5

LEMMA DepartureCounts ==
  ASSUME IInv, AddressCount, NEW c \in Clients, RemoveClient(c)
  PROVE  AddressCount'
<1> SUFFICES ASSUME NEW a \in Addresses
             PROVE  perAddress'[a] = Cardinality({d \in clients' : AddrOf[d] = a})
  BY DEF AddressCount
<1>1. IsFiniteSet(At(a)) /\ At(a) \in SUBSET clients
  <2>1. At(a) \in SUBSET Clients
    BY DEF IInv, TypeOK, At
  <2> QED BY <2>1, PlacementAssumption, FS_Subset DEF At
<1>2. perAddress[a] = Cardinality(At(a)) /\ perAddress[a] \in Nat
  BY DEF AddressCount, At, IInv, TypeOK
<1>3. perAddress'[a] = IF AddrOf[c] = a THEN OneLess(perAddress[a]) ELSE perAddress[a]
  BY DEF RemoveClient, IInv, TypeOK
<1>4. CASE AddrOf[c] = a
  <2>1. {d \in clients' : AddrOf[d] = a} = At(a) \ {c} /\ c \in At(a)
    BY <1>4 DEF RemoveClient, At
  <2>2. Cardinality(At(a) \ {c}) = Cardinality(At(a)) - 1
    BY <1>1, <2>1, FS_RemoveElement
  <2>3. Cardinality(At(a)) # 0
    BY <1>1, <2>1, FS_EmptySet
  <2>4. OneLess(perAddress[a]) = perAddress[a] - 1
    BY <1>2, <2>3 DEF OneLess, Larger
  <2> QED BY <1>2, <1>3, <1>4, <2>1, <2>2, <2>4
<1>5. CASE AddrOf[c] # a
  <2>1. {d \in clients' : AddrOf[d] = a} = At(a)
    BY <1>5 DEF RemoveClient, At
  <2> QED BY <1>2, <1>3, <1>5, <2>1
<1> QED BY <1>4, <1>5

LEMMA NextAddressCount ==
  ASSUME IInv, AddressCount, [Next]_vars
  PROVE  AddressCount'
<1>1. ASSUME UNCHANGED <<clients, perAddress>>
      PROVE  AddressCount'
  BY <1>1 DEF AddressCount
<1>2. CASE UNCHANGED vars
  BY <1>1, <1>2 DEF vars, clientVars
<1>3. ASSUME NEW c \in Clients, AddClient(c) \/ RemoveClient(c)
      PROVE  AddressCount'
  BY <1>3, ArrivalCounts, DepartureCounts
<1>4. ASSUME NEW c \in Clients, Stop(c) \/ CooldownEnds(c)
      PROVE  AddressCount'
  BY <1>1, <1>4 DEF Stop, CooldownEnds
<1>5. ASSUME NEW c \in Clients, NEW l \in Listings, MineRefused(c, l) \/ MineTurnedAway(c, l)
      PROVE  AddressCount'
  BY <1>1, <1>5 DEF MineRefused, MineTurnedAway
<1>6. ASSUME NEW c \in Clients, NEW l \in Listings, NEW k \in Conns, NEW counted \in BOOLEAN,
             MineJoins(c, l, k, counted) \/ MineOpens(c, l, k, counted)
      PROVE  AddressCount'
  BY <1>1, <1>6 DEF MineJoins, MineOpens, Seat
<1>7. ASSUME NEW l \in Listings, Takedown(l)
      PROVE  AddressCount'
  BY <1>1, <1>7 DEF Takedown
<1>8. ASSUME NEW k \in Conns,
             IdleFires(k) \/ PoolError(k) \/ DialSucceeds(k) \/ DialFails(k)
               \/ LinkDrops(k) \/ Redial(k) \/ CountAccepted(k)
      PROVE  AddressCount'
  BY <1>1, <1>8 DEF IdleFires, PoolError, DialSucceeds, DialFails, LinkDrops, Redial,
                    CountAccepted, clientVars
<1>9. CASE Thaw \/ TuneConnections
  BY <1>1, <1>9 DEF Thaw, TuneConnections, clientVars
<1> QED BY <1>2, <1>3, <1>4, <1>5, <1>6, <1>7, <1>8, <1>9 DEF Next

\* The tables of hub.ts never disagree: seats from both sides, the slots of a
\* socket, its timer and its capacity, and the count that locks an address out.
THEOREM TablesAlwaysAgree == Spec => []TablesAgree
<1>1. Init => AddressCount
  BY FS_EmptySet DEF Init, AddressCount
<1>2. IInv /\ AddressCount /\ [Next]_vars => AddressCount'
  BY NextAddressCount
<1>3. IInv /\ AddressCount /\ CapacityInBounds => TablesAgree
  BY DEF IInv, Seating, TablesAgree
<1> QED BY <1>1, <1>2, <1>3, Invariance, CapacityStaysInBounds, PTL DEF Spec

-----------------------------------------------------------------------------
(* What a step does to a seat and a slot that are held.                    *)

Kept  == \A c \in Clients : conn[c] # None /\ conn'[c] = conn[c] => slot'[c] = slot[c]
OwnMove ==
  \A c, d \in Clients :
    c # d /\ conn'[c] # conn[c] /\ conn'[d] # conn[d]
      => listing[c] = listing[d] /\ conn'[c] = None /\ conn'[d] = None

\* The top of the stack after c has left is the slot c held.
LEMMA OneInARow ==
  ASSUME NEW x, NEW q \in Seq({x}), IsInjective(q), Range(q) = {x}
  PROVE  Len(q) = 1 /\ q[1] = x
<1>1. Len(q) \in Nat /\ DOMAIN q = 1 .. Len(q) /\ \A i \in 1 .. Len(q) : q[i] = x
  OBVIOUS
<1>2. PICK i \in DOMAIN q : q[i] = x
  BY DEF Range
<1>3. Len(q) >= 1
  BY <1>1, <1>2
<1>4. ASSUME Len(q) >= 2 PROVE FALSE
  <2>1. 1 \in DOMAIN q /\ 2 \in DOMAIN q /\ q[1] = q[2]
    BY <1>1, <1>4
  <2> QED BY <2>1 DEF IsInjective
<1> QED BY <1>1, <1>3, <1>4

LEMMA LastOfOneMore ==
  ASSUME NEW X, NEW f \in Seq(X), NEW r \in Seq(X), Len(r) = 1
  PROVE  Last(f \o r) = r[1]
<1>1. Len(f \o r) = Len(f) + 1
  BY ConcatProperties
<1>2. Len(f) \in Nat /\ Len(f) + 1 \in 1 .. Len(f) + Len(r)
  BY LenProperties
<1>3. (f \o r)[Len(f) + 1] = r[1]
  <2> DEFINE n == Len(f) + 1
  <2>1. /\ n \in 1 .. Len(f) + Len(r)
        /\ \A i \in 1 .. Len(f) + Len(r) :
             (f \o r)[i] = IF i <= Len(f) THEN f[i] ELSE r[i - Len(f)]
    BY <1>2, ConcatProperties
  <2>2. (f \o r)[n] = IF n <= Len(f) THEN f[n] ELSE r[n - Len(f)]
    BY <2>1
  <2>3. ~(n <= Len(f)) /\ n - Len(f) = 1
    BY <1>2
  <2> QED BY <2>2, <2>3
<1> QED BY <1>1, <1>3 DEF Last

LEMMA TopIsOwnSlot ==
  ASSUME IInv, NEW c \in Clients, NEW k \in Conns, conn[c] = k
  PROVE  Last(FreeWith({c})[k]) = slot[c]
<1> DEFINE q == SetToSeq(Seated({c}, k))
<1>1. Seated({c}, k) = {c}
  BY DEF Seated
<1>2. q \in Seq({c}) /\ IsInjective(q) /\ Range(q) = {c}
  BY <1>1, SeatedFinite, SetToSeqFacts
<1>3. Len(q) = 1 /\ q[1] = c
  <2> HIDE DEF q
  <2> QED BY <1>2, OneInARow
<1>4. Returned({c}, k) = [i \in 1 .. Len(q) |-> slot[q[i]]]
  BY DEF Returned
<1>5. slot[c] \in Slots /\ free[k] \in Seq(Slots)
  BY DEF IInv, TypeOK
<1>6. /\ Returned({c}, k) \in Seq(Slots)
      /\ Len(Returned({c}, k)) = 1 /\ Returned({c}, k)[1] = slot[c]
  <2> DEFINE r == Returned({c}, k)
  <2>1. r = [i \in 1 .. Len(q) |-> slot[q[i]]]
    BY <1>4
  <2> HIDE DEF q, r
  <2>2. DOMAIN r = 1 .. 1 /\ r[1] = slot[c] /\ r \in [1 .. 1 -> Slots]
    BY <1>3, <1>5, <2>1
  <2>3. r \in Seq(Slots)
    BY <2>2, SeqDef
  <2>4. Len(r) \in Nat /\ DOMAIN r = 1 .. Len(r)
    BY <2>3, LenProperties
  <2>5. Len(r) = 1
    BY <2>2, <2>4
  <2>6. r \in Seq(Slots) /\ Len(r) = 1 /\ r[1] = slot[c]
    BY <2>2, <2>3, <2>5
  <2> QED BY <2>6 DEF r
<1>7. FreeWith({c})[k] = free[k] \o Returned({c}, k)
  BY DEF FreeWith
<1> QED BY <1>5, <1>6, <1>7, LastOfOneMore

\* startMining on the socket c was on: Seat hands out the stack's top.
LEMMA SeatMoves ==
  ASSUME IInv, NEW c \in Clients, NEW l \in Listings, NEW k \in Conns, NEW counted \in BOOLEAN,
         NEW stack, Seat(c, l, k, stack, counted),
         conn[c] = k => Last(stack) = slot[c]
  PROVE  Kept /\ OwnMove
<1>1. /\ conn' = [conn EXCEPT ![c] = k] /\ slot' = [slot EXCEPT ![c] = Last(stack)]
      /\ conn \in [Clients -> Conns \cup {None}] /\ slot \in [Clients -> Slots]
  BY DEF Seat, IInv, TypeOK
<1> QED BY <1>1 DEF Kept, OwnMove

LEMMA StepMoves ==
  ASSUME IInv, [Next]_vars
  PROVE  Kept /\ OwnMove
<1>1. ASSUME UNCHANGED <<conn, slot>>
      PROVE  Kept /\ OwnMove
  BY <1>1 DEF Kept, OwnMove
<1>2. ASSUME NEW c \in Clients, StopMining({c}), UNCHANGED slot
      PROVE  Kept /\ OwnMove
  BY <1>2 DEF StopMining, Kept, OwnMove
<1>3. CASE UNCHANGED vars
  BY <1>1, <1>3 DEF vars, clientVars
<1>4. ASSUME NEW c \in Clients, AddClient(c)
      PROVE  Kept /\ OwnMove
  <2>1. conn[c] = None /\ conn' = conn /\ \A d \in Clients \ {c} : slot'[d] = slot[d]
    BY <1>4 DEF AddClient, IInv, TypeOK, Seating, SeatsAgree
  <2> QED BY <2>1 DEF Kept, OwnMove
<1>5. ASSUME NEW c \in Clients, RemoveClient(c) \/ Stop(c)
      PROVE  Kept /\ OwnMove
  BY <1>2, <1>5 DEF RemoveClient, Stop
<1>6. ASSUME NEW c \in Clients, CooldownEnds(c)
      PROVE  Kept /\ OwnMove
  BY <1>1, <1>6 DEF CooldownEnds
<1>7. ASSUME NEW c \in Clients, NEW l \in Listings, MineRefused(c, l) \/ MineTurnedAway(c, l)
      PROVE  Kept /\ OwnMove
  BY <1>1, <1>2, <1>7 DEF MineRefused, MineTurnedAway
<1>8. ASSUME NEW c \in Clients, NEW l \in Listings, NEW k \in Conns, NEW counted \in BOOLEAN,
             MineJoins(c, l, k, counted)
      PROVE  Kept /\ OwnMove
  BY <1>8, TopIsOwnSlot, SeatMoves DEF MineJoins
<1>9. ASSUME NEW c \in Clients, NEW l \in Listings, NEW k \in Conns, NEW counted \in BOOLEAN,
             MineOpens(c, l, k, counted)
      PROVE  Kept /\ OwnMove
  <2>1. conn[c] # k
    BY <1>9, PlacementAssumption DEF MineOpens, IInv, Seating, SeatsAgree
  <2> QED BY <1>9, <2>1, SeatMoves DEF MineOpens
<1>10. ASSUME NEW l \in Listings, Takedown(l)
       PROVE  Kept /\ OwnMove
  BY <1>10 DEF Takedown, StopMining, MinersOf, Kept, OwnMove
<1>11. ASSUME NEW k \in Conns,
              IdleFires(k) \/ PoolError(k) \/ DialSucceeds(k) \/ DialFails(k)
                \/ LinkDrops(k) \/ Redial(k) \/ CountAccepted(k)
       PROVE  Kept /\ OwnMove
  BY <1>1, <1>11 DEF IdleFires, PoolError, DialSucceeds, DialFails, LinkDrops, Redial,
                     CountAccepted, clientVars
<1>12. CASE Thaw \/ TuneConnections
  BY <1>1, <1>12 DEF Thaw, TuneConnections, clientVars
<1> QED BY <1>3, <1>4, <1>5, <1>6, <1>7, <1>8, <1>9, <1>10, <1>11, <1>12 DEF Next

\* A miner reseated where it was gets the slot its last work was built on, and no
\* visitor's step moves another's seat but the removal of the listing both mine.
THEOREM SeatsAlwaysStayPut == Spec => SeatsStayPut
<1>1. IInv /\ [Next]_vars => [Kept]_vars /\ [OwnMove]_vars
  BY StepMoves
<1> QED BY <1>1, Invariance, PTL
        DEF Spec, SeatsStayPut, SameSocketSameSlot, SeatsAreOwn, Kept, OwnMove

-----------------------------------------------------------------------------
(* Sockets as links.                                                       *)

\* A socket that waits to dial again is one the hub holds.
LinkIInv == IInv /\ \A k \in Conns : link[k] = "down" => k \in connections

\* What one step is to one socket, seen from the hub.
LinkStep(k) == LinkOf(k)!Next \/ UNCHANGED <<link[k], k \in connections>>

LEMMA LinksStep ==
  ASSUME LinkIInv, [Next]_vars
  PROVE  /\ \A k \in Conns : LinkStep(k)
         /\ \A k \in Conns : link'[k] = "down" => k \in connections'
<1>0. TypeOK /\ EmptyHasTimer /\ link \in [Conns -> LinkStates] /\ connections \subseteq Conns
  BY DEF LinkIInv, IInv, Seating, TypeOK
<1> SUFFICES ASSUME NEW k \in Conns
             PROVE  LinkStep(k) /\ (link'[k] = "down" => k \in connections')
  OBVIOUS
<1>1. link[k] = "down" => k \in connections
  BY DEF LinkIInv
<1>2. ASSUME link'[k] = link[k], k \in connections' <=> k \in connections
      PROVE  LinkStep(k) /\ (link'[k] = "down" => k \in connections')
  BY <1>1, <1>2 DEF LinkStep
<1>3. CASE UNCHANGED <<link, connections>>
  BY <1>2, <1>3
<1>4. ASSUME NEW c \in Clients, NEW l \in Listings, NEW j \in Conns, NEW counted \in BOOLEAN,
             MineOpens(c, l, j, counted)
      PROVE  LinkStep(k) /\ (link'[k] = "down" => k \in connections')
  <2>1. /\ j \notin connections /\ link[j] = "none"
        /\ connections' = connections \cup {j} /\ link' = [link EXCEPT ![j] = "dialing"]
    BY <1>4 DEF MineOpens
  <2>2. CASE j = k
    <3>1. link'[k] = "dialing" /\ (k \in connections') = TRUE /\ k \notin connections /\ link[k] = "none"
      BY <1>0, <2>1, <2>2
    <3>2. LinkOf(k)!Open
      BY <3>1 DEF LinkOf!Open
    <3> QED BY <3>1, <3>2 DEF LinkStep, LinkOf!Next
  <2>3. CASE j # k
    BY <1>0, <1>2, <2>1, <2>3
  <2> QED BY <2>2, <2>3
<1>5. ASSUME NEW j \in Conns, DialSucceeds(j)
      PROVE  LinkStep(k) /\ (link'[k] = "down" => k \in connections')
  <2>1. link[j] = "dialing" /\ link' = [link EXCEPT ![j] = "up"] /\ connections' = connections
    BY <1>5 DEF DialSucceeds
  <2>2. CASE j = k
    <3>1. link[k] = "dialing" /\ link'[k] = "up"
      BY <1>0, <2>1, <2>2
    <3> QED BY <2>1, <3>1 DEF LinkStep, LinkOf!Next, LinkOf!DialSucceeds
  <2>3. CASE j # k
    BY <1>0, <1>2, <2>1, <2>3
  <2> QED BY <2>2, <2>3
<1>6. ASSUME NEW j \in Conns, DialFails(j) \/ LinkDrops(j)
      PROVE  LinkStep(k) /\ (link'[k] = "down" => k \in connections')
  <2>1. /\ link[j] \in {"dialing", "up"} /\ connections' = connections
        /\ link' = [link EXCEPT ![j] = IF j \in connections THEN "down" ELSE "none"]
    BY <1>6 DEF DialFails, LinkDrops, AfterLoss
  <2>2. CASE j = k
    <3>1. link[k] \in {"dialing", "up"} /\ link'[k] = IF k \in connections THEN "down" ELSE "none"
      BY <1>0, <2>1, <2>2
    <3> QED BY <2>1, <3>1 DEF LinkStep, LinkOf!Next, LinkOf!Lost, LinkOf!AfterLoss
  <2>3. CASE j # k
    BY <1>0, <1>2, <2>1, <2>3
  <2> QED BY <2>2, <2>3
<1>7. ASSUME NEW j \in Conns, Redial(j)
      PROVE  LinkStep(k) /\ (link'[k] = "down" => k \in connections')
  <2>1. link[j] = "down" /\ link' = [link EXCEPT ![j] = "dialing"] /\ connections' = connections
    BY <1>7 DEF Redial
  <2>2. CASE j = k
    <3>1. link[k] = "down" /\ link'[k] = "dialing" /\ k \in connections
      BY <1>0, <1>1, <2>1, <2>2
    <3> QED BY <2>1, <3>1 DEF LinkStep, LinkOf!Next, LinkOf!Redial
  <2>3. CASE j # k
    BY <1>0, <1>2, <2>1, <2>3
  <2> QED BY <2>2, <2>3
<1>8. ASSUME NEW j \in Conns, IdleFires(j)
      PROVE  LinkStep(k) /\ (link'[k] = "down" => k \in connections')
  <2>1. j \in connections
    BY <1>0, <1>8 DEF IdleFires, EmptyHasTimer
  <2>2. CASE miners[j] # {} \/ j # k
    BY <1>0, <1>2, <1>8, <2>2 DEF IdleFires
  <2>3. CASE miners[j] = {} /\ j = k
    <3>1. /\ link'[k] = (IF link[k] = "dialing" THEN link[k] ELSE "none")
          /\ k \in connections /\ k \notin connections'
      BY <1>0, <1>8, <2>1, <2>3 DEF IdleFires
    <3>2. LinkOf(k)!GiveUp
      BY <3>1 DEF LinkOf!GiveUp
    <3> QED BY <3>1, <3>2 DEF LinkStep, LinkOf!Next
  <2> QED BY <2>2, <2>3
<1>9. CASE \/ UNCHANGED vars \/ Thaw \/ TuneConnections
           \/ \E c \in Clients : AddClient(c) \/ RemoveClient(c) \/ Stop(c) \/ CooldownEnds(c)
           \/ \E c \in Clients, l \in Listings : MineRefused(c, l) \/ MineTurnedAway(c, l)
           \/ \E c \in Clients, l \in Listings, j \in Conns, counted \in BOOLEAN : MineJoins(c, l, j, counted)
           \/ \E l \in Listings : Takedown(l)
           \/ \E j \in Conns : PoolError(j) \/ CountAccepted(j)
  <2>1. UNCHANGED <<link, connections>>
    BY <1>9 DEF vars, connVars, Thaw, TuneConnections, AddClient, RemoveClient, Stop, CooldownEnds,
       MineRefused, MineTurnedAway, MineJoins, Takedown, PoolError, CountAccepted
  <2> QED BY <1>3, <2>1
<1> QED BY <1>4, <1>5, <1>6, <1>7, <1>8, <1>9 DEF Next

\* Seen from the hub, every pool socket is at every moment what Stratum's client
\* promises to be: opened while there is nothing of it, redialled only while held,
\* and given up with a dial in flight.  For any visitors, sockets and limits.
THEOREM EverySocketIsALink == Spec => EachSocketIsALink
<1>1. Init => LinkIInv /\ \A k \in Conns : LinkOf(k)!Init
  <2>1. ASSUME Init, NEW k \in Conns
        PROVE  LinkOf(k)!Init /\ link[k] # "down"
    <3>1. link[k] = "none" /\ (k \in connections) = FALSE
      BY <2>1 DEF Init
    <3> QED BY <3>1 DEF LinkOf!Init
  <2> QED BY <2>1, InitSeating DEF LinkIInv
<1>2. LinkIInv /\ [Next]_vars => LinkIInv'
  BY NextSeating, LinksStep DEF LinkIInv
<1>3. LinkIInv /\ [Next]_vars =>
        [\A k \in Conns : LinkOf(k)!Next \/ UNCHANGED <<link[k], k \in connections>>]_vars
  BY LinksStep DEF LinkStep
<1> QED BY <1>1, <1>2, <1>3, PTL DEF Spec, EachSocketIsALink

-----------------------------------------------------------------------------
(* Hub: jobs, shares and credit.                                           *)

\* Every handler of the hub does to the seats what one action of Placement does.
LEMMA HubStep ==
  ASSUME TypeOK, [HubNext]_hubVars
  PROVE  [Next]_vars
<1>1. ASSUME NEW c \in Clients, OnOpen(c) \/ OnLeave(c) \/ OnCooldown(c)
      PROVE  Next
  BY <1>1 DEF OnOpen, OnLeave, OnCooldown, Next
<1>2. ASSUME NEW c \in Clients, NEW l \in Listings, NEW k \in Conns, NEW counted \in BOOLEAN,
             OnMine(c, l, k, counted) \/ OnMineOpens(c, l, k, counted)
      PROVE  Next
  BY <1>2 DEF OnMine, OnMineOpens, Next
<1>3. ASSUME NEW c \in Clients, NEW j \in JobIds, OnShare(c, j)
      PROVE  UNCHANGED vars
  BY <1>3 DEF OnShare
<1>4. ASSUME NEW c \in Clients, NEW j \in JobIds, CutOff(c, j)
      PROVE  Next
  BY <1>4 DEF CutOff, Next
<1>5. ASSUME NEW l \in Listings, OnTakedown(l)
      PROVE  Next
  BY <1>5 DEF OnTakedown, Next
<1>6. ASSUME NEW k \in Conns, OnIdle(k) \/ OnConnected(k) \/ OnDisconnected(k)
      PROVE  Next
  BY <1>6 DEF OnIdle, OnConnected, OnDisconnected, Next
<1>7. ASSUME NEW k \in Conns, OnSubscribed(k)
      PROVE  UNCHANGED vars
  BY <1>7 DEF OnSubscribed
<1>8. ASSUME NEW k \in Conns, NEW d \in Difficulties, OnDifficulty(k, d)
      PROVE  UNCHANGED vars
  BY <1>8 DEF OnDifficulty
<1>9. ASSUME NEW k \in Conns, NEW j \in JobIds, OnJob(k, j)
      PROVE  UNCHANGED vars
  BY <1>9 DEF OnJob
<1>10. ASSUME NEW s \in wire, OnRejected(s) \/ OnAcceptedUnknown(s)
       PROVE  UNCHANGED vars
  BY <1>10 DEF OnRejected, OnAcceptedUnknown
<1>11. ASSUME NEW s \in wire, OnAccepted(s)
       PROVE  Next
  <2>1. PICK m \in Owner(s) : CountAccepted(m.conn)
    BY <1>11 DEF OnAccepted
  <2>2. m.conn \in Conns
    BY <2>1 DEF CountAccepted, TypeOK
  <2> QED BY <2>1, <2>2 DEF Next
<1>12. CASE OnPoolWeather
  BY <1>12 DEF OnPoolWeather, Next
<1>13. CASE Flush \/ UNCHANGED hubVars
  BY <1>13 DEF Flush, hubVars
<1> QED BY <1>1, <1>2, <1>3, <1>4, <1>5, <1>6, <1>7, <1>8, <1>9, <1>10, <1>11,
           <1>12, <1>13 DEF HubNext, HubHandler

LEMMA HubSeating == HubSpec => []IInv
<1>1. HubInit => IInv
  BY InitSeating DEF HubInit
<1>2. IInv /\ [HubNext]_hubVars => IInv'
  BY HubStep, NextSeating DEF IInv
<1> QED BY <1>1, <1>2, PTL DEF HubSpec

\* The hub implements Placement: jobs and shares move no seat of their own.
THEOREM HubImplementsPlacement == HubSpec => Spec
<1>1. HubInit => Init
  BY DEF HubInit
<1>2. IInv /\ [HubNext]_hubVars => [Next]_vars
  BY HubStep DEF IInv
<1> QED BY <1>1, <1>2, HubSeating, PTL DEF HubSpec, Spec

\* With shares in flight and miners cut off, slots are still never shared or lost.
THEOREM HubNeverSharesSlots == HubSpec => []SlotLedger
BY HubImplementsPlacement, SlotsNeverShared, PTL

-----------------------------------------------------------------------------
(* Credit.                                                                 *)

CreditIInv ==
  /\ unflushed = [l \in Listings |-> unflushed[l]]
  /\ \A m \in submits : m.by \in Clients
  /\ NoOrphanCredit

\* Steps that credit nothing, drop no listing and record no submit.
LEMMA CreditFrame ==
  ASSUME CreditIInv, unflushed' = unflushed, listings' = listings, submits' \subseteq submits
  PROVE  CreditIInv'
BY DEF CreditIInv, NoOrphanCredit

LEMMA NextCredit ==
  ASSUME IInv, CreditIInv, [HubNext]_hubVars
  PROVE  CreditIInv'
<1> USE DEF Forget
<1>1. ASSUME NEW c \in Clients, OnOpen(c)
      PROVE  CreditIInv'
  BY <1>1, CreditFrame DEF OnOpen, AddClient
<1>2. ASSUME NEW c \in Clients, OnLeave(c)
      PROVE  CreditIInv'
  <2>1. listings' = listings
    BY <1>2 DEF OnLeave, RemoveClient, Stop, MineTurnedAway
  <2> QED BY <1>2, <2>1, CreditFrame DEF OnLeave
<1>3. ASSUME NEW c \in Clients, OnCooldown(c)
      PROVE  CreditIInv'
  <2>1. listings' = listings
    BY <1>3 DEF OnCooldown, CooldownEnds, MineRefused
  <2> QED BY <1>3, <2>1, CreditFrame DEF OnCooldown, shareVars
<1>4. ASSUME NEW c \in Clients, NEW l \in Listings, NEW k \in Conns, NEW counted \in BOOLEAN,
             OnMine(c, l, k, counted) \/ OnMineOpens(c, l, k, counted)
      PROVE  CreditIInv'
  <2>1. listings' = listings
    BY <1>4 DEF OnMine, OnMineOpens, MineJoins, MineOpens, Seat
  <2> QED BY <1>4, <2>1, CreditFrame DEF OnMine, OnMineOpens
<1>5. ASSUME NEW c \in Clients, NEW j \in JobIds, OnShare(c, j)
      PROVE  CreditIInv'
  <2>1. unflushed' = unflushed /\ listings' = listings
    BY <1>5 DEF OnShare, vars
  <2>2. submits' = submits \cup {[conn |-> conn[c], id |-> nextId[conn[c]], by |-> c]}
    BY <1>5 DEF OnShare
  <2> QED BY <2>1, <2>2 DEF CreditIInv, NoOrphanCredit
<1>6. ASSUME NEW c \in Clients, NEW j \in JobIds, CutOff(c, j)
      PROVE  CreditIInv'
  BY <1>6, CreditFrame DEF CutOff, Stop
<1>7. ASSUME NEW l \in Listings, OnTakedown(l)
      PROVE  CreditIInv'
  <2>1. /\ unflushed' = [unflushed EXCEPT ![l] = NoCredit]
        /\ listings \ {l} \subseteq listings'
        /\ submits' \subseteq submits
    BY <1>7 DEF OnTakedown, CreditDropped, Takedown
  <2>2. unflushed' = [x \in Listings |-> IF x = l THEN NoCredit ELSE unflushed[x]]
    BY <2>1 DEF CreditIInv
  <2> QED BY <2>1, <2>2 DEF CreditIInv, NoOrphanCredit
<1>8. ASSUME NEW k \in Conns, OnIdle(k) \/ OnConnected(k) \/ OnDisconnected(k)
      PROVE  CreditIInv'
  <2>1. listings' = listings
    BY <1>8 DEF OnIdle, OnConnected, OnDisconnected, IdleFires, DialSucceeds, LinkDrops
  <2> QED BY <1>8, <2>1, CreditFrame DEF OnIdle, OnConnected, OnDisconnected, shareVars
<1>9. ASSUME NEW k \in Conns, OnSubscribed(k)
      PROVE  CreditIInv'
  BY <1>9, CreditFrame DEF OnSubscribed, vars, shareVars
<1>10. ASSUME NEW k \in Conns, NEW d \in Difficulties, OnDifficulty(k, d)
       PROVE  CreditIInv'
  BY <1>10, CreditFrame DEF OnDifficulty, vars
<1>11. ASSUME NEW k \in Conns, NEW j \in JobIds, OnJob(k, j)
       PROVE  CreditIInv'
  BY <1>11, CreditFrame DEF OnJob, vars
<1>12. ASSUME NEW s \in wire, OnRejected(s) \/ OnAcceptedUnknown(s)
       PROVE  CreditIInv'
  BY <1>12, CreditFrame DEF OnRejected, OnAcceptedUnknown, Answered, vars
<1>13. ASSUME NEW s \in wire, OnAccepted(s)
       PROVE  CreditIInv'
  <2>1. PICK m \in Owner(s) : CountAccepted(m.conn) /\ Credit(listing[m.by], diff[m.conn])
    BY <1>13 DEF OnAccepted
  <2>2. m \in submits /\ submits' \subseteq submits
    BY <1>13 DEF OnAccepted, Answered, Owner
  <2>3. listings' = listings
    BY <2>1 DEF CountAccepted
  <2>4. listing[m.by] # None => listing[m.by] \in listings
    BY <2>2 DEF CreditIInv, IInv, Seating, SeatsAgree
  <2>5. None \notin Listings
    BY PlacementAssumption
  <2>6. unflushed' = [l \in Listings |-> unflushed'[l]]
    BY <2>1 DEF Credit
  <2>7. ASSUME NEW l \in Listings, unflushed'[l] # NoCredit
        PROVE  l \in listings'
    <3>1. CASE l = listing[m.by]
      BY <3>1, <2>3, <2>4, <2>5
    <3>2. CASE l # listing[m.by]
      <4>1. unflushed'[l] = unflushed[l]
        BY <3>2, <2>1 DEF Credit
      <4> QED BY <4>1, <2>3, <2>7 DEF CreditIInv, NoOrphanCredit
    <3> QED BY <3>1, <3>2
  <2> QED BY <2>2, <2>6, <2>7 DEF CreditIInv, NoOrphanCredit
<1>14. CASE OnPoolWeather
  <2>1. listings' = listings
    BY <1>14 DEF OnPoolWeather, PoolError, DialFails, Redial, Thaw, TuneConnections
  <2> QED BY <1>14, <2>1, CreditFrame DEF OnPoolWeather, shareVars
<1>15. CASE Flush
  <2>1. /\ unflushed' = [l \in Listings |-> NoCredit]
        /\ submits' = submits
    BY <1>15 DEF Flush
  <2> QED BY <2>1 DEF CreditIInv, NoOrphanCredit
<1>16. CASE UNCHANGED hubVars
  BY <1>16, CreditFrame DEF hubVars, vars, shareVars
<1> QED BY <1>1, <1>2, <1>3, <1>4, <1>5, <1>6, <1>7, <1>8, <1>9, <1>10, <1>11,
           <1>12, <1>13, <1>14, <1>15, <1>16 DEF HubNext, HubHandler

\* A listing that was taken down leaves no counter behind, whatever its miners
\* had in flight: the flush that follows meets no missing row.
THEOREM CreditIsNeverOrphaned == HubSpec => []NoOrphanCredit
<1>1. HubInit => CreditIInv
  BY DEF HubInit, CreditIInv, NoOrphanCredit
<1>2. IInv /\ CreditIInv /\ [HubNext]_hubVars => CreditIInv'
  BY NextCredit
<1>3. CreditIInv => NoOrphanCredit
  BY DEF CreditIInv
<1> QED BY <1>1, <1>2, <1>3, HubSeating, PTL DEF HubSpec

-----------------------------------------------------------------------------
(* Whose answer it is: request ids are handed out once per PoolConnection, *)
(* and a record is kept only for a miner who still sits where it was made. *)

AnswerIInv ==
  /\ submits \in SUBSET Submit /\ wire \in SUBSET Sent /\ nextId \in [Conns -> Nat]
  /\ \A m \in submits : conn[m.by] = m.conn /\ m.id < nextId[m.conn]
  /\ \A s \in wire : s.conn \in connections /\ s.id < nextId[s.conn]
  /\ \A s \in wire : \A m \in Owner(s) : m.by = s.by

\* Steps that hand out no id, record no share and close no socket.
LEMMA AnswerFrame ==
  ASSUME AnswerIInv, nextId' = nextId, connections \subseteq connections',
         submits' \subseteq submits, wire' \subseteq wire,
         \A m \in submits' : conn'[m.by] = conn[m.by]
  PROVE  AnswerIInv'
BY DEF AnswerIInv, Owner

\* What Forget keeps belongs to miners outside L, and those keep their seats.
LEMMA ForgottenOrUnmoved ==
  ASSUME AnswerIInv, NEW L, Forget(L), \A c \in Clients \ L : conn'[c] = conn[c]
  PROVE  submits' \subseteq submits /\ \A m \in submits' : conn'[m.by] = conn[m.by]
BY DEF AnswerIInv, Forget, Submit

LEMMA OpeningAnswers ==
  ASSUME IInv, AnswerIInv, NEW c \in Clients, NEW l \in Listings, NEW k \in Conns,
         NEW counted \in BOOLEAN, OnMineOpens(c, l, k, counted)
  PROVE  AnswerIInv'
<1>1. /\ k \notin connections /\ connections' = connections \cup {k}
      /\ nextId' = [nextId EXCEPT ![k] = 1] /\ wire' = wire /\ Forget({c})
      /\ conn' = [conn EXCEPT ![c] = k] /\ conn \in [Clients -> Conns \cup {None}]
  BY DEF OnMineOpens, MineOpens, Seat, IInv, TypeOK
<1>2. submits' \subseteq submits /\ \A m \in submits' : conn'[m.by] = conn[m.by]
  BY <1>1, ForgottenOrUnmoved
<1>3. \A m \in submits' : m.conn # k
  BY <1>1, <1>2, PlacementAssumption DEF AnswerIInv, Submit, IInv, Seating, SeatsAgree
<1>4. \A s \in wire' : s.conn \in connections' /\ s.conn # k
  BY <1>1 DEF AnswerIInv
<1>5. nextId' \in [Conns -> Nat] /\ \A x \in Conns \ {k} : nextId'[x] = nextId[x]
  BY <1>1 DEF AnswerIInv
<1> QED BY <1>1, <1>2, <1>3, <1>4, <1>5 DEF AnswerIInv, Owner, Submit, Sent

LEMMA SharingAnswers ==
  ASSUME IInv, AnswerIInv, NEW c \in Clients, NEW j \in JobIds, OnShare(c, j)
  PROVE  AnswerIInv'
<1> DEFINE k == conn[c]
           id == nextId[k]
           mine == [conn |-> k, id |-> id, by |-> c]
           sent == [conn |-> k, id |-> id, by |-> c, listing |-> listing[c]]
<1>1. k \in Conns /\ k \in connections /\ listing[c] \in Listings \cup {None}
  BY DEF OnShare, MaySubmit, IInv, TypeOK, Seating, SeatsAgree
<1>2. /\ nextId' = [nextId EXCEPT ![k] = id + 1]
      /\ submits' = submits \cup {mine}
      /\ wire' \subseteq wire \cup {sent}
      /\ conn' = conn /\ connections' = connections
  BY DEF OnShare, vars, clientVars, connVars
<1>3. id \in Nat /\ mine \in Submit /\ sent \in Sent
  BY <1>1 DEF AnswerIInv, Submit, Sent
<1>4. /\ nextId' \in [Conns -> Nat] /\ nextId'[k] = id + 1
      /\ \A x \in Conns \ {k} : nextId'[x] = nextId[x]
  BY <1>1, <1>2, <1>3 DEF AnswerIInv
<1>5. submits' \in SUBSET Submit /\ wire' \in SUBSET Sent
  BY <1>2, <1>3 DEF AnswerIInv
<1>6. \A m \in submits' : conn'[m.by] = m.conn /\ m.id < nextId'[m.conn]
  BY <1>2, <1>3, <1>4 DEF AnswerIInv, Submit
<1>7. \A s \in wire' : s.conn \in connections' /\ s.id < nextId'[s.conn]
  BY <1>1, <1>2, <1>3, <1>4 DEF AnswerIInv, Sent
<1>8. ASSUME NEW s \in wire', NEW m \in submits', m.conn = s.conn, m.id = s.id
      PROVE  m.by = s.by
  <2>1. CASE s = sent /\ m = mine
    BY <2>1
  <2>2. CASE s = sent /\ m \in submits
    BY <1>3, <1>8, <2>2 DEF AnswerIInv
  <2>3. CASE s \in wire /\ m = mine
    BY <1>3, <1>8, <2>3 DEF AnswerIInv
  <2>4. CASE s \in wire /\ m \in submits
    BY <1>8, <2>4 DEF AnswerIInv, Owner
  <2> QED BY <1>2, <2>1, <2>2, <2>3, <2>4
<1> QED BY <1>4, <1>5, <1>6, <1>7, <1>8 DEF AnswerIInv, Owner

LEMMA NextAnswers ==
  ASSUME IInv, AnswerIInv, [HubNext]_hubVars
  PROVE  AnswerIInv'
<1> DEFINE Still == nextId' = nextId /\ connections' = connections /\ wire' \subseteq wire
<1>1. ASSUME Still, conn' = conn, submits' \subseteq submits
      PROVE  AnswerIInv'
  BY <1>1, AnswerFrame
<1>2. ASSUME Still, NEW L \in SUBSET Clients, StopMining(L), Forget(L)
      PROVE  AnswerIInv'
  <2>1. \A c \in Clients \ L : conn'[c] = conn[c]
    BY <1>2 DEF StopMining
  <2> QED BY <1>2, <2>1, ForgottenOrUnmoved, AnswerFrame
<1>3. ASSUME NEW c \in Clients, OnOpen(c)
      PROVE  AnswerIInv'
  BY <1>1, <1>3 DEF OnOpen, AddClient, connVars
<1>4. ASSUME NEW c \in Clients, OnLeave(c)
      PROVE  AnswerIInv'
  BY <1>2, <1>4 DEF OnLeave, RemoveClient, Stop, MineTurnedAway
<1>5. ASSUME NEW c \in Clients, OnCooldown(c)
      PROVE  AnswerIInv'
  BY <1>1, <1>5 DEF OnCooldown, CooldownEnds, MineRefused, connVars, shareVars
<1>6. ASSUME NEW c \in Clients, NEW l \in Listings, NEW k \in Conns, NEW counted \in BOOLEAN,
             OnMine(c, l, k, counted)
      PROVE  AnswerIInv'
  <2>1. /\ Still /\ Forget({c})
        /\ \A d \in Clients \ {c} : conn'[d] = conn[d]
    BY <1>6 DEF OnMine, MineJoins, Seat, IInv, TypeOK
  <2> QED BY <2>1, ForgottenOrUnmoved, AnswerFrame
<1>7. ASSUME NEW c \in Clients, NEW l \in Listings, NEW k \in Conns, NEW counted \in BOOLEAN,
             OnMineOpens(c, l, k, counted)
      PROVE  AnswerIInv'
  BY <1>7, OpeningAnswers
<1>8. ASSUME NEW c \in Clients, NEW j \in JobIds, OnShare(c, j)
      PROVE  AnswerIInv'
  BY <1>8, SharingAnswers
<1>9. ASSUME NEW c \in Clients, NEW j \in JobIds, CutOff(c, j)
      PROVE  AnswerIInv'
  BY <1>2, <1>9 DEF CutOff, Stop
<1>10. ASSUME NEW l \in Listings, OnTakedown(l)
       PROVE  AnswerIInv'
  <2>1. MinersOf(l) \in SUBSET Clients
    BY DEF MinersOf, IInv, TypeOK
  <2> QED BY <1>2, <1>10, <2>1 DEF OnTakedown, Takedown
<1>11. ASSUME NEW k \in Conns, OnIdle(k)
       PROVE  AnswerIInv'
  <2>1. /\ nextId' = nextId /\ submits' = submits /\ conn' = conn
        /\ wire' = {s \in wire : s.conn \in connections'}
    BY <1>11 DEF OnIdle, IdleFires, clientVars
  <2> QED BY <2>1 DEF AnswerIInv, Owner
<1>12. ASSUME NEW k \in Conns, OnConnected(k) \/ OnDisconnected(k)
       PROVE  AnswerIInv'
  BY <1>1, <1>12 DEF OnConnected, OnDisconnected, DialSucceeds, LinkDrops, clientVars, shareVars
<1>13. ASSUME NEW k \in Conns, OnSubscribed(k) \/ (\E d \in Difficulties : OnDifficulty(k, d))
                                \/ (\E j \in JobIds : OnJob(k, j))
       PROVE  AnswerIInv'
  BY <1>1, <1>13 DEF OnSubscribed, OnDifficulty, OnJob, vars, clientVars, connVars, shareVars
<1>14. ASSUME NEW s \in wire, OnRejected(s) \/ OnAcceptedUnknown(s)
       PROVE  AnswerIInv'
  BY <1>1, <1>14 DEF OnRejected, OnAcceptedUnknown, Answered, vars, clientVars, connVars
<1>15. ASSUME NEW s \in wire, OnAccepted(s)
       PROVE  AnswerIInv'
  BY <1>1, <1>15 DEF OnAccepted, CountAccepted, Answered, clientVars
<1>16. CASE OnPoolWeather
  BY <1>1, <1>16 DEF OnPoolWeather, PoolError, DialFails, Redial, Thaw, TuneConnections,
                     clientVars, connVars, shareVars
<1>17. CASE Flush \/ UNCHANGED hubVars
  BY <1>1, <1>17 DEF Flush, hubVars, vars, clientVars, connVars, shareVars
<1> QED BY <1>3, <1>4, <1>5, <1>6, <1>7, <1>8, <1>9, <1>10, <1>11, <1>12, <1>13,
           <1>14, <1>15, <1>16, <1>17 DEF HubNext, HubHandler

\* An answer finds the miner who found the share, still on the socket it came
\* from, or nobody; and what it credits is a listing that exists.
THEOREM NothingIsEverOrphaned == HubSpec => []NothingIsOrphaned
<1>1. HubInit => AnswerIInv
  BY DEF HubInit, AnswerIInv
<1>2. IInv /\ AnswerIInv /\ [HubNext]_hubVars => AnswerIInv'
  BY NextAnswers
<1>3. AnswerIInv /\ NoOrphanCredit => NothingIsOrphaned
  BY DEF AnswerIInv, NothingIsOrphaned, SubmitsAreSeated
<1> QED BY <1>1, <1>2, <1>3, HubSeating, CreditIsNeverOrphaned, PTL DEF HubSpec

-----------------------------------------------------------------------------
(* What everyone hashes.  A socket with no current job remembers none, so   *)
(* whoever sits there has nothing the hub would forward; a socket with one  *)
(* has sent it to everyone who sits there.                                  *)

\* The job message a seated miner should have been sent.
JobOf(c) == [conn |-> conn[c], job |-> current[conn[c]], ext |-> ext[conn[c]],
             slot |-> slot[c], diff |-> diff[conn[c]]]

JobTypes ==
  /\ jobs \in [Conns -> Seq(JobIds)] /\ current \in [Conns -> JobIds \cup {None}]
  /\ ext \in [Conns -> Nat] /\ session \in [Conns -> Nat] /\ diff \in [Conns -> Difficulties]

\* Of one socket: its jobs, its session, and whom it may have work for.
SocketIInv(k) ==
  /\ Len(jobs[k]) <= JobHistory
  /\ current[k] = None => jobs[k] = <<>>
  /\ current[k] # None => k \in connections /\ ext[k] # 0 /\ current[k] \in Range(jobs[k])
  /\ link[k] = "up" => session[k] # 0

WorkIInv ==
  /\ JobTypes /\ work \in [Clients -> Work \cup {None}]
  /\ \A k \in Conns : SocketIInv(k)
  /\ \A c \in Clients : listing[c] # None /\ current[conn[c]] # None => work[c] = JobOf(c)

\* Steps that touch no job and no header: miners may leave, and none moves.
LEMMA WorkFrame ==
  ASSUME WorkIInv, UNCHANGED <<jobs, current, ext, diff>>,
         session' \in [Conns -> Nat], connections \subseteq connections',
         \A k \in Conns : link'[k] = "up" => session'[k] # 0,
         work' \in [Clients -> Work \cup {None}],
         \A c \in Clients : listing'[c] # None =>
           /\ listing[c] # None
           /\ conn'[c] = conn[c] /\ slot'[c] = slot[c] /\ work'[c] = work[c]
  PROVE  WorkIInv'
<1>1. JobTypes' /\ \A k \in Conns : SocketIInv(k)'
  BY DEF WorkIInv, JobTypes, SocketIInv
<1>2. ASSUME NEW c \in Clients, listing'[c] # None, current'[conn'[c]] # None
      PROVE  work'[c] = JobOf(c)'
  BY <1>2 DEF WorkIInv, JobOf
<1> QED BY <1>1, <1>2 DEF WorkIInv

\* Steps that touch no link and no session either.
LEMMA QuietFrame ==
  ASSUME IInv, WorkIInv, UNCHANGED <<jobVars, work, link, connections>>,
         \A c \in Clients : listing'[c] # None =>
           listing[c] # None /\ conn'[c] = conn[c] /\ slot'[c] = slot[c]
  PROVE  WorkIInv'
<1>1. /\ UNCHANGED <<jobs, current, ext, diff>> /\ session' \in [Conns -> Nat]
      /\ work' \in [Clients -> Work \cup {None}]
      /\ \A k \in Conns : link'[k] = "up" => session'[k] # 0
  BY DEF jobVars, WorkIInv, JobTypes, SocketIInv
<1>2. connections \subseteq connections' /\ work' = work
  OBVIOUS
<1> QED BY <1>1, <1>2, WorkFrame

LEMMA StoppingKeepsWork ==
  ASSUME IInv, WorkIInv, NEW L, StopMining(L), UNCHANGED <<slot, jobVars, work, link, connections>>
  PROVE  WorkIInv'
<1>1. \A c \in Clients : listing'[c] # None =>
        listing[c] # None /\ conn'[c] = conn[c] /\ slot'[c] = slot[c]
  BY DEF StopMining
<1> QED BY <1>1, QuietFrame

\* What a broadcast sends is a job message.
LEMMA MessageType ==
  ASSUME JobTypes', TypeOK', NEW c \in Clients, NEW k \in Conns, current'[k] # None
  PROVE  JobFor(c, k) \in Work
BY DEF JobTypes, TypeOK, JobFor, Work

LEMMA JoiningGetsWork ==
  ASSUME IInv, TypeOK', WorkIInv, NEW c \in Clients, NEW l \in Listings, NEW k \in Conns,
         NEW counted \in BOOLEAN, OnMine(c, l, k, counted)
  PROVE  WorkIInv'
<1> DEFINE L == IF counted THEN {c} ELSE {}
<1>1. /\ UNCHANGED <<jobVars, link, connections>> /\ Broadcast(k, L)
      /\ conn' = [conn EXCEPT ![c] = k] /\ listing' = [listing EXCEPT ![c] = IF counted THEN l ELSE None]
      /\ \A d \in Clients : d # c => slot'[d] = slot[d]
  BY DEF OnMine, MineJoins, Seat, IInv, TypeOK
<1>2. JobTypes' /\ (\A x \in Conns : SocketIInv(x)')
  BY <1>1 DEF WorkIInv, JobTypes, SocketIInv, jobVars
<1>3. /\ work' = [d \in Clients |->
                    IF d \in L /\ ext'[k] # 0 /\ current'[k] # None THEN JobFor(d, k) ELSE work[d]]
      /\ UNCHANGED <<jobs, current, ext, diff>>
  BY <1>1 DEF Broadcast, jobVars
<1>4. work' \in [Clients -> Work \cup {None}]
  BY <1>2, <1>3, MessageType DEF WorkIInv
<1>5. ASSUME NEW d \in Clients, listing'[d] # None, current'[conn'[d]] # None
      PROVE  work'[d] = JobOf(d)'
  <2>1. conn \in [Clients -> Conns \cup {None}] /\ listing \in [Clients -> Listings \cup {None}]
    BY DEF IInv, TypeOK
  <2>2. CASE d # c
    <3>1. conn'[d] = conn[d] /\ listing'[d] = listing[d] /\ slot'[d] = slot[d] /\ work'[d] = work[d]
      BY <1>1, <1>3, <2>1, <2>2
    <3>2. work[d] = JobOf(d)
      BY <1>3, <1>5, <3>1 DEF WorkIInv
    <3> QED BY <1>3, <3>1, <3>2 DEF JobOf
  <2>3. CASE d = c
    <3>1. conn'[c] = k /\ counted
      BY <1>1, <1>5, <2>1, <2>3
    <3>2. ext'[k] # 0 /\ current'[k] # None
      BY <1>2, <1>5, <2>3, <3>1 DEF SocketIInv
    <3>3. work'[c] = JobFor(c, k)
      BY <1>3, <3>1, <3>2
    <3> QED BY <2>3, <3>1, <3>3 DEF JobFor, JobOf
  <2> QED BY <2>2, <2>3
<1> QED BY <1>2, <1>4, <1>5 DEF WorkIInv

LEMMA OpeningHasNoWork ==
  ASSUME IInv, WorkIInv, NEW c \in Clients, NEW l \in Listings, NEW k \in Conns,
         NEW counted \in BOOLEAN, OnMineOpens(c, l, k, counted)
  PROVE  WorkIInv'
<1>1. /\ UNCHANGED <<jobVars, work>> /\ k \notin connections /\ connections' = connections \cup {k}
      /\ conn' = [conn EXCEPT ![c] = k] /\ listing' = [listing EXCEPT ![c] = IF counted THEN l ELSE None]
      /\ link' = [link EXCEPT ![k] = "dialing"]
      /\ \A d \in Clients : d # c => slot'[d] = slot[d]
  BY DEF OnMineOpens, MineOpens, Seat, IInv, TypeOK
<1>2. JobTypes' /\ work' \in [Clients -> Work \cup {None}] /\ UNCHANGED <<jobs, current, ext, diff>>
  BY <1>1 DEF WorkIInv, JobTypes, jobVars
<1>3. \A x \in Conns : link'[x] = "up" => link[x] = "up"
  BY <1>1 DEF IInv, TypeOK
<1>4. \A x \in Conns : SocketIInv(x)'
  BY <1>1, <1>3 DEF WorkIInv, SocketIInv, jobVars
<1>5. current[k] = None
  BY <1>1 DEF WorkIInv, SocketIInv
<1>6. ASSUME NEW d \in Clients, listing'[d] # None, current'[conn'[d]] # None
      PROVE  work'[d] = JobOf(d)'
  <2>1. conn \in [Clients -> Conns \cup {None}] /\ listing \in [Clients -> Listings \cup {None}]
    BY DEF IInv, TypeOK
  <2>2. d # c
    BY <1>1, <1>2, <1>5, <1>6, <2>1
  <2>3. conn'[d] = conn[d] /\ listing'[d] = listing[d] /\ slot'[d] = slot[d]
    BY <1>1, <2>1, <2>2
  <2> QED BY <1>1, <1>2, <1>6, <2>3 DEF WorkIInv, JobOf
<1> QED BY <1>2, <1>4, <1>6 DEF WorkIInv

\* An idle socket nobody sits on goes, and its jobs with it.
LEMMA ClosingKeepsWork ==
  ASSUME IInv, WorkIInv, NEW k \in Conns, OnIdle(k)
  PROVE  WorkIInv'
<1>1. miners[k] = {} /\ k \in connections
  BY DEF OnIdle, IdleFires, IInv, Seating, EmptyHasTimer
<1>2. /\ connections' = connections \ {k} /\ k \notin connections'
      /\ UNCHANGED <<listing, conn, slot, work, session>>
      /\ link' = [link EXCEPT ![k] = IF @ = "dialing" THEN @ ELSE "none"]
  BY <1>1 DEF OnIdle, IdleFires, clientVars
<1>3. /\ jobs' = [jobs EXCEPT ![k] = <<>>] /\ current' = [current EXCEPT ![k] = None]
      /\ ext' = [ext EXCEPT ![k] = 0] /\ diff' = [diff EXCEPT ![k] = FirstDifficulty]
  BY <1>2 DEF OnIdle, Renew
<1>4. JobTypes'
  BY <1>2, <1>3, HubAssumption DEF WorkIInv, JobTypes
<1>5. link'[k] # "up" /\ \A x \in Conns : x # k => link'[x] = link[x]
  BY <1>2 DEF IInv, TypeOK
<1>6. SocketIInv(k)'
  BY <1>3, <1>5, HubAssumption DEF SocketIInv, WorkIInv, JobTypes
<1>7. ASSUME NEW x \in Conns, x # k
      PROVE  /\ SocketIInv(x)'
             /\ UNCHANGED <<jobs[x], current[x], ext[x], diff[x]>>
  <2>1. UNCHANGED <<jobs[x], current[x], ext[x], diff[x]>>
    BY <1>3, <1>7 DEF WorkIInv, JobTypes
  <2> QED BY <1>2, <1>5, <1>7, <2>1 DEF SocketIInv, WorkIInv
<1>8. ASSUME NEW c \in Clients, listing'[c] # None, current'[conn'[c]] # None
      PROVE  work'[c] = JobOf(c)'
  <2>1. conn[c] \in Conns /\ conn[c] # k
    BY <1>1, <1>2, <1>8 DEF IInv, TypeOK, Seating, SeatsAgree
  <2> QED BY <1>2, <1>7, <1>8, <2>1 DEF WorkIInv, JobOf
<1> QED BY <1>2, <1>4, <1>6, <1>7, <1>8 DEF WorkIInv

\* A fresh extranonce1: no job of the old one is left to forward.
LEMMA SubscribingKeepsWork ==
  ASSUME IInv, WorkIInv, NEW k \in Conns, OnSubscribed(k)
  PROVE  WorkIInv'
<1>1. /\ ext' = [ext EXCEPT ![k] = session[k]] /\ jobs' = [jobs EXCEPT ![k] = <<>>]
      /\ current' = [current EXCEPT ![k] = None]
      /\ UNCHANGED <<listing, conn, slot, connections, link, work, diff, session>>
  BY DEF OnSubscribed, JobsForgotten, vars, clientVars, connVars, shareVars
<1>2. JobTypes'
  BY <1>1 DEF WorkIInv, JobTypes
<1>3. SocketIInv(k)'
  BY <1>1, HubAssumption DEF SocketIInv, WorkIInv, JobTypes
<1>4. ASSUME NEW x \in Conns, x # k
      PROVE  /\ SocketIInv(x)'
             /\ UNCHANGED <<jobs[x], current[x], ext[x]>>
  <2>1. UNCHANGED <<jobs[x], current[x], ext[x]>>
    BY <1>1, <1>4 DEF WorkIInv, JobTypes
  <2> QED BY <1>1, <1>4, <2>1 DEF SocketIInv, WorkIInv
<1>5. ASSUME NEW c \in Clients, listing'[c] # None, current'[conn'[c]] # None
      PROVE  work'[c] = JobOf(c)'
  <2>1. conn[c] \in Conns
    BY <1>1, <1>5 DEF IInv, TypeOK, Seating, SeatsAgree
  <2>2. conn[c] # k
    BY <1>1, <1>5, <2>1 DEF WorkIInv, JobTypes
  <2> QED BY <1>1, <1>4, <1>5, <2>1, <2>2 DEF WorkIInv, JobOf
<1> QED BY <1>1, <1>2, <1>3, <1>4, <1>5 DEF WorkIInv

LEMMA Remembering ==
  ASSUME NEW known \in Seq(JobIds), Len(known) <= JobHistory, NEW j \in JobIds
  PROVE  /\ Remember(known, j) \in Seq(JobIds)
         /\ Len(Remember(known, j)) <= JobHistory
         /\ j \in Range(Remember(known, j))
<1>0. JobHistory \in Nat \ {0}
  BY HubAssumption
<1>1. CASE j \in Range(known)
  BY <1>0, <1>1 DEF Remember
<1>2. CASE j \notin Range(known)
  <2> DEFINE g == Append(known, j)
  <2>1. g \in Seq(JobIds) /\ Len(g) = Len(known) + 1 /\ g[Len(g)] = j /\ Len(known) \in Nat
    OBVIOUS
  <2>2. CASE Len(g) > JobHistory
    <3>1. Remember(known, j) = Tail(g)
      BY <1>2, <2>2 DEF Remember
    <3>2. Tail(g) \in Seq(JobIds) /\ Len(Tail(g)) = Len(known) /\ Len(known) >= 1
      BY <1>0, <2>1, <2>2
    <3>3. Len(known) \in DOMAIN Tail(g) /\ Tail(g)[Len(known)] = j
      BY <2>1, <3>2
    <3> QED BY <3>1, <3>2, <3>3 DEF Range
  <2>3. CASE ~(Len(g) > JobHistory)
    <3>1. Remember(known, j) = g
      BY <1>2, <2>3 DEF Remember
    <3>2. Len(g) \in DOMAIN g
      BY <2>1
    <3> QED BY <1>0, <2>1, <2>3, <3>1, <3>2 DEF Range
  <2> QED BY <2>2, <2>3
<1> QED BY <1>1, <1>2

\* A socket that tells all its miners of what has changed keeps them current.
LEMMA TellingAllKeepsWork ==
  ASSUME IInv, TypeOK', WorkIInv, NEW k \in Conns, Broadcast(k, miners[k]), JobTypes', SocketIInv(k)',
         UNCHANGED <<listing, conn, slot, connections, link, ext, session>>,
         \A x \in Conns : x # k => UNCHANGED <<jobs[x], current[x], diff[x]>>
  PROVE  WorkIInv'
<1>1. work' = [c \in Clients |->
        IF c \in miners[k] /\ ext'[k] # 0 /\ current'[k] # None THEN JobFor(c, k) ELSE work[c]]
  BY DEF Broadcast
<1>2. work' \in [Clients -> Work \cup {None}]
  BY <1>1, MessageType DEF WorkIInv
<1>3. \A x \in Conns : SocketIInv(x)'
  BY DEF SocketIInv, WorkIInv
<1>4. ASSUME NEW c \in Clients, listing'[c] # None, current'[conn'[c]] # None
      PROVE  work'[c] = JobOf(c)'
  <2>1. conn'[c] = conn[c] /\ conn[c] \in Conns /\ (c \in miners[k] <=> conn[c] = k)
    BY <1>4 DEF IInv, TypeOK, Seating, SeatsAgree
  <2>2. CASE conn[c] = k
    <3>1. ext'[k] # 0 /\ current'[k] # None
      BY <1>3, <1>4, <2>1, <2>2 DEF SocketIInv
    <3>2. work'[c] = JobFor(c, k)
      BY <1>1, <2>1, <2>2, <3>1
    <3> QED BY <2>1, <2>2, <3>2 DEF JobFor, JobOf
  <2>3. CASE conn[c] # k
    <3>1. work'[c] = work[c]
      BY <1>1, <2>1, <2>3
    <3>2. UNCHANGED <<current[conn[c]], diff[conn[c]]>>
      BY <2>1, <2>3
    <3> QED BY <1>4, <2>1, <3>1, <3>2 DEF WorkIInv, JobOf
  <2> QED BY <2>2, <2>3
<1> QED BY <1>2, <1>3, <1>4 DEF WorkIInv

LEMMA PoolWorkKeepsWork ==
  ASSUME IInv, TypeOK', WorkIInv, NEW k \in Conns,
         (\E d \in Difficulties : OnDifficulty(k, d)) \/ (\E j \in JobIds : OnJob(k, j))
  PROVE  WorkIInv'
<1>0. /\ Subscribed(k) /\ UNCHANGED <<listing, conn, slot, connections, link, ext, session>>
      /\ Broadcast(k, miners[k])
  BY DEF OnDifficulty, OnJob, vars, clientVars, connVars
<1>1. ASSUME NEW d \in Difficulties, OnDifficulty(k, d)
      PROVE  WorkIInv'
  <2>1. diff' = [diff EXCEPT ![k] = d] /\ UNCHANGED <<jobs, current>>
    BY <1>1 DEF OnDifficulty
  <2>2. JobTypes' /\ SocketIInv(k)' /\ \A x \in Conns : x # k => UNCHANGED <<jobs[x], current[x], diff[x]>>
    BY <1>0, <2>1 DEF WorkIInv, JobTypes, SocketIInv
  <2> QED BY <1>0, <2>2, TellingAllKeepsWork
<1>2. ASSUME NEW j \in JobIds, OnJob(k, j)
      PROVE  WorkIInv'
  <2>1. /\ jobs' = [jobs EXCEPT ![k] = Remember(@, j)] /\ current' = [current EXCEPT ![k] = j]
        /\ diff' = diff
    BY <1>2 DEF OnJob
  <2>2. /\ Remember(jobs[k], j) \in Seq(JobIds) /\ Len(Remember(jobs[k], j)) <= JobHistory
        /\ j \in Range(Remember(jobs[k], j))
    BY Remembering DEF WorkIInv, JobTypes, SocketIInv
  <2>3. JobTypes' /\ \A x \in Conns : x # k => UNCHANGED <<jobs[x], current[x], diff[x]>>
    BY <1>0, <2>1, <2>2 DEF WorkIInv, JobTypes
  <2>4. jobs'[k] = Remember(jobs[k], j) /\ current'[k] = j /\ j # None
    BY <2>1, HubAssumption DEF WorkIInv, JobTypes
  <2>5. k \in connections /\ link[k] = "up" /\ ext[k] = session[k] /\ session[k] # 0
    BY <1>0 DEF Subscribed, Listening, WorkIInv, SocketIInv
  <2>6. SocketIInv(k)'
    BY <1>0, <2>2, <2>4, <2>5 DEF SocketIInv
  <2> QED BY <1>0, <2>3, <2>6, TellingAllKeepsWork
<1> QED BY <1>1, <1>2

\* A link goes up only with a new session; every other change of it is downwards.
LEMMA LinksKeepWork ==
  ASSUME IInv, WorkIInv,
         OnPoolWeather \/ \E k \in Conns : OnConnected(k) \/ OnDisconnected(k)
  PROVE  WorkIInv'
<1> DEFINE Still == UNCHANGED <<listing, conn, slot, connections, work, jobs, current, ext, diff>>
<1>0. ASSUME Still, session' \in [Conns -> Nat], \A x \in Conns : link'[x] = "up" => session'[x] # 0
      PROVE  WorkIInv'
  <2>1. work' \in [Clients -> Work \cup {None}]
    BY <1>0 DEF WorkIInv
  <2>2. \A c \in Clients : listing'[c] # None =>
          /\ listing[c] # None
          /\ conn'[c] = conn[c] /\ slot'[c] = slot[c] /\ work'[c] = work[c]
    BY <1>0
  <2>3. connections \subseteq connections' /\ UNCHANGED <<jobs, current, ext, diff>>
    BY <1>0
  <2> QED BY <1>0, <2>1, <2>2, <2>3, WorkFrame
<1>1. ASSUME NEW k \in Conns, OnConnected(k)
      PROVE  WorkIInv'
  <2>1. /\ session' = [session EXCEPT ![k] = @ + 1] /\ link' = [link EXCEPT ![k] = "up"] /\ Still
    BY <1>1 DEF OnConnected, DialSucceeds, clientVars, shareVars
  <2>2. session \in [Conns -> Nat] /\ link \in [Conns -> LinkStates]
    BY DEF WorkIInv, JobTypes, IInv, TypeOK
  <2>3. session' \in [Conns -> Nat] /\ session'[k] # 0
    BY <2>1, <2>2
  <2>4. \A x \in Conns : x # k => session'[x] = session[x] /\ link'[x] = link[x]
    BY <2>1, <2>2
  <2>5. \A x \in Conns : link'[x] = "up" => session'[x] # 0
    BY <2>3, <2>4 DEF WorkIInv, SocketIInv
  <2> QED BY <1>0, <2>1, <2>3, <2>5
<1>2. ASSUME Still, session' = session, \A x \in Conns : link'[x] = "up" => link[x] = "up"
      PROVE  WorkIInv'
  <2>1. session' \in [Conns -> Nat] /\ \A x \in Conns : link'[x] = "up" => session'[x] # 0
    BY <1>2 DEF WorkIInv, JobTypes, SocketIInv
  <2> QED BY <1>0, <1>2, <2>1
<1>3. ASSUME NEW k \in Conns, OnDisconnected(k)
      PROVE  WorkIInv'
  <2>1. Still /\ session' = session /\ link' = [link EXCEPT ![k] = AfterLoss(k)]
    BY <1>3 DEF OnDisconnected, LinkDrops, clientVars, jobVars
  <2>2. \A x \in Conns : link'[x] = "up" => link[x] = "up"
    BY <2>1 DEF AfterLoss, IInv, TypeOK
  <2> QED BY <1>2, <2>1, <2>2
<1>4. CASE OnPoolWeather
  <2>1. Still /\ session' = session
    BY <1>4 DEF OnPoolWeather, PoolError, DialFails, Redial, Thaw, TuneConnections,
       clientVars, connVars, shareVars, jobVars
  <2>2. \A x \in Conns : link'[x] = "up" => link[x] = "up"
    <3>1. link' = link \/ \E k \in Conns : link' = [link EXCEPT ![k] = AfterLoss(k)]
                                           \/ link' = [link EXCEPT ![k] = "dialing"]
      BY <1>4 DEF OnPoolWeather, PoolError, DialFails, Redial, Thaw, TuneConnections, connVars
    <3> QED BY <3>1 DEF AfterLoss, IInv, TypeOK
  <2> QED BY <1>2, <2>1, <2>2
<1> QED BY <1>1, <1>3, <1>4

LEMMA NextWork ==
  ASSUME IInv, WorkIInv, [HubNext]_hubVars
  PROVE  WorkIInv'
<1>0. TypeOK'
  BY HubStep, NextSeating DEF IInv
<1>1. ASSUME NEW c \in Clients, OnOpen(c)
      PROVE  WorkIInv'
  <2>1. /\ work' = [work EXCEPT ![c] = None] /\ slot' = [slot EXCEPT ![c] = 0] /\ c \notin clients
        /\ UNCHANGED <<listing, conn, connections, link, jobs, current, ext, diff, session>>
    BY <1>1 DEF OnOpen, AddClient, connVars, jobVars
  <2>2. listing[c] = None
    BY <2>1 DEF IInv, Seating, SeatsAgree
  <2>3. work' \in [Clients -> Work \cup {None}]
    BY <2>1 DEF WorkIInv
  <2>4. \A d \in Clients : listing'[d] # None =>
          /\ listing[d] # None
          /\ conn'[d] = conn[d] /\ slot'[d] = slot[d] /\ work'[d] = work[d]
    BY <2>1, <2>2 DEF WorkIInv, IInv, TypeOK
  <2>5. /\ session' \in [Conns -> Nat] /\ connections \subseteq connections'
        /\ \A k \in Conns : link'[k] = "up" => session'[k] # 0
    BY <2>1 DEF WorkIInv, JobTypes, SocketIInv
  <2> QED BY <2>1, <2>3, <2>4, <2>5, WorkFrame
<1>2. ASSUME NEW c \in Clients, OnLeave(c) \/ \E j \in JobIds : CutOff(c, j)
      PROVE  WorkIInv'
  <2>1. StopMining({c}) /\ UNCHANGED <<slot, jobVars, work, link, connections>>
    BY <1>2 DEF OnLeave, CutOff, RemoveClient, Stop, MineTurnedAway
  <2> QED BY <2>1, StoppingKeepsWork
<1>3. ASSUME NEW l \in Listings, OnTakedown(l)
      PROVE  WorkIInv'
  <2>1. StopMining(MinersOf(l)) /\ UNCHANGED <<slot, jobVars, work, link, connections>>
    BY <1>3 DEF OnTakedown, Takedown
  <2> QED BY <2>1, StoppingKeepsWork
<1>4. ASSUME UNCHANGED <<listing, conn, slot, jobVars, work, link, connections>>
      PROVE  WorkIInv'
  <2>1. \A c \in Clients : listing'[c] # None =>
          listing[c] # None /\ conn'[c] = conn[c] /\ slot'[c] = slot[c]
    BY <1>4
  <2>2. UNCHANGED <<jobVars, work, link, connections>>
    BY <1>4
  <2> QED BY <2>1, <2>2, QuietFrame
<1>5. ASSUME NEW c \in Clients, OnCooldown(c) \/ \E j \in JobIds : OnShare(c, j)
      PROVE  WorkIInv'
  <2>1. UNCHANGED <<listing, conn, slot, jobVars, work, link, connections>>
    BY <1>5 DEF OnCooldown, CooldownEnds, MineRefused, OnShare, vars, clientVars, connVars, shareVars
  <2> QED BY <1>4, <2>1
<1>6. ASSUME NEW s \in wire, OnRejected(s) \/ OnAcceptedUnknown(s) \/ OnAccepted(s)
      PROVE  WorkIInv'
  <2>1. UNCHANGED <<listing, conn, slot, jobVars, work, link, connections>>
    BY <1>6 DEF OnRejected, OnAcceptedUnknown, OnAccepted, Answered, CountAccepted, vars, clientVars, connVars
  <2> QED BY <1>4, <2>1
<1>7. CASE Flush \/ UNCHANGED hubVars
  <2>1. UNCHANGED <<listing, conn, slot, jobVars, work, link, connections>>
    BY <1>7 DEF Flush, hubVars, vars, clientVars, connVars, shareVars
  <2> QED BY <1>4, <2>1
<1>8. ASSUME NEW c \in Clients, NEW l \in Listings, NEW k \in Conns, NEW counted \in BOOLEAN,
             OnMine(c, l, k, counted) \/ OnMineOpens(c, l, k, counted)
      PROVE  WorkIInv'
  BY <1>0, <1>8, JoiningGetsWork, OpeningHasNoWork
<1> QED BY <1>0, <1>1, <1>2, <1>3, <1>5, <1>6, <1>7, <1>8, ClosingKeepsWork, SubscribingKeepsWork,
           PoolWorkKeepsWork, LinksKeepWork DEF HubNext, HubHandler

LEMMA InitWork == HubInit => WorkIInv
<1> SUFFICES ASSUME HubInit PROVE WorkIInv
  OBVIOUS
<1>1. JobTypes /\ work \in [Clients -> Work \cup {None}]
  BY HubAssumption DEF HubInit, JobTypes
<1>2. \A k \in Conns : SocketIInv(k)
  BY HubAssumption DEF HubInit, Init, SocketIInv
<1>3. \A c \in Clients : listing[c] = None
  BY DEF HubInit, Init
<1> QED BY <1>1, <1>2, <1>3 DEF WorkIInv

-----------------------------------------------------------------------------
(* The counters.                                                           *)

Counters == [shares : Nat, diffSum : Nat]

CountIInv ==
  /\ bad \in [Clients -> 0 .. MaxBadSubmits + 1]
  /\ unflushed \in [Listings -> Counters]

LEMMA NextCounts ==
  ASSUME IInv, AnswerIInv, JobTypes, CountIInv, [HubNext]_hubVars
  PROVE  CountIInv'
<1>0. NoCredit \in Counters /\ MaxBadSubmits \in Nat
  BY HubAssumption DEF NoCredit, Counters
<1>1. ASSUME NEW c \in Clients, OnOpen(c)
      PROVE  CountIInv'
  BY <1>0, <1>1 DEF OnOpen, CountIInv
<1>2. ASSUME NEW c \in Clients, NEW j \in JobIds, OnShare(c, j) \/ CutOff(c, j)
      PROVE  CountIInv'
  <2>1. CountBad(c) /\ unflushed' = unflushed
    BY <1>2 DEF OnShare, CutOff
  <2>2. Smaller(bad[c] + 1, MaxBadSubmits + 1) \in 0 .. MaxBadSubmits + 1
    BY <1>0 DEF Smaller, CountIInv
  <2> QED BY <2>1, <2>2 DEF CountBad, CountIInv
<1>3. ASSUME NEW l \in Listings, OnTakedown(l)
      PROVE  CountIInv'
  BY <1>0, <1>3 DEF OnTakedown, CreditDropped, CountIInv
<1>4. ASSUME NEW s \in wire, OnAccepted(s)
      PROVE  CountIInv'
  <2>1. PICK m \in Owner(s) : bad' = [bad EXCEPT ![m.by] = 0] /\ Credit(listing[m.by], diff[m.conn])
    BY <1>4 DEF OnAccepted
  <2>2. m.conn \in Conns /\ diff[m.conn] \in Nat
    BY HubAssumption DEF Owner, AnswerIInv, Submit, JobTypes
  <2>3. unflushed' \in [Listings -> Counters]
    BY <2>1, <2>2 DEF Credit, CountIInv, Counters
  <2>4. 0 \in 0 .. MaxBadSubmits + 1
    BY <1>0
  <2>5. bad' \in [Clients -> 0 .. MaxBadSubmits + 1]
    <3>1. bad \in [Clients -> 0 .. MaxBadSubmits + 1]
      BY DEF CountIInv
    <3> QED BY <2>1, <2>4, <3>1, Zenon
  <2> QED BY <2>3, <2>5 DEF CountIInv
<1>5. CASE Flush
  BY <1>0, <1>5 DEF Flush, CountIInv
<1>6. ASSUME UNCHANGED <<bad, unflushed>>
      PROVE  CountIInv'
  BY <1>6 DEF CountIInv
<1>7. CASE \/ \E c \in Clients : OnLeave(c) \/ OnCooldown(c)
           \/ \E c \in Clients, l \in Listings, k \in Conns, counted \in BOOLEAN :
                OnMine(c, l, k, counted) \/ OnMineOpens(c, l, k, counted)
  BY <1>6, <1>7 DEF OnLeave, OnCooldown, OnMine, OnMineOpens, shareVars
<1>8. CASE \/ \E k \in Conns : OnIdle(k) \/ OnConnected(k) \/ OnDisconnected(k) \/ OnSubscribed(k)
           \/ \E k \in Conns, d \in Difficulties : OnDifficulty(k, d)
           \/ \E k \in Conns, j \in JobIds : OnJob(k, j)
  BY <1>6, <1>8 DEF OnIdle, OnConnected, OnDisconnected, OnSubscribed, OnDifficulty, OnJob, shareVars
<1>9. CASE \/ \E s \in wire : OnRejected(s) \/ OnAcceptedUnknown(s)
           \/ OnPoolWeather \/ UNCHANGED hubVars
  BY <1>6, <1>9 DEF OnRejected, OnAcceptedUnknown, OnPoolWeather, hubVars, shareVars
<1> QED BY <1>1, <1>2, <1>3, <1>4, <1>5, <1>7, <1>8, <1>9 DEF HubNext, HubHandler

\* Whatever joins, moves, rotates or reconnects: a seated miner hashes the current
\* job at the current difficulty, on a header nobody else has, and whatever the
\* hub would forward was hashed on a header it can name.
THEOREM WorkIsAlwaysCurrent == HubSpec => []WorkIsCurrent
<1>1. HubInit => WorkIInv /\ CountIInv /\ AnswerIInv
  <2>1. HubInit => CountIInv
    BY HubAssumption DEF HubInit, CountIInv, Counters, NoCredit
  <2> QED BY <2>1, InitWork DEF HubInit, AnswerIInv
<1>2. IInv /\ WorkIInv /\ CountIInv /\ AnswerIInv /\ [HubNext]_hubVars
        => WorkIInv' /\ CountIInv' /\ AnswerIInv'
  BY NextWork, NextCounts, NextAnswers DEF WorkIInv
<1>3. ASSUME IInv, WorkIInv, CountIInv, AnswerIInv
      PROVE  WorkIsCurrent
  <2>1. HubTypeOK
    BY <1>3 DEF WorkIInv, CountIInv, AnswerIInv, JobTypes, Counters, HubTypeOK
  <2>2. \A k \in Conns : \A c \in Mining(k) :
          c \in Clients /\ conn[c] = k /\ listing[c] # None /\ c \in miners[k]
    BY <1>3 DEF Mining, IInv, TypeOK, Seating, SeatsAgree
  <2>3. connections \subseteq Conns
    BY <1>3 DEF IInv, TypeOK
  <2>4. \A k \in Conns : current[k] # None => \A c \in Mining(k) :
          work[c] = [conn |-> k, job |-> current[k], ext |-> ext[k], slot |-> slot[c], diff |-> diff[k]]
    BY <1>3, <2>2 DEF WorkIInv, JobOf
  <2>5. MinersAreCurrent
    BY <1>3, <2>3, <2>4 DEF WorkIInv, SocketIInv, MinersAreCurrent
  <2>6. DistinctHeaders
    <3> SUFFICES ASSUME NEW k \in Conns, NEW c \in Mining(k), NEW d \in Mining(k),
                        c # d, current[k] # None
                 PROVE  <<work[c].job, work[c].ext, work[c].slot>> # <<work[d].job, work[d].ext, work[d].slot>>
      BY DEF DistinctHeaders
    <3>1. k \in connections
      BY <1>3 DEF WorkIInv, SocketIInv
    <3>2. slot[c] # slot[d]
      BY <1>3, <2>2, <3>1 DEF IInv, Seating, SlotLedger
    <3>3. work[c] = [conn |-> k, job |-> current[k], ext |-> ext[k], slot |-> slot[c], diff |-> diff[k]]
      BY <2>4, Zenon
    <3>4. work[d] = [conn |-> k, job |-> current[k], ext |-> ext[k], slot |-> slot[d], diff |-> diff[k]]
      BY <2>4, Zenon
    <3>5. work[c].slot = slot[c] /\ work[d].slot = slot[d]
      BY <3>3, <3>4
    <3> QED BY <3>2, <3>5
  <2>7. ForwardableIsCurrent
    <3> SUFFICES ASSUME NEW c \in Clients, conn[c] # None, listing[c] # None, work[c] # None,
                        work[c].job \in Range(jobs[conn[c]])
                 PROVE  work[c].conn = conn[c] /\ work[c].ext = ext[conn[c]] /\ work[c].slot = slot[c]
      BY DEF ForwardableIsCurrent
    <3>1. conn[c] \in Conns
      BY <1>3 DEF IInv, TypeOK
    <3>2. jobs[conn[c]] # <<>>
      BY DEF Range
    <3>3. current[conn[c]] # None
      BY <1>3, <3>1, <3>2 DEF WorkIInv, SocketIInv
    <3> QED BY <1>3, <3>3 DEF WorkIInv, JobOf
  <2> QED BY <2>1, <2>5, <2>6, <2>7 DEF WorkIsCurrent
<1> QED BY <1>1, <1>2, <1>3, HubSeating, PTL DEF HubSpec
-----------------------------------------------------------------------------
(* Whose share it is, and who may still send any.                          *)

OwnIInv ==
  /\ \A s \in wire : \A m \in Owner(s) : s.listing = listing[m.by]
  /\ \A m \in submits : bad[m.by] <= MaxBadSubmits

\* Steps after which every record left is of a miner who mines what he mined.
LEMMA OwnFrame ==
  ASSUME OwnIInv, submits' \subseteq submits, wire' \subseteq wire,
         \A m \in submits' : listing'[m.by] = listing[m.by] /\ bad'[m.by] <= MaxBadSubmits
  PROVE  OwnIInv'
BY DEF OwnIInv, Owner

\* Forget leaves no record of those it is told of, since each sits where his
\* record was made.
LEMMA NobodysRecord ==
  ASSUME AnswerIInv, NEW L, Forget(L)
  PROVE  submits' \subseteq submits /\ \A m \in submits' : m.by \in Clients \ L
BY DEF AnswerIInv, Forget, Submit

LEMMA SharingOwns ==
  ASSUME IInv, AnswerIInv, OwnIInv, CountIInv, NEW c \in Clients, NEW j \in JobIds, OnShare(c, j)
  PROVE  OwnIInv'
<1> DEFINE k == conn[c]
           id == nextId[k]
           mine == [conn |-> k, id |-> id, by |-> c]
           sent == [conn |-> k, id |-> id, by |-> c, listing |-> listing[c]]
<1>1. /\ submits' = submits \cup {mine} /\ wire' \subseteq wire \cup {sent}
      /\ conn' = conn /\ listing' = listing /\ bad[c] < MaxBadSubmits
      /\ bad' = [bad EXCEPT ![c] = Smaller(@ + 1, MaxBadSubmits + 1)]
  BY DEF OnShare, CountBad, vars, clientVars
<1>2. bad'[c] <= MaxBadSubmits /\ \A d \in Clients \ {c} : bad'[d] = bad[d]
  BY <1>1, HubAssumption DEF CountIInv, Smaller
<1>3. \A m \in submits' : m.by \in Clients
  BY <1>1 DEF AnswerIInv, Submit
<1>4. \A m \in submits' : bad'[m.by] <= MaxBadSubmits
  BY <1>1, <1>2, <1>3 DEF OwnIInv
<1>0. k \in Conns /\ id \in Nat
  BY DEF OnShare, MaySubmit, IInv, TypeOK, AnswerIInv
<1>5. ASSUME NEW s \in wire', NEW m \in submits', m.conn = s.conn, m.id = s.id
      PROVE  s.listing = listing[m.by]
  <2>1. CASE s = sent /\ m = mine
    BY <2>1
  <2>2. CASE s = sent /\ m \in submits
    BY <1>0, <1>5, <2>2 DEF AnswerIInv, Submit
  <2>3. CASE s \in wire /\ m = mine
    BY <1>0, <1>5, <2>3 DEF AnswerIInv, Sent
  <2>4. CASE s \in wire /\ m \in submits
    BY <1>5, <2>4 DEF OwnIInv, Owner
  <2> QED BY <1>1, <2>1, <2>2, <2>3, <2>4
<1> QED BY <1>1, <1>4, <1>5 DEF OwnIInv, Owner

\* Stopping miners, with their records forgotten.
LEMMA StoppingOwns ==
  ASSUME OwnIInv, AnswerIInv, NEW L \in SUBSET Clients, StopMining(L), Forget(L), wire' \subseteq wire,
         \A c \in Clients \ L : bad'[c] = bad[c]
  PROVE  OwnIInv'
<1>1. submits' \subseteq submits /\ \A m \in submits' : m.by \in Clients \ L
  BY NobodysRecord
<1>2. \A c \in Clients \ L : listing'[c] = listing[c]
  BY DEF StopMining
<1>3. \A m \in submits' : listing'[m.by] = listing[m.by] /\ bad'[m.by] <= MaxBadSubmits
  BY <1>1, <1>2 DEF OwnIInv
<1> QED BY <1>1, <1>3, OwnFrame

LEMMA SeatingOwns ==
  ASSUME IInv, AnswerIInv, OwnIInv, NEW c \in Clients, NEW l \in Listings, NEW k \in Conns,
         NEW stack, NEW counted \in BOOLEAN,
         Seat(c, l, k, stack, counted), Forget({c}), wire' = wire, bad' = bad
  PROVE  OwnIInv'
<1>1. submits' \subseteq submits /\ \A m \in submits' : m.by \in Clients \ {c}
  BY NobodysRecord
<1>2. \A d \in Clients \ {c} : listing'[d] = listing[d]
  BY DEF Seat, IInv, TypeOK
<1>3. \A m \in submits' : listing'[m.by] = listing[m.by] /\ bad'[m.by] <= MaxBadSubmits
  BY <1>1, <1>2 DEF OwnIInv
<1> QED BY <1>1, <1>3, OwnFrame

LEMMA NextOwn ==
  ASSUME IInv, AnswerIInv, CountIInv, OwnIInv, [HubNext]_hubVars
  PROVE  OwnIInv'
<1>1. ASSUME submits' \subseteq submits, wire' \subseteq wire, listing' = listing,
             \A m \in submits' : bad'[m.by] = bad[m.by] \/ bad'[m.by] = 0
      PROVE  OwnIInv'
  <2>1. \A m \in submits' : listing'[m.by] = listing[m.by] /\ bad'[m.by] <= MaxBadSubmits
    BY <1>1, HubAssumption DEF OwnIInv
  <2> QED BY <1>1, <2>1, OwnFrame
<1>2. ASSUME NEW c \in Clients, OnOpen(c)
      PROVE  OwnIInv'
  <2>1. /\ submits' = submits /\ wire' = wire /\ listing' = listing
        /\ bad' = [bad EXCEPT ![c] = 0]
    BY <1>2 DEF OnOpen, AddClient, connVars
  <2>2. \A m \in submits' : bad'[m.by] = bad[m.by] \/ bad'[m.by] = 0
    BY <2>1 DEF CountIInv
  <2> QED BY <1>1, <2>1, <2>2
<1>3. ASSUME NEW c \in Clients, OnLeave(c)
      PROVE  OwnIInv'
  <2>1. StopMining({c}) /\ Forget({c}) /\ wire' = wire /\ bad' = bad
    BY <1>3 DEF OnLeave, RemoveClient, Stop, MineTurnedAway
  <2> QED BY <2>1, StoppingOwns
<1>4. ASSUME NEW c \in Clients, NEW j \in JobIds, CutOff(c, j)
      PROVE  OwnIInv'
  <2>1. StopMining({c}) /\ Forget({c}) /\ wire' = wire
    BY <1>4 DEF CutOff, Stop
  <2>2. \A d \in Clients \ {c} : bad'[d] = bad[d]
    BY <1>4 DEF CutOff, CountBad, CountIInv
  <2> QED BY <2>1, <2>2, StoppingOwns
<1>5. ASSUME NEW l \in Listings, OnTakedown(l)
      PROVE  OwnIInv'
  <2>1. MinersOf(l) \in SUBSET Clients
    BY DEF MinersOf, IInv, TypeOK
  <2>2. StopMining(MinersOf(l)) /\ Forget(MinersOf(l)) /\ wire' = wire /\ bad' = bad
    BY <1>5 DEF OnTakedown, Takedown
  <2> QED BY <2>1, <2>2, StoppingOwns
<1>6. ASSUME NEW c \in Clients, NEW l \in Listings, NEW k \in Conns, NEW counted \in BOOLEAN,
             OnMine(c, l, k, counted) \/ OnMineOpens(c, l, k, counted)
      PROVE  OwnIInv'
  <2>1. PICK stack : Seat(c, l, k, stack, counted)
    BY <1>6 DEF OnMine, OnMineOpens, MineJoins, MineOpens
  <2>2. Forget({c}) /\ wire' = wire /\ bad' = bad
    BY <1>6 DEF OnMine, OnMineOpens
  <2> QED BY <2>1, <2>2, SeatingOwns
<1>7. ASSUME NEW s \in wire, OnAccepted(s)
      PROVE  OwnIInv'
  <2>1. /\ submits' \subseteq submits /\ wire' \subseteq wire /\ listing' = listing
        /\ \E m \in Owner(s) : bad' = [bad EXCEPT ![m.by] = 0]
    BY <1>7 DEF OnAccepted, CountAccepted, Answered, clientVars
  <2>2. \A m \in submits' : bad'[m.by] = bad[m.by] \/ bad'[m.by] = 0
    BY <2>1 DEF CountIInv
  <2> QED BY <1>1, <2>1, <2>2
<1>8. ASSUME submits' \subseteq submits, wire' \subseteq wire,
             UNCHANGED <<listing, bad>>
      PROVE  OwnIInv'
  BY <1>1, <1>8
<1>9. ASSUME NEW c \in Clients, OnCooldown(c)
      PROVE  OwnIInv'
  BY <1>8, <1>9 DEF OnCooldown, CooldownEnds, MineRefused, shareVars
<1>10. ASSUME NEW k \in Conns, OnIdle(k) \/ OnConnected(k) \/ OnDisconnected(k)
       PROVE  OwnIInv'
  BY <1>8, <1>10 DEF OnIdle, IdleFires, OnConnected, OnDisconnected, DialSucceeds, LinkDrops,
                     clientVars, shareVars
<1>11. ASSUME NEW k \in Conns, OnSubscribed(k) \/ (\E d \in Difficulties : OnDifficulty(k, d))
                                \/ (\E j \in JobIds : OnJob(k, j))
       PROVE  OwnIInv'
  BY <1>8, <1>11 DEF OnSubscribed, OnDifficulty, OnJob, vars, clientVars, shareVars
<1>12. ASSUME NEW s \in wire, OnRejected(s) \/ OnAcceptedUnknown(s)
       PROVE  OwnIInv'
  BY <1>8, <1>12 DEF OnRejected, OnAcceptedUnknown, Answered, vars, clientVars
<1>13. CASE OnPoolWeather
  BY <1>8, <1>13 DEF OnPoolWeather, PoolError, DialFails, Redial, Thaw, TuneConnections,
                     clientVars, shareVars
<1>14. CASE Flush \/ UNCHANGED hubVars
  BY <1>8, <1>14 DEF Flush, hubVars, vars, clientVars, shareVars
<1> QED BY <1>2, <1>3, <1>4, <1>5, <1>6, <1>7, <1>9, <1>10, <1>11, <1>12, <1>13, <1>14,
           SharingOwns DEF HubNext, HubHandler

HubIInv == IInv /\ WorkIInv /\ CountIInv /\ AnswerIInv /\ OwnIInv

LEMMA FirstHub == HubInit => HubIInv
<1>1. HubInit => CountIInv /\ OwnIInv
  BY HubAssumption DEF HubInit, Init, CountIInv, Counters, NoCredit, OwnIInv
<1> QED BY <1>1, InitWork, InitSeating DEF HubInit, AnswerIInv, HubIInv

LEMMA NextHub ==
  ASSUME HubIInv, [HubNext]_hubVars
  PROVE  HubIInv'
BY HubStep, NextSeating, NextWork, NextCounts, NextAnswers, NextOwn DEF HubIInv, IInv, WorkIInv

LEMMA HubInvariant == HubSpec => []HubIInv
<1>1. HubIInv /\ [HubNext]_hubVars => HubIInv'
  BY NextHub
<1> QED BY <1>1, FirstHub, PTL DEF HubSpec

\* What an answer credits: the listing of the miner it finds, by one share.
LEMMA AcceptedCredits ==
  ASSUME HubIInv, NEW s \in wire, OnAccepted(s), NEW l \in Listings
  PROVE  unflushed'[l].shares > unflushed[l].shares => Credited(l) /\ s.listing = l
<1>1. PICK m \in Owner(s) : Credit(listing[m.by], diff[m.conn])
  BY DEF OnAccepted
<1>2. s.listing = listing[m.by]
  BY DEF HubIInv, OwnIInv
<1>3. unflushed[l] \in Counters
  BY DEF HubIInv, CountIInv
<1>4. CASE l = listing[m.by]
  BY <1>1, <1>2, <1>3, <1>4 DEF Credit, Credited, Counters
<1>5. CASE l # listing[m.by]
  BY <1>1, <1>3, <1>5 DEF Credit, Counters
<1> QED BY <1>4, <1>5

LEMMA CreditStep ==
  ASSUME HubIInv, [HubNext]_hubVars, NEW l \in Listings,
         unflushed'[l].shares > unflushed[l].shares
  PROVE  Credited(l) /\ \E s \in wire \ wire' : s.listing = l
<1>1. unflushed \in [Listings -> Counters] /\ unflushed[l].shares \in Nat
  BY DEF HubIInv, CountIInv, Counters
<1>2. CASE unflushed' = unflushed
  BY <1>1, <1>2
<1>3. ASSUME NEW x \in Listings, OnTakedown(x)
      PROVE  FALSE
  BY <1>1, <1>3 DEF OnTakedown, CreditDropped, NoCredit
<1>4. CASE Flush
  BY <1>1, <1>4 DEF Flush, NoCredit
<1>5. ASSUME NEW s \in wire, OnAccepted(s)
      PROVE  Credited(l) /\ \E x \in wire \ wire' : x.listing = l
  <2>1. s \in wire \ wire'
    BY <1>5 DEF OnAccepted, Answered
  <2> QED BY <1>5, <2>1, AcceptedCredits
<1>6. CASE \/ \E c \in Clients : OnOpen(c) \/ OnLeave(c) \/ OnCooldown(c)
           \/ \E c \in Clients, x \in Listings, k \in Conns, counted \in BOOLEAN :
                OnMine(c, x, k, counted) \/ OnMineOpens(c, x, k, counted)
           \/ \E c \in Clients, j \in JobIds : OnShare(c, j) \/ CutOff(c, j)
  BY <1>2, <1>6 DEF OnOpen, OnLeave, OnCooldown, OnMine, OnMineOpens, OnShare, CutOff, shareVars
<1>7. CASE \/ \E k \in Conns : OnIdle(k) \/ OnConnected(k) \/ OnDisconnected(k) \/ OnSubscribed(k)
           \/ \E k \in Conns, d \in Difficulties : OnDifficulty(k, d)
           \/ \E k \in Conns, j \in JobIds : OnJob(k, j)
  BY <1>2, <1>7 DEF OnIdle, OnConnected, OnDisconnected, OnSubscribed, OnDifficulty, OnJob, shareVars
<1>8. CASE \/ \E s \in wire : OnRejected(s) \/ OnAcceptedUnknown(s)
           \/ OnPoolWeather \/ UNCHANGED hubVars
  BY <1>2, <1>8 DEF OnRejected, OnAcceptedUnknown, OnPoolWeather, hubVars, shareVars
<1> QED BY <1>3, <1>4, <1>5, <1>6, <1>7, <1>8 DEF HubNext, HubHandler

\* A share is credited to the listing that was mined when it was sent, whatever
\* its miner has done since, and one share at a time.
THEOREM CreditGoesToTheListingMined == HubSpec => CreditsTheListingMined
<1>1. HubIInv /\ [HubNext]_hubVars =>
        [\A l \in Listings : unflushed'[l].shares > unflushed[l].shares =>
           Credited(l) /\ \E s \in wire \ wire' : s.listing = l]_hubVars
  BY CreditStep
<1> QED BY <1>1, HubInvariant, PTL DEF HubSpec, CreditsTheListingMined

\* Nothing is lost between the pool's answer and the counter, also when the database
\* throws while a seat is taken: a share accepted while its miner keeps his seat is
\* credited to the listing it was sent for and to no other.
THEOREM AcceptedIsCredited == HubSpec => AcceptedIsCreditedAsSent
<1>1. ASSUME HubIInv, NEW s \in wire, OnAccepted(s), NEW l \in Listings
      PROVE  Credited(l) <=> l = s.listing
  <2>1. PICK m \in Owner(s) : Credit(listing[m.by], diff[m.conn])
    BY <1>1 DEF OnAccepted
  <2>2. s.listing = listing[m.by]
    BY <1>1 DEF HubIInv, OwnIInv
  <2>3. unflushed[l].shares \in Nat
    BY <1>1 DEF HubIInv, CountIInv, Counters
  <2>4. CASE l = s.listing
    BY <2>1, <2>2, <2>4 DEF Credit, Credited
  <2>5. CASE l # s.listing
    BY <2>1, <2>2, <2>3, <2>5 DEF Credit, Credited
  <2> QED BY <2>4, <2>5
<1>2. HubIInv => [\A s \in wire : OnAccepted(s) =>
                    \A l \in Listings : Credited(l) <=> l = s.listing]_hubVars
  BY <1>1
<1> QED BY <1>2, HubInvariant, PTL DEF AcceptedIsCreditedAsSent

LEMMA BrakeStep ==
  ASSUME HubIInv, [HubNext]_hubVars, NEW c \in clients, bad'[c] < bad[c]
  PROVE  bad[c] <= MaxBadSubmits /\ \E s \in wire \ wire' : s.by = c
<1>1. c \in Clients /\ bad \in [Clients -> 0 .. MaxBadSubmits + 1] /\ bad[c] \in Nat
  BY HubAssumption DEF HubIInv, CountIInv, IInv, TypeOK
<1>2. CASE bad' = bad
  BY <1>1, <1>2
<1>3. ASSUME NEW d \in Clients, OnOpen(d)
      PROVE  FALSE
  BY <1>1, <1>3 DEF OnOpen, AddClient
<1>4. ASSUME NEW d \in Clients, CountBad(d)
      PROVE  FALSE
  <2>1. bad'[c] = bad[c] \/ bad'[c] = Smaller(bad[c] + 1, MaxBadSubmits + 1)
    BY <1>1, <1>4 DEF CountBad
  <2>2. bad[c] <= MaxBadSubmits + 1
    BY <1>1
  <2> QED BY <1>1, <2>1, <2>2, HubAssumption DEF Smaller
<1>5. ASSUME NEW s \in wire, OnAccepted(s)
      PROVE  bad[c] <= MaxBadSubmits /\ \E x \in wire \ wire' : x.by = c
  <2>1. PICK m \in Owner(s) : bad' = [bad EXCEPT ![m.by] = 0]
    BY <1>5 DEF OnAccepted
  <2>2. m.by = c
    BY <1>1, <2>1
  <2>3. s \in wire \ wire'
    BY <1>5 DEF OnAccepted, Answered
  <2>4. s.by = c
    BY <2>2 DEF HubIInv, AnswerIInv
  <2>5. bad[c] <= MaxBadSubmits
    BY <2>2 DEF HubIInv, OwnIInv, Owner
  <2> QED BY <2>3, <2>4, <2>5
<1>6. CASE \/ \E d \in Clients : OnLeave(d) \/ OnCooldown(d)
           \/ \E d \in Clients, x \in Listings, k \in Conns, counted \in BOOLEAN :
                OnMine(d, x, k, counted) \/ OnMineOpens(d, x, k, counted)
           \/ \E x \in Listings : OnTakedown(x)
           \/ Flush
  BY <1>2, <1>6 DEF OnLeave, OnCooldown, OnMine, OnMineOpens, OnTakedown, Flush, shareVars
<1>7. CASE \/ \E k \in Conns : OnIdle(k) \/ OnConnected(k) \/ OnDisconnected(k) \/ OnSubscribed(k)
           \/ \E k \in Conns, d \in Difficulties : OnDifficulty(k, d)
           \/ \E k \in Conns, j \in JobIds : OnJob(k, j)
  BY <1>2, <1>7 DEF OnIdle, OnConnected, OnDisconnected, OnSubscribed, OnDifficulty, OnJob, shareVars
<1>8. CASE \/ \E s \in wire : OnRejected(s) \/ OnAcceptedUnknown(s)
           \/ OnPoolWeather \/ UNCHANGED hubVars
  BY <1>2, <1>8 DEF OnRejected, OnAcceptedUnknown, OnPoolWeather, hubVars, shareVars
<1>9. CASE \E d \in Clients, j \in JobIds : OnShare(d, j) \/ CutOff(d, j)
  BY <1>4, <1>9 DEF OnShare, CutOff
<1> QED BY <1>3, <1>5, <1>6, <1>7, <1>8, <1>9 DEF HubNext, HubHandler

\* The brake: a client's count of bad submits goes down only by a share of his
\* own that the pool accepted, and past the limit by nothing at all, whatever
\* was in flight when he was cut off.
THEOREM TheBrakeHolds == HubSpec => BrakeHolds
<1>1. HubIInv /\ [HubNext]_hubVars =>
        [\A c \in clients \cap clients' : bad'[c] < bad[c] =>
           /\ bad[c] <= MaxBadSubmits
           /\ \E s \in wire \ wire' : s.by = c]_hubVars
  BY BrakeStep
<1> QED BY <1>1, HubInvariant, PTL DEF HubSpec, BrakeHolds

-----------------------------------------------------------------------------
(* The site: what is proved of the hub and of the ledger holds of the two   *)
(* together, and each is what the other takes it for.                       *)

Accounts == INSTANCE LedgerProofs

\* What the hub calls listings are the rows on the disk.
RowsOK == listings = disk.rows

SiteIInv == HubIInv /\ Accounts!LedgerIInv /\ RowsOK

\* A process that starts is a hub that starts.
LEMMA FreshHub == HubInit' => HubIInv'
BY FirstHub, PTL

\* A new row disturbs nobody.
LEMMA MoreListings ==
  ASSUME HubIInv, UNCHANGED <<tableVars, unflushed>>, listings \subseteq listings',
         listings' \in SUBSET Listings
  PROVE  HubIInv'
<1> USE DEF HubIInv, tableVars, clientVars, connVars, jobVars
<1>1. TypeOK'
  BY DEF IInv, TypeOK
<1>2. SeatsAgree'
  BY DEF IInv, Seating, SeatsAgree
<1>3. SlotLedger' /\ EmptyHasTimer' /\ ClosedIsEmpty'
  BY DEF IInv, Seating, SlotLedger, EmptyHasTimer, ClosedIsEmpty
<1>4. WorkIInv'
  BY DEF WorkIInv, JobTypes, SocketIInv, JobOf
<1>5. CountIInv' /\ AnswerIInv' /\ OwnIInv'
  BY DEF CountIInv, AnswerIInv, OwnIInv, Owner
<1> QED BY <1>1, <1>2, <1>3, <1>4, <1>5 DEF IInv, Seating

\* No handler of the hub writes a row.
LEMMA HandlersKeepRows ==
  ASSUME HubHandler
  PROVE  listings' = listings
<1>1. ASSUME NEW c \in Clients, OnOpen(c) \/ OnLeave(c) \/ OnCooldown(c)
      PROVE  listings' = listings
  BY <1>1 DEF OnOpen, OnLeave, OnCooldown, AddClient, RemoveClient, Stop, MineTurnedAway, CooldownEnds, MineRefused
<1>2. ASSUME NEW c \in Clients, NEW l \in Listings, NEW k \in Conns, NEW counted \in BOOLEAN,
             OnMine(c, l, k, counted) \/ OnMineOpens(c, l, k, counted)
      PROVE  listings' = listings
  BY <1>2 DEF OnMine, OnMineOpens, MineJoins, MineOpens, Seat
<1>3. ASSUME NEW c \in Clients, NEW j \in JobIds, OnShare(c, j) \/ CutOff(c, j)
      PROVE  listings' = listings
  BY <1>3 DEF OnShare, CutOff, Stop, vars
<1>4. ASSUME NEW k \in Conns, OnIdle(k) \/ OnConnected(k) \/ OnDisconnected(k) \/ OnSubscribed(k)
      PROVE  listings' = listings
  BY <1>4 DEF OnIdle, OnConnected, OnDisconnected, OnSubscribed, IdleFires, DialSucceeds, LinkDrops, vars
<1>5. ASSUME NEW k \in Conns, NEW d \in Difficulties, OnDifficulty(k, d)
      PROVE  listings' = listings
  BY <1>5 DEF OnDifficulty, vars
<1>6. ASSUME NEW k \in Conns, NEW j \in JobIds, OnJob(k, j)
      PROVE  listings' = listings
  BY <1>6 DEF OnJob, vars
<1>7. ASSUME NEW s \in wire, OnRejected(s) \/ OnAcceptedUnknown(s) \/ OnAccepted(s)
      PROVE  listings' = listings
  BY <1>7 DEF OnRejected, OnAcceptedUnknown, OnAccepted, CountAccepted, vars
<1>8. CASE OnPoolWeather
  BY <1>8 DEF OnPoolWeather, PoolError, DialFails, Redial, Thaw, TuneConnections
<1> QED BY <1>1, <1>2, <1>3, <1>4, <1>5, <1>6, <1>7, <1>8 DEF HubHandler

\* What a step of the ledger does to the counters and the rows the hub sees.
LEMMA BooksStep ==
  ASSUME Accounts!LedgerIInv, KeepBooks
  PROVE  /\ listings' = listings /\ disk'.rows = disk.rows
         /\ ~Ends => unflushed' \in {unflushed, [l \in Listings |-> NoCredit]}
         /\ Ends => unflushed' = [l \in Listings |-> NoCredit]
<1> USE DEF KeepBooks, Ends, NoCredit, Books!NoCredit
<1>1. ASSUME NEW caller, Books!BeginFlush(caller)
      PROVE  UNCHANGED <<disk, unflushed, process>>
  BY <1>1 DEF Books!BeginFlush
<1>2. ASSUME NEW l, Books!WriteBucket(l)
      PROVE  UNCHANGED <<disk, unflushed, process>>
  BY <1>2 DEF Books!WriteBucket
<1>3. CASE Books!WriteTotal \/ Books!WriteGate
  BY <1>3 DEF Books!WriteTotal, Books!WriteGate
<1>4. CASE Books!Commit
  <2>1. txn.view.rows = disk.rows /\ disk' = txn.view
    BY <1>4 DEF Books!Commit, Accounts!LedgerIInv, Accounts!Progress
  <2> QED BY <1>4, <2>1 DEF Books!Commit, Books!Written, Books!Exit
<1>5. CASE Books!FlushFails
  BY <1>5 DEF Books!FlushFails, Books!RolledBack, Books!Exit
<1>6. CASE Books!StopWithNothingDue \/ Books!Crash
  BY <1>6 DEF Books!StopWithNothingDue, Books!Crash, Books!Exit
<1>7. CASE Books!Restart \/ Books!DbChanges \/ Books!HourPasses
  BY <1>7 DEF Books!Restart, Books!DbChanges, Books!HourPasses
<1> QED BY <1>1, <1>2, <1>3, <1>4, <1>5, <1>6, <1>7 DEF Books!Statement

\* A flush is the hub's own, or leaves it alone; an end starts it anew.
LEMMA KeepBooksKeepsHub ==
  ASSUME SiteIInv, KeepBooks
  PROVE  HubIInv'
<1>1. CASE Ends
  <2>1. HubInit'
    <3>1. listings' \in SUBSET Listings /\ unflushed' = [l \in Listings |-> NoCredit]
      BY <1>1, BooksStep DEF SiteIInv, HubIInv, IInv, TypeOK
    <3> QED BY <1>1, <3>1 DEF KeepBooks, NoTables, HubInit, Init
  <2> QED BY <2>1, FreshHub
<1>2. CASE ~Ends
  <2>1. UNCHANGED <<tableVars, listings>> /\ unflushed' \in {unflushed, [l \in Listings |-> NoCredit]}
    BY <1>2, BooksStep DEF SiteIInv, KeepBooks
  <2>2. CASE unflushed' = unflushed
    <3>1. UNCHANGED hubVars
      BY <2>1, <2>2 DEF tableVars, hubVars, vars, clientVars, connVars, shareVars, jobVars
    <3> QED BY <3>1, NextHub DEF SiteIInv
  <2>3. CASE unflushed' # unflushed
    <3>1. unflushed \in [Listings -> Counters]
      BY DEF SiteIInv, HubIInv, CountIInv
    <3>2. unflushed' = [l \in Listings |-> NoCredit] /\ \E l \in Listings : unflushed[l] # NoCredit
      BY <2>1, <2>3, <3>1
    <3>3. Flush
      BY <2>1, <3>2 DEF Flush, tableVars, vars, clientVars, connVars, jobVars
    <3> QED BY <3>3, NextHub DEF SiteIInv, HubNext
  <2> QED BY <2>2, <2>3
<1> QED BY <1>1, <1>2

\* An answer the hub credits is a share the ledger may count.
LEMMA HandlesAreCredits ==
  ASSUME SiteIInv, Handle
  PROVE  UNCHANGED Books!vars \/ \E l \in Listings, d \in Difficulties : Books!CreditShare(l, d)
<1>0. /\ unflushed \in [Listings -> Counters] /\ listing \in [Clients -> Listings \cup {None}]
      /\ \A s \in wire : \A m \in Owner(s) : m.by \in Clients /\ m.conn \in Conns
      /\ diff \in [Conns -> Difficulties]
  BY DEF SiteIInv, HubIInv, CountIInv, IInv, TypeOK, AnswerIInv, Owner, Submit, WorkIInv, JobTypes
<1>1. CASE unflushed' = unflushed
  BY <1>1 DEF Handle, bookVars, Books!vars
<1>2. CASE unflushed' # unflushed
  <2>0. PICK s \in wire : \E m \in Owner(s) : Credit(listing[m.by], diff[m.conn])
    <3>1. \E s \in wire : OnAccepted(s)
      BY <1>2 DEF Handle, HubHandler, OnOpen, OnLeave, OnCooldown, OnMine, OnMineOpens, OnShare, CutOff,
         OnIdle, OnConnected, OnDisconnected, OnSubscribed, OnDifficulty, OnJob, OnRejected,
         OnAcceptedUnknown, OnPoolWeather, shareVars
    <3> QED BY <3>1 DEF OnAccepted
  <2>1. PICK m \in Owner(s) : Credit(listing[m.by], diff[m.conn])
    BY <2>0
  <2> DEFINE l == listing[m.by]  d == diff[m.conn]
  <2>2. d \in Difficulties /\ l \in Listings \cup {None}
    BY <1>0
  <2>3. l # None
    <3>1. None \notin Listings
      BY PlacementAssumption
    <3> QED BY <1>0, <1>2, <2>1, <3>1 DEF Credit
  <2>4. l \in listings
    BY <1>0, <2>3 DEF SiteIInv, HubIInv, IInv, Seating, SeatsAgree
  <2>5. /\ unflushed'[l] = [shares |-> unflushed[l].shares + 1, diffSum |-> unflushed[l].diffSum + d]
        /\ \A x \in Listings \ {l} : unflushed'[x] = unflushed[x]
        /\ unflushed' = [x \in Listings |-> unflushed'[x]]
    BY <2>1, <2>2, <2>3 DEF Credit
  <2> HIDE DEF l, d
  <2>6. unflushed' = [unflushed EXCEPT ![l] = Books!Plus(@, [shares |-> 1, diffSum |-> d])]
    BY <1>0, <2>2, <2>3, <2>5 DEF Books!Plus
  <2>7. disk.total[l].shares + unflushed[l].shares < MaxShares
    <3>1. unflushed'[l] # unflushed[l]
      <4>1. unflushed[l].shares \in Nat
        BY <1>0, <2>2, <2>3 DEF Counters
      <4> QED BY <2>5, <4>1
    <3> QED BY <2>2, <2>3, <3>1 DEF Handle, WithinBounds
  <2>8. Books!CreditShare(l, d)
    BY <2>4, <2>6, <2>7 DEF Books!CreditShare, Handle, bookVars, SiteIInv, RowsOK
  <2> QED BY <2>2, <2>3, <2>8
<1> QED BY <1>1, <1>2

\* A takedown of the hub's is one of the ledger's, which leaves no counter.
LEMMA DeletionsAreTakedowns ==
  ASSUME SiteIInv, NEW l \in Listings, DeleteListing(l)
  PROVE  Books!Takedown(l)
<1>1. l \in disk.rows /\ Books!DropListing(l)
  BY DEF DeleteListing, OnTakedown, Takedown, CreditDropped, Books!DropListing, SiteIInv, RowsOK,
         NoCredit, Books!NoCredit
<1> QED BY <1>1 DEF DeleteListing, Books!Takedown

\* Every step of the site is one of the ledger.
LEMMA SiteStep ==
  ASSUME SiteIInv, [SiteNext]_siteVars
  PROVE  [Books!Next]_(Books!vars)
<1>1. CASE Handle
  BY <1>1, HandlesAreCredits DEF Books!Next
<1>2. ASSUME NEW l \in Listings, CreateListing(l)
      PROVE  Books!Next
  BY <1>2 DEF CreateListing, Books!Next
<1>3. ASSUME NEW l \in Listings, DeleteListing(l)
      PROVE  Books!Next
  BY <1>3, DeletionsAreTakedowns DEF Books!Next
<1>4. CASE KeepBooks
  BY <1>4 DEF KeepBooks, Books!Next
<1>5. CASE UNCHANGED siteVars
  BY <1>5 DEF siteVars, hubVars, shareVars, bookVars, Books!vars
<1> QED BY <1>1, <1>2, <1>3, <1>4, <1>5 DEF SiteNext

\* The ledger of this module and the one the theorems are about are one.
LEMMA OneLedger ==
  /\ Accounts!LedgerAssumption
  /\ Books!Init => Accounts!Init
  /\ [Books!Next]_(Books!vars) => [Accounts!Next]_(Accounts!vars)
<1>1. Accounts!LedgerAssumption
  BY SiteAssumption
     DEF Books!LedgerAssumption, Accounts!LedgerAssumption, Books!IsFiniteSet, Accounts!IsFiniteSet
<1>2. Books!Init => Accounts!Init
  BY DEF Books!Init, Accounts!Init, Books!NoCredit, Accounts!NoCredit, Books!Hours, Accounts!Hours
<1>3. ASSUME NEW l, Books!CreateListing(l)
      PROVE  Accounts!CreateListing(l)
  BY <1>3 DEF Books!CreateListing, Accounts!CreateListing, Books!Serving, Accounts!Serving
<1>4. ASSUME NEW l, Books!Takedown(l)
      PROVE  Accounts!Takedown(l)
  BY <1>4 DEF Books!Takedown, Accounts!Takedown, Books!Serving, Accounts!Serving,
     Books!DropListing, Accounts!DropListing, Books!DeleteListing, Accounts!DeleteListing,
     Books!NoCredit, Accounts!NoCredit, Books!Hours, Accounts!Hours
<1>5. ASSUME NEW l, NEW d, Books!CreditShare(l, d)
      PROVE  Accounts!CreditShare(l, d)
  BY <1>5 DEF Books!CreditShare, Accounts!CreditShare, Books!Serving, Accounts!Serving,
     Books!Plus, Accounts!Plus
<1>6. ASSUME NEW caller, Books!BeginFlush(caller)
      PROVE  Accounts!BeginFlush(caller)
  BY <1>6 DEF Books!BeginFlush, Accounts!BeginFlush, Books!Serving, Accounts!Serving,
     Books!Batch, Accounts!Batch, Books!NoCredit, Accounts!NoCredit
<1>7. Books!StopWithNothingDue \/ Books!Crash => Accounts!StopWithNothingDue \/ Accounts!Crash
  BY DEF Books!StopWithNothingDue, Accounts!StopWithNothingDue, Books!Crash, Accounts!Crash,
     Books!Serving, Accounts!Serving, Books!Batch, Accounts!Batch, Books!Exit, Accounts!Exit,
     Books!NoCredit, Accounts!NoCredit
<1>8. Books!Statement => Accounts!Statement
  BY DEF Books!Statement, Accounts!Statement, Books!WriteBucket, Accounts!WriteBucket,
     Books!WriteTotal, Accounts!WriteTotal, Books!WriteGate, Accounts!WriteGate,
     Books!Passed, Accounts!Passed, Books!Commit, Accounts!Commit, Books!Written, Accounts!Written,
     Books!FlushFails, Accounts!FlushFails, Books!RolledBack, Accounts!RolledBack,
     Books!Counted, Accounts!Counted, Books!LastRound, Accounts!LastRound, Books!Exit, Accounts!Exit,
     Books!Plus, Accounts!Plus, Books!NoCredit, Accounts!NoCredit
<1>9. Books!Restart \/ Books!DbChanges \/ Books!HourPasses =>
        Accounts!Restart \/ Accounts!DbChanges \/ Accounts!HourPasses
  BY DEF Books!Restart, Accounts!Restart, Books!DbChanges, Accounts!DbChanges,
     Books!HourPasses, Accounts!HourPasses
<1>10. Books!Next => Accounts!Next
  BY <1>3, <1>4, <1>5, <1>6, <1>7, <1>8, <1>9
     DEF Books!Next, Accounts!Next, Books!Callers, Accounts!Callers
<1> QED BY <1>1, <1>2, <1>10 DEF Books!vars, Accounts!vars

LEMMA SiteKeepsHub ==
  ASSUME SiteIInv, [SiteNext]_siteVars
  PROVE  HubIInv'
<1>1. CASE Handle
  BY <1>1, NextHub DEF SiteIInv, Handle, HubNext
<1>2. ASSUME NEW l \in Listings, CreateListing(l)
      PROVE  HubIInv'
  <2>1. UNCHANGED <<tableVars, unflushed>> /\ listings' = listings \cup {l}
    BY <1>2 DEF CreateListing, Books!CreateListing
  <2>2. listings' \in SUBSET Listings
    BY <2>1 DEF SiteIInv, HubIInv, IInv, TypeOK
  <2> QED BY <2>1, <2>2, MoreListings DEF SiteIInv
<1>3. ASSUME NEW l \in Listings, DeleteListing(l)
      PROVE  HubIInv'
  BY <1>3, NextHub DEF SiteIInv, DeleteListing, HubNext
<1>4. CASE UNCHANGED siteVars
  BY <1>4, NextHub DEF SiteIInv, siteVars
<1> QED BY <1>1, <1>2, <1>3, <1>4, KeepBooksKeepsHub DEF SiteNext

LEMMA SiteKeepsRows ==
  ASSUME SiteIInv, [SiteNext]_siteVars
  PROVE  RowsOK'
<1>0. disk \in Accounts!Tables
  BY DEF SiteIInv, Accounts!LedgerIInv, Accounts!TypeOK
<1>1. CASE Handle
  BY <1>1, HandlersKeepRows DEF SiteIInv, RowsOK, Handle, bookVars
<1>2. ASSUME NEW l \in Listings, CreateListing(l)
      PROVE  RowsOK'
  BY <1>0, <1>2 DEF SiteIInv, RowsOK, CreateListing, Books!CreateListing, Accounts!Tables
<1>3. ASSUME NEW l \in Listings, DeleteListing(l)
      PROVE  RowsOK'
  BY <1>3 DEF SiteIInv, RowsOK, DeleteListing, Books!DeleteListing
<1>4. CASE KeepBooks
  BY <1>4, BooksStep DEF SiteIInv, RowsOK
<1>5. CASE UNCHANGED siteVars
  BY <1>5 DEF SiteIInv, RowsOK, siteVars, hubVars, vars, bookVars
<1> QED BY <1>1, <1>2, <1>3, <1>4, <1>5 DEF SiteNext

LEMMA SiteHolds == SiteSpec => []SiteIInv
<1>1. SiteInit => SiteIInv
  <2>1. SiteInit => Accounts!LedgerIInv
    BY OneLedger, Accounts!InitLedger DEF SiteInit, Accounts!LedgerAssumption
  <2> QED BY <2>1, FirstHub DEF SiteInit, SiteIInv, RowsOK
<1>2. ASSUME SiteIInv, [SiteNext]_siteVars
      PROVE  SiteIInv'
  <2>1. Accounts!LedgerIInv'
    BY <1>2, SiteStep, OneLedger, Accounts!NextLedger DEF SiteIInv, Accounts!LedgerAssumption
  <2> QED BY <1>2, <2>1, SiteKeepsHub, SiteKeepsRows DEF SiteIInv
<1> QED BY <1>1, <1>2, PTL DEF SiteSpec

\* What Ledger assumes of its surroundings, the hub does: a behaviour of the site is,
\* for the counters and the tables, one of Ledger.
THEOREM SiteIsALedger == SiteSpec => ImplementsLedger
<1>1. SiteInit => Books!Init
  BY DEF SiteInit
<1>2. SiteIInv /\ [SiteNext]_siteVars => [Books!Next]_(Books!vars)
  BY SiteStep
<1> QED BY <1>1, <1>2, SiteHolds, PTL DEF SiteSpec, ImplementsLedger, Books!Spec

\* What the ledger does by itself, while the process lives, shows nobody a thing.
LEMMA BooksShowTheSame ==
  ASSUME SiteIInv, KeepBooks, process = "serving", process' = "serving", NEW l \in Listings
  PROVE  Books!Shown(l)' = Books!Shown(l)
<1> USE DEF Books!Shown
<1>1. CASE Books!Commit
  <2>1. Accounts!Commit
    BY <1>1 DEF Books!Commit, Accounts!Commit, Books!Written, Accounts!Written, Books!Exit, Accounts!Exit,
       Books!NoCredit, Accounts!NoCredit
  <2>2. Accounts!Shown(l)' = Accounts!Shown(l)
    BY <2>1, OneLedger, Accounts!CommitShowsTheSame DEF SiteIInv, Accounts!LedgerAssumption
  <2> QED BY <2>2 DEF Accounts!Shown, Books!Plus, Accounts!Plus
<1>2. CASE Books!FlushFails
  BY <1>2 DEF Books!FlushFails, Books!RolledBack, Books!Exit
<1>3. CASE Books!StopWithNothingDue \/ Books!Crash
  BY <1>3 DEF Books!StopWithNothingDue, Books!Crash, Books!Exit
<1>4. CASE Books!Statement /\ ~Books!Commit /\ ~Books!FlushFails
  BY <1>4 DEF Books!Statement, Books!WriteBucket, Books!WriteTotal, Books!WriteGate
<1>5. CASE \/ \E caller \in Books!Callers : Books!BeginFlush(caller)
           \/ Books!Restart \/ Books!DbChanges \/ Books!HourPasses
  BY <1>5 DEF Books!BeginFlush, Books!Restart, Books!DbChanges, Books!HourPasses
<1> QED BY <1>1, <1>2, <1>3, <1>4, <1>5 DEF KeepBooks

\* A handler shows a listing what it credits: one share, an answer to one of its own.
LEMMA HandlersShowShares ==
  ASSUME SiteIInv, Handle, NEW l \in Listings
  PROVE  \/ Books!Shown(l)' = Books!Shown(l)
         \/ Books!IsOneShareMore(l) /\ \E s \in wire \ wire' : s.listing = l
<1>1. CASE unflushed'[l] = unflushed[l]
  BY <1>1 DEF Handle, bookVars, Books!Shown
<1>2. CASE unflushed'[l] # unflushed[l]
  <2>0. /\ unflushed \in [Listings -> Counters] /\ disk.total[l] \in Counters
        /\ Difficulties \subseteq Nat \ {0} /\ disk' = disk
    BY HubAssumption DEF SiteIInv, HubIInv, CountIInv, Accounts!LedgerIInv, Accounts!TypeOK,
       Accounts!Tables, Accounts!Credits, Counters, Handle, bookVars
  <2>1. PICK d \in Difficulties : Books!CreditShare(l, d)
    <3>1. PICK k \in Listings, d \in Difficulties : Books!CreditShare(k, d)
      BY <1>2, HandlesAreCredits DEF Books!vars
    <3>2. k = l
      BY <1>2, <2>0, <3>1 DEF Books!CreditShare
    <3> QED BY <3>1, <3>2
  <2> DEFINE one == [shares |-> 1, diffSum |-> d]
  <2>2. unflushed'[l] = Books!Plus(unflushed[l], one)
    BY <2>0, <2>1 DEF Books!CreditShare
  <2>3. Books!IsOneShareMore(l)
    <3>1. /\ unflushed[l].shares \in Nat /\ unflushed[l].diffSum \in Nat
          /\ disk.total[l].shares \in Nat /\ disk.total[l].diffSum \in Nat /\ d \in Nat
      BY <2>0 DEF Counters
    <3> QED BY <2>0, <2>2, <3>1 DEF Books!IsOneShareMore, Books!Shown, Books!Plus
  <2>4. unflushed'[l].shares > unflushed[l].shares
    BY <2>0, <2>2 DEF Books!Plus, Counters
  <2>5. \E s \in wire \ wire' : s.listing = l
    BY <2>4, CreditStep DEF SiteIInv, Handle, HubNext
  <2> QED BY <2>3, <2>5
<1> QED BY <1>1, <1>2

LEMMA SharesStep ==
  ASSUME SiteIInv, [SiteNext]_siteVars, process = "serving", process' = "serving",
         NEW l \in disk.rows \cap disk'.rows
  PROVE  \/ Books!Shown(l)' = Books!Shown(l)
         \/ Books!IsOneShareMore(l) /\ \E s \in wire \ wire' : s.listing = l
         \/ ~healthy /\ DeleteListing(l)
<1>0. /\ disk \in Accounts!Tables /\ l \in Listings
      /\ unflushed \in [Listings -> Counters]
  BY DEF SiteIInv, HubIInv, CountIInv, Accounts!LedgerIInv, Accounts!TypeOK, Accounts!Tables
<1>1. CASE Handle
  BY <1>0, <1>1, HandlersShowShares
<1>2. ASSUME NEW k \in Listings, CreateListing(k)
      PROVE  Books!Shown(l)' = Books!Shown(l)
  <2>1. disk'.total = disk.total /\ unflushed' = unflushed
    BY <1>0, <1>2 DEF CreateListing, Books!CreateListing, Accounts!Tables
  <2> QED BY <2>1 DEF Books!Shown
<1>3. ASSUME NEW k \in Listings, DeleteListing(k)
      PROVE  Books!Shown(l)' = Books!Shown(l) \/ (~healthy /\ k = l)
  <2>1. unflushed' = [unflushed EXCEPT ![k] = NoCredit]
    BY <1>3 DEF DeleteListing, OnTakedown, CreditDropped
  <2>2. CASE k # l
    <3>1. unflushed'[l] = unflushed[l]
      BY <1>0, <2>1, <2>2
    <3>2. disk'.total[l] = disk.total[l]
      BY <1>0, <1>3, <2>2 DEF DeleteListing, Books!DeleteListing, Accounts!Tables
    <3> QED BY <3>1, <3>2 DEF Books!Shown
  <2>3. CASE k = l /\ healthy
    BY <1>3, <2>3 DEF DeleteListing, Books!DeleteListing
  <2> QED BY <2>2, <2>3
<1>4. CASE KeepBooks
  BY <1>0, <1>4, BooksShowTheSame
<1>5. CASE UNCHANGED siteVars
  BY <1>5 DEF siteVars, hubVars, shareVars, bookVars, Books!Shown
<1> QED BY <1>1, <1>2, <1>3, <1>4, <1>5 DEF SiteNext

\* From the pool's answer to the row: in a process that lives, a listing's shares on the
\* board move one at a time, each by the answer to a share that was sent for it.
THEOREM TheBoardMovesByShares == SiteSpec => BoardMovesByItsShares
<1>1. SiteIInv /\ [SiteNext]_siteVars =>
        [process = "serving" /\ process' = "serving" => \A l \in disk.rows \cap disk'.rows :
           \/ Books!Shown(l)' = Books!Shown(l)
           \/ Books!IsOneShareMore(l) /\ \E s \in wire \ wire' : s.listing = l
           \/ ~healthy /\ DeleteListing(l)]_siteVars
  BY SharesStep
<1> QED BY <1>1, SiteHolds, PTL DEF SiteSpec, BoardMovesByItsShares

\* So what is proved of the ledger alone holds beside the hub: whatever visitors and pool
\* do, history, total and gate agree on the disk, an exit the program chose keeps what was
\* counted, and a database that answers never fails a flush.
THEOREM TheSitesBooksAreSound ==
  SiteSpec => []Accounts!LedgerIsSound /\ Accounts!StopKeepsShares /\ Accounts!HealthyFlushSucceeds
<1>1. SiteSpec => Accounts!Spec
  <2>1. SiteInit => Accounts!Init
    BY OneLedger DEF SiteInit
  <2>2. SiteIInv /\ [SiteNext]_siteVars => [Accounts!Next]_(Accounts!vars)
    BY SiteStep, OneLedger
  <2> QED BY <2>1, <2>2, SiteHolds, PTL DEF SiteSpec, Accounts!Spec
<1>2. Accounts!Spec => []Accounts!LedgerIsSound
  BY OneLedger, Accounts!TheDiskIsAlwaysSound DEF Accounts!LedgerAssumption
<1>3. Accounts!Spec => Accounts!StopKeepsShares
  BY OneLedger, Accounts!AStopKeepsItsShares DEF Accounts!LedgerAssumption
<1>4. Accounts!Spec => Accounts!HealthyFlushSucceeds
  BY OneLedger, Accounts!AHealthyFlushSucceeds DEF Accounts!LedgerAssumption
<1> QED BY <1>1, <1>2, <1>3, <1>4
=============================================================================

----------------------------- MODULE BoardProofs -----------------------------
(***************************************************************************)
(* What the board shows, proved for any number of listings, of sockets and *)
(* of searches: one board for all, scores that never fall, and a rank that *)
(* is the place in the list.                                               *)
(***************************************************************************)
EXTENDS Board, FiniteSetTheorems, TLAPS

-----------------------------------------------------------------------------
(* Sorting.  An order is given as what comes after each element.           *)

Orders(S, after) ==
  /\ after \in [S -> SUBSET S]
  /\ \A x \in S : x \notin after[x]
  /\ \A x, y \in S : x = y \/ y \in after[x] \/ x \in after[y]
  /\ \A x, y, z \in S : y \in after[x] /\ z \in after[y] => z \in after[x]

Ahead(S, after, x) == {y \in S : x \in after[y]}

LEMMA AheadIsFinite ==
  ASSUME NEW S, IsFiniteSet(S), NEW after, NEW x
  PROVE  IsFiniteSet(Ahead(S, after, x)) /\ Cardinality(Ahead(S, after, x)) \in Nat
<1>1. Ahead(S, after, x) \in SUBSET S
  BY DEF Ahead
<1> QED BY <1>1, FS_Subset, FS_CardinalityType

\* The later an element, the more there are ahead of it.
LEMMA AheadGrows ==
  ASSUME NEW S, IsFiniteSet(S), NEW after, Orders(S, after), NEW x \in S, NEW y \in after[x]
  PROVE  Cardinality(Ahead(S, after, x)) < Cardinality(Ahead(S, after, y))
<1> DEFINE a == Ahead(S, after, x)
           b == Ahead(S, after, y)
<1>1. y \in S /\ x \in b
  BY DEF Orders, Ahead
<1>2. a \cup {x} \in SUBSET b
  BY <1>1 DEF Orders, Ahead
<1>3. x \notin a
  BY DEF Orders, Ahead
<1> HIDE DEF a, b
<1>4. IsFiniteSet(a) /\ IsFiniteSet(b) /\ Cardinality(a) \in Nat /\ Cardinality(b) \in Nat
  BY AheadIsFinite DEF a, b
<1>5. Cardinality(a \cup {x}) = Cardinality(a) + 1
  BY <1>3, <1>4, FS_AddElement
<1>6. Cardinality(a \cup {x}) <= Cardinality(b)
  BY <1>2, <1>4, FS_Subset
<1>7. Cardinality(a) < Cardinality(b)
  BY <1>4, <1>5, <1>6
<1> QED BY <1>7 DEF a, b

InOrder(S, after, s) ==
  /\ s \in [1 .. Cardinality(S) -> S]
  /\ \A i, j \in 1 .. Cardinality(S) : i < j => s[j] \in after[s[i]]

\* Counting what is ahead of each element puts them in order: there is a sequence
\* for Sorted to choose.
LEMMA SortExists ==
  ASSUME NEW S, IsFiniteSet(S), NEW after, Orders(S, after)
  PROVE  \E s : InOrder(S, after, s)
<1> DEFINE n == Cardinality(S)
           c(x) == Cardinality(Ahead(S, after, x))
           place == [x \in S |-> c(x) + 1]
<1>1. n \in Nat /\ \A x \in S : c(x) \in Nat
  BY FS_CardinalityType, AheadIsFinite
<1>2. ASSUME NEW x \in S
      PROVE  c(x) < n
  <2>1. Ahead(S, after, x) \in SUBSET S /\ Ahead(S, after, x) # S
    BY DEF Ahead, Orders
  <2>2. c(x) <= n /\ c(x) # n
    BY <2>1, FS_Subset
  <2> QED BY <1>1, <2>2
<1>3. \A x, y \in S : y \in after[x] => c(x) < c(y)
  BY AheadGrows
<1> HIDE DEF c
<1>4. place \in [S -> 1 .. n]
  BY <1>1, <1>2
<1>5. \A x, y \in S : y \in after[x] => place[x] < place[y]
  BY <1>1, <1>3
<1>6. \A x \in S : place[x] \in Nat
  BY <1>1
<1> HIDE DEF place
<1>7. \A x, y \in S : place[x] = place[y] => x = y
  BY <1>5, <1>6 DEF Orders
<1>8. place \in Injection(S, 1 .. n)
  BY <1>4, <1>7 DEF Injection, IsInjective
<1>9. IsFiniteSet(1 .. n) /\ Cardinality(1 .. n) = n
  BY <1>1, FS_Interval
<1>10. place \in Surjection(S, 1 .. n)
  BY <1>8, <1>9, FS_Injection
<1>11. \A i \in 1 .. n : \E x \in S : place[x] = i
  BY <1>10 DEF Surjection
<1> DEFINE s == [i \in 1 .. n |-> CHOOSE x \in S : place[x] = i]
<1>12. \A i \in 1 .. n : s[i] \in S /\ place[s[i]] = i
  BY <1>11
<1>13. s \in [1 .. n -> S]
  BY <1>12
<1> HIDE DEF s
<1>14. ASSUME NEW i \in 1 .. n, NEW j \in 1 .. n, i < j
       PROVE  s[j] \in after[s[i]]
  <2>1. s[i] # s[j] /\ s[i] \notin after[s[j]]
    BY <1>5, <1>12, <1>14
  <2> QED BY <1>12, <2>1 DEF Orders
<1> QED BY <1>13, <1>14 DEF InOrder

\* A sequence that is in order has every element, once.
LEMMA InOrderIsOnto ==
  ASSUME NEW S, IsFiniteSet(S), NEW after, Orders(S, after), NEW s, InOrder(S, after, s)
  PROVE  /\ \A i, j \in 1 .. Cardinality(S) : s[i] = s[j] => i = j
         /\ \A x \in S : \E i \in 1 .. Cardinality(S) : s[i] = x
<1> DEFINE n == Cardinality(S)
<1>1. n \in Nat
  BY FS_CardinalityType
<1>2. s \in [1 .. n -> S] /\ \A j, k \in 1 .. n : j < k => s[k] \in after[s[j]]
  BY DEF InOrder
<1>3. \A j, k \in 1 .. n : s[j] = s[k] => j = k
  <2> SUFFICES ASSUME NEW j \in 1 .. n, NEW k \in 1 .. n, s[j] = s[k] PROVE j = k
    OBVIOUS
  <2>1. s[j] \in S /\ s[j] \notin after[s[j]]
    BY <1>2 DEF Orders
  <2>2. ~(j < k) /\ ~(k < j)
    BY <1>2, <2>1
  <2> QED BY <1>1, <2>2
<1>4. s \in Injection(1 .. n, S)
  BY <1>2, <1>3 DEF Injection, IsInjective
<1>5. Cardinality(1 .. n) = n
  BY <1>1, FS_Interval
<1>6. s \in Surjection(1 .. n, S)
  BY <1>4, <1>5, FS_Injection
<1> QED BY <1>3, <1>6 DEF Surjection

\* In a sequence that is in order the place of an element is the number of those
\* ahead of it, and one more.
LEMMA PlaceIsCount ==
  ASSUME NEW S, IsFiniteSet(S), NEW after, Orders(S, after), NEW s, InOrder(S, after, s),
         NEW i \in 1 .. Cardinality(S)
  PROVE  Cardinality(Ahead(S, after, s[i])) = i - 1
<1> DEFINE n == Cardinality(S)
           a == Ahead(S, after, s[i])
           g == [j \in 1 .. i - 1 |-> s[j]]
<1>1. n \in Nat /\ i \in Nat /\ i - 1 \in Nat
  BY FS_CardinalityType
<1>2. s \in [1 .. n -> S] /\ \A j, k \in 1 .. n : j < k => s[k] \in after[s[j]]
  BY DEF InOrder
<1>3. \A j, k \in 1 .. n : s[j] = s[k] => j = k
  BY InOrderIsOnto
<1>7. \A x \in S : \E j \in 1 .. n : s[j] = x
  BY InOrderIsOnto
<1>8. ASSUME NEW x \in a
      PROVE  \E j \in 1 .. i - 1 : g[j] = x
  <2>1. x \in S /\ s[i] \in after[x] /\ s[i] \in S
    BY <1>2 DEF Ahead
  <2>2. PICK j \in 1 .. n : s[j] = x
    BY <1>7, <2>1
  <2>3. j # i
    BY <2>1, <2>2 DEF Orders
  <2>4. ~(i < j)
    <3> SUFFICES ASSUME i < j PROVE FALSE
      OBVIOUS
    <3>1. x \in after[s[i]]
      BY <1>2, <2>2
    <3>2. x \in after[x]
      BY <2>1, <3>1 DEF Orders
    <3> QED BY <2>1, <3>2 DEF Orders
  <2>5. j \in 1 .. i - 1
    BY <1>1, <2>3, <2>4
  <2> QED BY <2>2, <2>5
<1>9. ASSUME NEW j \in 1 .. i - 1
      PROVE  g[j] \in a
  <2>1. j \in 1 .. n /\ j < i
    BY <1>1
  <2> QED BY <1>2, <2>1 DEF Ahead
<1>10. \A j, k \in 1 .. i - 1 : g[j] = g[k] => j = k
  <2>1. \A j \in 1 .. i - 1 : j \in 1 .. n
    BY <1>1
  <2> QED BY <1>3, <2>1
<1>11. g \in [1 .. i - 1 -> a]
  BY <1>9
<1> HIDE DEF g, a
<1>12. g \in Bijection(1 .. i - 1, a)
  <2>1. g \in Injection(1 .. i - 1, a)
    BY <1>10, <1>11 DEF Injection, IsInjective
  <2>2. g \in Surjection(1 .. i - 1, a)
    BY <1>8, <1>11 DEF Surjection
  <2> QED BY <2>1, <2>2 DEF Bijection
<1>13. IsFiniteSet(1 .. i - 1) /\ Cardinality(1 .. i - 1) = i - 1
  <2> DEFINE m == i - 1
  <2>1. m \in Nat
    BY <1>1
  <2> HIDE DEF m
  <2>2. IsFiniteSet(1 .. m) /\ Cardinality(1 .. m) = IF 1 > m THEN 0 ELSE m - 1 + 1
    BY <2>1, FS_Interval
  <2>3. Cardinality(1 .. m) = m
    BY <2>1, <2>2
  <2> QED BY <2>2, <2>3 DEF m
<1>14. Cardinality(a) = Cardinality(1 .. i - 1)
  BY <1>12, <1>13, FS_Bijection DEF ExistsBijection
<1> QED BY <1>13, <1>14 DEF a

-----------------------------------------------------------------------------
(* The lists.                                                              *)

Written == {l \in Ids : rows[l] # Absent}

LEMMA IdsAreNumbers ==
  /\ Ids \subseteq Nat /\ IsFiniteSet(Ids) /\ MaxListings \in Nat /\ Entries \in Nat /\ MaxScore \in Nat
  /\ \A s \in SUBSET Ids : IsFiniteSet(s) /\ Cardinality(s) \in Nat
<1>1. MaxListings \in Nat /\ Entries \in Nat /\ MaxScore \in Nat
  BY BoardAssumption
<1>2. Ids \subseteq Nat /\ IsFiniteSet(Ids)
  BY <1>1, FS_Interval DEF Ids
<1> QED BY <1>1, <1>2, FS_Subset, FS_CardinalityType

BoardOrder(s, tie) == [l \in s |-> {k \in s : Listed(tie, l, k)}]
QueueOrder(s, tie) == [l \in s |-> {k \in s : Queued(tie, l, k)}]

\* Whatever order equals come in, it makes one list of all.
LEMMA BothAreOrders ==
  ASSUME BoardTypeOK, NEW s \in SUBSET Written, NEW t \in Ties
  PROVE  Orders(s, BoardOrder(s, t)) /\ Orders(s, QueueOrder(s, t))
<1>1. s \subseteq Nat /\ \A l \in s : rows[l] \in Nat /\ born[l] \in Nat
  BY IdsAreNumbers, BoardAssumption DEF Written, BoardTypeOK
<1>2. BoardOrder(s, t) \in [s -> SUBSET s] /\ QueueOrder(s, t) \in [s -> SUBSET s]
  BY DEF BoardOrder, QueueOrder
<1>3. \A l, k \in s : /\ k \in BoardOrder(s, t)[l] <=> Listed(t, l, k)
                      /\ k \in QueueOrder(s, t)[l] <=> Queued(t, l, k)
  BY DEF BoardOrder, QueueOrder
<1>4. \A l, k \in s : t[l] \in Nat /\ (t[l] = t[k] => l = k)
  BY IdsAreNumbers DEF Ties, Injection, IsInjective, Written
<1>5. /\ \A x \in s : ~Listed(t, x, x)
      /\ \A x, y \in s : x = y \/ Listed(t, x, y) \/ Listed(t, y, x)
      /\ \A x, y, z \in s : Listed(t, x, y) /\ Listed(t, y, z) => Listed(t, x, z)
  BY <1>1, <1>4 DEF Listed, Above
<1>6. /\ \A x \in s : ~Queued(t, x, x)
      /\ \A x, y \in s : x = y \/ Queued(t, x, y) \/ Queued(t, y, x)
      /\ \A x, y, z \in s : Queued(t, x, y) /\ Queued(t, y, z) => Queued(t, x, z)
  BY <1>1, <1>4 DEF Queued, Nearest
<1> QED BY <1>2, <1>3, <1>5, <1>6, Zenon DEF Orders

\* What Sorted chooses for the board and for the queue.
BoardSorted(S, tie) ==
  CHOOSE s \in [1 .. Cardinality(S) -> S] :
    \A i, j \in 1 .. Cardinality(S) : i < j => Listed(tie, s[i], s[j])

QueueSorted(S, tie) ==
  CHOOSE s \in [1 .. Cardinality(S) -> S] :
    \A i, j \in 1 .. Cardinality(S) : i < j => Queued(tie, s[i], s[j])

LEMMA ListsAreCut ==
  ASSUME NEW t
  PROVE  /\ \A q : ListBoard(q, t) = Cut(BoardSorted(Visible \cap q.search, t), q.offset)
         /\ Pending(t) = Cut(QueueSorted(Queue, t), 0)
BY DEF ListBoard, Pending, Sorted, BoardSorted, QueueSorted

LEMMA BothAreInOrder ==
  ASSUME BoardTypeOK, NEW S \in SUBSET Written, NEW t \in Ties
  PROVE  /\ InOrder(S, BoardOrder(S, t), BoardSorted(S, t))
         /\ InOrder(S, QueueOrder(S, t), QueueSorted(S, t))
<1> DEFINE D == [1 .. Cardinality(S) -> S]
           board(s) == \A i, j \in 1 .. Cardinality(S) : i < j => Listed(t, s[i], s[j])
           queue(s) == \A i, j \in 1 .. Cardinality(S) : i < j => Queued(t, s[i], s[j])
<1>0. S \in SUBSET Ids
  BY DEF Written
<1>1. IsFiniteSet(S) /\ Orders(S, BoardOrder(S, t)) /\ Orders(S, QueueOrder(S, t))
  BY <1>0, BothAreOrders, IdsAreNumbers
<1>2. \A s \in D : InOrder(S, BoardOrder(S, t), s) <=> board(s)
  BY DEF InOrder, BoardOrder
<1>3. \A s \in D : InOrder(S, QueueOrder(S, t), s) <=> queue(s)
  BY DEF InOrder, QueueOrder
<1>4. \A after, s : InOrder(S, after, s) => s \in D
  BY DEF InOrder
<1>5. (\E s : InOrder(S, BoardOrder(S, t), s)) /\ (\E s : InOrder(S, QueueOrder(S, t), s))
  BY <1>1, SortExists
<1>6. (\E s \in D : board(s)) /\ (\E s \in D : queue(s))
  BY <1>2, <1>3, <1>4, <1>5
<1>7. BoardSorted(S, t) = (CHOOSE s \in D : board(s)) /\ QueueSorted(S, t) = (CHOOSE s \in D : queue(s))
  BY DEF BoardSorted, QueueSorted
<1> HIDE DEF D, board, queue
<1>8. /\ BoardSorted(S, t) \in D /\ board(BoardSorted(S, t))
      /\ QueueSorted(S, t) \in D /\ queue(QueueSorted(S, t))
  BY <1>6, <1>7, Zenon
<1> QED BY <1>2, <1>3, <1>8

\* A page is a stretch of the list, of Entries at most.
LEMMA CutOf ==
  ASSUME NEW S, NEW n \in Nat, NEW s \in [1 .. n -> S], NEW o \in Nat
  PROVE  /\ Cut(s, o) \in Seq(S)
         /\ \A i \in DOMAIN Cut(s, o) : i \in Nat \ {0} /\ o + i \in 1 .. n /\ Cut(s, o)[i] = s[o + i]
<1> DEFINE d == {i \in 1 .. Entries : o + i <= n}
           m == IF o > n THEN 0 ELSE IF n - o <= Entries THEN n - o ELSE Entries
<1>0. Entries \in Nat
  BY IdsAreNumbers
<1>1. s \in Seq(S) /\ Len(s) = n
  OBVIOUS
<1>2. Cut(s, o) = [i \in d |-> s[o + i]]
  BY <1>1 DEF Cut
<1>3. m \in Nat /\ d = 1 .. m
  BY <1>0
<1>4. \A i \in d : i \in Nat \ {0} /\ o + i \in 1 .. n
  BY <1>0
<1> HIDE DEF d, m
<1>5. \A i \in d : s[o + i] \in S
  BY <1>4
<1>6. Cut(s, o) \in [1 .. m -> S]
  BY <1>2, <1>3, <1>5
<1>7. Cut(s, o) \in Seq(S)
  BY <1>3, <1>6
<1> QED BY <1>2, <1>4, <1>7

LEMMA BoardLists ==
  ASSUME BoardTypeOK, NEW q \in Query, NEW t \in Ties
  PROVE  /\ ListBoard(q, t) \in Seq(Visible \cap q.search)
         /\ DOMAIN ListBoard(q, t) =
              {i \in 1 .. Entries : q.offset + i <= Cardinality(Visible \cap q.search)}
         /\ \A i \in DOMAIN ListBoard(q, t) :
              /\ q.offset + i \in 1 .. Cardinality(Visible \cap q.search)
              /\ ListBoard(q, t)[i] = BoardSorted(Visible \cap q.search, t)[q.offset + i]
<1> DEFINE S == Visible \cap q.search
<1>1. S \in SUBSET Written /\ S \in SUBSET Ids
  BY DEF Visible, Written
<1>2. q.offset \in Nat
  BY BoardAssumption DEF Query
<1> HIDE DEF S
<1>3. BoardSorted(S, t) \in [1 .. Cardinality(S) -> S] /\ Cardinality(S) \in Nat
  BY <1>1, BothAreInOrder, IdsAreNumbers DEF InOrder
<1>4. ListBoard(q, t) = Cut(BoardSorted(S, t), q.offset)
  BY ListsAreCut DEF S
<1> DEFINE n == Cardinality(S)
           s == BoardSorted(S, t)
           o == q.offset
<1>5. n \in Nat /\ s \in [1 .. n -> S] /\ o \in Nat
  BY <1>2, <1>3
<1> HIDE DEF n, s, o
<1>6. /\ Cut(s, o) \in Seq(S)
      /\ \A i \in DOMAIN Cut(s, o) : i \in Nat \ {0} /\ o + i \in 1 .. n /\ Cut(s, o)[i] = s[o + i]
  BY <1>5, CutOf
<1>7. DOMAIN Cut(s, o) = {i \in 1 .. Entries : o + i <= n}
  <2>1. Len(s) = n
    BY <1>5
  <2> QED BY <2>1 DEF Cut
<1> QED BY <1>4, <1>6, <1>7 DEF S, n, s, o

LEMMA QueueLists ==
  ASSUME BoardTypeOK, NEW t \in Ties
  PROVE  Pending(t) \in Seq(Queue)
<1>1. Queue \in SUBSET Written /\ Queue \in SUBSET Ids
  BY DEF Queue, Written
<1>2. QueueSorted(Queue, t) \in [1 .. Cardinality(Queue) -> Queue] /\ Cardinality(Queue) \in Nat
  BY <1>1, BothAreInOrder, IdsAreNumbers DEF InOrder
<1> QED BY <1>2, ListsAreCut, CutOf

\* Those the list has ahead of a listing are those its rank counts, and maybe equals.
LEMMA RankAndPlace ==
  ASSUME BoardTypeOK
  PROVE  RankIsThePlace
<1> SUFFICES ASSUME NEW t \in Ties, NEW q \in Query, q.search = Ids,
                    NEW i \in DOMAIN ListBoard(q, t)
             PROVE  q.offset + i \in PlacesOf(ListBoard(q, t)[i])
  BY DEF RankIsThePlace
<1> DEFINE S == Visible
           s == BoardSorted(S, t)
           k == q.offset + i
           x == s[k]
           A == {y \in S : Above(y, x)}
           L == Ahead(S, BoardOrder(S, t), x)
<1>1. S \in SUBSET Written /\ S \in SUBSET Ids /\ Visible \cap q.search = S
  BY DEF Visible, Written
<1>2. k \in 1 .. Cardinality(S) /\ ListBoard(q, t)[i] = x
  BY <1>1, BoardLists
<1> HIDE DEF k, S, s
<1>3. /\ IsFiniteSet(S) /\ Cardinality(S) \in Nat
      /\ Orders(S, BoardOrder(S, t)) /\ InOrder(S, BoardOrder(S, t), s)
  BY <1>1, IdsAreNumbers, BothAreOrders, BothAreInOrder DEF s
<1>4. Cardinality(L) = k - 1
  BY <1>2, <1>3, PlaceIsCount
<1>5. x \in S
  BY <1>2, <1>3 DEF InOrder
<1> HIDE DEF x
<1>6. L = {y \in S : Listed(t, y, x)}
  BY <1>5 DEF Ahead, BoardOrder
<1>7. \A y \in S : rows[y] \in Nat /\ born[y] \in Nat
  BY <1>1, BoardAssumption DEF BoardTypeOK, Written
<1>8. A \in SUBSET L /\ L \in SUBSET (A \cup Equals(x))
  <2>1. \A y \in S : Above(y, x) => Listed(t, y, x)
    BY DEF Listed
  <2>2. \A y \in S : t[y] \in Nat
    BY <1>1, IdsAreNumbers DEF Ties, Injection
  <2>3. \A y \in S : Listed(t, y, x) => Above(y, x) \/ (y # x /\ rows[y] = rows[x] /\ born[y] = born[x])
    BY <1>5, <1>7, <2>2 DEF Listed, Above
  <2>4. \A y \in S : Listed(t, y, x) => Above(y, x) \/ y \in Equals(x)
    BY <2>3 DEF Equals, S
  <2> QED BY <1>6, <2>1, <2>4
<1>9. A \in SUBSET S /\ Equals(x) \in SUBSET S /\ L \in SUBSET S
  BY <1>6 DEF Equals, S
<1>10. RankOf(x) = 1 + Cardinality(A)
  BY DEF RankOf, S
<1> HIDE DEF A, L
<1>11. /\ IsFiniteSet(A) /\ IsFiniteSet(Equals(x)) /\ IsFiniteSet(L)
       /\ Cardinality(A) \in Nat /\ Cardinality(Equals(x)) \in Nat
  BY <1>3, <1>9, FS_Subset, FS_CardinalityType
<1>12. Cardinality(A) <= Cardinality(L)
  BY <1>8, <1>11, FS_Subset
<1>13. /\ IsFiniteSet(A \cup Equals(x))
       /\ Cardinality(A \cup Equals(x)) <= Cardinality(A) + Cardinality(Equals(x))
  <2>1. /\ IsFiniteSet(A \cup Equals(x)) /\ IsFiniteSet(A \cap Equals(x))
        /\ Cardinality(A \cup Equals(x))
             = Cardinality(A) + Cardinality(Equals(x)) - Cardinality(A \cap Equals(x))
    BY <1>11, FS_Union, FS_Intersection
  <2>2. Cardinality(A \cap Equals(x)) \in Nat
    BY <2>1, FS_CardinalityType
  <2> QED BY <1>11, <2>1, <2>2
<1>14. Cardinality(L) <= Cardinality(A \cup Equals(x))
  BY <1>8, <1>13, FS_Subset
<1>15. Cardinality(A \cup Equals(x)) \in Nat
  BY <1>13, FS_CardinalityType
<1>16. k \in Nat
  BY <1>2, <1>3
<1>17. k \in RankOf(x) .. RankOf(x) + Cardinality(Equals(x))
  BY <1>4, <1>10, <1>11, <1>12, <1>13, <1>14, <1>15, <1>16
<1> QED BY <1>2, <1>17 DEF PlacesOf, k

-----------------------------------------------------------------------------
(* The snapshot.                                                           *)

LEMMA ScoresAreNumbers ==
  ASSUME BoardTypeOK
  PROVE  \A l \in Written : l \in Ids /\ rows[l] \in Nat /\ unflushed[l] \in Nat /\ Score(l) \in Nat
BY IdsAreNumbers DEF BoardTypeOK, Written, Score

\* The order of the stable sort: what comes after each place.
ScoreOrder(s) ==
  [i \in DOMAIN s |->
     {k \in DOMAIN s : Score(s[i]) > Score(s[k]) \/ (Score(s[i]) = Score(s[k]) /\ i < k)}]

LEMMA StableSort ==
  ASSUME BoardTypeOK, NEW T \in SUBSET Written, NEW s \in Seq(T)
  PROVE  /\ IsFiniteSet(DOMAIN s) /\ Cardinality(DOMAIN s) = Len(s) /\ Orders(DOMAIN s, ScoreOrder(s))
         /\ \E order : /\ InOrder(DOMAIN s, ScoreOrder(s), order)
                       /\ SortedByScore(s) = [i \in DOMAIN s |-> s[order[i]]]
<1> DEFINE D == DOMAIN s
           n == Cardinality(D)
           before(i, k) == Score(s[i]) > Score(s[k]) \/ (Score(s[i]) = Score(s[k]) /\ i < k)
           after == ScoreOrder(s)
           sorts(o) == \A i, j \in 1 .. n : i < j => before(o[i], o[j])
           order == CHOOSE o \in [1 .. n -> D] : sorts(o)
<1>1. D = 1 .. Len(s) /\ Len(s) \in Nat
  OBVIOUS
<1>2. IsFiniteSet(D) /\ n = Len(s)
  <2> DEFINE m == Len(s)
  <2>1. m \in Nat /\ D = 1 .. m
    BY <1>1
  <2> HIDE DEF m, D
  <2>2. IsFiniteSet(1 .. m) /\ Cardinality(1 .. m) = IF 1 > m THEN 0 ELSE m - 1 + 1
    BY <2>1, FS_Interval
  <2>3. Cardinality(1 .. m) = m
    BY <2>1, <2>2
  <2> QED BY <2>1, <2>2, <2>3 DEF m
<1>3. \A i \in D : s[i] \in T
  OBVIOUS
<1>4. \A i \in D : i \in Nat /\ Score(s[i]) \in Nat
  BY <1>1, <1>3, ScoresAreNumbers
<1>5. SortedByScore(s) = [i \in D |-> s[order[i]]]
  BY DEF SortedByScore, Sorted
<1>6. after \in [D -> SUBSET D] /\ \A i, k \in D : k \in after[i] <=> before(i, k)
  BY DEF ScoreOrder
<1> HIDE DEF D, after
<1>7. Orders(D, after)
  <2> DEFINE score == [i \in D |-> Score(s[i])]
  <2>1. \A i \in D : score[i] = Score(s[i])
    OBVIOUS
  <2> HIDE DEF score
  <2>2. \A i, k \in D : k \in after[i] <=> (score[i] > score[k] \/ (score[i] = score[k] /\ i < k))
    BY <1>6, <2>1
  <2>3. \A i \in D : i \in Nat /\ score[i] \in Nat
    BY <1>4, <2>1
  <2> QED BY <1>6, <2>2, <2>3 DEF Orders
<1> HIDE DEF before
<1>8. \A o \in [1 .. n -> D] : InOrder(D, after, o) <=> sorts(o)
  BY <1>6 DEF InOrder
<1>9. \E o \in [1 .. n -> D] : sorts(o)
  <2>1. PICK o : InOrder(D, after, o)
    BY <1>2, <1>7, SortExists
  <2>2. o \in [1 .. n -> D]
    BY <2>1 DEF InOrder
  <2> QED BY <1>8, <2>1, <2>2
<1> HIDE DEF sorts
<1>10. order \in [1 .. n -> D] /\ sorts(order)
  BY <1>9
<1>11. InOrder(D, after, order)
  BY <1>8, <1>10
<1> QED BY <1>2, <1>5, <1>7, <1>11 DEF D, after

\* The stable sort moves the rows of a list and keeps them.
LEMMA SortKeepsRows ==
  ASSUME BoardTypeOK, NEW T \in SUBSET Written, NEW s \in Seq(T)
  PROVE  SortedByScore(s) \in Seq(T)
<1>1. DOMAIN s = 1 .. Len(s) /\ Len(s) \in Nat /\ \A i \in DOMAIN s : s[i] \in T
  OBVIOUS
<1>2. PICK order : /\ InOrder(DOMAIN s, ScoreOrder(s), order)
                   /\ SortedByScore(s) = [i \in DOMAIN s |-> s[order[i]]]
  BY StableSort
<1>3. Cardinality(DOMAIN s) = Len(s)
  BY StableSort
<1>4. \A i \in DOMAIN s : order[i] \in DOMAIN s
  BY <1>1, <1>2, <1>3 DEF InOrder
<1>5. SortedByScore(s) \in [1 .. Len(s) -> T]
  BY <1>1, <1>2, <1>4
<1> QED BY <1>1, <1>5

LEMMA LiveRows ==
  ASSUME BoardTypeOK, NEW T \in SUBSET Written, NEW s \in Seq(T)
  PROVE  /\ LiveAll(s) \in Seq(Entry)
         /\ \A e \in ToSet(LiveAll(s)) : e.id \in Written /\ e.score = Score(e.id)
<1>1. DOMAIN s = 1 .. Len(s) /\ Len(s) \in Nat /\ \A i \in DOMAIN s : s[i] \in T
  OBVIOUS
<1>2. \A l \in Written : Live(l) \in Entry /\ Live(l).id = l /\ Live(l).score = Score(l)
  BY ScoresAreNumbers DEF Live, Entry
<1>3. \A i \in DOMAIN s : LiveAll(s)[i] = Live(s[i]) /\ s[i] \in Written
  BY <1>1 DEF LiveAll
<1>4. DOMAIN LiveAll(s) = 1 .. Len(s)
  BY <1>1 DEF LiveAll
<1>5. LiveAll(s) \in [1 .. Len(s) -> Entry]
  BY <1>1, <1>2, <1>3 DEF LiveAll
<1>6. LiveAll(s) \in Seq(Entry)
  BY <1>1, <1>5
<1>7. \A e \in ToSet(LiveAll(s)) : e.id \in Written /\ e.score = Score(e.id)
  <2> SUFFICES ASSUME NEW e \in ToSet(LiveAll(s)) PROVE e.id \in Written /\ e.score = Score(e.id)
    OBVIOUS
  <2>1. PICK i \in DOMAIN LiveAll(s) : e = LiveAll(s)[i]
    BY DEF ToSet
  <2>2. i \in DOMAIN s
    BY <1>1, <1>4, <2>1
  <2> QED BY <1>2, <1>3, <2>1, <2>2
<1> QED BY <1>6, <1>7

\* The rows a snapshot has, of the board and of the queue.
Lines(b) == ToSet(b.entries) \cup ToSet(b.pending)

LEMMA SnapshotIs ==
  ASSUME BoardTypeOK, IsFiniteSet(DOMAIN shown), NEW tie \in Ties, NEW b,
         b = BoardSnapshot(tie) \/ b = [BoardSnapshot(tie) EXCEPT !.online = @ + 1]
  PROVE  /\ b \in Snapshot
         /\ \A e \in Lines(b) : e.id \in Written /\ e.score = Score(e.id)
<1>1. Home \in Query
  BY BoardAssumption DEF Home, Query
<1>2. ListBoard(Home, tie) \in Seq(Visible \cap Home.search) /\ Pending(tie) \in Seq(Queue)
  BY <1>1, BoardLists, QueueLists
<1>3. Visible \cap Home.search \in SUBSET Written /\ Queue \in SUBSET Written
      /\ Visible \cap Home.search \in SUBSET Ids
  BY DEF Visible, Queue, Written
<1>4. SortedByScore(ListBoard(Home, tie)) \in Seq(Visible \cap Home.search)
  BY <1>2, <1>3, SortKeepsRows
<1> DEFINE x == LiveAll(SortedByScore(ListBoard(Home, tie)))
           y == LiveAll(Pending(tie))
           t == CountBoard(Home)
           n == Cardinality(DOMAIN shown)
<1>5. /\ x \in Seq(Entry) /\ \A e \in ToSet(x) : e.id \in Written /\ e.score = Score(e.id)
      /\ y \in Seq(Entry) /\ \A e \in ToSet(y) : e.id \in Written /\ e.score = Score(e.id)
  BY <1>2, <1>3, <1>4, LiveRows
<1>6. t \in Nat /\ n \in Nat
  BY <1>3, IdsAreNumbers, FS_CardinalityType DEF CountBoard
<1>7. BoardSnapshot(tie) = [entries |-> x, pending |-> y, total |-> t, online |-> n]
  BY DEF BoardSnapshot
<1> HIDE DEF x, y, t, n
<1>8. b.entries = x /\ b.pending = y
  BY <1>7
<1>9. b \in Snapshot
  BY <1>5, <1>6, <1>7 DEF Snapshot
<1> QED BY <1>5, <1>8, <1>9 DEF Lines

LEMMA DomainOfSeq ==
  ASSUME NEW T, NEW q \in Seq(T)
  PROVE  DOMAIN q = 1 .. Len(q) /\ Len(q) \in Nat
  OBVIOUS

\* What is not on the first page has been cut off below all that is, and with nothing
\* unwritten the stable sort leaves the list as it is.
LEMMA TopOfTheBoard ==
  ASSUME BoardTypeOK
  PROVE  FirstPageIsTheTop
<1> SUFFICES ASSUME NEW tie \in Ties
             PROVE  LET b == BoardSnapshot(tie) IN
                    /\ \A l \in Visible, i \in DOMAIN b.entries :
                         ~Shows(b, l) => rows[l] <= b.entries[i].score
                    /\ (\A l \in Visible : unflushed[l] = 0) =>
                         \A i \in DOMAIN b.entries : i \in PlacesOf(b.entries[i].id)
  BY DEF FirstPageIsTheTop
<1> DEFINE b == BoardSnapshot(tie)
           n == Cardinality(Visible)
           all == BoardSorted(Visible, tie)
           s == ListBoard(Home, tie)
           D == DOMAIN s
<1>1. /\ Home \in Query /\ Home.search = Ids /\ Home.offset = 0
      /\ Visible \in SUBSET Written /\ Visible \in SUBSET Ids /\ Visible \cap Ids = Visible
  BY BoardAssumption DEF Home, Query, Visible, Written
<1>2. IsFiniteSet(Visible) /\ n \in Nat /\ Entries \in Nat
  BY <1>1, IdsAreNumbers
<1>3. /\ Orders(Visible, BoardOrder(Visible, tie)) /\ InOrder(Visible, BoardOrder(Visible, tie), all)
      /\ all \in [1 .. n -> Visible]
  BY <1>1, BothAreOrders, BothAreInOrder DEF InOrder
<1>4. /\ s \in Seq(Visible)
      /\ D = {i \in 1 .. Entries : 0 + i <= n}
      /\ \A i \in D : 0 + i \in 1 .. n /\ s[i] = all[0 + i]
  BY <1>1, BoardLists
<1>5. D = {i \in 1 .. n : i <= Entries} /\ \A i \in D : i \in 1 .. n /\ s[i] = all[i] /\ s[i] \in Visible
  BY <1>2, <1>3, <1>4
<1>6. PICK order : /\ InOrder(D, ScoreOrder(s), order)
                   /\ SortedByScore(s) = [i \in D |-> s[order[i]]]
  BY <1>1, <1>4, StableSort
<1>7. /\ IsFiniteSet(D) /\ Cardinality(D) = Len(s) /\ D = 1 .. Len(s) /\ Len(s) \in Nat
      /\ Orders(D, ScoreOrder(s))
  <2>1. D = 1 .. Len(s) /\ Len(s) \in Nat
    BY <1>4, DomainOfSeq
  <2>2. IsFiniteSet(D) /\ Cardinality(D) = Len(s) /\ Orders(D, ScoreOrder(s))
    BY <1>1, <1>4, StableSort
  <2> QED BY <2>1, <2>2
<1> DEFINE rest == b.entries
<1>9. rest = [i \in D |-> Live(s[order[i]])]
  BY <1>6 DEF BoardSnapshot, LiveAll
<1> HIDE DEF D, s, rest
<1>8. /\ \A i \in D : order[i] \in D
      /\ \A j \in D : \E i \in D : order[i] = j
  <2>1. order \in [1 .. Cardinality(D) -> D] /\ D = 1 .. Cardinality(D)
    BY <1>6, <1>7 DEF InOrder
  <2>2. \A j \in D : \E i \in 1 .. Cardinality(D) : order[i] = j
    BY <1>6, <1>7, InOrderIsOnto
  <2> QED BY <2>1, <2>2
<1>10. DOMAIN rest = D /\ \A i \in D : rest[i].id = s[order[i]] /\ rest[i].score = Score(s[order[i]])
  BY <1>9 DEF Live
<1>11. \A l \in Visible : rows[l] \in Nat /\ unflushed[l] \in Nat /\ Score(l) = rows[l] + unflushed[l] /\ born[l] \in Nat
  BY <1>1, ScoresAreNumbers, BoardAssumption DEF Score, BoardTypeOK
<1>12. \A i, j \in 1 .. n : i < j => Listed(tie, all[i], all[j])
  <2> SUFFICES ASSUME NEW i \in 1 .. n, NEW j \in 1 .. n, i < j PROVE Listed(tie, all[i], all[j])
    OBVIOUS
  <2>1. all[j] \in BoardOrder(Visible, tie)[all[i]] /\ all[i] \in Visible
    BY <1>3 DEF InOrder
  <2> QED BY <2>1 DEF BoardOrder
<1>13. \A i, j \in 1 .. n : i < j => rows[all[i]] >= rows[all[j]]
  <2> SUFFICES ASSUME NEW i \in 1 .. n, NEW j \in 1 .. n, i < j PROVE rows[all[i]] >= rows[all[j]]
    OBVIOUS
  <2>1. all[i] \in Visible /\ all[j] \in Visible
    BY <1>3
  <2> QED BY <1>11, <1>12, <2>1 DEF Listed, Above
<1>14. \A l \in Visible : \E j \in 1 .. n : all[j] = l
  BY <1>2, <1>3, InOrderIsOnto
<1> HIDE DEF all, n, b
<1>15. ASSUME NEW l \in Visible, NEW i \in D, ~Shows(b, l)
       PROVE  rows[l] <= rest[i].score
  <2>1. PICK j \in 1 .. n : all[j] = l
    BY <1>14
  <2>2. j \notin D
    <3> SUFFICES ASSUME j \in D PROVE FALSE
      OBVIOUS
    <3>1. PICK k \in D : order[k] = j
      BY <1>8
    <3>2. rest[k].id = l
      BY <1>5, <1>10, <2>1, <3>1
    <3> QED BY <1>10, <1>15, <3>1, <3>2 DEF Shows, rest
  <2>3. order[i] \in 1 .. n /\ order[i] < j
    BY <1>2, <1>5, <1>8, <2>1, <2>2
  <2>4. rows[s[order[i]]] >= rows[l] /\ s[order[i]] \in Visible
    BY <1>5, <1>8, <1>13, <2>1, <2>3
  <2> QED BY <1>10, <1>11, <2>4
<1>16. ASSUME \A l \in Visible : unflushed[l] = 0, NEW i \in D
       PROVE  i \in PlacesOf(rest[i].id)
  <2> DEFINE id == [k \in 1 .. Len(s) |-> k]
  <2>1. InOrder(D, ScoreOrder(s), id)
    <3>1. ASSUME NEW k \in D, NEW j \in D, k < j
          PROVE  j \in ScoreOrder(s)[k]
      <4>1. s[k] \in Visible /\ s[j] \in Visible /\ rows[s[k]] >= rows[s[j]]
        BY <1>5, <1>13, <3>1
      <4>2. Score(s[k]) >= Score(s[j]) /\ Score(s[k]) \in Nat /\ Score(s[j]) \in Nat
        BY <1>11, <1>16, <4>1
      <4>3. Score(s[k]) > Score(s[j]) \/ (Score(s[k]) = Score(s[j]) /\ k < j)
        BY <3>1, <4>2
      <4> QED BY <4>3 DEF ScoreOrder, D
    <3>2. id \in [1 .. Len(s) -> D] /\ \A k \in 1 .. Len(s) : id[k] = k
      BY <1>7
    <3> QED BY <1>7, <3>1, <3>2 DEF InOrder
  <2>2. i \in 1 .. Cardinality(D) /\ order[i] \in 1 .. Cardinality(D) /\ order[i] \in D
    BY <1>7, <1>8
  <2>3. Cardinality(Ahead(D, ScoreOrder(s), order[i])) = i - 1
    BY <1>6, <1>7, <2>2, PlaceIsCount
  <2>4. id[order[i]] = order[i]
    BY <1>7, <2>2
  <2> HIDE DEF id
  <2>5. Cardinality(Ahead(D, ScoreOrder(s), order[i])) = order[i] - 1
    BY <1>7, <2>1, <2>2, <2>4, PlaceIsCount
  <2>6. order[i] = i
    BY <1>7, <2>2, <2>3, <2>5
  <2>7. i \in DOMAIN ListBoard(Home, tie) /\ s[i] = ListBoard(Home, tie)[i]
    BY DEF D, s
  <2>8. Home.offset + i \in PlacesOf(ListBoard(Home, tie)[i])
    BY <1>1, <2>7, RankAndPlace DEF RankIsThePlace
  <2>9. Home.offset + i = i
    BY <1>1, <1>7
  <2> QED BY <1>10, <2>6, <2>7, <2>8, <2>9
<1> QED BY <1>10, <1>15, <1>16 DEF b, rest

-----------------------------------------------------------------------------
(* The state.                                                              *)

Boards == {lastBoard} \cup {shown[c] : c \in DOMAIN shown}

\* A board that was built once: each listing with one score, which it has reached
\* and still has, if no failed deletion has taken it away.
Dated(b) ==
  /\ \A e \in Lines(b) :
       /\ e \in Entry /\ e.id <= created
       /\ (rows[e.id] # Absent => e.score <= Score(e.id) \/ e.id \in cleared)
  /\ \A e, f \in Lines(b) : e.id = f.id => e.score = f.score

Scored(l) ==
  IF rows[l] = Absent THEN unflushed[l] = 0 ELSE l <= created /\ Score(l) <= MaxScore

\* What is shown is the last board, or was built before it; no board is ahead of
\* what its listings have; and the answer and the live polls are of the last effect.
HubIInv ==
  /\ IsFiniteSet(DOMAIN shown)
  /\ \A l \in Ids : Scored(l)
  /\ \A c \in DOMAIN shown : shown[c] \in {lastBoard, Absent} \/ overtaken
  /\ \A b \in Boards : b # Absent => Dated(b)

HomeIInv ==
  /\ page # Absent /\ polled # Absent => page.query = polled /\ ToSet(page.rows) \subseteq polled.search
  /\ \A p \in polls : p.live => p.query = polled

BoardIInv == BoardTypeOK /\ HubIInv /\ HomeIInv

HubTypeOK ==
  /\ created \in 0 .. MaxListings /\ born \in [Ids -> Times] /\ cleared \subseteq Ids
  /\ rows \in [Ids -> (0 .. MaxScore) \cup {Absent}]
  /\ unflushed \in [Ids -> 0 .. MaxScore]
  /\ DOMAIN shown \subseteq Sockets /\ shown \in [DOMAIN shown -> Snapshot \cup {Absent}]
  /\ lastBoard \in Snapshot \cup {Absent}
  /\ current \in BOOLEAN /\ overtaken \in BOOLEAN

HomeTypeOK ==
  /\ {path, polled} \subseteq Query \cup {Absent} /\ page \in Answer \cup {Absent}
  /\ polls \subseteq [query : Query, live : BOOLEAN]

LEMMA TypesAreTwo == BoardTypeOK <=> HubTypeOK /\ HomeTypeOK
BY DEF BoardTypeOK, HubTypeOK, HomeTypeOK

\* Rows change only under a listing's score: nothing shown gets ahead of it.
LEMMA RowsKeepBoards ==
  ASSUME HubIInv, BoardTypeOK, UNCHANGED <<shown, lastBoard, overtaken>>, HubTypeOK',
         \A l \in Ids : Scored(l)', created' >= created, cleared \subseteq cleared',
         \A l \in Ids : l <= created /\ rows'[l] # Absent =>
           rows[l] # Absent /\ (Score(l)' >= Score(l) \/ l \in cleared')
  PROVE  HubIInv'
<1>1. Boards' = Boards
  BY DEF Boards
<1>2. ASSUME NEW b, Dated(b)
      PROVE  Dated(b)'
  <2>1. Lines(b)' = Lines(b)
    BY DEF Lines
  <2>2. ASSUME NEW e \in Lines(b)
        PROVE  /\ e \in Entry /\ e.id <= created'
               /\ (rows'[e.id] # Absent => e.score <= Score(e.id)' \/ e.id \in cleared')
    <3> DEFINE l == e.id
    <3>1. /\ e \in Entry /\ l \in Ids /\ e.score \in Nat /\ l <= created
          /\ rows[l] # Absent => e.score <= Score(l) \/ l \in cleared
      BY <1>2 DEF Dated, Entry
    <3>2. created \in Nat /\ created' \in Nat /\ l \in Nat
      BY <3>1, IdsAreNumbers DEF BoardTypeOK, HubTypeOK
    <3> HIDE DEF l
    <3>3. ASSUME rows'[l] # Absent, l \notin cleared'
          PROVE  e.score <= Score(l)'
      <4>1. rows[l] # Absent /\ Score(l)' >= Score(l) /\ l \notin cleared
        BY <3>1, <3>3
      <4>2. Score(l) \in Nat
        BY <3>1, <4>1, ScoresAreNumbers DEF Written
      <4>3. rows'[l] \in Nat /\ unflushed'[l] \in Nat
        BY <3>1, <3>3, IdsAreNumbers DEF HubTypeOK
      <4>4. Score(l)' \in Nat
        BY <4>3 DEF Score
      <4> QED BY <3>1, <4>1, <4>2, <4>4
    <3> QED BY <3>1, <3>2, <3>3 DEF l
  <2> QED BY <1>2, <2>1, <2>2 DEF Dated
<1> QED BY <1>1, <1>2 DEF HubIInv

LEMMA RowsAreTyped ==
  ASSUME BoardIInv
  PROVE  /\ created \in 0 .. MaxListings /\ MaxListings \in Nat /\ MaxScore \in Nat
         /\ rows \in [Ids -> (0 .. MaxScore) \cup {Absent}] /\ unflushed \in [Ids -> 0 .. MaxScore]
         /\ \A l \in Ids : l \in Nat /\ unflushed[l] \in Nat /\ (rows[l] # Absent => rows[l] \in Nat)
         /\ \A l \in Ids : Scored(l)
BY IdsAreNumbers DEF BoardIInv, BoardTypeOK, HubIInv

\* A listing is written, mined, flushed or removed.
LEMMA RowsKeep ==
  ASSUME BoardIInv, Rows
  PROVE  BoardTypeOK' /\ HubIInv'
<1> DEFINE OK == /\ created' \in 0 .. MaxListings /\ created' >= created
                 /\ rows' \in [Ids -> (0 .. MaxScore) \cup {Absent}] /\ unflushed' \in [Ids -> 0 .. MaxScore]
                 /\ \A l \in Ids : Scored(l)'
                 /\ born' \in [Ids -> Times] /\ cleared' \subseteq Ids /\ cleared \subseteq cleared'
                 /\ \A l \in Ids : l <= created /\ rows'[l] # Absent =>
                      rows[l] # Absent /\ (Score(l)' >= Score(l) \/ l \in cleared')
                 /\ UNCHANGED <<shown, lastBoard, current, overtaken, visitor>>
<1>0. /\ created \in 0 .. MaxListings /\ MaxListings \in Nat /\ MaxScore \in Nat
      /\ rows \in [Ids -> (0 .. MaxScore) \cup {Absent}] /\ unflushed \in [Ids -> 0 .. MaxScore]
      /\ \A l \in Ids : l \in Nat /\ unflushed[l] \in Nat /\ (rows[l] # Absent => rows[l] \in Nat)
      /\ \A l \in Ids : Scored(l)
      /\ born \in [Ids -> Times] /\ cleared \subseteq Ids
  BY RowsAreTyped DEF BoardIInv, BoardTypeOK
<1>1. OK => BoardTypeOK' /\ HubIInv'
  <2> SUFFICES ASSUME OK PROVE BoardTypeOK' /\ HubIInv'
    OBVIOUS
  <2>1. HubTypeOK' /\ HomeTypeOK'
    BY DEF HubTypeOK, HomeTypeOK, BoardIInv, BoardTypeOK, visitor
  <2>2. BoardTypeOK'
    BY <2>1 DEF BoardTypeOK, HubTypeOK, HomeTypeOK
  <2> QED BY <2>1, <2>2, RowsKeepBoards DEF BoardIInv
<1>2. CASE Create
  <2>1. /\ created' = created + 1 /\ rows' = [rows EXCEPT ![created + 1] = 0] /\ created < MaxListings
        /\ UNCHANGED <<unflushed, cleared, shown, lastBoard, current, overtaken, visitor>>
        /\ \E t \in Times : born' = [born EXCEPT ![created'] = t]
    BY <1>2 DEF Create, boards
  <2>2. created + 1 \in Ids /\ created' \in 0 .. MaxListings
    BY <1>0, <2>1 DEF Ids
  <2>3. rows[created + 1] = Absent /\ unflushed[created + 1] = 0
    BY <1>0, <2>2 DEF Scored
  <2>4. ASSUME NEW l \in Ids
        PROVE  Scored(l)'
    <3>1. CASE l = created + 1
      <4>1. rows'[l] = 0 /\ unflushed'[l] = 0 /\ l <= created'
        BY <1>0, <2>1, <2>2, <2>3, <3>1
      <4> QED BY <1>0, <4>1 DEF Scored, Score
    <3>2. CASE l # created + 1
      <4>1. rows'[l] = rows[l] /\ unflushed'[l] = unflushed[l]
        BY <1>0, <2>1, <3>2
      <4> QED BY <1>0, <2>1, <4>1 DEF Scored, Score
    <3> QED BY <3>1, <3>2
  <2>5. ASSUME NEW l \in Ids, l <= created
        PROVE  rows'[l] = rows[l] /\ unflushed'[l] = unflushed[l]
    BY <1>0, <2>1, <2>5
  <2>6. \A l \in Ids : l <= created /\ rows'[l] # Absent => rows[l] # Absent /\ Score(l)' >= Score(l)
    <3> SUFFICES ASSUME NEW l \in Ids, l <= created, rows'[l] # Absent
                 PROVE  rows[l] # Absent /\ Score(l)' >= Score(l)
      OBVIOUS
    <3>1. rows[l] # Absent /\ Score(l)' = Score(l)
      BY <2>5 DEF Score
    <3>2. rows[l] \in Nat /\ unflushed[l] \in Nat
      BY <1>0, <3>1
    <3>3. Score(l) \in Nat
      BY <3>2 DEF Score
    <3> DEFINE s == Score(l)
               n == Score(l)'
    <3> HIDE DEF s, n
    <3>4. n = s /\ s \in Nat
      BY <3>1, <3>3 DEF s, n
    <3>5. n >= s
      BY <3>4
    <3> QED BY <3>1, <3>5 DEF s, n
  <2>7. rows' \in [Ids -> (0 .. MaxScore) \cup {Absent}]
    <3>1. 0 \in (0 .. MaxScore) \cup {Absent}
      BY <1>0
    <3> QED BY <1>0, <2>1, <3>1, Zenon
  <2>8. born' \in [Ids -> Times]
    BY <1>0, <2>1
  <2> QED BY <1>0, <1>1, <2>1, <2>8, <2>2, <2>4, <2>6, <2>7
<1>3. CASE Flush
  <2>1. /\ unflushed' = [l \in Ids |-> 0] /\ rows' = [l \in Ids |-> IF rows[l] = Absent THEN Absent ELSE Score(l)]
        /\ UNCHANGED <<created, born, cleared, shown, lastBoard, current, overtaken, visitor>>
    BY <1>3 DEF Flush, boards
  <2>2. \A l \in Ids : unflushed'[l] = 0 /\ rows'[l] = IF rows[l] = Absent THEN Absent ELSE Score(l)
    BY <2>1
  <2>3. \A l \in Ids : rows[l] # Absent => Score(l) \in 0 .. MaxScore
    BY <1>0 DEF Scored, Score
  <2>4. rows' \in [Ids -> (0 .. MaxScore) \cup {Absent}] /\ unflushed' \in [Ids -> 0 .. MaxScore]
    BY <1>0, <2>1, <2>3
  <2>5. ASSUME NEW l \in Ids, rows'[l] # Absent
        PROVE  rows[l] # Absent /\ Score(l)' = Score(l) /\ Score(l) \in 0 .. MaxScore
    BY <2>2, <2>3, <2>5 DEF Score
  <2>6. \A l \in Ids : Scored(l)'
    BY <1>0, <2>1, <2>2, <2>5 DEF Scored
  <2>7. \A l \in Ids : l <= created /\ rows'[l] # Absent => rows[l] # Absent /\ Score(l)' >= Score(l)
    BY <2>5
  <2> QED BY <1>0, <1>1, <2>1, <2>4, <2>6, <2>7
<1>4. ASSUME NEW k \in Ids, Credit(k)
      PROVE  OK
  <2>1. /\ rows[k] # Absent /\ Score(k) < MaxScore /\ unflushed' = [unflushed EXCEPT ![k] = @ + 1]
        /\ UNCHANGED <<created, born, rows, cleared, shown, lastBoard, current, overtaken, visitor>>
    BY <1>4 DEF Credit, boards
  <2>2. \A l \in Ids : unflushed'[l] = IF l = k THEN unflushed[l] + 1 ELSE unflushed[l]
    BY <1>0, <2>1
  <2>3. rows[k] \in Nat /\ unflushed[k] + 1 \in 0 .. MaxScore
    BY <1>0, <2>1 DEF Score
  <2>4. unflushed' \in [Ids -> 0 .. MaxScore]
    BY <1>0, <2>1, <2>3
  <2>5. \A l \in Ids : Scored(l)'
    BY <1>0, <2>1, <2>2, <2>3 DEF Scored, Score
  <2>6. \A l \in Ids : l <= created /\ rows'[l] # Absent => rows[l] # Absent /\ Score(l)' >= Score(l)
    BY <1>0, <2>1, <2>2 DEF Score
  <2> QED BY <1>0, <2>1, <2>4, <2>5, <2>6
<1>5. ASSUME NEW k \in Ids, Takedown(k)
      PROVE  OK
  <2>1. /\ rows[k] # Absent /\ unflushed' = [unflushed EXCEPT ![k] = 0]
        /\ UNCHANGED <<created, born, shown, lastBoard, current, overtaken, visitor>>
    BY <1>5 DEF Takedown, boards
  <2>2. \A l \in Ids : unflushed'[l] = IF l = k THEN 0 ELSE unflushed[l]
    BY <1>0, <2>1
  <2>3. unflushed' \in [Ids -> 0 .. MaxScore]
    BY <1>0, <2>1
  <2>4. CASE rows' = [rows EXCEPT ![k] = Absent] /\ UNCHANGED cleared
    <3>1. \A l \in Ids : rows'[l] = IF l = k THEN Absent ELSE rows[l]
      BY <1>0, <2>4
    <3>2. rows' \in [Ids -> (0 .. MaxScore) \cup {Absent}]
      BY <1>0, <2>4
    <3>3. \A l \in Ids : Scored(l)'
      BY <1>0, <2>1, <2>2, <3>1 DEF Scored, Score
    <3>4. \A l \in Ids : l <= created /\ rows'[l] # Absent => rows[l] # Absent /\ Score(l)' >= Score(l)
      BY <1>0, <2>2, <3>1 DEF Score
    <3> QED BY <1>0, <2>1, <2>3, <2>4, <3>2, <3>3, <3>4
  <2>5. CASE UNCHANGED rows /\ cleared' = cleared \cup {l \in {k} : unflushed[l] > 0}
    <3>1. \A l \in Ids : Scored(l)'
      BY <1>0, <2>1, <2>2, <2>5 DEF Scored, Score
    <3>2. \A l \in Ids : rows'[l] # Absent => rows[l] # Absent /\ (Score(l)' >= Score(l) \/ l \in cleared')
      BY <1>0, <2>2, <2>5 DEF Score
    <3>3. cleared' \subseteq Ids /\ cleared \subseteq cleared'
      BY <1>0, <2>5
    <3> QED BY <1>0, <2>1, <2>3, <2>5, <3>1, <3>2, <3>3
  <2> QED BY <1>5, <2>4, <2>5 DEF Takedown
<1> HIDE DEF OK
<1> QED BY <1>1, <1>2, <1>3, <1>4, <1>5 DEF Rows

LEMMA SnapshotIsDated ==
  ASSUME BoardIInv, NEW tie \in Ties, NEW b,
         b = BoardSnapshot(tie) \/ b = [BoardSnapshot(tie) EXCEPT !.online = @ + 1]
  PROVE  b \in Snapshot /\ Dated(b) /\ \A e \in Lines(b) : rows[e.id] # Absent /\ e.score = Score(e.id)
<1>1. /\ b \in Snapshot
      /\ \A e \in Lines(b) : e.id \in Written /\ e.score = Score(e.id)
  BY SnapshotIs DEF BoardIInv, HubIInv
<1>2. \A e \in Lines(b) : e \in Entry
  <2>1. b.entries \in Seq(Entry) /\ b.pending \in Seq(Entry)
    BY <1>1 DEF Snapshot
  <2>2. ToSet(b.entries) \subseteq Entry /\ ToSet(b.pending) \subseteq Entry
    BY <2>1 DEF ToSet
  <2> QED BY <2>2 DEF Lines
<1>3. \A l \in Written : l \in Ids /\ l <= created /\ Score(l) \in Nat /\ rows[l] # Absent
  BY RowsAreTyped, ScoresAreNumbers DEF Scored, BoardIInv, Written
<1>4. \A e \in Lines(b) : e \in Entry /\ e.id <= created /\ e.score <= Score(e.id)
  BY <1>1, <1>2, <1>3
<1>5. \A e, f \in Lines(b) : e.id = f.id => e.score = f.score
  BY <1>1
<1> QED BY <1>1, <1>3, <1>4, <1>5 DEF Dated

\* A socket opens, closes or is sent the board: what it is shown was built just now,
\* or was shown before.
LEMMA BroadcastKeeps ==
  ASSUME BoardIInv, Broadcast
  PROVE  BoardTypeOK' /\ HubIInv'
<1>0. /\ HubTypeOK /\ HomeTypeOK /\ IsFiniteSet(DOMAIN shown)
      /\ \A l \in Ids : Scored(l)
      /\ \A c \in DOMAIN shown : shown[c] \in {lastBoard, Absent} \/ overtaken
      /\ \A b \in Boards : b # Absent => Dated(b)
  BY TypesAreTwo DEF BoardIInv, HubIInv
<1> DEFINE joiners(tie) == [BoardSnapshot(tie) EXCEPT !.online = @ + 1]
           Known == {b \in Snapshot : Dated(b)} \cup {Absent}
<1>1. /\ lastBoard \in Known /\ (\A tie \in Ties : joiners(tie) \in Known) /\ Absent \in Known
      /\ \A c \in DOMAIN shown : shown[c] \in Known
  <2>1. \A tie \in Ties : joiners(tie) \in Known
    BY SnapshotIsDated
  <2>2. lastBoard \in Known
    BY <1>0 DEF Boards, HubTypeOK
  <2>3. \A c \in DOMAIN shown : shown[c] \in Known
    BY <1>0 DEF Boards, HubTypeOK
  <2> QED BY <2>1, <2>2, <2>3
<1> HIDE DEF joiners
<1>2. ASSUME UNCHANGED <<listed, visitor>>, current' \in BOOLEAN, overtaken' \in BOOLEAN,
             IsFiniteSet(DOMAIN shown'), DOMAIN shown' \subseteq Sockets,
             lastBoard' \in Known, shown' \in [DOMAIN shown' -> Known],
             \A c \in DOMAIN shown' : shown'[c] \in {lastBoard', Absent} \/ overtaken'
      PROVE  BoardTypeOK' /\ HubIInv'
  <2>1. HubTypeOK' /\ HomeTypeOK'
    BY <1>0, <1>2 DEF HubTypeOK, HomeTypeOK, visitor, listed
  <2>2. BoardTypeOK'
    BY <2>1 DEF BoardTypeOK, HubTypeOK, HomeTypeOK
  <2>3. \A b : Dated(b) => Dated(b)'
    BY <1>2 DEF Dated, Lines, Score, listed
  <2>4. \A b \in Boards' : b # Absent => Dated(b)'
    BY <1>2, <2>3 DEF Boards
  <2>5. \A l \in Ids : Scored(l)'
    BY <1>0, <1>2 DEF Scored, Score, listed
  <2> QED BY <1>2, <2>2, <2>4, <2>5 DEF HubIInv
<1>t. /\ DOMAIN shown \subseteq Sockets /\ current \in BOOLEAN /\ overtaken \in BOOLEAN
      /\ shown = [c \in DOMAIN shown |-> shown[c]]
  BY <1>0 DEF HubTypeOK
<1> HIDE DEF Known
<1>3. ASSUME NEW c \in Sockets, Open(c)
      PROVE  BoardTypeOK' /\ HubIInv'
  <2>1. UNCHANGED <<listed, visitor>>
    BY <1>3 DEF Open
  <2>2. \E x \in Known :
          /\ shown' = With(shown, c, x)
          /\ \/ x \in {lastBoard, Absent} /\ UNCHANGED <<lastBoard, current, overtaken>>
             \/ lastBoard' = x /\ current' = TRUE /\ overtaken' = TRUE
    <3>1. PICK tie \in Ties, answers \in BOOLEAN : FirstPaint(c, tie, answers)
      BY <1>3 DEF Open
    <3>2. CASE lastBoard # Absent /\ current
      BY <1>1, <3>1, <3>2 DEF FirstPaint
    <3>3. CASE ~(lastBoard # Absent /\ current) /\ ~answers
      BY <1>1, <3>1, <3>3 DEF FirstPaint
    <3>4. CASE ~(lastBoard # Absent /\ current) /\ answers
      BY <1>1, <3>1, <3>4 DEF FirstPaint, joiners
    <3> QED BY <3>2, <3>3, <3>4
  <2>3. PICK x \in Known :
          /\ shown' = With(shown, c, x)
          /\ \/ x \in {lastBoard, Absent} /\ UNCHANGED <<lastBoard, current, overtaken>>
             \/ lastBoard' = x /\ current' = TRUE /\ overtaken' = TRUE
    BY <2>2
  <2>4. /\ DOMAIN shown' = DOMAIN shown \cup {c}
        /\ \A d \in DOMAIN shown' : shown'[d] = IF d = c THEN x ELSE shown[d]
    BY <2>3 DEF With
  <2>5. shown' = [d \in DOMAIN shown' |-> shown'[d]]
    BY <2>3 DEF With
  <2>6. \A d \in DOMAIN shown' : shown'[d] \in Known
    BY <1>1, <2>4
  <2>7. shown' \in [DOMAIN shown' -> Known]
    BY <2>5, <2>6
  <2>8. IsFiniteSet(DOMAIN shown') /\ DOMAIN shown' \subseteq Sockets
    BY <1>0, <1>t, <2>4, FS_AddElement
  <2>9. \A d \in DOMAIN shown' : shown'[d] \in {lastBoard', Absent} \/ overtaken'
    BY <1>0, <2>3, <2>4
  <2>10. lastBoard' \in Known /\ current' \in BOOLEAN /\ overtaken' \in BOOLEAN
    BY <1>1, <1>t, <2>3
  <2> QED BY <1>2, <2>1, <2>7, <2>8, <2>9, <2>10
<1>4. ASSUME NEW c \in Sockets, Close(c)
      PROVE  BoardTypeOK' /\ HubIInv'
  <2>1. shown' = Without(shown, c) /\ UNCHANGED <<listed, lastBoard, current, overtaken, visitor>>
    BY <1>4 DEF Close
  <2>2. DOMAIN shown' = DOMAIN shown \ {c} /\ \A d \in DOMAIN shown' : shown'[d] = shown[d]
    BY <2>1 DEF Without
  <2>3. shown' = [d \in DOMAIN shown' |-> shown'[d]]
    BY <2>1 DEF Without
  <2>4. shown' \in [DOMAIN shown' -> Known]
    BY <1>1, <2>2, <2>3
  <2>5. IsFiniteSet(DOMAIN shown') /\ DOMAIN shown' \subseteq Sockets
    BY <1>0, <1>t, <2>2, FS_RemoveElement
  <2> QED BY <1>0, <1>1, <1>2, <1>t, <2>1, <2>2, <2>4, <2>5
<1>5. CASE Tick
  <2>1. current' = TRUE /\ UNCHANGED <<created, born, rows, unflushed, visitor>>
    BY <1>5 DEF Tick
  <2>2. \/ UNCHANGED <<lastBoard, shown, overtaken, cleared>>
        \/ \E tie \in Ties : Publish(BoardSnapshot(tie))
    BY <1>5 DEF Tick
  <2>3. CASE UNCHANGED <<lastBoard, shown, overtaken, cleared>>
    <3>1. shown' \in [DOMAIN shown' -> Known]
      BY <1>1, <1>t, <2>3
    <3>2. UNCHANGED listed
      BY <2>1, <2>3 DEF listed
    <3> QED BY <1>0, <1>1, <1>2, <1>t, <2>1, <2>3, <3>1, <3>2
  <2>4. ASSUME NEW tie \in Ties, Publish(BoardSnapshot(tie))
        PROVE  BoardTypeOK' /\ HubIInv'
    <3> DEFINE b == BoardSnapshot(tie)
    <3>1. b \in Snapshot /\ Dated(b) /\ \A e \in Lines(b) : rows[e.id] # Absent /\ e.score = Score(e.id)
      BY SnapshotIsDated
    <3>2. \A e \in Lines(b) : Score(e.id) \in Nat
      BY <1>0, <3>1, ScoresAreNumbers DEF BoardIInv, Dated, Entry, Written
    <3> HIDE DEF b
    <3>3. /\ lastBoard' = b /\ overtaken' = FALSE /\ cleared' = {}
          /\ DOMAIN shown' = DOMAIN shown /\ shown' \in [DOMAIN shown' -> {b}]
      BY <2>4 DEF Publish, b
    <3>4. Boards' = {b}
      BY <3>3 DEF Boards
    <3>5. ASSUME NEW d \in Boards'
          PROVE  Dated(d)'
      <4>1. d = b
        BY <3>4
      <4>2. \A e \in Lines(d) : e \in Entry /\ e.id <= created /\ e.score <= Score(e.id)
        BY <3>1, <3>2, <4>1 DEF Dated
      <4>3. \A e, f \in Lines(d) : e.id = f.id => e.score = f.score
        BY <3>1, <4>1
      <4>4. \A l : Score(l)' = Score(l)
        BY <2>1 DEF Score
      <4>5. Lines(d)' = Lines(d) /\ created' = created
        BY <2>1 DEF Lines
      <4>6. \A e \in Lines(d)' : e \in Entry /\ e.id <= created' /\ e.score <= Score(e.id)'
        BY <4>2, <4>4, <4>5
      <4>7. \A e, f \in Lines(d)' : e.id = f.id => e.score = f.score
        BY <4>3, <4>5
      <4> QED BY <4>6, <4>7 DEF Dated
    <3>6. \A l \in Ids : Scored(l)'
      BY <1>0, <2>1 DEF Scored, Score
    <3>7. HubTypeOK' /\ HomeTypeOK'
      BY <1>0, <1>t, <2>1, <3>1, <3>3 DEF HubTypeOK, HomeTypeOK, visitor
    <3>8. BoardTypeOK'
      BY <3>7 DEF BoardTypeOK, HubTypeOK, HomeTypeOK
    <3>9. \A c \in DOMAIN shown' : shown'[c] \in {lastBoard', Absent} \/ overtaken'
      BY <3>3
    <3> QED BY <1>0, <3>3, <3>5, <3>6, <3>8, <3>9 DEF HubIInv
  <2> QED BY <2>2, <2>3, <2>4
<1>6. CASE Age
  <2>1. current' = FALSE /\ UNCHANGED <<listed, shown, lastBoard, overtaken, visitor>>
    BY <1>6 DEF Age
  <2>2. shown' \in [DOMAIN shown' -> Known]
    BY <1>1, <1>t, <2>1
  <2> QED BY <1>0, <1>1, <1>2, <1>t, <2>1, <2>2
<1> QED BY <1>3, <1>4, <1>5, <1>6 DEF Broadcast

\* What is shown and what is on Home are each as they were while nobody touches them.
LEMMA HubStays ==
  ASSUME HubIInv, UNCHANGED <<listed, boards>>
  PROVE  HubIInv'
<1>1. Boards' = Boards /\ \A b : Dated(b)' <=> Dated(b)
  BY DEF listed, boards, Boards, Dated, Lines, Score
<1>2. \A l \in Ids : Scored(l)' <=> Scored(l)
  BY DEF listed, boards, Scored, Score
<1> QED BY <1>1, <1>2 DEF HubIInv, listed, boards

\* The visitor asks, polls or is answered: an answer that is shown was asked for by
\* the effect that is still on the screen, and lists what its query matches.
LEMMA ViewKeeps ==
  ASSUME BoardIInv, View
  PROVE  BoardIInv'
<1>1. /\ HubTypeOK /\ HomeTypeOK /\ HomeIInv /\ HubIInv
      /\ \A p \in polls : p \in [query : Query, live : BOOLEAN]
  BY TypesAreTwo DEF BoardIInv, HomeTypeOK
<1>2. ASSUME UNCHANGED <<listed, boards>>, HomeTypeOK', HomeIInv'
      PROVE  BoardIInv'
  <2>1. HubTypeOK' /\ HubIInv'
    BY <1>1, <1>2, HubStays DEF HubTypeOK, listed, boards
  <2>2. BoardTypeOK'
    BY <1>2, <2>1 DEF BoardTypeOK, HubTypeOK, HomeTypeOK
  <2> QED BY <1>2, <2>1, <2>2 DEF BoardIInv
<1>3. CASE Poll
  <2> DEFINE new == [query |-> polled, live |-> TRUE]
  <2>1. polled # Absent /\ polls' = polls \cup {new} /\ UNCHANGED <<listed, boards, path, polled, page>>
    BY <1>3 DEF Poll
  <2>2. new \in [query : Query, live : BOOLEAN] /\ new.query = polled
    BY <1>1, <2>1 DEF HomeTypeOK
  <2> HIDE DEF new
  <2>3. HomeTypeOK'
    BY <1>1, <2>1, <2>2 DEF HomeTypeOK
  <2>4. HomeIInv'
    BY <1>1, <2>1, <2>2 DEF HomeIInv
  <2> QED BY <1>2, <2>1, <2>3, <2>4
<1>4. ASSUME NEW q \in Query, Ask(q)
      PROVE  BoardIInv'
  <2>1. path' \in {q, Absent} /\ UNCHANGED <<listed, boards, polled, page, polls>>
    BY <1>4 DEF Ask, Polled
  <2>2. HomeTypeOK' /\ HomeIInv'
    BY <1>1, <2>1 DEF HomeTypeOK, HomeIInv
  <2> QED BY <1>2, <2>1, <2>2
<1>6. CASE Effect
  <2> DEFINE new == [query |-> path, live |-> TRUE]
  <2>1. polled' = path /\ UNCHANGED <<listed, boards, path>>
    BY <1>6 DEF Effect
  <2>2. \A p \in Dropped : p \in [query : Query, live : BOOLEAN] /\ ~p.live
    BY <1>1 DEF Dropped
  <2>3. CASE path = Absent
    <3>1. polls' = Dropped /\ UNCHANGED page
      BY <1>6, <2>3 DEF Effect
    <3>2. HomeTypeOK' /\ HomeIInv'
      BY <1>1, <2>1, <2>2, <2>3, <3>1 DEF HomeTypeOK, HomeIInv
    <3> QED BY <1>2, <2>1, <3>2
  <2>4. CASE path # Absent
    <3>1. polls' = Dropped \cup {new} /\ page' = Absent
      BY <1>6, <2>4 DEF Effect
    <3>2. new \in [query : Query, live : BOOLEAN] /\ new.query = path
      BY <1>1, <2>4 DEF HomeTypeOK
    <3> HIDE DEF new
    <3>3. HomeTypeOK' /\ HomeIInv'
      BY <1>1, <2>1, <2>2, <3>1, <3>2 DEF HomeTypeOK, HomeIInv
    <3> QED BY <1>2, <2>1, <3>3
  <2> QED BY <2>3, <2>4
<1>5. ASSUME NEW p \in polls, Arrive(p)
      PROVE  BoardIInv'
  <2>0. PICK tie \in Ties :
          \/ UNCHANGED page
          \/ /\ p.live
             /\ page' = [query |-> p.query, rows |-> ListBoard(p.query, tie), total |-> CountBoard(p.query)]
    <3>1. [l \in Ids |-> l] \in Ties
      BY DEF Ties, Injection, IsInjective
    <3> QED BY <1>5, <3>1 DEF Arrive, Heard
  <2> DEFINE rs == ListBoard(p.query, tie)
             t  == CountBoard(p.query)
             a  == [query |-> p.query, rows |-> rs, total |-> t]
  <2>1. /\ polls' = polls \ {p} /\ UNCHANGED <<listed, boards, path, polled>>
        /\ UNCHANGED page \/ (p.live /\ page' = a)
    BY <1>5, <2>0 DEF Arrive
  <2>2. p.query \in Query
    BY <1>1
  <2>3. rs \in Seq(Visible \cap p.query.search)
    BY <2>2, BoardLists DEF BoardIInv
  <2>4. t \in Nat
    BY IdsAreNumbers, FS_CardinalityType DEF CountBoard, Visible
  <2> HIDE DEF rs, t
  <2>5. rs \in Seq(Ids) /\ ToSet(rs) \subseteq p.query.search
    <3>1. Visible \cap p.query.search \subseteq Ids
      BY DEF Visible
    <3>2. rs \in Seq(Ids)
      BY <2>3, <3>1
    <3>3. ToSet(rs) \subseteq p.query.search
      BY <2>3 DEF ToSet
    <3> QED BY <3>2, <3>3
  <2>6. a \in Answer /\ a.query = p.query /\ a.rows = rs
    BY <2>2, <2>4, <2>5 DEF Answer
  <2> HIDE DEF a
  <2>7. HomeTypeOK'
    BY <1>1, <2>1, <2>6 DEF HomeTypeOK
  <2>8. HomeIInv'
    <3>1. \A k \in polls' : k.live => k.query = polled'
      BY <1>1, <2>1 DEF HomeIInv
    <3>2. page' # Absent /\ polled' # Absent => page'.query = polled' /\ ToSet(page'.rows) \subseteq polled'.search
      <4>1. CASE UNCHANGED page
        BY <1>1, <2>1, <4>1 DEF HomeIInv
      <4>2. CASE p.live /\ page' = a
        <5>1. p.query = polled
          BY <1>1, <4>2 DEF HomeIInv
        <5> QED BY <2>1, <2>5, <2>6, <4>2, <5>1
      <4> QED BY <2>1, <4>1, <4>2
    <3> QED BY <3>1, <3>2 DEF HomeIInv
  <2> QED BY <1>2, <2>1, <2>7, <2>8
<1> QED BY <1>3, <1>4, <1>5, <1>6 DEF View

LEMMA InitIsSound == BoardInit => BoardIInv
<1> SUFFICES ASSUME BoardInit PROVE BoardIInv
  OBVIOUS
<1>1. created \in 0 .. MaxListings /\ 0 \in 0 .. MaxScore
  BY BoardAssumption DEF BoardInit
<1>2. /\ rows = [l \in Ids |-> Absent] /\ unflushed = [l \in Ids |-> 0]
      /\ DOMAIN shown = {} /\ lastBoard = Absent /\ current = FALSE /\ overtaken = FALSE
      /\ path = Absent /\ polled = Absent /\ page = Absent /\ polls = {}
      /\ cleared = {} /\ born \in [Ids -> Times]
  BY BoardAssumption DEF BoardInit
<1>3. shown \in [DOMAIN shown -> Snapshot \cup {Absent}]
  BY DEF BoardInit
<1>4. rows \in [Ids -> (0 .. MaxScore) \cup {Absent}] /\ unflushed \in [Ids -> 0 .. MaxScore]
  BY <1>1, <1>2
<1>5. BoardTypeOK
  BY <1>1, <1>2, <1>3, <1>4 DEF BoardTypeOK
<1>6. \A l \in Ids : Scored(l)
  BY <1>2 DEF Scored
<1>7. HubIInv
  BY <1>2, <1>6, FS_EmptySet DEF HubIInv, Boards
<1>8. HomeIInv
  BY <1>2 DEF HomeIInv
<1> QED BY <1>5, <1>7, <1>8 DEF BoardIInv

LEMMA NextIsSound == BoardIInv /\ [BoardNext]_boardVars => BoardIInv'
<1> SUFFICES ASSUME BoardIInv, [BoardNext]_boardVars PROVE BoardIInv'
  OBVIOUS
<1>1. UNCHANGED visitor => HomeIInv'
  BY DEF visitor, HomeIInv, BoardIInv
<1>2. CASE Rows
  <2>1. UNCHANGED visitor
    BY <1>2 DEF Rows, Create, Flush, Credit, Takedown
  <2> QED BY <1>1, <1>2, <2>1, RowsKeep DEF BoardIInv
<1>3. CASE Broadcast
  <2>1. UNCHANGED visitor
    BY <1>3 DEF Broadcast, Tick, Age, Open, Close
  <2> QED BY <1>1, <1>3, <2>1, BroadcastKeeps DEF BoardIInv
<1>4. CASE View
  BY <1>4, ViewKeeps
<1>5. CASE UNCHANGED boardVars
  <2>1. BoardTypeOK'
    BY <1>5 DEF boardVars, listed, boards, visitor, BoardIInv, BoardTypeOK
  <2> QED BY <1>1, <1>5, <2>1, HubStays DEF boardVars, BoardIInv
<1> QED BY <1>2, <1>3, <1>4, <1>5 DEF BoardNext

\* Whatever is done, in whatever order, what is shown is as HubIInv and HomeIInv say.
THEOREM TheBoardIsSound == BoardSpec => []BoardIInv
BY InitIsSound, NextIsSound, PTL DEF BoardSpec

\* A socket that has had a board (sendBoard, startLoops in hub.ts) has the last one that
\* was built; only a joiner's own snapshot, and a first paint that failed, come between.
THEOREM EveryoneHasTheLastBoard == BoardSpec => []AllShowTheLastBoard
<1>1. BoardIInv => AllShowTheLastBoard
  BY DEF BoardIInv, HubIInv, AllShowTheLastBoard
<1> QED BY <1>1, TheBoardIsSound, PTL

\* The place listingRank counts for a listing is one that listBoard's order may give it
\* among its equals, on every page; the first page of Home leaves nobody out but for
\* unwritten shares; and what Home lists answers the search and the page on its screen.
THEOREM TheListsAreRight == BoardSpec => []ListsAreRight
<1>1. BoardIInv => ListsAreRight
  BY RankAndPlace, TopOfTheBoard DEF BoardIInv, HomeIInv, ListsAreRight, PageAnswersTheQuery
<1> QED BY <1>1, TheBoardIsSound, PTL

\* A step leaves the board of a socket that stays as it is, or it is the tick that
\* publishes what the listings have now.
LEMMA ShownMoves ==
  ASSUME BoardIInv, [BoardNext]_boardVars, NEW c \in DOMAIN shown \cap DOMAIN shown'
  PROVE  shown'[c] = shown[c] \/ \E tie \in Ties : shown'[c] = BoardSnapshot(tie)
<1>1. CASE UNCHANGED shown
  BY <1>1
<1>2. CASE Rows
  BY <1>2 DEF Rows, Create, Flush, Credit, Takedown, boards
<1>3. CASE View
  BY <1>3 DEF View, Poll, Ask, Effect, Arrive, boards
<1>4. CASE Tick
  <2>1. UNCHANGED shown \/ \E tie \in Ties : shown' = [d \in DOMAIN shown |-> BoardSnapshot(tie)]
    BY <1>4 DEF Tick, Publish
  <2> QED BY <2>1
<1>5. CASE Age
  BY <1>5 DEF Age
<1>6. ASSUME NEW d \in Sockets, Open(d)
      PROVE  shown'[c] = shown[c]
  <2>1. d \notin DOMAIN shown /\ \E x : shown' = With(shown, d, x)
    BY <1>6 DEF Open, FirstPaint
  <2> QED BY <2>1 DEF With
<1>7. ASSUME NEW d \in Sockets, Close(d)
      PROVE  shown'[c] = shown[c]
  BY <1>7 DEF Close, Without
<1> QED BY <1>1, <1>2, <1>3, <1>4, <1>5, <1>6, <1>7 DEF BoardNext, Broadcast, boardVars, listed, boards

\* While a listing has a row, no visitor is shown a lower score for it than before: not
\* across the flush, which moves shares from one counter to the other, not when it
\* passes from the queue to the board, and not by a board built before another's.  Only
\* what a deletion that failed has thrown away is taken back, once.
THEOREM TheShownNeverFalls == BoardSpec => ShownNeverFalls
<1>1. ASSUME BoardIInv, [BoardNext]_boardVars,
             NEW c \in DOMAIN shown \cap DOMAIN shown', NEW l \in Ids \ cleared,
             rows[l] # Absent, shown[c] # Absent, shown'[c] # Absent,
             NEW old \in ScoreIn(shown[c], l), NEW new \in ScoreIn(shown'[c], l)
      PROVE  new >= old
  <2>1. PICK e \in Lines(shown[c]) : e.id = l /\ e.score = old
    BY DEF ScoreIn, Lines
  <2>2. PICK f \in Lines(shown'[c]) : f.id = l /\ f.score = new
    BY DEF ScoreIn, Lines
  <2>3. Dated(shown[c])
    BY <1>1 DEF BoardIInv, HubIInv, Boards
  <2>4. e \in Entry /\ (rows[l] # Absent => old <= Score(l)) /\ old \in Nat
    BY <2>1, <2>3 DEF Dated, Entry
  <2>5. CASE shown'[c] = shown[c]
    <3>1. new = old
      BY <2>1, <2>2, <2>3, <2>5 DEF Dated
    <3> QED BY <2>4, <3>1
  <2>6. ASSUME NEW tie \in Ties, shown'[c] = BoardSnapshot(tie)
        PROVE  new >= old
    <3>1. new = Score(l)
      BY <1>1, <2>2, <2>6, SnapshotIsDated
    <3>2. f \in Entry /\ new \in Nat
      BY <1>1, <2>2, <2>6, SnapshotIsDated DEF Dated, Entry
    <3>3. old <= new
      BY <1>1, <2>4, <3>1
    <3> QED BY <2>4, <3>2, <3>3
  <2> QED BY <1>1, <2>5, <2>6, ShownMoves
<1> DEFINE A == \A c \in DOMAIN shown \cap DOMAIN shown', l \in Ids \ cleared :
                  /\ rows[l] # Absent /\ rows'[l] # Absent /\ shown[c] # Absent /\ shown'[c] # Absent
                  => \A old \in ScoreIn(shown[c], l), new \in ScoreIn(shown'[c], l) : new >= old
<1>2. BoardIInv /\ [BoardNext]_boardVars => [A]_boardVars
  BY <1>1
<1> QED BY <1>2, TheBoardIsSound, PTL DEF BoardSpec, ShownNeverFalls
=============================================================================

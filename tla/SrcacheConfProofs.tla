-------------------------- MODULE SrcacheConfProofs --------------------------
(***************************************************************************)
(* Proofs about SrcacheConf, for every depth of blocks, every nginx.conf   *)
(* and all lists of statuses: the values, methods and statuses of a        *)
(* location are those of the nearest block that gives them, and so are the *)
(* hidden headers, as far as ListsReachInnerBlocks says.                   *)
(***************************************************************************)
EXTENDS SrcacheConf, TLAPS, WellFoundedInduction

-----------------------------------------------------------------------------
(* Numbers.                                                                 *)

(* Every set of numbers has a least one.                                    *)
LEMMA LeastNumber ==
  ASSUME NEW T, T \subseteq Nat, T # {}
  PROVE  \E n \in T : \A k \in T : n <= k
  <1> DEFINE R == OpToRel(<, Nat)
  <1>1. IsWellFoundedOn(R, Nat)
    BY NatLessThanWellFounded
  <1>2. \A a, b \in Nat : <<a, b>> \in R <=> a < b
    BY DEF OpToRel
  <1> HIDE DEF R
  <1>3. PICK n \in T : \A k \in T : <<k, n>> \notin R
    BY <1>1, WFMin
  <1>4. ASSUME NEW k \in T
        PROVE  n <= k
    <2>1. k \in Nat /\ n \in Nat /\ ~(k < n)
      BY <1>2, <1>3
    <2> QED
      BY <2>1
  <1> QED
    BY <1>4

(* ... and every set of levels a greatest one.                              *)
LEMMA GreatestLevel ==
  ASSUME NEW l \in Nat, NEW T, T \subseteq 1..l, T # {}
  PROVE  \E k \in T : \A j \in T : j <= k
  <1> DEFINE D == { d \in 0..l : l - d \in T }
  <1>1. D \subseteq Nat
    OBVIOUS
  <1>2. PICK t \in T : TRUE
    OBVIOUS
  <1>3. l - t \in D
    BY <1>2
  <1>4. PICK d \in D : \A e \in D : d <= e
    BY <1>1, <1>3, LeastNumber
  <1>5. l - d \in T
    BY <1>4
  <1>6. ASSUME NEW j \in T
        PROVE  j <= l - d
    <2>1. j \in 1..l /\ l - j \in D
      OBVIOUS
    <2> QED
      BY <1>4, <2>1
  <1> QED
    BY <1>5, <1>6

-----------------------------------------------------------------------------
(* Sorting, and the scan of what is sorted.                                 *)

InOrder(list, p) ==
    \A i, j \in DOMAIN list : i < j => ~Before(list[p[j]], list[p[i]])

Orders(p, n) ==
    /\ p \in [1..n -> 1..n]
    /\ \A a, b \in 1..n : p[a] = p[b] => a = b
    /\ \A b \in 1..n : \E a \in 1..n : p[a] = b

(* Every list has an index of a least element.                              *)
LEMMA LeastElement ==
  ASSUME NEW n \in Nat \ {0}, NEW list \in [1..n -> Nat]
  PROVE  \E m \in 1..n : \A k \in 1..n : list[m] <= list[k]
  <1> DEFINE T == { list[k] : k \in 1..n }
  <1>1. T \subseteq Nat /\ list[1] \in T
    OBVIOUS
  <1>2. PICK v \in T : \A w \in T : v <= w
    BY <1>1, LeastNumber
  <1>3. PICK m \in 1..n : v = list[m]
    BY <1>2
  <1> QED
    BY <1>2, <1>3

(* Any list can be put in order: the least element goes last.               *)
LEMMA OrderExists ==
  ASSUME NEW len \in Nat, NEW whole \in [1..len -> Nat]
  PROVE  \E p : Orders(p, len) /\ InOrder(whole, p)
  <1> DEFINE T == { n \in Nat : \E list \in [1..n -> Nat] :
                      ~ \E p : Orders(p, n) /\ InOrder(list, p) }
  <1>1. ASSUME T # {} PROVE FALSE
    <2>1. T \subseteq Nat
      OBVIOUS
    <2>2. PICK n \in T : \A k \in T : n <= k
      BY <1>1, <2>1, LeastNumber
    <2>3. PICK list \in [1..n -> Nat] :
            ~ \E p : Orders(p, n) /\ InOrder(list, p)
      BY <2>2
    <2>4. n \in Nat \ {0}
      <3>1. ASSUME n = 0 PROVE FALSE
        <4>1. Orders(list, n) /\ InOrder(list, list)
          BY <2>3, <3>1 DEF Orders, InOrder
        <4> QED
          BY <2>3, <4>1
      <3> QED
        BY <2>2, <3>1
    <2>5. PICK m \in 1..n : \A k \in 1..n : list[m] <= list[k]
      BY <2>3, <2>4, LeastElement
    <2> DEFINE rest == [k \in 1..n - 1 |-> IF k = m THEN list[n] ELSE list[k]]
    <2>6. rest \in [1..n - 1 -> Nat]
      BY <2>3, <2>4
    <2>7. PICK q : Orders(q, n - 1) /\ InOrder(rest, q)
      <3>1. n - 1 \in Nat /\ ~(n <= n - 1)
        BY <2>4
      <3>2. n - 1 \notin T
        BY <2>2, <3>1
      <3> QED
        BY <2>6, <3>1, <3>2
    <2> DEFINE Of(k) == IF q[k] = m THEN n ELSE q[k]
               p == [k \in 1..n |-> IF k = n THEN m ELSE Of(k)]
    <2>8. ASSUME NEW k \in 1..n - 1
          PROVE  /\ q[k] \in 1..n - 1 /\ k \in 1..n /\ k # n
                 /\ Of(k) \in 1..n /\ Of(k) # m
                 /\ p[k] = Of(k) /\ list[p[k]] = rest[q[k]]
      <3>1. q \in [1..n - 1 -> 1..n - 1] /\ k \in 1..n - 1
        BY <2>7, <2>8 DEF Orders
      <3>2. q[k] \in 1..n - 1 /\ k \in 1..n /\ k # n
        <4>1. q[k] \in 1..n - 1
          BY <3>1
        <4>2. k \in Nat /\ 1 <= k /\ k <= n - 1 /\ n \in Nat
          BY <2>4, <3>1
        <4>3. k \in 1..n /\ k # n
          BY <4>2
        <4> QED
          BY <4>1, <4>3
      <3>3. q[k] \in 1..n /\ q[k] # n
        BY <2>4, <3>2
      <3>4. Of(k) \in 1..n /\ Of(k) # m
        BY <2>4, <2>5, <3>3
      <3> QED
        BY <3>2, <3>4
    <2>9. p[n] = m /\ 1..n = 1..(n - 1) \cup {n}
      BY <2>4
    <2> HIDE DEF rest
    <2>10. p \in [1..n -> 1..n]
      BY <2>5, <2>8, <2>9
    <2>11. ASSUME NEW a \in 1..n, NEW b \in 1..n, p[a] = p[b]
           PROVE  a = b
      <3>1. CASE a = n \/ b = n
        BY <2>8, <2>9, <2>11, <3>1
      <3>2. CASE a \in 1..n - 1 /\ b \in 1..n - 1
        <4>1. p[a] = Of(a) /\ p[b] = Of(b)
              /\ q[a] \in 1..n - 1 /\ q[b] \in 1..n - 1
          <5> HIDE DEF p, Of
          <5> QED
            BY <2>8, <3>2
        <4>2. Of(a) = Of(b)
          <5> HIDE DEF p, Of
          <5> QED
            BY <2>11, <4>1
        <4>3. q[a] # n /\ q[b] # n
          <5> HIDE DEF p, Of
          <5>1. \A x \in 1..n - 1 : x # n
            BY <2>4
          <5> QED
            BY <4>1, <5>1
        <4>4. q[a] = q[b]
          BY <4>2, <4>3, Zenon
        <4> QED
          BY <2>7, <3>2, <4>4 DEF Orders
      <3> QED
        BY <2>9, <3>1, <3>2
    <2>12. ASSUME NEW b \in 1..n
           PROVE  \E a \in 1..n : p[a] = b
      <3>1. CASE b = m
        BY <2>4, <2>9, <3>1
      <3>2. CASE b # m
        <4> DEFINE c == IF b = n THEN m ELSE b
        <4>1. c \in 1..n - 1
          BY <2>4, <2>5, <3>2
        <4>2. PICK a \in 1..n - 1 : q[a] = c
          BY <2>7, <4>1 DEF Orders
        <4>3. Of(a) = b
          BY <2>4, <3>2, <4>2
        <4> QED
          BY <2>8, <4>2, <4>3
      <3> QED
        BY <3>1, <3>2
    <2>13. ASSUME NEW a \in 1..n, NEW b \in 1..n, a < b
           PROVE  ~Before(list[p[b]], list[p[a]])
      <3>1. a \in 1..n - 1 /\ list[p[a]] \in Nat
        BY <2>3, <2>4, <2>10, <2>13
      <3>2. CASE b = n
        <4>1. list[p[b]] <= list[p[a]] /\ list[p[b]] \in Nat
          <5> HIDE DEF p, Of
          <5>1. p[a] \in 1..n /\ p[b] = m
            BY <2>9, <2>10, <3>2
          <5>2. list[m] <= list[p[a]]
            BY <2>5, <5>1
          <5>3. list[m] \in Nat
            BY <2>3
          <5> QED
            BY <5>1, <5>2, <5>3, Zenon
        <4>2. \A x, y \in Nat : x <= y => ~(y < x)
          OBVIOUS
        <4> HIDE DEF p, Of
        <4> QED
          BY <3>1, <4>1, <4>2, Zenon DEF Before
      <3>3. CASE b \in 1..n - 1
        <4>1. ~Before(rest[q[b]], rest[q[a]])
          BY <2>6, <2>7, <2>13, <3>1, <3>3 DEF InOrder
        <4> QED
          BY <2>8, <3>1, <3>3, <4>1
      <3> QED
        BY <2>9, <3>2, <3>3
    <2> HIDE DEF p, Of
    <2>14. Orders(p, n) /\ InOrder(list, p)
      BY <2>3, <2>10, <2>11, <2>12, <2>13 DEF Orders, InOrder
    <2> QED
      BY <2>3, <2>14
  <1> QED
    BY <1>1

(* What ngx_sort makes of a list: its members, the greatest first.          *)
LEMMA SortedList ==
  ASSUME NEW list \in Seq(Nat \ {0})
  PROVE  /\ Sorted(list) \in [DOMAIN list -> Nat \ {0}]
         /\ DOMAIN list = 1..Len(list) /\ Len(list) \in Nat
         /\ \A k \in DOMAIN list :
              /\ \E j \in DOMAIN list : Sorted(list)[k] = list[j]
              /\ \E j \in DOMAIN list : list[k] = Sorted(list)[j]
         /\ \A i, j \in DOMAIN list :
              i < j => Sorted(list)[i] >= Sorted(list)[j]
  <1> DEFINE n == Len(list)
             Orderly(p) == \A i, j \in DOMAIN list :
                               i < j => ~Before(list[p[j]], list[p[i]])
             order == CHOOSE p \in Bijection(DOMAIN list, DOMAIN list) :
                          Orderly(p)
  <1>1. n \in Nat /\ DOMAIN list = 1..n /\ list \in [1..n -> Nat \ {0}]
    OBVIOUS
  <1>2. Sorted(list) = [k \in DOMAIN list |-> list[order[k]]]
    BY DEF Sorted
  <1>3. PICK p : Orders(p, n) /\ InOrder(list, p)
    BY <1>1, OrderExists
  <1> HIDE DEF n
  <1>4. order \in Bijection(DOMAIN list, DOMAIN list) /\ Orderly(order)
    <2>1. p \in Bijection(DOMAIN list, DOMAIN list)
      BY <1>1, <1>3 DEF Orders, Bijection, Injection, Surjection, IsInjective
    <2>2. Orderly(p)
      BY <1>3 DEF InOrder
    <2> HIDE DEF Orderly
    <2> QED
      BY <2>1, <2>2
  <1>5. order \in [1..n -> 1..n] /\ \A b \in 1..n : \E a \in 1..n : order[a] = b
    <2> HIDE DEF order
    <2> QED
      BY <1>1, <1>4 DEF Bijection, Surjection
  <1> HIDE DEF order
  <1>6. Sorted(list) \in [DOMAIN list -> Nat \ {0}]
    BY <1>1, <1>2, <1>5
  <1>7. ASSUME NEW k \in DOMAIN list
        PROVE  /\ \E j \in DOMAIN list : Sorted(list)[k] = list[j]
               /\ \E j \in DOMAIN list : list[k] = Sorted(list)[j]
    <2>1. order[k] \in DOMAIN list /\ Sorted(list)[k] = list[order[k]]
      BY <1>1, <1>2, <1>5
    <2>2. PICK j \in DOMAIN list : order[j] = k
      BY <1>1, <1>5
    <2>3. Sorted(list)[j] = list[k]
      BY <1>1, <1>2, <2>2
    <2> QED
      BY <2>1, <2>3
  <1>8. ASSUME NEW i \in DOMAIN list, NEW j \in DOMAIN list, i < j
        PROVE  Sorted(list)[i] >= Sorted(list)[j]
    <2>1. /\ Sorted(list)[i] = list[order[i]] /\ Sorted(list)[j] = list[order[j]]
          /\ Sorted(list)[i] \in Nat /\ Sorted(list)[j] \in Nat
      BY <1>1, <1>2, <1>6
    <2>2. ~Before(list[order[j]], list[order[i]])
      BY <1>4, <1>8
    <2> QED
      BY <2>1, <2>2 DEF Before
  <1> QED
    BY <1>1, <1>6, <1>7, <1>8 DEF n

(* The scan of a list of which none is greater than one before it.          *)
LEMMA ScanOfSorted ==
  ASSUME NEW n \in Nat, NEW list \in [1..(n + 1) -> Nat],
         \A i \in 1..n : list[i] # 0,
         \A i, j \in 1..n : i < j => list[i] >= list[j],
         list[n + 1] = 0, NEW status \in Nat \ {0}
  PROVE  Matches(status, list) <=> \E k \in 1..n : list[k] = status
  <1> DEFINE Stops(i) == status >= list[i] /\ \A j \in 1..(i - 1) : status < list[j]
             sp == CHOOSE i \in DOMAIN list : Stops(i)
  <1>1. Matches(status, list) <=> ~(list[sp] = 0 \/ status > list[sp])
    BY DEF Matches
  <1>2. \E i \in DOMAIN list : Stops(i)
    <2> DEFINE T == { i \in 1..(n + 1) : status >= list[i] }
    <2>1. T \subseteq Nat /\ n + 1 \in T
      OBVIOUS
    <2>2. PICK i \in T : \A k \in T : i <= k
      BY <2>1, LeastNumber
    <2>3. ASSUME NEW j \in 1..(i - 1)
          PROVE  status < list[j]
      <3>1. j \in 1..n /\ j \in 1..(n + 1) /\ ~(i <= j)
        BY <2>2, <2>3
      <3>2. j \notin T /\ list[j] \in Nat
        BY <2>2, <3>1
      <3> QED
        BY <3>1, <3>2
    <2> QED
      BY <2>2, <2>3
  <1>3. sp \in 1..(n + 1) /\ Stops(sp)
    <2> HIDE DEF Stops
    <2> QED
      BY <1>2
  <1> HIDE DEF sp
  <1>4. sp \in 1..n \/ sp = n + 1
    BY <1>3
  <1>5. list[sp] \in Nat
    BY <1>4
  <1>6. ASSUME Matches(status, list)
        PROVE  \E k \in 1..n : list[k] = status
    <2>1. list[sp] # 0 /\ list[sp] = status
      BY <1>1, <1>3, <1>5, <1>6
    <2>2. sp \in 1..n
      BY <1>4, <2>1
    <2> QED
      BY <2>1, <2>2
  <1>7. ASSUME NEW k \in 1..n, list[k] = status
        PROVE  Matches(status, list)
    <2>1. sp <= k
      <3>1. ASSUME k < sp PROVE FALSE
        <4>1. k \in 1..(sp - 1)
          BY <1>3, <3>1
        <4>2. status < list[k]
          BY <1>3, <4>1
        <4> QED
          BY <1>7, <4>2
      <3> QED
        BY <1>3, <3>1
    <2>2. sp \in 1..n
      BY <1>3, <2>1
    <2>3. list[sp] >= list[k]
      BY <1>7, <2>1, <2>2
    <2>4. list[sp] = status
      BY <1>3, <1>5, <1>7, <2>3
    <2> QED
      BY <1>1, <2>4
  <1> QED
    BY <1>6, <1>7

(* Sorting, the final 0 and the scan of the header filter fit together: the *)
(* statuses let through are those of the directive, in whatever order.      *)
LEMMA ScanMatches ==
  ASSUME NEW given \in Seq(Nat \ {0}), NEW status \in Nat \ {0}
  PROVE  Matches(status, Sorted(given) \o <<0>>) <=> status \in ToSet(given)
  <1> DEFINE len == Len(given)
             sorted == Sorted(given)
             ended == sorted \o <<0>>
  <1>1. len \in Nat /\ DOMAIN given = 1..len
    OBVIOUS
  <1>2. /\ sorted \in [1..len -> Nat \ {0}]
        /\ \A i, j \in 1..len : i < j => sorted[i] >= sorted[j]
        /\ \A k \in 1..len : /\ \E j \in 1..len : sorted[k] = given[j]
                           /\ \E j \in 1..len : given[k] = sorted[j]
    <2>1. /\ sorted \in [DOMAIN given -> Nat \ {0}]
          /\ \A k \in DOMAIN given :
               /\ \E j \in DOMAIN given : sorted[k] = given[j]
               /\ \E j \in DOMAIN given : given[k] = sorted[j]
          /\ \A i, j \in DOMAIN given : i < j => sorted[i] >= sorted[j]
      BY SortedList, Zenon
    <2> HIDE DEF len, sorted
    <2> QED
      BY <1>1, <2>1
  <1> HIDE DEF sorted, len
  <1>3. sorted \in Seq(Nat \ {0}) /\ Len(sorted) = len
    BY <1>1, <1>2
  <1>4. /\ ended \in [1..(len + 1) -> Nat] /\ ended[len + 1] = 0
        /\ \A i \in 1..len : ended[i] = sorted[i]
    <2>1. /\ ended \in Seq(Nat) /\ Len(ended) = len + 1 /\ ended[len + 1] = 0
          /\ \A i \in 1..len : ended[i] = sorted[i]
      <3>1. /\ sorted \in Seq(Nat) /\ Len(sorted) = len
            /\ <<0>> \in Seq(Nat) /\ Len(<<0>>) = 1 /\ <<0>>[1] = 0
        <4>1. sorted \in Seq(Nat) /\ Len(sorted) = len
          BY <1>3
        <4>2. <<0>> \in Seq(Nat) /\ Len(<<0>>) = 1 /\ <<0>>[1] = 0
          OBVIOUS
        <4> QED
          BY <4>1, <4>2
      <3>2. ended \in Seq(Nat) /\ Len(ended) = len + 1
        BY <1>1, <3>1
      <3>3. ended[len + 1] = 0 /\ \A i \in 1..len : ended[i] = sorted[i]
        BY <1>1, <3>1
      <3> QED
        BY <3>2, <3>3
    <2> HIDE DEF ended
    <2> QED
      BY <2>1
  <1> HIDE DEF ended
  <1>5. /\ \A i \in 1..len : ended[i] \in Nat \ {0}
        /\ \A i, j \in 1..len : i < j => ended[i] >= ended[j]
    BY <1>2, <1>4
  <1>6. Matches(status, ended) <=> \E k \in 1..len : ended[k] = status
    <2>1. \A i \in 1..len : ended[i] # 0
      BY <1>5
    <2> QED
      BY <1>1, <1>4, <1>5, <2>1, ScanOfSorted
  <1>7. status \in ToSet(given) <=> \E k \in 1..len : given[k] = status
    BY <1>1 DEF ToSet
  <1>8. (\E k \in 1..len : given[k] = status) <=> \E k \in 1..len : ended[k] = status
    <2>1. ASSUME NEW k \in 1..len, given[k] = status
          PROVE  \E j \in 1..len : ended[j] = status
      <3>1. PICK j \in 1..len : given[k] = sorted[j]
        BY <1>2
      <3> QED
        BY <1>4, <2>1, <3>1
    <2>2. ASSUME NEW k \in 1..len, ended[k] = status
          PROVE  \E j \in 1..len : given[j] = status
      <3>1. PICK j \in 1..len : sorted[k] = given[j]
        BY <1>2
      <3> QED
        BY <1>4, <2>2, <3>1
    <2> QED
      BY <2>1, <2>2
  <1> QED
    BY <1>6, <1>7, <1>8 DEF ended, sorted

-----------------------------------------------------------------------------
(* The nearest block, level by level.                                       *)

LEMMA NearestFirst ==
  ASSUME NEW name
  PROVE  Nearest(1, name) = Stated(1, name)
  <1> DEFINE stating == { k \in 1..1 : Stated(k, name) # {} }
  <1>1. CASE Stated(1, name) = {}
    <2>1. stating = {}
      BY <1>1
    <2> QED
      BY <1>1, <2>1 DEF Nearest, NearestLevel
  <1>2. CASE Stated(1, name) # {}
    <2>1. stating = {1}
      BY <1>2
    <2>2. NearestLevel(1, name) = CHOOSE k \in {1} : \A j \in {1} : j <= k
      BY <2>1 DEF NearestLevel
    <2>3. NearestLevel(1, name) = 1
      BY <2>2
    <2> QED
      BY <2>3 DEF Nearest
  <1> QED
    BY <1>1, <1>2

LEMMA NearestStep ==
  ASSUME NEW l \in Nat \ {0}, NEW name
  PROVE  Nearest(l + 1, name) = IF Stated(l + 1, name) # {}
                                THEN Stated(l + 1, name) ELSE Nearest(l, name)
  <1> DEFINE stating(n) == { k \in 1..n : Stated(k, name) # {} }
             IsLast(k) == \A j \in stating(l + 1) : j <= k
             m == CHOOSE k \in stating(l + 1) : IsLast(k)
  <1>1. 1..(l + 1) = 1..l \cup {l + 1}
    OBVIOUS
  <1>2. CASE Stated(l + 1, name) = {}
    <2>1. stating(l + 1) = stating(l)
      BY <1>1, <1>2
    <2>2. NearestLevel(l + 1, name) = NearestLevel(l, name)
      <3> DEFINE Level(S) == IF S = {} THEN 0
                             ELSE CHOOSE k \in S : \A j \in S : j <= k
      <3>1. /\ NearestLevel(l + 1, name) = Level(stating(l + 1))
            /\ NearestLevel(l, name) = Level(stating(l))
        BY DEF NearestLevel
      <3> HIDE DEF Level, stating
      <3> QED
        BY <2>1, <3>1
    <2> QED
      BY <1>2, <2>2 DEF Nearest
  <1>3. CASE Stated(l + 1, name) # {}
    <2>1. l + 1 \in stating(l + 1) /\ IsLast(l + 1)
      BY <1>3
    <2>2. m \in stating(l + 1) /\ IsLast(m)
      <3> HIDE DEF IsLast, stating
      <3> QED
        BY <2>1
    <2>3. NearestLevel(l + 1, name) = m
      BY <2>1 DEF NearestLevel
    <2> HIDE DEF m
    <2>4. m = l + 1
      BY <2>1, <2>2
    <2> QED
      BY <1>3, <2>3, <2>4 DEF Nearest
  <1> QED
    BY <1>2, <1>3

Listing(l, k) ==
    k \in 1..l /\ Lists(k) # {} /\ \A j \in (k + 1)..l : Lists(j) = {}

LEMMA ListingIsChosen ==
  ASSUME NEW l \in Nat
  PROVE  \/ (\A k \in 1..l : Lists(k) = {}) /\ ListingLevel(l) = 0
         \/ Listing(l, ListingLevel(l))
  <1>1. CASE \A k \in 1..l : Lists(k) = {}
    BY <1>1 DEF ListingLevel
  <1>2. CASE ~ \A k \in 1..l : Lists(k) = {}
    <2> DEFINE T == { k \in 1..l : Lists(k) # {} }
    <2>1. T \subseteq 1..l /\ T # {}
      BY <1>2
    <2>2. PICK k \in T : \A j \in T : j <= k
      BY <2>1, GreatestLevel
    <2>3. ASSUME NEW j \in (k + 1)..l
          PROVE  Lists(j) = {}
      <3>1. j \in 1..l /\ ~(j <= k)
        BY <2>2, <2>3
      <3> QED
        BY <2>2, <3>1
    <2>4. Listing(l, k)
      BY <2>2, <2>3 DEF Listing
    <2> DEFINE P(n) == Lists(n) # {} /\ \A j \in (n + 1)..l : Lists(j) = {}
               m == CHOOSE n \in 1..l : P(n)
    <2>5. ListingLevel(l) = m
      BY <1>2 DEF ListingLevel
    <2>6. k \in 1..l /\ P(k)
      BY <2>4 DEF Listing
    <2>7. m \in 1..l /\ P(m)
      <3> HIDE DEF P
      <3> QED
        BY <2>6
    <2> HIDE DEF m
    <2> QED
      BY <2>5, <2>7 DEF Listing
  <1> QED
    BY <1>1, <1>2

LEMMA ListingHere ==
  ASSUME NEW l \in Nat \ {0}, Lists(l) # {}
  PROVE  ListingLevel(l) = l
  <1>1. l \in 1..l
    OBVIOUS
  <1>2. Listing(l, ListingLevel(l))
    BY <1>1, ListingIsChosen
  <1>3. ASSUME ListingLevel(l) # l PROVE FALSE
    <2>1. l \in (ListingLevel(l) + 1)..l
      BY <1>2, <1>3 DEF Listing
    <2> QED
      BY <1>2, <2>1 DEF Listing
  <1> QED
    BY <1>3

LEMMA ListingAbove ==
  ASSUME NEW l \in Nat \ {0}, Lists(l + 1) = {}
  PROVE  ListingLevel(l + 1) = ListingLevel(l) /\ ListingLevel(l) \in 0..l
  <1> DEFINE a == ListingLevel(l)
             b == ListingLevel(l + 1)
  <1>1. 1..(l + 1) = 1..l \cup {l + 1}
    OBVIOUS
  <1>2. CASE \A k \in 1..l : Lists(k) = {}
    BY <1>1, <1>2 DEF ListingLevel
  <1>3. CASE ~ \A k \in 1..l : Lists(k) = {}
    <2>1. Listing(l, a) /\ Listing(l + 1, b)
      BY <1>1, <1>3, ListingIsChosen
    <2> HIDE DEF a, b
    <2>2. /\ a \in 1..l /\ Lists(a) # {} /\ \A j \in (a + 1)..l : Lists(j) = {}
          /\ b \in 1..l /\ Lists(b) # {} /\ \A j \in (b + 1)..l : Lists(j) = {}
      BY <1>1, <2>1 DEF Listing
    <2>3. ~(a < b) /\ ~(b < a)
      BY <2>2
    <2>4. a = b
      BY <2>2, <2>3
    <2> QED
      BY <2>2, <2>4 DEF a, b
  <1> QED
    BY <1>2, <1>3

-----------------------------------------------------------------------------
(* The invariant.                                                           *)

Values == STRING \cup {Unset, "NULL", DefaultValue}

Names == SUBSET (STRING \cup DefaultMethods \cup DefaultHidden)

LocConfs ==
    [fetch : Values, value : Values, store_statuses : Seq(Nat),
     cache_methods : Names, hide_headers : Names, pass_headers : Names,
     buckets : BOOLEAN, hide_headers_hash : Names,
     hide_content_type : BOOLEAN, hide_last_modified : BOOLEAN]

TypeOK ==
    /\ file \in Files /\ file \in Seq(Directives)
    /\ next \in 1..(Len(file) + 1)
    /\ conf \in [1..Levels -> LocConfs]
    /\ merged \in 1..Levels /\ error \in BOOLEAN

(* A value that is not given is the default, one that is given is the only  *)
(* one of its block.                                                        *)
IsValue(value, args, default) ==
    IF args = {} THEN value = default ELSE args = {value} /\ value # Unset

IsStatuses(list, args) ==
    IF args = {} THEN list = <<>>
    ELSE \E a \in DOMAIN StatusLists :
             args = {a} /\ list = Sorted(StatusLists[a]) \o <<0>>

(* What the directives of a block that are read so far say.                 *)
Said(l) ==
    [name \in DirectiveNames |->
        { file[i].arg : i \in { j \in DOMAIN file :
              j < next /\ file[j].level = l /\ file[j].name = name } }]

(* A conf as it was read, before it is merged.                              *)
Holds(c, said) ==
    /\ IsValue(c.fetch, said["fetch"], Unset)
    /\ IsValue(c.value, said["value"], Unset)
    /\ IsStatuses(c.store_statuses, said["statuses"])
    /\ c.cache_methods = said["methods"]
    /\ c.hide_headers = said["hide"] /\ c.pass_headers = said["pass"]
    /\ c.buckets = FALSE /\ c.hide_content_type = FALSE
    /\ c.hide_last_modified = FALSE

(* What a conf of level l hides.  It has the lists of the blocks around it  *)
(* only if its hash was built here.                                         *)
Hides(l, c) ==
    /\ RaisedFlagsHide(c)
    /\ l = 2 \/ ListingLevel(l) = l => FlagsAgree(c)
    /\ Unbroken(ListingLevel(l)) =>
           /\ c.hide_headers_hash = Hash(Nearest(l, "hide"), Nearest(l, "pass"))
           /\ l = 2 \/ ListingLevel(l) = l =>
                  /\ c.hide_headers = Nearest(l, "hide")
                  /\ c.pass_headers = Nearest(l, "pass")

(* A conf that is merged.                                                   *)
Resolved(l) ==
    /\ IsValue(conf[l].fetch, Nearest(l, "fetch"), "NULL")
    /\ IsValue(conf[l].value, Nearest(l, "value"), DefaultValue)
    /\ IsStatuses(conf[l].store_statuses, Nearest(l, "statuses"))
    /\ conf[l].cache_methods = Nearest(l, "methods") \cup DefaultMethods
    /\ conf[l].buckets = TRUE /\ Hides(l, conf[l])

Inv ==
    /\ TypeOK
    /\ ~error =>
           /\ merged > 1 => next > Len(file)
           /\ \A l \in 1..Levels :
                  l = 1 \/ l > merged => Holds(conf[l], Said(l))
           /\ \A l \in 2..merged : Resolved(l)

LEMMA InitInv == Init => Inv
  <1> SUFFICES ASSUME Init PROVE Inv
    OBVIOUS
  <1>1. Levels \in Nat \ {0} /\ file \in Seq(Directives)
    BY LevelsAssumption, FilesAssumption DEF Init
  <1>2. Created \in LocConfs
    <2>1. Unset \in Values
      BY DEF Values
    <2>2. {} \in Names /\ <<>> \in Seq(Nat)
      BY DEF Names
    <2> HIDE DEF Unset, Names
    <2> QED
      BY <2>1, <2>2 DEF Created, LocConfs
  <1>3. TypeOK
    <2>1. next \in 1..(Len(file) + 1) /\ merged \in 1..Levels
      BY <1>1 DEF Init
    <2>2. conf \in [1..Levels -> LocConfs]
      BY <1>2 DEF Init
    <2> QED
      BY <1>1, <2>1, <2>2 DEF Init, TypeOK
  <1>4. ASSUME NEW l \in 1..Levels
        PROVE  Holds(conf[l], Said(l))
    <2>1. conf[l] = Created
      BY DEF Init
    <2>2. ASSUME NEW name \in DirectiveNames
          PROVE  Said(l)[name] = {}
      <3>1. \A j \in DOMAIN file : ~(j < next)
        BY <1>1 DEF Init
      <3> QED
        BY <3>1 DEF Said
    <2> QED
      BY <2>1, <2>2 DEF Holds, Created, IsValue, IsStatuses, DirectiveNames
  <1> QED
    BY <1>1, <1>3, <1>4 DEF Init, Inv

-----------------------------------------------------------------------------
(* Reading.                                                                 *)

(* One more directive has been read.                                        *)
LEMMA SaidGrows ==
  ASSUME TypeOK, next <= Len(file), next' = next + 1, file' = file,
         NEW l \in 1..Levels
  PROVE  /\ file[next] \in Directives
         /\ Said(l)' = IF l = AtLevel
                       THEN [Said(l) EXCEPT ![file[next].name] = @ \cup {Arg}]
                       ELSE Said(l)
  <1>1. /\ file \in Seq(Directives) /\ next \in 1..Len(file)
        /\ file[next] \in Directives
    BY DEF TypeOK
  <1>2. \A j \in DOMAIN file : j < next' <=> j < next \/ j = next
    BY <1>1
  <1>3. ASSUME NEW name \in DirectiveNames
        PROVE  Said(l)'[name] = IF l = AtLevel /\ name = file[next].name
                                THEN Said(l)[name] \cup {Arg}
                                ELSE Said(l)[name]
    BY <1>1, <1>2 DEF Said, AtLevel, Arg
  <1>4. /\ Said(l) = [name \in DirectiveNames |-> Said(l)[name]]
        /\ Said(l)' = [name \in DirectiveNames |-> Said(l)'[name]]
    BY DEF Said
  <1>5. file[next].name \in DirectiveNames
    BY <1>1 DEF Directives
  <1> QED
    BY <1>1, <1>3, <1>4, <1>5

(* A directive that is taken.                                               *)
LEMMA SetInv ==
  ASSUME Inv, ~error, next <= Len(file), NEW c \in LocConfs, Set(c),
         Holds(c, [Said(AtLevel) EXCEPT ![file[next].name] = @ \cup {Arg}])
  PROVE  Inv'
  <1>1. /\ TypeOK /\ file' = file /\ next' = next + 1 /\ merged' = merged
        /\ error' = error /\ conf' = [conf EXCEPT ![AtLevel] = c]
    BY DEF Inv, Set
  <1>2. /\ file[next] \in Directives /\ merged = 1 /\ next \in 1..Len(file)
        /\ Levels \in Nat
    BY <1>1, LevelsAssumption DEF Inv, TypeOK
  <1>3. AtLevel \in 1..Levels
    BY <1>2 DEF AtLevel, Directives
  <1>4. TypeOK'
    BY <1>1, <1>2, <1>3 DEF TypeOK
  <1>5. ASSUME NEW l \in 1..Levels
        PROVE  Holds(conf[l], Said(l))'
    <2>1. Holds(conf[l], Said(l))
      BY <1>2 DEF Inv
    <2>2. Holds(conf'[l], Said(l)')
      <3>1. CASE l = AtLevel
        BY <1>1, <1>3, <3>1, SaidGrows DEF TypeOK
      <3>2. CASE l # AtLevel
        BY <1>1, <1>3, <2>1, <3>2, SaidGrows DEF TypeOK
      <3> QED
        BY <3>1, <3>2
    <2> QED
      BY <2>2 DEF Holds
  <1> QED
    BY <1>1, <1>2, <1>4, <1>5 DEF Inv

LEMMA RefuseInv ==
  ASSUME Inv, Refuse
  PROVE  Inv'
  BY DEF Inv, TypeOK, Refuse

(* What a read directive looks like.                                        *)
LEMMA ReadingFacts ==
  ASSUME Inv, NEW name, Reading(name)
  PROVE  /\ ~error /\ next <= Len(file) /\ file[next].name = name
         /\ file[next] \in Directives /\ AtLevel \in 1..Levels
         /\ Arg \in STRING /\ Arg # Unset
         /\ conf[AtLevel] \in LocConfs
         /\ Holds(conf[AtLevel], Said(AtLevel))
         /\ Said(AtLevel) \in [DirectiveNames -> SUBSET STRING]
         /\ name = "statuses" => Arg \in DOMAIN StatusLists \cup {Bad}
  <1>1. /\ ~error /\ next <= Len(file) /\ file[next].name = name /\ TypeOK
    BY DEF Reading, Inv
  <1>2. /\ file \in Files /\ file \in Seq(Directives) /\ next \in 1..Len(file)
        /\ \A j \in DOMAIN file : file[j] \in Directives
    BY <1>1 DEF TypeOK
  <1>3. /\ file[next] \in Directives /\ AtLevel \in 1..Levels
        /\ Arg \in STRING /\ Arg # Unset
    BY <1>2 DEF AtLevel, Arg, Directives
  <1>4. conf[AtLevel] \in LocConfs
    BY <1>1, <1>3 DEF TypeOK
  <1>5. Holds(conf[AtLevel], Said(AtLevel))
    <2>1. merged = 1
      BY <1>1, <1>2, LevelsAssumption DEF Inv, TypeOK
    <2> QED
      BY <1>1, <1>3, <2>1 DEF Inv
  <1>6. Said(AtLevel) \in [DirectiveNames -> SUBSET STRING]
    <2>1. \A j \in DOMAIN file : file[j].arg \in STRING
      BY <1>2 DEF Directives
    <2> QED
      BY <2>1 DEF Said
  <1>7. name = "statuses" => Arg \in DOMAIN StatusLists \cup {Bad}
    BY <1>1, <1>2, ListsAssumption DEF Arg
  <1> QED
    BY <1>1, <1>3, <1>4, <1>5, <1>6, <1>7

(* The statuses of a directive, sorted and ended, are a list of their type. *)
LEMMA EndedListTyped ==
  ASSUME NEW given \in Seq(Nat \ {0})
  PROVE  /\ Sorted(given) \o <<0>> \in Seq(Nat)
         /\ Sorted(given) \o <<0>> # <<>>
  <1> DEFINE len == Len(given)
             sorted == Sorted(given)
  <1>1. len \in Nat /\ DOMAIN given = 1..len
    OBVIOUS
  <1>2. sorted \in [DOMAIN given -> Nat \ {0}]
    BY SortedList, Zenon
  <1> HIDE DEF sorted, len
  <1>3. sorted \in Seq(Nat) /\ Len(sorted) = len
    BY <1>1, <1>2
  <1>4. <<0>> \in Seq(Nat) /\ Len(<<0>>) = 1
    OBVIOUS
  <1>5. sorted \o <<0>> \in Seq(Nat) /\ Len(sorted \o <<0>>) = len + 1
    BY <1>1, <1>3, <1>4
  <1>6. sorted \o <<0>> # <<>>
    BY <1>1, <1>5
  <1> QED
    BY <1>5, <1>6 DEF sorted

LEMMA ReadRequestInv == Inv /\ ReadRequest => Inv'
  <1> SUFFICES ASSUME Inv, ReadRequest PROVE Inv'
    OBVIOUS
  <1> DEFINE c == [conf[AtLevel] EXCEPT !.fetch = Arg]
             said == [Said(AtLevel) EXCEPT ![file[next].name] = @ \cup {Arg}]
  <1>1. Reading("fetch") /\ conf[AtLevel].fetch = Unset /\ Set(c)
    BY DEF ReadRequest, IsDuplicate
  <1>2. c \in LocConfs
    BY <1>1, ReadingFacts DEF LocConfs, Values
  <1>3. Holds(c, said)
    BY <1>1, ReadingFacts DEF Holds, IsValue, LocConfs, DirectiveNames
  <1> HIDE DEF c, said
  <1> QED
    BY <1>1, <1>2, <1>3, ReadingFacts, SetInv DEF said

LEMMA ReadValueInv == Inv /\ ReadValue => Inv'
  <1> SUFFICES ASSUME Inv, ReadValue PROVE Inv'
    OBVIOUS
  <1> DEFINE c == [conf[AtLevel] EXCEPT !.value = Arg]
             said == [Said(AtLevel) EXCEPT ![file[next].name] = @ \cup {Arg}]
  <1>1. Reading("value") /\ conf[AtLevel].value = Unset /\ Set(c)
    BY DEF ReadValue, IsDuplicate
  <1>2. c \in LocConfs
    BY <1>1, ReadingFacts DEF LocConfs, Values
  <1>3. Holds(c, said)
    BY <1>1, ReadingFacts DEF Holds, IsValue, LocConfs, DirectiveNames
  <1> HIDE DEF c, said
  <1> QED
    BY <1>1, <1>2, <1>3, ReadingFacts, SetInv DEF said

LEMMA ReadStatusesInv == Inv /\ ReadStatuses => Inv'
  <1> SUFFICES ASSUME Inv, ReadStatuses PROVE Inv'
    OBVIOUS
  <1> DEFINE list == Sorted(StatusLists[Arg]) \o <<0>>
             c == [conf[AtLevel] EXCEPT !.store_statuses = list]
             said == [Said(AtLevel) EXCEPT ![file[next].name] = @ \cup {Arg}]
  <1>1. /\ Reading("statuses") /\ conf[AtLevel].store_statuses = <<>>
        /\ Arg # Bad /\ Set(c)
    BY DEF ReadStatuses
  <1>2. Arg \in DOMAIN StatusLists
    BY <1>1, ReadingFacts
  <1>3. list \in Seq(Nat)
    BY <1>2, ListsAssumption, EndedListTyped
  <1>4. Said(AtLevel)["statuses"] = {}
    <2>1. ASSUME NEW a \in DOMAIN StatusLists
          PROVE  Sorted(StatusLists[a]) \o <<0>> # <<>>
      BY ListsAssumption, EndedListTyped
    <2>2. IsStatuses(conf[AtLevel].store_statuses, Said(AtLevel)["statuses"])
      BY <1>1, ReadingFacts DEF Holds
    <2> QED
      BY <1>1, <2>1, <2>2 DEF IsStatuses
  <1>5. IsStatuses(list, {Arg})
    BY <1>2 DEF IsStatuses
  <1> HIDE DEF list
  <1>6. c \in LocConfs
    BY <1>1, <1>3, ReadingFacts DEF LocConfs
  <1>7. Holds(c, said)
    <2>1. /\ Holds(conf[AtLevel], Said(AtLevel))
          /\ Said(AtLevel) \in [DirectiveNames -> SUBSET STRING]
          /\ conf[AtLevel] \in LocConfs /\ file[next].name = "statuses"
      BY <1>1, ReadingFacts
    <2>2. c.store_statuses = list /\ said["statuses"] = {Arg}
      BY <1>4, <2>1 DEF LocConfs, DirectiveNames
    <2>3. IsStatuses(c.store_statuses, said["statuses"])
      BY <1>5, <2>2
    <2> QED
      BY <2>1, <2>3 DEF Holds, LocConfs, DirectiveNames
  <1> HIDE DEF c, said
  <1> QED
    BY <1>1, <1>6, <1>7, ReadingFacts, SetInv DEF said

(* One more name in a list, for each of the three lists of names.           *)
LEMMA OneMoreMethod ==
  ASSUME NEW c \in LocConfs, NEW said \in [DirectiveNames -> SUBSET STRING],
         NEW arg, Holds(c, said)
  PROVE  Holds([c EXCEPT !.cache_methods = @ \cup {arg}],
               [said EXCEPT !["methods"] = @ \cup {arg}])
  <1> DEFINE d == [c EXCEPT !.cache_methods = @ \cup {arg}]
             says == [said EXCEPT !["methods"] = @ \cup {arg}]
  <1>1. /\ d.cache_methods = c.cache_methods \cup {arg}
        /\ says["methods"] = said["methods"] \cup {arg}
    BY DEF LocConfs, DirectiveNames
  <1>2. /\ d.fetch = c.fetch
        /\ d.value = c.value
        /\ d.store_statuses = c.store_statuses
        /\ d.hide_headers = c.hide_headers
        /\ d.pass_headers = c.pass_headers
        /\ d.buckets = c.buckets
        /\ d.hide_content_type = c.hide_content_type
        /\ d.hide_last_modified = c.hide_last_modified
    BY DEF LocConfs
  <1>3. /\ says["fetch"] = said["fetch"]
        /\ says["value"] = said["value"]
        /\ says["statuses"] = said["statuses"]
        /\ says["hide"] = said["hide"]
        /\ says["pass"] = said["pass"]
    BY DEF DirectiveNames
  <1> HIDE DEF d, says
  <1>4. Holds(d, says)
    BY <1>1, <1>2, <1>3 DEF Holds
  <1> QED
    BY <1>4 DEF d, says

LEMMA OneMoreHidden ==
  ASSUME NEW c \in LocConfs, NEW said \in [DirectiveNames -> SUBSET STRING],
         NEW arg, Holds(c, said)
  PROVE  Holds([c EXCEPT !.hide_headers = @ \cup {arg}],
               [said EXCEPT !["hide"] = @ \cup {arg}])
  <1> DEFINE d == [c EXCEPT !.hide_headers = @ \cup {arg}]
             says == [said EXCEPT !["hide"] = @ \cup {arg}]
  <1>1. /\ d.hide_headers = c.hide_headers \cup {arg}
        /\ says["hide"] = said["hide"] \cup {arg}
    BY DEF LocConfs, DirectiveNames
  <1>2. /\ d.fetch = c.fetch
        /\ d.value = c.value
        /\ d.store_statuses = c.store_statuses
        /\ d.cache_methods = c.cache_methods
        /\ d.pass_headers = c.pass_headers
        /\ d.buckets = c.buckets
        /\ d.hide_content_type = c.hide_content_type
        /\ d.hide_last_modified = c.hide_last_modified
    BY DEF LocConfs
  <1>3. /\ says["fetch"] = said["fetch"]
        /\ says["value"] = said["value"]
        /\ says["statuses"] = said["statuses"]
        /\ says["methods"] = said["methods"]
        /\ says["pass"] = said["pass"]
    BY DEF DirectiveNames
  <1> HIDE DEF d, says
  <1>4. Holds(d, says)
    BY <1>1, <1>2, <1>3 DEF Holds
  <1> QED
    BY <1>4 DEF d, says

LEMMA OneMorePassed ==
  ASSUME NEW c \in LocConfs, NEW said \in [DirectiveNames -> SUBSET STRING],
         NEW arg, Holds(c, said)
  PROVE  Holds([c EXCEPT !.pass_headers = @ \cup {arg}],
               [said EXCEPT !["pass"] = @ \cup {arg}])
  <1> DEFINE d == [c EXCEPT !.pass_headers = @ \cup {arg}]
             says == [said EXCEPT !["pass"] = @ \cup {arg}]
  <1>1. /\ d.pass_headers = c.pass_headers \cup {arg}
        /\ says["pass"] = said["pass"] \cup {arg}
    BY DEF LocConfs, DirectiveNames
  <1>2. /\ d.fetch = c.fetch
        /\ d.value = c.value
        /\ d.store_statuses = c.store_statuses
        /\ d.cache_methods = c.cache_methods
        /\ d.hide_headers = c.hide_headers
        /\ d.buckets = c.buckets
        /\ d.hide_content_type = c.hide_content_type
        /\ d.hide_last_modified = c.hide_last_modified
    BY DEF LocConfs
  <1>3. /\ says["fetch"] = said["fetch"]
        /\ says["value"] = said["value"]
        /\ says["statuses"] = said["statuses"]
        /\ says["methods"] = said["methods"]
        /\ says["hide"] = said["hide"]
    BY DEF DirectiveNames
  <1> HIDE DEF d, says
  <1>4. Holds(d, says)
    BY <1>1, <1>2, <1>3 DEF Holds
  <1> QED
    BY <1>4 DEF d, says

LEMMA ReadMethodInv == Inv /\ ReadMethod => Inv'
  <1> SUFFICES ASSUME Inv, ReadMethod PROVE Inv'
    OBVIOUS
  <1> DEFINE c == [conf[AtLevel] EXCEPT !.cache_methods = @ \cup {Arg}]
             said == [Said(AtLevel) EXCEPT ![file[next].name] = @ \cup {Arg}]
  <1>1. Reading("methods") /\ Set(c)
    BY DEF ReadMethod
  <1>2. c \in LocConfs
    BY <1>1, ReadingFacts DEF LocConfs, Names
  <1>3. Holds(c, said)
    BY <1>1, ReadingFacts, OneMoreMethod
  <1> HIDE DEF c, said
  <1> QED
    BY <1>1, <1>2, <1>3, ReadingFacts, SetInv DEF said

LEMMA ReadHideInv == Inv /\ ReadHide => Inv'
  <1> SUFFICES ASSUME Inv, ReadHide PROVE Inv'
    OBVIOUS
  <1> DEFINE c == [conf[AtLevel] EXCEPT !.hide_headers = @ \cup {Arg}]
             said == [Said(AtLevel) EXCEPT ![file[next].name] = @ \cup {Arg}]
  <1>1. Reading("hide") /\ Set(c)
    BY DEF ReadHide
  <1>2. c \in LocConfs
    BY <1>1, ReadingFacts DEF LocConfs, Names
  <1>3. Holds(c, said)
    BY <1>1, ReadingFacts, OneMoreHidden
  <1> HIDE DEF c, said
  <1> QED
    BY <1>1, <1>2, <1>3, ReadingFacts, SetInv DEF said

LEMMA ReadPassInv == Inv /\ ReadPass => Inv'
  <1> SUFFICES ASSUME Inv, ReadPass PROVE Inv'
    OBVIOUS
  <1> DEFINE c == [conf[AtLevel] EXCEPT !.pass_headers = @ \cup {Arg}]
             said == [Said(AtLevel) EXCEPT ![file[next].name] = @ \cup {Arg}]
  <1>1. Reading("pass") /\ Set(c)
    BY DEF ReadPass
  <1>2. c \in LocConfs
    BY <1>1, ReadingFacts DEF LocConfs, Names
  <1>3. Holds(c, said)
    BY <1>1, ReadingFacts, OneMorePassed
  <1> HIDE DEF c, said
  <1> QED
    BY <1>1, <1>2, <1>3, ReadingFacts, SetInv DEF said

LEMMA ReadInv == Inv /\ Read => Inv'
  BY ReadRequestInv, ReadValueInv, ReadStatusesInv, ReadMethodInv, ReadHideInv,
     ReadPassInv, RefuseInv
     DEF Read, ReadBadRequest, ReadSecondValue, ReadBadStatuses

-----------------------------------------------------------------------------
(* The merge.                                                               *)

(* When all is read, what was read is what is stated.                       *)
LEMMA AllSaid ==
  ASSUME TypeOK, next > Len(file), NEW l, NEW name \in DirectiveNames
  PROVE  Said(l)[name] = Stated(l, name)
  <1>1. \A j \in DOMAIN file : j < next
    BY DEF TypeOK
  <1> QED
    BY <1>1 DEF Said, Stated

LEMMA ValueMerges ==
  ASSUME NEW l \in Nat \ {0}, NEW name, NEW own, NEW prev, NEW default,
         IsValue(own, Stated(l + 1, name), Unset),
         \/ IsValue(prev, Nearest(l, name), Unset)
         \/ IsValue(prev, Nearest(l, name), default)
  PROVE  IsValue(MergeValue(own, prev, default), Nearest(l + 1, name), default)
  BY NearestStep DEF IsValue, MergeValue

LEMMA StatusesMerge ==
  ASSUME NEW l \in Nat \ {0}, NEW own, NEW prev,
         IsStatuses(own, Stated(l + 1, "statuses")),
         IsStatuses(prev, Nearest(l, "statuses"))
  PROVE  IsStatuses(IF own = <<>> THEN prev ELSE own,
                    Nearest(l + 1, "statuses"))
  <1>1. CASE Stated(l + 1, "statuses") = {}
    <2>1. own = <<>> /\ Nearest(l + 1, "statuses") = Nearest(l, "statuses")
      BY <1>1, NearestStep DEF IsStatuses
    <2> QED
      BY <2>1
  <1>2. CASE Stated(l + 1, "statuses") # {}
    <2>1. Nearest(l + 1, "statuses") = Stated(l + 1, "statuses")
      BY <1>2, NearestStep
    <2>2. ASSUME NEW a \in DOMAIN StatusLists
          PROVE  Sorted(StatusLists[a]) \o <<0>> # <<>>
      BY ListsAssumption, EndedListTyped
    <2>3. own # <<>>
      BY <1>2, <2>2 DEF IsStatuses
    <2> QED
      BY <2>1, <2>3
  <1> QED
    BY <1>1, <1>2

LEMMA SetsMerge ==
  ASSUME NEW l \in Nat \ {0}, NEW name, NEW prev
  PROVE  /\ prev = Nearest(l, name)
              => MergeSet(Stated(l + 1, name), prev) = Nearest(l + 1, name)
         /\ prev \in {Nearest(l, name), Nearest(l, name) \cup DefaultMethods}
              => MergeMethods(Stated(l + 1, name), prev)
                   = Nearest(l + 1, name) \cup DefaultMethods
  BY NearestStep DEF MergeSet, MergeMethods

(* What a conf that is merged, or that of the http block, gives to the      *)
(* block in it.                                                             *)
Gives(l, p) ==
    /\ \/ IsValue(p.fetch, Nearest(l, "fetch"), Unset)
       \/ IsValue(p.fetch, Nearest(l, "fetch"), "NULL")
    /\ \/ IsValue(p.value, Nearest(l, "value"), Unset)
       \/ IsValue(p.value, Nearest(l, "value"), DefaultValue)
    /\ IsStatuses(p.store_statuses, Nearest(l, "statuses"))
    /\ p.cache_methods \in {Nearest(l, "methods"),
                            Nearest(l, "methods") \cup DefaultMethods}
    /\ p.buckets <=> l > 1
    /\ l = 1 => /\ p.hide_content_type = FALSE
                /\ p.hide_last_modified = FALSE
                /\ p.hide_headers = Nearest(l, "hide")
                /\ p.pass_headers = Nearest(l, "pass")
    /\ l > 1 => Hides(l, p)

LEMMA MergedGives ==
  ASSUME Inv, ~error, next > Len(file)
  PROVE  Gives(merged, conf[merged]) /\ conf[merged] \in LocConfs
  <1>1. merged \in 1..Levels /\ Levels \in Nat /\ TypeOK
        /\ conf[merged] \in LocConfs
    BY LevelsAssumption DEF Inv, TypeOK
  <1>2. CASE merged = 1
    <2>1. Holds(conf[1], Said(1))
      BY <1>1, <1>2 DEF Inv
    <2>2. ASSUME NEW name \in DirectiveNames
          PROVE  Said(1)[name] = Nearest(1, name)
      BY <1>1, AllSaid, NearestFirst
    <2>3. ~(merged > 1)
      BY <1>2
    <2> QED
      BY <1>1, <1>2, <2>1, <2>2, <2>3 DEF Gives, Holds, DirectiveNames
  <1>3. CASE merged # 1
    <2>1. merged \in 2..merged /\ merged > 1
      BY <1>1, <1>3
    <2>2. Resolved(merged)
      BY <2>1 DEF Inv
    <2> QED
      BY <1>1, <1>3, <2>1, <2>2 DEF Gives, Resolved
  <1> QED
    BY <1>2, <1>3

(* A conf with the lists and flags of its block alone.                      *)
Plain(c, l) ==
    /\ c \in LocConfs
    /\ c.hide_headers = Stated(l, "hide") /\ c.pass_headers = Stated(l, "pass")
    /\ c.hide_content_type = FALSE /\ c.hide_last_modified = FALSE

(* The merge of the hash leaves the rest alone.                             *)
Keeps(d, c) ==
    /\ d \in LocConfs /\ d.buckets = TRUE
    /\ d.fetch = c.fetch /\ d.value = c.value
    /\ d.store_statuses = c.store_statuses
    /\ d.cache_methods = c.cache_methods

(* What is hidden at a level, from what is stated there and what the level  *)
(* above gives: a level that names headers builds on the lists of the level *)
(* above, which are there if that one was built too; one that names none    *)
(* shares the hash.                                                         *)
LEMMA HiddenMerges ==
  ASSUME NEW l \in Nat \ {0}, NEW c, NEW p, NEW d,
         Plain(c, l + 1), Gives(l, p), p \in LocConfs,
         d = IF SharesHash(c, p) THEN SharedHash(c, p) ELSE BuiltHash(c, p)
  PROVE  Keeps(d, c) /\ Hides(l + 1, d)
  <1>0. /\ c \in LocConfs
        /\ c.hide_headers = Stated(l + 1, "hide")
        /\ c.pass_headers = Stated(l + 1, "pass")
        /\ c.hide_content_type = FALSE /\ c.hide_last_modified = FALSE
    BY DEF Plain
  <1>1. StatesNoList(c) <=> Lists(l + 1) = {}
    BY <1>0 DEF StatesNoList, Lists
  <1>2. p.buckets <=> l > 1
    BY DEF Gives
  <1>3. CASE l > 1 /\ Lists(l + 1) = {}
    <2>1. d = SharedHash(c, p)
      BY <1>1, <1>2, <1>3 DEF SharesHash
    <2>2. /\ ListingLevel(l + 1) = ListingLevel(l)
          /\ ListingLevel(l + 1) # l + 1 /\ l + 1 # 2
      BY <1>3, ListingAbove
    <2>3. /\ Nearest(l + 1, "hide") = Nearest(l, "hide")
          /\ Nearest(l + 1, "pass") = Nearest(l, "pass")
      BY <1>3, NearestStep DEF Lists
    <2>4. Unbroken(ListingLevel(l)) =>
            p.hide_headers_hash = Hash(Nearest(l, "hide"), Nearest(l, "pass"))
      BY <1>3 DEF Gives, Hides
    <2>5. /\ d \in LocConfs /\ d.buckets = TRUE
          /\ d.fetch = c.fetch /\ d.value = c.value
          /\ d.store_statuses = c.store_statuses
          /\ d.cache_methods = c.cache_methods
          /\ d.hide_headers_hash = p.hide_headers_hash
          /\ d.hide_content_type = FALSE /\ d.hide_last_modified = FALSE
      BY <1>0, <2>1 DEF SharedHash, LocConfs
    <2> QED
      BY <2>2, <2>3, <2>4, <2>5 DEF Keeps, Hides, RaisedFlagsHide
  <1>4. CASE ~(l > 1 /\ Lists(l + 1) = {})
    <2>1. d = BuiltHash(c, p)
      BY <1>1, <1>2, <1>4 DEF SharesHash
    <2>2. StatesNoList(c) => /\ p.hide_content_type = FALSE
                             /\ p.hide_last_modified = FALSE
      BY <1>1, <1>4 DEF Gives
    <2>3. ASSUME Unbroken(ListingLevel(l + 1))
          PROVE  /\ p.hide_headers = Nearest(l, "hide")
                 /\ p.pass_headers = Nearest(l, "pass")
      <3>1. CASE l = 1
        BY <3>1 DEF Gives
      <3>2. CASE l = 2
        <4>1. Unbroken(ListingLevel(2))
          <5>1. ListingLevel(2) \in 0..2
            BY ListingIsChosen DEF Listing
          <5> QED
            BY <5>1 DEF Unbroken
        <4> QED
          BY <3>2, <4>1 DEF Gives, Hides
      <3>3. CASE l > 2
        <4>1. ListingLevel(l + 1) = l + 1
          BY <1>4, <3>3, ListingHere
        <4>2. \A j \in 3..l : Lists(j) # {}
          BY <2>3, <4>1 DEF Unbroken
        <4>3. ListingLevel(l) = l
          BY <3>3, <4>2, ListingHere
        <4>4. Unbroken(ListingLevel(l))
          BY <4>2, <4>3 DEF Unbroken
        <4> QED
          BY <3>3, <4>3, <4>4 DEF Gives, Hides
      <3> QED
        BY <3>1, <3>2, <3>3
    <2>4. ASSUME Unbroken(ListingLevel(l + 1))
          PROVE  /\ MergeSet(c.hide_headers, p.hide_headers)
                      = Nearest(l + 1, "hide")
                 /\ MergeSet(c.pass_headers, p.pass_headers)
                      = Nearest(l + 1, "pass")
      BY <1>0, <2>3, <2>4, SetsMerge
    <2>5. /\ d \in LocConfs /\ d.buckets = TRUE
          /\ d.fetch = c.fetch /\ d.value = c.value
          /\ d.store_statuses = c.store_statuses
          /\ d.cache_methods = c.cache_methods
          /\ d.hide_headers = MergeSet(c.hide_headers, p.hide_headers)
          /\ d.pass_headers = MergeSet(c.pass_headers, p.pass_headers)
          /\ d.hide_headers_hash = Hash(d.hide_headers, d.pass_headers)
          /\ FlagsAgree(d)
      <3> DEFINE hide == MergeSet(c.hide_headers, p.hide_headers)
                 pass == MergeSet(c.pass_headers, p.pass_headers)
                 typeFlag == StatesNoList(c) /\ p.hide_content_type
                 dateFlag == StatesNoList(c) /\ p.hide_last_modified
                 type == HidesByFlag("Content-Type", typeFlag, hide, pass)
                 date == HidesByFlag("Last-Modified", dateFlag, hide, pass)
      <3>1. d = [c EXCEPT !.hide_headers = hide, !.pass_headers = pass,
                          !.buckets = TRUE,
                          !.hide_headers_hash = Hash(hide, pass),
                          !.hide_content_type = type,
                          !.hide_last_modified = date]
        BY <2>1 DEF BuiltHash
      <3>2. hide \in Names /\ pass \in Names
        BY <1>0 DEF MergeSet, LocConfs
      <3>3. Hash(hide, pass) \in Names
        BY <3>2 DEF Hash, Names
      <3>4. type \in BOOLEAN /\ date \in BOOLEAN
        BY DEF HidesByFlag
      <3>5. /\ type <=> "Content-Type" \in Hash(hide, pass)
            /\ date <=> "Last-Modified" \in Hash(hide, pass)
        BY <2>2 DEF HidesByFlag, Hash, DefaultHidden
      <3> HIDE DEF hide, pass, type, date
      <3>6. /\ d \in LocConfs /\ d.buckets = TRUE
            /\ d.fetch = c.fetch /\ d.value = c.value
            /\ d.store_statuses = c.store_statuses
            /\ d.cache_methods = c.cache_methods
            /\ d.hide_headers = hide /\ d.pass_headers = pass
            /\ d.hide_headers_hash = Hash(hide, pass)
            /\ d.hide_content_type = type /\ d.hide_last_modified = date
        BY <1>0, <3>1, <3>2, <3>3, <3>4 DEF LocConfs
      <3> QED
        BY <3>5, <3>6 DEF FlagsAgree, hide, pass
    <2> QED
      BY <2>4, <2>5 DEF Keeps, Hides, FlagsAgree, RaisedFlagsHide
  <1> QED
    BY <1>3, <1>4

(* The reference speaks of the file alone.                                  *)
LEMMA FileKept ==
  ASSUME file' = file, NEW l
  PROVE  /\ \A name : Nearest(l, name)' = Nearest(l, name)
         /\ ListingLevel(l)' = ListingLevel(l)
         /\ Unbroken(ListingLevel(l))' <=> Unbroken(ListingLevel(l))
  <1>1. \A k, name : Stated(k, name)' = Stated(k, name)
    BY DEF Stated
  <1>2. \A name : NearestLevel(l, name)' = NearestLevel(l, name)
    BY DEF NearestLevel, Stated
  <1>3. \A name : Nearest(l, name)' = Nearest(l, name)
    BY <1>1, <1>2 DEF Nearest
  <1>4. \A k : Lists(k)' = Lists(k)
    BY <1>1 DEF Lists
  <1>5. ListingLevel(l)' = ListingLevel(l)
    BY DEF ListingLevel, Lists, Stated
  <1>6. Unbroken(ListingLevel(l))' <=> Unbroken(ListingLevel(l))
    BY <1>4, <1>5 DEF Unbroken
  <1> QED
    BY <1>3, <1>5, <1>6

LEMMA ResolvedKept ==
  ASSUME file' = file, NEW l, NEW c, conf'[l] = c,
         /\ IsValue(c.fetch, Nearest(l, "fetch"), "NULL")
         /\ IsValue(c.value, Nearest(l, "value"), DefaultValue)
         /\ IsStatuses(c.store_statuses, Nearest(l, "statuses"))
         /\ c.cache_methods = Nearest(l, "methods") \cup DefaultMethods
         /\ c.buckets = TRUE /\ Hides(l, c)
  PROVE  Resolved(l)'
  <1>1. /\ \A name : Nearest(l, name)' = Nearest(l, name)
        /\ ListingLevel(l)' = ListingLevel(l)
        /\ Unbroken(ListingLevel(l))' <=> Unbroken(ListingLevel(l))
    BY FileKept
  <1>2. Hides(l, conf[l])'
    BY <1>1 DEF Hides, FlagsAgree, RaisedFlagsHide
  <1>3. /\ IsValue(conf[l].fetch, Nearest(l, "fetch"), "NULL")'
        /\ IsValue(conf[l].value, Nearest(l, "value"), DefaultValue)'
    BY <1>1 DEF IsValue
  <1>4. IsStatuses(conf[l].store_statuses, Nearest(l, "statuses"))'
    BY <1>1 DEF IsStatuses
  <1>5. /\ conf'[l].buckets = TRUE
        /\ conf'[l].cache_methods = Nearest(l, "methods")' \cup DefaultMethods
    BY <1>1
  <1> QED
    BY <1>2, <1>3, <1>4, <1>5 DEF Resolved

(* What MergedValues makes of a conf as it was read and of what the level   *)
(* above gives.                                                             *)
LEMMA ValuesMerge ==
  ASSUME NEW l \in Nat \ {0}, NEW own \in LocConfs, NEW p \in LocConfs,
         NEW said, Holds(own, said), Gives(l, p),
         \A name \in DirectiveNames : said[name] = Stated(l + 1, name),
         NEW c, c = MergedValues(own, p)
  PROVE  /\ Plain(c, l + 1)
         /\ IsValue(c.fetch, Nearest(l + 1, "fetch"), "NULL")
         /\ IsValue(c.value, Nearest(l + 1, "value"), DefaultValue)
         /\ IsStatuses(c.store_statuses, Nearest(l + 1, "statuses"))
         /\ c.cache_methods = Nearest(l + 1, "methods") \cup DefaultMethods
  <1> DEFINE fetch == MergeValue(own.fetch, p.fetch, "NULL")
             value == MergeValue(own.value, p.value, DefaultValue)
             statuses == IF own.store_statuses = <<>> THEN p.store_statuses
                         ELSE own.store_statuses
             methods == MergeMethods(own.cache_methods, p.cache_methods)
  <1>1. c = [own EXCEPT !.fetch = fetch, !.value = value,
                        !.store_statuses = statuses, !.cache_methods = methods]
    BY DEF MergedValues
  <1>2. /\ IsValue(own.fetch, Stated(l + 1, "fetch"), Unset)
        /\ IsValue(own.value, Stated(l + 1, "value"), Unset)
        /\ IsStatuses(own.store_statuses, Stated(l + 1, "statuses"))
        /\ own.cache_methods = Stated(l + 1, "methods")
        /\ own.hide_headers = Stated(l + 1, "hide")
        /\ own.pass_headers = Stated(l + 1, "pass")
        /\ own.hide_content_type = FALSE /\ own.hide_last_modified = FALSE
    BY DEF Holds, DirectiveNames
  <1>3. /\ IsValue(fetch, Nearest(l + 1, "fetch"), "NULL")
        /\ IsValue(value, Nearest(l + 1, "value"), DefaultValue)
    BY <1>2, ValueMerges DEF Gives
  <1>4. IsStatuses(statuses, Nearest(l + 1, "statuses"))
    BY <1>2, StatusesMerge DEF Gives
  <1>5. methods = Nearest(l + 1, "methods") \cup DefaultMethods
    BY <1>2, SetsMerge DEF Gives
  <1>6. /\ fetch \in Values /\ value \in Values /\ statuses \in Seq(Nat)
        /\ methods \in Names
    <2>1. fetch \in Values /\ value \in Values
      BY DEF MergeValue, LocConfs, Values
    <2>2. statuses \in Seq(Nat)
      BY DEF LocConfs
    <2>3. methods \in Names
      BY DEF MergeMethods, MergeSet, LocConfs, Names
    <2> QED
      BY <2>1, <2>2, <2>3
  <1> HIDE DEF fetch, value, statuses, methods
  <1>7. /\ c \in LocConfs /\ c.fetch = fetch /\ c.value = value
        /\ c.store_statuses = statuses /\ c.cache_methods = methods
        /\ c.hide_headers = own.hide_headers
        /\ c.pass_headers = own.pass_headers
        /\ c.hide_content_type = own.hide_content_type
        /\ c.hide_last_modified = own.hide_last_modified
    BY <1>1, <1>6 DEF LocConfs
  <1>8. Plain(c, l + 1)
    BY <1>2, <1>7 DEF Plain
  <1> QED
    BY <1>3, <1>4, <1>5, <1>7, <1>8

LEMMA MergeInv == Inv /\ MergeLocConf => Inv'
  <1> SUFFICES ASSUME Inv, MergeLocConf PROVE Inv'
    OBVIOUS
  <1> DEFINE p == conf[merged]
             own == conf[merged + 1]
             c == MergedValues(own, p)
             d == IF SharesHash(c, p) THEN SharedHash(c, p)
                  ELSE BuiltHash(c, p)
  <1>1. /\ ~error /\ next > Len(file) /\ merged < Levels
        /\ conf' = [conf EXCEPT ![merged + 1] = d]
        /\ merged' = merged + 1 /\ file' = file /\ next' = next
        /\ error' = error
    BY DEF MergeLocConf
  <1>2. /\ TypeOK /\ Levels \in Nat /\ merged \in 1..Levels
        /\ merged \in Nat \ {0} /\ merged + 1 \in 1..Levels
        /\ conf \in [1..Levels -> LocConfs] /\ merged + 1 > merged
    BY <1>1, LevelsAssumption DEF Inv, TypeOK
  <1>3. Gives(merged, p) /\ p \in LocConfs
    BY <1>1, MergedGives
  <1>4. /\ own \in LocConfs /\ Holds(own, Said(merged + 1))
        /\ \A name \in DirectiveNames :
             Said(merged + 1)[name] = Stated(merged + 1, name)
    BY <1>1, <1>2, AllSaid DEF Inv
  <1> HIDE DEF p, own
  <1>5. /\ Plain(c, merged + 1)
        /\ IsValue(c.fetch, Nearest(merged + 1, "fetch"), "NULL")
        /\ IsValue(c.value, Nearest(merged + 1, "value"), DefaultValue)
        /\ IsStatuses(c.store_statuses, Nearest(merged + 1, "statuses"))
        /\ c.cache_methods = Nearest(merged + 1, "methods") \cup DefaultMethods
    BY <1>2, <1>3, <1>4, ValuesMerge
  <1> HIDE DEF c
  <1>6. Keeps(d, c) /\ Hides(merged + 1, d)
    BY <1>2, <1>3, <1>5, HiddenMerges
  <1> HIDE DEF d
  <1>7. d \in LocConfs
    BY <1>6 DEF Keeps
  <1>8. TypeOK'
    BY <1>1, <1>2, <1>7 DEF TypeOK
  <1>9. ASSUME NEW l \in 1..Levels, l = 1 \/ l > merged'
        PROVE  Holds(conf[l], Said(l))'
    <2>1. l # merged + 1 /\ (l = 1 \/ l > merged)
      BY <1>1, <1>2, <1>9
    <2>2. Holds(conf[l], Said(l)) /\ conf'[l] = conf[l]
      BY <1>1, <1>2, <2>1 DEF Inv
    <2>3. Said(l)' = Said(l)
      BY <1>1 DEF Said
    <2> QED
      BY <2>2, <2>3 DEF Holds
  <1>10. ASSUME NEW l \in 2..merged'
         PROVE  Resolved(l)'
    <2>1. CASE l = merged + 1
      <3>1. conf'[l] = d
        BY <1>1, <1>2, <2>1
      <3>2. /\ IsValue(d.fetch, Nearest(l, "fetch"), "NULL")
            /\ IsValue(d.value, Nearest(l, "value"), DefaultValue)
            /\ IsStatuses(d.store_statuses, Nearest(l, "statuses"))
            /\ d.cache_methods = Nearest(l, "methods") \cup DefaultMethods
            /\ d.buckets = TRUE /\ Hides(l, d)
        BY <1>5, <1>6, <2>1 DEF Keeps
      <3> QED
        BY <1>1, <3>1, <3>2, ResolvedKept
    <2>2. CASE l # merged + 1
      <3>1. l \in 2..merged /\ l \in 1..Levels
        BY <1>1, <1>2, <2>2
      <3>2. Resolved(l) /\ conf'[l] = conf[l]
        BY <1>1, <1>2, <2>2, <3>1 DEF Inv
      <3> QED
        BY <1>1, <3>2, ResolvedKept DEF Resolved
    <2> QED
      BY <2>1, <2>2
  <1> QED
    BY <1>1, <1>8, <1>9, <1>10 DEF Inv

LEMMA StepInv == Inv /\ [Next]_vars => Inv'
  <1> SUFFICES ASSUME Inv, [Next]_vars PROVE Inv'
    OBVIOUS
  <1>1. CASE Read
    BY <1>1, ReadInv
  <1>2. CASE MergeLocConf
    BY <1>2, MergeInv
  <1>3. CASE UNCHANGED vars
    <2>1. TypeOK'
      BY <1>3 DEF Inv, TypeOK, vars
    <2>2. ASSUME ~error, NEW l \in 1..Levels, l = 1 \/ l > merged
          PROVE  Holds(conf[l], Said(l))'
      <3>1. Holds(conf[l], Said(l))
        BY <2>2 DEF Inv
      <3>2. Said(l)' = Said(l) /\ conf'[l] = conf[l]
        BY <1>3 DEF Said, vars
      <3> QED
        BY <3>1, <3>2 DEF Holds
    <2>3. ASSUME ~error, NEW l \in 2..merged
          PROVE  Resolved(l)'
      BY <1>3, <2>3, ResolvedKept DEF Inv, Resolved, vars
    <2> QED
      BY <1>3, <2>1, <2>2, <2>3 DEF Inv, vars
  <1> QED
    BY <1>1, <1>2, <1>3 DEF Next, Done

LEMMA Invariance == Spec => []Inv
  BY InitInv, StepInv, PTL DEF Spec

-----------------------------------------------------------------------------

(* The statuses that the header filter lets through.                        *)
LEMMA StatusesLetThrough ==
  ASSUME NEW c, NEW names, IsStatuses(c.store_statuses, names),
         NEW status \in Statuses
  PROVE  Storable(status, c) <=> status \in Named(names)
  <1>1. CASE names = {}
    BY <1>1 DEF IsStatuses, Storable, Named
  <1>2. CASE names # {}
    <2>1. PICK a \in DOMAIN StatusLists :
            /\ names = {a}
            /\ c.store_statuses = Sorted(StatusLists[a]) \o <<0>>
      BY <1>2 DEF IsStatuses
    <2>2. StatusLists[a] \in Seq(Nat \ {0}) /\ status \in Nat \ {0}
      BY ListsAssumption, StatusesAssumption
    <2>3. /\ c.store_statuses # <<>>
          /\ Matches(status, c.store_statuses)
               <=> status \in ToSet(StatusLists[a])
      BY <2>1, <2>2, EndedListTyped, ScanMatches
    <2>4. Named(names) = ToSet(StatusLists[a])
      BY <2>1 DEF Named
    <2> QED
      BY <2>3, <2>4 DEF Storable
  <1> QED
    BY <1>1, <1>2

(* Whatever the depth of blocks and the nginx.conf, a location that does    *)
(* not give a value, a list of methods or a list of statuses has that of    *)
(* the nearest block around it that does, through any number of merges; and *)
(* for a list of any length the sort, the final 0 and the scan of the       *)
(* header filter let through the statuses that it names, and no other.      *)
THEOREM NearestBlockCounts == Spec => []NearestBlockWins
  <1>1. Inv => NearestBlockWins
    <2> SUFFICES ASSUME Inv, NEW l \in Ready
                 PROVE  /\ Nearest(l, "fetch") = {} => conf[l].fetch = "NULL"
                        /\ Nearest(l, "fetch") # {}
                             => {conf[l].fetch} = Nearest(l, "fetch")
                        /\ Nearest(l, "value") = {}
                             => conf[l].value = DefaultValue
                        /\ Nearest(l, "value") # {}
                             => {conf[l].value} = Nearest(l, "value")
                        /\ conf[l].cache_methods
                             = Nearest(l, "methods") \cup DefaultMethods
                        /\ { status \in Statuses : Storable(status, conf[l]) }
                             = Named(Nearest(l, "statuses")) \cap Statuses
      BY DEF NearestBlockWins
    <2>1. Resolved(l)
      BY DEF Ready, Inv
    <2>2. \A status \in Statuses :
            Storable(status, conf[l]) <=> status \in Named(Nearest(l, "statuses"))
      BY <2>1, StatusesLetThrough DEF Resolved
    <2>3. { status \in Statuses : Storable(status, conf[l]) }
            = Named(Nearest(l, "statuses")) \cap Statuses
      BY <2>2
    <2> QED
      BY <2>1, <2>3 DEF Resolved, IsValue
  <1> QED
    BY <1>1, Invariance, PTL

(* What a location hides is what the nearest lists say, through lists taken *)
(* over, hashes shared and the http block, which has no hash, at any depth, *)
(* if no level between the server block and the one that lists names        *)
(* nothing; and the two flags agree with a hash that was built.             *)
THEOREM ListsReach == Spec => []ListsReachInnerBlocks
  <1>1. Inv => ListsReachInnerBlocks
    <2>1. ASSUME Inv, NEW l \in Ready
          PROVE  Hides(l, conf[l])
      BY <2>1 DEF Ready, Inv, Resolved
    <2> QED
      BY <2>1 DEF ListsReachInnerBlocks, Hides, HidesWhatHolds
  <1> QED
    BY <1>1, Invariance, PTL
=============================================================================

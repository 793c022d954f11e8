---------------------- MODULE SrcacheCacheControlProofs ----------------------
(***************************************************************************)
(* Proofs about SrcacheCacheControl, for header lists of any length and    *)
(* numbers of any number of digits: the scan of the request misses no      *)
(* header, and the loop over the response's headers comes to what they say *)
(* together.                                                               *)
(***************************************************************************)
EXTENDS SrcacheCacheControl, TLAPS, WellFoundedInduction

-----------------------------------------------------------------------------
(* Numbers, digit by digit.                                                 *)

(* Every set of numbers has a least one.                                    *)
LEMMA LeastNumber ==
  ASSUME NEW T, T \subseteq Nat, T # {}
  PROVE  \E n \in T : \A k \in T : n <= k
  <1> DEFINE R == OpToRel(<, Nat)
  <1>1. IsWellFoundedOn(R, Nat)
    BY NatLessThanWellFounded
  <1>2. \A a, b \in Nat : <<a, b>> \in R <=> a < b
    BY DEF OpToRel
  <1> HIDE DEF R
  <1>3. PICK n \in T : \A k \in T : <<k, n>> \notin R
    BY <1>1, WFMin
  <1>4. ASSUME NEW k \in T
        PROVE  n <= k
    <2>1. k \in Nat /\ n \in Nat /\ ~(k < n)
      BY <1>2, <1>3
    <2> QED
      BY <2>1
  <1> QED
    BY <1>4

(* The loop stops at a character that is no digit, or at the end.           *)
LEMMA NumberIsDigits ==
  ASSUME NEW age \in Seq(Chars)
  PROVE  /\ NumberLength(age) \in 0..Len(age)
         /\ \A k \in 1..NumberLength(age) : age[k] \in 0..9
  <1> DEFINE stops == { k \in 1..Len(age) : age[k] \notin Digits }
  <1>1. CASE stops = {}
    BY <1>1 DEF NumberLength, Digits
  <1>2. CASE stops # {}
    <2> DEFINE m == CHOOSE k \in stops : \A j \in stops : k <= j
    <2>1. m \in stops /\ \A j \in stops : m <= j
      <3>1. \E k \in stops : \A j \in stops : k <= j
        <4>1. stops \subseteq Nat
          OBVIOUS
        <4> HIDE DEF stops
        <4> QED
          BY <1>2, <4>1, LeastNumber
      <3> HIDE DEF stops
      <3> QED
        BY <3>1
    <2>2. NumberLength(age) = m - 1
      BY <1>2 DEF NumberLength
    <2>3. m \in 1..Len(age)
      BY <2>1
    <2> HIDE DEF m
    <2>4. ASSUME NEW k \in 1..(m - 1)
          PROVE  age[k] \in Digits
      <3>1. k \in 1..Len(age) /\ ~(m <= k)
        BY <2>3
      <3> QED
        BY <2>1, <3>1
    <2> QED
      BY <2>2, <2>3, <2>4 DEF Digits
  <1> QED
    BY <1>1, <1>2

(* f[k] is the number of the first k digits, in integers of any size.       *)
Counts(f, age, len) ==
    /\ f \in [0..len -> Nat] /\ f[0] = 0
    /\ \A k \in 1..len : f[k] = 10 * f[k - 1] + age[k]

IsWritten(n, age, len) ==
    n = [k \in 0..len |-> IF k = 0 THEN 0 ELSE 10 * n[k - 1] + age[k]]

IsRead(n, age, len) ==
    n = [k \in 0..len |-> IF k = 0 THEN 0 ELSE AddDigit(n[k - 1], age[k])]

(* There is such a function, ...                                            *)
LEMMA CountExists ==
  ASSUME NEW age, NEW len \in Nat, \A k \in 1..len : age[k] \in 0..9
  PROVE  \E f : Counts(f, age, len)
  <1> DEFINE T == { n \in 0..len : ~ \E f : Counts(f, age, n) }
  <1>1. ASSUME T # {} PROVE FALSE
    <2>1. T \subseteq Nat
      OBVIOUS
    <2>2. PICK m \in T : \A k \in T : m <= k
      BY <1>1, <2>1, LeastNumber
    <2>3. m # 0
      <3>1. Counts([k \in 0..0 |-> 0], age, 0)
        BY DEF Counts
      <3> QED
        BY <3>1
    <2>4. m - 1 \in 0..len /\ ~(m <= m - 1)
      BY <2>2, <2>3
    <2>5. PICK f : Counts(f, age, m - 1)
      <3>1. m - 1 \notin T
        BY <2>2, <2>4
      <3> QED
        BY <2>4, <3>1
    <2>6. m \in 1..len /\ age[m] \in 0..9
      BY <2>3
    <2> DEFINE g == [k \in 0..m |-> IF k = m THEN 10 * f[m - 1] + age[m]
                                    ELSE f[k]]
    <2>7. /\ f \in [0..m - 1 -> Nat] /\ f[0] = 0
          /\ \A k \in 1..m - 1 : f[k] = 10 * f[k - 1] + age[k]
      BY <2>5 DEF Counts
    <2>8. g \in [0..m -> Nat] /\ g[0] = 0
      <3>1. f[m - 1] \in Nat
        BY <2>6, <2>7
      <3>2. 10 * f[m - 1] + age[m] \in Nat
        BY <2>6, <3>1
      <3> QED
        BY <2>6, <2>7, <3>2
    <2>9. ASSUME NEW k \in 1..m
          PROVE  g[k] = 10 * g[k - 1] + age[k]
      <3>1. k - 1 \in 0..m /\ k \in 0..m /\ k - 1 # m
        BY <2>6
      <3>2. g[k - 1] = f[k - 1]
        BY <3>1
      <3>3. CASE k = m
        BY <3>1, <3>2, <3>3
      <3>4. CASE k # m
        <4>1. k \in 1..m - 1 /\ g[k] = f[k]
          BY <2>6, <3>1, <3>4
        <4> QED
          BY <2>7, <3>2, <4>1
      <3> QED
        BY <3>3, <3>4
    <2>10. Counts(g, age, m)
      BY <2>8, <2>9 DEF Counts
    <2> QED
      BY <2>2, <2>10
  <1>2. len \notin T
    BY <1>1
  <1> QED
    BY <1>2

(* ... and Written is its value for all digits.                             *)
LEMMA WrittenIsCounted ==
  ASSUME NEW age \in Seq(Chars)
  PROVE  \E f : /\ Counts(f, age, NumberLength(age))
                /\ Written(age) = f[NumberLength(age)]
  <1> DEFINE len == NumberLength(age)
             n == CHOOSE n : IsWritten(n, age, len)
  <1>1. len \in Nat /\ \A k \in 1..len : age[k] \in 0..9
    BY NumberIsDigits
  <1>2. Written(age) = n[len]
    BY DEF Written, IsWritten
  <1> HIDE DEF len
  <1>3. PICK f : Counts(f, age, len)
    BY <1>1, CountExists
  <1>4. IsWritten(f, age, len)
    BY <1>1, <1>3 DEF Counts, IsWritten
  <1>5. IsWritten(n, age, len)
    BY <1>4
  <1> HIDE DEF n
  <1> DEFINE T == { k \in 0..len : n[k] # f[k] }
  <1>6. ASSUME T # {} PROVE FALSE
    <2>1. T \subseteq Nat
      BY <1>1
    <2>2. PICK m \in T : \A k \in T : m <= k
      BY <1>6, <2>1, LeastNumber
    <2>3. m # 0
      BY <1>1, <1>5, <1>3 DEF IsWritten, Counts
    <2>4. m - 1 \in 0..len /\ ~(m <= m - 1) /\ m \in 1..len
      BY <1>1, <2>2, <2>3
    <2>5. n[m - 1] = f[m - 1]
      BY <2>2, <2>4
    <2>6. n[m] = 10 * n[m - 1] + age[m]
      BY <1>5, <2>4 DEF IsWritten
    <2> QED
      BY <1>3, <2>2, <2>4, <2>5, <2>6 DEF Counts
  <1>7. n[len] = f[len]
    BY <1>1, <1>6
  <1> QED
    BY <1>2, <1>3, <1>7 DEF len

(* The number of more digits is no smaller.                                 *)
LEMMA CountGrows ==
  ASSUME NEW age, NEW len \in Nat, \A k \in 1..len : age[k] \in 0..9,
         NEW f, Counts(f, age, len), NEW m \in 0..len
  PROVE  f[m] <= f[len]
  <1> DEFINE T == { d \in 0..(len - m) : ~(f[m] <= f[m + d]) }
  <1>0. \A k \in 0..len : f[k] \in Nat
    BY DEF Counts
  <1>1. ASSUME T # {} PROVE FALSE
    <2>1. T \subseteq Nat
      OBVIOUS
    <2>2. PICK d \in T : \A k \in T : d <= k
      BY <1>1, <2>1, LeastNumber
    <2>3. d # 0
      BY <1>0
    <2>4. d - 1 \in 0..(len - m) /\ ~(d <= d - 1) /\ m + d \in 1..len
          /\ m + d - 1 \in 0..len /\ m + (d - 1) = m + d - 1
      BY <2>2, <2>3
    <2>5. f[m] <= f[m + d - 1]
      BY <2>2, <2>4
    <2>6. f[m + d] = 10 * f[m + d - 1] + age[m + d]
      BY <2>4 DEF Counts
    <2>7. f[m + d - 1] \in Nat /\ f[m] \in Nat /\ age[m + d] \in 0..9
      BY <1>0, <2>4
    <2>8. f[m] <= f[m + d]
      BY <2>5, <2>6, <2>7
    <2> QED
      BY <2>2, <2>8
  <1>2. len - m \in 0..(len - m) /\ m + (len - m) = len
    OBVIOUS
  <1> QED
    BY <1>1, <1>2

(* Small numbers do not wrap.                                               *)
LEMMA SmallIsKept ==
  ASSUME NEW n \in Nat, n <= IntMax
  PROVE  NgxInt(n) = n
  <1>1. IntMax \in Nat
    BY BoundsAssumption
  <1>2. \A x, y \in Nat : x < y => x % y = x
    OBVIOUS
  <1>3. (n + IntMax + 1) % (2 * (IntMax + 1)) = n + IntMax + 1
    BY <1>1, <1>2
  <1> QED
    BY <1>1, <1>3 DEF NgxInt

(* What is read, wrapping at each digit, is what was written, if that fits. *)
LEMMA ReadAsWritten ==
  ASSUME NEW age \in Seq(Chars)
  PROVE  /\ Written(age) \in Nat
         /\ Written(age) <= IntMax => MaxAge(age) = Written(age)
  <1> DEFINE len == NumberLength(age)
             n == CHOOSE n : IsRead(n, age, len)
  <1>1. len \in Nat /\ \A k \in 1..len : age[k] \in 0..9
    BY NumberIsDigits
  <1>2. PICK f : Counts(f, age, len) /\ Written(age) = f[len]
    BY WrittenIsCounted
  <1>3. MaxAge(age) = n[len]
    BY DEF MaxAge, IsRead
  <1> HIDE DEF len
  <1>4. f[len] \in Nat
    BY <1>1, <1>2 DEF Counts
  <1>5. ASSUME f[len] <= IntMax
        PROVE  MaxAge(age) = f[len]
    <2>1. ASSUME NEW k \in 1..len
          PROVE  f[k] = AddDigit(f[k - 1], age[k])
      <3>1. /\ f[k] \in Nat /\ f[k] = 10 * f[k - 1] + age[k]
            /\ f[k - 1] \in Nat /\ age[k] \in 0..9 /\ k \in 0..len
        BY <1>1, <1>2 DEF Counts
      <3>2. f[k] <= IntMax
        <4>1. f[k] <= f[len]
          BY <1>1, <1>2, <3>1, CountGrows
        <4> QED
          BY <1>4, <1>5, <3>1, <4>1, BoundsAssumption
      <3>3. NgxInt(f[k]) = f[k]
        BY <3>1, <3>2, SmallIsKept
      <3>4. f[k - 1] * 10 + age[k] = f[k]
        BY <3>1
      <3> QED
        BY <3>3, <3>4 DEF AddDigit
    <2>2. IsRead(f, age, len)
      BY <1>1, <1>2, <2>1 DEF Counts, IsRead
    <2>3. IsRead(n, age, len)
      BY <2>2
    <2> HIDE DEF n
    <2> DEFINE T == { k \in 0..len : n[k] # f[k] }
    <2>4. ASSUME T # {} PROVE FALSE
      <3>1. T \subseteq Nat
        BY <1>1
      <3>2. PICK m \in T : \A k \in T : m <= k
        BY <2>4, <3>1, LeastNumber
      <3>3. m # 0
        BY <1>1, <1>2, <2>3 DEF IsRead, Counts
      <3>4. m - 1 \in 0..len /\ ~(m <= m - 1) /\ m \in 1..len
        BY <1>1, <3>2, <3>3
      <3>5. n[m - 1] = f[m - 1]
        BY <3>2, <3>4
      <3>6. n[m] = AddDigit(n[m - 1], age[m])
        BY <2>3, <3>4 DEF IsRead
      <3> QED
        BY <2>1, <3>2, <3>4, <3>5, <3>6
    <2> QED
      BY <1>1, <1>3, <2>4
  <1> QED
    BY <1>2, <1>4, <1>5

-----------------------------------------------------------------------------
(* The invariant.                                                           *)

Typed ==
    /\ conf \in ConfRecords /\ cache_control \in Seq(ResponseHeaders)
    /\ headers_in \in Seq(Seq(RequestHeaders)) /\ headers_in # <<>>
    /\ expires \in Nat \cup {Absent}
    /\ stage \in {"request", "content", "response", "passing", "bypassed"}
    /\ no_store \in BOOLEAN /\ no_cache \in BOOLEAN
    /\ fetches \in BOOLEAN /\ registered \in BOOLEAN
    /\ now \in Nat \ {0} /\ since \in Nat /\ since <= now

(* The scan of the request has been at the headers of the parts before, and *)
(* at those before i in its part.                                           *)
Scanned(p, k) == p < part \/ (p = part /\ k < i)

FoundSoFar(token, names) ==
    \E p \in DOMAIN headers_in : \E k \in DOMAIN headers_in[p] :
        Scanned(p, k) /\ Says(headers_in[p][k], token, names)

ScanInv ==
    stage = "request" =>
        /\ part \in DOMAIN headers_in /\ i \in 1..Len(headers_in[part]) + 1
        /\ no_store <=> FoundSoFar("no-store", {"Cache-Control"})
        /\ no_cache <=> FoundSoFar("no-cache", Refusing)

(* The first live max-age is good, and counted from the time of the header. *)
Lifetime == SaysAge /\ valid_sec = since + Written(FirstAged)

(* What the loop over the response's headers knows of those before i.       *)
LoopInv ==
    stage = "response" =>
        /\ conf.resp_cache_control /\ registered /\ since = now
        /\ i \in 1..Len(cache_control) + 1
        /\ \A k \in 1..(i - 1) :
               cache_control[k].live => ~Forbids(cache_control[k])
        /\ AgedAt \cap 1..(i - 1) = {} => valid_sec = 0
        /\ AgeFits /\ AgedAt \cap 1..(i - 1) # {} => Lifetime

PassInv ==
    stage = "passing" =>
        /\ registered
        /\ ~conf.resp_cache_control => valid_sec = 0
        /\ AgeFits /\ conf.resp_cache_control =>
               /\ ~ResponseForbids
               /\ SaysAge => Lifetime
               /\ SaysNothing => IF expires = Absent THEN valid_sec = 0
                                 ELSE valid_sec = expires /\ expires > 0

BypassInv ==
    stage = "bypassed" /\ AgeFits => ResponseForbids \/ ~registered

Inv ==
    /\ Typed /\ ScanInv /\ EveryRequestHeaderIsSeen
    /\ stage \in {"request", "content"} => valid_sec = 0
    /\ LoopInv /\ PassInv /\ BypassInv

LEMMA InitInv == Init => Inv
  <1> SUFFICES ASSUME Init PROVE Inv
    OBVIOUS
  <1>1. Typed
    <2>1. PICK c \in Cases :
            /\ conf = c.conf /\ headers_in = c.headers_in
            /\ cache_control = c.cache_control /\ expires = c.expires
      BY DEF Init
    <2>2. /\ c.conf \in ConfRecords /\ c.headers_in # <<>>
          /\ c.headers_in \in Seq(Seq(RequestHeaders))
          /\ c.cache_control \in Seq(ResponseHeaders)
          /\ c.expires \in Nat \cup {Absent}
      BY CasesAssumption
    <2>3. /\ conf \in ConfRecords /\ cache_control \in Seq(ResponseHeaders)
          /\ headers_in \in Seq(Seq(RequestHeaders)) /\ headers_in # <<>>
          /\ expires \in Nat \cup {Absent}
      BY <2>1, <2>2, Zenon
    <2>4. /\ stage = "request" /\ no_store = FALSE /\ no_cache = FALSE
          /\ fetches = FALSE /\ registered = FALSE /\ now = 1 /\ since = 0
      BY DEF Init
    <2>5. now \in Nat \ {0} /\ since \in Nat /\ since <= now
      BY <2>4
    <2> QED
      BY <2>3, <2>4, <2>5, Zenon DEF Typed
  <1>2. 1 \in DOMAIN headers_in /\ headers_in[1] \in Seq(RequestHeaders)
    BY <1>1 DEF Typed
  <1>3. ScanInv
    <2>1. \A p \in DOMAIN headers_in : \A k \in DOMAIN headers_in[p] :
            ~Scanned(p, k)
      BY <1>1 DEF Init, Typed, Scanned
    <2> QED
      BY <1>2, <2>1 DEF Init, ScanInv, FoundSoFar
  <1> QED
    BY <1>1, <1>3 DEF Init, Inv, EveryRequestHeaderIsSeen, LoopInv, PassInv,
                      BypassInv

-----------------------------------------------------------------------------
(* The request.                                                             *)

(* A step of the scan, on which the rest of the invariant does not depend.  *)
LEMMA ScanStep ==
  ASSUME Inv, stage = "request",
         UNCHANGED <<inputs, stage, fetches, registered, valid_sec, now,
                     since>>,
         no_store' \in BOOLEAN, no_cache' \in BOOLEAN, ScanInv'
  PROVE  Inv'
  BY DEF Inv, Typed, inputs, EveryRequestHeaderIsSeen, LoopInv, PassInv,
         BypassInv

LEMMA NextPartInv == Inv /\ NextPart => Inv'
  <1> SUFFICES ASSUME Inv, NextPart PROVE Inv'
    OBVIOUS
  <1> USE DEF inputs
  <1>1. /\ stage = "request" /\ i > Len(headers_in[part])
        /\ part < Len(headers_in) /\ part' = part + 1 /\ i' = 1
        /\ UNCHANGED <<headers_in, stage, no_store, no_cache>>
    BY DEF NextPart, Scanning, PartDone, Entered
  <1>2. /\ headers_in \in Seq(Seq(RequestHeaders))
        /\ part \in 1..Len(headers_in) /\ i \in 1..Len(headers_in[part]) + 1
    BY <1>1 DEF Inv, Typed, ScanInv
  <1>3. /\ part' \in 1..Len(headers_in)
        /\ headers_in[part'] \in Seq(RequestHeaders)
        /\ headers_in[part] \in Seq(RequestHeaders)
    BY <1>1, <1>2
  <1>4. ASSUME NEW p \in DOMAIN headers_in, NEW k \in DOMAIN headers_in[p]
        PROVE  Scanned(p, k)' <=> Scanned(p, k)
    <2>1. p \in Nat /\ k \in 1..Len(headers_in[p])
      BY <1>2, <1>4
    <2> QED
      BY <1>1, <1>2, <1>3, <2>1 DEF Scanned
  <1>5. ASSUME NEW token, NEW names
        PROVE  FoundSoFar(token, names)' <=> FoundSoFar(token, names)
    BY <1>1, <1>4 DEF FoundSoFar
  <1>6. ScanInv'
    BY <1>1, <1>2, <1>3, <1>5 DEF Inv, ScanInv
  <1>7. no_store' \in BOOLEAN /\ no_cache' \in BOOLEAN
    BY <1>1 DEF Inv, Typed
  <1> QED
    BY <1>1, <1>6, <1>7, ScanStep DEF NextPart

LEMMA RequestHeaderInv == Inv /\ RequestHeader => Inv'
  <1> SUFFICES ASSUME Inv, RequestHeader PROVE Inv'
    OBVIOUS
  <1> USE DEF inputs
  <1> DEFINE h == headers_in[part][i]
  <1>1. /\ stage = "request" /\ ~(i > Len(headers_in[part])) /\ i' = i + 1
        /\ no_store' = (no_store \/ Says(h, "no-store", {"Cache-Control"}))
        /\ no_cache' = (no_cache \/ Says(h, "no-cache", Refusing))
        /\ UNCHANGED <<headers_in, stage, part>>
    BY DEF RequestHeader, Scanning, PartDone
  <1>2. /\ headers_in \in Seq(Seq(RequestHeaders))
        /\ part \in 1..Len(headers_in) /\ i \in 1..Len(headers_in[part]) + 1
        /\ no_store \in BOOLEAN /\ no_cache \in BOOLEAN
    BY <1>1 DEF Inv, Typed, ScanInv
  <1>3. /\ headers_in[part] \in Seq(RequestHeaders)
        /\ i \in 1..Len(headers_in[part])
    BY <1>1, <1>2
  <1>4. ASSUME NEW p \in DOMAIN headers_in, NEW k \in DOMAIN headers_in[p]
        PROVE  Scanned(p, k)' <=> Scanned(p, k) \/ (p = part /\ k = i)
    <2>1. p \in Nat /\ k \in 1..Len(headers_in[p])
      BY <1>2, <1>4
    <2> QED
      BY <1>1, <1>2, <1>3, <2>1 DEF Scanned
  <1>5. ASSUME NEW token, NEW names
        PROVE  FoundSoFar(token, names)'
                 <=> FoundSoFar(token, names) \/ Says(h, token, names)
    <2>1. part \in DOMAIN headers_in /\ i \in DOMAIN headers_in[part]
      BY <1>2, <1>3
    <2> QED
      BY <1>1, <1>4, <2>1 DEF FoundSoFar
  <1> HIDE DEF h
  <1>6. ScanInv'
    <2>1. i' \in 1..Len(headers_in[part]) + 1
      BY <1>1, <1>3
    <2> QED
      BY <1>1, <1>2, <1>5, <2>1 DEF Inv, ScanInv
  <1>7. no_store' \in BOOLEAN /\ no_cache' \in BOOLEAN
    BY <1>1, <1>2 DEF Says
  <1> QED
    BY <1>1, <1>6, <1>7, ScanStep DEF RequestHeader

(* When the list is done, what was found is what the headers say.           *)
LEMMA AnswerInv ==
  ASSUME Inv, stage = "request", NEW fetch \in BOOLEAN,
         NEW register \in BOOLEAN, Answer(fetch, register),
         LET refuses == /\ conf.req_cache_control
                        /\ RequestSays("no-cache", Refusing)
             unstored == RequestSays("no-store", {"Cache-Control"})
         IN  /\ fetch <=> ~refuses
             /\ refuses /\ unstored => ~register
             /\ ~conf.req_cache_control \/ ~unstored => register
  PROVE  Inv'
  <1>1. Typed'
    BY DEF Inv, Typed, Answer, inputs
  <1>2. EveryRequestHeaderIsSeen'
    BY DEF EveryRequestHeaderIsSeen, Answer, inputs, RequestSays
  <1>3. stage' = "content" /\ valid_sec' = 0
    BY DEF Inv, Answer
  <1> QED
    BY <1>1, <1>2, <1>3 DEF Inv, ScanInv, LoopInv, PassInv, BypassInv

LEMMA FoundAll ==
  ASSUME Inv, stage = "request", ListDone
  PROVE  /\ no_store <=> RequestSays("no-store", {"Cache-Control"})
         /\ no_cache <=> RequestSays("no-cache", Refusing)
  <1>1. /\ headers_in \in Seq(Seq(RequestHeaders))
        /\ part = Len(headers_in) /\ i > Len(headers_in[part])
        /\ i \in 1..Len(headers_in[part]) + 1
    BY DEF Inv, Typed, ScanInv, ListDone, PartDone
  <1>2. ASSUME NEW p \in DOMAIN headers_in, NEW k \in DOMAIN headers_in[p]
        PROVE  Scanned(p, k)
    <2>1. p \in 1..Len(headers_in) /\ k \in 1..Len(headers_in[p])
          /\ Len(headers_in[p]) \in Nat
      BY <1>1, <1>2
    <2> QED
      BY <1>1, <2>1 DEF Scanned
  <1> QED
    BY <1>2 DEF Inv, ScanInv, FoundSoFar, RequestSays

LEMMA RequestNoCacheInv == Inv /\ RequestNoCache => Inv'
  <1> SUFFICES ASSUME Inv, RequestNoCache PROVE Inv'
    OBVIOUS
  <1>1. /\ stage = "request" /\ conf.req_cache_control /\ ListDone /\ no_cache
        /\ Answer(FALSE, ~no_store)
    BY DEF RequestNoCache, Scanning
  <1>2. no_store \in BOOLEAN
    BY DEF Inv, Typed
  <1> QED
    BY <1>1, <1>2, FoundAll, AnswerInv

LEMMA RequestAllowsInv == Inv /\ RequestAllows => Inv'
  <1> SUFFICES ASSUME Inv, RequestAllows PROVE Inv'
    OBVIOUS
  <1>1. stage = "request" /\ Answer(TRUE, TRUE)
    BY DEF RequestAllows
  <1>2. ~(conf.req_cache_control /\ RequestSays("no-cache", Refusing))
    BY <1>1, FoundAll DEF RequestAllows
  <1> QED
    BY <1>1, <1>2, AnswerInv
-----------------------------------------------------------------------------
(* The response.                                                            *)

(* The header filter begins, or leaves, with nothing looked at yet.         *)
LEMMA ContentInv == Inv /\ Content => Inv'
  <1> SUFFICES ASSUME Inv, Content PROVE Inv'
    OBVIOUS
  <1> USE DEF inputs
  <1>1. /\ valid_sec = 0 /\ valid_sec' = 0 /\ i' = 1 /\ since' = now
        /\ now' = now /\ registered' = registered
        /\ conf' = conf /\ cache_control' = cache_control
        /\ stage' = IF ~registered THEN "bypassed"
                    ELSE IF conf.resp_cache_control THEN "response"
                    ELSE "passing"
    BY DEF Inv, Content
  <1>2. Typed'
    BY <1>1 DEF Inv, Typed, Content
  <1>3. EveryRequestHeaderIsSeen'
    BY DEF Inv, EveryRequestHeaderIsSeen, Content, RequestSays
  <1>4. Len(cache_control) \in Nat
    BY DEF Inv, Typed
  <1>5. LoopInv'
    <2>1. 1 \in 1..Len(cache_control) + 1 /\ 1..(1 - 1) = {}
      BY <1>4
    <2>2. AgedAt' = AgedAt
      BY <1>1 DEF AgedAt
    <2> QED
      BY <1>1, <2>1, <2>2 DEF LoopInv
  <1>6. PassInv' /\ BypassInv'
    BY <1>1 DEF PassInv, BypassInv
  <1> QED
    BY <1>1, <1>2, <1>3, <1>5, <1>6 DEF Inv, ScanInv

(* The reference speaks of what a step of the response leaves alone.        *)
LEMMA ReferenceKept ==
  ASSUME UNCHANGED <<inputs, since>>
  PROVE  /\ AgedAt' = AgedAt /\ FirstAged' = FirstAged
         /\ (SaysAge' <=> SaysAge) /\ (SaysNothing' <=> SaysNothing)
         /\ (AgeFits' <=> AgeFits) /\ (ResponseForbids' <=> ResponseForbids)
  <1>1. AgedAt' = AgedAt
    BY DEF inputs, AgedAt
  <1>2. FirstAged' = FirstAged
    BY <1>1 DEF inputs, FirstAged
  <1>3. /\ (SaysAge' <=> SaysAge) /\ (SaysNothing' <=> SaysNothing)
        /\ (SaysDead' <=> SaysDead) /\ (AgeFits' <=> AgeFits)
    BY <1>1, <1>2 DEF SaysAge, SaysNothing, SaysDead, AgeFits
  <1>4. ResponseForbids' <=> ResponseForbids
    BY <1>3 DEF inputs, ResponseForbids, Forbids
  <1> QED
    BY <1>1, <1>2, <1>3, <1>4

(* What every step of the loop keeps.                                       *)
LEMMA MoveKeeps ==
  ASSUME Inv, stage = "response",
         NEW s \in {"response", "passing", "bypassed"}, NEW sec, Move(s, sec),
         LoopInv', PassInv', BypassInv'
  PROVE  Inv'
  <1>1. Typed'
    BY DEF Inv, Typed, Move, inputs
  <1>2. EveryRequestHeaderIsSeen'
    BY DEF Inv, EveryRequestHeaderIsSeen, Move, inputs, RequestSays
  <1> QED
    BY <1>1, <1>2 DEF Inv, ScanInv, Move

(* The header at hand is the first live one with a max-age, if none was     *)
(* before it.                                                               *)
LEMMA FirstIsHere ==
  ASSUME cache_control \in Seq(ResponseHeaders), NEW k \in AgedAt,
         AgedAt \cap 1..(k - 1) = {}
  PROVE  FirstAged = cache_control[k].age
  <1>1. AgedAt \subseteq Nat \ {0}
    BY DEF AgedAt
  <1>2. \A j \in AgedAt : k <= j
    BY <1>1
  <1> DEFINE m == CHOOSE m \in AgedAt : \A j \in AgedAt : m <= j
  <1>3. m \in AgedAt /\ \A j \in AgedAt : m <= j
    BY <1>2
  <1>4. m = k
    <2> HIDE DEF m
    <2> QED
      BY <1>1, <1>2, <1>3
  <1> QED
    BY <1>4 DEF FirstAged

(* The first max-age has the type of a max-age.                             *)
LEMMA FirstAgedTyped ==
  ASSUME cache_control \in Seq(ResponseHeaders), AgedAt # {}
  PROVE  FirstAged \in Seq(Chars)
  <1>1. AgedAt \subseteq Nat
    BY DEF AgedAt
  <1>2. \E m \in AgedAt : \A j \in AgedAt : m <= j
    BY <1>1, LeastNumber
  <1>3. PICK m \in AgedAt : FirstAged = cache_control[m].age
    BY <1>2 DEF FirstAged
  <1>4. cache_control[m] \in ResponseHeaders
    BY <1>3 DEF AgedAt
  <1> QED
    BY <1>3, <1>4 DEF ResponseHeaders

(* Where the loop is, with header h at hand.                                *)
LEMMA AtHeader ==
  ASSUME Inv, NEW h, ResponseHeader(h)
  PROVE  /\ stage = "response" /\ conf.resp_cache_control /\ registered
         /\ since = now /\ since \in Nat /\ now \in Nat \ {0}
         /\ cache_control \in Seq(ResponseHeaders)
         /\ i \in 1..Len(cache_control) /\ h = cache_control[i]
         /\ h \in ResponseHeaders /\ 1..i = 1..(i - 1) \cup {i}
         /\ i \in AgedAt <=> h.live /\ h.has_age
  <1>1. /\ stage = "response" /\ conf.resp_cache_control /\ registered
        /\ since = now /\ since \in Nat /\ now \in Nat \ {0}
        /\ cache_control \in Seq(ResponseHeaders) /\ h = cache_control[i]
        /\ i <= Len(cache_control) /\ i \in 1..Len(cache_control) + 1
    BY DEF ResponseHeader, Inv, LoopInv, Typed
  <1>2. i \in 1..Len(cache_control)
    BY <1>1
  <1>3. 1..i = 1..(i - 1) \cup {i}
    BY <1>2
  <1> QED
    BY <1>1, <1>2, <1>3 DEF AgedAt

(* A header that changes nothing: the loop goes on.                         *)
LEMMA LoopGoesOn ==
  ASSUME Inv, NEW h, ResponseHeader(h), NEW sec, Move("response", sec),
         h.live => ~Forbids(h),
         AgedAt \cap 1..i = {} => sec = 0,
         AgeFits /\ AgedAt \cap 1..i # {}
           => SaysAge /\ sec = since + Written(FirstAged)
  PROVE  Inv'
  <1>1. /\ stage' = "response" /\ valid_sec' = sec /\ i' = i + 1
        /\ UNCHANGED <<conf, cache_control, registered, now, since>>
        /\ UNCHANGED <<inputs, since>>
    BY DEF Move, inputs
  <1>2. /\ i \in 1..Len(cache_control) /\ h = cache_control[i]
        /\ conf.resp_cache_control /\ registered /\ since = now
        /\ cache_control \in Seq(ResponseHeaders)
        /\ 1..i = 1..(i - 1) \cup {i}
    BY AtHeader
  <1>3. i' \in 1..Len(cache_control) + 1 /\ i' - 1 = i
    BY <1>1, <1>2
  <1>4. ASSUME NEW k \in 1..i
        PROVE  cache_control[k].live => ~Forbids(cache_control[k])
    BY <1>2, <1>4, AtHeader DEF Inv, LoopInv
  <1>5. \A k : Forbids(cache_control[k])' <=> Forbids(cache_control[k])
    BY <1>1 DEF Forbids
  <1>6. LoopInv'
    BY <1>1, <1>2, <1>3, <1>4, <1>5, ReferenceKept DEF LoopInv, Lifetime
  <1> QED
    BY <1>1, <1>6, AtHeader, MoveKeeps DEF PassInv, BypassInv

(* The loop returns.                                                        *)
LEMMA LoopReturns ==
  ASSUME Inv, stage = "response", NEW sec, Move("bypassed", sec),
         AgeFits => ResponseForbids
  PROVE  Inv'
  <1>1. stage' = "bypassed" /\ UNCHANGED <<inputs, since>>
    BY DEF Move
  <1>2. BypassInv'
    BY <1>1, ReferenceKept DEF BypassInv
  <1> QED
    BY <1>1, <1>2, MoveKeeps DEF LoopInv, PassInv

LEMMA DeadInv ==
  ASSUME Inv, NEW h, Dead(h)
  PROVE  Inv'
  <1>1. ResponseHeader(h) /\ ~h.live /\ Move("response", valid_sec)
    BY DEF Dead
  <1>2. i \notin AgedAt /\ 1..i = 1..(i - 1) \cup {i}
    BY <1>1, AtHeader
  <1>3. AgedAt \cap 1..i = AgedAt \cap 1..(i - 1)
    BY <1>2
  <1> QED
    BY <1>1, <1>3, LoopGoesOn, AtHeader DEF Inv, LoopInv, Lifetime

LEMMA ForbiddenInv ==
  ASSUME Inv, NEW h, Forbidden(h)
  PROVE  Inv'
  <1>1. /\ ResponseHeader(h) /\ h.live /\ Forbids(h)
        /\ Move("bypassed", valid_sec)
    BY DEF Forbidden
  <1>2. /\ i \in DOMAIN cache_control /\ h = cache_control[i]
        /\ conf.resp_cache_control /\ stage = "response"
    BY <1>1, AtHeader
  <1>3. ResponseForbids
    BY <1>1, <1>2 DEF ResponseForbids
  <1> QED
    BY <1>1, <1>2, <1>3, LoopReturns

LEMMA NoAgeInv ==
  ASSUME Inv, NEW h, NoAge(h)
  PROVE  Inv'
  <1>1. /\ ResponseHeader(h) /\ h.live /\ ~Forbids(h)
        /\ Move("response", valid_sec)
        /\ valid_sec # 0 \/ ~h.has_age
    BY DEF NoAge, Settled
  <1>2. 1..i = 1..(i - 1) \cup {i} /\ (i \in AgedAt <=> h.has_age)
    BY <1>1, AtHeader
  <1>3. /\ AgedAt \cap 1..(i - 1) = {} => valid_sec = 0
        /\ AgeFits /\ AgedAt \cap 1..(i - 1) # {} => Lifetime
    BY <1>1, AtHeader DEF Inv, LoopInv
  <1>4. AgedAt \cap 1..i = {} => valid_sec = 0
    BY <1>2, <1>3
  <1>5. AgedAt \cap 1..i # {} => AgedAt \cap 1..(i - 1) # {}
    BY <1>1, <1>2, <1>3
  <1> QED
    BY <1>1, <1>3, <1>4, <1>5, LoopGoesOn DEF Lifetime

(* The first max-age is looked at, or a number beyond ngx_int_t was.        *)
LEMMA ConsideredIsFirst ==
  ASSUME Inv, NEW h, Considered(h), AgeFits
  PROVE  /\ i \in AgedAt /\ FirstAged = h.age
         /\ Written(h.age) \in Nat /\ MaxAge(h.age) = Written(h.age)
  <1>1. ResponseHeader(h) /\ h.live /\ valid_sec = 0 /\ h.has_age
    BY DEF Considered, Settled
  <1>2. /\ i \in AgedAt /\ since \in Nat /\ h = cache_control[i]
        /\ cache_control \in Seq(ResponseHeaders) /\ h \in ResponseHeaders
        /\ stage = "response"
    BY <1>1, AtHeader
  <1>3. h.age \in Seq(Chars)
    BY <1>2 DEF ResponseHeaders
  <1>4. AgedAt \cap 1..(i - 1) = {}
    <2> SUFFICES ASSUME AgedAt \cap 1..(i - 1) # {} PROVE FALSE
      OBVIOUS
    <2>1. SaysAge /\ 0 = since + Written(FirstAged)
      BY <1>1, <1>2 DEF Inv, LoopInv, Lifetime
    <2>2. FirstAged \in Seq(Chars)
      BY <1>2, FirstAgedTyped
    <2>3. Written(FirstAged) \in Nat /\ Written(FirstAged) > 0
      BY <2>1, <2>2, ReadAsWritten DEF SaysAge
    <2> QED
      BY <1>2, <2>1, <2>3
  <1>5. FirstAged = h.age
    BY <1>2, <1>4, FirstIsHere
  <1>6. Written(h.age) <= IntMax
    BY <1>2, <1>5 DEF AgeFits
  <1> QED
    BY <1>2, <1>3, <1>5, <1>6, ReadAsWritten

LEMMA BadAgeInv ==
  ASSUME Inv, NEW h, BadAge(h)
  PROVE  Inv'
  <1>1. /\ Considered(h)
        /\ NoNumber(h.age) \/ MaxAge(h.age) = 0
        /\ Move("bypassed", valid_sec)
    BY DEF BadAge
  <1>2. stage = "response" /\ conf.resp_cache_control
    BY <1>1, AtHeader DEF Considered
  <1>3. ASSUME AgeFits PROVE ResponseForbids
    <2>1. AgedAt # {} /\ ~SaysAge
      BY <1>1, <1>3, ConsideredIsFirst DEF SaysAge
    <2> QED
      BY <1>2, <2>1 DEF SaysDead, ResponseForbids
  <1> QED
    BY <1>1, <1>2, <1>3, LoopReturns

LEMMA GoodAgeInv ==
  ASSUME Inv, NEW h, GoodAge(h)
  PROVE  Inv'
  <1>1. /\ Considered(h) /\ ~NoNumber(h.age) /\ MaxAge(h.age) # 0
        /\ Move("response", now + MaxAge(h.age))
        /\ ResponseHeader(h) /\ ~Forbids(h) /\ h.live /\ h.has_age
    BY DEF GoodAge, Considered, Settled
  <1>2. i \in AgedAt /\ i \in 1..i /\ since = now
    BY <1>1, AtHeader
  <1>3. ASSUME AgeFits
        PROVE  SaysAge /\ now + MaxAge(h.age) = since + Written(FirstAged)
    BY <1>1, <1>2, <1>3, ConsideredIsFirst DEF SaysAge
  <1> QED
    BY <1>1, <1>2, <1>3, LoopGoesOn

-----------------------------------------------------------------------------
(* check_expires                                                            *)

LEMMA CheckExpiresInv == Inv /\ CheckExpires => Inv'
  <1> SUFFICES ASSUME Inv, CheckExpires PROVE Inv'
    OBVIOUS
  <1>1. HeadersDone
    BY DEF CheckExpires, NoExpiresNeeded, NeedsExpires
  <1>2. /\ stage = "response" /\ conf.resp_cache_control /\ registered
        /\ since = now /\ now \in Nat \ {0} /\ expires \in Nat \cup {Absent}
        /\ cache_control \in Seq(ResponseHeaders)
        /\ i = Len(cache_control) + 1
    <2>1. i \in 1..Len(cache_control) + 1 /\ i > Len(cache_control)
          /\ cache_control \in Seq(ResponseHeaders)
      BY <1>1 DEF HeadersDone, Inv, LoopInv, Typed
    <2> QED
      BY <1>1, <2>1 DEF HeadersDone, Inv, LoopInv, Typed
  <1>3. AgedAt \cap 1..(i - 1) = AgedAt /\ DOMAIN cache_control = 1..(i - 1)
    BY <1>2 DEF AgedAt
  <1>4. /\ \A k \in DOMAIN cache_control :
             cache_control[k].live => ~Forbids(cache_control[k])
        /\ SaysNothing => valid_sec = 0
        /\ AgeFits /\ ~SaysNothing => Lifetime
    BY <1>2, <1>3 DEF Inv, LoopInv, SaysNothing
  <1>5. AgeFits /\ valid_sec = 0 => SaysNothing
    <2> SUFFICES ASSUME AgeFits, valid_sec = 0, AgedAt # {} PROVE FALSE
      BY DEF SaysNothing
    <2>1. SaysAge /\ 0 = since + Written(FirstAged)
      BY <1>4 DEF Lifetime, SaysNothing
    <2>2. Written(FirstAged) \in Nat /\ Written(FirstAged) > 0
      BY <1>2, <2>1, FirstAgedTyped, ReadAsWritten DEF SaysAge
    <2> QED
      BY <1>2, <2>1, <2>2
  <1>6. ASSUME NEW sec, Move("passing", sec),
               SaysNothing => IF expires = Absent THEN sec = 0
                              ELSE sec = expires /\ expires > now,
               AgeFits /\ SaysAge => sec = valid_sec
        PROVE  Inv'
    <2>1. /\ stage' = "passing" /\ valid_sec' = sec
          /\ UNCHANGED <<conf, expires, registered, since>>
          /\ UNCHANGED <<inputs, since>>
      BY <1>6 DEF Move, inputs
    <2>2. ASSUME AgeFits
          PROVE  /\ ~ResponseForbids
                 /\ SaysAge => SaysAge /\ sec = since + Written(FirstAged)
                 /\ SaysNothing => IF expires = Absent THEN sec = 0
                                   ELSE sec = expires /\ expires > 0
      <3>1. ~SaysDead
        BY <1>4, <2>2 DEF SaysDead, SaysNothing, Lifetime
      <3>2. SaysNothing => expires \notin Garbage..since
        BY <1>2, <1>6 DEF Garbage, Absent
      <3>3. ~ResponseForbids
        BY <1>4, <3>1, <3>2 DEF ResponseForbids
      <3>4. SaysAge => sec = since + Written(FirstAged)
        BY <1>4, <1>6, <2>2 DEF Lifetime, SaysAge, SaysNothing
      <3>5. SaysNothing => IF expires = Absent THEN sec = 0
                           ELSE sec = expires /\ expires > 0
        BY <1>2, <1>6
      <3> QED
        BY <3>3, <3>4, <3>5
    <2>3. PassInv'
      BY <1>2, <2>1, <2>2, ReferenceKept DEF PassInv, Lifetime
    <2> QED
      BY <1>2, <1>6, <2>1, <2>3, MoveKeeps DEF LoopInv, BypassInv
  <1>7. CASE NoExpiresNeeded
    <2>1. SaysNothing => expires = Absent /\ valid_sec = 0
      BY <1>4, <1>7 DEF NoExpiresNeeded
    <2> QED
      BY <1>6, <1>7, <2>1 DEF NoExpiresNeeded
  <1>8. CASE NeedsExpires /\ Expired /\ Move("bypassed", 0)
    <2>1. ASSUME AgeFits PROVE ResponseForbids
      <3>1. SaysNothing
        BY <1>5, <1>8, <2>1 DEF NeedsExpires
      <3>2. expires \in Garbage..since
        BY <1>2, <1>8 DEF NeedsExpires, Expired, Garbage, Absent
      <3> QED
        BY <1>2, <3>1, <3>2 DEF ResponseForbids
    <2> QED
      BY <1>2, <1>8, <2>1, LoopReturns
  <1>9. CASE NeedsExpires /\ ~Expired /\ Move("passing", expires)
    <2>1. expires > now
      BY <1>2, <1>9 DEF NeedsExpires, Expired, Garbage, Absent
    <2>2. AgeFits /\ SaysAge => expires = valid_sec
      BY <1>5, <1>9 DEF NeedsExpires, SaysAge, SaysNothing
    <2> QED
      BY <1>6, <1>9, <2>1, <2>2 DEF NeedsExpires
  <1> QED
    BY <1>7, <1>8, <1>9 DEF CheckExpires

-----------------------------------------------------------------------------
(* All steps.                                                               *)

(* What was found out does not depend on the time, only what is left of it. *)
LEMMA TimeInv == Inv /\ Time => Inv'
  <1> SUFFICES ASSUME Inv, Time PROVE Inv'
    OBVIOUS
  <1>1. /\ stage \in {"content", "passing"} /\ now' = now + 1
        /\ UNCHANGED <<inputs, stage, part, i, no_store, no_cache, fetches,
                       registered, valid_sec, since>>
        /\ UNCHANGED <<inputs, since>>
    BY DEF Time
  <1>2. Typed'
    <2>1. now' \in Nat \ {0} /\ since' \in Nat /\ since' <= now'
      BY <1>1 DEF Inv, Typed
    <2> QED
      BY <1>1, <2>1 DEF Inv, Typed, inputs
  <1>3. EveryRequestHeaderIsSeen'
    BY <1>1 DEF Inv, EveryRequestHeaderIsSeen, RequestSays, inputs
  <1>4. PassInv'
    BY <1>1, ReferenceKept DEF Inv, PassInv, Lifetime, inputs
  <1> QED
    BY <1>1, <1>2, <1>3, <1>4 DEF Inv, ScanInv, LoopInv, BypassInv

LEMMA StepInv == Inv /\ [Next]_vars => Inv'
  <1> SUFFICES ASSUME Inv, [Next]_vars PROVE Inv'
    OBVIOUS
  <1>1. CASE NextPart
    BY <1>1, NextPartInv
  <1>2. CASE RequestHeader
    BY <1>2, RequestHeaderInv
  <1>3. CASE RequestNoCache
    BY <1>3, RequestNoCacheInv
  <1>4. CASE RequestAllows
    BY <1>4, RequestAllowsInv
  <1>5. CASE Content
    BY <1>5, ContentInv
  <1>6. CASE ResponseNoCache
    BY <1>6, DeadInv, ForbiddenInv, NoAgeInv, BadAgeInv, GoodAgeInv,
       CheckExpiresInv DEF ResponseNoCache
  <1>7. CASE Time
    BY <1>7, TimeInv
  <1>8. CASE UNCHANGED vars
    <2>1. UNCHANGED <<inputs, since>>
      BY <1>8 DEF vars, inputs
    <2>2. Typed' /\ EveryRequestHeaderIsSeen'
      BY <1>8 DEF Inv, Typed, EveryRequestHeaderIsSeen, RequestSays, vars
    <2>3. ScanInv'
      BY <1>8 DEF Inv, ScanInv, FoundSoFar, Scanned, vars
    <2>4. LoopInv'
      BY <1>8, <2>1, ReferenceKept DEF Inv, LoopInv, Lifetime, Forbids, vars
    <2>5. PassInv' /\ BypassInv'
      BY <1>8, <2>1, ReferenceKept DEF Inv, PassInv, BypassInv, Lifetime, vars
    <2> QED
      BY <1>8, <2>2, <2>3, <2>4, <2>5 DEF Inv, vars
  <1> QED
    BY <1>1, <1>2, <1>3, <1>4, <1>5, <1>6, <1>7, <1>8 DEF Next, Over

LEMMA Invariance == Spec => []Inv
  BY InitInv, StepInv, PTL DEF Spec

(* Whatever parts the list of request headers has, empty ones included, and *)
(* however many headers, ngx_http_srcache_request_no_cache sees them all: a *)
(* fetch is skipped iff one of them refuses it, the response is kept out of *)
(* the cache if a no-store comes with that, and only a no-store can do so.  *)
THEOREM EveryHeaderCounts == Spec => []EveryRequestHeaderIsSeen
  <1>1. Inv => EveryRequestHeaderIsSeen
    BY DEF Inv
  <1> QED
    BY <1>1, Invariance, PTL

(* What $srcache_expire gives: what is left of a lifetime that is known,    *)
(* else the default, unless that is more than srcache_max_expire.           *)
LEMMA ExpireIsRight ==
  ASSUME Inv, NEW life \in Int,
         life = IF valid_sec = 0 THEN conf.default_expire ELSE valid_sec - now
  PROVE  IF conf.max_expire = 0 \/ life < conf.max_expire
         THEN Expire = life ELSE Expire = conf.max_expire
  <1>1. now \in Nat /\ conf.max_expire \in Nat
    BY DEF Inv, Typed, ConfRecords
  <1>2. Expire = IF conf.max_expire > 0 /\ life > conf.max_expire
                 THEN conf.max_expire ELSE life
    BY <1>1 DEF Expire
  <1> QED
    BY <1>1, <1>2

(* A response goes on to be stored iff its live Cache-Control and Expires   *)
(* headers, taken together, allow it, and $srcache_expire is exactly what   *)
(* the first of them that gives a lifetime leaves it, else                  *)
(* srcache_default_expire, cut to srcache_max_expire.  A max-age has any    *)
(* number of digits; the theorem is about those that an ngx_int_t can hold, *)
(* as read by the loop that ngx_http_srcache_response_no_cache wraps at     *)
(* each digit.                                                              *)
THEOREM ControlIsObeyed == Spec => []ControlIsHonoured
  <1>1. Inv => ControlIsHonoured
    <2> SUFFICES ASSUME Inv, AgeFits PROVE ControlIsHonoured
      BY DEF ControlIsHonoured
    <2>1. stage = "passing" => ~ResponseForbids
      BY DEF Inv, PassInv, ResponseForbids
    <2>2. stage = "bypassed" => ResponseForbids \/ ~registered
      BY DEF Inv, BypassInv
    <2>3. ASSUME stage = "passing"
          PROVE  /\ Remaining \in Int
                 /\ Remaining = IF valid_sec = 0 THEN conf.default_expire
                                ELSE valid_sec - now
      <3>1. /\ now \in Nat \ {0} /\ since \in Nat
            /\ expires \in Nat \cup {Absent}
            /\ cache_control \in Seq(ResponseHeaders)
            /\ conf.default_expire \in Nat
        BY DEF Inv, Typed, ConfRecords
      <3>2. CASE ~conf.resp_cache_control
        <4>1. valid_sec = 0 /\ Remaining = conf.default_expire
          BY <2>3, <3>2 DEF Inv, PassInv, Remaining
        <4> QED
          BY <3>1, <4>1
      <3>3. ASSUME conf.resp_cache_control
            PROVE  /\ ~ResponseForbids
                   /\ SaysAge => Lifetime
                   /\ SaysNothing => IF expires = Absent THEN valid_sec = 0
                                     ELSE valid_sec = expires /\ expires > 0
        BY <2>3, <3>3 DEF Inv, PassInv
      <3>4. CASE conf.resp_cache_control /\ SaysAge
        <4> DEFINE written == Written(FirstAged)
        <4>1. written \in Nat /\ written > 0
          BY <3>1, <3>4, FirstAgedTyped, ReadAsWritten DEF SaysAge
        <4>2. valid_sec = since + written /\ Remaining = written - (now - since)
          BY <3>3, <3>4 DEF Lifetime, Remaining
        <4> HIDE DEF written
        <4> QED
          BY <3>1, <4>1, <4>2
      <3>5. CASE conf.resp_cache_control /\ SaysNothing
        <4>1. ~SaysAge
          BY <3>5 DEF SaysAge, SaysNothing
        <4>2. CASE expires = Absent
          <5>1. valid_sec = 0 /\ Remaining = conf.default_expire
            BY <3>3, <3>5, <4>1, <4>2 DEF Remaining
          <5> QED
            BY <3>1, <5>1
        <4>3. CASE expires # Absent
          <5>1. /\ expires \in Nat \ {0} /\ valid_sec = expires
                /\ Remaining = expires - now
            BY <3>1, <3>3, <3>5, <4>1, <4>3 DEF Remaining
          <5> QED
            BY <3>1, <5>1
        <4> QED
          BY <4>2, <4>3
      <3>6. conf.resp_cache_control => SaysAge \/ SaysNothing
        BY <3>3 DEF SaysDead, SaysNothing, ResponseForbids
      <3> QED
        BY <3>2, <3>4, <3>5, <3>6
    <2> QED
      BY <2>1, <2>2, <2>3, ExpireIsRight DEF ControlIsHonoured
  <1> QED
    BY <1>1, Invariance, PTL
=============================================================================

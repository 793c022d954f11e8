------------------------- MODULE SrcacheStoreProofs -------------------------
(***************************************************************************)
(* Proofs about SrcacheStore, for every set of locations and responses, of *)
(* any length: what is stored is whole, allowed, of the announced length   *)
(* and dies in time, and the client notices nothing of it.                 *)
(***************************************************************************)
EXTENDS SrcacheStore, TLAPS, WellFoundedInduction

(* As Ctxs; that a lifetime is no less than 0 is not needed.                *)
CtxRecords ==
    [store_response : BOOLEAN, store_skip : BOOLEAN, http_status : Nat,
     valid_sec : Int, response_length : Nat, response_body_length : Nat,
     header_status : Nat, body_to_cache : Seq(Nat)]

Typed ==
    /\ conf \in StoreConfs /\ resp \in ResponseRecords
    /\ stage \in {"header", "body", "last", "closed"}
    /\ status \in Nat /\ content_length_n \in Nat \cup {Absent}
    /\ ctx \in CtxRecords
    /\ sent \in 0..Len(resp.pieces) /\ stores \in Seq(Subrequests)
    /\ header_at \in Nat /\ now \in Nat /\ header_at <= now

(* The copy will be dropped at the end: the status is an error that was not *)
(* there when the header was taken.                                         *)
Doomed == status >= 300 /\ ctx.http_status \notin {status, 502}

(* What the header filter has found out still holds.                        *)
Admitted ==
    /\ ~NotOurs
    /\ conf.resp_cache_control =>
           /\ \A i \in 1..Len(resp.cache_control) :
                  ~Forbids(resp.cache_control[i])
           /\ Ages(resp.cache_control) # {} => ctx.valid_sec # 0

Listed(s) ==
    \/ s \in conf.statuses
    \/ s = 206 /\ conf.store_ranges /\ 200 \in conf.statuses

StatusFits ==
    /\ ctx.header_status = ctx.http_status /\ Listed(ctx.http_status)
    /\ status = ctx.http_status \/ CutDown
    /\ \/ ctx.http_status = resp.status
       \/ ctx.http_status = 206 /\ resp.status = 200

(* The copy has what has passed, and the counters say so.                   *)
Passed == SubSeq(resp.pieces, 1, sent)

CopyFits ==
    /\ ctx.body_to_cache = <<HeaderSize>> \o Passed
    /\ ctx.response_body_length = Total(Passed)
    /\ \/ ctx.response_length = Total(ctx.body_to_cache)
       \/ /\ status = 416
          /\ ctx.response_length = Total(ctx.body_to_cache) + HeaderSize

CopyInv ==
    stage = "body" /\ Storing => Doomed \/ (Admitted /\ StatusFits /\ CopyFits)

(* The header filter may run twice, the second time for another page.       *)
HeaderInv ==
    stage = "header" => sent = 0 /\ status = resp.status /\ (Storing => Doomed)

(* The counters before the first piece.                                     *)
StartInv ==
    sent = 0 /\ stage \in {"header", "body"} =>
        /\ ctx.response_body_length = 0
        /\ stage = "header" \/ status = 200 =>
               \/ ctx.response_length = 0
               \/ /\ ctx.response_length = HeaderSize
                  /\ stage = "header" => status = 416

SkipInv ==
    /\ ctx.store_skip => resp.skip = "always"
    /\ ctx.store_response => resp.skip # "always"

LifeInv ==
    conf.resp_cache_control /\ Ages(resp.cache_control) # {} =>
        ctx.valid_sec <= header_at + FirstAge(resp.cache_control)

StoresInv == stage \in {"header", "body"} => stores = <<>>

(* What resumes the ctx of a store subrequest is there from the beginning.  *)
Captive ==
    \A i \in 1..Len(stores) : stores[i].post_subrequest = "srcache"

(* The properties that speak of what has been stored.                       *)
StoredInv ==
    StoredIsWhole /\ StoredLengthIsRight /\ NothingForbiddenIsStored
    /\ EntryDiesInTime

Inv ==
    /\ Typed /\ CopyInv /\ HeaderInv /\ StartInv /\ SkipInv /\ LifeInv
    /\ StoresInv /\ Captive /\ StoredInv
    /\ ClientGetsTheResponse /\ StatusTellsOfTheStore
-----------------------------------------------------------------------------
(* Total, without an induction rule: a least counterexample does.           *)

LEMMA LeastNumber ==
    ASSUME NEW T, T \subseteq Nat, T # {}
    PROVE  \E n \in T : \A k \in T : n <= k
<1> DEFINE R == OpToRel(<, Nat)
<1>1. IsWellFoundedOn(R, Nat) BY NatLessThanWellFounded
<1>2. \A i, j \in Nat : <<i, j>> \in R <=> i < j BY DEF OpToRel
<1> HIDE DEF R
<1>3. PICK n \in T : \A k \in T : <<k, n>> \notin R BY <1>1, WFMin
<1>4. ASSUME NEW k \in T PROVE n <= k
  <2>1. k \in Nat /\ n \in Nat /\ ~(k < n) BY <1>2, <1>3
  <2> QED BY <2>1
<1> QED BY <1>4

IsSum(sum, s) ==
    sum = [n \in 0..Len(s) |-> IF n = 0 THEN 0 ELSE sum[n - 1] + s[n]]

(* A function that adds up the first n pieces.                              *)
AddsUp(f, s, n) ==
    /\ f \in [0..n -> Nat] /\ f[0] = 0
    /\ \A i \in 1..n : f[i] = f[i - 1] + s[i]

LEMMA SumExists ==
    ASSUME NEW s \in Seq(Nat)
    PROVE  \E sum : IsSum(sum, s) /\ AddsUp(sum, s, Len(s))
<1> DEFINE T == {n \in 0..Len(s) : ~ \E f : AddsUp(f, s, n)}
<1>1. ASSUME T # {} PROVE FALSE
  <2>1. T \subseteq Nat OBVIOUS
  <2>2. PICK m \in T : \A k \in T : m <= k BY <1>1, <2>1, LeastNumber
  <2>3. m # 0
    <3>1. AddsUp([i \in 0..0 |-> 0], s, 0) BY DEF AddsUp
    <3> QED BY <3>1
  <2>4. m - 1 \in 0..Len(s) /\ ~(m <= m - 1) BY <2>2, <2>3
  <2>5. PICK f : AddsUp(f, s, m - 1)
    <3>1. m - 1 \notin T BY <2>2, <2>4
    <3> QED BY <2>4, <3>1
  <2>6. m \in 1..Len(s) /\ s[m] \in Nat BY <2>3
  <2> DEFINE g == [i \in 0..m |-> IF i = m THEN f[m - 1] + s[m] ELSE f[i]]
  <2>7. /\ f \in [0..m - 1 -> Nat] /\ f[0] = 0
        /\ \A i \in 1..m - 1 : f[i] = f[i - 1] + s[i]
    BY <2>5 DEF AddsUp
  <2>8. g \in [0..m -> Nat] /\ g[0] = 0 BY <2>6, <2>7
  <2>9. ASSUME NEW i \in 1..m PROVE g[i] = g[i - 1] + s[i]
    <3>1. i - 1 \in 0..m /\ i \in 0..m /\ i - 1 # m BY <2>6
    <3>2. g[i - 1] = f[i - 1] BY <3>1
    <3>3. CASE i = m BY <3>1, <3>2, <3>3
    <3>4. CASE i # m
      <4>1. i \in 1..m - 1 /\ g[i] = f[i] BY <2>6, <3>1, <3>4
      <4> QED BY <2>7, <3>2, <4>1
    <3> QED BY <3>3, <3>4
  <2>10. AddsUp(g, s, m) BY <2>8, <2>9 DEF AddsUp
  <2> QED BY <2>2, <2>10
<1>2. \A n \in 0..Len(s) : \E f : AddsUp(f, s, n) BY <1>1
<1>3. PICK f : AddsUp(f, s, Len(s)) BY <1>2
<1>4. IsSum(f, s) BY <1>3 DEF AddsUp, IsSum
<1> QED BY <1>3, <1>4

LEMMA SumAddsUp ==
    ASSUME NEW s \in Seq(Nat), NEW sum, IsSum(sum, s)
    PROVE  AddsUp(sum, s, Len(s))
<1>1. PICK f : IsSum(f, s) /\ AddsUp(f, s, Len(s)) BY SumExists
<1> DEFINE T == {n \in 0..Len(s) : sum[n] # f[n]}
<1>2. ASSUME T # {} PROVE FALSE
  <2>1. T \subseteq Nat OBVIOUS
  <2>2. PICK m \in T : \A k \in T : m <= k BY <1>2, <2>1, LeastNumber
  <2>3. m # 0 BY <1>1 DEF IsSum
  <2>4. m - 1 \in 0..Len(s) /\ ~(m <= m - 1) BY <2>2, <2>3
  <2>5. sum[m - 1] = f[m - 1] BY <2>2, <2>4
  <2>6. m \in 1..Len(s) BY <2>3
  <2>7. sum[m] = sum[m - 1] + s[m] /\ f[m] = f[m - 1] + s[m]
    BY <1>1, <2>6 DEF IsSum
  <2> QED BY <2>2, <2>5, <2>7
<1>3. \A n \in 0..Len(s) : sum[n] = f[n] BY <1>2
<1>4. sum = f BY <1>1, <1>3 DEF IsSum
<1> QED BY <1>1, <1>4

LEMMA TotalIsASum ==
    ASSUME NEW s \in Seq(Nat)
    PROVE  \E sum : AddsUp(sum, s, Len(s)) /\ Total(s) = sum[Len(s)]
<1> DEFINE sum == CHOOSE sum : IsSum(sum, s)
<1>1. IsSum(sum, s) BY SumExists
<1>2. Total(s) = sum[Len(s)] BY DEF Total, IsSum
<1>3. AddsUp(sum, s, Len(s)) BY <1>1, SumAddsUp
<1> QED BY <1>2, <1>3

(* How Total is calculated with.                                            *)
LEMMA TotalIsNat == ASSUME NEW s \in Seq(Nat) PROVE Total(s) \in Nat
BY TotalIsASum DEF AddsUp

LEMMA TotalOfNone == Total(<<>>) = 0
<1>1. <<>> \in Seq(Nat) /\ Len(<<>>) = 0 OBVIOUS
<1> QED BY <1>1, TotalIsASum DEF AddsUp

LEMMA TotalOfAppend ==
    ASSUME NEW s \in Seq(Nat), NEW size \in Nat
    PROVE  Total(Append(s, size)) = Total(s) + size
<1> DEFINE t == Append(s, size)
           n == Len(s)
<1>1. /\ t \in Seq(Nat) /\ Len(t) = n + 1 /\ t[n + 1] = size /\ n \in Nat
      /\ \A i \in 1..n : t[i] = s[i]
  OBVIOUS
<1>2. PICK f : AddsUp(f, s, n) /\ Total(s) = f[n] BY TotalIsASum
<1> HIDE DEF t
<1>3. PICK g : AddsUp(g, t, n + 1) /\ Total(t) = g[n + 1] BY <1>1, TotalIsASum
<1> HIDE DEF n
<1> DEFINE T == {i \in 0..n : f[i] # g[i]}
<1>4. ASSUME T # {} PROVE FALSE
  <2>1. T \subseteq Nat BY <1>1
  <2>2. PICK m \in T : \A k \in T : m <= k BY <1>4, <2>1, LeastNumber
  <2>3. m # 0 BY <1>2, <1>3 DEF AddsUp
  <2>4. m - 1 \in 0..n /\ ~(m <= m - 1) BY <1>1, <2>2, <2>3
  <2>5. f[m - 1] = g[m - 1] BY <2>2, <2>4
  <2>6. m \in 1..n /\ m \in 1..(n + 1) BY <1>1, <2>3
  <2>7. f[m] = f[m - 1] + s[m] /\ g[m] = g[m - 1] + t[m]
    BY <1>2, <1>3, <2>6 DEF AddsUp
  <2> QED BY <1>1, <2>2, <2>5, <2>6, <2>7
<1>5. f[n] = g[n] BY <1>1, <1>4
<1>6. g[n + 1] = g[n] + t[n + 1] BY <1>1, <1>3 DEF AddsUp
<1> QED BY <1>1, <1>2, <1>3, <1>5, <1>6 DEF t

-----------------------------------------------------------------------------
(* What the proofs need of the model's operators.                           *)

LEMMA RespTyped ==
    ASSUME Typed
    PROVE  /\ resp.pieces \in Seq(Nat) /\ resp.pieces \in Seq(Nat \ {0})
           /\ resp.status \in Nat
           /\ resp.cache_control \in Seq(CacheControls)
           /\ resp.expires \in Int
BY DEF Typed, ResponseRecords, Absent, Garbage

LEMMA PiecesTyped ==
    ASSUME NEW p \in ResponseRecords PROVE p.pieces \in Seq(Nat)
<1>1. p.pieces \in Seq(Nat \ {0}) BY DEF ResponseRecords
<1> QED BY <1>1

(* The first positive max-age is a number.                                  *)
LEMMA FirstAgeIsPositive ==
    ASSUME Typed, Ages(resp.cache_control) # {}
    PROVE  FirstAge(resp.cache_control) \in Nat \ {0}
<1> DEFINE cc == resp.cache_control
<1>1. cc \in Seq(CacheControls) BY RespTyped
<1> HIDE DEF cc
<1>2. Ages(cc) \subseteq Nat BY <1>1 DEF Ages
<1>3. \E i \in Ages(cc) : \A j \in Ages(cc) : i <= j
  BY <1>2, LeastNumber DEF cc
<1> DEFINE i == CHOOSE i \in Ages(cc) : \A j \in Ages(cc) : i <= j
<1>4. i \in Ages(cc) BY <1>3
<1>5. ASSUME NEW k \in Ages(cc) PROVE cc[k].max_age \in Nat \ {0}
  <2>1. k \in 1..Len(cc) /\ cc[k].max_age > 0 BY DEF Ages
  <2>2. cc[k] \in CacheControls BY <1>1, <2>1
  <2>3. cc[k].max_age \in Nat \cup {-1, -2}
    BY <2>2 DEF CacheControls, Absent, Garbage
  <2> QED BY <2>1, <2>3
<1>6. FirstAge(cc) = cc[i].max_age BY DEF FirstAge, cc
<1> QED BY <1>4, <1>5, <1>6 DEF cc

(* The lifetime that the header filter notes.                               *)
LEMMA ValidSecIsRight ==
    ASSUME Typed, LifeInv, Considered
    PROVE  /\ ValidSec \in Int
           /\ conf.resp_cache_control /\ Ages(resp.cache_control) # {} =>
                  /\ ValidSec # 0
                  /\ ValidSec <= now + FirstAge(resp.cache_control)
<1>1. /\ ctx.valid_sec \in Int /\ now \in Nat /\ header_at \in Nat
      /\ header_at <= now /\ resp.expires \in Int
  BY RespTyped DEF Typed, CtxRecords
<1>2. CASE Ages(resp.cache_control) # {}
  <2>1. FirstAge(resp.cache_control) \in Nat \ {0}
    BY <1>2, FirstAgeIsPositive
  <2> QED BY <1>1, <1>2, <2>1 DEF ValidSec, LifeInv
<1>3. CASE Ages(resp.cache_control) = {}
  BY <1>1, <1>3 DEF ValidSec
<1> QED BY <1>2, <1>3

LEMMA LifeStays ==
    ASSUME LifeInv, UNCHANGED <<conf, header_at>>,
           resp'.cache_control = resp.cache_control,
           ctx'.valid_sec = ctx.valid_sec
    PROVE  LifeInv'
<1>1. /\ Ages(resp.cache_control)' = Ages(resp.cache_control)
      /\ FirstAge(resp.cache_control)' = FirstAge(resp.cache_control)
  BY DEF Ages, FirstAge
<1> QED BY <1>1 DEF LifeInv

(* The length of a response that says it.                                   *)
LEMMA DeclaredLengthTyped ==
    ASSUME NEW p \in ResponseRecords
    PROVE  DeclaredLength(p) \in Nat \cup {Absent}
<1>1. p.pieces \in Seq(Nat) BY DEF ResponseRecords
<1> QED BY <1>1, TotalIsNat DEF DeclaredLength

LEMMA Initially == Init => Inv
<1> SUFFICES ASSUME Init PROVE Inv OBVIOUS
<1>1. Typed
  <2>1. resp \in ResponseRecords /\ conf \in StoreConfs
    BY ConfsAssumption, ResponsesAssumption DEF Init
  <2>2. resp.status \in Nat /\ Len(resp.pieces) \in Nat
    BY <2>1 DEF ResponseRecords
  <2>3. content_length_n \in Nat \cup {Absent}
    BY <2>1, DeclaredLengthTyped DEF Init
  <2> QED BY <2>1, <2>2, <2>3 DEF Init, Typed, FreshCtx, CtxRecords
<1>2. LifeInv
  BY <1>1, FirstAgeIsPositive DEF Init, LifeInv, FreshCtx
<1>3. client = SubSeq(resp.pieces, 1, sent) /\ ~leaked
  BY <1>1, RespTyped DEF Init
<1> QED
  BY <1>1, <1>2, <1>3
  DEF Init, Inv, CopyInv, HeaderInv, StartInv, SkipInv, StoresInv, StoredInv,
      StoredIsWhole, StoredLengthIsRight, NothingForbiddenIsStored,
      EntryDiesInTime, ClientGetsTheResponse, StatusTellsOfTheStore,
      Copies, Captive, Storing, FreshCtx

-----------------------------------------------------------------------------
(* The header filter.                                                       *)

LEMMA NothingStored ==
    ASSUME stores' = <<>>, stage' # "last"
    PROVE  /\ StoresInv' /\ Captive' /\ StoredInv'
           /\ StatusTellsOfTheStore'
BY DEF StoresInv, Captive, StoredInv, StoredIsWhole, StoredLengthIsRight,
       NothingForbiddenIsStored, EntryDiesInTime, StatusTellsOfTheStore,
       Copies

(* What the header filter has to see to when it passes the header on.       *)
LEMMA PassHeaderKeeps ==
    ASSUME Inv, NEW c \in CtxRecords, PassHeader(c),
           CopyInv',
           c.store_skip => resp.skip = "always",
           c.store_response => resp.skip # "always",
           c.response_body_length = 0,
           status = 200 => c.response_length \in {0, HeaderSize},
           conf.resp_cache_control /\ Ages(resp.cache_control) # {} =>
               c.valid_sec <= now + FirstAge(resp.cache_control)
    PROVE  Inv'
<1> USE DEF PassHeader
<1>1. Typed' BY DEF Inv, Typed
<1>2. stores' = <<>> BY DEF Inv, StoresInv
<1>3. LifeInv' BY DEF LifeInv, Ages, FirstAge
<1>4. ClientGetsTheResponse' BY DEF Inv, ClientGetsTheResponse
<1>5. HeaderInv' /\ StartInv' /\ SkipInv'
  BY DEF HeaderInv, StartInv, SkipInv
<1> QED BY <1>1, <1>2, <1>3, <1>4, <1>5, NothingStored DEF Inv

(* What it finds when it begins.                                            *)
LEMMA HeaderBegins ==
    ASSUME Inv, stage = "header"
    PROVE  /\ sent = 0 /\ status = resp.status
           /\ ctx \in CtxRecords /\ now \in Nat /\ header_at \in Nat
           /\ header_at <= now
           /\ ctx.response_body_length = 0
           /\ \/ ctx.response_length = 0
              \/ ctx.response_length = HeaderSize /\ status = 416
           /\ Storing => Doomed
           /\ conf.resp_cache_control /\ Ages(resp.cache_control) # {} =>
                  ctx.valid_sec <= now + FirstAge(resp.cache_control)
<1>1. Typed BY DEF Inv
<1>2. conf.resp_cache_control /\ Ages(resp.cache_control) # {} =>
          ctx.valid_sec <= now + FirstAge(resp.cache_control)
  <2> SUFFICES ASSUME conf.resp_cache_control, Ages(resp.cache_control) # {}
               PROVE  ctx.valid_sec <= now + FirstAge(resp.cache_control)
    OBVIOUS
  <2>1. FirstAge(resp.cache_control) \in Nat BY <1>1, FirstAgeIsPositive
  <2>2. ctx.valid_sec \in Int /\ now \in Nat /\ header_at \in Nat
        /\ header_at <= now
    BY <1>1 DEF Typed, CtxRecords
  <2> QED BY <2>1, <2>2 DEF Inv, LifeInv
<1> QED BY <1>1, <1>2 DEF Inv, Typed, HeaderInv, StartInv

LEMMA HeaderBypassKeeps == ASSUME Inv, HeaderBypass PROVE Inv'
<1>1. stage = "header" /\ PassHeader(ctx) BY DEF HeaderBypass, PassHeader
<1>2. CopyInv'
  BY <1>1, HeaderBegins DEF PassHeader, CopyInv, Storing, Doomed
<1> QED
  BY <1>1, <1>2, HeaderBegins, PassHeaderKeeps DEF Inv, SkipInv

LEMMA HeaderSkipKeeps == ASSUME Inv, HeaderSkip PROVE Inv'
<1> DEFINE c == [ctx EXCEPT !.valid_sec = ValidSec, !.store_skip = TRUE]
<1>1. stage = "header" /\ PassHeader(c) BY DEF HeaderSkip, PassHeader
<1>2. ValidSec \in Int
      /\ (conf.resp_cache_control /\ Ages(resp.cache_control) # {} =>
             ValidSec <= now + FirstAge(resp.cache_control))
  BY ValidSecIsRight DEF Inv, HeaderSkip
<1>3. ctx \in CtxRecords BY <1>1, HeaderBegins
<1>4. /\ c \in CtxRecords /\ c.valid_sec = ValidSec /\ c.store_skip
      /\ c.store_response = ctx.store_response
      /\ c.response_length = ctx.response_length
      /\ c.response_body_length = ctx.response_body_length
  BY <1>2, <1>3 DEF CtxRecords
<1> HIDE DEF c
<1>5. CopyInv' BY <1>1, <1>4 DEF PassHeader, CopyInv, Storing
<1>6. resp.skip = "always" /\ ~ctx.store_response
  BY DEF HeaderSkip, Inv, SkipInv
<1> QED
  BY <1>1, <1>2, <1>4, <1>5, <1>6, HeaderBegins, PassHeaderKeeps

LEMMA HeaderRefuseKeeps == ASSUME Inv, HeaderRefuse PROVE Inv'
<1> DEFINE c == [ctx EXCEPT !.valid_sec = ValidSec]
<1>1. stage = "header" /\ PassHeader(c) BY DEF HeaderRefuse, PassHeader
<1>2. ValidSec \in Int
      /\ (conf.resp_cache_control /\ Ages(resp.cache_control) # {} =>
             ValidSec <= now + FirstAge(resp.cache_control))
  BY ValidSecIsRight DEF Inv, HeaderRefuse
<1>3. ctx \in CtxRecords BY <1>1, HeaderBegins
<1>4. /\ c \in CtxRecords /\ c.valid_sec = ValidSec
      /\ c.store_skip = ctx.store_skip /\ c.http_status = ctx.http_status
      /\ c.store_response = ctx.store_response
      /\ c.response_length = ctx.response_length
      /\ c.response_body_length = ctx.response_body_length
  BY <1>2, <1>3 DEF CtxRecords
<1> HIDE DEF c
<1>5. CopyInv'
  BY <1>1, <1>4, HeaderBegins DEF PassHeader, CopyInv, Storing, Doomed
<1> QED
  BY <1>1, <1>2, <1>4, <1>5, HeaderBegins, PassHeaderKeeps DEF Inv, SkipInv

LEMMA HeaderStoreKeeps == ASSUME Inv, HeaderStore PROVE Inv'
<1> DEFINE c == [ctx EXCEPT !.valid_sec = ValidSec,
                            !.store_response = TRUE,
                            !.http_status = status,
                            !.header_status = status,
                            !.body_to_cache = SerializedHeader,
                            !.response_length = @ + HeaderSize]
<1>1. stage = "header" /\ PassHeader(c) BY DEF HeaderStore, PassHeader
<1>2. /\ Considered /\ resp.skip # "always" /\ ~ctx.store_skip
      /\ status \in conf.statuses
  BY DEF HeaderStore, Inv, SkipInv, Refused
<1>3. ValidSec \in Int
      /\ (conf.resp_cache_control /\ Ages(resp.cache_control) # {} =>
             ValidSec # 0 /\ ValidSec <= now + FirstAge(resp.cache_control))
  BY <1>2, ValidSecIsRight DEF Inv
<1>4. ctx \in CtxRecords /\ status \in Nat /\ HeaderSize \in Nat
  BY <1>1, HeaderBegins, SizesAssumption DEF Inv, Typed
<1>5. /\ c \in CtxRecords /\ c.valid_sec = ValidSec /\ c.store_response
      /\ c.http_status = status /\ c.header_status = status
      /\ c.body_to_cache = <<HeaderSize>> /\ ~c.store_skip
      /\ c.response_length = ctx.response_length + HeaderSize
      /\ c.response_body_length = ctx.response_body_length
  <2>1. SerializedHeader \in Seq(Nat) BY <1>4 DEF SerializedHeader
  <2>2. ctx.response_length + HeaderSize \in Nat BY <1>4 DEF CtxRecords
  <2>3. c \in CtxRecords BY <1>3, <1>4, <2>1, <2>2 DEF CtxRecords
  <2>4. /\ c.valid_sec = ValidSec /\ c.store_response = TRUE
        /\ c.http_status = status /\ c.header_status = status
        /\ c.body_to_cache = SerializedHeader
        /\ c.store_skip = ctx.store_skip
        /\ c.response_length = ctx.response_length + HeaderSize
        /\ c.response_body_length = ctx.response_body_length
    BY <1>4 DEF CtxRecords
  <2> QED BY <1>2, <2>3, <2>4 DEF SerializedHeader
<1> HIDE DEF c
<1>6. ctx' = c /\ UNCHANGED <<conf, resp, status, content_length_n, sent>>
  BY <1>1 DEF PassHeader
<1>7. Admitted'
  <2>1. ~NotOurs /\ (conf.resp_cache_control => ~NoCache)
    BY <1>2 DEF Considered, Forbidden
  <2>2. ~NotOurs' BY <1>6, <2>1 DEF NotOurs
  <2>3. conf.resp_cache_control =>
            \A i \in 1..Len(resp.cache_control) : ~Forbids(resp.cache_control[i])
    BY <2>1 DEF NoCache
  <2> QED BY <1>3, <1>5, <1>6, <2>2, <2>3 DEF Admitted, Forbids, Ages
<1>8. StatusFits' BY <1>1, <1>2, <1>5, <1>6, HeaderBegins DEF StatusFits, Listed
<1>9. CopyFits'
  <2>1. Passed' = <<>> /\ <<HeaderSize>> = Append(<<>>, HeaderSize)
    BY <1>1, <1>6, HeaderBegins, RespTyped DEF Passed, Inv
  <2>2. Total(<<HeaderSize>>) = HeaderSize
    <3>1. <<>> \in Seq(Nat) OBVIOUS
    <3>2. Total(Append(<<>>, HeaderSize)) = Total(<<>>) + HeaderSize
      BY <1>4, <3>1, TotalOfAppend
    <3> QED BY <1>4, <2>1, <3>2, TotalOfNone
  <2>3. <<HeaderSize>> \o <<>> = <<HeaderSize>> BY <1>4
  <2> QED
    BY <1>1, <1>4, <1>5, <1>6, <2>1, <2>2, <2>3, TotalOfNone, HeaderBegins
    DEF CopyFits
<1>10. CopyInv' BY <1>7, <1>8, <1>9 DEF CopyInv
<1>11. status = 200 => c.response_length \in {0, HeaderSize}
  BY <1>1, <1>4, <1>5, HeaderBegins
<1> QED
  BY <1>1, <1>2, <1>3, <1>5, <1>10, <1>11, HeaderBegins, PassHeaderKeeps

LEMMA HeaderNoMemoryKeeps == ASSUME Inv, HeaderNoMemory PROVE Inv'
<1>1. /\ stage = "header" /\ stage' = "closed" /\ header_at' = now
      /\ UNCHANGED <<conf, resp, status, content_length_n, sent, client, stores,
                     leaked, now>>
  BY DEF HeaderNoMemory
<1>2. ValidSec \in Int
      /\ (conf.resp_cache_control /\ Ages(resp.cache_control) # {} =>
             ValidSec <= now + FirstAge(resp.cache_control))
  BY ValidSecIsRight DEF Inv, HeaderNoMemory
<1>3. ctx \in CtxRecords /\ status \in Nat BY DEF Inv, Typed
<1>4. /\ ctx' \in CtxRecords /\ ctx'.valid_sec = ValidSec
      /\ ctx'.store_skip = ctx.store_skip
  BY <1>2, <1>3 DEF HeaderNoMemory, CtxRecords
<1>5. Typed' BY <1>1, <1>4 DEF Inv, Typed
<1>6. SkipInv' BY <1>1, <1>4 DEF HeaderNoMemory, Inv, SkipInv
<1>7. LifeInv' BY <1>1, <1>2, <1>4 DEF LifeInv, Ages, FirstAge
<1>8. stores' = <<>> BY <1>1 DEF Inv, StoresInv
<1>9. ClientGetsTheResponse' BY <1>1 DEF Inv, ClientGetsTheResponse
<1> QED
  BY <1>1, <1>5, <1>6, <1>7, <1>8, <1>9, NothingStored
  DEF Inv, CopyInv, HeaderInv, StartInv

-----------------------------------------------------------------------------
(* Filters and events between the header and the body.                      *)

(* A copy that is not to be dropped, while the status is no error.          *)
LEMMA NotDoomedYet ==
    ASSUME Inv, stage = "body", Storing, status = 200
    PROVE  /\ Admitted /\ StatusFits /\ CopyFits
           /\ ctx.http_status = 200 /\ resp.status = 200
<1>1. Admitted /\ StatusFits /\ CopyFits BY DEF Inv, CopyInv, Doomed
<1>2. ctx.http_status = 200 BY <1>1 DEF StatusFits, CutDown
<1> QED BY <1>1, <1>2 DEF StatusFits

LEMMA RangeFilterKeeps == ASSUME Inv, RangeFilter PROVE Inv'
<1>1. /\ stage = "body" /\ stage' = "body" /\ sent = 0 /\ sent' = 0
      /\ status = 200 /\ status' = 206 /\ resp.pieces # <<>>
      /\ content_length_n' = Total(resp'.pieces)
      /\ UNCHANGED <<conf, ctx, client, stores, leaked, header_at, now>>
  BY DEF RangeFilter, UnchangedByNginx
<1>2. Typed BY DEF Inv
<1>3. Tail(resp.pieces) \in Seq(Nat \ {0}) BY <1>1, <1>2, RespTyped
<1>4. /\ resp' \in ResponseRecords /\ resp'.pieces = Tail(resp.pieces)
      /\ resp'.status = resp.status /\ resp'.encoded = resp.encoded
      /\ resp'.cache_control = resp.cache_control /\ resp'.skip = resp.skip
  <2>1. resp' = [resp EXCEPT !.pieces = Tail(resp.pieces), !.ranges = FALSE,
                             !.declared = TRUE]
    BY DEF RangeFilter
  <2> QED BY <1>2, <1>3, <2>1 DEF Typed, ResponseRecords
<1>5. resp'.pieces \in Seq(Nat) BY <1>4, PiecesTyped
<1>6. Typed'
  <2>1. Total(resp'.pieces) \in Nat BY <1>5, TotalIsNat
  <2> QED BY <1>1, <1>2, <1>4, <1>5, <2>1 DEF Typed
<1>7. Passed = <<>> /\ Passed' = <<>>
  <2>1. resp.pieces \in Seq(Nat) BY <1>2, RespTyped
  <2> QED BY <1>1, <1>5, <2>1 DEF Passed
<1>8. CopyInv'
  <2> SUFFICES ASSUME Storing PROVE Admitted' /\ StatusFits' /\ CopyFits'
    BY <1>1 DEF CopyInv, Storing
  <2>1. /\ Admitted /\ StatusFits /\ CopyFits
        /\ ctx.http_status = 200 /\ resp.status = 200
    BY <1>1, NotDoomedYet
  <2>2. Admitted'
    BY <1>1, <1>4, <2>1 DEF Admitted, NotOurs, Forbids, Ages
  <2>3. StatusFits'
    BY <1>1, <1>4, <2>1 DEF StatusFits, CutDown, Listed
  <2>4. CopyFits' BY <1>1, <1>7, <2>1 DEF CopyFits
  <2> QED BY <2>2, <2>3, <2>4
<1>9. HeaderInv' /\ StartInv' /\ SkipInv' /\ LifeInv'
  <2>1. HeaderInv' /\ StartInv' /\ SkipInv'
    BY <1>1, <1>4 DEF Inv, HeaderInv, StartInv, SkipInv
  <2>2. LifeInv' BY <1>1, <1>4, LifeStays DEF Inv
  <2> QED BY <2>1, <2>2
<1>10. ClientGetsTheResponse'
  BY <1>1, <1>7 DEF Inv, ClientGetsTheResponse, Passed
<1>11. stores' = <<>> BY <1>1 DEF Inv, StoresInv
<1> QED BY <1>1, <1>6, <1>8, <1>9, <1>10, <1>11, NothingStored DEF Inv

LEMMA RangeRefusedKeeps == ASSUME Inv, RangeRefused PROVE Inv'
<1>1. /\ stage = "body" /\ stage' = "header" /\ sent = 0 /\ sent' = 0
      /\ status = 200 /\ status' = 416
      /\ content_length_n' = DeclaredLength(ErrorPage)
      /\ UNCHANGED <<conf, ctx, client, stores, leaked, header_at, now>>
  BY ErrorPageAssumption DEF RangeRefused, UnchangedByNginx
<1>2. Typed BY DEF Inv
<1>3. ErrorPage \in ResponseRecords BY ResponsesAssumption
<1>4. /\ resp' \in ResponseRecords /\ resp'.status = 416
      /\ resp'.cache_control = resp.cache_control /\ resp'.skip = resp.skip
  <2>1. /\ resp.cache_control \in Seq(CacheControls)
        /\ resp.expires \in Nat \cup {Absent, Garbage}
        /\ resp.skip \in {"never", "always", "at_end"}
    BY <1>2 DEF Typed, ResponseRecords
  <2>2. resp' = [ErrorPage EXCEPT !.cache_control = resp.cache_control,
                                  !.expires = resp.expires, !.skip = resp.skip]
    BY DEF RangeRefused
  <2>3. resp' \in ResponseRecords BY <1>3, <2>1, <2>2 DEF ResponseRecords
  <2>4. /\ resp'.status = 416
        /\ resp'.cache_control = resp.cache_control /\ resp'.skip = resp.skip
    BY <1>3, <2>2, ErrorPageAssumption DEF ResponseRecords
  <2> QED BY <2>3, <2>4
<1>5. resp.pieces \in Seq(Nat) /\ resp'.pieces \in Seq(Nat)
  BY <1>2, <1>4, RespTyped, PiecesTyped
<1>6. Typed'
  BY <1>1, <1>2, <1>3, <1>4, <1>5, DeclaredLengthTyped DEF Typed
<1>7. HeaderInv'
  <2>1. Storing => ctx.http_status = 200 BY <1>1, NotDoomedYet
  <2> QED BY <1>1, <1>4, <2>1 DEF HeaderInv, Storing, Doomed
<1>8. StartInv' /\ SkipInv' /\ LifeInv' /\ CopyInv'
  <2>1. StartInv' BY <1>1 DEF Inv, StartInv
  <2>2. SkipInv' BY <1>1, <1>4 DEF Inv, SkipInv
  <2>3. LifeInv' BY <1>1, <1>4, LifeStays DEF Inv
  <2>4. CopyInv' BY <1>1 DEF CopyInv
  <2> QED BY <2>1, <2>2, <2>3, <2>4
<1>9. ClientGetsTheResponse' BY <1>1, <1>5 DEF Inv, ClientGetsTheResponse
<1>10. stores' = <<>> BY <1>1 DEF Inv, StoresInv
<1> QED BY <1>1, <1>6, <1>7, <1>8, <1>9, <1>10, NothingStored DEF Inv

LEMMA UpstreamFailsKeeps == ASSUME Inv, UpstreamFails PROVE Inv'
<1>1. /\ stage = "body" /\ stage' = "body" /\ status # 502 /\ status' = 502
      /\ UNCHANGED <<conf, resp, content_length_n, ctx, sent, client, stores,
                     leaked, header_at, now>>
  BY DEF UpstreamFails, UnchangedByNginx
<1>2. Typed' BY <1>1 DEF Inv, Typed
<1>3. CopyInv'
  <2>1. Storing => ctx.http_status # 502
    BY <1>1 DEF Inv, CopyInv, Doomed, StatusFits, CutDown
  <2> QED BY <1>1, <2>1 DEF CopyInv, Storing, Doomed
<1>4. HeaderInv' /\ StartInv' /\ SkipInv'
  BY <1>1 DEF Inv, HeaderInv, StartInv, SkipInv
<1>5. LifeInv' BY <1>1, LifeStays DEF Inv
<1>6. ClientGetsTheResponse' BY <1>1 DEF Inv, ClientGetsTheResponse
<1>7. stores' = <<>> BY <1>1 DEF Inv, StoresInv
<1> QED BY <1>1, <1>2, <1>3, <1>4, <1>5, <1>6, <1>7, NothingStored DEF Inv

LEMMA AbortKeeps == ASSUME Inv, Abort PROVE Inv'
<1>1. /\ stage = "body" /\ stage' = "closed"
      /\ UNCHANGED <<conf, resp, status, content_length_n, ctx, sent, client,
                     stores, leaked, header_at, now>>
  BY DEF Abort, UnchangedByNginx
<1>2. Typed' BY <1>1 DEF Inv, Typed
<1>3. CopyInv' /\ HeaderInv' /\ StartInv' /\ SkipInv'
  BY <1>1 DEF Inv, CopyInv, HeaderInv, StartInv, SkipInv
<1>4. LifeInv' BY <1>1, LifeStays DEF Inv
<1>5. ClientGetsTheResponse' BY <1>1 DEF Inv, ClientGetsTheResponse
<1>6. stores' = <<>> BY <1>1 DEF Inv, StoresInv
<1> QED BY <1>1, <1>2, <1>3, <1>4, <1>5, <1>6, NothingStored DEF Inv

-----------------------------------------------------------------------------
(* The body filter.                                                         *)

Sizes == {0} \cup ToSet(resp.pieces)

(* What becomes of the buffer itself.                                       *)
LEMMA BufPasses ==
    ASSUME Inv, NEW size \in Sizes, NEW last \in BOOLEAN,
           NEW c \in CtxRecords, PassBuf(size, last, c)
    PROVE  /\ size \in Nat /\ resp.pieces \in Seq(Nat)
           /\ stage = "body" /\ stage' = (IF last THEN "last" ELSE "body")
           /\ ctx' = c /\ sent \in Nat
           /\ UNCHANGED <<conf, resp, status, content_length_n, leaked,
                          header_at, now>>
           /\ sent' \in 0..Len(resp.pieces)
           /\ \/ /\ size = 0 /\ last /\ sent' = sent /\ Passed' = Passed
              \/ /\ size # 0 /\ sent' = sent + 1
                 /\ Passed' = Append(Passed, size)
                 /\ last => sent' = Len(resp.pieces)
           /\ client' = Passed'
<1>1. /\ Typed /\ resp.pieces \in Seq(Nat) /\ resp.pieces \in Seq(Nat \ {0})
      /\ sent \in 0..Len(resp.pieces)
  BY RespTyped DEF Inv, Typed
<1>2. size \in Nat
  <2>1. ToSet(resp.pieces) \subseteq Nat BY <1>1 DEF ToSet
  <2> QED BY <2>1 DEF Sizes
<1>3. /\ stage = "body" /\ stage' = (IF last THEN "last" ELSE "body")
      /\ ctx' = c /\ NextBuf(size, last)
      /\ sent' = (IF size = 0 THEN sent ELSE sent + 1)
      /\ client' = (IF size = 0 THEN client ELSE Append(client, size))
      /\ UNCHANGED <<conf, resp, status, content_length_n, leaked, header_at,
                     now>>
  BY DEF PassBuf, NextBuf, PassedOn
<1>4. client = Passed BY DEF Inv, ClientGetsTheResponse, Passed
<1>5. CASE size = 0
  <2>1. last
    <3>1. ASSUME sent < Len(resp.pieces), size = resp.pieces[sent + 1]
          PROVE  FALSE
      <4>1. sent + 1 \in 1..Len(resp.pieces) BY <1>1, <3>1
      <4> QED BY <1>1, <1>5, <3>1, <4>1
    <3> QED BY <1>3, <3>1 DEF NextBuf
  <2>2. Passed' = Passed BY <1>3, <1>5 DEF Passed
  <2> QED BY <1>1, <1>2, <1>3, <1>4, <1>5, <2>1, <2>2
<1>6. CASE size # 0
  <2>1. /\ sent + 1 \in 1..Len(resp.pieces) /\ size = resp.pieces[sent + 1]
        /\ last => sent + 1 = Len(resp.pieces)
    BY <1>1, <1>3, <1>6 DEF NextBuf
  <2>2. sent' = sent + 1 /\ resp' = resp BY <1>3, <1>6
  <2>3. SubSeq(resp.pieces, 1, sent + 1)
            = Append(SubSeq(resp.pieces, 1, sent), resp.pieces[sent + 1])
    BY <1>1, <2>1
  <2>4. Passed' = Append(Passed, size) BY <2>1, <2>2, <2>3 DEF Passed
  <2> QED BY <1>1, <1>2, <1>3, <1>4, <1>6, <2>1, <2>2, <2>4
<1> QED BY <1>5, <1>6

(* What the body filter has to see to.                                      *)
LEMMA PassBufKeeps ==
    ASSUME Inv, NEW size \in Sizes, NEW last \in BOOLEAN,
           NEW c \in CtxRecords, PassBuf(size, last, c), CopyInv',
           c.store_skip = ctx.store_skip, c.valid_sec = ctx.valid_sec,
           c.store_response => ctx.store_response,
           stores' \in Seq(Subrequests), StoredInv', Len(stores') <= 1,
           Captive',
           ~last => stores' = <<>>,
           last => ( c.store_response <=>
                     \E i \in 1..Len(stores') : stores'[i].set_up = "full" )
    PROVE  Inv'
<1>1. /\ resp.pieces \in Seq(Nat)
      /\ stage = "body" /\ stage' = (IF last THEN "last" ELSE "body")
      /\ ctx' = c /\ sent \in Nat /\ sent' \in 0..Len(resp.pieces)
      /\ UNCHANGED <<conf, resp, status, content_length_n, leaked, header_at,
                     now>>
      /\ ~last => sent' = sent + 1
      /\ client' = Passed'
  BY BufPasses
<1>2. Typed' BY <1>1 DEF Inv, Typed
<1>3. HeaderInv' /\ StartInv' /\ StoresInv'
  BY <1>1 DEF HeaderInv, StartInv, StoresInv
<1>4. SkipInv' BY <1>1 DEF Inv, SkipInv
<1>5. LifeInv' BY <1>1, LifeStays DEF Inv
<1>6. ClientGetsTheResponse'
  BY <1>1 DEF Inv, ClientGetsTheResponse, Passed
<1>7. StatusTellsOfTheStore'
  BY <1>1 DEF StatusTellsOfTheStore, StoreStatus
<1> QED BY <1>2, <1>3, <1>4, <1>5, <1>6, <1>7 DEF Inv

(* A buffer after which nothing is kept of the response.                    *)
LEMMA NotKept ==
    ASSUME Inv, NEW size \in Sizes, NEW last \in BOOLEAN,
           NEW c \in CtxRecords, PassBuf(size, last, c), UNCHANGED stores,
           c.store_skip = ctx.store_skip, c.valid_sec = ctx.valid_sec,
           ~c.store_response
    PROVE  Inv'
<1>1. stage = "body" /\ stage' \in {"body", "last"} /\ ctx' = c
  BY BufPasses
<1>2. stores' = <<>> /\ stores' \in Seq(Subrequests) /\ Len(stores') <= 1
  <2>1. stores' = <<>> BY <1>1 DEF Inv, StoresInv
  <2> QED BY <2>1
<1>3. CopyInv' BY <1>1 DEF CopyInv, Storing
<1>4. StoredInv'
  BY <1>2
  DEF StoredInv, StoredIsWhole, StoredLengthIsRight, NothingForbiddenIsStored,
      EntryDiesInTime, Copies
<1>5. Captive' BY <1>2 DEF Captive
<1> QED BY <1>2, <1>3, <1>4, <1>5, PassBufKeeps

LEMMA CtxWithStatus ==
    ASSUME NEW c \in CtxRecords, NEW s \in Nat
    PROVE  [c EXCEPT !.http_status = s, !.header_status = s] \in CtxRecords
BY DEF CtxRecords

(* The ctx after a buffer has been counted and copied.                      *)
LEMMA CtxAfterCount ==
    ASSUME NEW c \in CtxRecords, NEW size \in Nat
    PROVE  LET d == Fixed(Counted(c, size)) IN
           /\ d \in CtxRecords
           /\ d.store_response = c.store_response
           /\ d.store_skip = c.store_skip /\ d.valid_sec = c.valid_sec
           /\ d.http_status = (IF CutDown THEN 206 ELSE c.http_status)
           /\ d.header_status = (IF CutDown THEN 206 ELSE c.header_status)
           /\ d.response_length = c.response_length + size
           /\ d.response_body_length = c.response_body_length + size
           /\ d.body_to_cache = c.body_to_cache
<1> DEFINE e == Counted(c, size)
           d == Fixed(e)
<1>1. c.response_length + size \in Nat /\ c.response_body_length + size \in Nat
  BY DEF CtxRecords
<1>2. e = [c EXCEPT !.response_length = c.response_length + size,
                    !.response_body_length = c.response_body_length + size]
  BY DEF Counted, CtxRecords
<1>3. /\ e \in CtxRecords
      /\ e.store_response = c.store_response
      /\ e.store_skip = c.store_skip /\ e.valid_sec = c.valid_sec
      /\ e.http_status = c.http_status /\ e.header_status = c.header_status
      /\ e.response_length = c.response_length + size
      /\ e.response_body_length = c.response_body_length + size
      /\ e.body_to_cache = c.body_to_cache
  BY <1>1, <1>2 DEF CtxRecords
<1> HIDE DEF e
<1>4. CASE CutDown
  <2>1. d = [e EXCEPT !.http_status = 206, !.header_status = 206]
    BY <1>4 DEF Fixed
  <2> HIDE DEF d
  <2>2. d \in CtxRecords
    <3>1. 206 \in Nat OBVIOUS
    <3>2. e \in CtxRecords BY <1>3
    <3>3. [e EXCEPT !.http_status = 206, !.header_status = 206] \in CtxRecords
      BY <3>1, <3>2, CtxWithStatus, Zenon
    <3> QED BY <2>1, <3>3, Zenon
  <2>3. /\ d.store_response = e.store_response
        /\ d.store_skip = e.store_skip /\ d.valid_sec = e.valid_sec
        /\ d.response_length = e.response_length
        /\ d.response_body_length = e.response_body_length
        /\ d.body_to_cache = e.body_to_cache
    BY <1>3, <2>1 DEF CtxRecords
  <2>4. d.http_status = 206 /\ d.header_status = 206
    BY <1>3, <2>1 DEF CtxRecords
  <2> QED BY <1>3, <1>4, <2>2, <2>3, <2>4 DEF d, e
<1>5. CASE ~CutDown
  <2>1. d = e BY <1>5 DEF Fixed
  <2> QED BY <1>3, <1>5, <2>1 DEF d, e
<1> QED BY <1>4, <1>5

LEMMA CtxAfterCopy ==
    ASSUME ctx \in CtxRecords, NEW size \in Nat
    PROVE  /\ Copied(size) \in CtxRecords
           /\ Copied(size).store_response = ctx.store_response
           /\ Copied(size).store_skip = ctx.store_skip
           /\ Copied(size).valid_sec = ctx.valid_sec
           /\ Copied(size).http_status
                  = (IF CutDown THEN 206 ELSE ctx.http_status)
           /\ Copied(size).header_status
                  = (IF CutDown THEN 206 ELSE ctx.header_status)
           /\ Copied(size).response_length = ctx.response_length + size
           /\ Copied(size).response_body_length
                  = ctx.response_body_length + size
           /\ Copied(size).body_to_cache
                  = (IF size = 0 THEN ctx.body_to_cache
                     ELSE Append(ctx.body_to_cache, size))
<1> DEFINE d == Fixed(Counted(ctx, size))
<1>1. /\ d \in CtxRecords
      /\ d.store_response = ctx.store_response
      /\ d.store_skip = ctx.store_skip /\ d.valid_sec = ctx.valid_sec
      /\ d.http_status = (IF CutDown THEN 206 ELSE ctx.http_status)
      /\ d.header_status = (IF CutDown THEN 206 ELSE ctx.header_status)
      /\ d.response_length = ctx.response_length + size
      /\ d.response_body_length = ctx.response_body_length + size
      /\ d.body_to_cache = ctx.body_to_cache
  BY CtxAfterCount
<1>2. Copied(size) = IF size = 0 THEN d
                     ELSE [d EXCEPT !.body_to_cache = Append(@, size)]
  BY DEF Copied
<1> HIDE DEF d
<1>3. CASE size = 0 BY <1>1, <1>2, <1>3
<1>4. CASE size # 0
  <2>1. Append(d.body_to_cache, size) \in Seq(Nat) BY <1>1 DEF CtxRecords
  <2>2. Copied(size) = [d EXCEPT !.body_to_cache
                                 = Append(d.body_to_cache, size)]
    BY <1>1, <1>2, <1>4 DEF CtxRecords
  <2>3. /\ Copied(size) \in CtxRecords
        /\ Copied(size).store_response = d.store_response
        /\ Copied(size).store_skip = d.store_skip
        /\ Copied(size).valid_sec = d.valid_sec
        /\ Copied(size).http_status = d.http_status
        /\ Copied(size).header_status = d.header_status
        /\ Copied(size).response_length = d.response_length
        /\ Copied(size).response_body_length = d.response_body_length
        /\ Copied(size).body_to_cache = Append(d.body_to_cache, size)
    BY <1>1, <2>1, <2>2 DEF CtxRecords
  <2> QED BY <1>1, <1>4, <2>3
<1> QED BY <1>3, <1>4

LEMMA CtxAfterGivingUp ==
    ASSUME NEW c \in CtxRecords
    PROVE  LET d == [c EXCEPT !.store_response = FALSE] IN
           /\ d \in CtxRecords /\ ~d.store_response
           /\ d.store_skip = c.store_skip /\ d.valid_sec = c.valid_sec
BY DEF CtxRecords

(* Equal but for store_response.                                            *)
SameCopy(c, d) ==
    /\ c.store_skip = d.store_skip /\ c.valid_sec = d.valid_sec
    /\ c.http_status = d.http_status /\ c.header_status = d.header_status
    /\ c.response_length = d.response_length
    /\ c.response_body_length = d.response_body_length
    /\ c.body_to_cache = d.body_to_cache

(* A copy that is kept fits the response as before, or is doomed.           *)
LEMMA CopyStep ==
    ASSUME Inv, NEW size \in Sizes, NEW last \in BOOLEAN, Wanted,
           NEW c \in CtxRecords, PassBuf(size, last, c),
           SameCopy(c, Copied(size))
    PROVE  \/ Doomed'
           \/ /\ Admitted' /\ StatusFits' /\ CopyFits'
              /\ status = ctx'.http_status
<1>1. /\ size \in Nat /\ resp.pieces \in Seq(Nat) /\ sent \in Nat
      /\ ctx' = c /\ stage = "body"
      /\ UNCHANGED <<conf, resp, status, content_length_n>>
      /\ Passed' = (IF size = 0 THEN Passed ELSE Append(Passed, size))
  BY BufPasses
<1>2. /\ ctx \in CtxRecords /\ status \in Nat /\ sent \in 0..Len(resp.pieces)
  BY DEF Inv, Typed
<1>3. /\ ctx'.http_status = (IF CutDown THEN 206 ELSE ctx.http_status)
      /\ ctx'.header_status = (IF CutDown THEN 206 ELSE ctx.header_status)
      /\ ctx'.valid_sec = ctx.valid_sec
      /\ ctx'.response_length = ctx.response_length + size
      /\ ctx'.response_body_length = ctx.response_body_length + size
      /\ ctx'.body_to_cache
             = (IF size = 0 THEN ctx.body_to_cache
                ELSE Append(ctx.body_to_cache, size))
  BY <1>1, <1>2, CtxAfterCopy DEF SameCopy
<1>4. CASE Doomed
  <2>1. ~CutDown BY <1>2, <1>4 DEF Doomed, CutDown
  <2> QED BY <1>1, <1>3, <1>4, <2>1 DEF Doomed
<1>5. CASE Admitted /\ StatusFits /\ CopyFits
  <2>1. Admitted' BY <1>1, <1>3, <1>5 DEF Admitted, NotOurs, Forbids, Ages
  <2>2. StatusFits' /\ status = ctx'.http_status
    BY <1>1, <1>3, <1>5 DEF StatusFits, Wanted, CutDown, Listed
  <2>3. CASE size = 0
    <3>1. ctx.response_length \in Nat /\ ctx.response_body_length \in Nat
      BY <1>2 DEF CtxRecords
    <3>2. CopyFits' BY <1>1, <1>3, <1>5, <2>3, <3>1 DEF CopyFits
    <3> QED BY <2>1, <2>2, <3>2
  <2>4. CASE size # 0
    <3> DEFINE b == ctx.body_to_cache
    <3>1. /\ Passed \in Seq(Nat) /\ b \in Seq(Nat)
          /\ HeaderSize \in Nat /\ b = <<HeaderSize>> \o Passed
      <4>1. Passed \in Seq(Nat) BY <1>1, <1>2 DEF Passed
      <4>2. b \in Seq(Nat) /\ HeaderSize \in Nat
        BY <1>2, SizesAssumption DEF CtxRecords
      <4> QED BY <1>5, <4>1, <4>2 DEF CopyFits
    <3>2. /\ Passed' = Append(Passed, size)
          /\ ctx'.body_to_cache = Append(b, size)
      BY <1>1, <1>3, <2>4
    <3>3. ctx'.body_to_cache = <<HeaderSize>> \o Passed'
      BY <1>1, <3>1, <3>2
    <3>4. /\ Total(Passed') = Total(Passed) + size
          /\ Total(ctx'.body_to_cache) = Total(b) + size
      BY <1>1, <3>1, <3>2, TotalOfAppend
    <3>5. Total(Passed) \in Nat /\ Total(b) \in Nat
      BY <3>1, TotalIsNat
    <3>6. ctx'.response_body_length = Total(Passed')
      BY <1>3, <1>5, <3>4 DEF CopyFits
    <3>7. \/ ctx'.response_length = Total(ctx'.body_to_cache)
          \/ /\ status' = 416
             /\ ctx'.response_length = Total(ctx'.body_to_cache) + HeaderSize
      <4> DEFINE t == Total(b)
      <4>1. t \in Nat /\ HeaderSize \in Nat /\ Total(ctx'.body_to_cache) = t + size
        BY <3>1, <3>4, <3>5
      <4>2. \/ ctx.response_length = t
            \/ status = 416 /\ ctx.response_length = t + HeaderSize
        BY <1>5 DEF CopyFits
      <4>3. ctx'.response_length = ctx.response_length + size /\ status' = status
        BY <1>1, <1>3
      <4> HIDE DEF t
      <4> QED BY <1>1, <4>1, <4>2, <4>3
    <3>8. CopyFits' BY <3>3, <3>6, <3>7 DEF CopyFits
    <3> QED BY <2>1, <2>2, <3>8
  <2> QED BY <2>3, <2>4
<1>6. Storing BY DEF Wanted
<1> QED BY <1>1, <1>4, <1>5, <1>6 DEF Inv, CopyInv

LEMMA BodyCopyKeeps ==
    ASSUME Inv, NEW size \in Sizes, NEW last \in BOOLEAN, BodyCopy(size, last)
    PROVE  Inv'
<1>1. /\ Wanted /\ ~last /\ PassBuf(size, last, Copied(size))
      /\ stores' = stores
  BY DEF BodyCopy
<1>2. ctx \in CtxRecords /\ size \in Nat
  BY RespTyped DEF Inv, Typed, Sizes, ToSet
<1>3. /\ Copied(size) \in CtxRecords
      /\ Copied(size).store_response = ctx.store_response
      /\ Copied(size).store_skip = ctx.store_skip
      /\ Copied(size).valid_sec = ctx.valid_sec
  BY <1>2, CtxAfterCopy
<1>4. CopyInv'
  <2>1. SameCopy(Copied(size), Copied(size)) BY DEF SameCopy
  <2> QED BY <1>1, <1>3, <2>1, CopyStep DEF CopyInv
<1>5. stores' = <<>>
  <2>1. stage = "body" BY <1>1 DEF PassBuf, NextBuf
  <2> QED BY <1>1, <2>1 DEF Inv, StoresInv
<1>6. stores' \in Seq(Subrequests) /\ Len(stores') <= 1 BY <1>5
<1>7. StoredInv'
  BY <1>5
  DEF StoredInv, StoredIsWhole, StoredLengthIsRight, NothingForbiddenIsStored,
      EntryDiesInTime, Copies
<1>8. Captive' BY <1>5 DEF Captive
<1> QED BY <1>1, <1>3, <1>4, <1>5, <1>6, <1>7, <1>8, PassBufKeeps

(* The buffers at which the response turns out not to be kept.              *)
LEMMA BodyNotKept ==
    ASSUME Inv, NEW size \in Sizes, NEW last \in BOOLEAN,
           \/ BodyNotStored(size, last) \/ BodyRangeUnwanted(size, last)
           \/ BodyTooLong(size, last) \/ BodyNoMemory(size, last)
           \/ BodyDropped(size, last) \/ BodyStoreNotIssued(size, last)
    PROVE  Inv'
<1>1. ctx \in CtxRecords /\ size \in Nat
  BY RespTyped DEF Inv, Typed, Sizes, ToSet
<1>2. CASE BodyNotStored(size, last)
  <2>1. ~ctx.store_response
    BY <1>2 DEF BodyNotStored, Storing, Inv, SkipInv
  <2> QED BY <1>1, <1>2, <2>1, NotKept DEF BodyNotStored
<1>3. CASE BodyRangeUnwanted(size, last)
  <2>1. /\ GivenUp \in CtxRecords /\ ~GivenUp.store_response
        /\ GivenUp.store_skip = ctx.store_skip
        /\ GivenUp.valid_sec = ctx.valid_sec
    BY <1>1, CtxAfterGivingUp DEF GivenUp
  <2> QED BY <1>3, <2>1, NotKept DEF BodyRangeUnwanted
<1>4. CASE BodyTooLong(size, last) \/ BodyNoMemory(size, last)
  <2> DEFINE c == Fixed(Counted(GivenUp, size))
  <2>1. /\ GivenUp \in CtxRecords /\ ~GivenUp.store_response
        /\ GivenUp.store_skip = ctx.store_skip
        /\ GivenUp.valid_sec = ctx.valid_sec
    BY <1>1, CtxAfterGivingUp DEF GivenUp
  <2>2. /\ c \in CtxRecords /\ c.store_response = GivenUp.store_response
        /\ c.store_skip = GivenUp.store_skip
        /\ c.valid_sec = GivenUp.valid_sec
    BY <1>1, <2>1, CtxAfterCount
  <2>3. PassBuf(size, last, c) /\ UNCHANGED stores
    BY <1>4 DEF BodyTooLong, BodyNoMemory
  <2> HIDE DEF c
  <2> QED BY <2>1, <2>2, <2>3, NotKept
<1>5. CASE BodyDropped(size, last) \/ BodyStoreNotIssued(size, last)
  <2> DEFINE c == [Copied(size) EXCEPT !.store_response = FALSE]
  <2>1. /\ Copied(size) \in CtxRecords
        /\ Copied(size).store_skip = ctx.store_skip
        /\ Copied(size).valid_sec = ctx.valid_sec
    BY <1>1, CtxAfterCopy
  <2>2. /\ c \in CtxRecords /\ ~c.store_response
        /\ c.store_skip = Copied(size).store_skip
        /\ c.valid_sec = Copied(size).valid_sec
    BY <2>1, CtxAfterGivingUp
  <2>3. PassBuf(size, last, c) /\ UNCHANGED stores
    BY <1>5 DEF BodyDropped, BodyStoreNotIssued, NotIssued
  <2> HIDE DEF c
  <2> QED BY <2>1, <2>2, <2>3, NotKept
<1> QED BY <1>2, <1>3, <1>4, <1>5

(* $srcache_expire: never more than what is left of the noted lifetime.     *)
LEMMA ExpireIsRight ==
    ASSUME Typed, NEW c \in CtxRecords
    PROVE  /\ Expire(c) \in Int
           /\ c.valid_sec # 0 => Expire(c) <= c.valid_sec - now
<1>1. /\ conf.default_expire \in Int /\ conf.max_expire \in Int
      /\ c.valid_sec \in Int /\ now \in Int
  BY DEF Typed, StoreConfs, CtxRecords
<1> QED BY <1>1 DEF Expire

(* The one buffer at which the subrequest is issued, set up or not.         *)
LEMMA IssueKeeps ==
    ASSUME Inv, NEW size \in Sizes, NEW last \in BOOLEAN,
           NEW c \in CtxRecords, NEW s \in Subrequests,
           Wanted, ~OverLimit(size), last, ~DropAtEnd(size),
           PassBuf(size, last, c), SameCopy(c, Copied(size)),
           c.store_response <=> s.set_up = "full",
           stores' = Append(stores, s),
           s.set_up # "method" =>
               /\ s.body = c.body_to_cache
               /\ s.content_length_n = c.response_length,
           s.status = c.header_status,
           s.expire = Expire(Copied(size)), s.at = now,
           s.post_subrequest = "srcache"
    PROVE  Inv'
<1>1. NextBuf(size, last) BY DEF PassBuf
<1>2. Typed /\ ctx \in CtxRecords /\ size \in Nat
  BY RespTyped DEF Inv, Typed, Sizes, ToSet
<1>3. /\ Copied(size) \in CtxRecords
      /\ c.valid_sec = Copied(size).valid_sec
      /\ c.http_status = Copied(size).http_status
      /\ c.store_skip = ctx.store_skip /\ c.valid_sec = ctx.valid_sec
      /\ c.response_length = ctx.response_length + size
      /\ c.response_body_length = ctx.response_body_length + size
  BY <1>2, CtxAfterCopy DEF SameCopy
<1>4. /\ resp.pieces \in Seq(Nat) /\ stage = "body" /\ stage' = "last"
      /\ ctx' = c /\ sent \in Nat /\ sent' \in 0..Len(resp.pieces)
      /\ UNCHANGED <<conf, resp, status, content_length_n, leaked, header_at,
                     now>>
      /\ \/ size = 0 /\ sent' = sent /\ Passed' = Passed
         \/ size # 0 /\ sent' = Len(resp.pieces)
  BY <1>1, <1>3, BufPasses
<1>5. /\ s.set_up # "method" =>
             s.body = c.body_to_cache /\ s.content_length_n = c.response_length
      /\ s.status = c.header_status
      /\ s.expire = Expire(Copied(size)) /\ s.at = now
  OBVIOUS
<1>6. Storing BY DEF Wanted
<1>7. /\ stores' = <<s>> /\ stores' # <<>>
      /\ \A i \in 1..Len(stores') : stores'[i] = s
  <2>1. stores = <<>> BY <1>4 DEF Inv, StoresInv
  <2>2. stores' = <<s>> BY <2>1
  <2> QED BY <2>2
<1>8. /\ status >= 300 => status = c.http_status
      /\ ~(content_length_n > c.response_body_length)
      /\ resp.skip = "never"
  BY <1>2, <1>3, CtxAfterCopy DEF DropAtEnd, FoundShort, FoundError
<1>9. Admitted' /\ StatusFits' /\ CopyFits' /\ status = c.http_status
  <2>1. ~Doomed' BY <1>4, <1>8 DEF Doomed
  <2> QED BY <1>4, <2>1, CopyStep
<1>10. CopyInv' /\ Len(stores') <= 1 /\ stores' \in Seq(Subrequests)
  BY <1>4, <1>5, <1>7 DEF CopyInv
<1>11. StoredIsWhole'
  <2> SUFFICES ASSUME s.set_up # "method" PROVE StoredIsWhole'
    BY <1>7 DEF StoredIsWhole, Copies
  <2>1. s.status = status BY <1>4, <1>5, <1>9 DEF StatusFits
  <2>2. s.body = <<HeaderSize>> \o Passed' BY <1>4, <1>5, <1>9 DEF CopyFits
  <2>3. CASE sent' = Len(resp.pieces)
    <3>1. Passed' = resp.pieces BY <1>4, <2>3 DEF Passed
    <3>2. s.body = <<HeaderSize>> \o resp'.pieces /\ s.status = status'
      BY <1>4, <2>1, <2>2, <3>1
    <3> QED BY <1>7, <3>2 DEF StoredIsWhole, Copies
  <2>4. CASE sent' # Len(resp.pieces)
    <3>1. size = 0 /\ sent' = sent /\ Passed' = Passed BY <1>4, <2>4
    <3>2. ~Truncated
      <4>1. c.response_body_length = Total(Passed)
        BY <1>4, <1>9, <3>1 DEF CopyFits
      <4> QED BY <1>8, <4>1 DEF Truncated, Passed
    <3>3. status = 502
      <4>1. ~(sent < Len(resp.pieces) /\ size = resp.pieces[sent + 1])
        <5>1. ASSUME sent < Len(resp.pieces), size = resp.pieces[sent + 1]
              PROVE  FALSE
          <6>1. sent + 1 \in 1..Len(resp.pieces) BY <1>4, <5>1
          <6>2. resp.pieces \in Seq(Nat \ {0}) BY <1>2, RespTyped
          <6>3. resp.pieces[sent + 1] # 0 BY <6>1, <6>2
          <6> QED BY <3>1, <5>1, <6>3
        <5> QED BY <5>1
      <4> QED BY <1>1, <2>4, <3>1, <3>2, <4>1 DEF NextBuf
    <3>4. resp.status = 502
      BY <1>4, <1>8, <1>9, <3>3 DEF StatusFits
    <3>5. /\ s.body = <<HeaderSize>> \o SubSeq(resp.pieces, 1, sent)'
          /\ resp'.status = 502 /\ s.status = status'
      BY <1>4, <2>1, <2>2, <3>4 DEF Passed
    <3>6. ASSUME NEW i \in 1..Len(stores')
          PROVE  /\ stores'[i].body
                        = <<HeaderSize>> \o SubSeq(resp.pieces, 1, sent)'
                 /\ resp'.status = 502 /\ stores'[i].status = status'
      <4>1. stores'[i] = s BY <1>7
      <4> QED BY <3>5, <4>1
    <3> QED BY <3>6, ZenonT(30) DEF StoredIsWhole, Copies
  <2> QED BY <2>3, <2>4
<1>12. StoredLengthIsRight'
  <2> SUFFICES ASSUME s.set_up # "method" PROVE StoredLengthIsRight'
    BY <1>7 DEF StoredLengthIsRight, Copies
  <2>1. \/ s.content_length_n = Total(s.body)
        \/ status = 416 /\ s.content_length_n = Total(s.body) + HeaderSize
    BY <1>4, <1>5, <1>9 DEF CopyFits
  <2>2. conf.max_size # 0 => s.content_length_n <= conf.max_size
    <3>1. ctx.response_length \in Nat /\ conf.max_size \in Nat
      BY <1>2 DEF Typed, CtxRecords, StoreConfs
    <3> QED BY <1>1, <1>2, <1>3, <1>5, <3>1 DEF OverLimit
  <2> QED BY <1>4, <1>7, <2>1, <2>2 DEF StoredLengthIsRight, Copies
<1>13. NothingForbiddenIsStored'
  <2>1. ~NotOurs' /\ resp'.skip = "never" BY <1>4, <1>8, <1>9 DEF Admitted
  <2>2. Listed(status)' BY <1>4, <1>9 DEF StatusFits
  <2>3. (conf.resp_cache_control =>
            \A i \in 1..Len(resp.cache_control) :
                ~Forbids(resp.cache_control[i]))'
    BY <1>9 DEF Admitted
  <2> QED
    BY <2>1, <2>2, <2>3 DEF NothingForbiddenIsStored, Listed, Forbids
<1>14. EntryDiesInTime'
  <2>0. /\ Ages(resp.cache_control)' = Ages(resp.cache_control)
        /\ FirstAge(resp.cache_control)' = FirstAge(resp.cache_control)
    BY <1>4 DEF Ages, FirstAge
  <2> SUFFICES ASSUME conf.resp_cache_control, Ages(resp.cache_control) # {}
               PROVE  s.at + s.expire
                          <= header_at + FirstAge(resp.cache_control)
    BY <1>4, <1>7, <2>0 DEF EntryDiesInTime
  <2>1. c.valid_sec # 0 BY <1>4, <1>9 DEF Admitted, Ages
  <2>2. s.expire <= c.valid_sec - now /\ s.expire \in Int
    BY <1>2, <1>3, <1>5, <2>1, ExpireIsRight
  <2>3. ctx.valid_sec <= header_at + FirstAge(resp.cache_control)
    BY DEF Inv, LifeInv
  <2>4. /\ FirstAge(resp.cache_control) \in Nat /\ header_at \in Nat
        /\ now \in Nat /\ ctx.valid_sec \in Int
    BY <1>2, FirstAgeIsPositive DEF Typed, CtxRecords
  <2> QED BY <1>3, <1>5, <2>2, <2>3, <2>4
<1>15. StoredInv' BY <1>11, <1>12, <1>13, <1>14 DEF StoredInv
<1>16. ctx.store_response BY <1>6 DEF Storing
<1>17. c.store_response <=>
           \E i \in 1..Len(stores') : stores'[i].set_up = "full"
  <2>1. 1 \in 1..Len(stores') BY <1>7
  <2> QED BY <1>7, <2>1
<1>18. Captive' BY <1>7 DEF Captive
<1> QED BY <1>3, <1>7, <1>10, <1>15, <1>16, <1>17, <1>18, PassBufKeeps

LEMMA SubrequestTyped ==
    ASSUME Typed, NEW c \in CtxRecords
    PROVE  /\ StoreSubrequest(c) \in Subrequests
           /\ StoreSubrequest(c).set_up = "full"
           /\ StoreSubrequest(c).body = c.body_to_cache
           /\ StoreSubrequest(c).status = c.header_status
           /\ StoreSubrequest(c).content_length_n = c.response_length
           /\ StoreSubrequest(c).expire = Expire(c)
           /\ StoreSubrequest(c).at = now
           /\ StoreSubrequest(c).post_subrequest = "srcache"
<1>1. /\ Expire(c) \in Int /\ now \in Nat BY ExpireIsRight DEF Typed
<1>2. /\ c.header_status \in Nat /\ c.body_to_cache \in Seq(Nat)
      /\ c.response_length \in Nat
  BY DEF CtxRecords
<1> QED BY <1>1, <1>2 DEF StoreSubrequest, Subrequests

LEMMA BodyStoreKeeps ==
    ASSUME Inv, NEW size \in Sizes, NEW last \in BOOLEAN, BodyStore(size, last)
    PROVE  Inv'
<1> DEFINE c == Copied(size)
           s == StoreSubrequest(c)
<1>1. /\ Wanted /\ ~OverLimit(size) /\ last /\ ~DropAtEnd(size)
      /\ PassBuf(size, last, c) /\ stores' = Append(stores, s)
  BY DEF BodyStore
<1>2. Typed /\ ctx \in CtxRecords /\ size \in Nat
  BY RespTyped DEF Inv, Typed, Sizes, ToSet
<1>3. c \in CtxRecords /\ c.store_response = ctx.store_response
  BY <1>2, CtxAfterCopy
<1>4. c.store_response BY <1>1, <1>3 DEF Wanted, Storing
<1>5. SameCopy(c, Copied(size)) BY DEF SameCopy
<1>6. /\ s \in Subrequests /\ s.set_up = "full" /\ s.body = c.body_to_cache
      /\ s.status = c.header_status /\ s.content_length_n = c.response_length
      /\ s.expire = Expire(Copied(size)) /\ s.at = now
      /\ s.post_subrequest = "srcache"
  BY <1>2, <1>3, SubrequestTyped
<1> HIDE DEF c, s
<1> QED BY <1>1, <1>3, <1>4, <1>5, <1>6, IssueKeeps

LEMMA UnsetTyped ==
    ASSUME NEW s \in Subrequests, NEW u \in {"method", "body"}
    PROVE  LET d == [s EXCEPT !.has_ctx = FALSE, !.set_up = u]
               e == [d EXCEPT !.body = <<>>, !.content_length_n = 0]
           IN  /\ d \in Subrequests /\ d.set_up = u /\ d.body = s.body
               /\ d.status = s.status
               /\ d.content_length_n = s.content_length_n
               /\ d.expire = s.expire /\ d.at = s.at
               /\ d.post_subrequest = s.post_subrequest
               /\ e \in Subrequests /\ e.set_up = u /\ e.status = s.status
               /\ e.expire = s.expire /\ e.at = s.at
               /\ e.post_subrequest = s.post_subrequest
<1> DEFINE d == [s EXCEPT !.has_ctx = FALSE, !.set_up = u]
           e == [d EXCEPT !.body = <<>>, !.content_length_n = 0]
<1>1. /\ d \in Subrequests /\ d.set_up = u /\ d.body = s.body
      /\ d.status = s.status
      /\ d.content_length_n = s.content_length_n
      /\ d.expire = s.expire /\ d.at = s.at
      /\ d.post_subrequest = s.post_subrequest
  BY DEF Subrequests
<1> HIDE DEF d
<1>2. <<>> \in Seq(Nat) OBVIOUS
<1>3. /\ e \in Subrequests /\ e.set_up = d.set_up /\ e.status = d.status
      /\ e.expire = d.expire /\ e.at = d.at
      /\ e.post_subrequest = d.post_subrequest
  BY <1>1, <1>2 DEF Subrequests
<1> HIDE DEF e
<1> QED BY <1>1, <1>3 DEF d, e

LEMMA BodyStoreUnsetKeeps ==
    ASSUME Inv, NEW size \in Sizes, NEW last \in BOOLEAN,
           BodyStoreUnset(size, last)
    PROVE  Inv'
<1> DEFINE d == Copied(size)
           c == NotIssued(d)
<1>1. /\ Wanted /\ ~OverLimit(size) /\ last /\ ~DropAtEnd(size)
      /\ PassBuf(size, last, c)
  BY DEF BodyStoreUnset
<1>2. PICK u \in {"method", "body"} :
          stores' = Append(stores, UnsetSubrequest(d, u))
  BY DEF BodyStoreUnset
<1>3. Typed /\ ctx \in CtxRecords /\ size \in Nat
  BY RespTyped DEF Inv, Typed, Sizes, ToSet
<1>4. d \in CtxRecords BY <1>3, CtxAfterCopy
<1> DEFINE s == UnsetSubrequest(d, u)
<1>5. c \in CtxRecords /\ ~c.store_response /\ SameCopy(c, Copied(size))
  BY <1>4 DEF NotIssued, SameCopy, CtxRecords
<1>6. /\ s \in Subrequests /\ s.set_up = u
      /\ s.set_up # "method" =>
             s.body = d.body_to_cache /\ s.content_length_n = d.response_length
      /\ s.status = d.header_status
      /\ s.expire = Expire(d) /\ s.at = now
      /\ s.post_subrequest = "srcache"
  <2> DEFINE f == StoreSubrequest(d)
  <2>1. /\ f \in Subrequests /\ f.body = d.body_to_cache
        /\ f.status = d.header_status
        /\ f.content_length_n = d.response_length
        /\ f.expire = Expire(d) /\ f.at = now
        /\ f.post_subrequest = "srcache"
    BY <1>3, <1>4, SubrequestTyped
  <2>2. s = IF u = "body" THEN [f EXCEPT !.has_ctx = FALSE, !.set_up = u]
            ELSE [[f EXCEPT !.has_ctx = FALSE, !.set_up = u]
                     EXCEPT !.body = <<>>, !.content_length_n = 0]
    BY DEF UnsetSubrequest
  <2> HIDE DEF d, f, s
  <2>3. CASE u = "body"
    <3>1. s = [f EXCEPT !.has_ctx = FALSE, !.set_up = u] BY <2>2, <2>3
    <3> QED BY <2>1, <3>1, UnsetTyped
  <2>4. CASE u = "method"
    <3>1. s = [[f EXCEPT !.has_ctx = FALSE, !.set_up = u]
                   EXCEPT !.body = <<>>, !.content_length_n = 0]
      BY <2>2, <2>4
    <3> QED BY <2>1, <2>4, <3>1, UnsetTyped
  <2> QED BY <2>3, <2>4
<1>7. /\ s.set_up # "full"
      /\ s.set_up # "method" =>
             s.body = c.body_to_cache /\ s.content_length_n = c.response_length
      /\ s.status = c.header_status /\ s.expire = Expire(Copied(size))
  BY <1>2, <1>5, <1>6 DEF SameCopy
<1>8. stores' = Append(stores, s) BY <1>2
<1> HIDE DEF c, s, d
<1> QED BY <1>1, <1>5, <1>6, <1>7, <1>8, IssueKeeps

LEMMA BodyFilterKeeps == ASSUME Inv, BodyFilter PROVE Inv'
<1>1. PICK last \in BOOLEAN, size \in Sizes :
          \/ BodyNotStored(size, last) \/ BodyRangeUnwanted(size, last)
          \/ BodyTooLong(size, last) \/ BodyNoMemory(size, last)
          \/ BodyCopy(size, last) \/ BodyDropped(size, last)
          \/ BodyStoreNotIssued(size, last)
          \/ BodyStore(size, last) \/ BodyStoreUnset(size, last)
  BY DEF BodyFilter, Sizes
<1> QED
  BY <1>1, BodyNotKept, BodyCopyKeeps, BodyStoreKeeps, BodyStoreUnsetKeeps

-----------------------------------------------------------------------------
(* The store subrequest, the end and the clock.                             *)

LEMMA WholeStays ==
    ASSUME StoredIsWhole, UNCHANGED <<resp, status, sent>>,
           Len(stores') = Len(stores),
           \A j \in 1..Len(stores) : /\ stores'[j].body = stores[j].body
                                     /\ stores'[j].status = stores[j].status
                                     /\ stores'[j].set_up = stores[j].set_up
    PROVE  StoredIsWhole'
<1> SUFFICES ASSUME NEW j \in 1..Len(stores'), stores'[j].set_up # "method"
             PROVE  /\ \/ stores'[j].body = <<HeaderSize>> \o resp'.pieces
                       \/ /\ resp'.status = 502
                          /\ stores'[j].body
                                 = <<HeaderSize>> \o SubSeq(resp.pieces, 1, sent)'
                    /\ stores'[j].status = status'
  BY DEF StoredIsWhole, Copies
<1>1. /\ \/ stores[j].body = <<HeaderSize>> \o resp.pieces
         \/ /\ resp.status = 502
            /\ stores[j].body = <<HeaderSize>> \o SubSeq(resp.pieces, 1, sent)
      /\ stores[j].status = status
  BY DEF StoredIsWhole, Copies
<1>2. /\ stores'[j].body = stores[j].body /\ stores'[j].status = stores[j].status
      /\ resp' = resp /\ sent' = sent /\ status' = status
  OBVIOUS
<1>3. CASE stores[j].body = <<HeaderSize>> \o resp.pieces
  <2>1. stores'[j].body = <<HeaderSize>> \o resp'.pieces BY <1>2, <1>3
  <2> QED BY <1>1, <1>2, <2>1
<1>4. CASE /\ resp.status = 502
           /\ stores[j].body = <<HeaderSize>> \o SubSeq(resp.pieces, 1, sent)
  <2>1. stores'[j].body = <<HeaderSize>> \o SubSeq(resp.pieces, 1, sent)'
    BY <1>2, <1>4
  <2>2. resp'.status = 502 BY <1>2, <1>4
  <2> QED BY <1>1, <1>2, <2>1, <2>2
<1> QED BY <1>1, <1>3, <1>4

(* A step of a subrequest leaves alone what it was issued with.             *)
LEMMA SubrequestStepKeeps ==
    ASSUME Inv, NEW i \in 1..Len(stores), NEW s \in Subrequests,
           s.body = stores[i].body, s.status = stores[i].status,
           s.content_length_n = stores[i].content_length_n,
           s.expire = stores[i].expire, s.at = stores[i].at,
           s.set_up = stores[i].set_up,
           s.post_subrequest = stores[i].post_subrequest,
           stores' = [stores EXCEPT ![i] = s], UnchangedMain, ~leaked'
    PROVE  Inv'
<1> USE DEF UnchangedMain
<1>1. stores \in Seq(Subrequests) BY DEF Inv, Typed
<1>2. /\ stores' \in Seq(Subrequests) /\ Len(stores') = Len(stores)
      /\ stores # <<>> /\ stores' # <<>>
      /\ \A j \in 1..Len(stores) :
             /\ stores'[j].body = stores[j].body
             /\ stores'[j].status = stores[j].status
             /\ stores'[j].content_length_n = stores[j].content_length_n
             /\ stores'[j].expire = stores[j].expire
             /\ stores'[j].at = stores[j].at
             /\ stores'[j].set_up = stores[j].set_up
             /\ stores'[j].post_subrequest = stores[j].post_subrequest
  BY <1>1
<1> HIDE DEF UnchangedMain
<1>3. UNCHANGED <<conf, resp, stage, status, content_length_n, ctx, sent,
                  client, header_at, now>>
  BY DEF UnchangedMain
<1>4. Typed' BY <1>2, <1>3 DEF Inv, Typed
<1>5. CopyInv'
  BY <1>2, <1>3 DEF Inv, CopyInv, StoresInv
<1>6. HeaderInv' /\ StartInv' /\ SkipInv' /\ StoresInv'
  BY <1>2, <1>3 DEF Inv, HeaderInv, StartInv, SkipInv, StoresInv
<1>7. LifeInv' BY <1>3, LifeStays DEF Inv
<1>8. StoredIsWhole' /\ StoredLengthIsRight'
  <2>1. StoredIsWhole /\ StoredLengthIsRight BY DEF Inv, StoredInv
  <2>2. StoredIsWhole' BY <1>2, <1>3, <2>1, WholeStays
  <2>3. StoredLengthIsRight' BY <1>2, <1>3, <2>1 DEF StoredLengthIsRight, Copies
  <2> QED BY <2>2, <2>3
<1>9. NothingForbiddenIsStored'
  BY <1>2, <1>3 DEF Inv, StoredInv, NothingForbiddenIsStored, NotOurs
<1>10. EntryDiesInTime'
  <2>1. /\ Ages(resp.cache_control)' = Ages(resp.cache_control)
        /\ FirstAge(resp.cache_control)' = FirstAge(resp.cache_control)
    BY <1>3 DEF Ages, FirstAge
  <2>2. EntryDiesInTime BY DEF Inv, StoredInv
  <2> QED BY <1>2, <1>3, <2>1, <2>2 DEF EntryDiesInTime
<1>11. ClientGetsTheResponse' BY <1>3 DEF Inv, ClientGetsTheResponse
<1>12. StatusTellsOfTheStore'
  BY <1>2, <1>3 DEF Inv, StatusTellsOfTheStore, StoreStatus
<1>13. Captive' BY <1>2 DEF Inv, Captive
<1> QED
  BY <1>4, <1>5, <1>6, <1>7, <1>8, <1>9, <1>10, <1>11, <1>12, <1>13
  DEF Inv, StoredInv

(* A subrequest gets its ctx back.                                          *)
LEMMA ResumedTyped ==
    ASSUME NEW s \in Subrequests, s.post_subrequest = "srcache"
    PROVE  /\ Resumed(s) \in Subrequests /\ Resumed(s).has_ctx = TRUE
           /\ Resumed(s).body = s.body /\ Resumed(s).status = s.status
           /\ Resumed(s).content_length_n = s.content_length_n
           /\ Resumed(s).expire = s.expire /\ Resumed(s).at = s.at
           /\ Resumed(s).set_up = s.set_up
           /\ Resumed(s).post_subrequest = s.post_subrequest
BY DEF Subrequests, Resumed

LEMMA SubrequestKeeps ==
    ASSUME Inv, NEW i \in 1..Len(stores), StoreStep(i) \/ SrEnd(i)
    PROVE  Inv'
<1>1. /\ stores \in Seq(Subrequests) /\ stores[i] \in Subrequests /\ ~leaked
      /\ stores[i].post_subrequest = "srcache"
  BY DEF Inv, Typed, ClientGetsTheResponse, Captive
<1>2. CASE SrRedirect(i)
  <2> DEFINE s == [stores[i] EXCEPT !.has_ctx = FALSE]
  <2>1. stores' = [stores EXCEPT ![i] = s] /\ UnchangedMain /\ ~leaked'
    BY <1>1, <1>2 DEF SrRedirect
  <2>2. /\ s \in Subrequests
        /\ s.body = stores[i].body /\ s.status = stores[i].status
        /\ s.content_length_n = stores[i].content_length_n
        /\ s.expire = stores[i].expire /\ s.at = stores[i].at
        /\ s.set_up = stores[i].set_up
        /\ s.post_subrequest = stores[i].post_subrequest
    BY <1>1 DEF Subrequests
  <2> HIDE DEF s
  <2> QED BY <2>1, <2>2, SubrequestStepKeeps
<1>3. CASE SrHeader(i)
  <2> DEFINE r == Resumed(stores[i])
             s == [r EXCEPT !.header_sent = TRUE, !.ignore_body = r.has_ctx]
  <2>1. /\ r \in Subrequests /\ r.has_ctx = TRUE
        /\ r.body = stores[i].body /\ r.status = stores[i].status
        /\ r.content_length_n = stores[i].content_length_n
        /\ r.expire = stores[i].expire /\ r.at = stores[i].at
        /\ r.set_up = stores[i].set_up
        /\ r.post_subrequest = stores[i].post_subrequest
    BY <1>1, ResumedTyped
  <2>2. /\ stores' = [stores EXCEPT ![i] = s] /\ UnchangedMain
        /\ leaked' = (leaked \/ ~r.has_ctx)
    BY <1>3 DEF SrHeader
  <2> HIDE DEF r
  <2>3. /\ s \in Subrequests
        /\ s.body = r.body /\ s.status = r.status
        /\ s.content_length_n = r.content_length_n
        /\ s.expire = r.expire /\ s.at = r.at /\ s.set_up = r.set_up
        /\ s.post_subrequest = r.post_subrequest
    BY <2>1 DEF Subrequests
  <2>4. ~leaked' BY <1>1, <2>1, <2>2
  <2> HIDE DEF s
  <2> QED BY <2>1, <2>2, <2>3, <2>4, SubrequestStepKeeps
<1>4. CASE SrEnd(i)
  <2> DEFINE s == [stores[i] EXCEPT !.active = FALSE]
  <2>1. stores' = [stores EXCEPT ![i] = s] /\ UnchangedMain /\ ~leaked'
    BY <1>1, <1>4 DEF SrEnd
  <2>2. /\ s \in Subrequests
        /\ s.body = stores[i].body /\ s.status = stores[i].status
        /\ s.content_length_n = stores[i].content_length_n
        /\ s.expire = stores[i].expire /\ s.at = stores[i].at
        /\ s.set_up = stores[i].set_up
        /\ s.post_subrequest = stores[i].post_subrequest
    BY <1>1 DEF Subrequests
  <2> HIDE DEF s
  <2> QED BY <2>1, <2>2, SubrequestStepKeeps
<1> QED BY <1>2, <1>3, <1>4 DEF StoreStep

(* What is said of the copy and of what is stored speaks of the state only. *)
LEMMA CopyStays ==
    ASSUME CopyInv, UNCHANGED <<conf, resp, stage, status, ctx, sent>>
    PROVE  CopyInv'
<1> SUFFICES ASSUME stage = "body", Storing, ~Doomed
             PROVE  Admitted' /\ StatusFits' /\ CopyFits'
  BY DEF CopyInv, Storing, Doomed
<1>1. Admitted /\ StatusFits /\ CopyFits BY DEF CopyInv
<1>2. Admitted' BY <1>1 DEF Admitted, NotOurs, Forbids, Ages
<1>3. StatusFits' BY <1>1 DEF StatusFits, CutDown, Listed
<1>4. Passed' = Passed BY DEF Passed
<1>5. CopyFits' BY <1>1, <1>4 DEF CopyFits
<1> QED BY <1>2, <1>3, <1>5

LEMMA StoredStays ==
    ASSUME StoredInv, UNCHANGED <<conf, resp, status, sent, stores, header_at>>
    PROVE  StoredInv'
<1>1. StoredIsWhole /\ StoredLengthIsRight /\ NothingForbiddenIsStored
      /\ EntryDiesInTime
  BY DEF StoredInv
<1>2. StoredIsWhole'
  BY <1>1, WholeStays
<1>3. StoredLengthIsRight' BY <1>1 DEF StoredLengthIsRight, Copies
<1>4. NothingForbiddenIsStored'
  BY <1>1 DEF NothingForbiddenIsStored, NotOurs
<1>5. EntryDiesInTime'
  <2>1. /\ Ages(resp.cache_control)' = Ages(resp.cache_control)
        /\ FirstAge(resp.cache_control)' = FirstAge(resp.cache_control)
    BY DEF Ages, FirstAge
  <2> QED BY <1>1, <2>1 DEF EntryDiesInTime
<1> QED BY <1>2, <1>3, <1>4, <1>5 DEF StoredInv

LEMMA CloseKeeps == ASSUME Inv, Close PROVE Inv'
<1>1. /\ stage = "last" /\ stage' = "closed"
      /\ UNCHANGED <<conf, resp, status, content_length_n, ctx, sent, client,
                     stores, leaked, header_at, now>>
  BY DEF Close
<1>2. Typed' BY <1>1 DEF Inv, Typed
<1>3. CopyInv' /\ HeaderInv' /\ StartInv' /\ SkipInv' /\ StoresInv' /\ Captive'
  BY <1>1 DEF Inv, CopyInv, HeaderInv, StartInv, SkipInv, StoresInv, Captive
<1>4. LifeInv' BY <1>1, LifeStays DEF Inv
<1>5. StoredInv' BY <1>1, StoredStays DEF Inv
<1>6. ClientGetsTheResponse' BY <1>1 DEF Inv, ClientGetsTheResponse
<1>7. StatusTellsOfTheStore'
  BY <1>1 DEF Inv, StatusTellsOfTheStore, StoreStatus
<1> QED BY <1>2, <1>3, <1>4, <1>5, <1>6, <1>7 DEF Inv

LEMMA TickKeeps == ASSUME Inv, Tick PROVE Inv'
<1>1. /\ now' = now + 1 /\ stage \in {"header", "body"}
      /\ UNCHANGED <<conf, resp, stage, status, content_length_n, ctx, sent,
                     client, stores, leaked, header_at>>
  BY DEF Tick
<1>2. Typed' BY <1>1 DEF Inv, Typed
<1>3. HeaderInv' /\ StartInv' /\ SkipInv'
  BY <1>1 DEF Inv, HeaderInv, StartInv, SkipInv, Storing, Doomed
<1>4. LifeInv' BY <1>1, LifeStays DEF Inv
<1>5. CopyInv' BY <1>1, CopyStays DEF Inv
<1>6. ClientGetsTheResponse' BY <1>1 DEF Inv, ClientGetsTheResponse
<1>7. stores' = <<>> /\ stage' # "last" BY <1>1 DEF Inv, StoresInv
<1> QED BY <1>2, <1>3, <1>4, <1>5, <1>6, <1>7, NothingStored DEF Inv

LEMMA StutterKeeps == ASSUME Inv, UNCHANGED vars PROVE Inv'
<1> USE DEF vars
<1>1. Typed' BY DEF Inv, Typed
<1>2. HeaderInv' /\ StartInv' /\ SkipInv' /\ StoresInv' /\ Captive'
  BY DEF Inv, HeaderInv, StartInv, SkipInv, StoresInv, Captive, Storing, Doomed
<1>3. LifeInv' BY LifeStays DEF Inv
<1>4. CopyInv' BY CopyStays DEF Inv
<1>5. StoredInv' BY StoredStays DEF Inv
<1>6. ClientGetsTheResponse' /\ StatusTellsOfTheStore'
  BY DEF Inv, ClientGetsTheResponse, StatusTellsOfTheStore, StoreStatus
<1> QED BY <1>1, <1>2, <1>3, <1>4, <1>5, <1>6 DEF Inv

LEMMA Step == ASSUME Inv, [Next]_vars PROVE Inv'
<1>1. CASE HeaderFilter
  BY <1>1, HeaderBypassKeeps, HeaderSkipKeeps, HeaderRefuseKeeps,
     HeaderStoreKeeps, HeaderNoMemoryKeeps
  DEF HeaderFilter
<1>2. CASE RangeFilter \/ RangeRefused \/ UpstreamFails \/ Abort
  BY <1>2, RangeFilterKeeps, RangeRefusedKeeps, UpstreamFailsKeeps, AbortKeeps
<1>3. CASE BodyFilter BY <1>3, BodyFilterKeeps
<1>4. CASE \E i \in 1..Len(stores) : StoreStep(i) \/ SrEnd(i)
  BY <1>4, SubrequestKeeps
<1>5. CASE Close \/ Tick BY <1>5, CloseKeeps, TickKeeps
<1>6. CASE Terminated \/ UNCHANGED vars BY <1>6, StutterKeeps DEF Terminated
<1> QED BY <1>1, <1>2, <1>3, <1>4, <1>5, <1>6 DEF Next

LEMMA Invariance == Spec => []Inv
<1>1. Init => Inv BY Initially
<1>2. Inv /\ [Next]_vars => Inv' BY Step
<1> QED BY <1>1, <1>2, PTL DEF Spec

-----------------------------------------------------------------------------
(* What is handed to the cache is one header block with the status the      *)
(* client saw and the whole body after it; only of a response that was a    *)
(* 502 from the beginning it may be what came of it                         *)
(* (ngx_http_srcache_body_filter).                                          *)
THEOREM WhatIsStoredIsWhole == Spec => []StoredIsWhole
<1>1. Inv => StoredIsWhole BY DEF Inv, StoredInv
<1> QED BY <1>1, Invariance, PTL

(* The Content-Length of the store subrequest is the length of its body,    *)
(* but for the header counted twice when a 416 page takes the place of a    *)
(* response, and srcache_store_max_size is kept                             *)
(* (ngx_http_srcache_store_subrequest, ngx_http_srcache_body_filter).       *)
THEOREM AnnouncedLengthIsRight == Spec => []StoredLengthIsRight
<1>1. Inv => StoredLengthIsRight BY DEF Inv, StoredInv
<1> QED BY <1>1, Invariance, PTL

(* Nothing is stored that the location, the status list, Cache-Control or   *)
(* srcache_store_skip keeps out, wherever in the response's life that is    *)
(* found out (ngx_http_srcache_header_filter, _body_filter and              *)
(* ngx_http_srcache_response_no_cache).                                     *)
THEOREM ForbiddenIsNotStored == Spec => []NothingForbiddenIsStored
<1>1. Inv => NothingForbiddenIsStored BY DEF Inv, StoredInv
<1> QED BY <1>1, Invariance, PTL

(* However long the body takes, $srcache_expire does not let the entry      *)
(* outlive the max-age of the response                                      *)
(* (ngx_http_srcache_expire_variable, ngx_http_srcache_response_no_cache).  *)
THEOREM StoredDiesInTime == Spec => []EntryDiesInTime
<1>1. Inv => EntryDiesInTime BY DEF Inv, StoredInv
<1> QED BY <1>1, Invariance, PTL

(* The client has been sent every piece that reached the body filter, and   *)
(* nothing of what the store location answers                               *)
(* (ngx_http_srcache_body_filter, ngx_http_srcache_header_filter).          *)
THEOREM StoringIsNotNoticed == Spec => []ClientGetsTheResponse
<1>1. Inv => ClientGetsTheResponse BY DEF Inv
<1> QED BY <1>1, Invariance, PTL

(* $srcache_store_status is STORE at the end exactly if a store subrequest  *)
(* was issued and set up to the end, and at most one is issued; one whose   *)
(* set-up fails runs all the same (ngx_http_srcache_store_status_variable,  *)
(* ngx_http_srcache_body_filter, ngx_http_srcache_store_subrequest).        *)
THEOREM StoreStatusIsTrue == Spec => []StatusTellsOfTheStore
<1>1. Inv => StatusTellsOfTheStore BY DEF Inv
<1> QED BY <1>1, Invariance, PTL
=============================================================================

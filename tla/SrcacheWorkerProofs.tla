------------------------ MODULE SrcacheWorkerProofs ------------------------
(***************************************************************************)
(* For any number of requests, responses and lifetimes, and any time that  *)
(* a store subrequest may take: an entry does not outlive what the origin  *)
(* allowed, and the requests of a worker implement TransparentCache.  Both *)
(* under NoZeroTime, which a cache that takes a time of 0 as over always   *)
(* fulfils: of memcached, which keeps such an entry for good, they say     *)
(* nothing from the first store subrequest on that carries a 0.            *)
(*                                                                         *)
(* The properties are not inductive: what may be in the cache in a while   *)
(* is with the requests now.  So Inv follows a lifetime from the header    *)
(* filter, where it is counted in due, through the body and the store      *)
(* subrequest into the cache: in each place what is left of it is at most  *)
(* due, plus the time the subrequest has been under way.                   *)
(***************************************************************************)
EXTENDS SrcacheWorker, TLAPS

Unasked == {"new", "fetching", "content"}
Unsettled == Unasked \cup {"replying", "header"}
Stages == Unsettled \cup {"body", "storing", "answered"}

(* Every variable keeps its type.                                           *)
Typed ==
    /\ version \in Versions
    /\ cache \in Responses \cup {Nothing} /\ left \in Nat
    /\ stage \in [Requests -> Stages]
    /\ response \in [Requests -> Responses \cup {Nothing}]
    /\ from_cache \in [Requests -> BOOLEAN]
    /\ store_response \in [Requests -> BOOLEAN]
    /\ valid \in [Requests -> Int]
    /\ expire \in [Requests -> Int] /\ flown \in [Requests -> Int]
    /\ answer \in [Requests -> Int]
    /\ due \in [Versions -> Int] /\ \A v \in Versions : due[v] >= -Slack
    /\ kept \in [Requests -> BOOLEAN]

(* The entry may be used for as long as it is in the cache.                 *)
EntryIsDue ==
    cache # Nothing => left >= 1 /\ due[cache.version] >= left - Slack

(* What a request has at each stage.                                        *)
Progress(r) ==
    /\ stage[r] \in Unasked => response[r] = Nothing
    /\ stage[r] \in {"header", "body", "storing"} => response[r] # Nothing
    /\ stage[r] \in Unasked \cup {"replying"} => ~from_cache[r]
    /\ stage[r] \in Unsettled => ~store_response[r] /\ ~kept[r]
    /\ stage[r] \in Unsettled \cup {"body"} => answer[r] = NoAnswer
    /\ from_cache[r] => ~store_response[r] /\ ~kept[r]

(* What is left of a lifetime, while the body and its copy are on their way.*)
LifetimeIsDue(r) ==
    /\ stage[r] = "body" /\ store_response[r] =>
           IF Aged(r)
           THEN valid[r] >= 0 => due[response[r].version] >= valid[r]
           ELSE ~kept[r]
    /\ stage[r] = "storing" =>
           /\ flown[r] \in 0..Slack
           /\ expire[r] > 0 => due[response[r].version] >= expire[r] - flown[r]

Inv ==
    /\ Typed /\ EntryIsDue
    /\ \A r \in Requests : Progress(r) /\ LifetimeIsDue(r)
-----------------------------------------------------------------------------
(* What a request has got is a response, unless it is Nothing.              *)
LEMMA Versioned ==
    ASSUME Inv, NEW r \in Requests, response[r] # Nothing
    PROVE  response[r] \in Responses /\ response[r].version \in Versions
BY DEF Inv, Typed, Responses

(* Counting a lifetime makes due long enough for it, and shortens nothing.  *)
LEMMA Counted ==
    ASSUME Inv, NEW r \in Requests, NEW lifetime \in Nat, response[r] # Nothing,
           Counts(r, lifetime)
    PROVE  /\ due' \in [Versions -> Int] /\ kept' \in [Requests -> BOOLEAN]
           /\ \A v \in Versions : due'[v] >= due[v]
           /\ due'[response[r].version] >= lifetime
           /\ kept' = [kept EXCEPT ![r] = TRUE]
BY Versioned DEF Inv, Typed, Counts, Longer

(* A request whose own state stays as it is keeps its lifetime, whatever    *)
(* another one adds to due.                                                 *)
LEMMA OthersKeepTheirs ==
    ASSUME Inv, NEW q \in Requests,
           stage'[q] = stage[q], response'[q] = response[q],
           store_response'[q] = store_response[q], valid'[q] = valid[q],
           kept'[q] = kept[q], expire'[q] = expire[q], flown'[q] = flown[q],
           due' \in [Versions -> Int], \A v \in Versions : due'[v] >= due[v]
    PROVE  LifetimeIsDue(q)'
BY Versioned DEF Inv, Typed, Progress, LifetimeIsDue, Aged

-----------------------------------------------------------------------------
(* The invariant holds at first, and every action keeps it.                 *)

(* At first the cache is empty and every request is new.                    *)
LEMMA InitInv == Init => Inv
BY NumbersAssumption DEF Init, Inv, Typed, EntryIsDue, Progress, LifetimeIsDue,
   Everywhere, Unasked, Unsettled, Stages, Versions, Responses, Nothing,
   NoAnswer, NoAge, Forbidden

(* The steps of a request that leave the cache and the lifetimes alone.     *)
LEMMA QuietSteps ==
    ASSUME Inv, NEW r \in Requests,
           \/ AccessFetch(r) \/ AccessStoreOnly(r) \/ Lookup(r)
           \/ FetchHit(r) \/ FetchMiss(r) \/ ContentFails(r)
           \/ HeaderBypass(r) \/ BodyEnds(r) \/ BodyAborted(r) \/ StoreLost(r)
    PROVE  Inv'
<1> USE DEF Inv, Typed, EntryIsDue, Progress, LifetimeIsDue, Unasked, Unsettled,
        Stages, At, NoAnswer, Failed, Aged, origin_and_cache, ctx, store, history
<1>1. CASE AccessFetch(r)
  BY <1>1 DEF AccessFetch
<1>2. CASE AccessStoreOnly(r)
  BY <1>2 DEF AccessStoreOnly
<1>3. CASE Lookup(r)
  BY <1>3 DEF Lookup
<1>4. CASE FetchHit(r)
  BY <1>4 DEF FetchHit
<1>5. CASE FetchMiss(r)
  BY <1>5 DEF FetchMiss
<1>6. CASE ContentFails(r)
  BY <1>6 DEF ContentFails
<1>7. CASE HeaderBypass(r)
  BY <1>7 DEF HeaderBypass
<1>8. CASE BodyEnds(r)
  <2>1. response[r].version \in Int
    BY <1>8, Versioned DEF BodyEnds, Versions
  <2> QED BY <1>8, <2>1 DEF BodyEnds, Delivers
<1>9. CASE BodyAborted(r)
  BY <1>9 DEF BodyAborted, Delivers
<1>10. CASE StoreLost(r)
  BY <1>10 DEF StoreLost, Arrived
<1> QED BY <1>1, <1>2, <1>3, <1>4, <1>5, <1>6, <1>7, <1>8, <1>9, <1>10

(* The origin's response is one of the responses.                           *)
LEMMA ContentStep ==
    ASSUME Inv, NEW r \in Requests, NEW max_age \in Ages, Content(r, max_age)
    PROVE  Inv'
<1> USE DEF Content, At, Unasked, Unsettled, Stages, Responses, Ages,
        origin_and_cache, ctx, store, history
<1>1. Typed'
  BY DEF Inv, Typed
<1>2. EntryIsDue'
  BY DEF Inv, EntryIsDue
<1>3. \A q \in Requests : Progress(q)'
  <2> TAKE q \in Requests
  <2>1. Progress(q) /\ Progress(r) BY DEF Inv
  <2>2. version # 0 BY NumbersAssumption DEF Inv, Typed, Versions
  <2>3. CASE q = r BY <2>1, <2>2, <2>3 DEF Inv, Progress, Typed, Nothing
  <2>4. CASE q # r BY <2>1, <2>4 DEF Inv, Progress, Typed
  <2> QED BY <2>3, <2>4
<1>4. \A q \in Requests : LifetimeIsDue(q)'
  BY DEF Inv, LifetimeIsDue, Typed, Aged
<1> QED BY <1>1, <1>2, <1>3, <1>4 DEF Inv

(* The header filter counts the lifetime that the body then carries.        *)
LEMMA HeaderStoreStep ==
    ASSUME Inv, NEW r \in Requests, HeaderStore(r)
    PROVE  Inv'
<1>1. /\ response[r] \in Responses /\ response[r] # Nothing /\ ~from_cache[r]
      /\ Aged(r) => response[r].max_age \in Nat
  BY NumbersAssumption, Versioned
     DEF Inv, Progress, HeaderStore, At, Storable, Aged, Responses
<1>2. /\ due' \in [Versions -> Int] /\ kept' \in [Requests -> BOOLEAN]
      /\ \A v \in Versions : due'[v] >= due[v]
      /\ IF Aged(r) THEN /\ due'[response[r].version] >= response[r].max_age
                         /\ kept' = [kept EXCEPT ![r] = TRUE]
                    ELSE kept' = kept
  <2>1. CASE Aged(r)
    BY <1>1, <2>1, Counted DEF HeaderStore
  <2>2. CASE ~Aged(r)
    BY <1>1, <2>2 DEF HeaderStore, history, Inv, Typed
  <2> QED BY <2>1, <2>2
<1>3. Typed'
  <2>1. /\ stage' \in [Requests -> Stages]
        /\ response' \in [Requests -> Responses \cup {Nothing}]
        /\ store_response' \in [Requests -> BOOLEAN]
        /\ from_cache' \in [Requests -> BOOLEAN]
    BY DEF Inv, Typed, HeaderStore, At, Stages
  <2>2. /\ valid' \in [Requests -> Int] /\ expire' \in [Requests -> Int]
        /\ flown' \in [Requests -> Int] /\ answer' \in [Requests -> Int]
    BY <1>1 DEF Inv, Typed, HeaderStore, store
  <2>3. /\ version' \in Versions /\ left' \in Nat
        /\ cache' \in Responses \cup {Nothing}
        /\ \A v \in Versions : due'[v] >= -Slack
    BY <1>2, NumbersAssumption DEF Inv, Typed, HeaderStore, origin_and_cache
  <2> QED BY <1>2, <2>1, <2>2, <2>3 DEF Typed
<1>4. EntryIsDue'
  BY <1>2, NumbersAssumption
     DEF Inv, EntryIsDue, Typed, HeaderStore, origin_and_cache, Responses
<1>5. \A q \in Requests : Progress(q)'
  BY DEF Inv, Progress, Typed, HeaderStore, Storable, At, Counts, history,
     Unasked, Unsettled
<1>6. \A q \in Requests : LifetimeIsDue(q)'
  <2>1. LifetimeIsDue(r)'
    BY <1>1, <1>2
       DEF Inv, LifetimeIsDue, Typed, HeaderStore, Progress, Aged, At, Unsettled
  <2>2. ASSUME NEW q \in Requests \ {r} PROVE LifetimeIsDue(q)'
    BY <1>2, OthersKeepTheirs DEF Inv, Typed, HeaderStore, At, store
  <2> QED BY <2>1, <2>2
<1> QED BY <1>3, <1>4, <1>5, <1>6 DEF Inv

(* What is left of it, or the default, goes with the store subrequest.      *)
LEMMA StoreSubrequestStep ==
    ASSUME Inv, NEW r \in Requests, StoreSubrequest(r)
    PROVE  Inv'
<1>1. /\ response[r] # Nothing /\ response[r].version \in Versions
      /\ ~from_cache[r] /\ Expire(r) \in Int
  BY NumbersAssumption, Versioned
     DEF Inv, Typed, Progress, StoreSubrequest, At, Expire
<1>2. /\ due' \in [Versions -> Int] /\ kept' \in [Requests -> BOOLEAN]
      /\ \A v \in Versions : due'[v] >= due[v]
      /\ Expire(r) > 0 => due'[response[r].version] >= Expire(r)
      /\ \A q \in Requests \ {r} : kept'[q] = kept[q]
  <2>1. CASE Aged(r)
    BY <1>1, <2>1
       DEF StoreSubrequest, history, Inv, Typed, LifetimeIsDue, At, Expire
  <2>2. CASE ~Aged(r)
    BY <1>1, <2>2, NumbersAssumption, Counted
       DEF StoreSubrequest, Expire, Inv, Typed
  <2> QED BY <2>1, <2>2
<1>3. Typed'
  <2>1. /\ stage' \in [Requests -> Stages]
        /\ response' \in [Requests -> Responses \cup {Nothing}]
        /\ store_response' \in [Requests -> BOOLEAN]
        /\ from_cache' \in [Requests -> BOOLEAN]
    BY DEF Inv, Typed, StoreSubrequest, Delivers, At, Stages
  <2>2. /\ valid' \in [Requests -> Int] /\ expire' \in [Requests -> Int]
        /\ flown' \in [Requests -> Int] /\ answer' \in [Requests -> Int]
    BY <1>1 DEF Inv, Typed, StoreSubrequest, Delivers, Versions
  <2>3. /\ version' \in Versions /\ left' \in Nat
        /\ cache' \in Responses \cup {Nothing}
        /\ \A v \in Versions : due'[v] >= -Slack
    BY <1>2, NumbersAssumption DEF Inv, Typed, StoreSubrequest, origin_and_cache
  <2> QED BY <1>2, <2>1, <2>2, <2>3 DEF Typed
<1>4. EntryIsDue'
  BY <1>2, NumbersAssumption
     DEF Inv, EntryIsDue, Typed, StoreSubrequest, origin_and_cache, Responses
<1>5. \A q \in Requests : Progress(q)'
  BY <1>1, <1>2
     DEF Inv, Progress, Typed, StoreSubrequest, Delivers, At, Unasked, Unsettled
<1>6. \A q \in Requests : LifetimeIsDue(q)'
  <2>1. LifetimeIsDue(r)'
    BY <1>1, <1>2, NumbersAssumption
       DEF Inv, LifetimeIsDue, Typed, StoreSubrequest, At
  <2>2. ASSUME NEW q \in Requests \ {r} PROVE LifetimeIsDue(q)'
    BY <1>2, OthersKeepTheirs DEF Inv, Typed, StoreSubrequest, Delivers, At
  <2> QED BY <2>1, <2>2
<1> QED BY <1>3, <1>4, <1>5, <1>6 DEF Inv

(* The subrequest puts into the cache what it still carries.                *)
LEMMA StoreArrivesStep ==
    ASSUME Inv, NoZeroTime, NEW r \in Requests, StoreArrives(r)
    PROVE  Inv'
<1> USE DEF StoreArrives, Arrived, At, Unasked, Unsettled, Stages, ctx, history
<1>1. /\ response[r] \in Responses
      /\ left' \in Nat
      /\ left' # 0 => due[response[r].version] >= left' - Slack
  BY NumbersAssumption, Versioned
     DEF Inv, Typed, Progress, LifetimeIsDue, TimeKept, NoZeroTime
<1>2. Typed'
  BY <1>1 DEF Inv, Typed
<1>3. EntryIsDue'
  BY <1>1 DEF EntryIsDue
<1>4. \A q \in Requests : Progress(q)'
  BY DEF Inv, Progress, Typed
<1>5. \A q \in Requests : LifetimeIsDue(q)'
  BY DEF Inv, LifetimeIsDue, Typed, Aged
<1> QED BY <1>2, <1>3, <1>4, <1>5 DEF Inv

(* A request that starts anew owes nothing.                                 *)
LEMMA ResetStep ==
    ASSUME Inv, NEW rs \in SUBSET Requests, Reset(rs)
    PROVE  Inv'
<1> USE DEF Reset, Cleared, Unasked, Unsettled, Stages, origin_and_cache
<1>1. Typed'
  <2>1. /\ stage' \in [Requests -> Stages]
        /\ response' \in [Requests -> Responses \cup {Nothing}]
        /\ store_response' \in [Requests -> BOOLEAN]
        /\ from_cache' \in [Requests -> BOOLEAN]
        /\ kept' \in [Requests -> BOOLEAN]
    BY DEF Inv, Typed
  <2>2. /\ valid' \in [Requests -> Int] /\ expire' \in [Requests -> Int]
        /\ flown' \in [Requests -> Int] /\ answer' \in [Requests -> Int]
    BY DEF Inv, Typed, NoAnswer
  <2>3. UNCHANGED <<version, cache, left, due>>
    OBVIOUS
  <2> QED BY <2>1, <2>2, <2>3 DEF Inv, Typed
<1>2. EntryIsDue'
  BY DEF Inv, EntryIsDue
<1>3. \A q \in Requests : Progress(q)' /\ LifetimeIsDue(q)'
  BY DEF Inv, Progress, LifetimeIsDue, Aged, Typed
<1> QED BY <1>1, <1>2, <1>3 DEF Inv

(* The origin and the cache by themselves.                                  *)
LEMMA OutsideSteps ==
    ASSUME Inv, Change \/ Evict
    PROVE  Inv'
<1> USE DEF Inv, Typed, EntryIsDue, Progress, LifetimeIsDue, Aged, ctx, store,
        history
<1>1. CASE Change
  BY <1>1, NumbersAssumption DEF Change, Versions
<1>2. CASE Evict
  BY <1>2 DEF Evict
<1> QED BY <1>1, <1>2

(* A second takes one from what is left everywhere.                         *)
LEMMA TickStep ==
    ASSUME Inv, Tick
    PROVE  Inv'
<1>1. \A v \in Versions :
          due'[v] \in Int /\ due'[v] >= due[v] - 1 /\ due'[v] >= -Slack
  BY NumbersAssumption DEF Inv, Typed, Tick, Longer
<1>2. Typed'
  BY <1>1, NumbersAssumption DEF Inv, Typed, Tick, Longer
<1>3. EntryIsDue'
  BY <1>1, NumbersAssumption DEF Inv, EntryIsDue, Typed, Tick, Responses
<1>4. \A q \in Requests : Progress(q)'
  BY DEF Inv, Progress, Tick
<1>5. \A q \in Requests : LifetimeIsDue(q)'
  <2>1. ASSUME NEW q \in Requests, stage[q] \in {"body", "storing"}
        PROVE  response[q].version \in Versions
    BY <2>1, Versioned DEF Inv, Progress
  <2> QED
    BY <1>1, <2>1, NumbersAssumption DEF Inv, LifetimeIsDue, Typed, Tick, Aged
<1> QED BY <1>2, <1>3, <1>4, <1>5 DEF Inv

(* Together: Inv is inductive, under NoZeroTime.                            *)
LEMMA NextInv == Inv /\ NoZeroTime /\ [Next]_vars => Inv'
<1> SUFFICES ASSUME Inv, NoZeroTime, [Next]_vars PROVE Inv'
  OBVIOUS
<1>1. CASE UNCHANGED vars
  BY <1>1 DEF Inv, Typed, EntryIsDue, Progress, LifetimeIsDue, Aged, vars,
     origin_and_cache, ctx, store, history
<1>2. ASSUME NEW r \in Requests, AccessFetch(r) \/ AccessStoreOnly(r)
      PROVE  Inv'
  BY <1>2, QuietSteps
<1>3. ASSUME NEW r \in Requests, Step(r)
      PROVE  Inv'
  <2>1. CASE \E max_age \in Ages : Content(r, max_age)
    BY <2>1, ContentStep
  <2>2. CASE HeaderStore(r) \/ StoreSubrequest(r) \/ StoreArrives(r)
    BY <2>2, HeaderStoreStep, StoreSubrequestStep, StoreArrivesStep
  <2>3. CASE Finished(r)
    BY <2>3, ResetStep DEF Finished
  <2> QED BY <1>3, <2>1, <2>2, <2>3, QuietSteps DEF Step
<1>4. ASSUME NEW rs \in SUBSET Requests, WorkerDies(rs)
      PROVE  Inv'
  BY <1>4, ResetStep DEF WorkerDies
<1>5. CASE Change \/ Evict \/ Tick
  BY <1>5, OutsideSteps, TickStep
<1> QED BY <1>1, <1>2, <1>3, <1>4, <1>5 DEF Next

(* So it always holds.                                                      *)
LEMMA Invariance == Spec /\ []NoZeroTime => []Inv
<1>1. Inv /\ NoZeroTime /\ [Next]_vars => Inv'
  BY NextInv
<1> QED BY <1>1, InitInv, PTL DEF Spec

(* As long as memcached is given no time of 0, and whatever another cache   *)
(* is given, no entry outlives what the origin allowed and the time its     *)
(* store subrequest took (var.c:77-82).                                     *)
THEOREM EntriesDieInTime == Spec /\ []NoZeroTime => []EntryIsInTime
<1>1. Inv => EntryIsInTime
  BY NumbersAssumption DEF Inv, Typed, EntryIsDue, EntryIsInTime, Responses
<1> QED BY <1>1, Invariance, PTL
-----------------------------------------------------------------------------
(* TransparentCache: every step of Next is one of its steps, or changes     *)
(* nothing that it speaks of.                                               *)

Sources == [r \in Requests |-> Source(r)]

(* What a request has got changes by its own steps only.                    *)
LEMMA OneSource ==
    ASSUME NEW r \in Requests, NEW STATE s, Source(r)' = s,
           \A q \in Requests \ {r} : Source(q)' = Source(q)
    PROVE  Sources' = [Sources EXCEPT ![r] = s]
BY DEF Sources

(* A step that changes no request's source leaves Sources alone.            *)
LEMMA SameSources ==
    ASSUME \A q \in Requests : Source(q)' = Source(q)
    PROVE  Sources' = Sources
BY DEF Sources

(* Counting a lifetime, as both specifications put it.                      *)
LEMMA KeptSource ==
    ASSUME NEW r \in Requests, NEW STATE v,
           Source(r) = [origin |-> TRUE, version |-> v, kept |-> FALSE],
           Source(r)' = [origin |-> TRUE, version |-> v, kept |-> TRUE],
           \A q \in Requests \ {r} : Source(q)' = Source(q)
    PROVE  Sources' = [Sources EXCEPT
               ![r] = [origin |-> TRUE, version |-> @.version, kept |-> TRUE]]
<1>1. Sources[r].version = v
  BY DEF Sources
<1>2. Sources' = [Sources EXCEPT
          ![r] = [origin |-> TRUE, version |-> v, kept |-> TRUE]]
  BY OneSource
<1> QED BY <1>1, <1>2

(* And so the time for which its version may be used again.                 *)
LEMMA CountedOnce ==
    ASSUME Inv, NEW r \in Requests, NEW lifetime \in Nat, response[r] # Nothing,
           Counts(r, lifetime)
    PROVE  due' = [due EXCEPT ![response[r].version] =
                       IF lifetime > @ THEN lifetime ELSE @]
<1>1. due[response[r].version] \in Int
  BY Versioned DEF Inv, Typed
<1>2. Longer(due[response[r].version], lifetime) =
          IF lifetime > due[response[r].version] THEN lifetime
                                                 ELSE due[response[r].version]
  BY <1>1 DEF Longer
<1> QED BY <1>2 DEF Counts

(* At first nobody has a source, and nothing may be used again.             *)
LEMMA InitMaps == Init => T!Init
<1> SUFFICES ASSUME Init PROVE T!Init
  OBVIOUS
<1>1. ASSUME NEW r \in Requests PROVE Source(r) = T!NoSource
  BY DEF Init, Everywhere, Source, Nothing, T!NoSource, T!Nothing
<1>2. Sources = [r \in Requests |-> T!NoSource]
  BY <1>1 DEF Sources
<1> QED BY <1>2 DEF Init, T!Init, T!Nothing, T!Versions, Versions, Everywhere,
   NoAnswer, Sources

(* A request that has nothing of its own yet is one without a source.       *)
LEMMA UnaskedHasNoSource ==
    ASSUME Inv, NEW r \in Requests, stage[r] \in Unasked
    PROVE  Source(r) = T!NoSource /\ answer[r] = T!Nothing
<1>1. response[r] = Nothing /\ kept[r] = FALSE /\ answer[r] = NoAnswer
  BY DEF Inv, Typed, Progress, Unasked, Unsettled
<1>2. Nothing.version = T!Nothing /\ NoAnswer = T!Nothing
  BY DEF Nothing, NoAnswer, T!Nothing
<1> QED BY <1>1, <1>2 DEF Source, T!NoSource

(* The fetch recalls a copy, or drops it; what it recalls is still due.     *)
LEMMA FetchMaps ==
    ASSUME Inv, NEW r \in Requests,
           \/ AccessFetch(r) \/ AccessStoreOnly(r) \/ Lookup(r)
           \/ FetchHit(r) \/ FetchMiss(r)
    PROVE  T!Next \/ UNCHANGED T!vars
<1>1. CASE AccessFetch(r) \/ AccessStoreOnly(r)
  <2>1. \A q \in Requests : Source(q)' = Source(q)
    BY <1>1 DEF AccessFetch, AccessStoreOnly, At, Inv, Typed, Progress, Source,
       ctx, history, Unasked
  <2> QED BY <1>1, <2>1, SameSources DEF AccessFetch, AccessStoreOnly, Sources,
     T!vars, origin_and_cache, history
<1>2. CASE Lookup(r)
  <2>1. \A q \in Requests \ {r} : Source(q)' = Source(q)
    BY <1>2 DEF Lookup, At, Inv, Typed, Source, ctx, history
  <2>2. Source(r)' = [origin |-> FALSE, version |-> cache.version, kept |-> FALSE]
    BY <1>2 DEF Lookup, At, Inv, Typed, Progress, Source, ctx, history, Unasked,
       Unsettled
  <2>3. answer[r] = T!Nothing
    BY <1>2, UnaskedHasNoSource DEF Lookup, At, Unasked
  <2>4. CASE cache = Nothing
    <3>1. T!Drop(r)
      BY <1>2, <2>1, <2>2, <2>3, <2>4, OneSource
         DEF Lookup, T!Drop, T!Gets, T!NoSource, T!Nothing, Nothing, Sources,
             origin_and_cache, history
    <3> QED BY <3>1 DEF T!Next
  <2>5. CASE cache # Nothing
    <3>1. /\ cache.version \in T!Versions /\ due[cache.version] > -Slack
      BY <2>5, NumbersAssumption
         DEF Inv, Typed, EntryIsDue, Responses, Versions, T!Versions
    <3>2. T!Recall(r, cache.version)
      BY <1>2, <2>1, <2>2, <2>3, <3>1, OneSource
         DEF Lookup, T!Recall, T!Gets, Sources, origin_and_cache, history
    <3> QED BY <3>1, <3>2 DEF T!Next
  <2> QED BY <2>4, <2>5
<1>3. CASE FetchHit(r)
  <2>1. \A q \in Requests : Source(q)' = Source(q)
    BY <1>3 DEF FetchHit, At, Inv, Typed, Progress, Source, history
  <2> QED BY <1>3, <2>1, SameSources DEF FetchHit, Sources, T!vars,
     origin_and_cache, history
<1>4. CASE FetchMiss(r)
  <2>1. \A q \in Requests \ {r} : Source(q)' = Source(q)
    BY <1>4 DEF FetchMiss, At, Inv, Typed, Source, ctx, history
  <2>2. Source(r)' = T!NoSource /\ answer[r] = T!Nothing
    BY <1>4 DEF FetchMiss, At, Inv, Typed, Progress, Source, ctx, history,
       Unsettled, Nothing, NoAnswer, T!NoSource, T!Nothing
  <2>3. T!Drop(r)
    BY <1>4, <2>1, <2>2, OneSource
       DEF FetchMiss, T!Drop, T!Gets, T!NoSource, Sources, origin_and_cache, history
  <2> QED BY <2>3 DEF T!Next
<1> QED BY <1>1, <1>2, <1>3, <1>4

(* The origin is asked, and its answer counted, once.                       *)
LEMMA ContentMaps ==
    ASSUME Inv, NEW r \in Requests, NEW max_age \in Ages, Content(r, max_age)
    PROVE  T!Next
<1>1. \A q \in Requests \ {r} : Source(q)' = Source(q)
  BY DEF Content, At, Inv, Typed, Source, ctx, history
<1>2. Source(r)' = [origin |-> TRUE, version |-> version, kept |-> FALSE]
  <2>1. /\ response'[r] # Nothing /\ response'[r].version = version
        /\ stage'[r] # "replying"
    BY NumbersAssumption DEF Content, At, Inv, Typed, Versions, Nothing
  <2>2. from_cache'[r] = FALSE /\ kept'[r] = FALSE
    BY DEF Content, At, Inv, Typed, Progress, ctx, history, Unasked, Unsettled
  <2> QED BY <2>1, <2>2 DEF Source
<1>3. answer[r] = T!Nothing
  BY UnaskedHasNoSource DEF Content, At, Unasked
<1>4. T!AskOrigin(r)
  BY <1>1, <1>2, <1>3, OneSource
     DEF Content, T!AskOrigin, T!Gets, Sources, origin_and_cache, history
<1> QED BY <1>4 DEF T!Next

(* A response that fails is an answer that fails.                           *)
LEMMA FailureMaps ==
    ASSUME Inv, NEW r \in Requests, ContentFails(r) \/ BodyAborted(r)
    PROVE  T!Next
<1>1. \A q \in Requests : Source(q)' = Source(q)
  BY DEF ContentFails, BodyAborted, Delivers, At, Inv, Typed, Source, ctx, history
<1>2. answer[r] = T!Nothing
  BY DEF ContentFails, BodyAborted, At, Inv, Progress, Unasked, Unsettled,
     NoAnswer, T!Nothing
<1>3. T!Fail(r)
  BY <1>1, <1>2, SameSources
     DEF ContentFails, BodyAborted, Delivers, T!Fail, T!Failed, Failed, Sources,
     origin_and_cache, history
<1> QED BY <1>3 DEF T!Next

(* The header filter counts max-age or Expires; without one it changes      *)
(* nothing yet.                                                             *)
LEMMA HeaderMaps ==
    ASSUME Inv, NEW r \in Requests, HeaderStore(r) \/ HeaderBypass(r)
    PROVE  T!Next \/ UNCHANGED T!vars
<1>1. CASE HeaderStore(r) /\ Aged(r)
  <2>1. /\ response[r] \in Responses /\ response[r] # Nothing /\ ~from_cache[r]
        /\ response[r].max_age \in MaxAges /\ ~kept[r] /\ stage[r] = "header"
    BY <1>1, Versioned
       DEF Inv, Progress, HeaderStore, At, Storable, Aged, Responses, Unsettled
  <2>2. Counts(r, response[r].max_age)
    BY <1>1, <2>1 DEF HeaderStore
  <2>3. Source(r) = [origin |-> TRUE, version |-> response[r].version,
                     kept |-> FALSE]
    BY <2>1 DEF Source, Inv, Typed
  <2>4. /\ Source(r)' = [origin |-> TRUE, version |-> response[r].version,
                         kept |-> TRUE]
        /\ \A q \in Requests \ {r} : Source(q)' = Source(q)
    BY <1>1, <2>1, <2>2, <2>3
       DEF HeaderStore, Counts, At, Inv, Typed, Source
  <2>5. Sources' = [Sources EXCEPT
            ![r] = [origin |-> TRUE, version |-> @.version, kept |-> TRUE]]
    BY <2>3, <2>4, KeptSource
  <2>6. due' = [due EXCEPT ![Sources[r].version] =
                    IF response[r].max_age > @ THEN response[r].max_age ELSE @]
    <3>1. Sources[r].version = response[r].version
      BY <2>3 DEF Sources
    <3>2. response[r].max_age \in Nat
      BY <2>1, NumbersAssumption
    <3> QED BY <2>1, <2>2, <3>1, <3>2, CountedOnce
  <2>7. T!Keep(r, response[r].max_age)
    BY <1>1, <2>3, <2>5, <2>6
       DEF HeaderStore, T!Keep, T!Allowed, Sources, origin_and_cache
  <2> QED BY <2>1, <2>7 DEF T!Next
<1>2. CASE HeaderBypass(r) \/ ~Aged(r)
  <2>1. \A q \in Requests : Source(q)' = Source(q)
    BY <1>2 DEF HeaderStore, HeaderBypass, At, Inv, Typed, Source, ctx, history
  <2> QED BY <1>2, <2>1, SameSources DEF HeaderStore, HeaderBypass, Sources,
     T!vars, origin_and_cache, history
<1> QED BY <1>1, <1>2

(* An answer without a lifetime of its own is counted when it is stored.    *)
LEMMA AnswerMaps ==
    ASSUME Inv, NEW r \in Requests, BodyEnds(r) \/ StoreSubrequest(r)
    PROVE  T!Next
<1>1. /\ response[r] # Nothing /\ response[r].version \in Versions
      /\ answer[r] = T!Nothing /\ stage[r] = "body"
  BY Versioned DEF BodyEnds, StoreSubrequest, At, Inv, Progress, Unsettled,
     NoAnswer, T!Nothing
<1>2. /\ Source(r).version = response[r].version /\ Source(r) # T!NoSource
      /\ Sources[r] = Source(r)
  BY <1>1 DEF Source, Sources, T!NoSource, T!Nothing, Versions
<1>3. /\ answer' = [answer EXCEPT ![r] = Sources[r].version]
      /\ version' = version
  BY <1>2 DEF BodyEnds, StoreSubrequest, Delivers, origin_and_cache
<1>4. CASE BodyEnds(r) \/ Aged(r)
  <2>1. \A q \in Requests : Source(q)' = Source(q)
    BY <1>4 DEF BodyEnds, StoreSubrequest, Delivers, At, Inv, Typed, Source,
       history
  <2>2. UNCHANGED <<Sources, due>>
    BY <1>4, <2>1, SameSources DEF BodyEnds, StoreSubrequest, history
  <2>3. T!Answer(r)
    BY <1>1, <1>2, <1>3, <2>2 DEF T!Answer, Sources
  <2> QED BY <2>3 DEF T!Next
<1>5. CASE StoreSubrequest(r) /\ ~Aged(r)
  <2>1. ~from_cache[r] /\ ~kept[r]
    BY <1>1, <1>5 DEF StoreSubrequest, Inv, Progress, LifetimeIsDue
  <2>2. Counts(r, DefaultExpire)
    BY <1>5, <2>1 DEF StoreSubrequest
  <2>3. Source(r) = [origin |-> TRUE, version |-> response[r].version,
                     kept |-> FALSE]
    BY <1>1, <2>1 DEF Source, Inv, Typed
  <2>4. /\ Source(r)' = [origin |-> TRUE, version |-> response[r].version,
                         kept |-> TRUE]
        /\ \A q \in Requests \ {r} : Source(q)' = Source(q)
    BY <1>1, <1>5, <2>1, <2>2, <2>3
       DEF StoreSubrequest, Delivers, Counts, At, Inv, Typed, Source
  <2>5. Sources' = [Sources EXCEPT
            ![r] = [origin |-> TRUE, version |-> @.version, kept |-> TRUE]]
    BY <2>3, <2>4, KeptSource
  <2>6. due' = [due EXCEPT ![Sources[r].version] =
                    IF DefaultExpire > @ THEN DefaultExpire ELSE @]
    BY <1>1, <1>2, <2>2, CountedOnce, NumbersAssumption
  <2>7. T!Allowed(r, DefaultExpire)
    BY <2>3, <2>5, <2>6 DEF T!Allowed, Sources
  <2>8. T!Answer(r)
    BY <1>1, <1>2, <1>3, <2>7 DEF T!Answer, Sources
  <2> QED BY <2>8 DEF T!Next
<1> QED BY <1>4, <1>5

(* The cache is no part of the promise: what reaches it changes nothing.    *)
LEMMA StoreMaps ==
    ASSUME Inv, NEW r \in Requests, StoreArrives(r) \/ StoreLost(r)
    PROVE  UNCHANGED T!vars
<1>1. \A q \in Requests : Source(q)' = Source(q)
  BY DEF StoreArrives, StoreLost, Arrived, At, Inv, Typed, Source, ctx, history
<1> QED BY <1>1, SameSources DEF StoreArrives, StoreLost, Sources, T!vars,
   origin_and_cache, history

(* Requests that end leave.                                                 *)
LEMMA ResetMaps ==
    ASSUME Inv, NEW rs \in SUBSET Requests, Reset(rs)
    PROVE  T!Next
<1>1. Sources' = [r \in Requests |-> IF r \in rs THEN T!NoSource ELSE Sources[r]]
  BY DEF Reset, Cleared, Source, Sources, Nothing, T!NoSource, T!Nothing
<1>2. T!Leave(rs)
  BY <1>1 DEF Reset, Cleared, T!Leave, T!Nothing, NoAnswer, Sources,
     origin_and_cache
<1> QED BY <1>2 DEF T!Next

(* The origin's changes and the seconds are the same in both.               *)
LEMMA OutsideMaps ==
    ASSUME Inv, Change \/ Evict \/ Tick
    PROVE  T!Next \/ UNCHANGED T!vars
<1>1. Sources' = Sources
  BY SameSources DEF Change, Evict, Tick, Source, ctx, history
<1>2. CASE Change
  BY <1>1, <1>2 DEF Change, T!Change, T!Next, Sources, history
<1>3. CASE Evict
  BY <1>1, <1>3 DEF Evict, T!vars, Sources, history
<1>4. CASE Tick
  <2>1. due' = [v \in Versions |-> IF due[v] > -Slack THEN due[v] - 1 ELSE due[v]]
    BY <1>4, NumbersAssumption DEF Tick, Longer, Inv, Typed
  <2>2. T!Tick
    BY <1>1, <1>4, <2>1 DEF Tick, T!Tick, T!Versions, Versions, Sources
  <2> QED BY <2>2 DEF T!Next
<1> QED BY <1>2, <1>3, <1>4

(* Together: a step of Next is a step of TransparentCache, or none.         *)
LEMMA NextMaps == Inv /\ [Next]_vars => [T!Next]_(T!vars)
<1> SUFFICES ASSUME Inv, [Next]_vars PROVE T!Next \/ UNCHANGED T!vars
  OBVIOUS
<1>1. CASE UNCHANGED vars
  BY <1>1 DEF vars, origin_and_cache, ctx, store, history, T!vars, Source
<1>2. ASSUME NEW r \in Requests, AccessFetch(r) \/ AccessStoreOnly(r) \/ Step(r)
      PROVE  T!Next \/ UNCHANGED T!vars
  <2>1. CASE Finished(r)
    BY <2>1, ResetMaps DEF Finished
  <2>2. CASE \E max_age \in Ages : Content(r, max_age)
    BY <2>2, ContentMaps
  <2> QED
    BY <1>2, <2>1, <2>2, FetchMaps, FailureMaps, HeaderMaps, AnswerMaps,
       StoreMaps DEF Step
<1>3. ASSUME NEW rs \in SUBSET Requests, WorkerDies(rs)
      PROVE  T!Next
  BY <1>3, ResetMaps DEF WorkerDies
<1>4. CASE Change \/ Evict \/ Tick
  BY <1>4, OutsideMaps
<1> QED BY <1>1, <1>2, <1>3, <1>4 DEF Next

(* However the requests of a key interleave, are cut short or die with      *)
(* their worker: each is answered by the origin, or by a copy that the      *)
(* origin allowed for at least as long (fetch.c:132-186, store.c:499), if   *)
(* no store subrequest gives a time of 0 to a cache that takes it as        *)
(* without end, memcached for one.                                          *)
THEOREM CacheIsTransparent == Spec /\ []NoZeroTime => IsTransparent
<1>1. Init => T!Init
  BY InitMaps
<1>2. Inv /\ [Next]_vars => [T!Next]_(T!vars)
  BY NextMaps
<1> QED BY <1>1, <1>2, Invariance, PTL DEF Spec, IsTransparent, T!Spec
=============================================================================

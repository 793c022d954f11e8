--------------------------- MODULE SrcacheWorker ---------------------------
(***************************************************************************)
(* Many requests of one key over one cache: each tries to fetch, and on a  *)
(* miss takes the origin's response to its client and a copy of it to the  *)
(* cache.  They know nothing of each other; the cache is a service that    *)
(* drops entries when it likes, and those whose time is over; a worker may *)
(* die with its requests.  What SrcacheFetch and SrcacheStore say about    *)
(* one request is taken for granted: a hit is a whole entry, and an entry  *)
(* is a whole response.                                                    *)
(*                                                                         *)
(* Times are what is left of them, so that there is no clock to bound.     *)
(***************************************************************************)
EXTENDS Integers, FiniteSets

CONSTANTS
    Requests,
    MaxVersion,     \* bound on the number of different responses
    MaxAges,        \* what the origin may announce
    DefaultExpire,  \* srcache_default_expire
    Slack,          \* bound on the time a store subrequest may take
    ZeroIsForever   \* the cache keeps an entry with the time 0 for good

ASSUME RequestsAssumption == IsFiniteSet(Requests)
ASSUME NumbersAssumption ==
    /\ MaxVersion \in Nat \ {0} /\ Slack \in Nat
    /\ MaxAges \subseteq Nat \ {0} /\ DefaultExpire \in Nat \ {0}
ASSUME ZeroAssumption == ZeroIsForever \in BOOLEAN

NoAge == 0        \* neither max-age nor Expires
Forbidden == -1   \* a response that must not be stored

Versions == 1..MaxVersion

(* A response, with the version it is made of; Nothing has none.            *)
Responses == [version : Versions, max_age : MaxAges \cup {NoAge, Forbidden}]

Nothing == [version |-> 0, max_age |-> Forbidden]
NoAnswer == 0
Failed == -1

Forever == -1

VARIABLES
    version,         \* what the origin gives now
    cache,           \* the entry of the key
    left,            \* what is left of its time
    stage,           \* where each request is
    response,        \* what it has from the cache or the origin
    from_cache,
    store_response,
    valid,           \* valid_sec - ngx_time(), until the body has ended
    expire,          \* of the store subrequest on its way
    flown,           \* for how long it has been
    answer,          \* what the client has got
    due,             \* history: how long each version may be used again
    kept             \* history: this response has been counted in due

origin_and_cache == <<version, cache, left>>
ctx == <<from_cache, store_response, valid>>
store == <<expire, flown>>
history == <<due, kept>>
vars == <<origin_and_cache, stage, response, ctx, store, answer, history>>

Everywhere(x) == [r \in Requests |-> x]

Init ==
    /\ version = 1 /\ cache = Nothing /\ left = 0
    /\ stage = Everywhere("new") /\ response = Everywhere(Nothing)
    /\ from_cache = Everywhere(FALSE) /\ store_response = Everywhere(FALSE)
    /\ valid = Everywhere(0) /\ expire = Everywhere(0) /\ flown = Everywhere(0)
    /\ answer = Everywhere(NoAnswer)
    /\ due = [v \in Versions |-> -Slack] /\ kept = Everywhere(FALSE)

At(r, here, there) ==
    stage[r] = here /\ stage' = [stage EXCEPT ![r] = there]

-----------------------------------------------------------------------------
(* The fetch.                                                               *)

(* The access handler issues the fetch subrequest, or registers a ctx only. *)
AccessFetch(r) ==
    /\ At(r, "new", "fetching")
    /\ UNCHANGED <<origin_and_cache, response, ctx, store, answer, history>>

AccessStoreOnly(r) ==
    /\ At(r, "new", "content")
    /\ UNCHANGED <<origin_and_cache, response, ctx, store, answer, history>>

(* The cache looks the key up; its reply is on the way from then on.        *)
Lookup(r) ==
    /\ At(r, "fetching", "replying")
    /\ response' = [response EXCEPT ![r] = cache]
    /\ UNCHANGED <<origin_and_cache, ctx, store, answer, history>>

FetchHit(r) ==
    /\ At(r, "replying", "header") /\ response[r] # Nothing
    /\ from_cache' = [from_cache EXCEPT ![r] = TRUE]
    /\ UNCHANGED <<origin_and_cache, response, store_response, valid, store,
                   answer, history>>

(* No entry, or one that was cut short on its way.                          *)
FetchMiss(r) ==
    /\ At(r, "replying", "content")
    /\ response' = [response EXCEPT ![r] = Nothing]
    /\ UNCHANGED <<origin_and_cache, ctx, store, answer, history>>

-----------------------------------------------------------------------------
(* The response on its way to the client.                                   *)

Content(r, max_age) ==
    /\ At(r, "content", "header")
    /\ response' = [response EXCEPT
           ![r] = [version |-> version, max_age |-> max_age]]
    /\ UNCHANGED <<origin_and_cache, ctx, store, answer, history>>

ContentFails(r) ==
    /\ At(r, "content", "answered")
    /\ answer' = [answer EXCEPT ![r] = Failed]
    /\ UNCHANGED <<origin_and_cache, response, ctx, store, history>>

Longer(a, b) == IF a > b THEN a ELSE b

(* What the origin gave now may be used again for a while.                  *)
Counts(r, lifetime) ==
    /\ kept' = [kept EXCEPT ![r] = TRUE]
    /\ due' = [due EXCEPT ![response[r].version] = Longer(@, lifetime)]

(* Faulty: a response from the cache is stored like any other.              *)
Storable_Hit(r) == response[r].max_age # Forbidden

Storable(r) == ~from_cache[r] /\ response[r].max_age # Forbidden

Aged(r) == response[r].max_age # NoAge

(* The header filter, for a response of the origin or of the cache.         *)
HeaderStore(r) ==
    /\ At(r, "header", "body") /\ Storable(r)
    /\ store_response' = [store_response EXCEPT ![r] = TRUE]
    /\ valid' = [valid EXCEPT ![r] = IF Aged(r) THEN response[r].max_age ELSE 0]
    /\ IF Aged(r) /\ ~from_cache[r] THEN Counts(r, response[r].max_age)
                                    ELSE UNCHANGED history
    /\ UNCHANGED <<origin_and_cache, response, from_cache, store, answer>>

HeaderBypass(r) ==
    /\ At(r, "header", "body")
    /\ UNCHANGED <<origin_and_cache, response, ctx, store, answer, history>>

(* The client has its answer, and nobody asks for the lifetime any more.    *)
Delivers(r, what) ==
    /\ answer' = [answer EXCEPT ![r] = what]
    /\ valid' = [valid EXCEPT ![r] = 0]
    /\ UNCHANGED <<from_cache, store_response>>

(* The last buffer: without, or with a store subrequest.                    *)
BodyEnds(r) ==
    /\ At(r, "body", "answered") /\ Delivers(r, response[r].version)
    /\ UNCHANGED <<origin_and_cache, response, store, history>>

(* Faulty: the lifetime is counted from the end of the body.                *)
Expire_FromEnd(r) == IF Aged(r) THEN response[r].max_age ELSE DefaultExpire

(* $srcache_expire                                                          *)
Expire(r) == IF Aged(r) THEN valid[r] ELSE DefaultExpire

StoreSubrequest(r) ==
    /\ At(r, "body", "storing") /\ store_response[r]
    /\ Delivers(r, response[r].version)
    /\ expire' = [expire EXCEPT ![r] = Expire(r)]
    /\ flown' = [flown EXCEPT ![r] = 0]
    /\ IF Aged(r) \/ from_cache[r] THEN UNCHANGED history
                                   ELSE Counts(r, DefaultExpire)
    /\ UNCHANGED <<origin_and_cache, response>>

(* The upstream is cut off or the client goes away.                         *)
BodyAborted(r) ==
    /\ At(r, "body", "answered") /\ Delivers(r, Failed)
    /\ UNCHANGED <<origin_and_cache, response, store, history>>

-----------------------------------------------------------------------------
(* The store subrequest.                                                    *)

(* What the cache makes of a time: some, no end, or none.                   *)
TimeKept(seconds) ==
    IF seconds > 0 THEN seconds
    ELSE IF seconds = 0 /\ ZeroIsForever THEN Forever ELSE 0

Arrived(r) ==
    /\ At(r, "storing", "answered")
    /\ expire' = [expire EXCEPT ![r] = 0] /\ flown' = [flown EXCEPT ![r] = 0]

StoreArrives(r) ==
    /\ Arrived(r)
    /\ left' = TimeKept(expire[r])
    /\ cache' = IF left' = 0 THEN Nothing ELSE response[r]
    /\ UNCHANGED <<version, response, ctx, answer, history>>

StoreLost(r) ==
    /\ Arrived(r)
    /\ UNCHANGED <<origin_and_cache, response, ctx, answer, history>>

-----------------------------------------------------------------------------
Cleared(f, rs, x) == [r \in Requests |-> IF r \in rs THEN x ELSE f[r]]

Reset(rs) ==
    /\ stage' = Cleared(stage, rs, "new")
    /\ response' = Cleared(response, rs, Nothing)
    /\ from_cache' = Cleared(from_cache, rs, FALSE)
    /\ store_response' = Cleared(store_response, rs, FALSE)
    /\ valid' = Cleared(valid, rs, 0)
    /\ expire' = Cleared(expire, rs, 0) /\ flown' = Cleared(flown, rs, 0)
    /\ answer' = Cleared(answer, rs, NoAnswer)
    /\ kept' = Cleared(kept, rs, FALSE)
    /\ UNCHANGED <<origin_and_cache, due>>

(* A request is over; another of the key may come.                          *)
Finished(r) == stage[r] = "answered" /\ Reset({r})

(* The requests of a worker end with it.                                    *)
WorkerDies(rs) ==
    /\ rs # {} /\ \A r \in rs : stage[r] # "new"
    /\ Reset(rs)

Change ==
    /\ version < MaxVersion /\ version' = version + 1
    /\ UNCHANGED <<cache, left, stage, response, ctx, store, answer, history>>

Evict ==
    /\ cache # Nothing /\ cache' = Nothing /\ left' = 0
    /\ UNCHANGED <<version, stage, response, ctx, store, answer, history>>

(* A second passes.  A store subrequest runs into a timeout at last.        *)
Tick ==
    /\ \A r \in Requests : stage[r] = "storing" => flown[r] < Slack
    /\ left' = IF left > 0 THEN left - 1 ELSE left
    /\ cache' = IF left = 1 THEN Nothing ELSE cache
    /\ valid' = [r \in Requests |->
           IF stage[r] = "body" /\ Aged(r) /\ store_response[r] /\ valid[r] >= 0
           THEN valid[r] - 1 ELSE valid[r]]
    /\ flown' = [r \in Requests |->
           IF stage[r] = "storing" THEN flown[r] + 1 ELSE flown[r]]
    /\ due' = [v \in Versions |-> Longer(due[v] - 1, -Slack)]
    /\ UNCHANGED <<version, stage, response, from_cache, store_response, expire,
                   answer, kept>>

Ages == MaxAges \cup {NoAge, Forbidden}

Step(r) ==
    \/ Lookup(r) \/ FetchHit(r) \/ FetchMiss(r)
    \/ \E max_age \in Ages : Content(r, max_age)
    \/ ContentFails(r)
    \/ HeaderStore(r) \/ HeaderBypass(r)
    \/ BodyEnds(r) \/ StoreSubrequest(r) \/ BodyAborted(r)
    \/ StoreArrives(r) \/ StoreLost(r)
    \/ Finished(r)

Next ==
    \/ \E r \in Requests : AccessFetch(r) \/ AccessStoreOnly(r) \/ Step(r)
    \/ \E rs \in SUBSET Requests : WorkerDies(rs)
    \/ Change \/ Evict \/ Tick

(* What a request waits for happens, or runs into a timeout; time passes.   *)
Fairness == (\A r \in Requests : WF_vars(Step(r))) /\ SF_vars(Tick)

Spec == Init /\ [][Next]_vars /\ Fairness

-----------------------------------------------------------------------------
(* What TransparentCache calls the source of a request.                     *)
Source(r) ==
    [origin |-> response[r] # Nothing /\ stage[r] # "replying" /\ ~from_cache[r],
     version |-> response[r].version, kept |-> kept[r]]

T == INSTANCE TransparentCache WITH
        Lifetimes <- MaxAges \cup {DefaultExpire},
        reusable <- due,
        source <- [r \in Requests |-> Source(r)]

(* A cache that keeps an entry with the time 0 for good, as memcached does, *)
(* is given none with it.  The code does not see to that: a body that takes *)
(* as long as its lifetime leaves a time of 0 (var.c:81).                   *)
NoZeroTime ==
    ZeroIsForever => \A r \in Requests : stage[r] = "storing" => expire[r] # 0

(* Whatever the requests of a key do to each other, each is answered by the *)
(* origin, or by a copy that the origin allowed and whose time was not over *)
(* when the cache was asked; a hit never gives a copy new time, and no      *)
(* response is counted twice (store.c:131-135, 499; var.c:77-86).  Of a     *)
(* cache that keeps the time 0 for good only as long as NoZeroTime holds.   *)
IsTransparent == T!Spec

(* An entry is in the cache no longer than the origin allowed, and the time *)
(* its store subrequest was under way (var.c:77-82).  As long as NoZeroTime *)
(* holds: with ZeroIsForever = TRUE and without it this is violated, by a   *)
(* body that takes as long as its max-age.                                  *)
EntryIsInTime == cache # Nothing => due[cache.version] > -Slack

(* When the origin has changed for good, no client gets the old response    *)
(* for ever, though requests keep fetching it and older copies may still be *)
(* on their way into the cache.                                             *)
OldVersionsDisappear ==
    <>(version = MaxVersion)
        => <>[](\A r \in Requests : answer[r] \in {NoAnswer, Failed, MaxVersion})
=============================================================================

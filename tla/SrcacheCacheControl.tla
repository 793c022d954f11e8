------------------------ MODULE SrcacheCacheControl ------------------------
(***************************************************************************)
(* The two scans for caching directives: that of the request's headers by  *)
(* the access handler (ngx_http_srcache_request_no_cache) and that of the  *)
(* response's Cache-Control and Expires headers by the header filter       *)
(* (ngx_http_srcache_response_no_cache), and the expiration time that      *)
(* $srcache_expire gives afterwards.  SrcacheFetch and SrcacheStore take   *)
(* the verdicts as they should be; here the loops run header by header,    *)
(* and a max-age is added up digit by digit in an ngx_int_t.               *)
(***************************************************************************)
EXTENDS Integers, Sequences, SequencesExt

CONSTANTS
    Cases,     \* locations with a request and the response to it
    IntMax,    \* the largest ngx_int_t, 2^w - 1
    MaxClock   \* bound on the clock

Absent == -1   \* no such header
Garbage == 0   \* an Expires that cannot be parsed

(* What follows "max-age=": digits, one of `,', `;' and ` ', anything else. *)
Digits == 0..9
Separator == 10
Other == 11
Chars == Digits \cup {Separator, Other}

RequestHeaders ==
    [name : {"Cache-Control", "Pragma", "other"},
     has : SUBSET {"no-store", "no-cache"}]

(* live: the hash is not 0.  has_age: there is a max-age.                   *)
ResponseHeaders ==
    [live : BOOLEAN, has : SUBSET {"private", "no-store", "no-cache"},
     has_age : BOOLEAN, age : Seq(Chars)]

(* ignored: directives that srcache_store_private and its like overrule.    *)
ConfRecords ==
    [req_cache_control : BOOLEAN, resp_cache_control : BOOLEAN,
     ignored : SUBSET {"private", "no-store", "no-cache"},
     max_expire : Nat, default_expire : Nat]

ASSUME BoundsAssumption == IntMax \in Nat /\ MaxClock \in Nat

(* headers_in.headers is a list of parts, of which the first may be empty.  *)
ASSUME CasesAssumption ==
    \A c \in Cases :
        /\ c.conf \in ConfRecords
        /\ c.headers_in \in Seq(Seq(RequestHeaders)) /\ c.headers_in # <<>>
        /\ \A p \in 2..Len(c.headers_in) : c.headers_in[p] # <<>>
        /\ c.cache_control \in Seq(ResponseHeaders)
        /\ c.expires \in Nat \cup {Absent}

VARIABLES
    conf, headers_in, cache_control, expires,
    stage,      \* "request", "content", "response", "passing" or "bypassed"
    part, i,    \* the header that is looked at
    no_store,   \* what the scan of the request has found
    no_cache,
    fetches,    \* the access handler goes on to the fetch
    registered, \* there is a ctx for the store half
    valid_sec,  \* of the ctx
    now,
    since       \* history: the time when the header filter ran

vars == <<conf, headers_in, cache_control, expires, stage, part, i, no_store,
          no_cache, fetches, registered, valid_sec, now, since>>

inputs == <<conf, headers_in, cache_control, expires>>

Init ==
    /\ \E c \in Cases :
           /\ conf = c.conf /\ headers_in = c.headers_in
           /\ cache_control = c.cache_control /\ expires = c.expires
    /\ stage = "request" /\ part = 1 /\ i = 1
    /\ no_store = FALSE /\ no_cache = FALSE
    /\ fetches = FALSE /\ registered = FALSE
    /\ valid_sec = 0 /\ now = 1 /\ since = 0

-----------------------------------------------------------------------------
(* ngx_http_srcache_request_no_cache: one round of the loop.                *)

PartDone == i > Len(headers_in[part])

(* Faulty: the index of the part before is kept.                            *)
Entered_NotReset(header) == header

(* The index in a new part.                                                 *)
Entered(header) == 1

Scanning == stage = "request" /\ conf.req_cache_control

NextPart ==
    /\ Scanning /\ PartDone /\ part < Len(headers_in)
    /\ part' = part + 1 /\ i' = Entered(i)
    /\ UNCHANGED <<inputs, stage, no_store, no_cache, fetches, registered,
                   valid_sec, now, since>>

Says(h, token, names) == h.name \in names /\ token \in h.has

Refusing == {"Cache-Control", "Pragma"}

RequestHeader ==
    /\ Scanning /\ ~PartDone
    /\ LET h == headers_in[part][i] IN
       /\ no_store' = (no_store \/ Says(h, "no-store", {"Cache-Control"}))
       /\ no_cache' = (no_cache \/ Says(h, "no-cache", Refusing))
    /\ i' = i + 1
    /\ UNCHANGED <<inputs, stage, part, fetches, registered, valid_sec, now,
                   since>>

Answer(fetch, register) ==
    /\ stage' = "content" /\ fetches' = fetch /\ registered' = register
    /\ UNCHANGED <<inputs, part, i, no_store, no_cache, valid_sec, now, since>>

ListDone == PartDone /\ part = Len(headers_in)

(* The access handler: no-store counts only if the fetch is skipped.        *)
RequestNoCache ==
    Scanning /\ ListDone /\ no_cache /\ Answer(FALSE, ~no_store)

RequestAllows ==
    /\ stage = "request"
    /\ ~conf.req_cache_control \/ (ListDone /\ ~no_cache)
    /\ Answer(TRUE, TRUE)

-----------------------------------------------------------------------------
(* The content handler answers; i is now an index of cache_control.         *)
Content ==
    /\ stage = "content" /\ i' = 1 /\ since' = now
    /\ stage' = IF ~registered THEN "bypassed"
                ELSE IF conf.resp_cache_control THEN "response" ELSE "passing"
    /\ UNCHANGED <<inputs, part, no_store, no_cache, fetches, registered,
                   valid_sec, now>>

-----------------------------------------------------------------------------
(* ngx_http_srcache_response_no_cache.                                      *)

(* What an ngx_int_t keeps of a number: C leaves the overflow of a signed   *)
(* addition open, and the compiled code wraps.                              *)
NgxInt(n) == ((n + IntMax + 1) % (2 * (IntMax + 1))) - (IntMax + 1)

(* The length of the number: up to the first character that is no digit.    *)
NumberLength(age) ==
    LET stops == { k \in 1..Len(age) : age[k] \notin Digits }
    IN  IF stops = {} THEN Len(age)
        ELSE (CHOOSE k \in stops : \A j \in stops : k <= j) - 1

AddDigit(n, digit) == NgxInt(n * 10 + digit)

MaxAge(age) ==
    LET n[k \in 0..NumberLength(age)] ==
            IF k = 0 THEN 0 ELSE AddDigit(n[k - 1], age[k])
    IN  n[NumberLength(age)]

(* The loop stopped at something that is no separator either.               *)
NoNumber(age) ==
    NumberLength(age) < Len(age) /\ age[NumberLength(age) + 1] = Other

ResponseHeader(h) ==
    /\ stage = "response" /\ i <= Len(cache_control) /\ h = cache_control[i]

Move(s, sec) ==
    /\ stage' = s /\ valid_sec' = sec /\ i' = i + 1
    /\ UNCHANGED <<inputs, part, no_store, no_cache, fetches, registered, now,
                   since>>

Dead(h) == ResponseHeader(h) /\ ~h.live /\ Move("response", valid_sec)

Forbids(h) == h.has \ conf.ignored # {}

Forbidden(h) ==
    ResponseHeader(h) /\ h.live /\ Forbids(h) /\ Move("bypassed", valid_sec)

(* Faulty: every max-age is looked at.                                      *)
Settled_Never(h) == ~h.has_age

(* A lifetime is known already, or this header gives none.                  *)
Settled(h) == valid_sec # 0 \/ ~h.has_age

NoAge(h) ==
    /\ ResponseHeader(h) /\ h.live /\ ~Forbids(h) /\ Settled(h)
    /\ Move("response", valid_sec)

Considered(h) == ResponseHeader(h) /\ h.live /\ ~Forbids(h) /\ ~Settled(h)

BadAge(h) ==
    /\ Considered(h)
    /\ NoNumber(h.age) \/ MaxAge(h.age) = 0
    /\ Move("bypassed", valid_sec)

GoodAge(h) ==
    /\ Considered(h) /\ ~NoNumber(h.age) /\ MaxAge(h.age) # 0
    /\ Move("response", now + MaxAge(h.age))

(* check_expires                                                            *)
HeadersDone == stage = "response" /\ i > Len(cache_control)

Expired == expires = Garbage \/ expires <= now

NoExpiresNeeded ==
    /\ HeadersDone
    /\ valid_sec # 0 \/ expires = Absent
    /\ Move("passing", valid_sec)

NeedsExpires == HeadersDone /\ valid_sec = 0 /\ expires # Absent

CheckExpires ==
    \/ NoExpiresNeeded
    \/ NeedsExpires /\ Expired /\ Move("bypassed", 0)
    \/ NeedsExpires /\ ~Expired /\ Move("passing", expires)

Time ==
    /\ stage \in {"content", "passing"} /\ now < MaxClock /\ now' = now + 1
    /\ UNCHANGED <<inputs, stage, part, i, no_store, no_cache, fetches,
                   registered, valid_sec, since>>

Over ==
    /\ stage = "bypassed" \/ (stage = "passing" /\ now >= MaxClock)
    /\ UNCHANGED vars

ResponseNoCache ==
    \/ \E h \in ToSet(cache_control) :
           Dead(h) \/ Forbidden(h) \/ NoAge(h) \/ BadAge(h) \/ GoodAge(h)
    \/ CheckExpires

Next ==
    \/ NextPart \/ RequestHeader \/ RequestNoCache \/ RequestAllows
    \/ Content
    \/ ResponseNoCache
    \/ Time
    \/ Over

Spec == Init /\ [][Next]_vars

(* Faulty: srcache_max_expire does not apply to the default.                *)
Expire_DefaultUncut ==
    IF valid_sec = 0 THEN conf.default_expire
    ELSE IF conf.max_expire > 0 /\ valid_sec - now > conf.max_expire
    THEN conf.max_expire ELSE valid_sec - now

(* $srcache_expire                                                          *)
Expire ==
    LET expire == IF valid_sec = 0 THEN conf.default_expire ELSE valid_sec - now
    IN  IF conf.max_expire > 0 /\ expire > conf.max_expire
        THEN conf.max_expire ELSE expire

-----------------------------------------------------------------------------
(* The reference, on the headers as a whole.                                *)

RequestSays(token, names) ==
    \E p \in DOMAIN headers_in : \E k \in DOMAIN headers_in[p] :
        Says(headers_in[p][k], token, names)

(* The number that was written, in integers of any size.                    *)
Written(age) ==
    LET n[k \in 0..NumberLength(age)] ==
            IF k = 0 THEN 0 ELSE 10 * n[k - 1] + age[k]
    IN  n[NumberLength(age)]

(* The live headers with a max-age, and the first of them.                  *)
AgedAt ==
    { k \in DOMAIN cache_control :
        cache_control[k].live /\ cache_control[k].has_age }

FirstAged ==
    cache_control[CHOOSE k \in AgedAt : \A j \in AgedAt : k <= j].age

SaysNothing == AgedAt = {}
SaysAge == AgedAt # {} /\ ~NoNumber(FirstAged) /\ Written(FirstAged) > 0
SaysDead == AgedAt # {} /\ ~SaysAge

(* A max-age that an ngx_int_t can hold.                                    *)
AgeFits == AgedAt # {} => Written(FirstAged) <= IntMax

ResponseForbids ==
    /\ conf.resp_cache_control
    /\ \/ \E k \in DOMAIN cache_control :
              cache_control[k].live /\ Forbids(cache_control[k])
       \/ SaysDead
       \/ SaysNothing /\ expires \in Garbage..since

(* The time that the headers leave a response, else the configured one.     *)
Remaining ==
    IF conf.resp_cache_control /\ SaysAge
    THEN Written(FirstAged) - (now - since)
    ELSE IF conf.resp_cache_control /\ expires # Absent THEN expires - now
    ELSE conf.default_expire

(* Whatever parts the list of request headers has, the scan sees every      *)
(* header: a fetch is skipped iff one refuses it, the store is skipped too  *)
(* if a no-store comes with that, and only a no-store can keep a response   *)
(* from being stored (util.c:493-541, fetch.c:58-79).  Nothing is said of a *)
(* no-store without a no-cache: README.markdown:847 has it skip the store,  *)
(* and the code does not look at it (util.c:541).                           *)
EveryRequestHeaderIsSeen ==
    stage # "request" =>
        LET refuses == /\ conf.req_cache_control
                       /\ RequestSays("no-cache", Refusing)
            unstored == RequestSays("no-store", {"Cache-Control"})
        IN  /\ fetches <=> ~refuses
            /\ refuses /\ unstored => ~registered
            /\ ~conf.req_cache_control \/ ~unstored => registered

(* A response goes on to be stored iff its live Cache-Control and Expires   *)
(* headers, taken together, allow it: that the loop returns and continues   *)
(* early and keeps a lifetime it has found makes no difference.             *)
(* $srcache_expire is then what is left of the first max-age, else of the   *)
(* Expires, else srcache_default_expire, and where one of these is more     *)
(* than srcache_max_expire, that (util.c:569-660, var.c:77-86).  This holds *)
(* for a max-age that an ngx_int_t can hold.                                *)
ControlIsHonoured ==
    AgeFits =>
        /\ stage = "passing" => ~ResponseForbids
        /\ stage = "bypassed" => ResponseForbids \/ ~registered
        /\ stage = "passing" =>
               IF conf.max_expire = 0 \/ Remaining < conf.max_expire
               THEN Expire = Remaining ELSE Expire = conf.max_expire
=============================================================================

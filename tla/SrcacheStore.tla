---------------------------- MODULE SrcacheStore ----------------------------
(***************************************************************************)
(* The store half of ngx_srcache for one main request: the header filter   *)
(* that decides whether the response is worth storing, the body filter     *)
(* that copies it while it passes, the store subrequest and its filters,   *)
(* and $srcache_expire (ngx_http_srcache_store.c, _util.c, _var.c).        *)
(*                                                                         *)
(* A piece of a body is named by its size; a piece of the chain            *)
(* body_to_cache likewise, the serialised header being the first.  One     *)
(* call of the body filter gets one buffer; time is in seconds.            *)
(***************************************************************************)
EXTENDS Integers, Sequences, SequencesExt

CONSTANTS
    Confs,       \* locations the response may come from
    Responses,   \* what content handlers answer
    ErrorPage,   \* the page nginx answers with when a filter refuses a header
    HeaderSize,  \* bytes of a serialised header block
    MaxClock     \* bound on the clock

(* registered, from_cache: what the access phase left in the ctx.           *)
(* cacheable: the method is in srcache_methods and is not HEAD.             *)
StoreConfs ==
    [registered : BOOLEAN, from_cache : BOOLEAN, store : BOOLEAN,
     cacheable : BOOLEAN, ignore_content_encoding : BOOLEAN,
     resp_cache_control : BOOLEAN, store_private : BOOLEAN,
     store_no_store : BOOLEAN, store_no_cache : BOOLEAN,
     store_ranges : BOOLEAN, statuses : SUBSET Nat, max_size : Nat,
     default_expire : Nat, max_expire : Nat]

(* One Cache-Control header; max_age is Absent, Garbage or a number, and    *)
(* Expires likewise.                                                        *)
Absent == -1
Garbage == -2

CacheControls ==
    [private : BOOLEAN, no_store : BOOLEAN, no_cache : BOOLEAN,
     max_age : Nat \cup {Absent, Garbage}]

(* declared: it has a Content-Length; ranges: the range filter may cut it   *)
(* down; skip: when srcache_store_skip is true.                             *)
ResponseRecords ==
    [status : Nat, encoded : BOOLEAN, cache_control : Seq(CacheControls),
     expires : Nat \cup {Absent, Garbage}, declared : BOOLEAN,
     ranges : BOOLEAN, pieces : Seq(Nat \ {0}),
     skip : {"never", "always", "at_end"}]

Ctxs ==
    [store_response : BOOLEAN, store_skip : BOOLEAN, http_status : Nat,
     valid_sec : Nat, response_length : Nat, response_body_length : Nat,
     header_status : Nat, body_to_cache : Seq(Nat)]

FreshCtx ==
    [store_response |-> FALSE, store_skip |-> FALSE, http_status |-> 0,
     valid_sec |-> 0, response_length |-> 0, response_body_length |-> 0,
     header_status |-> 0, body_to_cache |-> <<>>]

(* A store subrequest: its request body, its Content-Length, the expiration *)
(* time in its arguments and when they were evaluated; post_subrequest      *)
(* tells whose handler and data it holds, set_up how far                    *)
(* ngx_http_srcache_adjust_subrequest came: to nothing but the method, to   *)
(* the copy and its length, or to the end.                                  *)
Subrequests ==
    [active : BOOLEAN, has_ctx : BOOLEAN,
     post_subrequest : {"none", "srcache", "other"},
     set_up : {"method", "body", "full"}, header_sent : BOOLEAN,
     ignore_body : BOOLEAN, status : Nat, body : Seq(Nat),
     content_length_n : Nat, expire : Int, at : Nat]

ASSUME ConfsAssumption == Confs \subseteq StoreConfs
ASSUME ResponsesAssumption == Responses \cup {ErrorPage} \subseteq ResponseRecords
ASSUME ErrorPageAssumption == ErrorPage.status = 416
ASSUME SizesAssumption == HeaderSize \in Nat \ {0} /\ MaxClock \in Nat

VARIABLES
    conf,       \* where the response comes from
    resp,       \* the response that is passing
    stage,      \* "header", "body", "last" (all of it passed) or "closed"
    status,     \* headers_out.status
    content_length_n,  \* of headers_out, Absent when not known
    ctx,        \* module ctx of the main request
    sent,       \* pieces of resp that reached the body filter
    client,     \* pieces passed on to the client
    stores,     \* store subrequests issued
    leaked,     \* a store subrequest's own output went to the client
    header_at,  \* history: when the header filter ran last
    now

vars == <<conf, resp, stage, status, content_length_n, ctx, sent, client,
          stores, leaked, header_at, now>>

Total(s) ==
    LET sum[n \in 0..Len(s)] == IF n = 0 THEN 0 ELSE sum[n - 1] + s[n]
    IN  sum[Len(s)]

DeclaredLength(p) == IF p.declared THEN Total(p.pieces) ELSE Absent

Init ==
    /\ conf \in Confs /\ resp \in Responses
    /\ stage = "header" /\ status = resp.status
    /\ content_length_n = DeclaredLength(resp)
    /\ ctx = FreshCtx /\ sent = 0 /\ client = <<>>
    /\ stores = <<>> /\ leaked = FALSE /\ header_at = 0 /\ now = 1

Storing == ctx.store_response /\ ~ctx.store_skip

-----------------------------------------------------------------------------
(* The header filter.                                                       *)

(* Faulty: no-cache is not looked at.                                       *)
Forbids_NotNoCache(h) ==
    \/ h.private /\ ~conf.store_private
    \/ h.no_store /\ ~conf.store_no_store

Forbids(h) ==
    \/ h.private /\ ~conf.store_private
    \/ h.no_store /\ ~conf.store_no_store
    \/ h.no_cache /\ ~conf.store_no_cache

Ages(cc) == {i \in 1..Len(cc) : cc[i].max_age > 0}

(* The first positive max-age counts, later ones are not looked at; one     *)
(* that comes first and is zero or no number forbids.                       *)
FirstAge(cc) ==
    LET i == CHOOSE i \in Ages(cc) : \A j \in Ages(cc) : i <= j
    IN  IF Ages(cc) = {} THEN Absent ELSE cc[i].max_age

(* An Expires header that has passed or cannot be parsed.                   *)
Expired == resp.expires # Absent /\ resp.expires <= now

(* ngx_http_srcache_response_no_cache                                       *)
NoCache ==
    \/ \E i \in 1..Len(resp.cache_control) :
         LET h == resp.cache_control[i] IN
         \/ Forbids(h)
         \/ /\ h.max_age \in {0, Garbage} /\ ctx.valid_sec = 0
            /\ \A j \in Ages(resp.cache_control) : i < j
    \/ Ages(resp.cache_control) = {} /\ ctx.valid_sec = 0 /\ Expired

ValidSec ==
    IF ctx.valid_sec # 0 \/ ~conf.resp_cache_control THEN ctx.valid_sec
    ELSE IF Ages(resp.cache_control) # {}
         THEN now + FirstAge(resp.cache_control)
    ELSE IF resp.expires # Absent THEN resp.expires ELSE 0

(* No ctx, a hit, or a location, method or encoding that is not stored.     *)
NotOurs ==
    \/ ~conf.registered \/ conf.from_cache
    \/ ~conf.store \/ ~conf.cacheable
    \/ resp.encoded /\ ~conf.ignore_content_encoding

Forbidden == conf.resp_cache_control /\ NoCache

HeaderSlack == 15

TooLongByHeader ==
    /\ conf.max_size # 0 /\ content_length_n > 0
    /\ content_length_n + HeaderSlack > conf.max_size

Refused == status \notin conf.statuses \/ TooLongByHeader

PassHeader(c) ==
    /\ stage = "header" /\ stage' = "body" /\ ctx' = c /\ header_at' = now
    /\ UNCHANGED <<conf, resp, status, content_length_n, sent, client, stores,
                   leaked, now>>

HeaderBypass == (NotOurs \/ Forbidden) /\ PassHeader(ctx)

Considered == ~NotOurs /\ ~Forbidden

HeaderSkip ==
    /\ Considered /\ resp.skip = "always"
    /\ PassHeader([ctx EXCEPT !.valid_sec = ValidSec, !.store_skip = TRUE])

HeaderRefuse ==
    /\ Considered /\ resp.skip # "always" /\ Refused
    /\ PassHeader([ctx EXCEPT !.valid_sec = ValidSec])

(* ngx_http_srcache_store_response_header: status line and headers, less    *)
(* the hidden ones, in one buffer.                                          *)
SerializedHeader == <<HeaderSize>>

HeaderStore ==
    /\ Considered /\ resp.skip # "always" /\ ~Refused
    /\ PassHeader([ctx EXCEPT !.valid_sec = ValidSec,
                              !.store_response = TRUE,
                              !.http_status = status,
                              !.header_status = status,
                              !.body_to_cache = SerializedHeader,
                              !.response_length = @ + HeaderSize])

(* No memory for the header: NGX_ERROR, and nginx ends the request.         *)
HeaderNoMemory ==
    /\ Considered /\ resp.skip # "always" /\ ~Refused
    /\ stage = "header" /\ stage' = "closed" /\ header_at' = now
    /\ ctx' = [ctx EXCEPT !.valid_sec = ValidSec, !.store_response = TRUE,
                          !.http_status = status]
    /\ UNCHANGED <<conf, resp, status, content_length_n, sent, client, stores,
                   leaked, now>>

HeaderFilter ==
    HeaderBypass \/ HeaderSkip \/ HeaderRefuse \/ HeaderStore \/ HeaderNoMemory

-----------------------------------------------------------------------------
(* Filters and events between the header and the body.                      *)

UnchangedByNginx ==
    UNCHANGED <<conf, ctx, client, stores, leaked, header_at, now>>

(* The range filter, further down, answers with part of the body.           *)
RangeFilter ==
    /\ stage = "body" /\ sent = 0 /\ resp.ranges /\ status = 200
    /\ resp.pieces # <<>> /\ status' = 206
    /\ resp' = [resp EXCEPT !.pieces = Tail(@), !.ranges = FALSE,
                            !.declared = TRUE]
    /\ content_length_n' = Total(resp'.pieces)
    /\ UnchangedByNginx /\ UNCHANGED <<stage, sent>>

(* Or it refuses the header with 416: nothing was sent, and nginx runs the  *)
(* header filters again for its own page.                                   *)
RangeRefused ==
    /\ stage = "body" /\ sent = 0 /\ resp.ranges /\ status = 200
    /\ resp' = [ErrorPage EXCEPT !.cache_control = resp.cache_control,
                                 !.expires = resp.expires, !.skip = resp.skip]
    /\ status' = ErrorPage.status
    /\ content_length_n' = DeclaredLength(ErrorPage) /\ stage' = "header"
    /\ UnchangedByNginx /\ UNCHANGED sent

(* The upstream fails once the body is under way: a new status, then the    *)
(* end of the response.                                                     *)
UpstreamFails ==
    /\ stage = "body" /\ sent < Len(resp.pieces) /\ status # 502
    /\ status' = 502
    /\ UnchangedByNginx /\ UNCHANGED <<resp, stage, content_length_n, sent>>

(* The response stops without its last buffer: the connection is closed.    *)
Abort ==
    /\ stage = "body" /\ stage' = "closed"
    /\ UnchangedByNginx
    /\ UNCHANGED <<resp, status, content_length_n, sent>>

-----------------------------------------------------------------------------
(* The body filter.  size is 0 in a special buffer, which only says last.   *)

Truncated == content_length_n > Total(SubSeq(resp.pieces, 1, sent))

(* What nginx may send next.  It ends a truncated response like a complete  *)
(* one only if a Content-Length or the new status shows it.                 *)
NextBuf(size, last) ==
    /\ stage = "body"
    /\ \/ /\ sent < Len(resp.pieces) /\ size = resp.pieces[sent + 1]
          /\ last => sent + 1 = Len(resp.pieces)
       \/ /\ size = 0 /\ last
          /\ sent = Len(resp.pieces) \/ Truncated \/ status = 502

(* Faulty: a buffer that is copied is held back.                            *)
PassedOn_NotStored(size) ==
    IF size = 0 \/ Storing THEN client ELSE Append(client, size)

PassedOn(size) == IF size = 0 THEN client ELSE Append(client, size)

(* The buffer is passed on whatever becomes of the copy.                    *)
PassBuf(size, last, c) ==
    /\ NextBuf(size, last)
    /\ ctx' = c
    /\ sent' = IF size = 0 THEN sent ELSE sent + 1
    /\ client' = PassedOn(size)
    /\ stage' = IF last THEN "last" ELSE "body"
    /\ UNCHANGED <<conf, resp, status, content_length_n, leaked, header_at, now>>

GivenUp == [ctx EXCEPT !.store_response = FALSE]

BodyNotStored(size, last) ==
    ~Storing /\ PassBuf(size, last, ctx) /\ UNCHANGED stores

CutDown == status = 206 /\ ctx.http_status = 200

BodyRangeUnwanted(size, last) ==
    /\ Storing /\ CutDown /\ ~conf.store_ranges
    /\ PassBuf(size, last, GivenUp) /\ UNCHANGED stores

(* The status in the copied header is patched to 206.                       *)
Fixed(c) ==
    IF CutDown THEN [c EXCEPT !.http_status = 206, !.header_status = 206]
    ELSE c

(* Faulty: only the body is counted.                                        *)
Counted_BodyOnly(c, size) ==
    [c EXCEPT !.response_body_length = @ + size]

Counted(c, size) ==
    [c EXCEPT !.response_length = @ + size, !.response_body_length = @ + size]

Wanted == Storing /\ (CutDown => conf.store_ranges)

OverLimit(size) ==
    conf.max_size # 0 /\ ctx.response_length + size > conf.max_size

(* Over srcache_store_max_size, or no memory for the copy.                  *)
BodyTooLong(size, last) ==
    /\ Wanted /\ OverLimit(size)
    /\ PassBuf(size, last, Fixed(Counted(GivenUp, size))) /\ UNCHANGED stores

BodyNoMemory(size, last) ==
    /\ Wanted /\ ~OverLimit(size)
    /\ PassBuf(size, last, Fixed(Counted(GivenUp, size))) /\ UNCHANGED stores

Copied(size) ==
    LET c == Fixed(Counted(ctx, size)) IN
    IF size = 0 THEN c ELSE [c EXCEPT !.body_to_cache = Append(@, size)]

BodyCopy(size, last) ==
    /\ Wanted /\ ~OverLimit(size) /\ ~last
    /\ PassBuf(size, last, Copied(size)) /\ UNCHANGED stores

(* At the last buffer: shorter than announced, an error that came up later, *)
(* or srcache_store_skip true by now.                                       *)
FoundShort(size) == content_length_n > ctx.response_body_length + size

(* Faulty: the status at the end is not compared.                           *)
FoundError_Never(size) == FALSE

FoundError(size) == status >= 300 /\ status # Copied(size).http_status

DropAtEnd(size) ==
    FoundShort(size) \/ FoundError(size) \/ resp.skip # "never"

BodyDropped(size, last) ==
    /\ Wanted /\ ~OverLimit(size) /\ last /\ DropAtEnd(size)
    /\ PassBuf(size, last, [Copied(size) EXCEPT !.store_response = FALSE])
    /\ UNCHANGED stores

(* Faulty: counted from the time the header passed.                         *)
Expire_FromHeader(c) ==
    IF c.valid_sec = 0 THEN conf.default_expire ELSE c.valid_sec - header_at

(* $srcache_expire, evaluated for the subrequest's arguments.               *)
Expire(c) ==
    LET e == IF c.valid_sec = 0 THEN conf.default_expire ELSE c.valid_sec - now
    IN  IF conf.max_expire > 0 /\ e > conf.max_expire
        THEN conf.max_expire ELSE e

StoreSubrequest(c) ==
    [active |-> TRUE, has_ctx |-> TRUE, post_subrequest |-> "srcache",
     set_up |-> "full", header_sent |-> FALSE, ignore_body |-> FALSE,
     status |-> c.header_status,
     body |-> c.body_to_cache, content_length_n |-> c.response_length,
     expire |-> Expire(c), at |-> now]

BodyStore(size, last) ==
    /\ Wanted /\ ~OverLimit(size) /\ last /\ ~DropAtEnd(size)
    /\ PassBuf(size, last, Copied(size))
    /\ stores' = Append(stores, StoreSubrequest(Copied(size)))

(* Faulty: a failure to issue the subrequest is not noted.                  *)
NotIssued_Ignored(c) == c

NotIssued(c) == [c EXCEPT !.store_response = FALSE]

(* The subrequest cannot be issued: no location, or no memory for it.       *)
BodyStoreNotIssued(size, last) ==
    /\ Wanted /\ ~OverLimit(size) /\ last /\ ~DropAtEnd(size)
    /\ PassBuf(size, last, NotIssued(Copied(size)))
    /\ UNCHANGED stores

(* One that is issued, and runs, but is not set up: it has no ctx yet, and  *)
(* no Content-Length header or, before that, still the client's own body,   *)
(* for which the empty one stands here.                                     *)
UnsetSubrequest(c, set_up) ==
    LET s == [StoreSubrequest(c) EXCEPT !.has_ctx = FALSE, !.set_up = set_up]
    IN  IF set_up = "body" THEN s
        ELSE [s EXCEPT !.body = <<>>, !.content_length_n = 0]

BodyStoreUnset(size, last) ==
    /\ Wanted /\ ~OverLimit(size) /\ last /\ ~DropAtEnd(size)
    /\ PassBuf(size, last, NotIssued(Copied(size)))
    /\ \E set_up \in {"method", "body"} :
          stores' = Append(stores, UnsetSubrequest(Copied(size), set_up))

BodyFilter ==
    \E last \in BOOLEAN, size \in {0} \cup ToSet(resp.pieces) :
      \/ BodyNotStored(size, last)
      \/ BodyRangeUnwanted(size, last)
      \/ BodyTooLong(size, last)
      \/ BodyNoMemory(size, last)
      \/ BodyCopy(size, last)
      \/ BodyDropped(size, last)
      \/ BodyStore(size, last)
      \/ BodyStoreNotIssued(size, last)
      \/ BodyStoreUnset(size, last)

-----------------------------------------------------------------------------
(* The store subrequest.                                                    *)

UnchangedMain ==
    UNCHANGED <<conf, resp, stage, status, content_length_n, ctx, sent, client,
                header_at, now>>

(* An internal redirect takes its ctx away.                                 *)
SrRedirect(i) ==
    /\ stores[i].active /\ ~stores[i].header_sent /\ stores[i].has_ctx
    /\ stores' = [stores EXCEPT ![i].has_ctx = FALSE]
    /\ UnchangedMain /\ UNCHANGED leaked

(* Faulty: a ctx that was lost is not looked for.                           *)
Resumed_Never(s) == s

(* A subrequest without a ctx gets it back from the data of a               *)
(* post_subrequest whose handler is srcache's.                              *)
Resumed(s) ==
    IF s.post_subrequest = "srcache" THEN [s EXCEPT !.has_ctx = TRUE] ELSE s

SrHeader(i) ==
    /\ stores[i].active /\ ~stores[i].header_sent
    /\ LET s == Resumed(stores[i]) IN
       /\ stores' = [stores EXCEPT ![i] = [s EXCEPT !.header_sent = TRUE,
                                                    !.ignore_body = s.has_ctx]]
       /\ leaked' = (leaked \/ ~s.has_ctx)
    /\ UnchangedMain

(* Faulty: a subrequest whose ctx was lost is not woken.                    *)
SrEnds_WithCtx(s) == s.active /\ s.has_ctx

SrEnds(s) == s.active

(* It ends with or without an answer; its result is only logged.            *)
SrEnd(i) ==
    /\ SrEnds(stores[i])
    /\ stores' = [stores EXCEPT ![i].active = FALSE]
    /\ UnchangedMain /\ UNCHANGED leaked

StoreStep(i) == SrRedirect(i) \/ SrHeader(i)

(* The request lives until its store subrequest is over.                    *)
Close ==
    /\ stage = "last" /\ \A i \in 1..Len(stores) : ~stores[i].active
    /\ stage' = "closed"
    /\ UNCHANGED <<conf, resp, status, content_length_n, ctx, sent, client,
                   stores, leaked, header_at, now>>

Tick ==
    /\ now < MaxClock /\ stage \in {"header", "body"}
    /\ now' = now + 1
    /\ UNCHANGED <<conf, resp, stage, status, content_length_n, ctx, sent,
                   client, stores, leaked, header_at>>

Terminated == stage = "closed" /\ UNCHANGED vars

Next ==
    \/ HeaderFilter
    \/ RangeFilter \/ RangeRefused \/ UpstreamFails \/ Abort
    \/ BodyFilter
    \/ \E i \in 1..Len(stores) : StoreStep(i) \/ SrEnd(i)
    \/ Close
    \/ Tick
    \/ Terminated

Spec == Init /\ [][Next]_vars

(* nginx runs its filters, its timeouts end a response and a subrequest.    *)
Fairness ==
    /\ WF_vars(HeaderFilter) /\ WF_vars(BodyFilter) /\ WF_vars(Close)
    /\ WF_vars(\E i \in 1..Len(stores) : SrEnd(i))

FairSpec == Spec /\ Fairness

-----------------------------------------------------------------------------
(* $srcache_store_status, wherever it is evaluated.                         *)
StoreStatus == IF ctx.store_response THEN "STORE" ELSE "BYPASS"

(* The subrequests that carry what was copied.                              *)
Copies == {i \in 1..Len(stores) : stores[i].set_up # "method"}

(* What is handed to the cache is one header block, with the status the     *)
(* client saw, and the whole body after it: a response the backend, a       *)
(* timeout or a lost connection cut short is never stored, nor one whose    *)
(* status turned into an error under way, nor a body with a piece missing.  *)
(* A failure under way cannot be told from the status of a response that    *)
(* was a 502 from the beginning; of such a one, what came is stored.  A      *)
(* subrequest that runs without its set-up does not carry the copy at all.  *)
StoredIsWhole ==
    \A i \in Copies :
      /\ \/ stores[i].body = <<HeaderSize>> \o resp.pieces
         \/ /\ resp.status = 502
            /\ stores[i].body = <<HeaderSize>> \o SubSeq(resp.pieces, 1, sent)
      /\ stores[i].status = status

(* The Content-Length the subrequest announces is the length of its body,   *)
(* or the cache would wait for bytes that never come; and it is within      *)
(* srcache_store_max_size, whether the response announced its length or it  *)
(* was only found out piece by piece.  Only for the page that replaces a    *)
(* response whose header had been taken is the header counted twice.        *)
StoredLengthIsRight ==
    \A i \in Copies :
      LET length == stores[i].content_length_n IN
      /\ \/ length = Total(stores[i].body)
         \/ status = 416 /\ length = Total(stores[i].body) + HeaderSize
      /\ conf.max_size # 0 => length <= conf.max_size

(* Nothing is stored that the location, the response's Cache-Control or     *)
(* srcache_store_skip - at the header or by the end - keeps out, except by  *)
(* the directive that lets it in.                                           *)
NothingForbiddenIsStored ==
    stores # <<>> =>
      /\ ~NotOurs /\ resp.skip = "never"
      /\ \/ status \in conf.statuses
         \/ status = 206 /\ conf.store_ranges /\ 200 \in conf.statuses
      /\ conf.resp_cache_control =>
           \A i \in 1..Len(resp.cache_control) :
             LET h == resp.cache_control[i] IN
             /\ h.private => conf.store_private
             /\ h.no_store => conf.store_no_store
             /\ h.no_cache => conf.store_no_cache

(* A stored response does not outlive the max-age it came with, counted     *)
(* from the moment its header passed, if the cache backend honours a        *)
(* positive $srcache_expire.                                                *)
EntryDiesInTime ==
    \A i \in 1..Len(stores) :
      conf.resp_cache_control /\ Ages(resp.cache_control) # {}
        /\ stores[i].expire > 0
      => stores[i].at + stores[i].expire
           <= header_at + FirstAge(resp.cache_control)

(* Storing neither delays nor alters the response: the client has been sent *)
(* every piece that reached the body filter, as soon as it did, and nothing *)
(* of what the store location answers, also after an internal redirect of   *)
(* the subrequest.                                                          *)
ClientGetsTheResponse ==
    client = SubSeq(resp.pieces, 1, sent) /\ ~leaked

(* Once the response is complete, $srcache_store_status is STORE exactly if *)
(* a store subrequest was issued and set up to the end, and at most one is  *)
(* issued.  One that is issued and whose set-up fails runs all the same,    *)
(* while the status is BYPASS; README.markdown:1040 has it that "issued"    *)
(* alone makes it STORE (store.c:499-504, 634-638; var.c:134-159).          *)
StatusTellsOfTheStore ==
    /\ stage = "last" =>
         ( StoreStatus = "STORE" <=>
           \E i \in 1..Len(stores) : stores[i].set_up = "full" )
    /\ Len(stores) <= 1

(* Every request ends, whatever the cache does with the subrequest.         *)
RequestEnds == <>(stage = "closed")
=============================================================================

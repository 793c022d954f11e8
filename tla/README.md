# Verification of ngx_srcache

TLA+ models, TLC runs and TLAPS proofs for `srcache-nginx-module`, the nginx
filter module that puts a subrequest-driven cache in front of any location.
Paths below are relative to the repository.

## 1. The system

A location with `srcache_fetch` and `srcache_store` behaves as follows. In the
access phase the module issues a *fetch subrequest* (usually to memcached or
redis). If it answers 200 with a well-formed serialised response, the status
line and headers are replayed into the main request and its body is sent; the
content handler never runs. Otherwise the request goes on, and while the content
handler's response passes the module's filters it is copied; when the last
buffer arrives a *store subrequest* hands the copy to the cache.

Everything runs in the event loop of one worker process: no threads, but every
wait (subrequest, client body) returns to the loop and another callback
continues. The state that has to stay consistent across callbacks is a per-request
`ngx_http_srcache_ctx_t` (a bag of one-bit flags and a few counters) that the
main request and its subrequests reach through different pointers.

### 1.1 Inventory

| component (source) | state | operations | interacts with | what makes it correct |
|---|---|---|---|---|
| access handler and fetch subrequest (`ngx_http_srcache_fetch.c`) | ctx flags `waiting_subrequest`, `request_done`, `from_cache`, `issued_fetch_subrequest`, `waiting_request_body`, `request_body_done`; `body_from_cache` | access handler (entered and re-entered), `post_read_body`, `fetch_subrequest`, `fetch_post_subrequest` | phase engine, request body reader, filters below | one fetch per pass; no lost wake-up; a hit is a whole entry; a verdict is final |
| replay of the cached response (`_store.c` in_fetch_subrequest branches, `_util.c` parser, `_headers.c`) | `parsing_cached_headers`, `process_header`, `header_buf`, `ignore_body`, `seen_subreq_eof`; the parent's `headers_out` and `body_from_cache` | header filter, body filter, `process_status_line`, `process_header`, `add_copy_chain` | runs inside the subrequest, writes to the parent | only well-formed and complete entries count; nothing the cache sends reaches the client on its own |
| store filters and store subrequest (`_store.c`) | `store_response`, `store_skip`, `http_status`, `response_length`, `response_body_length`, `body_to_cache` | header filter, body filter, `store_subrequest`, its completion | content handler's response, range filter, variables | only whole, permitted responses within the limit; the client never notices |
| cache control of responses (`_util.c` `response_no_cache`) | `valid_sec` | called from the header filter | variables | directives are honoured unless a directive of the location says otherwise |
| cache control of requests (`_util.c` `request_no_cache`) | none | called from the access handler | access handler | a request that refuses the cache is neither served nor, for no-store, stored |
| variables (`_var.c`) | reads the ctx | `$srcache_expire`, `$srcache_fetch_status`, `$srcache_store_status` | logs, store location | they tell what happened |
| serialised response header (`_util.c` `store_response_header`) | `body_to_cache`, `response_length` | called from the header filter | store filters | the length announced is the length sent |
| move to the end of the access phase (`_fetch.c:201-234`) | `smcf->postponed_to_access_phase_end`, the phase engine's handler array | first access handler call of a worker | every request of the worker | each request runs the handler once, after the other access handlers |
| hidden and passed headers (`_util.c`, `_filter_module.c`) | `hide_headers_hash`, three flags | `hide_headers_hash`, `cmp_str` | serialised header | exactly the configured headers are kept out |
| configuration (`_filter_module.c`) | `ngx_http_srcache_loc_conf_t`, main conf | directive handlers, merge, filter registration | all | inner levels override outer ones |
| registration (`_filter_module.c` `post_config`, `_store.c` `filter_init`) | nginx's global filter chains, `ngx_http_srcache_prev_cycle`, the handler array of an http block | called once per http block of every load | nginx | filters and handler are registered together, once |
| subrequest set-up (`_util.c` `adjust_subrequest`, `parse_method_name`, `set_content_length_header`) | the subrequest's method, body, headers_in | called by both subrequests | nginx | the subrequest is sent as configured, the parent stays as it was |
| one worker, many requests, one cache | the cache and the requests of a key | the above, composed | the origin, the clock | transparency: no client gets what the origin did not allow |

Code of nginx itself (phase engine, `ngx_http_subrequest`, upstreams, the range
filter, body reading) is not in the repository; it is modelled from how this code
relies on it and marked external in the map.

### 1.2 What is hard here

* Re-entry: the access handler is entered by the phase engine, by write events
  on the client connection, by the read body's callback and by a finished
  subrequest, and finds out from six flags which one it is.
* Failure in the middle: the cache may stop after the header, in the middle of
  the body, or answer garbage, after part of it has already been replayed into
  the main request; a backend may fail after the header was taken.
* Lost ctx: an internal redirect of a subrequest clears its module ctx.
* Stale decisions: the header filter decides, later filters change the status or
  the length, the end of the body is seen much later, `srcache_store_skip` is
  evaluated twice, time passes before `$srcache_expire` is read.
* Buffers: the last-buffer flag can ride on a header, on a body piece or alone.
* Limits: `srcache_store_max_size` against a known or unknown length, the header
  buffer against a line cut over buffers, an `ngx_int_t` against a max-age.
* Process-wide state: the phase engine's handler array is changed while other
  requests are parked at an index of it; the filter chains survive reloads, failed
  ones included, and are inherited by workers forked much later.
* Sharing: a subrequest's header list is a copy that shares its parts with the
  parent's; requests of one key share an entry and know nothing of each other.

Each of these is a hazard in `PROJECT.json`, at its line.

## 2. The modules

| module | models | checked against |
|---|---|---|
| `SrcacheFetch` | access handler, fetch subrequest and its filters, internal redirects | invariants of the flags, liveness |
| `SrcacheStore` | store filters, store subrequest, time | what may be stored, what the client gets |
| `SrcacheHeaderParser` | `process_status_line`, `process_header` over buffers cut at any byte | the lines themselves, without buffers |
| `SrcacheEntry` | `store_response_header`, the handlers of `_headers.c`, the answer to a hit | the header of the original response |
| `SrcacheConf` | directive handlers, merge over nested blocks, hash of hidden headers, `store_statuses` and its scan | the nearest block |
| `SrcacheCacheControl` | `request_no_cache`, `response_no_cache`, `$srcache_expire`, on integers up to a given one | what the headers say, taken together |
| `SrcachePhase` | the phase engine's handler array and the move of srcache in it | the order of the handlers each request sees |
| `SrcacheRegistration` | `post_config` over loads, failed loads, reused cycles, workers that die | a worker serves its configuration |
| `SrcacheSubrequest` | `adjust_subrequest`, `set_content_length_header`, `parse_method_name` over lists of parts | the headers each request was given |
| `SrcacheWorker` | the fetch and store halves of many requests of a key over one cache | `TransparentCache`, by refinement |
| `TransparentCache` | abstract: an answer is the origin's, or a copy it allowed that is still in time | |
| `Srcache...Proofs`; `SrcacheHeaderProofs` is about `SrcacheHeaderParser` and `SrcacheEntry`, `SrcacheSetUpProofs` about `SrcacheRegistration` and `SrcacheSubrequest`, each other one about the module it is named for | theorems, section 6 | |

`SrcacheFetch` and `SrcacheStore` are the core; they take verdicts and lines as
given. `SrcacheHeaderParser`, `SrcacheEntry` and `SrcacheCacheControl` say how these
come about, `SrcacheConf`, `SrcachePhase`, `SrcacheRegistration` and
`SrcacheSubrequest` how the surroundings do. `SrcacheWorker` composes requests and
relies on what the first two say about each of them (a hit is a whole entry, an
entry is a whole response), so that its steps are whole phases of a request.

## 3. The modules and the code

Each `MC` module gives one of these its constants. Operators called
`<Definition>_<Variant>`, commented "Faulty", are variants of a definition
with a plausible bug; they show that a property notices it and are used by nothing.

### SrcacheFetch

One record per main request `r`: its location's configuration, where the phase
engine has it (`phase`), the client's body (`request_body`), its module `ctx`,
its last fetch subrequest with that subrequest's own ctx (`sr`), the cached
status and header lines in its `headers_out` (`lines_out`), what the client
was sent (`client`), plus the worker's `postponed` flag.

* `Access(r, c, b)` is `ngx_http_srcache_access_handler`; each disjunct is one
  way through it to a `return`, in the order of the code: `AccessBypass` (41-57),
  `AccessNoCache` (59-85), `AccessSkip` (87-107), `AccessWait` (118-125),
  `AccessBodyRead` (127-130), `AccessMiss` and `AccessHit` (132-189),
  `AccessPostpone` (201-234), `AccessStoreOnly` (236-239), `AccessReadBody` and
  `AccessFetch` (243-278), and `AccessNoCtx` for a failed allocation of the
  ctx. It has four callers: `RunPhases` (the phase engine), `WriteEvent`,
  `PostReadBody` (`post_read_body`, 442-468) and, through `RunPhases`, a
  finished subrequest.
* `SrHeaderOk`, `SrHeaderOther` are the header filter inside the subrequest
  (store.c:32-116). They write the parent's ctx as the code does through `pr_ctx`.
* `SrBodyFilter` is the body filter inside it (store.c:298-398). A cached
  response is a sequence of tokens (status line, header line, empty line, body
  piece, junk); one step gets one token in one buffer, with or without the
  last flag, and `SrLastBuf` is a special buffer that carries only the flag.
* `PostSubrequest` is `fetch_post_subrequest` (fetch.c:282-336), and may come at
  any moment with any result.
* `Content`, `InternalRedirect`, `ReadBodyFails`, `SrRedirect` are nginx's.

### SrcacheStore

One main request whose response is on its way. `HeaderFilter` (store.c:118-271)
has one disjunct per outcome; `BodyFilter` (store.c:291-296, 400-514) likewise,
each ending in `PassBuf`, the call of the next body filter. `NoCache` and
`ValidSec` are `ngx_http_srcache_response_no_cache`, `Expire` and `StoreStatus`
the variables, `StoreSubrequest` what `store_subrequest` builds. It may fail before
`ngx_http_subrequest` has created anything (`BodyStoreNotIssued`) or after it
(`BodyStoreUnset`, store.c:634-638): then a subrequest without the copy, or with the copy
and without its length, runs although the body filter has reset `store_response`. It has
no ctx of its own until `Resumed` (store.c:46-61) gives it the one of its
`post_subrequest`, which is why its output does not get out either. `RangeFilter`,
`RangeRefused`, `UpstreamFails` and `Abort` are what nginx may do between the
header and the end of the body; `SrRedirect`, `SrHeader`, `SrEnd` are the life of
the store subrequest. A body is the sequence of its pieces' sizes; time is in
seconds.

### SrcacheHeaderParser

Bytes are counted, not read: an entry is the kinds and ends of its lines and the
number of bytes that the cache sends. `NextBuf` brings any number of them.
`ProcessStatusLine` is util.c:666-712, which works on the buffer itself;
`ProcessHeader` is one turn of the loop of util.c:715-862, which copies what fits
behind what `header_buf` holds and parses there (`Copied`, `Truncated`, `Missing`).

### SrcacheEntry

`out` is a `headers_out`: fields, slots and the list of headers, with what a
filter has removed. `StoreHeader` compares the two passes of util.c:865-1140
(`FirstPass` counts, `SecondPass` writes lines). `RangeFilter` and `StoreBody` are
what follows up to the 206 patch (store.c:405-424). `Fetch` starts a later request
with a blank `headers_out`; each `Replay...` action is a handler of `_headers.c` for
the line at hand; `Hit` is fetch.c:139-186. `Shown` is what nginx's header filter
makes of a `headers_out`.

Of the responses it is assumed (`ResponsesAssumption`) that their list of headers holds no
Content-Type, which nginx and its upstreams put into `content_type`, and no
`X-SRCache-Allow-Ranges`, the name this module takes for itself; and that a
Content-Length header that is not marked as removed tells the length of the body it
comes with. Of the locations (`ConfsAssumption`) it is assumed that a flag is raised only
for a name in the hash, which `SrcacheConf` shows of every location
(`RaisedFlagsHide`, part of `ListsReachInnerBlocks`). The opposite is not assumed, as the
code does not see to it: `Unflagged` are the headers that a location lets pass although
its hash may hide them.

### SrcacheConf

The directives are read one by one (`ReadRequest`, `ReadStatuses`, ..., one action
for each that can fail) and `MergeLocConf` then goes through the levels.
`BuiltHash`, `SharesHash` are `hide_headers_hash` (util.c:1143-1284); `Storable`
is the scan of the header filter (store.c:193-227). `Sorted` is the list in an order
that `ngx_sort` may leave it in (filter_module.c:611-612) with the comparison
`Before` (util.c:1287-1294).

### SrcacheCacheControl

`RequestNoCache` goes through a list of parts header by header (util.c:478-542) and
`Answer` is what the access handler makes of it; `ResponseNoCache` has an action for
each exit and turn of the loop over the Cache-Control headers (util.c:545-663).
`AddDigit` is the arithmetic of an `ngx_int_t` whose greatest value is `IntMax`:
modulo 2 * (`IntMax` + 1).

### SrcachePhase

`handlers` is one array for all requests, `index` where each is. `Postpone` is the
shift (fetch.c:203-234); a handler of `Waiting` may keep a request
(`HandlerWaits`) while others run. `early`, `finished` and `disturbed` are history:
who fetched or finished when, and who waited behind srcache when the array changed.

### SrcacheRegistration

A master loads files (`Load`, `Block`, `Directive`, `BlockEnds`); `PostConfig` is
filter_module.c:514-562 with `MultiHttpBlocks`, the comparison of `ngx_cycle` with
the static variable. A load may fail anywhere (`LoadFails`), and workers die and are
forked again with the master's globals as they are then (`Respawn`).

### SrcacheSubrequest

A header list is a chain of parts; the first part lies in the structure of its
request, the others are allocated. `Create` copies the structure as
`ngx_http_subrequest` does, `AdjustFetch` and `AdjustStore` mend it
(util.c:252-300), `ForwardHeader` and `ForwardNextPart` are the copying loop of
`set_content_length_header` (util.c:430-467). `AddHeader` is any module that adds a
header to any request at any moment.

### SrcacheWorker and TransparentCache

Stages of a request: fetching, the reply on its way, content, header, body, a store
subrequest on its way, answered. Times are kept as what is left of them (`left`,
`valid`, `expire`), so that `Tick` needs no clock. `due` and `kept` are history: for
how long each version may still be used. The refinement mapping gives
`TransparentCache` `due` as its `reusable` and `Source(r)` as what a request has got;
the cache, the ctx and the store subrequests have no counterpart there.

### What is assumed of nginx

* A parent is not run by write events while its subrequest is active: the
  connection's current request is then the subrequest.
* A body filter that returned `NGX_ERROR` is not called again and its
  subrequest ends with an error. An upstream that stops early, or runs
  into a timeout, ends the response with a last buffer only if a Content-Length
  or a new status shows it (`SrcacheStore.NextBuf`).
* An internal redirect clears every module ctx of its request; `headers_out`
  stays.
* The parent posted by a finished subrequest runs; the extra post in
  `fetch_post_subrequest` and the reference count of the request are not
  modelled. When nginx terminates a request it drops what is posted for it:
  a fetch subrequest whose set-up failed after nginx had created it
  (fetch.c:430) never runs.
* A failed allocation is an alternative outcome of the step it occurs in; an
  error returned from the access handler or from a body read ends the request
  (`"closed"`).
* `ngx_init_cycle` puts `ngx_cycle` in force when a load has succeeded, a freed
  cycle's address may be used again, and a new worker is forked from the master
  as it is.
* A memcached-like cache keeps an entry for its time and may drop it earlier.

## 4. The runs

| run | distinct states | result |
|---|---|---|
| `fetch` | 33 126 | holds |
| `store` | 49 455 | holds |
| `parser` | 2 313 | holds |
| `entry` | 2 034 | holds |
| `conf` | 48 140 | holds |
| `cache_control` | 88 783 | holds |
| `phase` | 10 276 | holds |
| `registration` | 20 104 | holds |
| `subrequest` | 145 716 | holds |
| `worker` | 129 904 | holds |
| `miss_header` | | finding: cached headers survive a miss |
| `registration_respawn` | | finding: a replaced worker without filters |

### What they show

* `fetch`. `HitIsWholeEntry`: what a client gets from the cache is exactly one
  well-formed entry that the cache sent to its end. `WholeEntryIsAHit`: such an
  entry is not thrown away, save in the two cases the code gives up (no memory;
  the last flag on the buffer that ends the header). `HitHasChain`,
  `StatusTellsTheSource`, `VerdictIsFinal`: the flags `from_cache`, `request_done` and
  the chain agree, also with what is logged and with what the store half's
  filters test, through every re-entry. `ParkedHasAWaker`,
  `SubrequestHasItsParent`, `OneFetchPerPass`: the protocol between handler, body
  reader and subrequest. `StatusTellsOfTheFetch`: a response that is not the cache's is
  logged as MISS if the cache was asked for it and as BYPASS if not, unless
  `srcache_fetch_skip` turned true in between; `VerdictIsFinal` exempts that case too
  (fetch.c:87, see below). `EveryRequestEnds`: no
  request hangs, whatever the cache does.
* `store`. `StoredIsWhole`, `StoredLengthIsRight` (within the limit, and announced as
  it is, save after a second header pass, see below), `NothingForbiddenIsStored`,
  `EntryDiesInTime`: what may be handed to the cache. `ClientGetsTheResponse`,
  `RequestEnds`: the client does not notice. `StatusTellsOfTheStore`:
  once the response is complete `$srcache_store_status` is STORE exactly if a store
  subrequest was issued and set up to the end, and there is at most one. "Issued" alone,
  as the documentation has it, is not enough (store.c:636, see below).
* `parser`. `CutsDoNotMatter`, `SilenceMeansCutShort`, `BodyFollowsTheHeader`: verdict
  and body are those of the uncut bytes; `ParserEnds`: the loop does.
* `entry`. `OnlyTheStatusFails`: the two passes agree and a fetch accepts what they
  write, but for the statuses listed below. `HiddenStaysOut`: what is hidden is not
  shown by a hit, save what is made anew for it: the length, and the Accept-Ranges of an
  entry that ranges are taken of, which the entry carries under another name; and save
  the two fields whose flags a block did not take over with the hash.
  `HitLooksLikeTheOriginal`, `LengthIsTheBody`: the way to the cache and back keeps
  the header.
* `conf`. `NearestBlockWins` for every kind of directive; `ListsReachInnerBlocks` for
  lists that no block without lists cuts off, with flags that hide nothing else.
* `cache_control`. `EveryRequestHeaderIsSeen`: a fetch is skipped iff a header refuses it,
  a store if a no-store comes with that; of a no-store alone it says nothing, as
  the code does not honour it (util.c:541, see below). `ControlIsHonoured`: early
  returns and `continue`s make no difference to what the headers say together, and
  `$srcache_expire` is exactly what is left of the first max-age, else of the Expires,
  else the default, cut to `srcache_max_expire`.
* `phase`. `UndisturbedSeesAll`, `MoveKeepsTheOthers`, `SkipIsDecidedLast`,
  `EveryRequestLeaves`: the move loses and repeats nothing, for requests that did not
  wait behind srcache when it happened.
* `registration`. `LoadedWorkersServe`: the static variable recognises the first http
  block after any history of loads.
* `subrequest`. `HeadersStayTheirOwn`, `StoreSeesItsHeaders`: for a parent whose headers
  fill one part, what is added to one request does not appear in another.
* `worker`. `IsTransparent` is the refinement of `TransparentCache`;
  `EntryIsInTime`: no entry outlives its time by more than a store subrequest takes;
  `OldVersionsDisappear`: when the origin has changed for good, its old responses are
  no longer given out, though requests go on reading and storing them for a while. The
  cache of this run takes a time of 0 as over. With one that keeps such an entry for
  good, as memcached does (`ZeroIsForever = TRUE`), `EntryIsInTime` fails (var.c:81, see
  below).

### Bounds and why they are enough

* `fetch` has one request: requests of a worker share only the `postponed` flag,
  whose two values the run reaches; the theorems hold for any set of requests.
  Entries of up to five tokens contain every transition of the parser
  (status, header, end, two body pieces) and every way to go wrong (no
  status, junk, cut before the end, empty); truncation at every token comes
  from `PostSubrequest`. Ten locations are one per branch of the handler. One
  internal redirect (`MaxRedirects`; nginx allows ten) is enough for a second
  pass that starts over the leftovers of the first. `fetches` is a history
  variable capped at 2, as 2 already violates.
* `store` has bodies of up to three pieces, and limits that are crossed by the
  header (26 against 20 + pieces), by the estimate of 15 for it, by the second
  piece, or not at all. Three ticks of the clock (`MaxClock`) are enough to pass
  a max-age of 1 or 2 and an Expires of 2 while the body is on its way.
* `parser` has a header buffer of three bytes against lines of two to five, up to
  four of them, and every point where the cache may stop.
* `entry` has the statuses of each kind (in the table, null in it, absent, with a
  text of their own), each representation of a header by itself and repeated, and
  locations that hide none or some; two headers do not affect each other.
* `conf` has four levels, the least in which a list passes a block without one on
  its way to another, and files of up to three list directives or two of any kind.
* `cache_control` has parts of none to two headers in up to three parts, pairs of
  Cache-Control headers (the loop carries one lifetime from one to the next), and
  integers up to 31 (`IntMax`), so that of the written
  numbers some fit, 64 wraps to 0 and 99 to a negative one.
* `phase` has two requests (one moves, one is parked) and two other handlers, which
  can be before, behind and around srcache.
* `registration` has four loads over three addresses, so that one is used again
  after a failed load, and blocks with and without the module, one or two to a file.
* `subrequest` has parts of two elements, up to three headers added, so that lists
  of one, two and three parts occur (`NAlloc`, `MaxPushes`, `SpareParts`; nginx
  allocates 20 at a time).
* `worker` has two requests at a time, each followed by any number of others, two
  versions (`MaxVersion`), lifetimes of one second and a store subrequest of up to one
  (`Slack`); the safety properties are theorems for all values.
* The violation runs use the smallest instance that shows the point.

### Differences between code and documents

Two are runs of their own, as nothing else in the project shows them:

* `miss_header`: status and header lines of an entry that turns out to be invalid or
  cut short have been written to the main request's `headers_out` (util.c:694,
  headers.c:114) and stay in the content handler's response.
* `registration_respawn`: a reload whose file does not use the module leaves the
  filter chains without it, also if the reload fails later; a worker that is then
  replaced has the old configuration and no filters (filter_module.c:539).

The others appear in the models as guards and exemptions:

| where | the code | the documents |
|---|---|---|
| var.c:113 | `$srcache_fetch_status` is MISS or HIT while the fetch goes on | BYPASS before the access phase is over (README.markdown:1024) |
| util.c:541 | a request's `no-store` counts only together with `no-cache`; alone it keeps nothing from being stored | "will be skipped when the request header `Cache-Control: no-store` is specified" (README.markdown:847) |
| fetch.c:87 | `srcache_fetch_skip` is evaluated again when the fetch is over; if it is true by then, the ctx that knew of the fetch is replaced, and a fetch that was refused is logged as BYPASS | MISS (README.markdown:1022) |
| store.c:636 | a store subrequest that nginx has created but `adjust_subrequest` cannot set up runs without the copy or its length, and `$srcache_store_status` is BYPASS; what it answers is discarded all the same, as the header filter gives it its ctx back (store.c:46-61) | "will always be `STORE` as long as the "store" subrequest is actually issued" (README.markdown:1040) |
| var.c:81 | `$srcache_expire` may be 0 after a body that took as long as its max-age; a cache that keeps such an entry for good (`ZeroIsForever = TRUE`) then breaks `EntryIsInTime` | memcached does (README.markdown:953) |
| store.c:434 | the limit is on header and body together | "response body length" (README.markdown:601) |
| var.c:81 | `$srcache_expire` is what is left of max-age at the last buffer | "then `N` will be used" (README.markdown:1000) |
| util.c:1137 | a header filter run again for nginx's own 416 page counts two headers and keeps one, so that the announced length is too great by a header | |
| store.c:470 | an upstream's failure under way is found by its 502; a response that was a 502 from the beginning, in a location that stores 502s, is stored as far as it came | |
| util.c:948 | a status without an entry in the table fails the response | "arbitrary positive numbers" (README.markdown:652) |
| util.c:908 | a status whose text in the table is null is stored as an entry no fetch accepts | the same |
| store.c:415 | a stored 206 keeps a Content-Length header of the whole body | 206 responses are stored (README.markdown:675) |
| util.c:1158 | a block that takes over the hash does not take over the two hide flags, so that its entries hold a hidden Content-Type or Last-Modified | README.markdown:730 |
| util.c:1158 | nor does it pass the lists on to the blocks inside it | the same |
| util.c:628 | a max-age beyond an `ngx_int_t` wraps | README.markdown:1000 |
| fetch.c:225 | a request that waits in a handler behind srcache loses its place when the array is shifted | "will always run at the end of the access phase" (README.markdown:500) |
| fetch.c:87 | `srcache_fetch_skip` is decided before the other handlers until the move | phase post-access (README.markdown:514) |
| util.c:273 | parts of a header list beyond the first are shared with the fetch subrequest | "work-around" (util.c:272) |

## 5. Fairness

`SrcacheFetch.Fairness` is weak fairness of `RunPhases`, `BodyEnd`,
`SubrequestEnd` and `Content`: nginx runs the requests it posted, the reading of
a client's body ends by `client_body_timeout` at the latest, and a subrequest
by its upstream's timeouts. Nothing is assumed of write events, of internal
redirects, or of the buffers a cache sends. `SrcacheStore.Fairness` is weak
fairness of both filters (a response that is under way continues or is cut off),
of the end of a store subrequest and of `Close`. `SrcacheHeaderParser.Fairness` is
that of the filter's loop and of the next buffer.

`SrcachePhase.Fairness` is weak fairness of the engine for a request whose turn it
is, and strong fairness of getting a turn (the event loop comes back to every
request, but between its turns others run) and of each handler being done: a
handler may wait often, not for ever. `SrcacheWorker.Fairness` is weak fairness of
each request's next step and strong fairness of `Tick`, which is disabled while a
store subrequest is at the end of its time: a second passes again and again. The
cache need not drop anything, no new request need come, and no worker need die.

## 6. The proofs

The theorems hold for every value of the constants: any number of requests,
responses, entries, handlers, blocks or header parts, and lists and numbers of any
length. They rest on the named assumptions of the modules on their constants and
on nothing else, except that those of `SrcacheWorkerProofs` are about behaviours with
`[]NoZeroTime`: to a cache that keeps an entry with the time 0 for good, no store
subrequest carries a 0. Of any other cache that is no restriction. Of memcached it is
one that the code does not see to, and without it both are false: a body that takes as
long as its max-age is enough.

| module | theorem | property |
|---|---|---|
| `SrcacheFetchProofs` | `TypeCorrect` | `TypeOK` |
| | `NoLostWakeup` | `ParkedHasAWaker` |
| | `ParentStaysPut` | `SubrequestHasItsParent` |
| | `AsksOnce` | `OneFetchPerPass` |
| | `HitsAreWhole` | `HitIsWholeEntry` |
| | `HitsHaveChains` | `HitHasChain` |
| | `StatusIsTrue` | `StatusTellsTheSource` |
| | `FetchStatusIsTrue` | `StatusTellsOfTheFetch` |
| | `VerdictStands` | `VerdictIsFinal` |
| | `WholeEntriesAreHits` | `WholeEntryIsAHit` |
| `SrcacheStoreProofs` | `WhatIsStoredIsWhole` | `StoredIsWhole` |
| | `AnnouncedLengthIsRight` | `StoredLengthIsRight` |
| | `ForbiddenIsNotStored` | `NothingForbiddenIsStored` |
| | `StoredDiesInTime` | `EntryDiesInTime` |
| | `StoringIsNotNoticed` | `ClientGetsTheResponse` |
| | `StoreStatusIsTrue` | `StatusTellsOfTheStore` |
| `SrcacheHeaderProofs` | `ParserTyped` | the parser's types |
| | `VerdictIsOnTheLines` | `CutsDoNotMatter` |
| | `BodyIsTheRest` | `BodyFollowsTheHeader` |
| | `HeaderBufIsExact` | `HeaderBufHoldsTheLine`, not in a run |
| | `SilenceIsTrue` | `SilenceMeansCutShort` |
| | `EntriesSayWhatWasShown` | the invariant of an entry |
| | `PassesOnlyDisagreeOnStatus` | `OnlyTheStatusFails` |
| | `HidingIsComplete` | `HiddenStaysOut` |
| | `HitsShowTheOriginal` | `HitLooksLikeTheOriginal` |
| | `HitsAnnounceTheirLength` | `LengthIsTheBody` |
| `SrcacheCacheControlProofs` | `EveryHeaderCounts` | `EveryRequestHeaderIsSeen` |
| | `ControlIsObeyed` | `ControlIsHonoured` |
| `SrcacheConfProofs` | `NearestBlockCounts` | `NearestBlockWins` |
| | `ListsReach` | `ListsReachInnerBlocks` |
| `SrcachePhaseProofs` | `MoveSkipsNoHandler` | `UndisturbedSeesAll` |
| | `SkipComesLast` | `SkipIsDecidedLast` |
| | `OnlySrcacheMoves` | `MoveKeepsTheOthers` |
| `SrcacheSetUpProofs` | `WorkersServe` | `LoadedWorkersServe` |
| | `HeadersStayApart` | `HeadersStayTheirOwn` |
| | `StoreHeadersForwarded` | `StoreSeesItsHeaders` |
| `SrcacheWorkerProofs` | `EntriesDieInTime` | `EntryIsInTime` |
| | `CacheIsTransparent` | `IsTransparent` |

### The protocol: `TypeOK /\ Consistent`

None of the four is inductive, and the type invariant is not either: that a filter
finds a parent ctx to write to depends on who is parked, and that depends on the
flags. The inductive invariant is `TypeOK /\ Consistent`. `Consistent` says, per
request: only a parked request has an active subrequest; a parked request waits
for its subrequest (body read, ctx not done, one fetch so far) or for its body
(ctx waiting for it, no fetch yet, and a configuration under which a
write event runs through to the ctx check, so that it returns `NGX_AGAIN` again);
a request that runs waits for nothing and its ctx is not in between; a pass that
has not finished a fetch has not started one.

The argument has three layers. Lemmas on records say what an update of a ctx or
of a subrequest keeps. `TypeStep` and `ConsistentStep` go through the actions:
`AccessTyped` and `AccessConsistent` treat the handler once for its callers,
under `Enters`, which each caller establishes; `WriteEventConsistent` shows that a
write event changes nothing; `SubrequestStepKeeps` is the frame of the filters.
`OthersConsistent` reduces the invariant of all requests to that of the one
that moved. `Invariant` combines them.

### The replay: `Sound`

That a hit is whole is a fact about the end of a fetch whose reasons lie in
every buffer before it. `Sound` adds, per request:

* `Replaying`, while a subrequest is active: before its header filter ran nothing
  was sent (`Untouched`); then, as long as the parent's `from_cache` is set and
  no copy failed, what was sent is either a proper beginning of a header
  with an empty chain (`InHeader`), or a whole header and the chain is exactly what
  followed it (`InBody`); `seen_subreq_eof` is only set once the entry's
  last buffer came.
* `CtxOK`, when none is active: `from_cache` implies that the fetch is done and the
  chain is all of a well-formed entry that was sent to its end (`Replayed`).
* `ServedOK`: a request in the access phase that has a ctx is in a location whose
  fetch is not bypassed (those returns leave the access phase with no ctx, or
  with one for the store half), so that a re-entry reaches the verdict.
* `AnsweredOK`: who was answered from the cache got the chain of its ctx and its
  length, and its request is closed; who runs or has run the content handler
  has no `from_cache`.

The lemmas `ChunkReplays`, `HeaderEndReplays`, `LineReplays`, `DiscardReplays`,
`LastBufReplays` and `HeaderReplays` are one per way of a buffer through the
filters; `PostSubrequestReplays` is the completion handler, where a copy that
failed or an entry that was cut off turns into a miss; `AccessSound` goes through the
handler's exits; `SoundStep` collects them under `TypeOK /\ Consistent`, and
`SoundInvariant` follows. `CopiedIsRest` turns the chain, described index by
index, into the `SubSeq` of the property. `VerdictStands` is an action property: each
step under the invariant is checked against it. It lets the verdict go with its ctx in
two cases, an internal redirect and a skip that turns true after the fetch (fetch.c:87).
`Informed` adds that the ctx of a pass knows of its fetch until then, for
`FetchStatusIsTrue`.

The other direction, that a whole entry is a hit, needs an invariant of its own,
`NothingLost`: while a whole entry comes, the parser has left the header exactly
when the token that ends it has been sent, and `seen_subreq_eof` is set once the last
buffer came after it (`Honoured`); afterwards `from_cache` is set. It is kept by each
way of a buffer through the filters (`ReceivedHonours` and what cites it), and
`PostSubrequestHonours` turns it into the verdict.

### The store half: `Inv`

`StoredIsWhole` and `StoredLengthIsRight` speak of the moment at which the store
subrequest is built; `CopyInv` says what leads there. While a copy is being made
it is the header and the pieces that have passed (`CopyFits`), its status is the
client's (`StatusFits`) and what the header filter found still holds (`Admitted`) -
or else it is `Doomed`: the status has become an error which was not there when the
header was taken, so that the last buffer will drop it. The header filter may run
twice, the second time over what the first has left (`HeaderInv`, `StartInv`);
this is where the two exceptions come from. Neither property held of the model
without them: a proof attempt showed that a 502 from the beginning cannot be
told from a failure under way, and that nginx's own 416 page counts two headers.
`CopyStep` follows a buffer that is copied, and `BodyStoreKeeps` is the step that stores;
`BodyStoreUnsetKeeps` is the one whose subrequest runs without having been set up, of
which the two properties say nothing. `Captive` says that every store subrequest has what
gives it its ctx back.
Lengths are sums over a list of any length (`Total`, with `TotalOfAppend`).

### Cache control: `Inv`

`ScanInv` follows the request's headers part by part: what was found is what the headers
before the one at hand say (`Scanned`). `LoopInv` follows the loop over the
response's Cache-Control headers: none before `i` forbids, and the lifetime is that of
the first one with a number. `CountGrows` and `SmallIsKept` say that the digits of a
number only make it grow, so that if the whole number fits an `ngx_int_t` no beginning
of it has wrapped and what is read is what was written (`ReadAsWritten`). `ExpireIsRight`
turns the lifetime into `$srcache_expire`, the default and the cut included.

### The configuration: `Inv`

While the file is read, each level holds what was said on it so far (`Holds`,
`Said`); of a level that is merged, each value is that of the nearest level that says
it (`Resolved`, `Hides`). `NearestStep` is what one merge adds: nearest to a level is
what it says or what is nearest to the one around it. The scan of the status list is
right because the list is sorted downwards and ends in a 0 (`ScanOfSorted`); that a
sorted order of any list exists, so that `Sorted` means something, is `OrderExists`.

### The handler array: `Inv`

`Undisturbed` says of a request that did not wait behind srcache when the array was
shifted: handlers before its index have seen it once and those behind it not at all.
The shift keeps this because the handlers that move down are the ones such a request
has not reached (`Placed`, `ArrayInv`). After the move srcache is last in the array, so that
whoever gets to it has been everywhere else.

### Registration: `Inv`

`LoadInv` says of the load that is going on: a finished block that uses the module has
its handler, filters are in the chain if any finished block has one, and from the
first finished block on the static variable is `ngx_cycle`, so that a later block is
never taken for a first one. A first block may be taken for a later one (a load that
failed has left the variable so); then it registers what it need not, which does no
harm. `IdleInv` carries the result to a worker forked later, as long as no load has
failed since.

### The parser: `Inv`

Cut by cut the parser knows only `pos`, `line` and `fill`. The invariant adds what these
mean: `header_buf` holds what was consumed of the line at hand, no more than fits;
every line before it is good; and what verdict was given fits the lines. A verdict is
then a matter of comparing the lengths of `Missing` and `Copied`, once for each of the
parser's actions, and silence at the end means that the line at hand was not sent
whole.

### The entry: `EntryInv`

What a hit shows and what the original response showed are two sets of headers, made
from two `headers_out` that have different fields set; they meet in the lines of the
entry. `ShownBy(l)` is what one line stands for. The invariant has two halves. On the way
to the cache, `Says`: the lines stand for what the client is shown, up to the names that
`Exempt` lists, whatever the range filter has done to `headers_out` in between
(`TakenOK`, `StoredOK`). On the way back, `SaysSoFar`: `headers_out` shows what the lines
before `at` stand for (`ReplayOK`). At the last line the two are about the same lines.

* `PassesAgree` is the first half of `OnlyTheStatusFails`: the sum that the first pass
  computes is the number of bytes of the lines that the second writes, kind of line by
  kind of line (`FieldLines`, `ListFacts`), so that only `StatusSize` can make a difference.
* `EntryShows` and `EntrySays` give `Says` from the way a header is represented: as a
  field, in the list, or as both (`MiddleLines`); `MiddleNames` says that no line has a
  name that a flag or the list hides.
* `RangeFilterKeeps` needs that a 206 exempts Content-Range and Accept-Ranges, and that
  lengths are only promised for other statuses (`LengthsAre`): the Content-Length line was
  written before the body was cut down.
* Each handler of `_headers.c` has to show `Adds`: it makes `headers_out` show what its
  line stands for and nothing else. `JoinsAdds` does so for all that push a header.
  A repeated Content-Type replaces the field, which is harmless as all such lines of an
  entry agree (`OneType`).
* `HeadersOK` remembers of each pushed header which line it came from, so that a hidden
  name or a wrong length would have to be in the lines already.

`Sum` and `ListLines` recurse over a list of any length. `RecursionExists` shows that
such a recursive function exists, from which `SumUnfolds` and `ListUnfolds` get its
equations.

### Subrequests: `ListsInv`

A header list is a chain of parts, and a part may look into another's array. `Memory`
keeps the chains finite: a part follows only parts that were allocated before it
(`Follows`). A list is the set `C` of parts it goes through, closed under `next`, and
its end is the one part of `C` without a `next` (`IsList`); so an element added to a
list changes the contents of another only if it lies in a part both go through, or in an
array both look into (`OneMoreContents`, `SameContents`).

* `Owned` says whose array a part looks into: the fetch subrequest's copy into the
  parent's, the store subrequest's into the parent's until `AdjustStore` gives it its own.
* `MainOK`, `FetchOK`: as long as the parent's list is one part (`~shares`), what the
  fetch subrequest adds lies behind the parent's elements or in new parts, and the fetch is
  over before the store begins (`InTurn`). With more parts this is false, which is the
  row of util.c:273 in the table of section 4.
* `StoreOK`: the store subrequest's own list goes through none of the parent's parts.
  While headers are forwarded, what it has is what was said to it, and with what is left
  to be read of the parent's list, less Content-Length (`Rest`, `WithoutLength`), it is what
  it is due.

`ContentsUnfold` gives the contents of a chain from a part on; two chains whose parts are
alike have the same contents, by the part allocated last among those where they would
differ (`ChainInduction`, by `LeastNumber`).

### The worker: `Inv` and the refinement

`EntryIsInTime` is about the cache, but what will be in the cache is with the
requests. `Inv` follows a lifetime: the header filter counts it in `due`, the body
carries what is left of it (`valid`), the store subrequest takes that along
(`expire`, older by `flown`), and the cache keeps it (`left`). `LifetimeIsDue` and
`EntryIsDue` say that in each of these places it is no more than `due`, plus what
the store subrequest has taken; `Progress` says what a request has at each stage, so that a
hit is never counted. `NoZeroTime` is needed in one place, `StoreArrivesStep`, where a time
of 0 would put an entry without an end into the cache. `OthersKeepTheirs` uses that `due` only grows but for
`Tick`, which takes one from every side. The refinement goes by action: `Lookup` is
`Recall`, for which `EntryIsDue` gives the guard, `Content` is `AskOrigin`,
`HeaderStore` is `Keep`, `BodyEnds` and `StoreSubrequest` are `Answer`, and what
happens to the cache is a stutter.

### Only model-checked

* The liveness properties (`EveryRequestEnds`, `RequestEnds`, `ParserEnds`,
  `EveryRequestLeaves`, `OldVersionsDisappear`): liveness under fairness and `ENABLED`
  are out of the prover's reach.
* The two properties that the code violates, `NoCachedHeaderOnMiss` and
  `EveryWorkerServes`: their runs show the counterexamples.

Every other property of a run is stated by a theorem above.

The induction theorems of the library cannot be used. Where a proof needs induction over
a list or a number (`SumExists`, `CountExists`, `OrderExists`, `Downward`,
`ChainInduction`), it takes the least counterexample, which exists because `<` is
well-founded on the naturals (`LeastNumber`).

## 7. Not modelled, and why

* Key composition, and locations whose entries differ by range or by Vary: the
  directives' arguments are evaluated by nginx, and the module knows no key.
* `satisfy any`, which ends the access phase at the first handler that allows:
  nginx's own engine.
* `srcache_max_expire` in `SrcacheWorker` (it is in `SrcacheCacheControl` and in
  `SrcacheStore`, which bound a lifetime with it).
* A failure of `ngx_list_init` itself when a header list is made anew: it leaves the
  request as the other set-up failures do.
* That nginx sends a 304 without a body from headers that the module has
  restored: `ngx_http_header_filter`'s.
* `srcache_store` in a location that is itself reached by a subrequest
  (store.c:245): an error without a change of state.
* Reference counts and memory pools; `ddebug.h`, which only prints; the build
  script, tests and documents.

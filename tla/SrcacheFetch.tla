---------------------------- MODULE SrcacheFetch ----------------------------
(***************************************************************************)
(* The fetch half of ngx_srcache: the access-phase handler, the fetch      *)
(* subrequest it issues, the header and body filters as they run inside    *)
(* that subrequest, and its completion (ngx_http_srcache_fetch.c, and the  *)
(* in_fetch_subrequest branches of ngx_http_srcache_store.c).              *)
(*                                                                         *)
(* A cached response is a sequence of tokens: a status line, header lines, *)
(* the empty line that ends them, then pieces of the body; "junk" is       *)
(* anything the parser rejects, a header line longer than                  *)
(* srcache_header_buffer_size included.  One step of the body filter gets  *)
(* one buffer with one token: all the parser's state is in the ctx, so a   *)
(* longer buffer or a chain of them behaves as several steps.              *)
(***************************************************************************)
EXTENDS Naturals, Sequences

CONSTANTS
    Requests,      \* client connections' main requests handled by the worker
    Data,          \* contents of header lines and body pieces
    Entries,       \* what the fetch location may send as a whole response
    Locations,     \* configurations of the locations a request may land in
    MaxRedirects,  \* internal redirects of one request (nginx caps them at 10)
    RunsLast,      \* srcache is already the last handler of the access phase
    NoCtx, NoSr    \* a NULL module ctx, no fetch subrequest yet

TokenKinds == {"status", "header", "end", "body", "junk"}

Tokens == [kind : TokenKinds, data : Data]

(* fetch, store: srcache_fetch and srcache_store are set there; cacheable:  *)
(* the method is in srcache_methods; no_cache, no_store: the request's      *)
(* Cache-Control or Pragma says so and srcache_request_cache_control is on; *)
(* skip: when srcache_fetch_skip evaluates to true.                         *)
LocationConfs ==
    [fetch : BOOLEAN, store : BOOLEAN, cacheable : BOOLEAN,
     no_cache : BOOLEAN, no_store : BOOLEAN,
     skip : {"never", "always", "after_body", "after_fetch"}]

(* ngx_http_srcache_ctx_t of a main request; the chain body_from_cache is   *)
(* the tokens copied to it, chained is FALSE while the pointer is NULL.     *)
Ctxs ==
    [waiting_subrequest : BOOLEAN, request_done : BOOLEAN,
     from_cache : BOOLEAN, issued_fetch_subrequest : BOOLEAN,
     waiting_request_body : BOOLEAN, request_body_done : BOOLEAN,
     chained : BOOLEAN, body_from_cache : Seq(Tokens)]

FreshCtx ==
    [waiting_subrequest |-> FALSE, request_done |-> FALSE,
     from_cache |-> FALSE, issued_fetch_subrequest |-> FALSE,
     waiting_request_body |-> FALSE, request_body_done |-> FALSE,
     chained |-> FALSE, body_from_cache |-> <<>>]

(* A fetch subrequest and its own ctx.  entry is what the fetch location    *)
(* would send, sent how much of it went through the body filter, ended      *)
(* whether a buffer carried the last flag; has_ctx is cleared by an         *)
(* internal redirect; post_subrequest tells whose handler and data the      *)
(* subrequest's post_subrequest holds; oom: a copy found no memory.         *)
Subrequests ==
    [active : BOOLEAN, has_ctx : BOOLEAN,
     post_subrequest : {"none", "srcache", "other"},
     status : {"none", "200", "2xx", "special"},
     rc : {"none", "OK", "ERROR", "special"},
     entry : Entries, sent : Nat, ended : BOOLEAN, oom : BOOLEAN,
     process_header : {"status_line", "header"},
     parsing_cached_headers : BOOLEAN, ignore_body : BOOLEAN,
     seen_subreq_eof : BOOLEAN]

(* Faulty: no parser is installed for the first buffer.                     *)
FirstParser_None == "none"

FirstParser == "status_line"

NewSubrequest(e) ==
    [active |-> TRUE, has_ctx |-> TRUE, post_subrequest |-> "srcache",
     status |-> "none", rc |-> "none",
     entry |-> e, sent |-> 0, ended |-> FALSE, oom |-> FALSE,
     process_header |-> FirstParser, parsing_cached_headers |-> FALSE,
     ignore_body |-> FALSE, seen_subreq_eof |-> FALSE]

Responses ==
    [from : {"none", "cache", "backend", "subrequest"},
     lines : Seq(Tokens), body : Seq(Tokens), length : Nat]

NoResponse == [from |-> "none", lines |-> <<>>, body |-> <<>>, length |-> 0]

ASSUME EntriesAssumption == Entries \subseteq Seq(Tokens)
ASSUME LocationsAssumption == Locations \subseteq LocationConfs
ASSUME BoundsAssumption == MaxRedirects \in Nat /\ RunsLast \in BOOLEAN
ASSUME NullAssumption == NoCtx \notin Ctxs /\ NoSr \notin Subrequests

VARIABLES
    conf,          \* location configuration the request runs under
    phase,         \* where the phase engine has the request
    request_body,  \* of the client: "unread", "reading" or "read"
    ctx,           \* module ctx of the main request
    sr,            \* its last fetch subrequest
    lines_out,     \* cached status and header lines in its headers_out
    client,        \* what the client has been sent
    redirects,     \* internal redirects so far
    fetches,       \* history: subrequests since the last redirect, up to 2
    postponed      \* worker: smcf->postponed_to_access_phase_end

vars == <<conf, phase, request_body, ctx, sr, lines_out, client,
          redirects, fetches, postponed>>

Init ==
    /\ conf \in [Requests -> Locations]
    /\ phase = [r \in Requests |-> "access"]
    /\ request_body = [r \in Requests |-> "unread"]
    /\ ctx = [r \in Requests |-> NoCtx]
    /\ sr = [r \in Requests |-> NoSr]
    /\ lines_out = [r \in Requests |-> <<>>]
    /\ client = [r \in Requests |-> NoResponse]
    /\ redirects = [r \in Requests |-> 0]
    /\ fetches = [r \in Requests |-> 0]
    /\ postponed = FALSE

Active(r) == sr[r] # NoSr /\ sr[r].active

-----------------------------------------------------------------------------
(* The access handler.  c and b are the ctx and the body state it finds.    *)

(* NGX_DECLINED, NGX_AGAIN and an error, as the phase checker takes them.   *)
Return(r, where, c, b) ==
    /\ phase' = [phase EXCEPT ![r] = where]
    /\ ctx' = [ctx EXCEPT ![r] = c]
    /\ request_body' = [request_body EXCEPT ![r] = b]
    /\ UNCHANGED <<conf, lines_out, redirects>>

UnchangedFetch == UNCHANGED <<sr, fetches>>
UnchangedOthers == UnchangedFetch /\ UNCHANGED <<client, postponed>>

Eligible(r) ==
    (conf[r].fetch \/ conf[r].store) /\ conf[r].cacheable

SkipsFetch(r, c, b) ==
    \/ conf[r].skip = "always"
    \/ conf[r].skip = "after_body" /\ b = "read"
    \/ conf[r].skip = "after_fetch" /\ c # NoCtx /\ c.request_done

(* No srcache here, or a method it does not serve: no ctx is registered.    *)
AccessBypass(r, c, b) ==
    /\ ~Eligible(r)
    /\ Return(r, "content", c, b)
    /\ UnchangedOthers

(* The request asks not to be served from a cache; a ctx lets the store     *)
(* half run unless it asks not to be stored either.                         *)
AccessNoCache(r, c, b) ==
    /\ Eligible(r) /\ conf[r].no_cache
    /\ Return(r, "content", IF conf[r].no_store THEN c ELSE FreshCtx, b)
    /\ UnchangedOthers

(* srcache_fetch_skip is evaluated on every entry, before the ctx is read.  *)
AccessSkip(r, c, b) ==
    /\ Eligible(r) /\ ~conf[r].no_cache /\ SkipsFetch(r, c, b)
    /\ Return(r, "content", FreshCtx, b)
    /\ UnchangedOthers

Serves(r, c, b) ==
    Eligible(r) /\ ~conf[r].no_cache /\ ~SkipsFetch(r, c, b)

(* Faulty: a request still reading its body is taken for a new one.         *)
Waiting_NotForBody(c) == c.waiting_subrequest

Waiting(c) == c.waiting_subrequest \/ c.waiting_request_body

AccessWait(r, c, b) ==
    /\ Serves(r, c, b) /\ c # NoCtx /\ Waiting(c)
    /\ Return(r, "parked", c, b)
    /\ UnchangedOthers

(* Faulty: a fetch that was issued leaves no trace in the ctx.              *)
Issued_NotNoted(c) == [c EXCEPT !.waiting_subrequest = TRUE]

Issued(c) == [c EXCEPT !.issued_fetch_subrequest = TRUE,
                       !.waiting_subrequest = TRUE]

(* ngx_http_srcache_fetch_subrequest: it fails, or the subrequest will send *)
(* some entry; either way the access handler returns.                       *)
FetchSubrequest(r, c, b) ==
    \/ /\ Return(r, "closed", c, b)
       /\ UnchangedFetch
    \/ \E e \in Entries :
          /\ sr' = [sr EXCEPT ![r] = NewSubrequest(e)]
          /\ fetches' = [fetches EXCEPT ![r] = IF @ < 2 THEN @ + 1 ELSE @]
          /\ Return(r, "parked", Issued(c), b)

(* Faulty: request_body_done stays set.                                     *)
BodyTaken_KeepsFlag(c) == c

BodyTaken(c) == [c EXCEPT !.request_body_done = FALSE]

AccessBodyRead(r, c, b) ==
    /\ Serves(r, c, b) /\ c # NoCtx /\ ~Waiting(c) /\ c.request_body_done
    /\ FetchSubrequest(r, BodyTaken(c), b)
    /\ UNCHANGED <<client, postponed>>

FetchDone(r, c, b) ==
    /\ Serves(r, c, b) /\ c # NoCtx /\ ~Waiting(c)
    /\ ~c.request_body_done /\ c.request_done

(* No hit: the request goes on, or cannot be posted again.                  *)
AccessMiss(r, c, b) ==
    /\ FetchDone(r, c, b) /\ ~(c.from_cache /\ c.chained)
    /\ \E where \in {"content", "closed"} : Return(r, where, c, b)
    /\ UnchangedOthers

(* The cached body goes out under the length of the copied chain.  Nothing  *)
(* of it follows the header for HEAD, a 304, filter_finalize or an error of *)
(* the output filter; the header itself may also be refused.                *)
AccessHit(r, c, b) ==
    /\ FetchDone(r, c, b) /\ c.from_cache /\ c.chained
    /\ \/ client' = client
       \/ \E out \in {c.body_from_cache, <<>>} :
            client' = [client EXCEPT ![r] =
                        [from |-> "cache", lines |-> lines_out[r],
                         body |-> out, length |-> Len(c.body_from_cache)]]
    /\ Return(r, "closed", c, b)
    /\ UnchangedFetch /\ UNCHANGED postponed

(* First entry, or the one that follows a postponement.                     *)
Starts(r, c, b) ==
    /\ Serves(r, c, b)
    /\ c # NoCtx => ~Waiting(c) /\ ~c.request_body_done /\ ~c.request_done

OrFresh(c) == IF c = NoCtx THEN FreshCtx ELSE c

(* The first request of the worker moves the handler to the end of the      *)
(* phase and is run again there, after the other access handlers.           *)
AccessPostpone(r, c, b) ==
    /\ Starts(r, c, b) /\ ~postponed /\ ~RunsLast
    /\ postponed' = TRUE
    /\ Return(r, "access", OrFresh(c), b)
    /\ UnchangedFetch /\ UNCHANGED client

AtPhaseEnd == (postponed \/ RunsLast) /\ postponed' = TRUE

AccessStoreOnly(r, c, b) ==
    /\ Starts(r, c, b) /\ AtPhaseEnd /\ ~conf[r].fetch
    /\ Return(r, "content", OrFresh(c), b)
    /\ UnchangedFetch /\ UNCHANGED client

(* The body is at hand, or arrives at once.                                 *)
AccessFetch(r, c, b) ==
    /\ Starts(r, c, b) /\ AtPhaseEnd /\ conf[r].fetch
    /\ FetchSubrequest(r, OrFresh(c), IF b = "unread" THEN "read" ELSE b)
    /\ UNCHANGED client

(* Faulty: NGX_AGAIN without a note of what is waited for.                  *)
BodyPending_NoFlag(c) == c

BodyPending(c) == [c EXCEPT !.waiting_request_body = TRUE]

AccessReadBody(r, c, b) ==
    /\ Starts(r, c, b) /\ AtPhaseEnd /\ conf[r].fetch /\ b = "unread"
    /\ \/ Return(r, "closed", OrFresh(c), b)
       \/ Return(r, "parked", BodyPending(OrFresh(c)), "reading")
    /\ UnchangedFetch /\ UNCHANGED client

(* No memory for a ctx.                                                     *)
AccessNoCtx(r, c, b) ==
    /\ \/ Eligible(r) /\ conf[r].no_cache /\ ~conf[r].no_store
       \/ Eligible(r) /\ ~conf[r].no_cache /\ SkipsFetch(r, c, b)
       \/ Serves(r, c, b) /\ c = NoCtx
    /\ Return(r, "closed", c, b)
    /\ UnchangedOthers

Access(r, c, b) ==
    \/ AccessNoCtx(r, c, b)
    \/ AccessBypass(r, c, b)
    \/ AccessNoCache(r, c, b)
    \/ AccessSkip(r, c, b)
    \/ AccessWait(r, c, b)
    \/ AccessBodyRead(r, c, b)
    \/ AccessMiss(r, c, b)
    \/ AccessHit(r, c, b)
    \/ AccessPostpone(r, c, b)
    \/ AccessStoreOnly(r, c, b)
    \/ AccessFetch(r, c, b)
    \/ AccessReadBody(r, c, b)

(* The phase engine reaches the handler: a new request, a redirected one,   *)
(* or a parent posted by its finished subrequest.                           *)
RunPhases(r) ==
    phase[r] = "access" /\ Access(r, ctx[r], request_body[r])

(* A write event of the client connection re-runs the phases of a parked    *)
(* request; while a subrequest is active nginx gives it such events.        *)
WriteEvent(r) ==
    /\ phase[r] = "parked" /\ ~Active(r)
    /\ Access(r, ctx[r], request_body[r])

(* ngx_http_srcache_post_read_body runs the phases itself.                  *)
PostReadBody(r) ==
    /\ phase[r] = "parked" /\ request_body[r] = "reading"
    /\ ctx[r].waiting_request_body
    /\ Access(r, [ctx[r] EXCEPT !.request_body_done = TRUE,
                                !.waiting_request_body = FALSE], "read")

(* nginx gives up on the client's body: timeout, error, abort.              *)
ReadBodyFails(r) ==
    /\ phase[r] = "parked" /\ request_body[r] = "reading"
    /\ phase' = [phase EXCEPT ![r] = "closed"]
    /\ UNCHANGED <<conf, request_body, ctx, sr, lines_out, client, redirects,
                   fetches, postponed>>

-----------------------------------------------------------------------------
(* The filters inside the fetch subrequest.                                 *)

UnchangedParent ==
    UNCHANGED <<conf, phase, request_body, redirects, fetches, postponed>>

(* error_page, X-Accel-Redirect, ...: the subrequest's module ctx is gone.  *)
SrRedirect(r) ==
    /\ Active(r) /\ sr[r].status = "none" /\ sr[r].has_ctx
    /\ sr' = [sr EXCEPT ![r].has_ctx = FALSE]
    /\ UnchangedParent /\ UNCHANGED <<ctx, lines_out, client>>

(* Faulty: a ctx lost to an internal redirect stays lost.                   *)
Resumed_Never(s) == s

(* The header filter takes a lost ctx back from the data of a              *)
(* post_subrequest whose handler is srcache's.                              *)
Resumed(s) ==
    IF s.post_subrequest = "srcache" THEN [s EXCEPT !.has_ctx = TRUE] ELSE s

(* Without a ctx the filters take the subrequest for any other.             *)
SrHeaderOk(r) ==
    /\ Active(r) /\ sr[r].status = "none"
    /\ LET s == Resumed(sr[r]) IN
       /\ sr' = [sr EXCEPT ![r] = [s EXCEPT !.status = "200",
                              !.parsing_cached_headers = s.has_ctx]]
       /\ ctx' = [ctx EXCEPT ![r].from_cache = @ \/ s.has_ctx]
    /\ UnchangedParent /\ UNCHANGED <<lines_out, client>>

(* Faulty: the parent is declared done at the header already.               *)
Refused_Done(c) == [c EXCEPT !.request_done = TRUE]

Refused(c) == [c EXCEPT !.waiting_subrequest = FALSE]

(* Any other status: waiting_subrequest is cleared ahead of the end.        *)
SrHeaderOther(r, status) ==
    /\ Active(r) /\ sr[r].status = "none"
    /\ LET s == Resumed(sr[r]) IN
       /\ sr' = [sr EXCEPT ![r] = [s EXCEPT !.status = status,
                                           !.ignore_body = s.has_ctx]]
       /\ ctx' = [ctx EXCEPT ![r] = IF s.has_ctx THEN Refused(@) ELSE @]
    /\ UnchangedParent /\ UNCHANGED <<lines_out, client>>

(* A body filter that returned NGX_ERROR is not called again.               *)
FilterFailed(s) == s.oom /\ ~s.ignore_body

(* The next buffer: one token, with the last flag if it is the last one.    *)
NextBuf(r, last) ==
    /\ Active(r) /\ sr[r].status # "none" /\ ~FilterFailed(sr[r])
    /\ ~sr[r].ended /\ sr[r].sent < Len(sr[r].entry)
    /\ last => sr[r].sent + 1 = Len(sr[r].entry)

Token(r) == sr[r].entry[sr[r].sent + 1]

Consumed(r, last) == [sr[r] EXCEPT !.sent = @ + 1, !.ended = last]

Filters(r) == sr[r].has_ctx /\ ~sr[r].ignore_body

Parses(r) == Filters(r) /\ sr[r].parsing_cached_headers

ParsesStatusLine(r) ==
    sr[r].process_header = "status_line" /\ Token(r).kind = "status"

ParsesHeaderLine(r) ==
    sr[r].process_header = "header" /\ Token(r).kind = "header"

ParsesHeaderEnd(r) ==
    sr[r].process_header = "header" /\ Token(r).kind = "end"

(* An ignored buffer is dropped; without a ctx it is passed on and becomes  *)
(* part of the response.                                                    *)
SrDiscard(r, last) ==
    /\ NextBuf(r, last) /\ ~Filters(r)
    /\ sr' = [sr EXCEPT ![r] = Consumed(r, last)]
    /\ client' = IF sr[r].has_ctx THEN client
                 ELSE [client EXCEPT ![r].from = "subrequest"]
    /\ UnchangedParent /\ UNCHANGED <<ctx, lines_out>>

Pushed(r) == [lines_out EXCEPT ![r] = Append(@, Token(r))]

(* Status and header lines go to the parent's headers_out as they come.     *)
SrStatusLine(r, last) ==
    /\ NextBuf(r, last) /\ Parses(r) /\ ParsesStatusLine(r)
    /\ sr' = [sr EXCEPT ![r] = [Consumed(r, last) EXCEPT
                                 !.process_header = "header"]]
    /\ lines_out' = Pushed(r)
    /\ UnchangedParent /\ UNCHANGED <<ctx, client>>

SrHeaderLine(r, last) ==
    /\ NextBuf(r, last) /\ Parses(r) /\ ParsesHeaderLine(r)
    /\ sr' = [sr EXCEPT ![r] = Consumed(r, last)]
    /\ lines_out' = Pushed(r)
    /\ UnchangedParent /\ UNCHANGED <<ctx, client>>

(* Faulty: the last flag of the used-up buffer counts, but nothing is       *)
(* copied for the parent to send.                                           *)
HeaderDone_NotesEof(s) ==
    [s EXCEPT !.parsing_cached_headers = FALSE, !.seen_subreq_eof = s.ended]

HeaderDone(s) == [s EXCEPT !.parsing_cached_headers = FALSE]

(* The buffer is used up: its last flag, if any, is not looked at.          *)
SrHeaderEnd(r, last) ==
    /\ NextBuf(r, last) /\ Parses(r) /\ ParsesHeaderEnd(r)
    /\ sr' = [sr EXCEPT ![r] = HeaderDone(Consumed(r, last))]
    /\ UnchangedParent /\ UNCHANGED <<ctx, lines_out, client>>

(* An invalid line, or no memory for a valid one: the rest is ignored.  The *)
(* status is set before the header buffer is allocated.                     *)
SrParseError(r, last) ==
    /\ NextBuf(r, last) /\ Parses(r)
    /\ sr' = [sr EXCEPT ![r] =
                [Consumed(r, last) EXCEPT
                  !.parsing_cached_headers = FALSE, !.ignore_body = TRUE,
                  !.oom = ParsesStatusLine(r) \/ ParsesHeaderLine(r)]]
    /\ ~ParsesHeaderEnd(r)
    /\ lines_out' = IF ParsesStatusLine(r) THEN Pushed(r) ELSE lines_out
    /\ ctx' = [ctx EXCEPT ![r].from_cache = FALSE]
    /\ UnchangedParent /\ UNCHANGED client

Copies(r) == Filters(r) /\ ~sr[r].parsing_cached_headers

SrBodyChunk(r, last) ==
    /\ NextBuf(r, last) /\ Copies(r)
    /\ sr' = [sr EXCEPT ![r] = [Consumed(r, last) EXCEPT
                                 !.seen_subreq_eof = @ \/ last]]
    /\ ctx' = [ctx EXCEPT ![r].body_from_cache = Append(@, Token(r)),
                          ![r].chained = TRUE]
    /\ UnchangedParent /\ UNCHANGED <<lines_out, client>>

(* No memory for the copy: the filter returns NGX_ERROR.                    *)
SrCopyFails(r, last) ==
    /\ NextBuf(r, last) /\ Copies(r)
    /\ sr' = [sr EXCEPT ![r] = [Consumed(r, last) EXCEPT !.oom = TRUE]]
    /\ UnchangedParent /\ UNCHANGED <<ctx, lines_out, client>>

(* Faulty: only buffers in memory are asked for the last flag.              *)
SpecialBufIsSeen_Never(r) == FALSE

SpecialBufIsSeen(r) == Copies(r)

(* A special buffer that only carries the last flag: the parser does not    *)
(* look at it, the copy links it.                                           *)
SrLastBuf(r) ==
    /\ Active(r) /\ sr[r].status # "none" /\ ~FilterFailed(sr[r])
    /\ ~sr[r].ended /\ sr[r].sent = Len(sr[r].entry)
    /\ sr' = [sr EXCEPT ![r].ended = TRUE,
                        ![r].seen_subreq_eof = @ \/ SpecialBufIsSeen(r)]
    /\ ctx' = IF Copies(r) THEN [ctx EXCEPT ![r].chained = TRUE] ELSE ctx
    /\ UnchangedParent /\ UNCHANGED <<lines_out, client>>

SrBodyFilter(r) ==
    \/ \E last \in BOOLEAN :
         \/ SrDiscard(r, last)
         \/ SrStatusLine(r, last)
         \/ SrHeaderLine(r, last)
         \/ SrHeaderEnd(r, last)
         \/ SrParseError(r, last)
         \/ SrBodyChunk(r, last)
         \/ SrCopyFails(r, last)
    \/ SrLastBuf(r)

(* Faulty: a truncated body passes.                                         *)
Rejected_NotForEof(s, rc) ==
    \/ s.parsing_cached_headers
    \/ s.status = "special" \/ rc \in {"ERROR", "special"}

(* What the completion handler takes for a failure of the subrequest.       *)
Rejected(s, rc) ==
    \/ s.parsing_cached_headers
    \/ s.status = "special" \/ rc \in {"ERROR", "special"}
    \/ ~s.seen_subreq_eof

(* Faulty: waiting_subrequest is left to the header filter.                 *)
Completed_StillWaiting(c, ok) ==
    [c EXCEPT !.from_cache = @ /\ ok, !.request_done = TRUE]

Completed(c, ok) ==
    [c EXCEPT !.from_cache = @ /\ ok, !.waiting_subrequest = FALSE,
              !.request_done = TRUE]

(* The subrequest ends, at any point: complete, truncated, refused, timed   *)
(* out.  Its parent is posted to run again.                                 *)
PostSubrequest(r, rc) ==
    /\ Active(r)
    /\ FilterFailed(sr[r]) => rc = "ERROR"
    /\ sr' = [sr EXCEPT ![r].active = FALSE, ![r].rc = rc]
    /\ ctx' = [ctx EXCEPT ![r] = Completed(@, ~Rejected(sr[r], rc))]
    /\ phase' = [phase EXCEPT ![r] = "access"]
    /\ UNCHANGED <<conf, request_body, lines_out, client, redirects, fetches,
                   postponed>>

-----------------------------------------------------------------------------
(* The rest of the request.                                                 *)

(* The content handler answers, over whatever headers_out already holds.    *)
Content(r) ==
    /\ phase[r] = "content"
    /\ phase' = [phase EXCEPT ![r] = "closed"]
    /\ client' = [client EXCEPT ![r] = [NoResponse EXCEPT
                                         !.from = "backend",
                                         !.lines = lines_out[r]]]
    /\ UNCHANGED <<conf, request_body, ctx, sr, lines_out, redirects, fetches,
                   postponed>>

(* It redirects to another location instead: every module ctx is cleared    *)
(* and the phases run again.                                                *)
InternalRedirect(r) ==
    /\ phase[r] = "content" /\ redirects[r] < MaxRedirects
    /\ redirects' = [redirects EXCEPT ![r] = @ + 1]
    /\ conf' \in {[conf EXCEPT ![r] = l] : l \in Locations}
    /\ phase' = [phase EXCEPT ![r] = "access"]
    /\ ctx' = [ctx EXCEPT ![r] = NoCtx]
    /\ fetches' = [fetches EXCEPT ![r] = 0]
    /\ UNCHANGED <<request_body, sr, lines_out, client, postponed>>

SubrequestStep(r) ==
    \/ SrRedirect(r)
    \/ SrHeaderOk(r)
    \/ \E status \in {"2xx", "special"} : SrHeaderOther(r, status)
    \/ SrBodyFilter(r)

SubrequestEnd(r) == \E rc \in {"OK", "ERROR", "special"} : PostSubrequest(r, rc)

BodyEnd(r) == PostReadBody(r) \/ ReadBodyFails(r)

Terminated ==
    (\A r \in Requests : phase[r] = "closed") /\ UNCHANGED vars

Next ==
    \/ \E r \in Requests :
         \/ RunPhases(r)
         \/ WriteEvent(r)
         \/ BodyEnd(r)
         \/ SubrequestStep(r)
         \/ SubrequestEnd(r)
         \/ Content(r)
         \/ InternalRedirect(r)
    \/ Terminated

(* nginx runs what it posted, and its timers (client_body_timeout, the      *)
(* upstream's timeouts) end the reading of a body and a subrequest.         *)
Fairness ==
    \A r \in Requests :
      /\ WF_vars(RunPhases(r)) /\ WF_vars(BodyEnd(r))
      /\ WF_vars(SubrequestEnd(r)) /\ WF_vars(Content(r))

Spec == Init /\ [][Next]_vars

FairSpec == Spec /\ Fairness

-----------------------------------------------------------------------------
(* $srcache_fetch_status, wherever it is evaluated.                         *)

(* Faulty: a subrequest was issued, so it must be a miss.                   *)
FetchStatus_IssuedFirst(r) ==
    IF ctx[r] = NoCtx THEN "BYPASS"
    ELSE IF ctx[r].issued_fetch_subrequest THEN "MISS"
    ELSE IF ctx[r].from_cache THEN "HIT" ELSE "BYPASS"

FetchStatus(r) ==
    IF ctx[r] = NoCtx THEN "BYPASS"
    ELSE IF ctx[r].from_cache THEN "HIT"
    ELSE IF ctx[r].issued_fetch_subrequest THEN "MISS" ELSE "BYPASS"

-----------------------------------------------------------------------------
(* The variables hold what their C counterparts can hold.                   *)
TypeOK ==
    /\ conf \in [Requests -> Locations]
    /\ phase \in [Requests -> {"access", "parked", "content", "closed"}]
    /\ request_body \in [Requests -> {"unread", "reading", "read"}]
    /\ ctx \in [Requests -> Ctxs \cup {NoCtx}]
    /\ sr \in [Requests -> Subrequests \cup {NoSr}]
    /\ lines_out \in [Requests -> Seq(Tokens)]
    /\ client \in [Requests -> Responses]
    /\ redirects \in [Requests -> 0..MaxRedirects]
    /\ fetches \in [Requests -> 0..2]
    /\ postponed \in BOOLEAN

(* The header block of entry e ends at its n-th token.                      *)
HeaderEndsAt(e, n) ==
    /\ n \in 2..Len(e) /\ e[1].kind = "status" /\ e[n].kind = "end"
    /\ \A i \in 2..(n - 1) : e[i].kind = "header"

(* What the cache location sends reaches the client only through the parent *)
(* (a subrequest whose ctx an internal redirect cleared included), and a    *)
(* client answered so was promised, and given unless the response has no    *)
(* body, exactly the body of one well-formed entry that was sent to its     *)
(* end: no truncated, refused or garbled entry is ever served, and no piece *)
(* is lost or doubled on its way through the filters, the copied chain and  *)
(* Content-Length.                                                          *)
HitIsWholeEntry ==
    \A r \in Requests : client[r].from \in {"cache", "subrequest"} =>
      \E n \in 2..Len(sr[r].entry) :
        /\ client[r].from = "cache"
        /\ HeaderEndsAt(sr[r].entry, n)
        /\ sr[r].sent = Len(sr[r].entry)
        /\ client[r].length = Len(sr[r].entry) - n
        /\ client[r].body
             \in {<<>>, SubSeq(sr[r].entry, n + 1, Len(sr[r].entry))}

(* A finished fetch that counts as a hit has a chain to send: the access    *)
(* handler never finds from_cache set with body_from_cache NULL, where it   *)
(* would decline and leave the store half bypassed.                         *)
HitHasChain ==
    \A r \in Requests :
      ctx[r] # NoCtx /\ ctx[r].request_done /\ ctx[r].from_cache
        => ctx[r].chained

(* $srcache_fetch_status is HIT for a response from the cache and is not    *)
(* once the content handler has the request, so a log line never            *)
(* attributes a response to the wrong side; and as the filters test the     *)
(* same flag, the store half is bypassed for hits alone.                    *)
StatusTellsTheSource ==
    \A r \in Requests :
      /\ client[r].from = "cache" => FetchStatus(r) = "HIT"
      /\ phase[r] = "content" \/ client[r].from = "backend"
           => FetchStatus(r) # "HIT"

(* A parked request is waiting for something that is still going on, so the *)
(* event that wakes it is still to come.                                    *)
ParkedHasAWaker ==
    \A r \in Requests : phase[r] = "parked" =>
      \/ Active(r)
      \/ request_body[r] = "reading" /\ ctx[r].waiting_request_body

(* An active fetch subrequest has its parent parked under the ctx it        *)
(* reports to, with the client's body read: pr_ctx is never NULL or         *)
(* another pass's.                                                          *)
SubrequestHasItsParent ==
    \A r \in Requests : Active(r) =>
      /\ phase[r] = "parked" /\ request_body[r] = "read"
      /\ ctx[r] # NoCtx /\ ctx[r].issued_fetch_subrequest
      /\ ~ctx[r].request_done /\ ~ctx[r].waiting_request_body

(* One pass through the phases asks the cache at most once, however often   *)
(* the handler is re-entered.                                               *)
OneFetchPerPass == \A r \in Requests : fetches[r] < 2

(* A response that does not come from the cache is logged as MISS when the  *)
(* cache was asked in this pass and as BYPASS when it was not, whatever the *)
(* subrequest did and however often the handler was re-entered; except that *)
(* a srcache_fetch_skip which turned true after the subrequest was issued   *)
(* replaces the ctx that knew of it.                                        *)
StatusTellsOfTheFetch ==
    \A r \in Requests : phase[r] = "content" \/ client[r].from = "backend" =>
      \/ FetchStatus(r) = IF fetches[r] > 0 THEN "MISS" ELSE "BYPASS"
      \/ fetches[r] > 0 /\ conf[r].skip \in {"after_body", "after_fetch"}

(* A whole well-formed entry that ended well is a hit, whatever buffers it  *)
(* came in, but for lack of memory or the one case the code gives up: the   *)
(* last flag on the very buffer that ends the header.                       *)
WholeEntryIsAHit ==
    \A r \in Requests :
      sr[r] # NoSr /\ ctx[r] # NoCtx /\ ctx[r].request_done =>
        LET s == sr[r] IN
        (/\ s.status = "200" /\ s.rc = "OK" /\ s.ended /\ ~s.oom
         /\ \E n \in 2..Len(s.entry) :
              HeaderEndsAt(s.entry, n)
              /\ (n < Len(s.entry) \/ s.seen_subreq_eof))
        => ctx[r].from_cache

(* The verdict on a finished fetch stands through every re-entry and event  *)
(* of its pass: the ctx that holds it goes only when the content handler    *)
(* redirects the request, or when srcache_fetch_skip has turned true since  *)
(* the fetch and the access handler registers another.                      *)
VerdictIsFinal ==
    [][\A r \in Requests : ctx[r] # NoCtx /\ ctx[r].request_done =>
         \/ ctx'[r] = ctx[r]
         \/ ctx'[r] = NoCtx /\ phase[r] = "content"
         \/ /\ ctx'[r] = FreshCtx /\ phase[r] = "access"
            /\ conf[r].skip \in {"after_body", "after_fetch"}]_vars

(* Every request is answered or given up, whatever the cache does.          *)
EveryRequestEnds == \A r \in Requests : <>(phase[r] = "closed")

(* No status or header line of a cached response is in the header of a      *)
(* response that is not served from the cache.                              *)
NoCachedHeaderOnMiss ==
    \A r \in Requests : client[r].from = "backend" => client[r].lines = <<>>
=============================================================================

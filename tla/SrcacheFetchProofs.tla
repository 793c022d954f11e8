------------------------- MODULE SrcacheFetchProofs -------------------------
(* Proofs about SrcacheFetch, for every set of requests, entries and        *)
(* locations.                                                               *)
EXTENDS SrcacheFetch, TLAPS, SequenceTheorems

(* A zeroed ctx is a ctx (ngx_pcalloc).                                     *)
LEMMA FreshTyped == FreshCtx \in Ctxs
  BY DEF FreshCtx, Ctxs

(* The handler has a ctx once it got past its allocation.                   *)
LEMMA OrFreshTyped ==
  ASSUME NEW c \in Ctxs \cup {NoCtx}
  PROVE  OrFresh(c) \in Ctxs
  BY FreshTyped DEF OrFresh

(* Starting to read the client's body keeps a ctx a ctx.                    *)
LEMMA BodyPendingTyped ==
  ASSUME NEW c \in Ctxs
  PROVE  BodyPending(c) \in Ctxs
  BY DEF BodyPending, Ctxs

(* A new subrequest is a subrequest.                                        *)
LEMMA NewSubrequestTyped ==
  ASSUME NEW e \in Entries
  PROVE  NewSubrequest(e) \in Subrequests
  BY DEF NewSubrequest, FirstParser, Subrequests

Phases == {"access", "parked", "content", "closed"}
Bodies == {"unread", "reading", "read"}

(* A return of the access handler, on every path, writes values of the      *)
(* right type.                                                              *)
LEMMA ReturnTyped ==
  ASSUME TypeOK, NEW r \in Requests, NEW where \in Phases,
         NEW c \in Ctxs \cup {NoCtx}, NEW b \in Bodies,
         Return(r, where, c, b)
  PROVE  /\ conf' \in [Requests -> Locations]
         /\ phase' \in [Requests -> Phases]
         /\ request_body' \in [Requests -> Bodies]
         /\ ctx' \in [Requests -> Ctxs \cup {NoCtx}]
         /\ lines_out' \in [Requests -> Seq(Tokens)]
         /\ redirects' \in [Requests -> 0..MaxRedirects]
  BY DEF TypeOK, Return, Phases, Bodies

(* Issuing the fetch, or failing to, keeps the types.                       *)
LEMMA FetchSubrequestTyped ==
  ASSUME TypeOK, NEW r \in Requests, NEW c \in Ctxs, NEW b \in Bodies,
         FetchSubrequest(r, c, b), UNCHANGED client, postponed' \in BOOLEAN
  PROVE  TypeOK'
  <1>1. CASE Return(r, "closed", c, b) /\ UnchangedFetch
    BY <1>1, ReturnTyped DEF TypeOK, UnchangedFetch, Phases, Bodies
  <1>2. ASSUME NEW e \in Entries,
               sr' = [sr EXCEPT ![r] = NewSubrequest(e)],
               fetches' = [fetches EXCEPT ![r] = IF @ < 2 THEN @ + 1 ELSE @],
               Return(r, "parked", Issued(c), b)
        PROVE  TypeOK'
    <2>1. Issued(c) \in Ctxs
      BY DEF Issued, Ctxs
    <2>2. sr' \in [Requests -> Subrequests \cup {NoSr}]
      BY <1>2, NewSubrequestTyped DEF TypeOK
    <2>3. fetches' \in [Requests -> 0..2]
      BY <1>2 DEF TypeOK
    <2> QED
      BY <1>2, <2>1, <2>2, <2>3, ReturnTyped DEF TypeOK, Phases, Bodies
  <1> QED
    BY <1>1, <1>2 DEF FetchSubrequest

(* The access handler keeps the types on every path, whoever calls it.      *)
LEMMA AccessTyped ==
  ASSUME TypeOK, NEW r \in Requests,
         NEW c \in Ctxs \cup {NoCtx}, NEW b \in Bodies, Access(r, c, b)
  PROVE  TypeOK'
  <1> USE DEF Phases, Bodies
  <1>1. CASE AccessNoCtx(r, c, b)
    BY <1>1, ReturnTyped DEF AccessNoCtx, UnchangedOthers, UnchangedFetch, TypeOK
  <1>2. CASE AccessBypass(r, c, b)
    BY <1>2, ReturnTyped DEF AccessBypass, UnchangedOthers, UnchangedFetch, TypeOK
  <1>3. CASE AccessNoCache(r, c, b)
    BY <1>3, ReturnTyped, FreshTyped
       DEF AccessNoCache, UnchangedOthers, UnchangedFetch, TypeOK
  <1>4. CASE AccessSkip(r, c, b)
    BY <1>4, ReturnTyped, FreshTyped
       DEF AccessSkip, UnchangedOthers, UnchangedFetch, TypeOK
  <1>5. CASE AccessWait(r, c, b)
    BY <1>5, ReturnTyped DEF AccessWait, UnchangedOthers, UnchangedFetch, TypeOK
  <1>6. CASE AccessBodyRead(r, c, b)
    <2>1. BodyTaken(c) \in Ctxs
      BY <1>6 DEF AccessBodyRead, BodyTaken, Ctxs
    <2> QED
      BY <1>6, <2>1, FetchSubrequestTyped DEF AccessBodyRead, TypeOK
  <1>7. CASE AccessMiss(r, c, b)
    BY <1>7, ReturnTyped DEF AccessMiss, UnchangedOthers, UnchangedFetch, TypeOK
  <1>8. CASE AccessHit(r, c, b)
    <2>1. c \in Ctxs
      BY <1>8 DEF AccessHit, FetchDone
    <2>2. ASSUME NEW out \in {c.body_from_cache, <<>>}
          PROVE  [from |-> "cache", lines |-> lines_out[r], body |-> out,
                  length |-> Len(c.body_from_cache)] \in Responses
      <3>1. c.body_from_cache \in Seq(Tokens) /\ <<>> \in Seq(Tokens)
        BY <2>1 DEF Ctxs
      <3>2. lines_out[r] \in Seq(Tokens)
        BY DEF TypeOK
      <3>3. Len(c.body_from_cache) \in Nat
        BY <3>1
      <3> QED
        BY <3>1, <3>2, <3>3 DEF Responses
    <2>3. client' \in [Requests -> Responses]
      <3>1. client \in [Requests -> Responses]
        BY DEF TypeOK
      <3>2. CASE client' = client
        BY <3>1, <3>2
      <3>3. ASSUME NEW out \in {c.body_from_cache, <<>>},
                   client' = [client EXCEPT ![r] =
                       [from |-> "cache", lines |-> lines_out[r],
                        body |-> out, length |-> Len(c.body_from_cache)]]
            PROVE  client' \in [Requests -> Responses]
        BY <2>2, <3>1, <3>3
      <3> QED
        BY <1>8, <3>2, <3>3 DEF AccessHit
    <2> QED
      BY <1>8, <2>3, ReturnTyped DEF AccessHit, UnchangedFetch, TypeOK
  <1>9. CASE AccessPostpone(r, c, b)
    BY <1>9, ReturnTyped, OrFreshTyped DEF AccessPostpone, UnchangedFetch, TypeOK
  <1>10. CASE AccessStoreOnly(r, c, b)
    BY <1>10, ReturnTyped, OrFreshTyped
       DEF AccessStoreOnly, AtPhaseEnd, UnchangedFetch, TypeOK
  <1>11. CASE AccessFetch(r, c, b)
    BY <1>11, FetchSubrequestTyped, OrFreshTyped DEF AccessFetch, AtPhaseEnd
  <1>12. CASE AccessReadBody(r, c, b)
    <2>1. BodyPending(OrFresh(c)) \in Ctxs
      BY OrFreshTyped, BodyPendingTyped
    <2> QED
      BY <1>12, <2>1, ReturnTyped, OrFreshTyped
         DEF AccessReadBody, AtPhaseEnd, UnchangedFetch, TypeOK
  <1> QED
    BY <1>1, <1>2, <1>3, <1>4, <1>5, <1>6, <1>7, <1>8, <1>9, <1>10, <1>11,
       <1>12 DEF Access

-----------------------------------------------------------------------------
(* The strengthening that makes types, wake-ups and the subrequest's parent *)
(* inductive: what the fields of a ctx mean in each phase.                  *)

(* The header filter can find the subrequest's ctx again, and did.          *)
Captive(s) ==
    s.post_subrequest = "srcache" /\ (s.status = "none" \/ s.has_ctx)

(* The parent of an active subrequest.                                      *)
WaitsForSubrequest(r) ==
    /\ Active(r) /\ Captive(sr[r])
    /\ request_body[r] = "read"
    /\ ctx[r] # NoCtx /\ ctx[r].issued_fetch_subrequest
    /\ ~ctx[r].request_done /\ ~ctx[r].waiting_request_body
    /\ ~ctx[r].request_body_done
    /\ fetches[r] = 1

(* A write event finds such a request still waiting: its configuration, and *)
(* what srcache_fetch_skip depends on, did not change since it was parked.  *)
WaitsForBody(r) ==
    /\ ~Active(r)
    /\ request_body[r] = "reading"
    /\ ctx[r] # NoCtx /\ ctx[r].waiting_request_body
    /\ ~ctx[r].waiting_subrequest /\ ~ctx[r].request_done
    /\ ~ctx[r].request_body_done
    /\ Eligible(r) /\ ~conf[r].no_cache /\ conf[r].skip # "always"
    /\ fetches[r] = 0

Parked(r) ==
    phase[r] = "parked" => WaitsForSubrequest(r) \/ WaitsForBody(r)

(* A request that runs waits for nothing.                                   *)
Running(r) ==
    phase[r] \in {"access", "content"} =>
      /\ request_body[r] # "reading"
      /\ ctx[r] # NoCtx => /\ ~Waiting(ctx[r])
                           /\ ~ctx[r].request_body_done

Fetches(r) ==
    /\ fetches[r] < 2
    /\ phase[r] = "access" /\ (ctx[r] = NoCtx \/ ~ctx[r].request_done)
         => fetches[r] = 0

RequestConsistent(r) ==
    /\ Active(r) => phase[r] = "parked"
    /\ Parked(r) /\ Running(r) /\ Fetches(r)

Consistent == \A r \in Requests : RequestConsistent(r)

-----------------------------------------------------------------------------
(* Types: the steps of the subrequest, which write to its parent's ctx.     *)

(* A subrequest that got one more buffer is a subrequest.                   *)
LEMMA ConsumedTyped ==
  ASSUME NEW s \in Subrequests, NEW last \in BOOLEAN
  PROVE  [s EXCEPT !.sent = @ + 1, !.ended = last] \in Subrequests
  <1>1. s.sent + 1 \in Nat
    BY DEF Subrequests
  <1> QED
    BY <1>1 DEF Subrequests

(* The header filter's look at post_subrequest gives a subrequest.          *)
LEMMA ResumedTyped ==
  ASSUME NEW s \in Subrequests
  PROVE  /\ Resumed(s) \in Subrequests /\ Resumed(s).has_ctx \in BOOLEAN
         /\ Resumed(s).active = s.active
         /\ Resumed(s).post_subrequest = s.post_subrequest
         /\ s.post_subrequest = "srcache" => Resumed(s).has_ctx
  <1>1. CASE s.post_subrequest = "srcache"
    <2>1. [s EXCEPT !.has_ctx = TRUE] \in Subrequests
      BY DEF Subrequests
    <2> QED
      BY <1>1, <2>1 DEF Resumed, Subrequests
  <1>2. CASE s.post_subrequest # "srcache"
    BY <1>2 DEF Resumed, Subrequests
  <1> QED
    BY <1>1, <1>2

(* A ctx with one more copied buffer is a ctx.                              *)
LEMMA CopiedTyped ==
  ASSUME NEW c \in Ctxs, NEW t \in Tokens
  PROVE  [c EXCEPT !.body_from_cache = Append(@, t), !.chained = TRUE] \in Ctxs
  <1>1. Append(c.body_from_cache, t) \in Seq(Tokens)
    BY DEF Ctxs
  <1> QED
    BY <1>1 DEF Ctxs

(* The ctx of an active subrequest can be found again; the buffers that     *)
(* follow its header are ones the filters see with that ctx.                *)
LEMMA CtxIsThere ==
  ASSUME Consistent, NEW r \in Requests, Active(r)
  PROVE  /\ sr[r].post_subrequest = "srcache"
         /\ sr[r].status # "none" => sr[r].has_ctx
  BY DEF Consistent, RequestConsistent, Parked, WaitsForSubrequest,
         WaitsForBody, Captive

(* A buffer that arrives belongs to a typed subrequest and holds a token of *)
(* an entry.                                                                *)
LEMMA TokenTyped ==
  ASSUME TypeOK, NEW r \in Requests, NEW last \in BOOLEAN, NextBuf(r, last)
  PROVE  /\ sr[r] \in Subrequests /\ Token(r) \in Tokens
         /\ Consumed(r, last) \in Subrequests
  <1>1. sr[r] \in Subrequests
    <2>1. sr[r] # NoSr
      BY DEF NextBuf, Active
    <2> QED
      BY <2>1 DEF TypeOK
  <1>2. sr[r].entry \in Seq(Tokens) /\ sr[r].sent \in Nat
    BY <1>1, EntriesAssumption DEF Subrequests
  <1>3. Token(r) \in Tokens
    BY <1>2 DEF Token, NextBuf
  <1>4. Consumed(r, last) \in Subrequests
    BY <1>1, ConsumedTyped DEF Consumed
  <1> QED
    BY <1>1, <1>3, <1>4

(* The body filter inside the fetch subrequest keeps the types, given that  *)
(* its parent has a ctx.                                                    *)
LEMMA SrBodyFilterTyped ==
  ASSUME TypeOK, NEW r \in Requests, ctx[r] \in Ctxs, SrBodyFilter(r)
  PROVE  TypeOK'
  <1> USE DEF UnchangedParent
  <1>1. ASSUME NEW last \in BOOLEAN, SrDiscard(r, last)
        PROVE  TypeOK'
    <2>1. client' \in [Requests -> Responses]
      BY <1>1 DEF SrDiscard, TypeOK, Responses
    <2> QED
      BY <1>1, <2>1, TokenTyped DEF SrDiscard, TypeOK
  <1>2. ASSUME NEW last \in BOOLEAN, SrStatusLine(r, last)
        PROVE  TypeOK'
    <2>1. Consumed(r, last) \in Subrequests /\ Token(r) \in Tokens
      BY <1>2, TokenTyped DEF SrStatusLine
    <2>2. [Consumed(r, last) EXCEPT !.process_header = "header"]
            \in Subrequests
      BY <2>1 DEF Subrequests
    <2>3. lines_out' \in [Requests -> Seq(Tokens)]
      BY <1>2, <2>1 DEF SrStatusLine, Pushed, TypeOK
    <2> QED
      BY <1>2, <2>2, <2>3 DEF SrStatusLine, TypeOK
  <1>3. ASSUME NEW last \in BOOLEAN, SrHeaderLine(r, last)
        PROVE  TypeOK'
    <2>1. Consumed(r, last) \in Subrequests /\ Token(r) \in Tokens
      BY <1>3, TokenTyped DEF SrHeaderLine
    <2>2. lines_out' \in [Requests -> Seq(Tokens)]
      BY <1>3, <2>1 DEF SrHeaderLine, Pushed, TypeOK
    <2> QED
      BY <1>3, <2>1, <2>2 DEF SrHeaderLine, TypeOK
  <1>4. ASSUME NEW last \in BOOLEAN, SrHeaderEnd(r, last)
        PROVE  TypeOK'
    <2>1. Consumed(r, last) \in Subrequests
      BY <1>4, TokenTyped DEF SrHeaderEnd
    <2>2. HeaderDone(Consumed(r, last)) \in Subrequests
      BY <2>1 DEF HeaderDone, Subrequests
    <2> QED
      BY <1>4, <2>2 DEF SrHeaderEnd, TypeOK
  <1>5. ASSUME NEW last \in BOOLEAN, SrParseError(r, last)
        PROVE  TypeOK'
    <2>1. Consumed(r, last) \in Subrequests /\ Token(r) \in Tokens
      BY <1>5, TokenTyped DEF SrParseError
    <2>2. [Consumed(r, last) EXCEPT
             !.parsing_cached_headers = FALSE, !.ignore_body = TRUE,
             !.oom = ParsesStatusLine(r) \/ ParsesHeaderLine(r)]
            \in Subrequests
      BY <2>1 DEF Subrequests, ParsesStatusLine, ParsesHeaderLine
    <2>3. lines_out' \in [Requests -> Seq(Tokens)]
      BY <1>5, <2>1 DEF SrParseError, Pushed, TypeOK
    <2>4. [ctx[r] EXCEPT !.from_cache = FALSE] \in Ctxs
      BY DEF Ctxs
    <2> QED
      BY <1>5, <2>2, <2>3, <2>4 DEF SrParseError, TypeOK
  <1>6. ASSUME NEW last \in BOOLEAN, SrBodyChunk(r, last)
        PROVE  TypeOK'
    <2>1. Consumed(r, last) \in Subrequests /\ Token(r) \in Tokens
      BY <1>6, TokenTyped DEF SrBodyChunk
    <2>2. [Consumed(r, last) EXCEPT !.seen_subreq_eof = @ \/ last]
            \in Subrequests
      BY <2>1 DEF Subrequests
    <2>3. [ctx[r] EXCEPT !.body_from_cache = Append(@, Token(r)),
                         !.chained = TRUE] \in Ctxs
      BY <2>1, CopiedTyped
    <2> QED
      BY <1>6, <2>2, <2>3 DEF SrBodyChunk, TypeOK
  <1>7. ASSUME NEW last \in BOOLEAN, SrCopyFails(r, last)
        PROVE  TypeOK'
    <2>1. Consumed(r, last) \in Subrequests
      BY <1>7, TokenTyped DEF SrCopyFails
    <2>2. [Consumed(r, last) EXCEPT !.oom = TRUE] \in Subrequests
      BY <2>1 DEF Subrequests
    <2> QED
      BY <1>7, <2>2 DEF SrCopyFails, TypeOK
  <1>8. ASSUME SrLastBuf(r)
        PROVE  TypeOK'
    <2>1. sr[r] \in Subrequests
      BY <1>8 DEF SrLastBuf, Active, TypeOK
    <2>2. [sr[r] EXCEPT !.ended = TRUE,
                        !.seen_subreq_eof = @ \/ SpecialBufIsSeen(r)]
            \in Subrequests
      <3>1. SpecialBufIsSeen(r) \in BOOLEAN
        BY DEF SpecialBufIsSeen, Copies, Filters
      <3> QED
        BY <2>1, <3>1 DEF Subrequests
    <2>3. [ctx[r] EXCEPT !.chained = TRUE] \in Ctxs
      BY DEF Ctxs
    <2> QED
      BY <1>8, <2>2, <2>3 DEF SrLastBuf, TypeOK
  <1> QED
    BY <1>1, <1>2, <1>3, <1>4, <1>5, <1>6, <1>7, <1>8 DEF SrBodyFilter

(* An active subrequest has a parent with a ctx: what the filters' pr_ctx   *)
(* relies on.                                                               *)
LEMMA ActiveTyped ==
  ASSUME TypeOK, Consistent, NEW r \in Requests, Active(r)
  PROVE  ctx[r] \in Ctxs /\ sr[r] \in Subrequests
  <1>1. ctx[r] # NoCtx
    BY DEF Consistent, RequestConsistent, Parked, WaitsForSubrequest, WaitsForBody
  <1>2. sr[r] # NoSr
    BY DEF Active
  <1> QED
    BY <1>1, <1>2 DEF TypeOK

(* The completion handler leaves a ctx.                                     *)
LEMMA CompletedTyped ==
  ASSUME NEW c \in Ctxs, NEW ok
  PROVE  Completed(c, ok) \in Ctxs
  <1>1. (c.from_cache /\ ok) \in BOOLEAN
    OBVIOUS
  <1> QED
    BY <1>1 DEF Completed, Ctxs

(* Every step of a fetch subrequest, its end included, keeps the types.     *)
LEMMA SubrequestStepTyped ==
  ASSUME TypeOK, Consistent, NEW r \in Requests,
         SubrequestStep(r) \/ SubrequestEnd(r)
  PROVE  TypeOK'
  <1>0. Active(r)
    BY DEF SubrequestStep, SubrequestEnd, SrRedirect, SrHeaderOk,
           SrHeaderOther, SrBodyFilter, SrDiscard, SrStatusLine, SrHeaderLine,
           SrHeaderEnd, SrParseError, SrBodyChunk, SrCopyFails, SrLastBuf,
           NextBuf, PostSubrequest
  <1>1. ctx[r] \in Ctxs /\ sr[r] \in Subrequests
    BY <1>0, ActiveTyped
  <1>2. CASE SrRedirect(r)
    <2>1. [sr[r] EXCEPT !.has_ctx = FALSE] \in Subrequests
      BY <1>1 DEF Subrequests
    <2> QED
      BY <1>2, <2>1 DEF SrRedirect, UnchangedParent, TypeOK
  <1>3. CASE SrHeaderOk(r)
    <2> DEFINE s == Resumed(sr[r])
    <2>1. s \in Subrequests /\ s.has_ctx \in BOOLEAN
      BY <1>1, ResumedTyped
    <2> HIDE DEF s
    <2>2. [s EXCEPT !.status = "200", !.parsing_cached_headers = s.has_ctx]
            \in Subrequests
      BY <2>1 DEF Subrequests
    <2>3. [ctx[r] EXCEPT !.from_cache = @ \/ s.has_ctx] \in Ctxs
      <3>1. (ctx[r].from_cache \/ s.has_ctx) \in BOOLEAN
        OBVIOUS
      <3> QED
        BY <1>1, <3>1 DEF Ctxs
    <2> QED
      BY <1>3, <2>2, <2>3 DEF SrHeaderOk, UnchangedParent, TypeOK, s
  <1>4. ASSUME NEW status \in {"2xx", "special"}, SrHeaderOther(r, status)
        PROVE  TypeOK'
    <2> DEFINE s == Resumed(sr[r])
    <2>1. s \in Subrequests /\ s.has_ctx \in BOOLEAN
      BY <1>1, ResumedTyped
    <2> HIDE DEF s
    <2>2. [s EXCEPT !.status = status, !.ignore_body = s.has_ctx]
            \in Subrequests
      BY <2>1 DEF Subrequests
    <2>3. Refused(ctx[r]) \in Ctxs
      BY <1>1 DEF Refused, Ctxs
    <2> QED
      BY <1>1, <1>4, <2>2, <2>3 DEF SrHeaderOther, UnchangedParent, TypeOK, s
  <1>5. CASE SrBodyFilter(r)
    BY <1>1, <1>5, SrBodyFilterTyped
  <1>6. ASSUME NEW rc \in {"OK", "ERROR", "special"}, PostSubrequest(r, rc)
        PROVE  TypeOK'
    <2>1. [sr[r] EXCEPT !.active = FALSE, !.rc = rc] \in Subrequests
      BY <1>1 DEF Subrequests
    <2>2. Completed(ctx[r], ~Rejected(sr[r], rc)) \in Ctxs
      BY <1>1, CompletedTyped
    <2> QED
      BY <1>6, <2>1, <2>2 DEF PostSubrequest, TypeOK
  <1> QED
    BY <1>2, <1>3, <1>4, <1>5, <1>6 DEF SubrequestStep, SubrequestEnd

(* Access finds a typed ctx and body state, also when the read body's       *)
(* callback calls it.                                                       *)
LEMMA TypeStep ==
  ASSUME TypeOK, Consistent, [Next]_vars
  PROVE  TypeOK'
  <1>1. ASSUME NEW r \in Requests,
               RunPhases(r) \/ WriteEvent(r) \/ BodyEnd(r)
        PROVE  TypeOK'
    <2>1. ctx[r] \in Ctxs \cup {NoCtx} /\ request_body[r] \in Bodies
      BY DEF TypeOK, Bodies
    <2>2. CASE RunPhases(r) \/ WriteEvent(r)
      BY <2>1, <2>2, AccessTyped DEF RunPhases, WriteEvent
    <2>3. CASE PostReadBody(r)
      <3>1. ctx[r] \in Ctxs
        BY <2>1, <2>3 DEF PostReadBody, Consistent, RequestConsistent, Parked,
                          WaitsForSubrequest, WaitsForBody
      <3>2. [ctx[r] EXCEPT !.request_body_done = TRUE,
                           !.waiting_request_body = FALSE] \in Ctxs
        BY <3>1 DEF Ctxs
      <3> QED
        BY <2>3, <3>2, AccessTyped DEF PostReadBody, Bodies
    <2>4. CASE ReadBodyFails(r)
      BY <2>4 DEF ReadBodyFails, TypeOK
    <2> QED
      BY <1>1, <2>2, <2>3, <2>4 DEF BodyEnd
  <1>2. ASSUME NEW r \in Requests, SubrequestStep(r) \/ SubrequestEnd(r)
        PROVE  TypeOK'
    BY <1>2, SubrequestStepTyped
  <1>3. ASSUME NEW r \in Requests, Content(r)
        PROVE  TypeOK'
    <2>1. [NoResponse EXCEPT !.from = "backend", !.lines = lines_out[r]]
            \in Responses
      <3>1. lines_out[r] \in Seq(Tokens) /\ <<>> \in Seq(Tokens)
        BY DEF TypeOK
      <3> QED
        BY <3>1 DEF NoResponse, Responses
    <2> QED
      BY <1>3, <2>1 DEF Content, TypeOK
  <1>4. ASSUME NEW r \in Requests, InternalRedirect(r)
        PROVE  TypeOK'
    <2>1. conf' \in [Requests -> Locations] /\ ctx' \in [Requests -> Ctxs \cup {NoCtx}]
      BY <1>4 DEF InternalRedirect, TypeOK
    <2>2. redirects' \in [Requests -> 0..MaxRedirects]
      BY <1>4, BoundsAssumption DEF InternalRedirect, TypeOK
    <2> QED
      BY <1>4, <2>1, <2>2 DEF InternalRedirect, TypeOK
  <1>5. CASE UNCHANGED vars
    BY <1>5 DEF vars, TypeOK
  <1> QED
    BY <1>1, <1>2, <1>3, <1>4, <1>5 DEF Next, Terminated

-----------------------------------------------------------------------------
(* Consistent: a step of one request leaves the others' part alone.         *)

OthersUnchanged(r) ==
    \A q \in Requests \ {r} :
      /\ conf'[q] = conf[q] /\ phase'[q] = phase[q]
      /\ request_body'[q] = request_body[q] /\ ctx'[q] = ctx[q]
      /\ sr'[q] = sr[q] /\ fetches'[q] = fetches[q]

(* A step that leaves the other requests alone has to restore the invariant *)
(* of its own only.                                                         *)
LEMMA OthersConsistent ==
  ASSUME Consistent, NEW r \in Requests, OthersUnchanged(r),
         RequestConsistent(r)'
  PROVE  Consistent'
  <1>1. ASSUME NEW q \in Requests \ {r}
        PROVE  RequestConsistent(q)'
    <2>1. RequestConsistent(q)
      BY DEF Consistent
    <2> QED
      BY <2>1 DEF OthersUnchanged, RequestConsistent, Active, Parked, Running,
                  Fetches, WaitsForSubrequest, WaitsForBody, Eligible, Waiting
  <1> QED
    BY <1>1 DEF Consistent

(* What a return of the handler does to its request.                        *)
LEMMA ReturnAt ==
  ASSUME TypeOK, NEW r \in Requests, NEW where, NEW c, NEW b,
         Return(r, where, c, b)
  PROVE  /\ conf'[r] = conf[r] /\ phase'[r] = where
         /\ ctx'[r] = c /\ request_body'[r] = b
         /\ UNCHANGED <<sr, fetches>> => OthersUnchanged(r)
  BY DEF TypeOK, Return, OthersUnchanged

(* What the handler may rely on when nothing is being waited for any more.  *)
Enters(r, c, b) ==
    /\ ~Active(r) /\ b # "reading"
    /\ c # NoCtx => ~Waiting(c)
    /\ c # NoCtx /\ c.request_body_done =>
          /\ Eligible(r) /\ ~conf[r].no_cache
          /\ ~c.request_done /\ b = "read"
    /\ c = NoCtx \/ ~c.request_done => fetches[r] = 0
    /\ fetches[r] < 2

(* A fetch starts from a ctx that has not asked the cache yet.              *)
LEMMA FetchSubrequestConsistent ==
  ASSUME TypeOK, Consistent, NEW r \in Requests, NEW c \in Ctxs,
         FetchSubrequest(r, c, "read"), ~Active(r), ~Waiting(c),
         ~c.request_done, ~c.request_body_done, fetches[r] = 0
  PROVE  Consistent'
  <1>1. CASE Return(r, "closed", c, "read") /\ UnchangedFetch
    <2>1. RequestConsistent(r)'
      BY <1>1, ReturnAt DEF UnchangedFetch, RequestConsistent, Parked, Running,
                            Fetches, Active
    <2> QED
      BY <1>1, <2>1, ReturnAt, OthersConsistent DEF UnchangedFetch
  <1>2. ASSUME NEW e \in Entries,
               sr' = [sr EXCEPT ![r] = NewSubrequest(e)],
               fetches' = [fetches EXCEPT ![r] = IF @ < 2 THEN @ + 1 ELSE @],
               Return(r, "parked", Issued(c), "read")
        PROVE  Consistent'
    <2> DEFINE d == Issued(c)
    <2>1. /\ d \in Ctxs /\ d # NoCtx
          /\ d.issued_fetch_subrequest /\ ~d.request_done
          /\ ~d.waiting_request_body /\ ~d.request_body_done
      BY NullAssumption DEF Issued, Ctxs, Waiting
    <2>2. phase'[r] = "parked" /\ ctx'[r] = d /\ request_body'[r] = "read"
      BY <1>2, ReturnAt
    <2>3. sr'[r] = NewSubrequest(e) /\ fetches'[r] = 1
      BY <1>2 DEF TypeOK
    <2>4. Active(r)'
      BY <2>3, NewSubrequestTyped, NullAssumption DEF Active, NewSubrequest
    <2>5. Captive(NewSubrequest(e))
      BY DEF Captive, NewSubrequest
    <2>6. RequestConsistent(r)'
      <3> HIDE DEF d
      <3> QED
        BY <2>1, <2>2, <2>3, <2>4, <2>5
           DEF RequestConsistent, Parked, WaitsForSubrequest, Running, Fetches
    <2>7. OthersUnchanged(r)
      BY <1>2 DEF Return, TypeOK, OthersUnchanged
    <2> QED
      BY <2>6, <2>7, OthersConsistent
  <1> QED
    BY <1>1, <1>2 DEF FetchSubrequest

(* Every way out but the start of a fetch: NGX_DECLINED, NGX_OK or an error *)
(* of a request that waits for nothing.                                     *)
LEMMA ReturnConsistent ==
  ASSUME TypeOK, Consistent, NEW r \in Requests,
         NEW where \in {"access", "content", "closed"},
         NEW c, NEW b, Return(r, where, c, b), UnchangedFetch,
         ~Active(r), b # "reading", fetches[r] < 2,
         where # "closed" /\ c # NoCtx => ~Waiting(c) /\ ~c.request_body_done,
         where = "access" => fetches[r] = 0
  PROVE  Consistent'
  <1>1. RequestConsistent(r)'
    BY ReturnAt DEF UnchangedFetch, RequestConsistent, Parked, Running,
                    Fetches, Active
  <1> QED
    BY <1>1, ReturnAt, OthersConsistent DEF UnchangedFetch

(* A zeroed ctx is in no waiting state.                                     *)
LEMMA FreshWaitsForNothing ==
  /\ ~Waiting(FreshCtx) /\ ~FreshCtx.request_body_done
  /\ ~FreshCtx.request_done /\ FreshCtx # NoCtx
  BY FreshTyped, NullAssumption DEF FreshCtx, Waiting

(* The access handler leaves its request parked with a waker or waiting for *)
(* nothing, on every path and for every caller.                             *)
LEMMA AccessConsistent ==
  ASSUME TypeOK, Consistent, NEW r \in Requests,
         NEW c \in Ctxs \cup {NoCtx}, NEW b \in Bodies,
         Enters(r, c, b), Access(r, c, b)
  PROVE  Consistent'
  <1> USE DEF Enters
  <1>1. CASE AccessNoCtx(r, c, b)
    BY <1>1, ReturnConsistent DEF AccessNoCtx, UnchangedOthers
  <1>2. CASE AccessBypass(r, c, b)
    BY <1>2, ReturnConsistent DEF AccessBypass, UnchangedOthers
  <1>3. CASE AccessNoCache(r, c, b)
    <2> DEFINE d == IF conf[r].no_store THEN c ELSE FreshCtx
    <2>1. d # NoCtx => ~Waiting(d) /\ ~d.request_body_done
      BY <1>3, FreshWaitsForNothing DEF AccessNoCache
    <2> QED
      BY <1>3, <2>1, ReturnConsistent DEF AccessNoCache, UnchangedOthers
  <1>4. CASE AccessSkip(r, c, b)
    BY <1>4, FreshWaitsForNothing, ReturnConsistent
       DEF AccessSkip, UnchangedOthers
  <1>5. CASE AccessWait(r, c, b)
    BY <1>5 DEF AccessWait
  <1>6. CASE AccessBodyRead(r, c, b)
    <2>1. /\ BodyTaken(c) \in Ctxs /\ ~Waiting(BodyTaken(c))
          /\ ~BodyTaken(c).request_done /\ ~BodyTaken(c).request_body_done
      BY <1>6 DEF AccessBodyRead, BodyTaken, Ctxs, Waiting
    <2> QED
      BY <1>6, <2>1, FetchSubrequestConsistent DEF AccessBodyRead
  <1>7. CASE AccessMiss(r, c, b)
    <2>1. PICK where \in {"content", "closed"} : Return(r, where, c, b)
      BY <1>7 DEF AccessMiss
    <2> QED
      BY <1>7, <2>1, ReturnConsistent
         DEF AccessMiss, FetchDone, UnchangedOthers
  <1>8. CASE AccessHit(r, c, b)
    BY <1>8, ReturnConsistent DEF AccessHit
  <1>9. CASE AccessPostpone(r, c, b)
    BY <1>9, FreshWaitsForNothing, ReturnConsistent
       DEF AccessPostpone, Starts, OrFresh
  <1>10. CASE AccessStoreOnly(r, c, b)
    BY <1>10, FreshWaitsForNothing, ReturnConsistent
       DEF AccessStoreOnly, Starts, OrFresh
  <1>11. CASE AccessFetch(r, c, b)
    BY <1>11, FreshWaitsForNothing, OrFreshTyped, FetchSubrequestConsistent
       DEF AccessFetch, Starts, OrFresh, Bodies
  <1>12. CASE AccessReadBody(r, c, b)
    <2>0. /\ Eligible(r) /\ ~conf[r].no_cache /\ conf[r].skip # "always"
          /\ fetches[r] = 0
      BY <1>12, FreshWaitsForNothing
         DEF AccessReadBody, Starts, Serves, SkipsFetch
    <2>1. CASE Return(r, "closed", OrFresh(c), b)
      BY <1>12, <2>0, <2>1, ReturnConsistent DEF AccessReadBody
    <2>2. CASE Return(r, "parked", BodyPending(OrFresh(c)), "reading")
      <3> DEFINE d == BodyPending(OrFresh(c))
      <3>1. /\ OrFresh(c) \in Ctxs /\ ~Waiting(OrFresh(c))
            /\ ~OrFresh(c).request_done /\ ~OrFresh(c).request_body_done
        BY <1>12, FreshWaitsForNothing, OrFreshTyped
           DEF AccessReadBody, Starts, OrFresh
      <3>2. /\ d # NoCtx /\ d.waiting_request_body /\ ~d.waiting_subrequest
            /\ ~d.request_done /\ ~d.request_body_done
        BY <3>1, BodyPendingTyped, NullAssumption
           DEF BodyPending, Waiting, Ctxs
      <3>3. /\ phase'[r] = "parked" /\ ctx'[r] = d
            /\ request_body'[r] = "reading" /\ conf'[r] = conf[r]
            /\ sr'[r] = sr[r] /\ fetches'[r] = fetches[r]
            /\ OthersUnchanged(r)
        BY <1>12, <2>2, ReturnAt DEF AccessReadBody, UnchangedFetch
      <3>4. RequestConsistent(r)'
        <4> HIDE DEF d
        <4> QED
          BY <2>0, <3>2, <3>3
             DEF RequestConsistent, Parked, WaitsForBody, Running, Fetches,
                 Active, Eligible
      <3> QED
        BY <3>3, <3>4, OthersConsistent
    <2> QED
      BY <1>12, <2>1, <2>2 DEF AccessReadBody
  <1> QED
    BY <1>1, <1>2, <1>3, <1>4, <1>5, <1>6, <1>7, <1>8, <1>9, <1>10, <1>11,
       <1>12 DEF Access

(* The filters leave alone what the access handler and the waker look at.   *)
KeepsSubrequest(s, t) ==
    t \in Subrequests /\ t.active = s.active /\ (Captive(s) => Captive(t))

KeepsCtx(c, d) ==
    /\ d \in Ctxs
    /\ d.issued_fetch_subrequest = c.issued_fetch_subrequest
    /\ d.request_done = c.request_done
    /\ d.waiting_request_body = c.waiting_request_body
    /\ d.request_body_done = c.request_body_done

(* The updates the filters make to a parent's ctx keep its waiting flags.   *)
LEMMA KeepingUpdates ==
  ASSUME NEW c \in Ctxs, NEW flag \in BOOLEAN, NEW t \in Tokens
  PROVE  /\ KeepsCtx(c, c)
         /\ KeepsCtx(c, [c EXCEPT !.from_cache = flag])
         /\ KeepsCtx(c, [c EXCEPT !.chained = TRUE])
         /\ KeepsCtx(c, Refused(c))
         /\ KeepsCtx(c, [c EXCEPT !.body_from_cache = Append(@, t),
                                  !.chained = TRUE])
  <1>1. [c EXCEPT !.body_from_cache = Append(@, t), !.chained = TRUE] \in Ctxs
    BY CopiedTyped
  <1> QED
    BY <1>1 DEF KeepsCtx, Refused, Ctxs

(* The updates the filters make keep a subrequest active.                   *)
LEMMA KeepingSubrequestUpdates ==
  ASSUME NEW u \in Subrequests, NEW s \in Subrequests, s.active = u.active,
         Captive(u) => Captive(s), NEW flag \in BOOLEAN, NEW last \in BOOLEAN
  PROVE  /\ KeepsSubrequest(u, s)
         /\ KeepsSubrequest(u, [s EXCEPT !.process_header = "header"])
         /\ KeepsSubrequest(u, HeaderDone(s))
         /\ KeepsSubrequest(u, [s EXCEPT !.parsing_cached_headers = FALSE,
                                         !.ignore_body = TRUE,
                                         !.oom = flag])
         /\ KeepsSubrequest(u, [s EXCEPT !.seen_subreq_eof = @ \/ last])
         /\ KeepsSubrequest(u, [s EXCEPT !.oom = TRUE])
  <1>1. (s.seen_subreq_eof \/ last) \in BOOLEAN
    OBVIOUS
  <1>2. KeepsSubrequest(u, s)
    BY DEF KeepsSubrequest
  <1>3. KeepsSubrequest(u, [s EXCEPT !.process_header = "header"])
    BY DEF KeepsSubrequest, Captive, Subrequests
  <1>6. KeepsSubrequest(u, HeaderDone(s))
    BY DEF KeepsSubrequest, Captive, HeaderDone, Subrequests
  <1>4. KeepsSubrequest(u, [s EXCEPT !.parsing_cached_headers = FALSE,
                                     !.ignore_body = TRUE, !.oom = flag])
    BY DEF KeepsSubrequest, Captive, Subrequests
  <1>5. /\ KeepsSubrequest(u, [s EXCEPT !.seen_subreq_eof = @ \/ last])
        /\ KeepsSubrequest(u, [s EXCEPT !.oom = TRUE])
    BY <1>1 DEF KeepsSubrequest, Captive, Subrequests
  <1> QED
    BY <1>2, <1>3, <1>4, <1>5, <1>6

(* The filters change no flag that the access handler waits by, and no      *)
(* other request.                                                           *)
LEMMA SubrequestStepKeeps ==
  ASSUME TypeOK, Consistent, NEW r \in Requests, SubrequestStep(r)
  PROVE  /\ KeepsSubrequest(sr[r], sr'[r]) /\ KeepsCtx(ctx[r], ctx'[r])
         /\ OthersUnchanged(r) /\ Active(r) /\ UnchangedParent
  <1>0. Active(r) /\ UnchangedParent
    BY DEF SubrequestStep, SrRedirect, SrHeaderOk, SrHeaderOther,
           SrBodyFilter, SrDiscard, SrStatusLine, SrHeaderLine, SrHeaderEnd,
           SrParseError, SrBodyChunk, SrCopyFails, SrLastBuf, NextBuf
  <1>1. ctx[r] \in Ctxs /\ sr[r] \in Subrequests
    BY <1>0, ActiveTyped
  <1> DEFINE Goal == /\ KeepsSubrequest(sr[r], sr'[r])
                     /\ KeepsCtx(ctx[r], ctx'[r])
                     /\ \A q \in Requests \ {r} :
                          sr'[q] = sr[q] /\ ctx'[q] = ctx[q]
  <1>2. ASSUME SrRedirect(r) PROVE Goal
    <2>1. KeepsSubrequest(sr[r], [sr[r] EXCEPT !.has_ctx = FALSE])
      BY <1>1, <1>2 DEF SrRedirect, KeepsSubrequest, Captive, Subrequests
    <2> QED
      BY <1>1, <1>2, <2>1 DEF SrRedirect, KeepsCtx, TypeOK
  <1>3. ASSUME SrHeaderOk(r) PROVE Goal
    <2> DEFINE s == Resumed(sr[r])
    <2>1. KeepsSubrequest(sr[r], [s EXCEPT !.status = "200",
                                      !.parsing_cached_headers = s.has_ctx])
      BY <1>1 DEF KeepsSubrequest, Captive, Resumed, Subrequests
    <2>2. KeepsCtx(ctx[r], [ctx[r] EXCEPT !.from_cache = @ \/ s.has_ctx])
      <3>1. (ctx[r].from_cache \/ s.has_ctx) \in BOOLEAN
        OBVIOUS
      <3> QED
        BY <1>1, <3>1 DEF KeepsCtx, Ctxs
    <2> QED
      BY <1>3, <2>1, <2>2 DEF SrHeaderOk, TypeOK
  <1>4. ASSUME NEW status \in {"2xx", "special"}, SrHeaderOther(r, status)
        PROVE  Goal
    <2> DEFINE s == Resumed(sr[r])
    <2>1. KeepsSubrequest(sr[r], [s EXCEPT !.status = status,
                                           !.ignore_body = s.has_ctx])
      BY <1>1 DEF KeepsSubrequest, Captive, Resumed, Subrequests
    <2>2. KeepsCtx(ctx[r], Refused(ctx[r])) /\ KeepsCtx(ctx[r], ctx[r])
      BY <1>1 DEF KeepsCtx, Refused, Ctxs
    <2> QED
      BY <1>4, <2>1, <2>2 DEF SrHeaderOther, TypeOK
  <1>5. ASSUME NEW last \in BOOLEAN,
               \/ SrDiscard(r, last) \/ SrStatusLine(r, last)
               \/ SrHeaderLine(r, last) \/ SrHeaderEnd(r, last)
               \/ SrParseError(r, last) \/ SrBodyChunk(r, last)
               \/ SrCopyFails(r, last)
        PROVE  Goal
    <2>1. Token(r) \in Tokens /\ Consumed(r, last) \in Subrequests
      BY <1>5, TokenTyped DEF SrDiscard, SrStatusLine, SrHeaderLine,
           SrHeaderEnd, SrParseError, SrBodyChunk, SrCopyFails
    <2>2. /\ Consumed(r, last).active = sr[r].active
          /\ Captive(sr[r]) => Captive(Consumed(r, last))
      BY <1>1 DEF Consumed, Captive, Subrequests
    <2> DEFINE s == Consumed(r, last)
    <2>3. /\ KeepsSubrequest(sr[r], s)
          /\ KeepsSubrequest(sr[r], [s EXCEPT !.process_header = "header"])
          /\ KeepsSubrequest(sr[r], HeaderDone(s))
          /\ KeepsSubrequest(sr[r],
               [s EXCEPT !.parsing_cached_headers = FALSE,
                         !.ignore_body = TRUE,
                         !.oom = ParsesStatusLine(r) \/ ParsesHeaderLine(r)])
          /\ KeepsSubrequest(sr[r], [s EXCEPT !.seen_subreq_eof = @ \/ last])
          /\ KeepsSubrequest(sr[r], [s EXCEPT !.oom = TRUE])
      <3>1. (ParsesStatusLine(r) \/ ParsesHeaderLine(r)) \in BOOLEAN
        OBVIOUS
      <3> QED
        BY <1>1, <2>1, <2>2, <3>1, KeepingSubrequestUpdates
    <2>4. /\ KeepsCtx(ctx[r], ctx[r])
          /\ KeepsCtx(ctx[r], [ctx[r] EXCEPT !.from_cache = FALSE])
          /\ KeepsCtx(ctx[r], [ctx[r] EXCEPT
                         !.body_from_cache = Append(@, Token(r)),
                         !.chained = TRUE])
      BY <1>1, <2>1, KeepingUpdates
    <2> QED
      BY <1>5, <2>3, <2>4
         DEF SrDiscard, SrStatusLine, SrHeaderLine, SrHeaderEnd, SrParseError,
             SrBodyChunk, SrCopyFails, TypeOK
  <1>6. ASSUME SrLastBuf(r) PROVE Goal
    <2>1. KeepsSubrequest(sr[r], [sr[r] EXCEPT !.ended = TRUE,
                          !.seen_subreq_eof = @ \/ SpecialBufIsSeen(r)])
      <3>1. SpecialBufIsSeen(r) \in BOOLEAN
        BY DEF SpecialBufIsSeen, Copies, Filters
      <3> QED
        BY <1>1, <3>1 DEF KeepsSubrequest, Captive, Subrequests
    <2>2. /\ KeepsCtx(ctx[r], ctx[r])
          /\ KeepsCtx(ctx[r], [ctx[r] EXCEPT !.chained = TRUE])
      BY <1>1 DEF KeepsCtx, Ctxs
    <2> QED
      BY <1>6, <2>1, <2>2 DEF SrLastBuf, TypeOK
  <1>7. Goal
    BY <1>2, <1>3, <1>4, <1>5, <1>6 DEF SubrequestStep, SrBodyFilter
  <1> QED
    BY <1>0, <1>7 DEF UnchangedParent, OthersUnchanged

(* A subrequest leaves its parent parked while it is active, and wakes it   *)
(* when it ends.                                                            *)
LEMMA SubrequestConsistent ==
  ASSUME TypeOK, Consistent, NEW r \in Requests,
         SubrequestStep(r) \/ SubrequestEnd(r)
  PROVE  Consistent'
  <1>1. CASE SubrequestStep(r)
    <2>1. Active(r) /\ UnchangedParent
      BY <1>1
         DEF SubrequestStep, SrRedirect, SrHeaderOk, SrHeaderOther,
             SrBodyFilter, SrDiscard, SrStatusLine, SrHeaderLine, SrHeaderEnd,
             SrParseError, SrBodyChunk, SrCopyFails, SrLastBuf, NextBuf
    <2>2. phase[r] = "parked" /\ WaitsForSubrequest(r) /\ Fetches(r)
      BY <2>1 DEF Consistent, RequestConsistent, Parked, WaitsForBody
    <2>3. /\ KeepsSubrequest(sr[r], sr'[r]) /\ KeepsCtx(ctx[r], ctx'[r])
          /\ OthersUnchanged(r)
      BY <1>1, SubrequestStepKeeps
    <2>4. Active(r)' /\ Captive(sr'[r]) /\ ctx'[r] # NoCtx
      BY <2>1, <2>2, <2>3, NullAssumption
         DEF WaitsForSubrequest, KeepsSubrequest, KeepsCtx, Active
    <2>5. RequestConsistent(r)'
      BY <2>1, <2>2, <2>3, <2>4
         DEF UnchangedParent, KeepsCtx, RequestConsistent, Parked,
             WaitsForSubrequest, Running, Fetches
    <2> QED
      BY <2>3, <2>5, OthersConsistent
  <1>2. ASSUME NEW rc \in {"OK", "ERROR", "special"}, PostSubrequest(r, rc)
        PROVE  Consistent'
    <2>1. Active(r) /\ ctx[r] \in Ctxs /\ sr[r] \in Subrequests
      BY <1>2, ActiveTyped DEF PostSubrequest
    <2>2. WaitsForSubrequest(r)
      BY <2>1 DEF Consistent, RequestConsistent, Parked, WaitsForBody
    <2> DEFINE d == Completed(ctx[r], ~Rejected(sr[r], rc))
    <2>3. /\ d # NoCtx /\ d.request_done
          /\ ~Waiting(d) /\ ~d.request_body_done
      <3>1. d # NoCtx
        BY <2>1, CompletedTyped, NullAssumption
      <3> QED
        BY <2>1, <2>2, <3>1 DEF Completed, Waiting, WaitsForSubrequest, Ctxs
    <2>4. phase'[r] = "access" /\ ctx'[r] = d /\ ~Active(r)'
      BY <1>2, <2>1 DEF PostSubrequest, TypeOK, Active, Subrequests
    <2>5. request_body'[r] = "read" /\ fetches'[r] = 1
      BY <1>2, <2>2 DEF PostSubrequest, WaitsForSubrequest
    <2>6. RequestConsistent(r)'
      <3> HIDE DEF d
      <3> QED
        BY <2>3, <2>4, <2>5 DEF RequestConsistent, Parked, Running, Fetches,
               Waiting
    <2>7. OthersUnchanged(r)
      BY <1>2 DEF PostSubrequest, OthersUnchanged, TypeOK
    <2> QED
      BY <2>6, <2>7, OthersConsistent
  <1> QED
    BY <1>1, <1>2 DEF SubrequestEnd

(* A write event finds a request that still waits for its body: the handler *)
(* runs to its ctx check and returns NGX_AGAIN again.                       *)
LEMMA WriteEventConsistent ==
  ASSUME TypeOK, Consistent, NEW r \in Requests, WriteEvent(r)
  PROVE  Consistent' /\ UNCHANGED <<conf, phase, ctx, sr, fetches, client>>
  <1>1. WaitsForBody(r)
    BY DEF WriteEvent, Consistent, RequestConsistent, Parked,
           WaitsForSubrequest
  <1>2. /\ Serves(r, ctx[r], request_body[r])
        /\ ctx[r] # NoCtx /\ Waiting(ctx[r])
    <2>1. conf[r].skip \in {"never", "always", "after_body", "after_fetch"}
      BY LocationsAssumption DEF TypeOK, LocationConfs
    <2> QED
      BY <1>1, <2>1 DEF WaitsForBody, Serves, SkipsFetch, Waiting
  <1>3. AccessWait(r, ctx[r], request_body[r])
    BY <1>2 DEF WriteEvent, Access, AccessNoCtx, AccessBypass, AccessNoCache,
                AccessSkip, AccessBodyRead, AccessMiss, AccessHit, FetchDone,
                AccessPostpone, AccessStoreOnly, AccessFetch, AccessReadBody,
                Starts, Serves
  <1>4. UNCHANGED <<conf, phase, request_body, ctx, sr, fetches, client>>
    BY <1>3 DEF AccessWait, Return, UnchangedOthers, UnchangedFetch,
                WriteEvent, TypeOK
  <1> QED
    BY <1>4 DEF Consistent, RequestConsistent, Active, Parked, Running,
                Fetches, WaitsForSubrequest, WaitsForBody, Eligible

(* Every step of the system keeps the protocol of handler, body reader and  *)
(* subrequest.                                                              *)
LEMMA ConsistentStep ==
  ASSUME TypeOK, Consistent, [Next]_vars
  PROVE  Consistent'
  <1>1. ASSUME NEW r \in Requests, RunPhases(r)
        PROVE  Consistent'
    <2>1. Enters(r, ctx[r], request_body[r])
      BY <1>1 DEF RunPhases, Consistent, RequestConsistent, Running, Fetches,
                  Enters
    <2> QED
      BY <1>1, <2>1, AccessConsistent DEF RunPhases, TypeOK, Bodies
  <1>2. ASSUME NEW r \in Requests, WriteEvent(r)
        PROVE  Consistent'
    BY <1>2, WriteEventConsistent
  <1>3. ASSUME NEW r \in Requests, PostReadBody(r)
        PROVE  Consistent'
    <2>1. WaitsForBody(r) /\ ctx[r] \in Ctxs
      BY <1>3 DEF PostReadBody, Consistent, RequestConsistent, Parked,
                  WaitsForSubrequest, WaitsForBody, TypeOK
    <2> DEFINE d == [ctx[r] EXCEPT !.request_body_done = TRUE,
                                   !.waiting_request_body = FALSE]
    <2>2. /\ d \in Ctxs /\ ~Waiting(d) /\ ~d.request_done
      BY <2>1 DEF Ctxs, WaitsForBody, Waiting
    <2>3. Enters(r, d, "read")
      BY <2>1, <2>2 DEF Enters, WaitsForBody
    <2> QED
      BY <1>3, <2>2, <2>3, AccessConsistent DEF PostReadBody, Bodies
  <1>4. ASSUME NEW r \in Requests, ReadBodyFails(r)
        PROVE  Consistent'
    <2>1. WaitsForBody(r)
      BY <1>4 DEF ReadBodyFails, Consistent, RequestConsistent, Parked,
                  WaitsForSubrequest
    <2>2. RequestConsistent(r)'
      BY <1>4, <2>1 DEF ReadBodyFails, TypeOK, RequestConsistent, Parked,
                        Running, Fetches, Active, WaitsForBody
    <2>3. OthersUnchanged(r)
      BY <1>4 DEF ReadBodyFails, OthersUnchanged, TypeOK
    <2> QED
      BY <2>2, <2>3, OthersConsistent
  <1>5. ASSUME NEW r \in Requests, SubrequestStep(r) \/ SubrequestEnd(r)
        PROVE  Consistent'
    BY <1>5, SubrequestConsistent
  <1>6. ASSUME NEW r \in Requests, Content(r) \/ InternalRedirect(r)
        PROVE  Consistent'
    <2>1. RequestConsistent(r)'
      BY <1>6 DEF Content, InternalRedirect, TypeOK, Consistent,
                  RequestConsistent, Parked, Running, Fetches, Active
    <2>2. OthersUnchanged(r)
      BY <1>6 DEF Content, InternalRedirect, OthersUnchanged, TypeOK
    <2> QED
      BY <2>1, <2>2, OthersConsistent
  <1>7. CASE UNCHANGED vars
    BY <1>7 DEF vars, Consistent, RequestConsistent, Active, Parked, Running,
                Fetches, WaitsForSubrequest, WaitsForBody, Eligible, Waiting
  <1> QED
    BY <1>1, <1>2, <1>3, <1>4, <1>5, <1>6, <1>7 DEF Next, BodyEnd, Terminated

(* A request that just arrived satisfies the invariant.                     *)
LEMMA InitInvariant == Init => TypeOK /\ Consistent
  <1> SUFFICES ASSUME Init PROVE TypeOK /\ Consistent
    OBVIOUS
  <1>1. <<>> \in Seq(Tokens) /\ NoResponse \in Responses
    BY DEF NoResponse, Responses
  <1>2. TypeOK
    <2>1. redirects \in [Requests -> 0..MaxRedirects]
      BY BoundsAssumption DEF Init
    <2>2. fetches \in [Requests -> 0..2]
      BY DEF Init
    <2>3. postponed \in BOOLEAN
      BY DEF Init
    <2> QED
      BY <1>1, <2>1, <2>2, <2>3 DEF Init, TypeOK
  <1>3. ASSUME NEW r \in Requests
        PROVE  RequestConsistent(r)
    <2>1. /\ phase[r] = "access" /\ request_body[r] = "unread"
          /\ ctx[r] = NoCtx /\ sr[r] = NoSr /\ fetches[r] = 0
      BY DEF Init
    <2> QED
      BY <2>1 DEF RequestConsistent, Active, Parked, Running, Fetches
  <1> QED
    BY <1>2, <1>3 DEF Consistent

(* The inductive invariant of the fetch half: the types, and of each        *)
(* request that its place in the phase engine, its ctx's flags, its body    *)
(* and its subrequest fit together.                                         *)
THEOREM Invariant == Spec => [](TypeOK /\ Consistent)
  <1>1. TypeOK /\ Consistent /\ [Next]_vars => (TypeOK /\ Consistent)'
    BY TypeStep, ConsistentStep
  <1> QED
    BY <1>1, InitInvariant, PTL DEF Spec
-----------------------------------------------------------------------------
(* The variables hold what their C counterparts can hold: in particular the *)
(* filters always find a parent ctx to write to, and the read body's        *)
(* callback finds the ctx that waits for it.                                *)
THEOREM TypeCorrect == Spec => []TypeOK
  BY Invariant, PTL

(* A parked request is always owed a wake-up: by its active subrequest or   *)
(* by the reading of its body.  No interleaving of write events, the body's *)
(* callback and the subrequest's filters loses one.                         *)
THEOREM NoLostWakeup == Spec => []ParkedHasAWaker
  <1>1. Consistent => ParkedHasAWaker
    BY DEF Consistent, RequestConsistent, Parked, WaitsForSubrequest,
           WaitsForBody, ParkedHasAWaker
  <1> QED
    BY <1>1, Invariant, PTL

(* The completion handler and the filters of a fetch subrequest report to   *)
(* the ctx of the pass that issued it, which nothing else advances.         *)
THEOREM ParentStaysPut == Spec => []SubrequestHasItsParent
  <1>1. Consistent => SubrequestHasItsParent
    BY DEF Consistent, RequestConsistent, Parked, WaitsForSubrequest,
           WaitsForBody, SubrequestHasItsParent
  <1> QED
    BY <1>1, Invariant, PTL

(* However often the handler is re-entered, one pass of a request through   *)
(* the phases asks the cache at most once.                                  *)
THEOREM AsksOnce == Spec => []OneFetchPerPass
  <1>1. Consistent => OneFetchPerPass
    BY DEF Consistent, RequestConsistent, Fetches, OneFetchPerPass
  <1> QED
    BY <1>1, Invariant, PTL

-----------------------------------------------------------------------------
(* What a client gets from the cache is a whole entry, and a whole entry is  *)
(* a hit: an invariant of the parser and the copied chain.                  *)


(* The header of s ends at its n-th token, and the chain of c holds what    *)
(* has been sent since.                                                     *)
CopiedFrom(s, c, n) ==
    /\ HeaderEndsAt(s.entry, n) /\ n <= s.sent
    /\ Len(c.body_from_cache) = s.sent - n
    /\ \A i \in 1..(s.sent - n) : c.body_from_cache[i] = s.entry[n + i]

(* Parsing, s has sent a proper beginning of a header and nothing is in the *)
(* chain; afterwards the chain follows the header.                          *)
InHeader(s, c) ==
    /\ c.body_from_cache = <<>> /\ ~s.seen_subreq_eof
    /\ s.process_header = "status_line" => s.sent = 0
    /\ s.process_header = "header" =>
         /\ s.sent >= 1 /\ s.entry[1].kind = "status"
         /\ \A i \in 2..s.sent : s.entry[i].kind = "header"

InBody(s, c) ==
    /\ \E n \in 2..s.sent : CopiedFrom(s, c, n)
    /\ s.seen_subreq_eof => s.ended /\ c.chained

(* Before its header filter ran.                                            *)
Untouched(s, c) ==
    /\ s.sent = 0 /\ s.process_header = "status_line" /\ ~s.ignore_body
    /\ ~s.ended /\ ~s.oom /\ ~s.seen_subreq_eof
    /\ ~c.from_cache /\ c.body_from_cache = <<>>

(* An active subrequest and the ctx of its parent.  While from_cache is set *)
(* all that was sent is well formed, unless a copy failed.                  *)
Replaying(s, c) ==
    /\ s.sent <= Len(s.entry)
    /\ s.ended => s.sent = Len(s.entry)
    /\ s.status = "none" => Untouched(s, c)
    /\ c.from_cache =>
         /\ ~s.ignore_body
         /\ s.oom \/ IF s.parsing_cached_headers THEN InHeader(s, c)
                     ELSE InBody(s, c)

(* A finished subrequest that counts as a hit.                              *)
Replayed(s, c) ==
    /\ s.sent = Len(s.entry) /\ c.chained
    /\ \E n \in 2..s.sent : CopiedFrom(s, c, n)

(* A ctx without an active subrequest.                                      *)
CtxOK(s, c) ==
    c # NoCtx =>
      /\ c.from_cache => c.request_done /\ s # NoSr /\ Replayed(s, c)
      /\ ~c.request_done => c.body_from_cache = <<>>

FetchOK(r) ==
    /\ Active(r) => Replaying(sr[r], ctx[r])
    /\ ~Active(r) => CtxOK(sr[r], ctx[r])

-----------------------------------------------------------------------------
(* The filters: each lemma is one way a buffer may go.                      *)

(* What holds of s when a buffer arrives.                                   *)
Receives(s, last) ==
    /\ s.status # "none" /\ ~FilterFailed(s) /\ ~s.ended
    /\ s.sent < Len(s.entry)
    /\ last => s.sent + 1 = Len(s.entry)

(* What a subrequest has sent is counted along a sequence of tokens.        *)
LEMMA EntryTyped ==
  ASSUME NEW s \in Subrequests
  PROVE  s.entry \in Seq(Tokens) /\ s.sent \in Nat /\ Len(s.entry) \in Nat
  BY EntriesAssumption DEF Subrequests

(* One more piece of the body, copied.                                      *)
LEMMA ChunkReplays ==
  ASSUME NEW s \in Subrequests, NEW c \in Ctxs, NEW last \in BOOLEAN,
         Replaying(s, c), Receives(s, last),
         ~s.ignore_body, ~s.parsing_cached_headers,
         NEW t \in Subrequests, NEW d \in Ctxs,
         t.entry = s.entry, t.sent = s.sent + 1, t.ended = last,
         t.status = s.status, t.ignore_body = s.ignore_body, t.oom = s.oom,
         t.parsing_cached_headers = s.parsing_cached_headers,
         t.seen_subreq_eof = (s.seen_subreq_eof \/ last),
         d.from_cache = c.from_cache, d.chained,
         d.body_from_cache = Append(c.body_from_cache, s.entry[s.sent + 1])
  PROVE  Replaying(t, d)
  <1>1. s.entry \in Seq(Tokens) /\ s.sent \in Nat /\ Len(s.entry) \in Nat
    BY EntryTyped
  <1>2. t.sent <= Len(t.entry) /\ (t.ended => t.sent = Len(t.entry))
    BY <1>1 DEF Receives
  <1>3. t.status # "none"
    BY DEF Receives
  <1>4. ASSUME d.from_cache
        PROVE  InBody(t, d)
    <2>1. InBody(s, c) /\ ~s.oom
      BY <1>4 DEF Replaying, Receives, FilterFailed
    <2>2. PICK n \in 2..s.sent : CopiedFrom(s, c, n)
      BY <2>1 DEF InBody
    <2>3. c.body_from_cache \in Seq(Tokens) /\ s.entry[s.sent + 1] \in Tokens
      BY <1>1 DEF Ctxs, Receives
    <2>4. Len(d.body_from_cache) = t.sent - n
      <3>1. Len(d.body_from_cache) = Len(c.body_from_cache) + 1
        BY <2>3
      <3>2. Len(c.body_from_cache) = s.sent - n
        BY <2>2 DEF CopiedFrom
      <3> QED
        BY <1>1, <3>1, <3>2
    <2>5. ASSUME NEW i \in 1..(t.sent - n)
          PROVE  d.body_from_cache[i] = t.entry[n + i]
      <3> DEFINE q == c.body_from_cache
      <3>1. Len(q) = s.sent - n /\ n + Len(q) = s.sent /\ i \in 1..Len(q) + 1
        <4>1. Len(q) = s.sent - n /\ n \in Nat /\ n <= s.sent
          BY <1>1, <2>2 DEF CopiedFrom
        <4>2. t.sent - n = Len(q) + 1
          BY <1>1, <4>1
        <4> HIDE DEF q
        <4> QED
          BY <1>1, <4>1, <4>2
      <3>2. CASE i \in 1..Len(q)
        <4>1. d.body_from_cache[i] = q[i]
          BY <2>3, <3>2, AppendProperties
        <4> QED
          BY <2>2, <3>1, <3>2, <4>1 DEF CopiedFrom
      <3>3. CASE i = Len(q) + 1
        <4>1. d.body_from_cache[i] = s.entry[s.sent + 1]
          BY <2>3, <3>3, AppendProperties
        <4>2. n + i = s.sent + 1
          BY <1>1, <2>3, <3>1, <3>3
        <4> QED
          BY <4>1, <4>2
      <3> QED
        BY <2>3, <3>1, <3>2, <3>3
    <2>6. n \in 2..t.sent /\ CopiedFrom(t, d, n)
      BY <1>1, <2>2, <2>4, <2>5 DEF CopiedFrom
    <2>7. t.seen_subreq_eof => t.ended
      BY <2>1 DEF InBody, Receives
    <2> QED
      BY <2>6, <2>7 DEF InBody
  <1> QED
    BY <1>2, <1>3, <1>4 DEF Replaying

(* The empty line: the header is complete, the chain still empty.           *)
LEMMA HeaderEndReplays ==
  ASSUME NEW s \in Subrequests, NEW c \in Ctxs, NEW last \in BOOLEAN,
         Replaying(s, c), Receives(s, last), s.parsing_cached_headers,
         s.process_header = "header", s.entry[s.sent + 1].kind = "end",
         NEW t \in Subrequests,
         t.entry = s.entry, t.sent = s.sent + 1, t.ended = last,
         t.status = s.status, t.ignore_body = s.ignore_body, t.oom = s.oom,
         ~t.parsing_cached_headers, t.seen_subreq_eof = s.seen_subreq_eof
  PROVE  Replaying(t, c)
  <1>1. s.entry \in Seq(Tokens) /\ s.sent \in Nat /\ Len(s.entry) \in Nat
    BY EntryTyped
  <1>2. t.sent <= Len(t.entry) /\ (t.ended => t.sent = Len(t.entry))
    BY <1>1 DEF Receives
  <1>3. t.status # "none"
    BY DEF Receives
  <1>4. ASSUME c.from_cache
        PROVE  ~t.ignore_body /\ (t.oom \/ InBody(t, c))
    <2>1. InHeader(s, c) /\ ~s.oom /\ ~s.ignore_body
      BY <1>4 DEF Replaying, Receives, FilterFailed
    <2>2. /\ s.sent >= 1 /\ s.entry[1].kind = "status"
          /\ \A i \in 2..s.sent : s.entry[i].kind = "header"
      BY <2>1 DEF InHeader
    <2>3. HeaderEndsAt(t.entry, t.sent)
      BY <1>1, <1>2, <2>2 DEF HeaderEndsAt
    <2>4. CopiedFrom(t, c, t.sent)
      BY <1>1, <2>1, <2>3 DEF CopiedFrom, InHeader
    <2> QED
      BY <1>1, <2>1, <2>2, <2>4 DEF InBody, InHeader
  <1> QED
    BY <1>2, <1>3, <1>4 DEF Replaying

(* A status or header line.                                                 *)
LEMMA LineReplays ==
  ASSUME NEW s \in Subrequests, NEW c \in Ctxs, NEW last \in BOOLEAN,
         Replaying(s, c), Receives(s, last), s.parsing_cached_headers,
         \/ s.process_header = "status_line"
            /\ s.entry[s.sent + 1].kind = "status"
         \/ s.process_header = "header"
            /\ s.entry[s.sent + 1].kind = "header",
         NEW t \in Subrequests,
         t.entry = s.entry, t.sent = s.sent + 1, t.ended = last,
         t.status = s.status, t.ignore_body = s.ignore_body, t.oom = s.oom,
         t.parsing_cached_headers, t.process_header = "header",
         t.seen_subreq_eof = s.seen_subreq_eof
  PROVE  Replaying(t, c)
  <1>1. s.entry \in Seq(Tokens) /\ s.sent \in Nat /\ Len(s.entry) \in Nat
    BY EntryTyped
  <1>2. t.sent <= Len(t.entry) /\ (t.ended => t.sent = Len(t.entry))
    BY <1>1 DEF Receives
  <1>3. t.status # "none"
    BY DEF Receives
  <1>4. ASSUME c.from_cache
        PROVE  ~t.ignore_body /\ (t.oom \/ InHeader(t, c))
    <2>1. InHeader(s, c) /\ ~s.ignore_body
      BY <1>4 DEF Replaying, Receives, FilterFailed
    <2>2. t.sent >= 1 /\ t.entry[1].kind = "status"
      BY <1>1, <2>1 DEF InHeader
    <2>3. \A i \in 2..t.sent : t.entry[i].kind = "header"
      BY <1>1, <2>1 DEF InHeader
    <2> QED
      BY <2>1, <2>2, <2>3 DEF InHeader
  <1> QED
    BY <1>2, <1>3, <1>4 DEF Replaying

(* A buffer that is ignored, spoilt or not copied: from_cache is reset, or  *)
(* the failure is on record.                                                *)
LEMMA DiscardReplays ==
  ASSUME NEW s \in Subrequests, NEW c \in Ctxs, NEW last \in BOOLEAN,
         Replaying(s, c), Receives(s, last),
         NEW t \in Subrequests, NEW d \in Ctxs,
         t.entry = s.entry, t.sent = s.sent + 1, t.ended = last,
         t.status = s.status,
         d.from_cache => c.from_cache /\ ~s.ignore_body
                         /\ ~t.ignore_body /\ t.oom
  PROVE  Replaying(t, d)
  <1>1. s.entry \in Seq(Tokens) /\ s.sent \in Nat /\ Len(s.entry) \in Nat
    BY EntryTyped
  <1>2. t.sent <= Len(t.entry) /\ (t.ended => t.sent = Len(t.entry))
    BY <1>1 DEF Receives
  <1> QED
    BY <1>2 DEF Replaying, Receives

(* A special buffer with the last flag.                                     *)
LEMMA LastBufReplays ==
  ASSUME NEW s \in Subrequests, NEW c \in Ctxs, Replaying(s, c),
         s.status # "none", s.sent = Len(s.entry),
         NEW t \in Subrequests, NEW d \in Ctxs,
         t.entry = s.entry, t.sent = s.sent, t.ended,
         t.status = s.status, t.ignore_body = s.ignore_body, t.oom = s.oom,
         t.parsing_cached_headers = s.parsing_cached_headers,
         t.process_header = s.process_header,
         t.parsing_cached_headers => t.seen_subreq_eof = s.seen_subreq_eof,
         d.from_cache = c.from_cache, d.body_from_cache = c.body_from_cache,
         ~s.ignore_body /\ ~s.parsing_cached_headers => d.chained
  PROVE  Replaying(t, d)
  <1>1. s.sent \in Nat /\ Len(s.entry) \in Nat
    BY EntryTyped
  <1>2. ASSUME d.from_cache, ~t.oom, t.parsing_cached_headers
        PROVE  InHeader(t, d)
    BY <1>2 DEF Replaying, InHeader
  <1>3. ASSUME d.from_cache, ~t.oom, ~t.parsing_cached_headers
        PROVE  InBody(t, d)
    BY <1>3 DEF Replaying, InBody, CopiedFrom
  <1> QED
    BY <1>1, <1>2, <1>3 DEF Replaying

(* The header filter.                                                       *)
LEMMA HeaderReplays ==
  ASSUME NEW s \in Subrequests, NEW c \in Ctxs, Replaying(s, c),
         s.status = "none",
         NEW t \in Subrequests, NEW d \in Ctxs,
         t.entry = s.entry, t.sent = s.sent, t.ended = s.ended,
         t.status # "none", t.process_header = s.process_header,
         t.seen_subreq_eof = s.seen_subreq_eof,
         d.body_from_cache = c.body_from_cache,
         \/ t.parsing_cached_headers /\ t.ignore_body = s.ignore_body
         \/ d.from_cache = c.from_cache
  PROVE  Replaying(t, d)
  <1>1. s.sent \in Nat /\ Len(s.entry) \in Nat /\ s.sent = 0
    BY EntryTyped DEF Replaying, Untouched
  <1> QED
    BY <1>1 DEF Replaying, Untouched, InHeader

(* Whatever buffer arrives, from_cache stays set only over a well-formed    *)
(* beginning of an entry.                                                   *)
LEMMA BodyFilterReplays ==
  ASSUME TypeOK, Consistent, NEW r \in Requests, FetchOK(r), SrBodyFilter(r)
  PROVE  Replaying(sr'[r], ctx'[r])
  <1> DEFINE s == sr[r]
             t == sr'[r]
             c == ctx[r]
             d == ctx'[r]
  <1>0. SubrequestStep(r) /\ Active(r)
    BY DEF SubrequestStep, SrBodyFilter, SrDiscard, SrStatusLine,
           SrHeaderLine, SrHeaderEnd, SrParseError, SrBodyChunk, SrCopyFails,
           SrLastBuf, NextBuf
  <1>1. /\ s \in Subrequests /\ c \in Ctxs /\ Replaying(s, c)
        /\ t \in Subrequests /\ d \in Ctxs
    BY <1>0, ActiveTyped, SubrequestStepKeeps
       DEF FetchOK, KeepsSubrequest, KeepsCtx
  <1>2. ASSUME NEW last \in BOOLEAN, NextBuf(r, last)
        PROVE  /\ Receives(s, last) /\ Token(r) = s.entry[s.sent + 1]
               /\ s.has_ctx
    BY <1>2, CtxIsThere DEF NextBuf, Receives, Token
  <1>3. ASSUME NEW last \in BOOLEAN, SrDiscard(r, last)
        PROVE  Replaying(t, d)
    <2>1. /\ t.entry = s.entry /\ t.sent = s.sent + 1 /\ t.ended = last
          /\ t.status = s.status /\ d = c
      BY <1>1, <1>3 DEF SrDiscard, Consumed, TypeOK, Subrequests
    <2>2. ~c.from_cache /\ Receives(s, last)
      BY <1>1, <1>2, <1>3 DEF SrDiscard, Filters, Replaying
    <2> QED
      BY <1>1, <2>1, <2>2, DiscardReplays
  <1>4. ASSUME NEW last \in BOOLEAN,
               SrStatusLine(r, last) \/ SrHeaderLine(r, last)
        PROVE  Replaying(t, d)
    <2>1. /\ t.entry = s.entry /\ t.sent = s.sent + 1 /\ t.ended = last
          /\ t.status = s.status /\ t.ignore_body = s.ignore_body
          /\ t.oom = s.oom /\ t.seen_subreq_eof = s.seen_subreq_eof
          /\ t.parsing_cached_headers = s.parsing_cached_headers
          /\ t.process_header = "header" /\ d = c
      <3>1. CASE SrStatusLine(r, last)
        BY <1>1, <3>1 DEF SrStatusLine, Consumed, TypeOK, Subrequests
      <3>2. CASE SrHeaderLine(r, last)
        BY <1>1, <3>2 DEF SrHeaderLine, ParsesHeaderLine, Consumed, TypeOK,
                          Subrequests
      <3> QED
        BY <1>4, <3>1, <3>2
    <2>2. /\ Receives(s, last) /\ s.parsing_cached_headers
          /\ \/ s.process_header = "status_line"
                /\ s.entry[s.sent + 1].kind = "status"
             \/ s.process_header = "header"
                /\ s.entry[s.sent + 1].kind = "header"
      BY <1>2, <1>4 DEF SrStatusLine, SrHeaderLine, ParsesHeaderLine,
                        ParsesStatusLine, Parses, Filters
    <2> HIDE DEF s, t, c, d
    <2> QED
      BY <1>1, <2>1, <2>2, LineReplays
  <1>5. ASSUME NEW last \in BOOLEAN, SrHeaderEnd(r, last)
        PROVE  Replaying(t, d)
    <2>1. /\ t.entry = s.entry /\ t.sent = s.sent + 1 /\ t.ended = last
          /\ t.status = s.status /\ t.ignore_body = s.ignore_body
          /\ t.oom = s.oom /\ t.seen_subreq_eof = s.seen_subreq_eof
          /\ ~t.parsing_cached_headers /\ d = c
      BY <1>1, <1>5 DEF SrHeaderEnd, HeaderDone, Consumed, TypeOK, Subrequests
    <2>2. /\ Receives(s, last) /\ s.parsing_cached_headers
          /\ s.process_header = "header"
          /\ s.entry[s.sent + 1].kind = "end"
      BY <1>2, <1>5 DEF SrHeaderEnd, ParsesHeaderEnd, Parses, Filters
    <2> HIDE DEF s, t, c, d
    <2> QED
      BY <1>1, <2>1, <2>2, HeaderEndReplays
  <1>6. ASSUME NEW last \in BOOLEAN, SrParseError(r, last)
        PROVE  Replaying(t, d)
    <2>1. /\ t.entry = s.entry /\ t.sent = s.sent + 1 /\ t.ended = last
          /\ t.status = s.status /\ ~d.from_cache
      BY <1>1, <1>6 DEF SrParseError, Consumed, TypeOK, Subrequests, Ctxs
    <2>2. Receives(s, last)
      BY <1>2, <1>6 DEF SrParseError
    <2> HIDE DEF s, t, c, d
    <2> QED
      BY <1>1, <2>1, <2>2, DiscardReplays
  <1>7. ASSUME NEW last \in BOOLEAN, SrBodyChunk(r, last)
        PROVE  Replaying(t, d)
    <2>1. /\ t.entry = s.entry /\ t.sent = s.sent + 1 /\ t.ended = last
          /\ t.status = s.status /\ t.ignore_body = s.ignore_body
          /\ t.oom = s.oom
          /\ t.parsing_cached_headers = s.parsing_cached_headers
          /\ t.seen_subreq_eof = (s.seen_subreq_eof \/ last)
      BY <1>1, <1>7 DEF SrBodyChunk, Consumed, TypeOK, Subrequests
    <2>2. /\ d.from_cache = c.from_cache /\ d.chained
          /\ d.body_from_cache = Append(c.body_from_cache, s.entry[s.sent + 1])
      BY <1>1, <1>2, <1>7 DEF SrBodyChunk, TypeOK, Ctxs
    <2>3. /\ Receives(s, last)
          /\ ~s.ignore_body /\ ~s.parsing_cached_headers
      BY <1>2, <1>7 DEF SrBodyChunk, Copies, Filters
    <2> HIDE DEF s, t, c, d
    <2> QED
      BY <1>1, <2>1, <2>2, <2>3, ChunkReplays
  <1>8. ASSUME NEW last \in BOOLEAN, SrCopyFails(r, last)
        PROVE  Replaying(t, d)
    <2>1. /\ t.entry = s.entry /\ t.sent = s.sent + 1 /\ t.ended = last
          /\ t.status = s.status /\ t.ignore_body = s.ignore_body
          /\ t.oom /\ d = c
      BY <1>1, <1>8 DEF SrCopyFails, Consumed, TypeOK, Subrequests
    <2>2. Receives(s, last) /\ ~s.ignore_body
      BY <1>2, <1>8 DEF SrCopyFails, Copies, Filters
    <2> HIDE DEF s, t, c, d
    <2> QED
      BY <1>1, <2>1, <2>2, DiscardReplays
  <1>9. ASSUME SrLastBuf(r)
        PROVE  Replaying(t, d)
    <2>1. /\ t.entry = s.entry /\ t.sent = s.sent /\ t.ended
          /\ t.status = s.status /\ t.ignore_body = s.ignore_body
          /\ t.oom = s.oom /\ t.process_header = s.process_header
          /\ t.parsing_cached_headers = s.parsing_cached_headers
          /\ t.seen_subreq_eof = (s.seen_subreq_eof \/ SpecialBufIsSeen(r))
      BY <1>1, <1>9 DEF SrLastBuf, TypeOK, Subrequests
    <2>2. /\ d.from_cache = c.from_cache
          /\ d.body_from_cache = c.body_from_cache
          /\ ~s.ignore_body /\ ~s.parsing_cached_headers => d.chained
      BY <1>1, <1>9, CtxIsThere DEF SrLastBuf, Copies, Filters, TypeOK, Ctxs
    <2>3. /\ s.status # "none" /\ s.sent = Len(s.entry)
          /\ t.parsing_cached_headers
               => t.seen_subreq_eof = s.seen_subreq_eof
      BY <1>1, <1>9, <2>1 DEF SrLastBuf, SpecialBufIsSeen, Copies, Filters, Subrequests
    <2> HIDE DEF s, t, c, d
    <2> QED
      BY <1>1, <2>1, <2>2, <2>3, LastBufReplays
  <1> QED
    BY <1>3, <1>4, <1>5, <1>6, <1>7, <1>8, <1>9 DEF SrBodyFilter

(* The same of every step of an active subrequest, its header filter and a  *)
(* redirect included.                                                       *)
LEMMA SubrequestStepReplays ==
  ASSUME TypeOK, Consistent, NEW r \in Requests, FetchOK(r),
         SubrequestStep(r)
  PROVE  FetchOK(r)'
  <1> DEFINE s == sr[r]
             t == sr'[r]
             c == ctx[r]
             d == ctx'[r]
  <1>0. Active(r)
    BY DEF SubrequestStep, SrRedirect, SrHeaderOk, SrHeaderOther,
           SrBodyFilter, SrDiscard, SrStatusLine, SrHeaderLine, SrHeaderEnd,
           SrParseError, SrBodyChunk, SrCopyFails, SrLastBuf, NextBuf
  <1>1. /\ s \in Subrequests /\ c \in Ctxs /\ Replaying(s, c)
        /\ t \in Subrequests /\ d \in Ctxs /\ t.active
    BY <1>0, ActiveTyped, SubrequestStepKeeps
       DEF FetchOK, KeepsSubrequest, KeepsCtx, Active
  <1>6. s.post_subrequest = "srcache"
    BY <1>0, CtxIsThere
  <1>2. CASE SrRedirect(r)
    <2>1. /\ t.entry = s.entry /\ t.sent = s.sent /\ t.ended = s.ended
          /\ t.status = s.status /\ t.ignore_body = s.ignore_body
          /\ t.oom = s.oom /\ t.process_header = s.process_header
          /\ t.parsing_cached_headers = s.parsing_cached_headers
          /\ t.seen_subreq_eof = s.seen_subreq_eof /\ d = c
      BY <1>1, <1>2 DEF SrRedirect, TypeOK, Subrequests
    <2>2. Replaying(t, d)
      <3> HIDE DEF s, t, c, d
      <3> QED
        BY <1>1, <2>1
           DEF Replaying, Untouched, InHeader, InBody, CopiedFrom
    <2> QED
      BY <1>1, <2>2, NullAssumption DEF FetchOK, Active
  <1>3. ASSUME SrHeaderOk(r) \/ \E status \in {"2xx", "special"} :
                                  SrHeaderOther(r, status)
        PROVE  Replaying(t, d)
    <2>1. CASE SrHeaderOk(r)
      <3>1. /\ t.entry = s.entry /\ t.sent = s.sent /\ t.ended = s.ended
            /\ t.status = "200" /\ t.process_header = s.process_header
            /\ t.seen_subreq_eof = s.seen_subreq_eof
            /\ t.parsing_cached_headers /\ t.ignore_body = s.ignore_body
        BY <1>1, <1>6, <2>1 DEF SrHeaderOk, Resumed, TypeOK, Subrequests
      <3>2. d.body_from_cache = c.body_from_cache /\ s.status = "none"
        BY <1>1, <2>1 DEF SrHeaderOk, TypeOK, Ctxs
      <3> HIDE DEF s, t, c, d
      <3> QED
        BY <1>1, <3>1, <3>2, HeaderReplays
    <2>2. ASSUME NEW status \in {"2xx", "special"}, SrHeaderOther(r, status)
          PROVE  Replaying(t, d)
      <3>1. /\ t.entry = s.entry /\ t.sent = s.sent /\ t.ended = s.ended
            /\ t.status = status /\ t.process_header = s.process_header
            /\ t.seen_subreq_eof = s.seen_subreq_eof
        BY <1>1, <2>2 DEF SrHeaderOther, Resumed, TypeOK, Subrequests
      <3>2. /\ d.body_from_cache = c.body_from_cache /\ s.status = "none"
            /\ d.from_cache = c.from_cache
        BY <1>1, <2>2 DEF SrHeaderOther, Refused, TypeOK, Ctxs
      <3>3. t.status # "none"
        BY <3>1
      <3> HIDE DEF s, t, c, d
      <3> QED
        BY <1>1, <3>1, <3>2, <3>3, HeaderReplays
    <2> QED
      BY <1>3, <2>1, <2>2
  <1>4. CASE SrBodyFilter(r)
    BY <1>1, <1>4, BodyFilterReplays, NullAssumption DEF FetchOK, Active
  <1>5. ASSUME Replaying(t, d)
        PROVE  FetchOK(r)'
    BY <1>1, <1>5, NullAssumption DEF FetchOK, Active
  <1> QED
    BY <1>2, <1>3, <1>4, <1>5 DEF SubrequestStep

(* The end of a subrequest: what the completion handler lets pass is whole. *)
LEMMA PostSubrequestReplays ==
  ASSUME TypeOK, Consistent, NEW r \in Requests, FetchOK(r),
         NEW rc \in {"OK", "ERROR", "special"}, PostSubrequest(r, rc)
  PROVE  FetchOK(r)'
  <1> DEFINE s == sr[r]
             t == sr'[r]
             c == ctx[r]
             d == ctx'[r]
  <1>1. /\ s \in Subrequests /\ c \in Ctxs /\ Replaying(s, c)
    BY ActiveTyped DEF FetchOK, PostSubrequest
  <1>2. /\ t \in Subrequests /\ ~t.active
        /\ t.entry = s.entry /\ t.sent = s.sent
    BY <1>1 DEF PostSubrequest, TypeOK, Subrequests
  <1>3. /\ d.request_done /\ d.chained = c.chained
        /\ d.body_from_cache = c.body_from_cache
        /\ d.from_cache => c.from_cache /\ ~Rejected(s, rc)
    BY <1>1 DEF PostSubrequest, Completed, TypeOK, Ctxs
  <1>4. ASSUME d.from_cache
        PROVE  Replayed(t, d)
    <2>1. /\ c.from_cache /\ ~s.parsing_cached_headers
          /\ rc # "ERROR" /\ s.seen_subreq_eof
      BY <1>3, <1>4 DEF Rejected
    <2>2. ~s.oom /\ InBody(s, c)
      BY <1>1, <2>1 DEF PostSubrequest, FilterFailed, Replaying
    <2>3. s.sent = Len(s.entry) /\ c.chained
      BY <1>1, <2>1, <2>2 DEF Replaying, InBody
    <2> HIDE DEF s, t, c, d
    <2>4. PICK n \in 2..s.sent : CopiedFrom(s, c, n)
      BY <2>2 DEF InBody
    <2>5. n \in 2..t.sent /\ CopiedFrom(t, d, n)
      BY <1>2, <1>3, <2>4 DEF CopiedFrom
    <2> QED
      BY <1>2, <1>3, <2>3, <2>5 DEF Replayed
  <1> QED
    BY <1>2, <1>3, <1>4, NullAssumption DEF FetchOK, CtxOK, Active

-----------------------------------------------------------------------------
(* The access handler, and what the client is sent.                         *)

(* A request that still has a ctx to return to is one the handler serves.   *)
ServedOK(r) ==
    phase[r] \in {"access", "parked"} /\ ctx[r] # NoCtx =>
      Eligible(r) /\ ~conf[r].no_cache

CountsAsHit(c) == c # NoCtx /\ c.from_cache

AnsweredOK(r) ==
    /\ client[r].from # "subrequest"
    /\ client[r].from \in {"cache", "backend"} => phase[r] = "closed"
    /\ client[r].from = "cache" =>
         /\ CountsAsHit(ctx[r])
         /\ client[r].length = Len(ctx[r].body_from_cache)
         /\ client[r].body \in {<<>>, ctx[r].body_from_cache}
    /\ phase[r] = "content" \/ client[r].from = "backend"
         => ~CountsAsHit(ctx[r])

RequestSound(r) == FetchOK(r) /\ ServedOK(r) /\ AnsweredOK(r)

Sound == \A r \in Requests : RequestSound(r)

(* A return of the handler that neither fetches nor answers keeps its       *)
(* request sound.                                                           *)
LEMMA ReturnSound ==
  ASSUME TypeOK, NEW r \in Requests, NEW where \in Phases, NEW e, NEW b,
         Return(r, where, e, b), UnchangedFetch, UNCHANGED client,
         ~Active(r), client[r].from = "none", CtxOK(sr[r], e),
         where \in {"access", "parked"} => Eligible(r) /\ ~conf[r].no_cache,
         where = "content" => ~CountsAsHit(e)
  PROVE  RequestSound(r)'
  <1>1. /\ conf'[r] = conf[r] /\ phase'[r] = where /\ ctx'[r] = e
        /\ sr'[r] = sr[r] /\ client'[r] = client[r]
    BY ReturnAt DEF UnchangedFetch
  <1>2. FetchOK(r)'
    BY <1>1 DEF FetchOK, CtxOK, Active
  <1>3. ServedOK(r)'
    BY <1>1 DEF ServedOK, Eligible
  <1>4. AnsweredOK(r)'
    BY <1>1 DEF AnsweredOK, CountsAsHit
  <1> QED
    BY <1>2, <1>3, <1>4 DEF RequestSound

(* A fetch starts with an untouched subrequest and an empty chain.          *)
LEMMA FetchSubrequestSound ==
  ASSUME TypeOK, NEW r \in Requests, NEW c \in Ctxs, NEW b,
         FetchSubrequest(r, c, b), UNCHANGED client,
         ~Active(r), client[r].from = "none", CtxOK(sr[r], c),
         Eligible(r), ~conf[r].no_cache, ~c.request_done
  PROVE  RequestSound(r)'
  <1>1. CASE Return(r, "closed", c, b) /\ UnchangedFetch
    BY <1>1, ReturnSound DEF Phases
  <1>2. ASSUME NEW e \in Entries,
               sr' = [sr EXCEPT ![r] = NewSubrequest(e)],
               Return(r, "parked", Issued(c), b)
        PROVE  RequestSound(r)'
    <2> DEFINE d == Issued(c)
               s == NewSubrequest(e)
    <2>1. d \in Ctxs /\ ~d.from_cache /\ d.body_from_cache = <<>>
      BY NullAssumption DEF Issued, Ctxs, CtxOK
    <2>2. /\ conf'[r] = conf[r] /\ phase'[r] = "parked" /\ ctx'[r] = d
          /\ sr'[r] = s /\ client'[r] = client[r]
      BY <1>2, ReturnAt DEF TypeOK
    <2>3. s \in Subrequests
      BY NewSubrequestTyped
    <2>4. /\ s.active /\ s.sent = 0 /\ s.process_header = "status_line"
          /\ ~s.ignore_body /\ ~s.ended /\ ~s.oom /\ ~s.seen_subreq_eof
          /\ s.status = "none"
      BY DEF NewSubrequest, FirstParser
    <2>5. Replaying(s, d)
      <3>1. Len(s.entry) \in Nat
        BY <2>3, EntryTyped
      <3> HIDE DEF s, d
      <3> QED
        BY <2>1, <2>4, <3>1 DEF Replaying, Untouched
    <2> HIDE DEF s, d
    <2>6. FetchOK(r)'
      BY <2>2, <2>3, <2>4, <2>5, NullAssumption DEF FetchOK, Active
    <2>7. ServedOK(r)'
      BY <2>2 DEF ServedOK, Eligible
    <2>8. AnsweredOK(r)'
      BY <2>2 DEF AnsweredOK
    <2> QED
      BY <2>6, <2>7, <2>8 DEF RequestSound
  <1> QED
    BY <1>1, <1>2 DEF FetchSubrequest

(* A zeroed ctx claims no hit.                                              *)
LEMMA FreshOK ==
  ASSUME NEW s
  PROVE  CtxOK(s, FreshCtx) /\ ~CountsAsHit(FreshCtx)
  BY DEF CtxOK, CountsAsHit, FreshCtx

(* The ctx of a pass that has not fetched claims no hit.                    *)
LEMMA OrFreshOK ==
  ASSUME NEW s, NEW c \in Ctxs \cup {NoCtx}, CtxOK(s, c),
         c # NoCtx => ~c.request_done
  PROVE  /\ OrFresh(c) \in Ctxs /\ CtxOK(s, OrFresh(c))
         /\ ~OrFresh(c).request_done /\ ~CountsAsHit(OrFresh(c))
  BY FreshOK, FreshTyped DEF OrFresh, FreshCtx, CtxOK, CountsAsHit

(* The access handler answers only with what a finished fetch copied.       *)
LEMMA AccessSound ==
  ASSUME TypeOK, NEW r \in Requests,
         NEW c \in Ctxs \cup {NoCtx}, NEW b \in Bodies,
         Enters(r, c, b), Access(r, c, b),
         CtxOK(sr[r], c), client[r].from = "none",
         c # NoCtx => Eligible(r) /\ ~conf[r].no_cache
  PROVE  RequestSound(r)'
  <1> USE DEF Phases
  <1>0. ~Active(r)
    BY DEF Enters
  <1>1. CASE AccessNoCtx(r, c, b)
    BY <1>0, <1>1, ReturnSound DEF AccessNoCtx, UnchangedOthers
  <1>2. CASE AccessBypass(r, c, b)
    BY <1>0, <1>2, ReturnSound DEF AccessBypass, UnchangedOthers, CountsAsHit
  <1>3. CASE AccessNoCache(r, c, b)
    <2> DEFINE e == IF conf[r].no_store THEN c ELSE FreshCtx
    <2>1. CtxOK(sr[r], e) /\ ~CountsAsHit(e)
      BY <1>3, FreshOK DEF AccessNoCache, CountsAsHit
    <2> QED
      BY <1>0, <1>3, <2>1, ReturnSound DEF AccessNoCache, UnchangedOthers
  <1>4. CASE AccessSkip(r, c, b)
    BY <1>0, <1>4, FreshOK, ReturnSound DEF AccessSkip, UnchangedOthers
  <1>5. CASE AccessWait(r, c, b)
    BY <1>5 DEF AccessWait, Enters
  <1>6. CASE AccessBodyRead(r, c, b)
    <2> DEFINE e == BodyTaken(c)
    <2>1. c \in Ctxs /\ ~c.request_done
      BY <1>6 DEF AccessBodyRead, Enters
    <2>2. /\ e \in Ctxs /\ e.request_done = c.request_done
          /\ e.from_cache = c.from_cache
          /\ e.body_from_cache = c.body_from_cache
      BY <2>1 DEF BodyTaken, Ctxs
    <2>3. CtxOK(sr[r], e)
      BY <2>1, <2>2, NullAssumption DEF CtxOK
    <2> HIDE DEF e
    <2>4. FetchSubrequest(r, e, b)
      BY <1>6 DEF AccessBodyRead, e
    <2> QED
      BY <1>0, <1>6, <2>1, <2>2, <2>3, <2>4, FetchSubrequestSound
         DEF AccessBodyRead, Serves
  <1>7. CASE AccessMiss(r, c, b)
    <2>1. ~CountsAsHit(c)
      BY <1>7 DEF AccessMiss, FetchDone, CountsAsHit, CtxOK, Replayed
    <2>2. PICK where \in {"content", "closed"} : Return(r, where, c, b)
      BY <1>7 DEF AccessMiss
    <2> QED
      BY <1>0, <1>7, <2>1, <2>2, ReturnSound DEF AccessMiss, UnchangedOthers
  <1>8. CASE AccessHit(r, c, b)
    <2>1. /\ c \in Ctxs /\ CountsAsHit(c)
      BY <1>8 DEF AccessHit, FetchDone, CountsAsHit
    <2>2. /\ phase'[r] = "closed" /\ ctx'[r] = c /\ sr'[r] = sr[r]
      BY <1>8, ReturnAt DEF AccessHit, UnchangedFetch
    <2>3. FetchOK(r)' /\ ServedOK(r)'
      BY <1>0, <2>2 DEF FetchOK, ServedOK, CtxOK, Active
    <2>4. CASE client' = client
      BY <2>2, <2>3, <2>4 DEF RequestSound, AnsweredOK
    <2>5. ASSUME NEW out \in {c.body_from_cache, <<>>},
                 client' = [client EXCEPT ![r] =
                              [from |-> "cache", lines |-> lines_out[r],
                               body |-> out,
                               length |-> Len(c.body_from_cache)]]
          PROVE  RequestSound(r)'
      <3>1. /\ client'[r].from = "cache" /\ client'[r].body = out
            /\ client'[r].length = Len(c.body_from_cache)
        BY <2>5 DEF TypeOK
      <3>2. AnsweredOK(r)'
        BY <2>1, <2>2, <2>5, <3>1 DEF AnsweredOK, CountsAsHit
      <3> QED
        BY <2>3, <3>2 DEF RequestSound
    <2> QED
      BY <1>8, <2>4, <2>5 DEF AccessHit
  <1>9. CASE AccessPostpone(r, c, b)
    BY <1>0, <1>9, OrFreshOK, ReturnSound
       DEF AccessPostpone, Starts, Serves
  <1>10. CASE AccessStoreOnly(r, c, b)
    BY <1>0, <1>10, OrFreshOK, ReturnSound DEF AccessStoreOnly, Starts
  <1>11. CASE AccessFetch(r, c, b)
    <2>1. FetchSubrequest(r, OrFresh(c), IF b = "unread" THEN "read" ELSE b)
      BY <1>11 DEF AccessFetch
    <2> QED
      BY <1>0, <1>11, <2>1, OrFreshOK, FetchSubrequestSound
         DEF AccessFetch, Starts, Serves
  <1>12. CASE AccessReadBody(r, c, b)
    <2> DEFINE e == BodyPending(OrFresh(c))
    <2>1. /\ OrFresh(c) \in Ctxs /\ CtxOK(sr[r], OrFresh(c))
          /\ ~OrFresh(c).request_done
      BY <1>12, OrFreshOK DEF AccessReadBody, Starts
    <2>2. /\ e.request_done = OrFresh(c).request_done
          /\ e.from_cache = OrFresh(c).from_cache
          /\ e.body_from_cache = OrFresh(c).body_from_cache
      BY <2>1 DEF BodyPending, Ctxs
    <2>3. CtxOK(sr[r], e)
      BY <2>1, <2>2, NullAssumption DEF CtxOK
    <2>4. Eligible(r) /\ ~conf[r].no_cache /\ UnchangedFetch /\ UNCHANGED client
      BY <1>12 DEF AccessReadBody, Starts, Serves
    <2> HIDE DEF e
    <2>5. CASE Return(r, "closed", OrFresh(c), b)
      BY <1>0, <2>1, <2>4, <2>5, ReturnSound
    <2>6. CASE Return(r, "parked", e, "reading")
      BY <1>0, <2>3, <2>4, <2>6, ReturnSound
    <2> QED
      BY <1>12, <2>5, <2>6 DEF AccessReadBody, e
  <1> QED
    BY <1>1, <1>2, <1>3, <1>4, <1>5, <1>6, <1>7, <1>8, <1>9, <1>10, <1>11,
       <1>12 DEF Access

-----------------------------------------------------------------------------
(* Every step keeps every request sound.                                    *)

OthersAlone(r) ==
    /\ OthersUnchanged(r)
    /\ \A q \in Requests \ {r} : client'[q] = client[q]

(* A step that leaves the other requests and their clients alone keeps them *)
(* sound.                                                                   *)
LEMMA OthersSound ==
  ASSUME Sound, NEW r \in Requests, OthersAlone(r), RequestSound(r)'
  PROVE  Sound'
  <1>1. ASSUME NEW q \in Requests \ {r}
        PROVE  RequestSound(q)'
    <2>1. RequestSound(q)
      BY DEF Sound
    <2>2. /\ conf'[q] = conf[q] /\ phase'[q] = phase[q] /\ ctx'[q] = ctx[q]
          /\ sr'[q] = sr[q] /\ client'[q] = client[q]
      BY DEF OthersAlone, OthersUnchanged
    <2> QED
      BY <2>1, <2>2 DEF RequestSound, FetchOK, ServedOK, AnsweredOK, Active,
                        Eligible
  <1> QED
    BY <1>1 DEF Sound

(* Issuing a fetch touches no other request.                                *)
LEMMA FetchSubrequestAlone ==
  ASSUME TypeOK, NEW r \in Requests, NEW c, NEW b,
         FetchSubrequest(r, c, b), UNCHANGED client
  PROVE  OthersAlone(r)
  BY DEF FetchSubrequest, Return, UnchangedFetch, OthersAlone,
         OthersUnchanged, TypeOK

(* The access handler touches no other request.                             *)
LEMMA AccessAlone ==
  ASSUME TypeOK, NEW r \in Requests, NEW c, NEW b, Access(r, c, b)
  PROVE  OthersAlone(r)
  <1>1. CASE AccessBodyRead(r, c, b) \/ AccessFetch(r, c, b)
    BY <1>1, FetchSubrequestAlone DEF AccessBodyRead, AccessFetch
  <1>2. CASE AccessHit(r, c, b)
    BY <1>2 DEF AccessHit, Return, UnchangedFetch, OthersAlone,
                OthersUnchanged, TypeOK
  <1>3. ASSUME NEW where, NEW e, NEW d,
               Return(r, where, e, d), UnchangedFetch, UNCHANGED client
        PROVE  OthersAlone(r)
    BY <1>3, ReturnAt DEF UnchangedFetch, OthersAlone
  <1> QED
    BY <1>1, <1>2, <1>3
       DEF Access, AccessNoCtx, AccessBypass, AccessNoCache, AccessSkip,
           AccessWait, AccessMiss, AccessPostpone, AccessStoreOnly,
           AccessReadBody, UnchangedOthers

(* A request that is not closed has not been answered.                      *)
LEMMA NotAnswered ==
  ASSUME TypeOK, Sound, NEW r \in Requests, phase[r] # "closed"
  PROVE  client[r].from = "none"
  <1>1. client[r].from \in {"none", "cache", "backend", "subrequest"}
    BY DEF TypeOK, Responses
  <1> QED
    BY <1>1 DEF Sound, RequestSound, AnsweredOK

(* A subrequest keeps its parent sound in every step and at its end.        *)
LEMMA SubrequestSound ==
  ASSUME TypeOK, Consistent, Sound, NEW r \in Requests,
         SubrequestStep(r) \/ SubrequestEnd(r)
  PROVE  Sound'
  <1>0. Active(r)
    BY DEF SubrequestStep, SubrequestEnd, SrRedirect, SrHeaderOk,
           SrHeaderOther, SrBodyFilter, SrDiscard, SrStatusLine, SrHeaderLine,
           SrHeaderEnd, SrParseError, SrBodyChunk, SrCopyFails, SrLastBuf,
           NextBuf, PostSubrequest
  <1>1. /\ sr[r] \in Subrequests /\ ctx[r] \in Ctxs /\ ctx[r] # NoCtx
        /\ phase[r] = "parked" /\ client[r].from = "none"
    BY <1>0, ActiveTyped, NotAnswered, NullAssumption
       DEF Consistent, RequestConsistent
  <1>2. FetchOK(r) /\ Eligible(r) /\ ~conf[r].no_cache
    BY <1>1 DEF Sound, RequestSound, ServedOK
  <1>3. CASE SubrequestStep(r)
    <2>1. UNCHANGED <<client, conf, phase>>
      BY <1>3, CtxIsThere
         DEF NextBuf, SubrequestStep, SrRedirect, SrHeaderOk, SrHeaderOther,
             SrBodyFilter, SrDiscard, SrStatusLine, SrHeaderLine,
             SrHeaderEnd, SrParseError, SrBodyChunk, SrCopyFails, SrLastBuf,
             UnchangedParent
    <2>2. FetchOK(r)'
      BY <1>2, <1>3, SubrequestStepReplays
    <2>3. RequestSound(r)'
      BY <1>1, <1>2, <2>1, <2>2
         DEF RequestSound, ServedOK, AnsweredOK, Eligible
    <2>4. OthersAlone(r)
      BY <1>3, <2>1, SubrequestStepKeeps DEF OthersAlone
    <2> QED
      BY <2>3, <2>4, OthersSound
  <1>4. ASSUME NEW rc \in {"OK", "ERROR", "special"}, PostSubrequest(r, rc)
        PROVE  Sound'
    <2>1. FetchOK(r)'
      BY <1>2, <1>4, PostSubrequestReplays
    <2>2. UNCHANGED <<client, conf>> /\ phase'[r] = "access"
      BY <1>4 DEF PostSubrequest, TypeOK
    <2>3. RequestSound(r)'
      BY <1>1, <1>2, <2>1, <2>2
         DEF RequestSound, ServedOK, AnsweredOK, Eligible
    <2>4. OthersAlone(r)
      BY <1>4 DEF PostSubrequest, OthersAlone, OthersUnchanged, TypeOK
    <2> QED
      BY <2>3, <2>4, OthersSound
  <1> QED
    BY <1>3, <1>4 DEF SubrequestEnd

(* Every step of the system keeps every request sound.                      *)
LEMMA SoundStep ==
  ASSUME TypeOK, Consistent, Sound, [Next]_vars
  PROVE  Sound'
  <1>1. ASSUME NEW r \in Requests, RunPhases(r)
        PROVE  Sound'
    <2>1. Enters(r, ctx[r], request_body[r])
      BY <1>1 DEF RunPhases, Consistent, RequestConsistent, Running, Fetches,
                  Enters
    <2>2. /\ CtxOK(sr[r], ctx[r]) /\ client[r].from = "none"
          /\ ctx[r] # NoCtx => Eligible(r) /\ ~conf[r].no_cache
      BY <1>1, <2>1, NotAnswered
         DEF RunPhases, Enters, Sound, RequestSound, FetchOK, ServedOK
    <2>3. RequestSound(r)'
      BY <1>1, <2>1, <2>2, AccessSound DEF RunPhases, TypeOK, Bodies
    <2>4. OthersAlone(r)
      BY <1>1, AccessAlone DEF RunPhases
    <2> QED
      BY <2>3, <2>4, OthersSound
  <1>2. ASSUME NEW r \in Requests, WriteEvent(r)
        PROVE  Sound'
    <2>1. UNCHANGED <<ctx, sr, client, conf, phase>>
      BY <1>2, WriteEventConsistent
    <2> QED
      BY <2>1 DEF Sound, RequestSound, FetchOK, ServedOK, AnsweredOK, Active,
                  Eligible
  <1>3. ASSUME NEW r \in Requests, PostReadBody(r)
        PROVE  Sound'
    <2>1. WaitsForBody(r) /\ ctx[r] \in Ctxs
      BY <1>3 DEF PostReadBody, Consistent, RequestConsistent, Parked,
                  WaitsForSubrequest, WaitsForBody, TypeOK
    <2> DEFINE d == [ctx[r] EXCEPT !.request_body_done = TRUE,
                                   !.waiting_request_body = FALSE]
    <2>2. /\ d \in Ctxs /\ ~Waiting(d) /\ ~d.request_done
          /\ d.from_cache = ctx[r].from_cache
          /\ d.body_from_cache = ctx[r].body_from_cache
      BY <2>1 DEF Ctxs, WaitsForBody, Waiting
    <2>3. Enters(r, d, "read")
      BY <2>1, <2>2 DEF Enters, WaitsForBody
    <2>4. CtxOK(sr[r], ctx[r]) /\ client[r].from = "none"
      BY <1>3, <2>1, NotAnswered
         DEF PostReadBody, WaitsForBody, Sound, RequestSound, FetchOK
    <2>5. CtxOK(sr[r], d)
      <3> HIDE DEF d
      <3> QED
        BY <2>1, <2>2, <2>4 DEF CtxOK, WaitsForBody
    <2>6. RequestSound(r)'
      BY <1>3, <2>1, <2>2, <2>3, <2>4, <2>5, AccessSound
         DEF PostReadBody, Bodies, WaitsForBody
    <2>7. OthersAlone(r)
      BY <1>3, AccessAlone DEF PostReadBody
    <2> QED
      BY <2>6, <2>7, OthersSound
  <1>4. ASSUME NEW r \in Requests, SubrequestStep(r) \/ SubrequestEnd(r)
        PROVE  Sound'
    BY <1>4, SubrequestSound
  <1>5. ASSUME NEW r \in Requests,
               ReadBodyFails(r) \/ Content(r) \/ InternalRedirect(r)
        PROVE  Sound'
    <2>1. RequestSound(r) /\ client[r].from = "none"
      BY <1>5, NotAnswered
         DEF Sound, ReadBodyFails, Content, InternalRedirect
    <2>2. OthersAlone(r)
      BY <1>5 DEF ReadBodyFails, Content, InternalRedirect, OthersAlone,
                  OthersUnchanged, TypeOK
    <2>3. ASSUME ReadBodyFails(r) PROVE RequestSound(r)'
      BY <2>1, <2>3
         DEF ReadBodyFails, TypeOK, RequestSound, FetchOK, ServedOK,
             AnsweredOK, Active
    <2>4. ASSUME Content(r) PROVE RequestSound(r)'
      <3>1. /\ phase'[r] = "closed" /\ client'[r].from = "backend"
            /\ ctx'[r] = ctx[r] /\ sr'[r] = sr[r]
        BY <2>4 DEF Content, TypeOK, NoResponse
      <3> QED
        BY <2>1, <2>4, <3>1
           DEF Content, RequestSound, FetchOK, ServedOK, AnsweredOK, Active
    <2>5. ASSUME InternalRedirect(r) PROVE RequestSound(r)'
      <3>1. /\ phase'[r] = "access" /\ client'[r] = client[r]
            /\ ctx'[r] = NoCtx /\ sr'[r] = sr[r] /\ phase[r] = "content"
        BY <2>5 DEF InternalRedirect, TypeOK
      <3>2. ~Active(r)
        BY <3>1 DEF Consistent, RequestConsistent
      <3> QED
        BY <2>1, <3>1, <3>2
           DEF RequestSound, FetchOK, ServedOK, AnsweredOK, Active, CtxOK,
               CountsAsHit
    <2>6. RequestSound(r)'
      BY <1>5, <2>3, <2>4, <2>5
    <2> QED
      BY <2>2, <2>6, OthersSound
  <1>6. CASE UNCHANGED vars
    BY <1>6 DEF vars, Sound, RequestSound, FetchOK, ServedOK, AnsweredOK,
                Active, Eligible
  <1> QED
    BY <1>1, <1>2, <1>3, <1>4, <1>5, <1>6 DEF Next, BodyEnd, Terminated

(* A request that just arrived is sound.                                    *)
LEMMA InitSound == Init => Sound
  <1> SUFFICES ASSUME Init, NEW r \in Requests PROVE RequestSound(r)
    BY DEF Sound
  <1>1. /\ phase[r] = "access" /\ ctx[r] = NoCtx /\ sr[r] = NoSr
        /\ client[r].from = "none"
    BY DEF Init, NoResponse
  <1> QED
    BY <1>1 DEF RequestSound, FetchOK, CtxOK, ServedOK, AnsweredOK, Active

(* The inductive invariant of the replay: while a fetch runs under          *)
(* from_cache, its chain is the part of a well-formed entry sent since the  *)
(* header's end; when it is over, all of it; and each answer from the cache *)
(* is such a chain.                                                         *)
THEOREM SoundInvariant == Spec => []Sound
  <1>1. Init /\ [][Next]_vars /\ [](TypeOK /\ Consistent) => []Sound
    <2>1. TypeOK /\ Consistent /\ Sound /\ [Next]_vars => Sound'
      BY SoundStep
    <2> QED
      BY <2>1, InitSound, PTL
  <1> QED
    BY <1>1, Invariant, PTL DEF Spec

-----------------------------------------------------------------------------
(* The chain of a finished fetch is the entry from its header's end on.     *)
LEMMA CopiedIsRest ==
  ASSUME NEW s \in Subrequests, NEW c \in Ctxs, NEW n \in 2..s.sent,
         CopiedFrom(s, c, n), s.sent = Len(s.entry)
  PROVE  c.body_from_cache = SubSeq(s.entry, n + 1, Len(s.entry))
  <1> DEFINE L == Len(s.entry)
             q == c.body_from_cache
             rest == SubSeq(s.entry, n + 1, L)
  <1>1. s.entry \in Seq(Tokens) /\ L \in Nat /\ n \in Nat /\ n <= L
    BY EntryTyped
  <1>2. q \in Seq(Tokens) /\ Len(q) = L - n
    BY DEF CopiedFrom, Ctxs
  <1>3. \A i \in (n + 1)..L : s.entry[i] \in Tokens
    BY <1>1
  <1>4. /\ rest \in Seq(Tokens)
        /\ Len(rest) = IF n + 1 <= L THEN L - (n + 1) + 1 ELSE 0
        /\ \A i \in 1..(L - (n + 1) + 1) : rest[i] = s.entry[n + 1 + i - 1]
    <2>1. n + 1 \in Int /\ L \in Int
      BY <1>1
    <2> HIDE DEF L
    <2> QED
      BY <1>3, <2>1, SubSeqProperties
  <1>5. Len(rest) = Len(q)
    BY <1>1, <1>2, <1>4
  <1>6. \A i \in 1..Len(q) : q[i] = rest[i]
    <2> SUFFICES ASSUME NEW i \in 1..Len(q) PROVE q[i] = rest[i]
      OBVIOUS
    <2>1. q[i] = s.entry[n + i]
      BY <1>1, <1>2 DEF CopiedFrom
    <2>2. i \in 1..(L - (n + 1) + 1) /\ n + 1 + i - 1 = n + i
      BY <1>1, <1>2
    <2> QED
      BY <1>4, <2>1, <2>2
  <1> HIDE DEF q, rest
  <1> QED
    BY <1>2, <1>4, <1>5, <1>6, SeqEqual DEF q, rest

(* Whatever the cache sends, in whatever buffers, however it ends and       *)
(* through whatever internal redirects, a client that gets any of it gets   *)
(* one whole, well-formed entry's body by way of the parent, or nothing of  *)
(* it under the same length, for any number of requests.                    *)
THEOREM HitsAreWhole == Spec => []HitIsWholeEntry
  <1>1. TypeOK /\ Consistent /\ Sound => HitIsWholeEntry
    <2> SUFFICES ASSUME TypeOK, Consistent, Sound, NEW r \in Requests,
                        client[r].from \in {"cache", "subrequest"}
                 PROVE  \E n \in 2..Len(sr[r].entry) :
                          /\ client[r].from = "cache"
                          /\ HeaderEndsAt(sr[r].entry, n)
                          /\ sr[r].sent = Len(sr[r].entry)
                          /\ client[r].length = Len(sr[r].entry) - n
                          /\ client[r].body \in
                               {<<>>, SubSeq(sr[r].entry, n + 1,
                                             Len(sr[r].entry))}
      BY DEF HitIsWholeEntry
    <2>1. /\ client[r].from = "cache"
          /\ phase[r] = "closed" /\ CountsAsHit(ctx[r])
          /\ client[r].length = Len(ctx[r].body_from_cache)
          /\ client[r].body \in {<<>>, ctx[r].body_from_cache}
      BY DEF Sound, RequestSound, AnsweredOK
    <2>2. CtxOK(sr[r], ctx[r])
      BY <2>1 DEF Consistent, RequestConsistent, Sound, RequestSound, FetchOK
    <2>3. /\ sr[r] # NoSr /\ Replayed(sr[r], ctx[r]) /\ ctx[r] # NoCtx
      BY <2>1, <2>2 DEF CtxOK, CountsAsHit
    <2>4. sr[r] \in Subrequests /\ ctx[r] \in Ctxs
      BY <2>3 DEF TypeOK
    <2>5. PICK n \in 2..sr[r].sent : CopiedFrom(sr[r], ctx[r], n)
      BY <2>3 DEF Replayed
    <2>6. sr[r].sent = Len(sr[r].entry)
      BY <2>3 DEF Replayed
    <2>7. ctx[r].body_from_cache
            = SubSeq(sr[r].entry, n + 1, Len(sr[r].entry))
      BY <2>4, <2>5, <2>6, CopiedIsRest
    <2>8. /\ HeaderEndsAt(sr[r].entry, n)
          /\ Len(ctx[r].body_from_cache) = Len(sr[r].entry) - n
      BY <2>5, <2>6 DEF CopiedFrom
    <2> QED
      BY <2>1, <2>5, <2>6, <2>7, <2>8
  <1> QED
    BY <1>1, Invariant, SoundInvariant, PTL

(* The access handler never finds from_cache set and no chain to send.      *)
THEOREM HitsHaveChains == Spec => []HitHasChain
  <1>1. Consistent /\ Sound => HitHasChain
    BY DEF Consistent, RequestConsistent, Parked, WaitsForSubrequest,
           WaitsForBody, Sound, RequestSound, FetchOK, CtxOK, Replayed,
           HitHasChain
  <1> QED
    BY <1>1, Invariant, SoundInvariant, PTL

(* $srcache_fetch_status, and the flag by which the store half's filters    *)
(* step aside, agree with where the response came from.                     *)
THEOREM StatusIsTrue == Spec => []StatusTellsTheSource
  <1>1. Sound => StatusTellsTheSource
    BY DEF Sound, RequestSound, AnsweredOK, CountsAsHit, FetchStatus,
           StatusTellsTheSource
  <1> QED
    BY <1>1, SoundInvariant, PTL

(* What the ctx knows of the fetch: that one was issued, unless a skip that *)
(* was false when it was issued replaced the ctx.                           *)
SkipMayTurn(r) == conf[r].skip \in {"after_body", "after_fetch"}

Asked(r) ==
    /\ Eligible(r) /\ ~conf[r].no_cache
    /\ (ctx[r] # NoCtx /\ ctx[r].issued_fetch_subrequest) \/ SkipMayTurn(r)

Knows(r) ==
    /\ ctx[r] # NoCtx /\ ctx[r].issued_fetch_subrequest => fetches[r] > 0
    /\ fetches[r] > 0 => Asked(r) /\ conf[r].skip # "always"
    /\ phase[r] = "access" /\ ctx[r] # NoCtx /\ ctx[r].request_done
         => fetches[r] > 0

Informed == \A r \in Requests : Knows(r)

(* A return of the handler after which the ctx claims no fetch, or the one  *)
(* that it claimed.                                                         *)
LEMMA ReturnKnows ==
  ASSUME TypeOK, NEW r \in Requests, NEW where, NEW e, NEW b,
         Return(r, where, e, b), UnchangedFetch,
         e # NoCtx /\ e.issued_fetch_subrequest => fetches[r] > 0,
         fetches[r] > 0 =>
           /\ Eligible(r) /\ ~conf[r].no_cache /\ conf[r].skip # "always"
           /\ (e # NoCtx /\ e.issued_fetch_subrequest) \/ SkipMayTurn(r),
         where = "access" /\ e # NoCtx => ~e.request_done
  PROVE  Knows(r)'
  <1>1. /\ conf'[r] = conf[r] /\ phase'[r] = where /\ ctx'[r] = e
        /\ fetches'[r] = fetches[r]
    BY ReturnAt DEF UnchangedFetch
  <1> QED
    BY <1>1 DEF Knows, Asked, SkipMayTurn, Eligible

(* A fetch that is issued is known to the ctx.                              *)
LEMMA FetchSubrequestKnows ==
  ASSUME TypeOK, NEW r \in Requests, NEW c \in Ctxs, NEW b,
         FetchSubrequest(r, c, b), fetches[r] = 0,
         ~c.issued_fetch_subrequest,
         Eligible(r), ~conf[r].no_cache, conf[r].skip # "always"
  PROVE  Knows(r)'
  <1>1. CASE Return(r, "closed", c, b) /\ UnchangedFetch
    BY <1>1, ReturnKnows
  <1>2. CASE /\ fetches' = [fetches EXCEPT ![r] = IF @ < 2 THEN @ + 1 ELSE @]
             /\ Return(r, "parked", Issued(c), b)
    <2> DEFINE d == Issued(c)
    <2>1. d \in Ctxs /\ d.issued_fetch_subrequest
      BY DEF Issued, Ctxs
    <2>2. /\ conf'[r] = conf[r] /\ phase'[r] = "parked" /\ ctx'[r] = d
          /\ fetches'[r] = 1
      BY <1>2, ReturnAt DEF TypeOK
    <2> HIDE DEF d
    <2> QED
      BY <2>1, <2>2, NullAssumption
         DEF Knows, Asked, SkipMayTurn, Eligible
  <1> QED
    BY <1>1, <1>2 DEF FetchSubrequest

(* A pass that has not fetched has a ctx that says so.                      *)
LEMMA OrFreshKnows ==
  ASSUME NEW c \in Ctxs \cup {NoCtx},
         c # NoCtx => ~c.issued_fetch_subrequest /\ ~c.request_done
  PROVE  /\ OrFresh(c) \in Ctxs /\ ~OrFresh(c).issued_fetch_subrequest
         /\ ~OrFresh(c).request_done
  BY FreshTyped DEF OrFresh, FreshCtx

(* Every path of the access handler leaves a ctx that knows of the fetch.   *)
LEMMA AccessKnows ==
  ASSUME TypeOK, NEW r \in Requests,
         NEW c \in Ctxs \cup {NoCtx}, NEW b,
         Enters(r, c, b), Access(r, c, b), Knows(r),
         (c # NoCtx /\ c.issued_fetch_subrequest)
           <=> (ctx[r] # NoCtx /\ ctx[r].issued_fetch_subrequest)
  PROVE  Knows(r)'
  <1> DEFINE issued == c # NoCtx /\ c.issued_fetch_subrequest
  <1>0. /\ fetches[r] \in 0..2
        /\ issued => fetches[r] > 0
        /\ fetches[r] > 0 =>
             /\ Eligible(r) /\ ~conf[r].no_cache /\ conf[r].skip # "always"
             /\ issued \/ SkipMayTurn(r)
        /\ fetches[r] > 0 => c # NoCtx /\ c.request_done
    BY DEF TypeOK, Knows, Asked, Enters
  <1>1. conf[r].skip \in {"never", "always", "after_body", "after_fetch"}
    BY LocationsAssumption DEF TypeOK, LocationConfs
  <1>2. ~FreshCtx.issued_fetch_subrequest /\ ~FreshCtx.request_done
    BY DEF FreshCtx
  <1>3. ASSUME NEW where \in {"parked", "content", "closed"}, NEW d,
               Return(r, where, c, d), UnchangedFetch
        PROVE  Knows(r)'
    BY <1>0, <1>3, ReturnKnows
  <1>4. CASE \/ AccessNoCtx(r, c, b) \/ AccessBypass(r, c, b)
             \/ AccessWait(r, c, b) \/ AccessMiss(r, c, b)
             \/ AccessHit(r, c, b)
    BY <1>3, <1>4 DEF AccessNoCtx, AccessBypass, AccessWait, AccessMiss,
                      AccessHit, UnchangedOthers
  <1>5. CASE AccessNoCache(r, c, b)
    <2> DEFINE e == IF conf[r].no_store THEN c ELSE FreshCtx
    <2>1. fetches[r] = 0
      BY <1>0, <1>5 DEF AccessNoCache
    <2>2. e # NoCtx => ~e.issued_fetch_subrequest
      BY <1>0, <1>2, <2>1
    <2>3. Return(r, "content", e, b) /\ UnchangedFetch
      BY <1>5 DEF AccessNoCache, UnchangedOthers
    <2> HIDE DEF e
    <2> QED
      BY <2>1, <2>2, <2>3, ReturnKnows
  <1>6. CASE AccessSkip(r, c, b)
    <2>1. fetches[r] > 0 => SkipMayTurn(r)
      BY <1>0, <1>1, <1>6 DEF AccessSkip, SkipsFetch, SkipMayTurn
    <2>2. Return(r, "content", FreshCtx, b) /\ UnchangedFetch
      BY <1>6 DEF AccessSkip, UnchangedOthers
    <2> QED
      BY <1>0, <1>2, <2>1, <2>2, ReturnKnows
  <1>7. CASE AccessBodyRead(r, c, b)
    <2>1. /\ c \in Ctxs /\ ~c.request_done /\ ~c.issued_fetch_subrequest
          /\ fetches[r] = 0
      BY <1>0, <1>7 DEF AccessBodyRead, Enters
    <2>2. BodyTaken(c) \in Ctxs /\ ~BodyTaken(c).issued_fetch_subrequest
      BY <2>1 DEF BodyTaken, Ctxs
    <2>3. Eligible(r) /\ ~conf[r].no_cache /\ conf[r].skip # "always"
      BY <1>7 DEF AccessBodyRead, Serves, SkipsFetch
    <2> QED
      BY <1>7, <2>1, <2>2, <2>3, FetchSubrequestKnows DEF AccessBodyRead
  <1>8. ASSUME Starts(r, c, b)
        PROVE  /\ fetches[r] = 0 /\ OrFresh(c) \in Ctxs
               /\ ~OrFresh(c).issued_fetch_subrequest
               /\ ~OrFresh(c).request_done
               /\ Eligible(r) /\ ~conf[r].no_cache /\ conf[r].skip # "always"
    BY <1>0, <1>8, OrFreshKnows DEF Starts, Serves, SkipsFetch
  <1>9. CASE AccessPostpone(r, c, b) \/ AccessStoreOnly(r, c, b)
    BY <1>8, <1>9, ReturnKnows DEF AccessPostpone, AccessStoreOnly
  <1>10. CASE AccessFetch(r, c, b)
    BY <1>8, <1>10, FetchSubrequestKnows DEF AccessFetch
  <1>11. CASE AccessReadBody(r, c, b)
    <2> DEFINE e == BodyPending(OrFresh(c))
    <2>1. OrFresh(c) \in Ctxs /\ ~OrFresh(c).issued_fetch_subrequest
      BY <1>8, <1>11 DEF AccessReadBody
    <2>2. ~e.issued_fetch_subrequest
      BY <2>1 DEF BodyPending, Ctxs
    <2>3. UnchangedFetch /\ fetches[r] = 0
      BY <1>8, <1>11 DEF AccessReadBody
    <2> HIDE DEF e
    <2>4. CASE Return(r, "closed", OrFresh(c), b)
      BY <2>1, <2>3, <2>4, ReturnKnows
    <2>5. CASE Return(r, "parked", e, "reading")
      BY <2>2, <2>3, <2>5, ReturnKnows
    <2> QED
      BY <1>11, <2>4, <2>5 DEF AccessReadBody, e
  <1> QED
    BY <1>4, <1>5, <1>6, <1>7, <1>9, <1>10, <1>11 DEF Access

(* A step that leaves the other requests alone has to inform its own only.  *)
LEMMA OthersInformed ==
  ASSUME Informed, NEW r \in Requests, OthersUnchanged(r), Knows(r)'
  PROVE  Informed'
  <1>1. ASSUME NEW q \in Requests \ {r}
        PROVE  Knows(q)'
    <2>1. Knows(q)
      BY DEF Informed
    <2> QED
      BY <2>1 DEF OthersUnchanged, Knows, Asked, SkipMayTurn, Eligible
  <1> QED
    BY <1>1 DEF Informed

(* Every step keeps every request's ctx informed.                           *)
LEMMA InformedStep ==
  ASSUME TypeOK, Consistent, Informed, [Next]_vars
  PROVE  Informed'
  <1>1. ASSUME NEW r \in Requests, RunPhases(r)
        PROVE  Informed'
    <2>1. Enters(r, ctx[r], request_body[r])
      BY <1>1 DEF RunPhases, Consistent, RequestConsistent, Running, Fetches,
                  Enters
    <2>2. ctx[r] \in Ctxs \cup {NoCtx} /\ Knows(r)
      BY DEF TypeOK, Informed
    <2>3. Knows(r)'
      BY <1>1, <2>1, <2>2, AccessKnows DEF RunPhases
    <2>4. OthersUnchanged(r)
      BY <1>1, AccessAlone DEF RunPhases, OthersAlone
    <2> QED
      BY <2>3, <2>4, OthersInformed
  <1>2. ASSUME NEW r \in Requests, WriteEvent(r)
        PROVE  Informed'
    <2>1. UNCHANGED <<ctx, conf, phase, fetches>>
      BY <1>2, WriteEventConsistent
    <2> QED
      BY <2>1 DEF Informed, Knows, Asked, SkipMayTurn, Eligible
  <1>3. ASSUME NEW r \in Requests, PostReadBody(r)
        PROVE  Informed'
    <2>1. WaitsForBody(r) /\ ctx[r] \in Ctxs
      BY <1>3 DEF PostReadBody, Consistent, RequestConsistent, Parked,
                  WaitsForSubrequest, WaitsForBody, TypeOK
    <2> DEFINE d == [ctx[r] EXCEPT !.request_body_done = TRUE,
                                   !.waiting_request_body = FALSE]
    <2>2. /\ d \in Ctxs /\ ~Waiting(d) /\ ~d.request_done
          /\ d.issued_fetch_subrequest = ctx[r].issued_fetch_subrequest
      BY <2>1 DEF Ctxs, WaitsForBody, Waiting
    <2>3. Enters(r, d, "read") /\ d # NoCtx /\ ctx[r] # NoCtx
      BY <2>1, <2>2, NullAssumption DEF Enters, WaitsForBody
    <2>4. Access(r, d, "read") /\ Knows(r)
      BY <1>3 DEF PostReadBody, Informed
    <2>5. Knows(r)'
      <3> HIDE DEF d
      <3> QED
        BY <2>2, <2>3, <2>4, AccessKnows
    <2>6. OthersUnchanged(r)
      BY <1>3, AccessAlone DEF PostReadBody, OthersAlone
    <2> QED
      BY <2>5, <2>6, OthersInformed
  <1>4. ASSUME NEW r \in Requests, SubrequestStep(r)
        PROVE  Informed'
    <2>1. /\ KeepsCtx(ctx[r], ctx'[r]) /\ OthersUnchanged(r)
          /\ Active(r) /\ UnchangedParent
      BY <1>4, SubrequestStepKeeps
    <2>2. ctx[r] # NoCtx /\ phase[r] = "parked" /\ Knows(r)
      BY <2>1 DEF Consistent, RequestConsistent, Parked, WaitsForSubrequest,
                  WaitsForBody, Informed
    <2>3. ctx'[r] # NoCtx
      BY <2>1, NullAssumption DEF KeepsCtx
    <2>4. Knows(r)'
      BY <2>1, <2>2, <2>3 DEF UnchangedParent, KeepsCtx, Knows, Asked,
                              SkipMayTurn, Eligible
    <2> QED
      BY <2>1, <2>4, OthersInformed
  <1>5. ASSUME NEW r \in Requests, NEW rc, PostSubrequest(r, rc)
        PROVE  Informed'
    <2>1. Active(r) /\ ctx[r] \in Ctxs
      BY <1>5, ActiveTyped DEF PostSubrequest
    <2>2. WaitsForSubrequest(r) /\ Knows(r)
      BY <2>1 DEF Consistent, RequestConsistent, Parked, WaitsForBody,
                  Informed
    <2> DEFINE d == Completed(ctx[r], ~Rejected(sr[r], rc))
    <2>3. d \in Ctxs
      BY <2>1, CompletedTyped
    <2>7. d.issued_fetch_subrequest = ctx[r].issued_fetch_subrequest
      BY <2>1 DEF Completed, Ctxs
    <2>4. /\ conf'[r] = conf[r] /\ ctx'[r] = d /\ fetches'[r] = fetches[r]
      BY <1>5 DEF PostSubrequest, TypeOK
    <2>5. Knows(r)'
      <3> HIDE DEF d
      <3> QED
        BY <2>2, <2>3, <2>4, <2>7, NullAssumption
           DEF WaitsForSubrequest, Knows, Asked, SkipMayTurn, Eligible
    <2>6. OthersUnchanged(r)
      BY <1>5 DEF PostSubrequest, OthersUnchanged, TypeOK
    <2> QED
      BY <2>5, <2>6, OthersInformed
  <1>6. ASSUME NEW r \in Requests, ReadBodyFails(r) \/ Content(r)
        PROVE  Informed'
    <2>1. UNCHANGED <<ctx, conf, fetches>> /\ phase'[r] = "closed" /\ Knows(r)
      BY <1>6 DEF ReadBodyFails, Content, TypeOK, Informed
    <2>2. Knows(r)'
      BY <2>1 DEF Knows, Asked, SkipMayTurn, Eligible
    <2>3. OthersUnchanged(r)
      BY <1>6 DEF ReadBodyFails, Content, OthersUnchanged, TypeOK
    <2> QED
      BY <2>2, <2>3, OthersInformed
  <1>7. ASSUME NEW r \in Requests, InternalRedirect(r)
        PROVE  Informed'
    <2>1. ctx'[r] = NoCtx /\ fetches'[r] = 0
      BY <1>7 DEF InternalRedirect, TypeOK
    <2>2. Knows(r)'
      BY <2>1 DEF Knows
    <2>3. OthersUnchanged(r)
      BY <1>7 DEF InternalRedirect, OthersUnchanged, TypeOK
    <2> QED
      BY <2>2, <2>3, OthersInformed
  <1>8. CASE UNCHANGED vars
    BY <1>8 DEF vars, Informed, Knows, Asked, SkipMayTurn, Eligible
  <1> QED
    BY <1>1, <1>2, <1>3, <1>4, <1>5, <1>6, <1>7, <1>8
       DEF Next, BodyEnd, SubrequestEnd, Terminated

(* A ctx knows whether its pass has asked the cache, but for the skip that  *)
(* turned true: an invariant on top of the protocol's.                      *)
LEMMA InformedInvariant == Spec => []Informed
  <1>1. Init => Informed
    <2> SUFFICES ASSUME Init, NEW r \in Requests PROVE Knows(r)
      BY DEF Informed
    <2>1. ctx[r] = NoCtx /\ fetches[r] = 0
      BY DEF Init
    <2> QED
      BY <2>1 DEF Knows
  <1>2. TypeOK /\ Consistent /\ Informed /\ [Next]_vars => Informed'
    BY InformedStep
  <1> QED
    BY <1>1, <1>2, Invariant, PTL DEF Spec

(* However the subrequest ended and however often the handler was entered   *)
(* again, a response that is not the cache's is logged as MISS after a      *)
(* fetch and as BYPASS without one, unless srcache_fetch_skip turned true   *)
(* in between: for any number of requests, entries and redirects.           *)
THEOREM FetchStatusIsTrue == Spec => []StatusTellsOfTheFetch
  <1>1. TypeOK /\ Sound /\ Informed => StatusTellsOfTheFetch
    <2> SUFFICES ASSUME TypeOK, Sound, Informed, NEW r \in Requests,
                        phase[r] = "content" \/ client[r].from = "backend",
                        ~(fetches[r] > 0 /\ SkipMayTurn(r))
                 PROVE  FetchStatus(r)
                          = IF fetches[r] > 0 THEN "MISS" ELSE "BYPASS"
      BY DEF StatusTellsOfTheFetch, SkipMayTurn
    <2>1. ~CountsAsHit(ctx[r])
      BY DEF Sound, RequestSound, AnsweredOK
    <2>2. fetches[r] > 0
            <=> ctx[r] # NoCtx /\ ctx[r].issued_fetch_subrequest
      BY DEF Informed, Knows, Asked
    <2> QED
      BY <2>1, <2>2 DEF FetchStatus, CountsAsHit
  <1> QED
    BY <1>1, Invariant, SoundInvariant, InformedInvariant, PTL

(* Once a fetch is over its verdict stands: no re-entry of the handler, no  *)
(* late buffer and no second subrequest changes the ctx that holds it, and  *)
(* it is replaced as a whole in two cases only: an internal redirect, and a *)
(* srcache_fetch_skip that turned true since the fetch was issued.          *)
THEOREM VerdictStands == Spec => VerdictIsFinal
  <1> DEFINE Kept(r) ==
        \/ ctx'[r] = ctx[r]
        \/ ctx'[r] = NoCtx /\ phase[r] = "content"
        \/ /\ ctx'[r] = FreshCtx /\ phase[r] = "access"
           /\ SkipMayTurn(r)
             Stands(r) == ctx[r] # NoCtx /\ ctx[r].request_done => Kept(r)
  <1>1. ASSUME TypeOK, Consistent, Informed, [Next]_vars, NEW q \in Requests,
               ctx[q] # NoCtx, ctx[q].request_done
        PROVE  Kept(q)
    <2>1. ~Active(q) /\ phase[q] # "parked"
      BY <1>1 DEF Consistent, RequestConsistent, Parked, WaitsForSubrequest,
                  WaitsForBody
    <2>2. ASSUME NEW r \in Requests, RunPhases(r)
          PROVE  Kept(q)
      <3>1. CASE r # q
        BY <1>1, <2>2, <3>1, AccessAlone
           DEF RunPhases, OthersAlone, OthersUnchanged
      <3>2. CASE r = q
        <4>1. /\ ~ctx[q].request_body_done /\ phase[q] = "access"
              /\ Access(q, ctx[q], request_body[q])
          BY <1>1, <2>2, <3>2 DEF RunPhases, Consistent, RequestConsistent,
                                  Running
        <4>2. /\ Eligible(q) /\ ~conf[q].no_cache /\ conf[q].skip # "always"
              /\ fetches[q] \in 0..2
          BY <1>1, <4>1 DEF TypeOK, Informed, Knows, Asked
        <4>3. ASSUME NEW where, Return(q, where, ctx[q], request_body[q])
              PROVE  Kept(q)
          BY <1>1, <4>3, ReturnAt
        <4>4. CASE AccessSkip(q, ctx[q], request_body[q])
          <5>1. SkipMayTurn(q)
            BY <4>2, <4>4 DEF AccessSkip, SkipsFetch, SkipMayTurn
          <5>2. ctx'[q] = FreshCtx
            BY <1>1, <4>4, ReturnAt DEF AccessSkip
          <5> QED
            BY <4>1, <5>1, <5>2
        <4> QED
          BY <1>1, <4>1, <4>2, <4>3, <4>4
             DEF Access, AccessNoCtx, AccessBypass, AccessNoCache,
                 AccessWait, AccessBodyRead, AccessMiss,
                 AccessHit, AccessPostpone, AccessStoreOnly, AccessFetch,
                 AccessReadBody, Starts
      <3> QED
        BY <3>1, <3>2
    <2>3. ASSUME NEW r \in Requests, WriteEvent(r)
          PROVE  ctx' = ctx
      BY <1>1, <2>3, WriteEventConsistent
    <2>4. ASSUME NEW r \in Requests, PostReadBody(r)
          PROVE  ctx'[q] = ctx[q]
      <3>1. r # q
        BY <2>1, <2>4 DEF PostReadBody
      <3> QED
        BY <1>1, <2>4, <3>1, AccessAlone
           DEF PostReadBody, OthersAlone, OthersUnchanged
    <2>5. ASSUME NEW r \in Requests, SubrequestStep(r)
          PROVE  ctx'[q] = ctx[q]
      <3>1. r # q
        BY <2>1, <2>5 DEF SubrequestStep, SrRedirect, SrHeaderOk,
             SrHeaderOther, SrBodyFilter, SrDiscard, SrStatusLine,
             SrHeaderLine, SrHeaderEnd, SrParseError, SrBodyChunk,
             SrCopyFails, SrLastBuf, NextBuf
      <3> QED
        BY <1>1, <2>5, <3>1, SubrequestStepKeeps DEF OthersUnchanged
    <2>6. ASSUME NEW r \in Requests, NEW rc, PostSubrequest(r, rc)
          PROVE  ctx'[q] = ctx[q]
      BY <1>1, <2>1, <2>6 DEF PostSubrequest, TypeOK
    <2>7. ASSUME NEW r \in Requests,
                 ReadBodyFails(r) \/ Content(r) \/ InternalRedirect(r)
          PROVE  Kept(q)
      BY <1>1, <2>7 DEF ReadBodyFails, Content, InternalRedirect, TypeOK
    <2>8. CASE UNCHANGED vars
      BY <2>8 DEF vars
    <2> HIDE DEF Kept
    <2>9. ctx'[q] = ctx[q] => Kept(q)
      BY DEF Kept
    <2> QED
      BY <1>1, <2>2, <2>3, <2>4, <2>5, <2>6, <2>7, <2>8, <2>9
         DEF Next, BodyEnd, SubrequestEnd, Terminated
  <1>2. TypeOK /\ Consistent /\ Informed /\ [Next]_vars
          => [\A r \in Requests : Stands(r)]_vars
    BY <1>1
  <1>3. [][\A r \in Requests : Stands(r)]_vars => VerdictIsFinal
    BY PTL DEF VerdictIsFinal, SkipMayTurn
  <1> QED
    BY <1>2, <1>3, Invariant, InformedInvariant, PTL DEF Spec

-----------------------------------------------------------------------------
(* The other direction: what a fetch does not throw away.                   *)

(* While the subrequest of an entry with a header of n tokens is answered   *)
(* 200 and nothing was lost for lack of memory, the parser reads exactly    *)
(* the header, and what is left is copied to its last flag.                 *)
Follows(s, c, n) ==
    /\ c.from_cache /\ ~s.ignore_body
    /\ s.parsing_cached_headers <=> s.sent < n
    /\ s.sent < n => (s.process_header = "status_line" <=> s.sent = 0)
    /\ s.ended /\ s.sent > n => s.seen_subreq_eof

Honoured(s, c) ==
    s.status = "200" /\ ~s.oom =>
      \A n \in 2..Len(s.entry) : HeaderEndsAt(s.entry, n) => Follows(s, c, n)

(* A whole entry that ended well, as WholeEntryIsAHit has it.               *)
IsWhole(s) ==
    /\ s.status = "200" /\ s.rc = "OK" /\ s.ended /\ ~s.oom
    /\ \E n \in 2..Len(s.entry) :
         HeaderEndsAt(s.entry, n) /\ (n < Len(s.entry) \/ s.seen_subreq_eof)

HasVerdict(r) == ctx[r] # NoCtx /\ ctx[r].request_done

RequestHonoured(r) ==
    /\ Active(r) => Honoured(sr[r], ctx[r])
    /\ HasVerdict(r) /\ sr[r] # NoSr => (IsWhole(sr[r]) => ctx[r].from_cache)

NothingLost == \A r \in Requests : RequestHonoured(r)

(* What the buffers do to an active subrequest (s, c) that becomes (t, d).  *)
LEMMA ReceivedHonours ==
  ASSUME NEW s \in Subrequests, NEW c \in Ctxs, NEW last \in BOOLEAN,
         Honoured(s, c), Receives(s, last),
         NEW t \in Subrequests, NEW d \in Ctxs,
         t.entry = s.entry, t.sent = s.sent + 1, t.ended = last,
         t.status = s.status, t.ignore_body = s.ignore_body,
         d.from_cache = c.from_cache, ~t.oom => ~s.oom,
         ASSUME NEW n \in 2..Len(s.entry),
                HeaderEndsAt(s.entry, n), Follows(s, c, n), ~t.oom
         PROVE  /\ t.parsing_cached_headers <=> t.sent < n
                /\ t.sent < n => t.process_header # "status_line"
                /\ t.ended /\ t.sent > n => t.seen_subreq_eof
  PROVE  Honoured(t, d)
  <1>1. s.sent \in Nat /\ Len(s.entry) \in Nat
    BY EntryTyped
  <1> QED
    BY <1>1 DEF Honoured, Follows

(* A whole header of n tokens is a status line, header lines and an end.    *)
LEMMA TokenOfHeader ==
  ASSUME NEW s \in Subrequests, NEW c \in Ctxs, NEW n \in 2..Len(s.entry),
         HeaderEndsAt(s.entry, n), Follows(s, c, n), s.sent < n
  PROVE  /\ s.sent = 0 => s.process_header = "status_line"
                          /\ s.entry[s.sent + 1].kind = "status"
         /\ s.sent \in 1..(n - 2) => s.process_header = "header"
                                     /\ s.entry[s.sent + 1].kind = "header"
         /\ s.sent = n - 1 => s.process_header = "header"
                              /\ s.entry[s.sent + 1].kind = "end"
         /\ s.sent \in 0..(n - 1)
  <1>1. s.sent \in Nat /\ Len(s.entry) \in Nat /\ n \in Nat /\ n >= 2
    BY EntryTyped
  <1>2. s.process_header \in {"status_line", "header"}
    BY DEF Subrequests
  <1> QED
    BY <1>1, <1>2 DEF HeaderEndsAt, Follows

(* Each way of a buffer through the filters keeps a whole entry in step.    *)
LEMMA BodyFilterHonours ==
  ASSUME TypeOK, Consistent, NEW r \in Requests, Active(r),
         Honoured(sr[r], ctx[r]), SrBodyFilter(r)
  PROVE  Honoured(sr'[r], ctx'[r])
  <1> DEFINE s == sr[r]
             t == sr'[r]
             c == ctx[r]
             d == ctx'[r]
  <1>0. SubrequestStep(r)
    BY DEF SubrequestStep
  <1>1. /\ s \in Subrequests /\ c \in Ctxs /\ Honoured(s, c)
        /\ t \in Subrequests /\ d \in Ctxs
    BY <1>0, ActiveTyped, SubrequestStepKeeps
       DEF KeepsSubrequest, KeepsCtx
  <1>2. s.sent \in Nat /\ Len(s.entry) \in Nat
    BY <1>1, EntryTyped
  <1>3. ASSUME NEW last \in BOOLEAN, NextBuf(r, last)
        PROVE  /\ Receives(s, last) /\ Token(r) = s.entry[s.sent + 1]
               /\ s.has_ctx
    BY <1>3, CtxIsThere DEF NextBuf, Receives, Token
  <1>4. ASSUME NEW last \in BOOLEAN, SrDiscard(r, last)
        PROVE  Honoured(t, d)
    <2>1. /\ t.entry = s.entry /\ t.status = s.status /\ t.oom = s.oom
          /\ s.ignore_body
      BY <1>1, <1>3, <1>4 DEF SrDiscard, Filters, Consumed, TypeOK, Subrequests
    <2> HIDE DEF s, t, c, d
    <2> QED
      BY <1>1, <2>1 DEF Honoured, Follows
  <1>5. ASSUME NEW last \in BOOLEAN,
               SrStatusLine(r, last) \/ SrHeaderLine(r, last)
        PROVE  Honoured(t, d)
    <2>1. /\ t.entry = s.entry /\ t.sent = s.sent + 1 /\ t.ended = last
          /\ t.status = s.status /\ t.ignore_body = s.ignore_body
          /\ t.oom = s.oom /\ t.parsing_cached_headers
          /\ t.process_header = "header" /\ d = c
      <3>1. CASE SrStatusLine(r, last)
        BY <1>1, <3>1 DEF SrStatusLine, Parses, Filters, Consumed, TypeOK, Subrequests
      <3>2. CASE SrHeaderLine(r, last)
        BY <1>1, <3>2 DEF SrHeaderLine, ParsesHeaderLine, Parses, Filters, Consumed,
                          TypeOK, Subrequests
      <3> QED
        BY <1>5, <3>1, <3>2
    <2>2. /\ Receives(s, last) /\ s.parsing_cached_headers
          /\ s.entry[s.sent + 1].kind \in {"status", "header"}
      BY <1>3, <1>5 DEF SrStatusLine, SrHeaderLine, ParsesHeaderLine,
                        ParsesStatusLine, Parses, Filters
    <2>3. ASSUME NEW n \in 2..Len(s.entry),
                 HeaderEndsAt(s.entry, n), Follows(s, c, n)
          PROVE  t.sent < n
      <3>1. s.sent < n
        BY <2>2, <2>3 DEF Follows
      <3>2. s.sent # n - 1 /\ s.sent \in 0..(n - 1)
        <4> HIDE DEF s, c
        <4> QED
          BY <1>1, <2>2, <2>3, <3>1, TokenOfHeader
      <3> QED
        BY <1>2, <2>1, <3>1, <3>2
    <2> HIDE DEF s, t, c, d
    <2>4. ASSUME NEW n \in 2..Len(s.entry),
                 HeaderEndsAt(s.entry, n), Follows(s, c, n)
          PROVE  /\ t.parsing_cached_headers <=> t.sent < n
                 /\ t.sent < n => t.process_header # "status_line"
                 /\ t.ended /\ t.sent > n => t.seen_subreq_eof
      BY <1>2, <2>1, <2>3, <2>4
    <2> QED
      BY <1>1, <2>1, <2>2, <2>4, ReceivedHonours
  <1>6. ASSUME NEW last \in BOOLEAN, SrHeaderEnd(r, last)
        PROVE  Honoured(t, d)
    <2>1. /\ t.entry = s.entry /\ t.sent = s.sent + 1 /\ t.ended = last
          /\ t.status = s.status /\ t.ignore_body = s.ignore_body
          /\ t.oom = s.oom /\ ~t.parsing_cached_headers /\ d = c
      BY <1>1, <1>6 DEF SrHeaderEnd, HeaderDone, Consumed, TypeOK, Subrequests
    <2>2. /\ Receives(s, last) /\ s.parsing_cached_headers
          /\ s.entry[s.sent + 1].kind = "end"
      BY <1>3, <1>6 DEF SrHeaderEnd, ParsesHeaderEnd, Parses, Filters
    <2>3. ASSUME NEW n \in 2..Len(s.entry),
                 HeaderEndsAt(s.entry, n), Follows(s, c, n)
          PROVE  t.sent = n
      <3>1. s.sent < n
        BY <2>2, <2>3 DEF Follows
      <3>2. s.sent # 0 /\ s.sent \notin 1..(n - 2) /\ s.sent \in 0..(n - 1)
        <4> HIDE DEF s, c
        <4> QED
          BY <1>1, <2>2, <2>3, <3>1, TokenOfHeader
      <3> QED
        BY <1>2, <2>1, <3>2
    <2> HIDE DEF s, t, c, d
    <2>4. ASSUME NEW n \in 2..Len(s.entry),
                 HeaderEndsAt(s.entry, n), Follows(s, c, n)
          PROVE  /\ t.parsing_cached_headers <=> t.sent < n
                 /\ t.sent < n => t.process_header # "status_line"
                 /\ t.ended /\ t.sent > n => t.seen_subreq_eof
      BY <1>2, <2>1, <2>3, <2>4
    <2> QED
      BY <1>1, <2>1, <2>2, <2>4, ReceivedHonours
  <1>7. ASSUME NEW last \in BOOLEAN, SrParseError(r, last)
        PROVE  Honoured(t, d)
    <2>1. /\ t.entry = s.entry /\ t.status = s.status
          /\ t.oom = (ParsesStatusLine(r) \/ ParsesHeaderLine(r))
      BY <1>1, <1>7 DEF SrParseError, Consumed, TypeOK, Subrequests
    <2>2. /\ Receives(s, last) /\ s.parsing_cached_headers /\ ~s.oom
          /\ ~ParsesHeaderEnd(r)
      BY <1>3, <1>7 DEF SrParseError, Parses, Filters, Receives, FilterFailed
    <2>3. ASSUME NEW n \in 2..Len(s.entry),
                 HeaderEndsAt(s.entry, n), Follows(s, c, n)
          PROVE  t.oom
      <3>1. s.sent < n
        BY <2>2, <2>3 DEF Follows
      <3>2. \/ s.process_header = "status_line"
               /\ s.entry[s.sent + 1].kind = "status"
            \/ s.process_header = "header"
               /\ s.entry[s.sent + 1].kind \in {"header", "end"}
        <4> HIDE DEF s, c
        <4> QED
          BY <1>1, <1>2, <2>3, <3>1, TokenOfHeader
      <3> QED
        BY <2>1, <2>2, <3>2
           DEF ParsesStatusLine, ParsesHeaderLine, ParsesHeaderEnd, Token
    <2> HIDE DEF s, t, c, d
    <2>4. SUFFICES ASSUME t.status = "200", ~t.oom,
                          NEW n \in 2..Len(t.entry), HeaderEndsAt(t.entry, n)
                   PROVE  FALSE
      BY DEF Honoured
    <2>5. n \in 2..Len(s.entry) /\ HeaderEndsAt(s.entry, n)
      BY <2>1, <2>4
    <2>6. Follows(s, c, n)
      BY <1>1, <2>1, <2>2, <2>4, <2>5 DEF Honoured
    <2> QED
      BY <2>3, <2>4, <2>5, <2>6
  <1>8. ASSUME NEW last \in BOOLEAN,
               SrBodyChunk(r, last) \/ SrCopyFails(r, last)
        PROVE  Honoured(t, d)
    <2>1. /\ t.entry = s.entry /\ t.sent = s.sent + 1 /\ t.ended = last
          /\ t.status = s.status /\ t.ignore_body = s.ignore_body
          /\ t.parsing_cached_headers = s.parsing_cached_headers
          /\ ~t.oom =>
               ~s.oom /\ t.seen_subreq_eof = (s.seen_subreq_eof \/ last)
          /\ d.from_cache = c.from_cache
      <3>1. CASE SrBodyChunk(r, last)
        BY <1>1, <3>1 DEF SrBodyChunk, Consumed, TypeOK, Subrequests, Ctxs
      <3>2. CASE SrCopyFails(r, last)
        BY <1>1, <3>2 DEF SrCopyFails, Consumed, TypeOK, Subrequests
      <3> QED
        BY <1>8, <3>1, <3>2
    <2>2. Receives(s, last) /\ ~s.parsing_cached_headers
      BY <1>3, <1>8 DEF SrBodyChunk, SrCopyFails, Copies, Filters
    <2> HIDE DEF s, t, c, d
    <2>3. ASSUME NEW n \in 2..Len(s.entry),
                 HeaderEndsAt(s.entry, n), Follows(s, c, n), ~t.oom
          PROVE  /\ t.parsing_cached_headers <=> t.sent < n
                 /\ t.sent < n => t.process_header # "status_line"
                 /\ t.ended /\ t.sent > n => t.seen_subreq_eof
      <3>1. ~(s.sent < n) /\ n \in Nat
        BY <2>2, <2>3 DEF Follows
      <3> QED
        BY <1>2, <2>1, <2>2, <2>3, <3>1
    <2> QED
      BY <1>1, <2>1, <2>2, <2>3, ReceivedHonours
  <1>9. ASSUME SrLastBuf(r)
        PROVE  Honoured(t, d)
    <2>1. /\ t.entry = s.entry /\ t.sent = s.sent /\ t.status = s.status
          /\ t.ignore_body = s.ignore_body /\ t.oom = s.oom
          /\ t.process_header = s.process_header
          /\ t.parsing_cached_headers = s.parsing_cached_headers
          /\ ~s.ignore_body /\ ~s.parsing_cached_headers
               => t.seen_subreq_eof
      <3> DEFINE x == s.seen_subreq_eof \/ SpecialBufIsSeen(r)
      <3>1. t = [s EXCEPT !.ended = TRUE, !.seen_subreq_eof = x]
        BY <1>9 DEF SrLastBuf, TypeOK
      <3>2. ~s.ignore_body /\ ~s.parsing_cached_headers => x
        BY <1>9, CtxIsThere DEF SrLastBuf, SpecialBufIsSeen, Copies, Filters
      <3> HIDE DEF s, t, x
      <3> QED
        BY <1>1, <3>1, <3>2 DEF Subrequests
    <2>2. d.from_cache = c.from_cache
      BY <1>1, <1>9 DEF SrLastBuf, TypeOK, Ctxs
    <2> HIDE DEF s, t, c, d
    <2>3. SUFFICES ASSUME t.status = "200", ~t.oom,
                          NEW n \in 2..Len(t.entry), HeaderEndsAt(t.entry, n)
                   PROVE  Follows(t, d, n)
      BY DEF Honoured
    <2>4. n \in 2..Len(s.entry) /\ HeaderEndsAt(s.entry, n) /\ n \in Nat
      BY <2>1, <2>3
    <2>5. Follows(s, c, n)
      BY <1>1, <2>1, <2>3, <2>4 DEF Honoured
    <2>6. t.ended /\ t.sent > n => t.seen_subreq_eof
      BY <1>2, <2>1, <2>4, <2>5 DEF Follows
    <2> QED
      BY <2>1, <2>2, <2>5, <2>6 DEF Follows
  <1> QED
    BY <1>4, <1>5, <1>6, <1>7, <1>8, <1>9 DEF SrBodyFilter

(* So does its header filter, from which on there is something to lose.     *)
LEMMA SubrequestStepHonours ==
  ASSUME TypeOK, Consistent, NEW r \in Requests, FetchOK(r),
         RequestHonoured(r), SubrequestStep(r)
  PROVE  RequestHonoured(r)'
  <1> DEFINE s == sr[r]
             t == sr'[r]
             c == ctx[r]
             d == ctx'[r]
  <1>0. Active(r)
    BY DEF SubrequestStep, SrRedirect, SrHeaderOk, SrHeaderOther,
           SrBodyFilter, SrDiscard, SrStatusLine, SrHeaderLine, SrHeaderEnd,
           SrParseError, SrBodyChunk, SrCopyFails, SrLastBuf, NextBuf
  <1>1. /\ s \in Subrequests /\ c \in Ctxs /\ d \in Ctxs
        /\ Replaying(s, c) /\ Honoured(s, c)
        /\ d.request_done = c.request_done
    BY <1>0, ActiveTyped, SubrequestStepKeeps
       DEF FetchOK, RequestHonoured, KeepsCtx
  <1>2. ~c.request_done
    BY <1>0 DEF Consistent, RequestConsistent, Parked, WaitsForSubrequest,
                WaitsForBody
  <1>3. CASE SrRedirect(r)
    <2>1. /\ t.entry = s.entry /\ t.sent = s.sent /\ t.ended = s.ended
          /\ t.status = s.status /\ t.ignore_body = s.ignore_body
          /\ t.oom = s.oom /\ t.process_header = s.process_header
          /\ t.parsing_cached_headers = s.parsing_cached_headers
          /\ t.seen_subreq_eof = s.seen_subreq_eof /\ d = c
      BY <1>1, <1>3 DEF SrRedirect, TypeOK, Subrequests
    <2> HIDE DEF s, t, c, d
    <2>2. Honoured(t, d)
      BY <1>1, <2>1 DEF Honoured, Follows
    <2> QED
      BY <1>1, <1>2, <2>2 DEF RequestHonoured, HasVerdict, t, d
  <1>4. CASE SrHeaderOk(r)
    <2>1. /\ t.entry = s.entry /\ t.sent = s.sent /\ t.ended = s.ended
          /\ t.process_header = s.process_header
          /\ t.parsing_cached_headers /\ t.ignore_body = s.ignore_body
          /\ d.from_cache /\ s.status = "none"
      BY <1>0, <1>1, <1>4, CtxIsThere
         DEF SrHeaderOk, Resumed, TypeOK, Subrequests, Ctxs
    <2>2. /\ s.sent = 0 /\ s.process_header = "status_line"
          /\ ~s.ignore_body /\ ~s.ended
      BY <1>1, <2>1 DEF Replaying, Untouched
    <2> HIDE DEF s, t, c, d
    <2>3. Honoured(t, d)
      BY <2>1, <2>2 DEF Honoured, Follows
    <2> QED
      BY <1>1, <1>2, <2>3 DEF RequestHonoured, HasVerdict, t, d
  <1>5. ASSUME NEW status \in {"2xx", "special"}, SrHeaderOther(r, status)
        PROVE  RequestHonoured(r)'
    <2>1. t.status # "200"
      BY <1>1, <1>5 DEF SrHeaderOther, Resumed, TypeOK, Subrequests
    <2> HIDE DEF s, t, c, d
    <2> QED
      BY <1>1, <1>2, <2>1 DEF RequestHonoured, HasVerdict, Honoured, t, d
  <1>6. CASE SrBodyFilter(r)
    BY <1>0, <1>1, <1>2, <1>6, BodyFilterHonours
       DEF RequestHonoured, HasVerdict
  <1> QED
    BY <1>3, <1>4, <1>5, <1>6 DEF SubrequestStep

(* The completion handler does not reject a whole entry.                    *)
LEMMA PostSubrequestHonours ==
  ASSUME TypeOK, Consistent, NEW r \in Requests, FetchOK(r),
         RequestHonoured(r),
         NEW rc \in {"OK", "ERROR", "special"}, PostSubrequest(r, rc)
  PROVE  RequestHonoured(r)'
  <1> DEFINE s == sr[r]
             t == sr'[r]
             c == ctx[r]
             d == ctx'[r]
  <1>1. /\ s \in Subrequests /\ c \in Ctxs
        /\ Replaying(s, c) /\ Honoured(s, c)
    BY ActiveTyped DEF FetchOK, RequestHonoured, PostSubrequest
  <1>2. /\ ~t.active /\ t.entry = s.entry /\ t.sent = s.sent /\ t.rc = rc
        /\ t.status = s.status /\ t.ended = s.ended /\ t.oom = s.oom
        /\ t.seen_subreq_eof = s.seen_subreq_eof
    BY <1>1 DEF PostSubrequest, TypeOK, Subrequests
  <1>3. d.from_cache = (c.from_cache /\ ~Rejected(s, rc))
    BY <1>1 DEF PostSubrequest, Completed, TypeOK, Ctxs
  <1>4. ASSUME IsWhole(t)
        PROVE  d.from_cache
    <2>1. PICK n \in 2..Len(s.entry) :
            /\ HeaderEndsAt(s.entry, n)
            /\ n < Len(s.entry) \/ s.seen_subreq_eof
      BY <1>2, <1>4 DEF IsWhole
    <2>2. /\ s.status = "200" /\ rc = "OK" /\ s.ended /\ ~s.oom
      BY <1>2, <1>4 DEF IsWhole
    <2>3. Follows(s, c, n) /\ s.sent = Len(s.entry)
      BY <1>1, <2>1, <2>2 DEF Honoured, Replaying
    <2>4. s.sent \in Nat /\ n \in Nat /\ n <= s.sent
      BY <1>1, <2>1, <2>3, EntryTyped
    <2>5. ~s.parsing_cached_headers /\ s.seen_subreq_eof /\ c.from_cache
      BY <2>1, <2>2, <2>3, <2>4 DEF Follows
    <2> QED
      BY <1>3, <2>2, <2>5 DEF Rejected
  <1>5. ~Active(r)'
    BY <1>2 DEF Active
  <1> QED
    BY <1>4, <1>5 DEF RequestHonoured

(* Nothing is decided for r, and no cached response has begun.              *)
Undecided(r) == ~HasVerdict(r) /\ (Active(r) => sr[r].status = "none")

(* Issuing a fetch decides nothing.                                         *)
LEMMA FetchSubrequestDecidesNothing ==
  ASSUME TypeOK, NEW r \in Requests, NEW c \in Ctxs, NEW b,
         FetchSubrequest(r, c, b), ~Active(r), ~c.request_done
  PROVE  Undecided(r)'
  <1>1. CASE Return(r, "closed", c, b) /\ UnchangedFetch
    BY <1>1, ReturnAt DEF UnchangedFetch, Undecided, HasVerdict, Active
  <1>2. ASSUME NEW e \in Entries,
               sr' = [sr EXCEPT ![r] = NewSubrequest(e)],
               Return(r, "parked", Issued(c), b)
        PROVE  Undecided(r)'
    <2> DEFINE d == Issued(c)
    <2>1. ~d.request_done
      BY DEF Issued, Ctxs
    <2>2. ctx'[r] = d /\ sr'[r] = NewSubrequest(e)
      BY <1>2, ReturnAt DEF TypeOK
    <2>3. sr'[r].status = "none"
      BY <2>2 DEF NewSubrequest
    <2> HIDE DEF d
    <2> QED
      BY <2>1, <2>2, <2>3 DEF Undecided, HasVerdict, Active
  <1> QED
    BY <1>1, <1>2 DEF FetchSubrequest

(* The access handler keeps the verdict it finds, or has none.              *)
LEMMA AccessDecidesNothing ==
  ASSUME TypeOK, NEW r \in Requests, NEW c \in Ctxs \cup {NoCtx}, NEW b,
         Enters(r, c, b), Access(r, c, b)
  PROVE  Undecided(r)' \/ (ctx'[r] = c /\ sr'[r] = sr[r])
  <1>0. ~Active(r)
    BY DEF Enters
  <1>1. FreshCtx \in Ctxs /\ ~FreshCtx.request_done
    BY FreshTyped DEF FreshCtx
  <1>2. ASSUME c # NoCtx => ~c.request_done
        PROVE  /\ OrFresh(c) \in Ctxs /\ ~OrFresh(c).request_done
               /\ ~BodyPending(OrFresh(c)).request_done
    <2>1. OrFresh(c) \in Ctxs /\ ~OrFresh(c).request_done
      BY <1>1, <1>2 DEF OrFresh
    <2> QED
      BY <2>1 DEF BodyPending, Ctxs
  <1>3. CASE AccessBodyRead(r, c, b)
    <2>1. c \in Ctxs /\ ~c.request_done
      BY <1>3 DEF AccessBodyRead, Enters
    <2>2. BodyTaken(c) \in Ctxs /\ ~BodyTaken(c).request_done
      BY <2>1 DEF BodyTaken, Ctxs
    <2> QED
      BY <1>0, <1>3, <2>2, FetchSubrequestDecidesNothing DEF AccessBodyRead
  <1>4. CASE AccessFetch(r, c, b)
    <2>1. OrFresh(c) \in Ctxs /\ ~OrFresh(c).request_done
      BY <1>2, <1>4 DEF AccessFetch, Starts
    <2> QED
      BY <1>0, <1>4, <2>1, FetchSubrequestDecidesNothing DEF AccessFetch
  <1>5. CASE \/ AccessPostpone(r, c, b) \/ AccessStoreOnly(r, c, b)
             \/ AccessReadBody(r, c, b)
    <2>1. c # NoCtx => ~c.request_done
      BY <1>5 DEF AccessPostpone, AccessStoreOnly, AccessReadBody, Starts
    <2>2. /\ ctx'[r] \in {OrFresh(c), BodyPending(OrFresh(c))}
          /\ sr'[r] = sr[r]
      <3>1. CASE AccessPostpone(r, c, b)
        BY <3>1, ReturnAt DEF AccessPostpone, UnchangedFetch
      <3>2. CASE AccessStoreOnly(r, c, b)
        BY <3>2, ReturnAt DEF AccessStoreOnly, UnchangedFetch
      <3>3. CASE AccessReadBody(r, c, b)
        BY <3>3, ReturnAt DEF AccessReadBody, UnchangedFetch
      <3> QED
        BY <1>5, <3>1, <3>2, <3>3
    <2>3. ~ctx'[r].request_done
      BY <1>2, <2>1, <2>2
    <2> QED
      BY <1>0, <2>2, <2>3 DEF Undecided, HasVerdict, Active
  <1>6. CASE \/ AccessNoCtx(r, c, b) \/ AccessBypass(r, c, b)
             \/ AccessNoCache(r, c, b) \/ AccessSkip(r, c, b)
             \/ AccessWait(r, c, b) \/ AccessMiss(r, c, b)
             \/ AccessHit(r, c, b)
    <2>1. UnchangedFetch
      BY <1>6
         DEF AccessNoCtx, AccessBypass, AccessNoCache, AccessSkip, AccessWait,
             AccessMiss, AccessHit, UnchangedOthers
    <2>2. ctx'[r] \in {c, FreshCtx}
      <3>1. CASE AccessNoCache(r, c, b) \/ AccessSkip(r, c, b)
        BY <3>1, ReturnAt DEF AccessNoCache, AccessSkip
      <3>2. CASE AccessMiss(r, c, b) \/ AccessHit(r, c, b)
        BY <3>2, ReturnAt DEF AccessMiss, AccessHit
      <3>3. CASE \/ AccessNoCtx(r, c, b) \/ AccessBypass(r, c, b)
                 \/ AccessWait(r, c, b)
        BY <3>3, ReturnAt DEF AccessNoCtx, AccessBypass, AccessWait
      <3> QED
        BY <1>6, <3>1, <3>2, <3>3
    <2> QED
      BY <1>0, <1>1, <2>1, <2>2
         DEF UnchangedFetch, Undecided, HasVerdict, Active
  <1> QED
    BY <1>3, <1>4, <1>5, <1>6 DEF Access

(* Every step of the system leaves r's fetch alone, is one of its           *)
(* subrequest, or decides nothing.                                          *)
LEMMA FetchIsMovedBy ==
  ASSUME TypeOK, Consistent, [Next]_vars, NEW q \in Requests
  PROVE  \/ ctx'[q] = ctx[q] /\ sr'[q] = sr[q]
         \/ SubrequestStep(q) \/ SubrequestEnd(q)
         \/ Undecided(q)'
  <1>1. ASSUME NEW r \in Requests, r # q, OthersUnchanged(r)
        PROVE  ctx'[q] = ctx[q] /\ sr'[q] = sr[q]
    BY <1>1 DEF OthersUnchanged
  <1>2. ASSUME NEW r \in Requests, RunPhases(r)
        PROVE  \/ ctx'[q] = ctx[q] /\ sr'[q] = sr[q]
               \/ Undecided(q)'
    <2>1. CASE r # q
      BY <1>1, <1>2, <2>1, AccessAlone DEF RunPhases, OthersAlone
    <2>2. CASE r = q
      <3>1. Enters(q, ctx[q], request_body[q]) /\ ctx[q] \in Ctxs \cup {NoCtx}
        BY <1>2, <2>2 DEF RunPhases, Consistent, RequestConsistent, Running,
                          Fetches, Enters, TypeOK
      <3> QED
        BY <1>2, <2>2, <3>1, AccessDecidesNothing DEF RunPhases
    <2> QED
      BY <2>1, <2>2
  <1>3. ASSUME NEW r \in Requests, WriteEvent(r)
        PROVE  ctx'[q] = ctx[q] /\ sr'[q] = sr[q]
    BY <1>3, WriteEventConsistent
  <1>4. ASSUME NEW r \in Requests, PostReadBody(r)
        PROVE  \/ ctx'[q] = ctx[q] /\ sr'[q] = sr[q]
               \/ Undecided(q)'
    <2>1. CASE r # q
      BY <1>1, <1>4, <2>1, AccessAlone DEF PostReadBody, OthersAlone
    <2>2. CASE r = q
      <3>1. WaitsForBody(q) /\ ctx[q] \in Ctxs
        BY <1>4, <2>2 DEF PostReadBody, Consistent, RequestConsistent, Parked,
                          WaitsForSubrequest, WaitsForBody, TypeOK
      <3> DEFINE d == [ctx[q] EXCEPT !.request_body_done = TRUE,
                                     !.waiting_request_body = FALSE]
      <3>2. d \in Ctxs /\ ~Waiting(d) /\ ~d.request_done
        BY <3>1 DEF Ctxs, WaitsForBody, Waiting
      <3>3. Enters(q, d, "read") /\ ~Active(q) /\ Access(q, d, "read")
        BY <1>4, <2>2, <3>1, <3>2 DEF Enters, WaitsForBody, PostReadBody
      <3> HIDE DEF d
      <3>4. Undecided(q)' \/ (ctx'[q] = d /\ sr'[q] = sr[q])
        BY <3>2, <3>3, AccessDecidesNothing
      <3> QED
        BY <3>2, <3>3, <3>4 DEF Undecided, HasVerdict, Active
    <2> QED
      BY <2>1, <2>2
  <1>5. ASSUME NEW r \in Requests, SubrequestStep(r)
        PROVE  SubrequestStep(q) \/ (ctx'[q] = ctx[q] /\ sr'[q] = sr[q])
    BY <1>1, <1>5, SubrequestStepKeeps
  <1>6. ASSUME NEW r \in Requests, SubrequestEnd(r)
        PROVE  SubrequestEnd(q) \/ (ctx'[q] = ctx[q] /\ sr'[q] = sr[q])
    <2>1. CASE r = q
      BY <1>6, <2>1
    <2>2. ASSUME NEW rc, PostSubrequest(r, rc), r # q
          PROVE  ctx'[q] = ctx[q] /\ sr'[q] = sr[q]
      BY <2>2 DEF PostSubrequest, TypeOK
    <2> QED
      BY <1>6, <2>1, <2>2 DEF SubrequestEnd
  <1>7. ASSUME NEW r \in Requests,
               ReadBodyFails(r) \/ Content(r) \/ InternalRedirect(r)
        PROVE  \/ ctx'[q] = ctx[q] /\ sr'[q] = sr[q]
               \/ Undecided(q)'
    <2>1. CASE ReadBodyFails(r) \/ Content(r)
      BY <2>1 DEF ReadBodyFails, Content
    <2>2. CASE InternalRedirect(r) /\ r # q
      BY <2>2 DEF InternalRedirect, TypeOK
    <2>3. CASE InternalRedirect(r) /\ r = q
      <3>1. ctx'[q] = NoCtx /\ sr'[q] = sr[q] /\ ~Active(q)
        BY <2>3 DEF InternalRedirect, TypeOK, Consistent, RequestConsistent
      <3> QED
        BY <3>1 DEF Undecided, HasVerdict, Active
    <2> QED
      BY <1>7, <2>1, <2>2, <2>3
  <1>8. CASE UNCHANGED vars
    BY <1>8 DEF vars
  <1> QED
    BY <1>2, <1>3, <1>4, <1>5, <1>6, <1>7, <1>8
       DEF Next, BodyEnd, Terminated

(* A whole entry is kept up through every step.                             *)
LEMMA NothingLostStep ==
  ASSUME TypeOK, Consistent, Sound, NothingLost, [Next]_vars
  PROVE  NothingLost'
  <1> SUFFICES ASSUME NEW q \in Requests PROVE RequestHonoured(q)'
    BY DEF NothingLost
  <1>1. FetchOK(q) /\ RequestHonoured(q)
    BY DEF Sound, RequestSound, NothingLost
  <1>2. CASE ctx'[q] = ctx[q] /\ sr'[q] = sr[q]
    BY <1>1, <1>2 DEF RequestHonoured, HasVerdict, Active
  <1>3. CASE SubrequestStep(q)
    BY <1>1, <1>3, SubrequestStepHonours
  <1>4. CASE SubrequestEnd(q)
    BY <1>1, <1>4, PostSubrequestHonours DEF SubrequestEnd
  <1>5. CASE Undecided(q)'
    BY <1>5 DEF Undecided, RequestHonoured, Honoured
  <1> QED
    BY <1>2, <1>3, <1>4, <1>5, FetchIsMovedBy

(* A whole, well-formed entry that the fetch location sent to its end is a  *)
(* hit, whatever else happened to the request, in whatever buffers it came: *)
(* the filters lose nothing but for lack of memory, save the last flag on   *)
(* the buffer that ends the header.                                         *)
THEOREM WholeEntriesAreHits == Spec => []WholeEntryIsAHit
  <1>1. Init => NothingLost
    <2> SUFFICES ASSUME Init, NEW r \in Requests PROVE RequestHonoured(r)
      BY DEF NothingLost
    <2> QED
      BY DEF Init, RequestHonoured, HasVerdict, Active
  <1>2. TypeOK /\ Consistent /\ Sound /\ NothingLost /\ [Next]_vars
          => NothingLost'
    BY NothingLostStep
  <1>3. NothingLost => WholeEntryIsAHit
    BY DEF NothingLost, RequestHonoured, HasVerdict, IsWhole, WholeEntryIsAHit
  <1> QED
    BY <1>1, <1>2, <1>3, Invariant, SoundInvariant, PTL DEF Spec
=============================================================================

------------------------- MODULE SrcacheSubrequest -------------------------
(***************************************************************************)
(* The request headers of a subrequest.  ngx_http_subrequest copies the    *)
(* structure headers_in of the parent, and with it a list of parts whose   *)
(* first part lies in that structure: elements and later parts are shared, *)
(* the pointer to the last part still points into the parent.              *)
(* ngx_http_srcache_adjust_subrequest mends that, and for a subrequest     *)
(* with a body ngx_http_srcache_set_content_length_header makes a list of  *)
(* its own.                                                                *)
(*                                                                         *)
(* A part is named by the request in whose structure it lies, or is one of *)
(* SpareParts; an array of elements has the name of the part that it was   *)
(* allocated for.  A header is a name and whose value it has.              *)
(***************************************************************************)
EXTENDS Integers, Sequences, FiniteSets, SequencesExt

CONSTANTS
    Parents,      \* header lists of a main request
    Methods,      \* methods in the directives
    Pushes,       \* headers a module may add to the request it is run for
    NAlloc,       \* elements of a part
    SpareParts,   \* bound on the parts allocated later
    MaxPushes     \* bound on the headers added later

Main == "main"
Subrequests == {"fetch", "store"}
Requests == {Main} \cup Subrequests

Null == "null"

Headers == [name : STRING, of : STRING]

Parts == Requests \cup ToSet(SpareParts)

\* The methods ngx_http_srcache_parse_method_name knows.
KnownMethods ==
    {"GET", "PUT", "POST", "HEAD", "COPY", "MOVE", "LOCK", "MKCOL", "TRACE",
     "DELETE", "UNLOCK", "OPTIONS", "PROPFIND", "PROPPATCH"}

ASSUME BoundsAssumption == NAlloc \in Nat \ {0} /\ MaxPushes \in Nat
ASSUME PartsAssumption ==
    /\ SpareParts \in Seq(STRING) /\ IsInjective(SpareParts)
    /\ ToSet(SpareParts) \cap (Requests \cup {Null}) = {}
ASSUME HeadersAssumption == Parents \subseteq Seq(Headers) /\ Pushes \subseteq Headers
ASSUME MethodsAssumption == Methods \subseteq STRING

VARIABLES
    conf,     \* the methods of srcache_fetch and srcache_store
    parts,    \* nelts, next and the array of each part
    arrays,
    last,     \* headers_in.headers.last of each request
    heap,     \* how many of SpareParts are allocated
    state,    \* "none", "created", "forwarding", "running" or "ended"
    method, request_body, content_length_n,
    at, i,    \* where the scan of the parent's headers is
    ctx,      \* requests with a ctx of this module
    said,     \* history: the headers each request should have
    shares,   \* history: a subrequest's list ends in the parent's memory
    pushes

list == <<parts, arrays, last, heap>>
set_up == <<method, request_body, content_length_n>>
scan == <<at, i>>
subrequest_vars == <<conf, list, state, set_up, scan, ctx, said, shares, pushes>>

-----------------------------------------------------------------------------
(* ngx_list_t                                                               *)

Part(array, n) == [elts |-> array, nelts |-> n, next |-> Null]

Blank == [k \in 1..NAlloc |-> Null]

(* The headers of a list, from its first part on.                           *)
Elements(r) ==
    LET From[p \in Parts \cup {Null}] ==
            IF p = Null THEN <<>>
            ELSE SubSeq(arrays[parts[p].elts], 1, parts[p].nelts)
                 \o From[parts[p].next]
    IN  From[r]

(* ngx_list_push                                                            *)
PushToLast(r, h) ==
    LET p == last[r] IN
    /\ parts[p].nelts < NAlloc
    /\ arrays' = [arrays EXCEPT ![parts[p].elts][parts[p].nelts + 1] = h]
    /\ parts' = [parts EXCEPT ![p].nelts = @ + 1]
    /\ UNCHANGED <<last, heap>>

PushToNewPart(r, h) ==
    LET p == last[r]  new == SpareParts[heap + 1] IN
    /\ parts[p].nelts = NAlloc /\ heap < Len(SpareParts)
    /\ heap' = heap + 1 /\ last' = [last EXCEPT ![r] = new]
    /\ parts' = [parts EXCEPT ![p].next = new, ![new] = Part(new, 1)]
    /\ arrays' = [arrays EXCEPT ![new] = [Blank EXCEPT ![1] = h]]

ListPush(r, h) == PushToLast(r, h) \/ PushToNewPart(r, h)

-----------------------------------------------------------------------------
(* ngx_http_srcache_parse_method_name, when the directive is read.          *)
ParseMethodName(name) == IF name \in KnownMethods THEN name ELSE Null

Named == { m \in Methods : ParseMethodName(m) # Null }

(* A main request with few headers: what is more is pushed later.           *)
SubrequestInit ==
    /\ conf \in [Subrequests -> Named]
    /\ \E headers \in Parents :
           /\ Len(headers) <= NAlloc
           /\ arrays = [p \in Parts |-> IF p = Main THEN headers \o SubSeq(
                            Blank, 1, NAlloc - Len(headers)) ELSE Blank]
           /\ parts = [p \in Parts |->
                          Part(p, IF p = Main THEN Len(headers) ELSE 0)]
           /\ said = [r \in Requests |-> IF r = Main THEN headers ELSE <<>>]
    /\ last = [r \in Requests |-> r] /\ heap = 0
    /\ state = [r \in Requests |-> IF r = Main THEN "running" ELSE "none"]
    /\ method = [r \in Requests |-> "GET"]
    /\ request_body = [r \in Requests |-> Main]
    /\ content_length_n = [r \in Requests |-> Main]
    /\ at = Main /\ i = 1 /\ ctx = {Main} /\ shares = FALSE /\ pushes = 0

(* A request that is run, while no call of this module is going on.  The    *)
(* main request is not run while it waits for its fetch.                    *)
Quiet == \A r \in Requests : state[r] \notin {"created", "forwarding"}

IsRun(r) ==
    /\ Quiet /\ state[r] = "running"
    /\ r = Main => state["fetch"] # "running"

(* Some module adds a request header in the request it is run for.          *)
AddHeader(r, h) ==
    /\ IsRun(r) /\ pushes < MaxPushes /\ ListPush(r, h)
    /\ said' = [said EXCEPT ![r] = Append(@, h)]
    /\ pushes' = pushes + 1
    /\ UNCHANGED <<conf, state, set_up, scan, ctx, shares>>

-----------------------------------------------------------------------------
(* ngx_http_srcache_fetch_subrequest, ngx_http_srcache_store_subrequest     *)

IsLength(h) == h.name = "Content-Length"

OwnLength == [name |-> "Content-Length", of |-> "store"]

(* Faulty: the parent's length is forwarded as well.                        *)
Forwards_All(h) == TRUE

Forwards(h) == ~IsLength(h)

WithoutLength(headers) ==
    LET From[k \in 1..(Len(headers) + 1)] ==
            IF k = Len(headers) + 1 THEN <<>>
            ELSE (IF IsLength(headers[k]) THEN <<>> ELSE <<headers[k]>>)
                 \o From[k + 1]
    IN  From[1]

(* The headers a subrequest should have.                                    *)
Due(r) ==
    IF r = "fetch" THEN Elements(Main)
    ELSE <<OwnLength>> \o WithoutLength(Elements(Main))

(* ngx_http_subrequest, with its copy of the structure.                     *)
Create(r) ==
    /\ IsRun(Main) /\ state[r] = "none"
    /\ r = "fetch" => state["store"] = "none"
    /\ state' = [state EXCEPT ![r] = "created"]
    /\ parts' = [parts EXCEPT ![r] = parts[Main]]
    /\ last' = [last EXCEPT ![r] = last[Main]]
    /\ said' = [said EXCEPT ![r] = Due(r)]
    /\ shares' = (shares \/ (r = "fetch" /\ last[Main] # Main))
    /\ UNCHANGED <<conf, arrays, heap, set_up, scan, ctx, pushes>>

(* No location, no memory, an unsafe location: nothing is created.          *)
NotCreated(r) ==
    /\ IsRun(Main) /\ state[r] = "none"
    /\ r = "fetch" => state["store"] = "none"
    /\ state' = [q \in Requests |->
           IF q = r \/ r = "fetch" THEN "ended" ELSE state[q]]
    /\ UNCHANGED <<conf, list, set_up, scan, ctx, said, shares, pushes>>

(* Faulty: the pointer to the last part stays as it was copied.             *)
OwnLast_Copied(r) == last[r]

(* The work-around.                                                         *)
OwnLast(r) == IF last[Main] = Main THEN r ELSE last[r]

WithMethod(r) == method' = [method EXCEPT ![r] = conf[r]]

(* ngx_http_srcache_adjust_subrequest without a body; then the ctx is set.  *)
AdjustFetch ==
    /\ state["fetch"] = "created"
    /\ WithMethod("fetch")
    /\ last' = [last EXCEPT !["fetch"] = OwnLast("fetch")]
    /\ state' = [state EXCEPT !["fetch"] = "running"]
    /\ ctx' = ctx \cup {"fetch"}
    /\ UNCHANGED <<conf, parts, arrays, heap, request_body, content_length_n,
                   scan, said, shares, pushes>>

(* With a body: ngx_list_init, and the length of the body.  That these have *)
(* no memory ends like NoElement, before the first header.                  *)
AdjustStore ==
    /\ state["store"] = "created"
    /\ WithMethod("store")
    /\ request_body' = [request_body EXCEPT !["store"] = "store"]
    /\ content_length_n' = [content_length_n EXCEPT !["store"] = "store"]
    /\ last' = [last EXCEPT !["store"] = "store"]
    /\ parts' = [parts EXCEPT !["store"] = Part("store", 1)]
    /\ arrays' = [arrays EXCEPT !["store"] = [Blank EXCEPT ![1] = OwnLength]]
    /\ state' = [state EXCEPT !["store"] = "forwarding"]
    /\ at' = Main /\ i' = 1
    /\ UNCHANGED <<conf, heap, ctx, said, shares, pushes>>

(* The parent's other headers, one by one.                                  *)
PartDone == i > parts[at].nelts

ForwardNextPart ==
    /\ state["store"] = "forwarding" /\ PartDone /\ parts[at].next # Null
    /\ at' = parts[at].next /\ i' = 1
    /\ UNCHANGED <<conf, list, state, set_up, ctx, said, shares, pushes>>

ForwardHeader ==
    /\ state["store"] = "forwarding" /\ ~PartDone
    /\ LET h == arrays[parts[at].elts][i] IN
       \/ Forwards(h) /\ ListPush("store", h)
       \/ ~Forwards(h) /\ UNCHANGED list
    /\ i' = i + 1
    /\ UNCHANGED <<conf, state, set_up, at, ctx, said, shares, pushes>>

ForwardDone ==
    /\ state["store"] = "forwarding" /\ PartDone /\ parts[at].next = Null
    /\ state' = [state EXCEPT !["store"] = "running"]
    /\ ctx' = ctx \cup {"store"}
    /\ UNCHANGED <<conf, list, set_up, scan, said, shares, pushes>>

(* What a failed fetch means for the request: it ends with its subrequest.  *)
(* After a failed store it goes on, and so does the subrequest, as it is.   *)
SetUpFails(r) ==
    state' = [q \in Requests |-> IF r = "fetch" THEN "ended"
                                 ELSE IF q = r THEN "running" ELSE state[q]]

(* No memory for the variables, before the body is set.                     *)
NoVariables(r) ==
    /\ state[r] = "created" /\ WithMethod(r) /\ SetUpFails(r)
    /\ last' = [last EXCEPT ![r] = OwnLast(r)]
    /\ shares' = (shares \/ r = "store")
    /\ UNCHANGED <<conf, parts, arrays, heap, request_body, content_length_n,
                   scan, ctx, said, pushes>>

(* None for another part of the list.                                       *)
NoElement ==
    /\ state["store"] = "forwarding" /\ SetUpFails("store")
    /\ (at = Main /\ i = 1) \/ parts[last["store"]].nelts = NAlloc
    /\ UNCHANGED <<conf, list, set_up, scan, ctx, said, shares, pushes>>

Ends(r) ==
    /\ IsRun(r)
    /\ r = Main => state["store"] # "running"
    /\ state' = [q \in Requests |-> IF q = r \/ r = Main THEN "ended" ELSE state[q]]
    /\ UNCHANGED <<conf, list, set_up, scan, ctx, said, shares, pushes>>

Over == state[Main] = "ended" /\ UNCHANGED subrequest_vars

SubrequestNext ==
    \/ \E r \in Requests, h \in Pushes : AddHeader(r, h)
    \/ \E r \in Subrequests : Create(r) \/ NotCreated(r) \/ NoVariables(r)
    \/ AdjustFetch \/ AdjustStore
    \/ ForwardNextPart \/ ForwardHeader \/ ForwardDone
    \/ NoElement
    \/ \E r \in Requests : Ends(r)
    \/ Over

SubrequestSpec == SubrequestInit /\ [][SubrequestNext]_subrequest_vars

-----------------------------------------------------------------------------
(* What is added to a fetch subrequest is added to it alone, if the headers *)
(* of the parent were in a single part, and what is added to a store        *)
(* subrequest is if that could be set up: the parent keeps the headers that *)
(* it was sent and that were added to it, and the fetch subrequest sees     *)
(* these and its own (util.c:273-275, 392-397).                             *)
HeadersStayTheirOwn ==
    ~shares => \A r \in {Main, "fetch"} :
        state[r] = "running" => Elements(r) = said[r]

(* A store subrequest that was set up has the method of its directive, one  *)
(* Content-Length, that of its body, and all other headers of the parent in *)
(* their order, from however many parts (util.c:387-467).                   *)
StoreSeesItsHeaders ==
    state["store"] = "running" /\ "store" \in ctx =>
        /\ method["store"] = conf["store"]
        /\ request_body["store"] = "store" /\ content_length_n["store"] = "store"
        /\ Elements("store") = said["store"]
=============================================================================

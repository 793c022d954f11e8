---------------------------- MODULE SrcachePhase ----------------------------
(***************************************************************************)
(* How the access handler moves itself behind the other access handlers.   *)
(* nginx runs the handlers of a phase from one array for all requests of a *)
(* worker; a request keeps an index of it, also while it waits for         *)
(* something in a handler.  The first request that would fetch takes the   *)
(* entry of ngx_http_srcache_access_handler out of the array and puts it   *)
(* back as the last of the access phase.                                   *)
(*                                                                         *)
(* The array starts with the first access handler and ends with the entry  *)
(* "post_access"; locations with `satisfy any' are left out.               *)
(***************************************************************************)
EXTENDS Integers, Sequences, FiniteSets, SequencesExt

CONSTANTS
    Requests,
    Handlers,  \* the other modules' access handlers
    Orders,    \* how the access phase may be set up
    Waiting    \* those of Handlers that may wait for something

Srcache == "srcache"
PostAccess == "post_access"
None == "none"

Phases == { Append(order, PostAccess) : order \in Orders }

ASSUME HandlersAssumption ==
    /\ IsFiniteSet(Requests) /\ None \notin Requests
    /\ {Srcache, PostAccess} \cap Handlers = {}
    /\ Waiting \subseteq Handlers
ASSUME OrdersAssumption ==
    \A order \in Orders :
        /\ order \in Seq(Handlers \cup {Srcache})
        /\ ToSet(order) = Handlers \cup {Srcache}
        /\ Len(order) = Cardinality(Handlers) + 1

(* Locations: without the module, with srcache_store only, with             *)
(* srcache_fetch, and that with a srcache_fetch_skip which is true, or which *)
(* is true until another access handler makes it false.                     *)
Locations == {"none", "stores", "fetches", "skips", "skips_first"}

VARIABLES
    handlers,       \* cmcf->phase_engine.handlers
    postponed,      \* smcf->postponed_to_access_phase_end
    location,
    skip,           \* the value srcache_fetch_skip would have
    phase_handler,  \* r->phase_handler
    where,          \* "new", "running", "waiting", "fetching" or "left"
    running,        \* the request the worker is busy with
    fetch,          \* "no", "issued" or "done"
    finished,       \* history: how often a handler has finished
    early,          \* history: handlers unfinished at the fetch
    disturbed       \* history: waited while the array was changed before it

vars == <<handlers, postponed, location, skip, phase_handler, where, running,
          fetch, finished, early, disturbed>>

Init ==
    /\ handlers \in Phases /\ postponed = FALSE
    /\ location \in [Requests -> Locations]
    /\ skip = [r \in Requests |-> location[r] \in {"skips", "skips_first"}]
    /\ phase_handler = [r \in Requests |-> 1]
    /\ where = [r \in Requests |-> "new"] /\ running = None
    /\ fetch = [r \in Requests |-> "no"]
    /\ finished = [r \in Requests |-> [h \in Handlers |-> 0]]
    /\ early = [r \in Requests |-> {}] /\ disturbed = {}

Current(r) == handlers[phase_handler[r]]

Runs(r, h) == running = r /\ Current(r) = h

Unfinished(r) == { h \in Handlers : finished[r][h] = 0 }

(* The worker turns to a request: a new one, or one whose event has come.   *)
Turn(r) ==
    /\ running = None /\ where[r] \in {"new", "waiting", "fetching"}
    /\ running' = r
    /\ where' = [where EXCEPT ![r] = "running"]
    /\ fetch' = [fetch EXCEPT ![r] = IF where[r] = "fetching" THEN "done" ELSE @]
    /\ UNCHANGED <<handlers, postponed, location, skip, phase_handler, finished,
                   early, disturbed>>

(* What a handler may do to the variable srcache_fetch_skip names.          *)
SetsSkip(r) ==
    \/ skip' = skip
    \/ /\ location[r] = "skips_first"
       /\ skip' = [skip EXCEPT ![r] = FALSE]

(* ngx_http_core_access_phase for another handler: it is done with the      *)
(* request, or it waits and will be called again at the same index.         *)
HandlerDone(r, h) ==
    /\ Runs(r, h) /\ h \in Handlers /\ SetsSkip(r)
    /\ finished' = [finished EXCEPT ![r][h] = @ + 1]
    /\ phase_handler' = [phase_handler EXCEPT ![r] = @ + 1]
    /\ UNCHANGED <<handlers, postponed, location, where, running, fetch, early,
                   disturbed>>

HandlerWaits(r, h) ==
    /\ Runs(r, h) /\ h \in Waiting /\ SetsSkip(r)
    /\ where' = [where EXCEPT ![r] = "waiting"] /\ running' = None
    /\ UNCHANGED <<handlers, postponed, location, phase_handler, fetch,
                   finished, early, disturbed>>

-----------------------------------------------------------------------------
(* ngx_http_srcache_access_handler.                                         *)

Declines(r) ==
    /\ phase_handler' = [phase_handler EXCEPT ![r] = @ + 1]
    /\ UNCHANGED <<handlers, postponed, location, skip, where, running, fetch,
                   finished, early, disturbed>>

Bypass(r) == Runs(r, Srcache) /\ location[r] = "none" /\ Declines(r)

Skip(r) ==
    Runs(r, Srcache) /\ location[r] # "none" /\ skip[r] /\ Declines(r)

Miss(r) == Runs(r, Srcache) /\ fetch[r] = "done" /\ Declines(r)

GoesOn(r) ==
    Runs(r, Srcache) /\ location[r] # "none" /\ ~skip[r] /\ fetch[r] = "no"

(* Faulty: the last handler of the phase is left out as well.               *)
LastIndex_Short == Len(handlers) - 2

(* cur_ph->next is the entry behind post_access.                            *)
LastIndex == Len(handlers) - 1

(* Faulty: that the move is done is not remembered or looked at.            *)
Moves_Again(r) == phase_handler[r] <= LastIndex

Moves(r) == ~postponed /\ phase_handler[r] < LastIndex

(* Faulty: the two entries are exchanged.                                   *)
Moved_Swap(s, i, last) ==
    [s EXCEPT ![i] = s[last], ![last] = s[i]]

Moved(s, i, last) ==
    [k \in DOMAIN s |-> IF k = last THEN s[i]
                        ELSE IF i <= k /\ k < last THEN s[k + 1] ELSE s[k]]

(* Faulty: the index is left to the phase engine, which adds one.           *)
Redo_Next(i) == i + 1

(* r->phase_handler is decremented here and incremented by the engine.      *)
Redo(i) == i

Postpone(r) ==
    /\ GoesOn(r) /\ Moves(r) /\ postponed' = TRUE
    /\ handlers' = Moved(handlers, phase_handler[r], LastIndex)
    /\ phase_handler' = [phase_handler EXCEPT ![r] = Redo(@)]
    /\ disturbed' = disturbed \cup
           { q \in Requests : where[q] = "waiting"
                              /\ phase_handler[q] > phase_handler[r] }
    /\ UNCHANGED <<location, skip, where, running, fetch, finished, early>>

StoreOnly(r) ==
    /\ GoesOn(r) /\ ~Moves(r) /\ location[r] = "stores"
    /\ postponed' = TRUE
    /\ phase_handler' = [phase_handler EXCEPT ![r] = @ + 1]
    /\ UNCHANGED <<handlers, location, skip, where, running, fetch, finished,
                   early, disturbed>>

FetchSubrequest(r) ==
    /\ GoesOn(r) /\ ~Moves(r) /\ postponed' = TRUE
    /\ location[r] # "stores"
    /\ where' = [where EXCEPT ![r] = "fetching"] /\ running' = None
    /\ fetch' = [fetch EXCEPT ![r] = "issued"]
    /\ early' = [early EXCEPT ![r] = Unfinished(r)]
    /\ UNCHANGED <<handlers, location, skip, phase_handler, finished, disturbed>>

-----------------------------------------------------------------------------
(* The next phase, or the end of the request: a handler denies it, or it    *)
(* was a hit.                                                               *)
Leave(r) ==
    /\ Runs(r, PostAccess)
    /\ where' = [where EXCEPT ![r] = "left"] /\ running' = None
    /\ UNCHANGED <<handlers, postponed, location, skip, phase_handler, fetch,
                   finished, early, disturbed>>

Ends(r) ==
    /\ running = r /\ Current(r) # PostAccess
    /\ Current(r) = Srcache => fetch[r] = "done"
    /\ where' = [where EXCEPT ![r] = "ended"] /\ running' = None
    /\ UNCHANGED <<handlers, postponed, location, skip, phase_handler, fetch,
                   finished, early, disturbed>>

Over ==
    /\ \A r \in Requests : where[r] \in {"left", "ended"}
    /\ UNCHANGED vars

Access(r) ==
    \/ Bypass(r) \/ Skip(r) \/ Miss(r)
    \/ Postpone(r) \/ StoreOnly(r) \/ FetchSubrequest(r)

RunPhases(r) ==
    \/ \E h \in Handlers : HandlerDone(r, h) \/ HandlerWaits(r, h)
    \/ Access(r)
    \/ Leave(r)
    \/ Ends(r)

Next == (\E r \in Requests : Turn(r) \/ RunPhases(r)) \/ Over

(* The worker finishes what it is at, and every request gets its turn: what *)
(* it waits for happens, or runs into a timeout.  A handler that is called  *)
(* again and again is done with the request some day.                       *)
Fairness ==
    \A r \in Requests :
        /\ WF_vars(RunPhases(r)) /\ SF_vars(Turn(r))
        /\ \A h \in Handlers : SF_vars(HandlerDone(r, h) \/ Ends(r))

Spec == Init /\ [][Next]_vars /\ Fairness

-----------------------------------------------------------------------------
(* A request that did not wait further back in the array while it was       *)
(* changed is seen by every handler exactly once, and fetches only when all *)
(* others have finished with it: also the one that changed the array, which *)
(* goes on at its own index (fetch.c:203-233).                              *)
UndisturbedSeesAll ==
    \A r \in Requests \ disturbed :
        /\ \A h \in Handlers : finished[r][h] <= 1
        /\ where[r] = "left" => Unfinished(r) = {}
        /\ early[r] = {}

(* g comes before h in s.                                                   *)
Before(s, g, h) == \E j \in DOMAIN s : \E i \in 1..j - 1 : s[i] = g /\ s[j] = h

(* The move changes the place of no other entry among the others, and       *)
(* happens once: afterwards srcache is the last handler for good            *)
(* (fetch.c:225-228).                                                       *)
MoveKeepsTheOthers ==
    [][/\ \A g, h \in Handlers \cup {PostAccess} :
              Before(handlers', g, h) <=> Before(handlers, g, h)
       /\ postponed => handlers' = handlers]_vars

(* While a request is in its fetch, its index stays that of srcache, so     *)
(* that the finished subrequest is noticed: every request leaves the phase  *)
(* or ends in it (fetch.c:109-137, 230).                                    *)
EveryRequestLeaves ==
    \A r \in Requests : <>(where[r] \in {"left", "ended"})

(* Once the handler is the last, srcache_fetch_skip is looked at when every *)
(* other handler has finished with the request, so that they may all set    *)
(* it; before, it is decided wherever the handler was compiled in           *)
(* (fetch.c:87 and 203-233).  Nothing is said of disturbed requests, whose  *)
(* index the shift of another request has moved to a different handler.     *)
SkipIsDecidedLast ==
    [][\A r \in Requests \ disturbed :
           postponed /\ Skip(r) => Unfinished(r) = {}]_vars
=============================================================================

------------------------- MODULE SrcachePhaseProofs -------------------------
(***************************************************************************)
(* Proofs about SrcachePhase, for every number of requests and of access   *)
(* handlers in every order: as long as a request did not wait behind the   *)
(* place where the array changed, what is before its index has finished    *)
(* with it and what is behind has not.                                     *)
(***************************************************************************)
EXTENDS SrcachePhase, FiniteSetTheorems, TLAPS

Entries == Handlers \cup {Srcache, PostAccess}

(* The array: each entry once, "post_access" at the end, and srcache before *)
(* it when it has been postponed.                                           *)
ArrayOK(s) ==
    /\ s \in Seq(Entries) /\ Len(s) >= 2
    /\ \A k \in 1..Len(s) : s[k] = PostAccess <=> k = Len(s)
    /\ \A k, l \in 1..Len(s) : s[k] = s[l] => k = l
    /\ \A h \in Handlers \cup {Srcache} : \E k \in 1..Len(s) - 1 : s[k] = h

ArrayInv == ArrayOK(handlers) /\ (postponed => handlers[LastIndex] = Srcache)

Typed ==
    /\ running \in Requests \cup {None}
    /\ phase_handler \in [Requests -> 1..Len(handlers)]
    /\ where \in [Requests -> {"new", "running", "waiting", "fetching", "left",
                               "ended"}]
    /\ finished \in [Requests -> [Handlers -> Nat]]
    /\ early \in [Requests -> SUBSET Handlers]
    /\ disturbed \subseteq Requests

(* Where a request stands.                                                  *)
Placed(r) ==
    /\ where[r] = "running" <=> running = r
    /\ where[r] = "fetching" => postponed
    /\ where[r] = "left" => phase_handler[r] = Len(handlers)
    /\ where[r] = "waiting" /\ r \notin disturbed => Current(r) \in Handlers
    /\ where[r] = "new" => phase_handler[r] = 1

(* What is before its index has finished with it once, the rest not at all. *)
InStep(r) ==
    \A k \in 1..Len(handlers) :
        handlers[k] \in Handlers =>
            finished[r][handlers[k]] = IF k < phase_handler[r] THEN 1 ELSE 0

Undisturbed(r) ==
    r \notin disturbed =>
        /\ where[r] # "ended" => InStep(r)
        /\ \A h \in Handlers : finished[r][h] <= 1
        /\ early[r] = {}

Inv ==
    /\ Typed /\ ArrayInv
    /\ \A r \in Requests : Placed(r) /\ Undisturbed(r)

-----------------------------------------------------------------------------
(* An order has each of its handlers once: it is as long as there are       *)
(* handlers.                                                                *)
LEMMA OrderIsInjective ==
    ASSUME NEW order \in Orders
    PROVE  /\ order \in Seq(Handlers \cup {Srcache})
           /\ Len(order) >= 1
           /\ \A h \in Handlers \cup {Srcache} :
                  \E k \in 1..Len(order) : order[k] = h
           /\ \A k, l \in 1..Len(order) : order[k] = order[l] => k = l
<1> DEFINE n == Len(order)
           T == Handlers \cup {Srcache}
<1>1. order \in Seq(T) /\ ToSet(order) = T /\ n = Cardinality(Handlers) + 1
  BY OrdersAssumption
<1>2. \A h \in T : \E k \in 1..n : order[k] = h
  <2>1. DOMAIN order = 1..n BY <1>1
  <2>2. T = {order[k] : k \in 1..n} BY <1>1, <2>1 DEF ToSet
  <2> QED BY <2>2
<1>3. order \in [1..n -> T] /\ n \in Nat BY <1>1
<1>4. order \in Surjection(1..n, T) BY <1>2, <1>3 DEF Surjection
<1>5. IsFiniteSet(1..n) /\ Cardinality(1..n) = n
  <2> HIDE DEF n
  <2>1. IsFiniteSet(1..n) BY <1>3, FS_Interval
  <2>2. Cardinality(1..n) = IF 1 > n THEN 0 ELSE n - 1 + 1
    BY <1>3, FS_Interval
  <2> QED BY <1>3, <2>1, <2>2
<1>6. IsFiniteSet(T) BY <1>4, <1>5, FS_Surjection
<1>7. IsFiniteSet(Handlers) BY <1>6, FS_Subset
<1>8. Cardinality(T) = n
  <2>1. Srcache \notin Handlers BY HandlersAssumption
  <2> QED BY <1>1, <1>7, <2>1, FS_AddElement
<1>9. order \in Injection(1..n, T)
  BY <1>4, <1>5, <1>8, FS_SurjSameCardinalityImpliesInj
<1>10. \A k, l \in 1..n : order[k] = order[l] => k = l
  BY <1>9 DEF Injection, IsInjective
<1>11. n >= 1 BY <1>2, <1>3
<1> QED BY <1>1, <1>2, <1>10, <1>11

LEMMA Initially == Init => Inv
<1> SUFFICES ASSUME Init PROVE Inv OBVIOUS
<1>1. PICK order \in Orders : handlers = Append(order, PostAccess)
  BY DEF Init, Phases
<1> DEFINE n == Len(order)
<1>2. /\ order \in Seq(Handlers \cup {Srcache}) /\ n >= 1 /\ n \in Nat
      /\ \A h \in Handlers \cup {Srcache} : \E k \in 1..n : order[k] = h
      /\ \A k, l \in 1..n : order[k] = order[l] => k = l
  BY OrderIsInjective
<1>3. /\ handlers \in Seq(Entries) /\ Len(handlers) = n + 1
      /\ handlers[n + 1] = PostAccess
      /\ \A k \in 1..n : handlers[k] = order[k]
  <2>1. order \in Seq(Entries) /\ PostAccess \in Entries BY <1>2 DEF Entries
  <2> QED BY <1>1, <2>1
<1>4. PostAccess \notin Handlers \cup {Srcache}
  BY HandlersAssumption DEF PostAccess, Srcache
<1>5. \A k \in 1..n : order[k] \in Handlers \cup {Srcache} BY <1>2
<1> HIDE DEF n
<1>6. ArrayOK(handlers)
  <2>1. \A k \in 1..n + 1 : handlers[k] = PostAccess <=> k = n + 1
    BY <1>2, <1>3, <1>4, <1>5
  <2>2. \A k, l \in 1..n + 1 : handlers[k] = handlers[l] => k = l
    BY <1>2, <1>3, <2>1
  <2>3. \A h \in Handlers \cup {Srcache} :
            \E k \in 1..(n + 1) - 1 : handlers[k] = h
    BY <1>2, <1>3
  <2> QED BY <1>2, <1>3, <2>1, <2>2, <2>3 DEF ArrayOK
<1>7. Typed /\ ArrayInv BY <1>2, <1>3, <1>6 DEF Init, Typed, ArrayInv
<1>8. ASSUME NEW r \in Requests PROVE Placed(r) /\ Undisturbed(r)
  <2>1. /\ where[r] = "new" /\ running = None /\ None # r
        /\ phase_handler[r] = 1 /\ early[r] = {}
        /\ \A h \in Handlers : finished[r][h] = 0
    BY HandlersAssumption DEF Init
  <2>2. InStep(r) BY <1>3, <2>1 DEF InStep
  <2> QED BY <2>1, <2>2 DEF Placed, Undisturbed
<1> QED BY <1>7, <1>8 DEF Inv

-----------------------------------------------------------------------------
(* What the worker finds when it runs a request.                            *)
LEMMA Running ==
    ASSUME Inv, NEW r \in Requests, running = r
    PROVE  /\ where[r] = "running" /\ phase_handler[r] \in 1..Len(handlers)
           /\ handlers \in Seq(Entries) /\ Len(handlers) >= 2
           /\ Len(handlers) \in Nat
           /\ r \notin disturbed => InStep(r)
           /\ Current(r) # PostAccess => phase_handler[r] <= LastIndex
           /\ Current(r) = PostAccess => phase_handler[r] = Len(handlers)
           /\ \A q \in Requests : q # r => where[q] # "running"
BY DEF Inv, Typed, ArrayInv, ArrayOK, Placed, Undisturbed, Current, LastIndex

(* A step of one request, when the array stays as it is.                    *)
LEMMA OneRequestSteps ==
    ASSUME Inv, NEW r \in Requests, Typed', ArrayInv',
           UNCHANGED <<handlers, disturbed>>, postponed => postponed',
           running \in {r, None}, running' \in {r, None},
           \A q \in Requests : q # r =>
               /\ where'[q] = where[q] /\ phase_handler'[q] = phase_handler[q]
               /\ finished'[q] = finished[q] /\ early'[q] = early[q],
           Placed(r)', Undisturbed(r)'
    PROVE  Inv'
<1>1. ASSUME NEW q \in Requests, q # r PROVE Placed(q)' /\ Undisturbed(q)'
  <2>1. /\ where'[q] = where[q] /\ phase_handler'[q] = phase_handler[q]
        /\ finished'[q] = finished[q] /\ early'[q] = early[q]
        /\ running # q /\ running' # q
    BY <1>1, HandlersAssumption
  <2>2. Placed(q) /\ Undisturbed(q) BY DEF Inv
  <2>3. Placed(q)' BY <2>1, <2>2 DEF Placed, Current
  <2>4. Undisturbed(q)' BY <2>1, <2>2 DEF Undisturbed, InStep
  <2> QED BY <2>3, <2>4
<1> QED BY <1>1 DEF Inv

LEMMA TurnKeeps ==
    ASSUME Inv, NEW r \in Requests, Turn(r) PROVE Inv'
<1>1. /\ running = None /\ running' = r
      /\ where[r] \in {"new", "waiting", "fetching"}
      /\ where' = [where EXCEPT ![r] = "running"]
      /\ UNCHANGED <<handlers, postponed, phase_handler, finished, early,
                     disturbed>>
  BY DEF Turn
<1>2. Typed /\ Typed' BY <1>1 DEF Inv, Typed
<1>3. where'[r] = "running" /\ \A q \in Requests : q # r => where'[q] = where[q]
  BY <1>1, <1>2 DEF Typed
<1>4. ArrayInv' BY <1>1 DEF Inv, ArrayInv, LastIndex
<1>5. Placed(r)' BY <1>1, <1>3 DEF Placed
<1>6. Undisturbed(r)' BY <1>1, <1>3 DEF Inv, Undisturbed, InStep
<1> QED BY <1>1, <1>2, <1>3, <1>4, <1>5, <1>6, OneRequestSteps

LEMMA HandlerDoneKeeps ==
    ASSUME Inv, NEW r \in Requests, NEW h \in Handlers, HandlerDone(r, h)
    PROVE  Inv'
<1>1. /\ running = r /\ Current(r) = h
      /\ finished' = [finished EXCEPT ![r][h] = @ + 1]
      /\ phase_handler' = [phase_handler EXCEPT ![r] = @ + 1]
      /\ UNCHANGED <<handlers, postponed, where, running, early, disturbed>>
  BY DEF HandlerDone, Runs
<1>2. Typed BY DEF Inv
<1>3. /\ where[r] = "running" /\ phase_handler[r] \in 1..Len(handlers)
      /\ phase_handler[r] <= LastIndex /\ Len(handlers) \in Nat
      /\ r \notin disturbed => InStep(r)
  <2>1. Current(r) # PostAccess BY <1>1, HandlersAssumption
  <2> QED BY <1>1, <2>1, Running
<1>4. /\ phase_handler'[r] = phase_handler[r] + 1
      /\ phase_handler[r] + 1 \in 1..Len(handlers)
      /\ \A q \in Requests : q # r => phase_handler'[q] = phase_handler[q]
      /\ phase_handler' \in [Requests -> 1..Len(handlers)]
  BY <1>1, <1>2, <1>3 DEF Typed, LastIndex
<1>5. /\ finished'[r][h] = finished[r][h] + 1
      /\ \A g \in Handlers : g # h => finished'[r][g] = finished[r][g]
      /\ \A q \in Requests : q # r => finished'[q] = finished[q]
      /\ finished' \in [Requests -> [Handlers -> Nat]]
  BY <1>1, <1>2 DEF Typed
<1>6. Typed' BY <1>1, <1>2, <1>4, <1>5 DEF Typed
<1>7. ArrayInv /\ ArrayInv' BY <1>1 DEF Inv, ArrayInv, LastIndex
<1>8. Placed(r)' BY <1>1, <1>3 DEF Placed
<1>9. Undisturbed(r)'
  <2> SUFFICES ASSUME r \notin disturbed
               PROVE  /\ InStep(r)' /\ early[r] = {}
                      /\ \A g \in Handlers : finished'[r][g] <= 1
    BY <1>1 DEF Undisturbed
  <2>1. finished[r][h] = 0
    BY <1>1, <1>3 DEF InStep, Current
  <2>2. InStep(r)'
    <3> SUFFICES ASSUME NEW k \in 1..Len(handlers), handlers[k] \in Handlers
                 PROVE  finished'[r][handlers[k]]
                            = IF k < phase_handler[r] + 1 THEN 1 ELSE 0
      BY <1>1, <1>4 DEF InStep
    <3>1. finished[r][handlers[k]] = IF k < phase_handler[r] THEN 1 ELSE 0
      BY <1>3 DEF InStep
    <3>2. CASE k = phase_handler[r]
      <4>1. handlers[k] = h BY <1>1, <3>2 DEF Current
      <4> QED BY <1>3, <1>5, <2>1, <3>2, <4>1
    <3>3. CASE k # phase_handler[r]
      <4>1. handlers[k] # h
        BY <1>1, <1>3, <1>7, <3>3 DEF ArrayInv, ArrayOK, Current
      <4> QED BY <1>3, <1>5, <3>1, <3>3, <4>1
    <3> QED BY <3>2, <3>3
  <2>3. early[r] = {} /\ \A g \in Handlers : finished[r][g] <= 1
    BY DEF Inv, Undisturbed
  <2> QED BY <1>5, <2>1, <2>2, <2>3
<1> QED
  BY <1>1, <1>4, <1>5, <1>6, <1>7, <1>8, <1>9, OneRequestSteps

LEMMA HandlerWaitsKeeps ==
    ASSUME Inv, NEW r \in Requests, NEW h \in Handlers, HandlerWaits(r, h)
    PROVE  Inv'
<1>1. /\ running = r /\ Current(r) = h /\ running' = None
      /\ where' = [where EXCEPT ![r] = "waiting"]
      /\ UNCHANGED <<handlers, postponed, phase_handler, finished, early,
                     disturbed>>
  BY DEF HandlerWaits, Runs
<1>2. Typed /\ Typed' BY <1>1 DEF Inv, Typed
<1>3. where'[r] = "waiting" /\ \A q \in Requests : q # r => where'[q] = where[q]
  BY <1>1, <1>2 DEF Typed
<1>4. ArrayInv' BY <1>1 DEF Inv, ArrayInv, LastIndex
<1>5. Placed(r)'
  BY <1>1, <1>3, HandlersAssumption DEF Placed, Current
<1>6. Undisturbed(r)'
  <2>1. where[r] # "ended" BY <1>1, Running
  <2> QED BY <1>1, <1>3, <2>1 DEF Inv, Undisturbed, InStep
<1> QED BY <1>1, <1>2, <1>3, <1>4, <1>5, <1>6, OneRequestSteps

(* The handler declines, which leaves all others as they are.               *)
LEMMA DeclineKeeps ==
    ASSUME Inv, NEW r \in Requests, Runs(r, Srcache),
           phase_handler' = [phase_handler EXCEPT ![r] = @ + 1],
           UNCHANGED <<handlers, where, running, finished, early, disturbed>>,
           postponed => postponed', ArrayInv'
    PROVE  Inv'
<1>1. running = r /\ Current(r) = Srcache BY DEF Runs
<1>2. Typed BY DEF Inv
<1>3. /\ where[r] = "running" /\ phase_handler[r] \in 1..Len(handlers)
      /\ phase_handler[r] <= LastIndex /\ Len(handlers) \in Nat
      /\ r \notin disturbed => InStep(r)
  <2>1. Current(r) # PostAccess BY <1>1 DEF Srcache, PostAccess
  <2> QED BY <1>1, <2>1, Running
<1>4. /\ phase_handler'[r] = phase_handler[r] + 1
      /\ phase_handler[r] + 1 \in 1..Len(handlers)
      /\ \A q \in Requests : q # r => phase_handler'[q] = phase_handler[q]
      /\ phase_handler' \in [Requests -> 1..Len(handlers)]
  BY <1>1, <1>2, <1>3 DEF Typed, LastIndex
<1>5. Typed' BY <1>2, <1>4 DEF Typed
<1>6. Placed(r)' BY <1>1, <1>3 DEF Placed
<1>7. Undisturbed(r)'
  <2>1. ASSUME r \notin disturbed PROVE InStep(r)'
    <3> SUFFICES ASSUME NEW k \in 1..Len(handlers), handlers[k] \in Handlers
                 PROVE  finished[r][handlers[k]]
                            = IF k < phase_handler[r] + 1 THEN 1 ELSE 0
      BY <1>4 DEF InStep
    <3>1. finished[r][handlers[k]] = IF k < phase_handler[r] THEN 1 ELSE 0
      BY <1>3, <2>1 DEF InStep
    <3>2. k # phase_handler[r]
      BY <1>1, HandlersAssumption DEF Current
    <3> QED BY <1>3, <3>1, <3>2
  <2> QED BY <2>1 DEF Inv, Undisturbed
<1> QED BY <1>1, <1>4, <1>5, <1>6, <1>7, OneRequestSteps

(* Every handler before the index has finished with the request.            *)
LEMMA AllBehind ==
    ASSUME Inv, NEW r \in Requests, InStep(r),
           phase_handler[r] >= LastIndex, Current(r) \notin Handlers
    PROVE  Unfinished(r) = {}
<1> SUFFICES ASSUME NEW h \in Handlers PROVE finished[r][h] # 0
  BY DEF Unfinished
<1>1. PICK k \in 1..Len(handlers) - 1 : handlers[k] = h
  BY DEF Inv, ArrayInv, ArrayOK
<1>2. Len(handlers) \in Nat /\ phase_handler[r] \in 1..Len(handlers)
  BY DEF Inv, ArrayInv, ArrayOK, Typed
<1>3. k # phase_handler[r] BY <1>1 DEF Current
<1>4. k < phase_handler[r] BY <1>1, <1>2, <1>3 DEF LastIndex
<1>5. finished[r][h] = 1 BY <1>1, <1>2, <1>4 DEF InStep
<1> QED BY <1>5

(* If srcache has nothing to move, it is the last handler.                  *)
LEMMA AtTheEnd ==
    ASSUME Inv, NEW r \in Requests, Runs(r, Srcache), ~Moves(r)
    PROVE  /\ phase_handler[r] = LastIndex /\ handlers[LastIndex] = Srcache
           /\ r \notin disturbed => Unfinished(r) = {}
<1>1. running = r /\ handlers[phase_handler[r]] = Srcache BY DEF Runs, Current
<1>2. /\ phase_handler[r] \in 1..Len(handlers) /\ Len(handlers) \in Nat
      /\ phase_handler[r] <= LastIndex /\ LastIndex \in 1..Len(handlers)
      /\ r \notin disturbed => InStep(r)
  <2>1. Current(r) # PostAccess BY <1>1 DEF Current, Srcache, PostAccess
  <2> QED BY <1>1, <2>1, Running DEF LastIndex
<1>3. phase_handler[r] = LastIndex
  <2>1. CASE postponed
    <3>1. handlers[LastIndex] = Srcache BY <2>1 DEF Inv, ArrayInv
    <3> QED BY <1>1, <1>2, <3>1 DEF Inv, ArrayInv, ArrayOK
  <2>2. CASE ~postponed BY <1>2, <2>2 DEF Moves, LastIndex
  <2> QED BY <2>1, <2>2
<1>4. Current(r) \notin Handlers BY <1>1, HandlersAssumption DEF Current
<1> QED BY <1>1, <1>2, <1>3, <1>4, AllBehind DEF LastIndex

LEMMA AccessKeeps ==
    ASSUME Inv, NEW r \in Requests,
           Bypass(r) \/ Skip(r) \/ Miss(r) \/ StoreOnly(r)
    PROVE  Inv'
<1>1. /\ Runs(r, Srcache)
      /\ phase_handler' = [phase_handler EXCEPT ![r] = @ + 1]
      /\ UNCHANGED <<handlers, where, running, finished, early, disturbed>>
      /\ postponed => postponed'
  BY DEF Bypass, Skip, Miss, StoreOnly, GoesOn, Declines
<1>2. ArrayInv'
  <2>1. CASE StoreOnly(r)
    <3>1. handlers[LastIndex] = Srcache
      BY <1>1, <2>1, AtTheEnd DEF StoreOnly
    <3> QED BY <1>1, <3>1 DEF Inv, ArrayInv, LastIndex
  <2>2. CASE Bypass(r) \/ Skip(r) \/ Miss(r)
    <3>1. postponed' = postponed
      BY <2>2 DEF Bypass, Skip, Miss, Declines
    <3> QED BY <1>1, <3>1 DEF Inv, ArrayInv, LastIndex
  <2> QED BY <2>1, <2>2
<1> QED BY <1>1, <1>2, DeclineKeeps

LEMMA FetchKeeps ==
    ASSUME Inv, NEW r \in Requests, FetchSubrequest(r) PROVE Inv'
<1>1. /\ Runs(r, Srcache) /\ running = r /\ ~Moves(r) /\ postponed' = TRUE
      /\ where' = [where EXCEPT ![r] = "fetching"] /\ running' = None
      /\ early' = [early EXCEPT ![r] = Unfinished(r)]
      /\ UNCHANGED <<handlers, phase_handler, finished, disturbed>>
  BY DEF FetchSubrequest, GoesOn, Runs
<1>2. /\ handlers[LastIndex] = Srcache
      /\ r \notin disturbed => Unfinished(r) = {}
  BY <1>1, AtTheEnd
<1>3. Typed /\ Unfinished(r) \subseteq Handlers BY DEF Inv, Unfinished
<1>4. /\ where'[r] = "fetching" /\ early'[r] = Unfinished(r)
      /\ \A q \in Requests : q # r =>
             where'[q] = where[q] /\ early'[q] = early[q]
  BY <1>1, <1>3 DEF Typed
<1>5. Typed' BY <1>1, <1>3 DEF Typed
<1>6. ArrayInv' BY <1>1, <1>2 DEF Inv, ArrayInv, LastIndex
<1>7. Placed(r)' BY <1>1, <1>4, HandlersAssumption DEF Placed
<1>8. Undisturbed(r)'
  <2>1. where[r] # "ended" BY <1>1, Running
  <2> QED BY <1>1, <1>2, <1>4, <2>1 DEF Inv, Undisturbed, InStep
<1> QED BY <1>1, <1>4, <1>5, <1>6, <1>7, <1>8, OneRequestSteps

LEMMA LeaveKeeps ==
    ASSUME Inv, NEW r \in Requests, Leave(r) \/ Ends(r) PROVE Inv'
<1> DEFINE w == IF Leave(r) THEN "left" ELSE "ended"
<1>1. /\ running = r /\ running' = None
      /\ where' = [where EXCEPT ![r] = w]
      /\ UNCHANGED <<handlers, postponed, phase_handler, finished, early,
                     disturbed>>
      /\ w = "left" => Current(r) = PostAccess
  BY DEF Leave, Ends, Runs
<1>2. w \in {"left", "ended"} OBVIOUS
<1> HIDE DEF w
<1>3. Typed /\ Typed' BY <1>1, <1>2 DEF Inv, Typed
<1>4. where'[r] = w /\ \A q \in Requests : q # r => where'[q] = where[q]
  BY <1>1, <1>3 DEF Typed
<1>5. ArrayInv' BY <1>1 DEF Inv, ArrayInv, LastIndex
<1>6. Placed(r)'
  <2>1. w = "left" => phase_handler[r] = Len(handlers) BY <1>1, Running
  <2> QED BY <1>1, <1>2, <1>4, <2>1, HandlersAssumption DEF Placed
<1>7. Undisturbed(r)'
  <2>1. where[r] # "ended" BY <1>1, Running
  <2> QED BY <1>1, <1>2, <1>4, <2>1 DEF Inv, Undisturbed, InStep
<1> QED BY <1>1, <1>3, <1>4, <1>5, <1>6, <1>7, OneRequestSteps

-----------------------------------------------------------------------------
(* The move.                                                                *)

(* srcache goes to the end, those behind it each one forward.               *)
LEMMA MovedArray ==
    ASSUME ArrayOK(handlers), NEW p \in 1..LastIndex, handlers[p] = Srcache,
           handlers' = Moved(handlers, p, LastIndex)
    PROVE  /\ ArrayOK(handlers)' /\ Len(handlers') = Len(handlers)
           /\ handlers'[LastIndex] = Srcache
           /\ \A k \in 1..Len(handlers) :
                  handlers'[k] = IF k = LastIndex THEN Srcache
                                 ELSE IF p <= k /\ k < LastIndex
                                      THEN handlers[k + 1] ELSE handlers[k]
<1> DEFINE n == Len(handlers)
<1>1. /\ handlers \in Seq(Entries) /\ n \in Nat /\ n >= 2 /\ LastIndex = n - 1
      /\ \A k \in 1..n : handlers[k] = PostAccess <=> k = n
      /\ \A k, l \in 1..n : handlers[k] = handlers[l] => k = l
      /\ \A h \in Handlers \cup {Srcache} : \E k \in 1..n - 1 : handlers[k] = h
  BY DEF ArrayOK, LastIndex
<1>2. DOMAIN handlers = 1..n BY <1>1
<1> DEFINE m == [k \in 1..n |-> IF k = n - 1 THEN Srcache
                                ELSE IF p <= k /\ k < n - 1
                                     THEN handlers[k + 1] ELSE handlers[k]]
<1>3. handlers' = m BY <1>1, <1>2 DEF Moved
<1>4. m \in Seq(Entries) /\ Len(m) = n
  <2>1. \A k \in 1..n : m[k] \in Entries BY <1>1 DEF Entries
  <2> QED BY <1>1, <2>1
<1> HIDE DEF n
<1>5. \A k \in 1..n :
          m[k] = IF k = n - 1 THEN Srcache
                 ELSE IF p <= k /\ k < n - 1 THEN handlers[k + 1]
                 ELSE handlers[k]
  OBVIOUS
<1> HIDE DEF m
<1>6. \A k \in 1..n : m[k] = PostAccess <=> k = n
  BY <1>1, <1>5 DEF Srcache, PostAccess
<1>7. \A k, l \in 1..n : m[k] = m[l] => k = l
  <2> SUFFICES ASSUME NEW k \in 1..n, NEW l \in 1..n, m[k] = m[l]
               PROVE  k = l
    OBVIOUS
  <2> DEFINE from(j) == IF j = n - 1 THEN p
                        ELSE IF p <= j /\ j < n - 1 THEN j + 1 ELSE j
  <2>1. \A j \in 1..n : from(j) \in 1..n /\ m[j] = handlers[from(j)]
    BY <1>1, <1>5
  <2>2. from(k) = from(l) BY <1>1, <2>1
  <2> QED BY <1>1, <2>2
<1>8. ASSUME NEW h \in Handlers \cup {Srcache}
      PROVE  \E k \in 1..n - 1 : m[k] = h
  <2>1. PICK k \in 1..n - 1 : handlers[k] = h BY <1>1
  <2>2. CASE k = p BY <1>1, <1>5, <2>1, <2>2
  <2>3. CASE k < p
    <3>1. k \in 1..n /\ k # n - 1 /\ ~(p <= k) BY <1>1, <2>3
    <3> QED BY <1>5, <2>1, <3>1
  <2>4. CASE p < k
    <3>1. /\ k - 1 \in 1..n /\ k - 1 # n - 1 /\ p <= k - 1 /\ k - 1 < n - 1
          /\ k - 1 + 1 = k /\ k - 1 \in 1..n - 1
      BY <1>1, <2>4
    <3>2. m[k - 1] = handlers[k] BY <1>5, <3>1
    <3> QED BY <2>1, <3>1, <3>2
  <2> QED BY <1>1, <2>2, <2>3, <2>4
<1>9. ArrayOK(handlers)'
  BY <1>1, <1>3, <1>4, <1>6, <1>7, <1>8 DEF ArrayOK
<1> QED BY <1>1, <1>3, <1>4, <1>5, <1>9 DEF n

LEMMA PostponeKeeps ==
    ASSUME Inv, NEW r \in Requests, Postpone(r) PROVE Inv'
<1> DEFINE p == phase_handler[r]
           n == Len(handlers)
<1>1. /\ running = r /\ handlers[p] = Srcache /\ ~postponed
      /\ p < LastIndex /\ postponed' = TRUE
      /\ handlers' = Moved(handlers, p, LastIndex)
      /\ phase_handler' = [phase_handler EXCEPT ![r] = @]
      /\ disturbed' = disturbed \cup
             {q \in Requests : where[q] = "waiting" /\ phase_handler[q] > p}
      /\ UNCHANGED <<where, running, finished, early>>
  BY DEF Postpone, GoesOn, Runs, Moves, Redo, Current
<1>2. Typed /\ ArrayOK(handlers) BY DEF Inv, ArrayInv
<1>3. /\ n \in Nat /\ n >= 2 /\ LastIndex = n - 1 /\ p \in 1..LastIndex
      /\ phase_handler' = phase_handler
  BY <1>1, <1>2 DEF Typed, ArrayOK, LastIndex
<1>4. /\ ArrayOK(handlers)' /\ Len(handlers') = n
      /\ handlers'[n - 1] = Srcache
      /\ \A k \in 1..n :
             handlers'[k] = IF k = n - 1 THEN Srcache
                            ELSE IF p <= k /\ k < n - 1
                                 THEN handlers[k + 1] ELSE handlers[k]
  BY <1>1, <1>2, <1>3, MovedArray
<1>5. Typed' BY <1>1, <1>2, <1>3, <1>4 DEF Typed
<1>6. ArrayInv' BY <1>3, <1>4 DEF ArrayInv, LastIndex
<1>7. ASSUME NEW q \in Requests PROVE Placed(q)'
  <2>1. Placed(q) /\ phase_handler[q] \in 1..n BY <1>2 DEF Inv, Typed
  <2>2. ASSUME where[q] = "waiting", q \notin disturbed'
        PROVE  handlers'[phase_handler[q]] \in Handlers
    <3>1. handlers[phase_handler[q]] \in Handlers /\ ~(phase_handler[q] > p)
      BY <1>1, <2>1, <2>2 DEF Placed, Current
    <3>2. phase_handler[q] # p BY <1>1, <3>1, HandlersAssumption
    <3> QED BY <1>1, <1>3, <1>4, <2>1, <3>1, <3>2
  <2> QED BY <1>1, <1>3, <1>4, <2>1, <2>2 DEF Placed, Current
<1>8. ASSUME NEW q \in Requests PROVE Undisturbed(q)'
  <2>1. Placed(q) /\ Undisturbed(q) /\ phase_handler[q] \in 1..n
    BY <1>2 DEF Inv, Typed
  <2> SUFFICES ASSUME q \notin disturbed', where[q] # "ended"
               PROVE  InStep(q)'
    BY <1>1, <2>1 DEF Undisturbed
  <2>2. InStep(q) BY <1>1, <2>1 DEF Undisturbed
  <2>3. phase_handler[q] <= p \/ phase_handler[q] = n
    <3>1. where[q] = "running" => q = r BY <1>1, <2>1 DEF Placed
    <3> QED BY <1>1, <1>2, <1>3, <2>1, <3>1 DEF Typed, Placed
  <2> SUFFICES ASSUME NEW k \in 1..n, handlers'[k] \in Handlers
               PROVE  finished[q][handlers'[k]]
                          = IF k < phase_handler[q] THEN 1 ELSE 0
    BY <1>1, <1>3, <1>4 DEF InStep
  <2>4. k # n - 1 /\ Srcache \notin Handlers /\ PostAccess \notin Handlers
    BY <1>4, HandlersAssumption
  <2>5. CASE p <= k /\ k < n - 1
    <3>1. handlers'[k] = handlers[k + 1] /\ k + 1 \in 1..n
      BY <1>3, <1>4, <2>4, <2>5
    <3>2. finished[q][handlers'[k]]
              = IF k + 1 < phase_handler[q] THEN 1 ELSE 0
      BY <2>2, <3>1 DEF InStep
    <3> QED BY <1>3, <2>1, <2>3, <2>5, <3>2
  <2>6. CASE ~(p <= k /\ k < n - 1)
    <3>1. handlers'[k] = handlers[k] BY <1>4, <2>4, <2>6
    <3> QED BY <2>2, <3>1 DEF InStep
  <2> QED BY <2>5, <2>6
<1> QED BY <1>5, <1>6, <1>7, <1>8 DEF Inv

-----------------------------------------------------------------------------
LEMMA StutterKeeps == ASSUME Inv, UNCHANGED vars PROVE Inv'
<1> USE DEF vars
<1>1. Typed' BY DEF Inv, Typed
<1>2. ArrayInv' BY DEF Inv, ArrayInv, LastIndex
<1>3. ASSUME NEW r \in Requests PROVE Placed(r)' /\ Undisturbed(r)'
  <2>1. Placed(r)' BY DEF Inv, Placed, Current
  <2>2. Undisturbed(r)' BY DEF Inv, Undisturbed, InStep
  <2> QED BY <2>1, <2>2
<1> QED BY <1>1, <1>2, <1>3 DEF Inv

LEMMA Step == ASSUME Inv, [Next]_vars PROVE Inv'
<1>1. CASE Over \/ UNCHANGED vars BY <1>1, StutterKeeps DEF Over
<1>2. ASSUME NEW r \in Requests, Turn(r) \/ RunPhases(r) PROVE Inv'
  <2>1. CASE Turn(r) BY <2>1, TurnKeeps
  <2>2. CASE \E h \in Handlers : HandlerDone(r, h) \/ HandlerWaits(r, h)
    BY <2>2, HandlerDoneKeeps, HandlerWaitsKeeps
  <2>3. CASE Access(r)
    BY <2>3, AccessKeeps, PostponeKeeps, FetchKeeps DEF Access
  <2>4. CASE Leave(r) \/ Ends(r) BY <2>4, LeaveKeeps
  <2> QED BY <1>2, <2>1, <2>2, <2>3, <2>4 DEF RunPhases
<1> QED BY <1>1, <1>2 DEF Next

LEMMA Invariance == Spec => []Inv
<1>1. Init => Inv BY Initially
<1>2. Inv /\ [Next]_vars => Inv' BY Step
<1> QED BY <1>1, <1>2, PTL DEF Spec

(* A request that did not wait behind the place where the array changed is  *)
(* seen by every handler once, and fetches when all have finished with it   *)
(* (ngx_http_srcache_access_handler, fetch.c:203-233).                      *)
THEOREM MoveSkipsNoHandler == Spec => []UndisturbedSeesAll
<1>1. Inv => UndisturbedSeesAll
  <2> SUFFICES ASSUME Inv, NEW r \in Requests \ disturbed, where[r] = "left"
               PROVE  Unfinished(r) = {}
    BY DEF Inv, Undisturbed, UndisturbedSeesAll
  <2>1. InStep(r) /\ phase_handler[r] = Len(handlers)
    BY DEF Inv, Undisturbed, Placed
  <2>2. handlers[Len(handlers)] = PostAccess /\ Len(handlers) \in Nat
    BY DEF Inv, ArrayInv, ArrayOK
  <2>3. Current(r) \notin Handlers
    BY <2>1, <2>2, HandlersAssumption DEF Current
  <2> QED BY <2>1, <2>2, <2>3, AllBehind DEF LastIndex
<1> QED BY <1>1, Invariance, PTL

(* Once the handler is the last, srcache_fetch_skip is evaluated when all   *)
(* other access handlers have finished with the request, unless the shift   *)
(* has moved its index to a different handler (fetch.c:87).                 *)
THEOREM SkipComesLast == Spec => SkipIsDecidedLast
<1>1. Inv /\ [Next]_vars =>
          [\A r \in Requests \ disturbed :
               postponed /\ Skip(r) => Unfinished(r) = {}]_vars
  <2> SUFFICES ASSUME Inv, NEW r \in Requests \ disturbed, postponed, Skip(r)
               PROVE  Unfinished(r) = {}
    OBVIOUS
  <2>1. Runs(r, Srcache) /\ ~Moves(r) BY DEF Skip, Moves
  <2> QED BY <2>1, AtTheEnd
<1> QED BY <1>1, Invariance, PTL DEF Spec, SkipIsDecidedLast

(* The order of two entries other than srcache is that of their places      *)
(* before the move.                                                         *)
LEMMA MovedKeepsOrder ==
    ASSUME ArrayOK(handlers), NEW p \in 1..LastIndex, handlers[p] = Srcache,
           handlers' = Moved(handlers, p, LastIndex),
           NEW g \in Handlers \cup {PostAccess},
           NEW h \in Handlers \cup {PostAccess}
    PROVE  Before(handlers', g, h) <=> Before(handlers, g, h)
<1> DEFINE n == Len(handlers)
           m == handlers'
<1>1. /\ n \in Nat /\ n >= 2 /\ LastIndex = n - 1 /\ Len(m) = n
      /\ DOMAIN handlers = 1..n /\ DOMAIN m = 1..n
      /\ \A k \in 1..n :
             m[k] = IF k = n - 1 THEN Srcache
                    ELSE IF p <= k /\ k < n - 1 THEN handlers[k + 1]
                    ELSE handlers[k]
  BY MovedArray DEF ArrayOK, LastIndex
<1>2. g # Srcache /\ h # Srcache
  BY HandlersAssumption DEF Srcache, PostAccess
<1>3. Before(m, g, h) <=>
          \E j \in 1..n : \E i \in 1..j - 1 : m[i] = g /\ m[j] = h
  BY <1>1 DEF Before
<1>4. Before(handlers, g, h) <=>
          \E j \in 1..n : \E i \in 1..j - 1 : handlers[i] = g /\ handlers[j] = h
  BY <1>1 DEF Before
<1> HIDE DEF n, m
<1>5. ASSUME NEW j \in 1..n, NEW i \in 1..j - 1, m[i] = g, m[j] = h
      PROVE  \E l \in 1..n : \E k \in 1..l - 1 :
                 handlers[k] = g /\ handlers[l] = h
  <2> DEFINE from(k) == IF p <= k /\ k < n - 1 THEN k + 1 ELSE k
  <2>1. i \in 1..n /\ i # n - 1 /\ j # n - 1 BY <1>1, <1>2, <1>5
  <2>2. handlers[from(i)] = g /\ handlers[from(j)] = h
    BY <1>1, <1>5, <2>1
  <2>3. from(j) \in 1..n /\ from(i) \in 1..from(j) - 1 BY <1>1, <2>1
  <2> HIDE DEF from
  <2> QED BY <2>2, <2>3
<1>6. ASSUME NEW j \in 1..n, NEW i \in 1..j - 1,
             handlers[i] = g, handlers[j] = h
      PROVE  \E l \in 1..n : \E k \in 1..l - 1 : m[k] = g /\ m[l] = h
  <2> DEFINE to(k) == IF p < k /\ k <= n - 1 THEN k - 1 ELSE k
  <2>1. i \in 1..n /\ i # p /\ j # p BY <1>1, <1>2, <1>6
  <2>2. \A k \in 1..n : k # p => to(k) \in 1..n /\ m[to(k)] = handlers[k]
    <3> SUFFICES ASSUME NEW k \in 1..n, k # p
                 PROVE  to(k) \in 1..n /\ m[to(k)] = handlers[k]
      OBVIOUS
    <3>1. CASE p < k /\ k <= n - 1
      <4>1. /\ k - 1 \in 1..n /\ k - 1 # n - 1 /\ p <= k - 1 /\ k - 1 < n - 1
            /\ (k - 1) + 1 = k /\ to(k) = k - 1
        BY <1>1, <3>1
      <4> QED BY <1>1, <4>1
    <3>2. CASE ~(p < k /\ k <= n - 1)
      <4>1. to(k) = k /\ k # n - 1 /\ ~(p <= k /\ k < n - 1) BY <1>1, <3>2
      <4> QED BY <1>1, <4>1
    <3> QED BY <3>1, <3>2
  <2>3. m[to(i)] = g /\ m[to(j)] = h BY <1>6, <2>1, <2>2
  <2>4. to(j) \in 1..n /\ to(i) \in 1..to(j) - 1 BY <1>1, <2>1
  <2> HIDE DEF to
  <2> QED BY <2>3, <2>4
<1> QED BY <1>3, <1>4, <1>5, <1>6 DEF m

(* No other handler changes its place among the others, and srcache moves   *)
(* once (fetch.c:203-233).                                                  *)
THEOREM OnlySrcacheMoves == Spec => MoveKeepsTheOthers
<1>1. Inv /\ [Next]_vars =>
          [/\ \A g, h \in Handlers \cup {PostAccess} :
                  Before(handlers', g, h) <=> Before(handlers, g, h)
           /\ postponed => handlers' = handlers]_vars
  <2> SUFFICES ASSUME Inv, Next
               PROVE  /\ \A g, h \in Handlers \cup {PostAccess} :
                             Before(handlers', g, h) <=> Before(handlers, g, h)
                      /\ postponed => handlers' = handlers
    OBVIOUS
  <2>1. CASE handlers' = handlers BY <2>1
  <2>2. CASE handlers' # handlers
    <3>1. PICK r \in Requests : Postpone(r)
      BY <2>2
      DEF Next, Turn, RunPhases, HandlerDone, HandlerWaits, Access, Bypass,
          Skip, Miss, Declines, StoreOnly, FetchSubrequest, Leave, Ends, Over,
          vars
    <3>2. /\ handlers[phase_handler[r]] = Srcache /\ ~postponed
          /\ phase_handler[r] < LastIndex
          /\ handlers' = Moved(handlers, phase_handler[r], LastIndex)
      BY <3>1 DEF Postpone, GoesOn, Runs, Moves, Current
    <3>3. ArrayOK(handlers) /\ phase_handler[r] \in 1..LastIndex
      BY <3>2 DEF Inv, ArrayInv, ArrayOK, Typed, LastIndex
    <3> QED BY <3>2, <3>3, MovedKeepsOrder
  <2> QED BY <2>1, <2>2
<1> QED BY <1>1, Invariance, PTL DEF Spec, MoveKeepsTheOthers

=============================================================================

------------------------- MODULE SrcacheSetUpProofs -------------------------
(***************************************************************************)
(* Proofs about what is set up before anything is served: the filters and  *)
(* the handler that a configuration load registers (SrcacheRegistration),  *)
(* and the subrequests that a request sends (SrcacheSubrequest).           *)
(*                                                                         *)
(* Registration, for all files, addresses of cycles, numbers of loads and  *)
(* of workers: a block after the first is always known by prev_cycle, so   *)
(* that whichever block ends the file leaves the filters in the chain if   *)
(* any block has the handler.                                              *)
(*                                                                         *)
(* Subrequests, for all header lists, methods and sizes of parts: the      *)
(* parts that a list goes through are closed under next, each memory is    *)
(* added to by one list only, and so a list holds what was added to it.    *)
(***************************************************************************)
EXTENDS SrcacheRegistration, SrcacheSubrequest, TLAPS, WellFoundedInduction

BlockRecords == [used : BOOLEAN, handlers : Nat]

WorkerRecords ==
    [alive : BOOLEAN, blocks : Seq(BlockRecords), chain : Seq({Filter}),
     late : BOOLEAN]

Typed ==
    /\ stage \in {"idle", "file", "block", "read", "exit"}
    /\ chain \in Seq({Filter}) /\ failed \in BOOLEAN
    /\ blocks \in Seq(BlockRecords) /\ new_blocks \in Seq(BlockRecords)
    /\ workers \in [Workers -> WorkerRecords]

(* Blocks that have been read to their end.                                 *)
Finished == IF stage = "file" THEN Block ELSE Block - 1

(* The load that is going on.                                               *)
BlocksInv ==
    /\ \A b \in 1..Finished : new_blocks[b].used => new_blocks[b].handlers = 1
    /\ stage \in {"block", "read"} =>
           Block >= 1 /\ new_blocks[Block].handlers = 0
    /\ Finished >= 1 => prev_cycle = ngx_cycle

ChainInv ==
    /\ stage = "file" /\ (\E b \in 1..Block : new_blocks[b].handlers > 0) =>
           chain = <<Filter>>
    /\ stage = "read" => chain = <<>>

LoadInv == stage \in {"file", "block", "read"} => BlocksInv /\ ChainInv

(* What a worker that replaces one would be forked with.                    *)
InForce == Forked(blocks, chain, failed)

IdleInv == stage = "idle" /\ ~failed => Serves(InForce)

Inv == Typed /\ LoadInv /\ IdleInv /\ LoadedWorkersServe

-----------------------------------------------------------------------------
LEMMA NoBlocksAreServed ==
    ASSUME NEW worker, worker.blocks = <<>> PROVE Serves(worker)
BY DEF Serves

(* All of a file has been read.                                             *)
LEMMA FileIsServed ==
    ASSUME Inv, stage = "file", NEW late PROVE Serves(Forked(new_blocks, chain, late))
<1> DEFINE worker == Forked(new_blocks, chain, late)
<1>1. worker.blocks = new_blocks /\ worker.chain = chain BY DEF Forked
<1>2. DOMAIN new_blocks = 1..Block BY DEF Inv, Typed, Block
<1>3. \A b \in 1..Block : new_blocks[b].used => new_blocks[b].handlers = 1
  BY DEF Inv, LoadInv, BlocksInv, Finished
<1>4. (\E b \in 1..Block : new_blocks[b].handlers > 0) => chain = <<Filter>>
  BY DEF Inv, LoadInv, ChainInv
<1> HIDE DEF worker
<1> QED BY <1>1, <1>2, <1>3, <1>4 DEF Serves, worker

LEMMA DeadTyped == Dead \in WorkerRecords /\ ~Dead.alive
<1>1. <<>> \in Seq(BlockRecords) /\ <<>> \in Seq({Filter}) OBVIOUS
<1> QED BY <1>1 DEF Dead, WorkerRecords

LEMMA ForkedTyped ==
    ASSUME NEW bs \in Seq(BlockRecords), NEW filters \in Seq({Filter}),
           NEW late \in BOOLEAN
    PROVE  /\ Forked(bs, filters, late) \in WorkerRecords
           /\ Forked(bs, filters, late).late = late
BY DEF Forked, WorkerRecords

LEMMA Initially == Init => Inv
<1> SUFFICES ASSUME Init PROVE Inv OBVIOUS
<1>1. Typed
  <2>1. <<>> \in Seq(BlockRecords) /\ <<>> \in Seq({Filter}) OBVIOUS
  <2>2. workers \in [Workers -> WorkerRecords] BY DeadTyped DEF Init
  <2> QED BY <2>1, <2>2 DEF Init, Typed
<1>2. IdleInv BY NoBlocksAreServed DEF Init, IdleInv, InForce, Forked
<1>3. LoadInv /\ LoadedWorkersServe
  BY DEF Init, LoadInv, LoadedWorkersServe, Dead
<1> QED BY <1>1, <1>2, <1>3 DEF Inv

(* While nothing happens to the workers.                                    *)
LEMMA WorkersStay ==
    ASSUME Inv, UNCHANGED workers PROVE LoadedWorkersServe'
BY DEF Inv, LoadedWorkersServe, Serves

LEMMA LoadKeeps ==
    ASSUME Inv, NEW file, NEW address, Load(file, address) PROVE Inv'
<1> USE DEF Load, master
<1>1. Typed' BY DEF Inv, Typed
<1>2. LoadInv' BY DEF LoadInv, BlocksInv, ChainInv, Finished, Block
<1>3. IdleInv' BY DEF IdleInv
<1> QED BY <1>1, <1>2, <1>3, WorkersStay DEF Inv

LEMMA CreateMainConfKeeps == ASSUME Inv, CreateMainConf PROVE Inv'
<1> DEFINE new == [used |-> FALSE, handlers |-> 0]
<1>1. /\ stage = "file" /\ stage' = "block"
      /\ new_blocks' = Append(new_blocks, new)
      /\ UNCHANGED <<ngx_cycle, prev_cycle, chain, blocks, workers, failed>>
  BY DEF CreateMainConf, master
<1>2. new \in BlockRecords /\ new.handlers = 0 /\ new_blocks \in Seq(BlockRecords)
  BY DEF BlockRecords, Inv, Typed
<1> HIDE DEF new
<1>3. /\ new_blocks' \in Seq(BlockRecords) /\ Block \in Nat
      /\ Block' = Block + 1 /\ new_blocks'[Block + 1] = new
      /\ \A b \in 1..Block : new_blocks'[b] = new_blocks[b]
  BY <1>1, <1>2 DEF Block
<1>4. Typed' BY <1>1, <1>3 DEF Inv, Typed
<1>5. Finished = Block /\ Finished' = Block BY <1>1, <1>3 DEF Finished
<1>6. BlocksInv'
  <2>1. /\ \A b \in 1..Block :
               new_blocks[b].used => new_blocks[b].handlers = 1
        /\ Block >= 1 => prev_cycle = ngx_cycle
    BY <1>1, <1>5 DEF Inv, LoadInv, BlocksInv
  <2>2. \A b \in 1..Finished' :
            new_blocks'[b].used => new_blocks'[b].handlers = 1
    BY <1>3, <1>5, <2>1
  <2>3. Block' >= 1 /\ new_blocks'[Block'].handlers = 0 BY <1>2, <1>3
  <2> QED BY <1>1, <1>5, <2>1, <2>2, <2>3 DEF BlocksInv
<1>7. ChainInv' /\ IdleInv' BY <1>1 DEF ChainInv, IdleInv
<1> QED BY <1>1, <1>4, <1>6, <1>7, WorkersStay DEF Inv, LoadInv

LEMMA DirectiveKeeps == ASSUME Inv, Directive PROVE Inv'
<1> DEFINE used == new_blocks[Block].used \/ Head(Head(rest)) = "request"
           new == [new_blocks[Block] EXCEPT !.used = used]
<1>1. /\ stage = "block" /\ stage' = "block"
      /\ new_blocks' = [new_blocks EXCEPT ![Block].used
                            = @ \/ Head(Head(rest)) = "request"]
      /\ UNCHANGED <<ngx_cycle, prev_cycle, chain, blocks, workers, failed>>
  BY DEF Directive, master
<1>2. /\ new_blocks \in Seq(BlockRecords) /\ Block \in 1..Len(new_blocks)
      /\ new_blocks[Block].handlers = 0 /\ BlocksInv
  BY <1>1 DEF Inv, Typed, LoadInv, BlocksInv, Block
<1>3. new \in BlockRecords /\ new.handlers = 0
  <2>1. used \in BOOLEAN OBVIOUS
  <2>2. new_blocks[Block] \in BlockRecords BY <1>2
  <2> HIDE DEF used
  <2> QED BY <1>2, <2>1, <2>2 DEF BlockRecords
<1>4. new_blocks' = [new_blocks EXCEPT ![Block] = new] BY <1>1
<1> HIDE DEF new
<1>5. /\ new_blocks' \in Seq(BlockRecords) /\ Block' = Block
      /\ new_blocks'[Block] = new
      /\ \A b \in 1..Block - 1 : new_blocks'[b] = new_blocks[b]
  BY <1>2, <1>3, <1>4 DEF Block
<1>6. Typed' BY <1>1, <1>5 DEF Inv, Typed
<1>7. Finished = Block - 1 /\ Finished' = Block - 1
  BY <1>1, <1>5 DEF Finished
<1>8. BlocksInv' BY <1>1, <1>2, <1>3, <1>5, <1>7 DEF BlocksInv
<1>9. ChainInv' /\ IdleInv' BY <1>1 DEF ChainInv, IdleInv
<1> QED BY <1>1, <1>6, <1>8, <1>9, WorkersStay DEF Inv, LoadInv

LEMMA BlockEndsKeeps == ASSUME Inv, BlockEnds PROVE Inv'
<1>1. /\ stage = "block" /\ stage' = "read" /\ chain' = <<>>
      /\ UNCHANGED <<ngx_cycle, prev_cycle, blocks, new_blocks, workers, failed>>
  BY DEF BlockEnds
<1>2. Typed' BY <1>1 DEF Inv, Typed
<1>3. Block' = Block /\ Finished' = Finished BY <1>1 DEF Block, Finished
<1>4. BlocksInv'
  BY <1>1, <1>3 DEF Inv, LoadInv, BlocksInv
<1>5. ChainInv' /\ IdleInv' BY <1>1 DEF ChainInv, IdleInv
<1> QED BY <1>1, <1>2, <1>4, <1>5, WorkersStay DEF Inv, LoadInv

LEMMA PostConfigKeeps == ASSUME Inv, PostConfig PROVE Inv'
<1>1. /\ stage = "read" /\ stage' = "file" /\ prev_cycle' = ngx_cycle
      /\ UNCHANGED <<ngx_cycle, blocks, workers, failed>>
  BY DEF PostConfig
<1>2. /\ Typed /\ chain = <<>> /\ BlocksInv /\ Block \in 1..Len(new_blocks)
      /\ new_blocks \in Seq(BlockRecords) /\ Finished = Block - 1
      /\ new_blocks[Block].handlers = 0 /\ Len(new_blocks) \in Nat
  BY <1>1 DEF Inv, Typed, LoadInv, BlocksInv, ChainInv, Block, Finished
<1>3. IdleInv' BY <1>1 DEF IdleInv
<1>4. CASE /\ Registers
           /\ FilterInit
           /\ new_blocks' = [new_blocks EXCEPT ![Block].handlers = @ + 1]
  <2> DEFINE new == [new_blocks[Block] EXCEPT !.handlers = @ + 1]
  <2>1. new \in BlockRecords /\ new.handlers = 1
    <3>1. new_blocks[Block] \in BlockRecords BY <1>2
    <3> QED BY <1>2, <3>1 DEF BlockRecords
  <2>2. new_blocks' = [new_blocks EXCEPT ![Block] = new] BY <1>4
  <2> HIDE DEF new
  <2>3. /\ new_blocks' \in Seq(BlockRecords) /\ Block' = Block
        /\ new_blocks'[Block] = new
        /\ \A b \in 1..Block - 1 : new_blocks'[b] = new_blocks[b]
    BY <1>2, <2>1, <2>2 DEF Block
  <2>4. chain' = <<Filter>> BY <1>2, <1>4 DEF FilterInit
  <2>5. Typed' BY <1>1, <2>3, <2>4 DEF Inv, Typed
  <2>6. Finished' = Block BY <1>1, <2>3 DEF Finished
  <2>7. BlocksInv'
    BY <1>1, <1>2, <2>1, <2>3, <2>6 DEF BlocksInv
  <2>8. ChainInv' BY <1>1, <2>4 DEF ChainInv
  <2> QED BY <1>1, <1>3, <2>5, <2>7, <2>8, WorkersStay DEF Inv, LoadInv
<1>5. CASE ~Registers /\ UNCHANGED <<chain, new_blocks>>
  <2>1. Typed' BY <1>1, <1>5 DEF Inv, Typed
  <2>2. Block = 1 /\ ~new_blocks[1].used
    BY <1>2, <1>5 DEF Registers, MultiHttpBlocks, BlocksInv
  <2>3. Block' = Block /\ Finished' = Block BY <1>1, <1>5 DEF Block, Finished
  <2>4. BlocksInv' /\ ChainInv'
    BY <1>1, <1>2, <1>5, <2>2, <2>3 DEF BlocksInv, ChainInv
  <2> QED BY <1>1, <1>3, <2>1, <2>4, WorkersStay DEF Inv, LoadInv
<1> QED BY <1>4, <1>5 DEF PostConfig

(* However a load fails.                                                    *)
LEMMA FailureKeeps ==
    ASSUME Inv, PostConfigNoMemory \/ PostConfigNoVariables \/ LoadFails
    PROVE  Inv'
<1>1. /\ stage' \in {"idle", "exit"} /\ failed' = TRUE /\ new_blocks' = <<>>
      /\ UNCHANGED <<blocks, workers>> /\ chain' \in {chain, <<Filter>> \o chain}
  BY DEF PostConfigNoMemory, PostConfigNoVariables, LoadFails, GivesUp,
         FilterInit
<1>2. chain' \in Seq({Filter})
  <2>1. chain \in Seq({Filter}) /\ <<Filter>> \in Seq({Filter})
    BY DEF Inv, Typed
  <2>2. <<Filter>> \o chain \in Seq({Filter}) BY <2>1
  <2> QED BY <1>1, <2>1, <2>2
<1>3. Typed' BY <1>1, <1>2 DEF Inv, Typed
<1>4. LoadInv' /\ IdleInv' BY <1>1 DEF LoadInv, IdleInv
<1> QED BY <1>1, <1>3, <1>4, WorkersStay DEF Inv

LEMMA LoadSucceedsKeeps == ASSUME Inv, LoadSucceeds PROVE Inv'
<1> DEFINE worker == Forked(new_blocks, chain, FALSE)
<1>1. /\ stage = "file" /\ stage' = "idle" /\ blocks' = new_blocks
      /\ failed' = FALSE /\ new_blocks' = <<>> /\ chain' = chain
      /\ workers' = [w \in Workers |-> worker]
  BY DEF LoadSucceeds
<1>2. Serves(worker) BY <1>1, FileIsServed
<1>3. worker \in WorkerRecords BY ForkedTyped DEF Inv, Typed
<1>4. InForce' = worker BY <1>1 DEF InForce, Forked
<1> HIDE DEF worker
<1>5. Typed'
  <2>1. <<>> \in Seq(BlockRecords) OBVIOUS
  <2>2. workers' \in [Workers -> WorkerRecords] BY <1>1, <1>3
  <2> QED BY <1>1, <2>1, <2>2 DEF Inv, Typed
<1>6. LoadInv' BY <1>1 DEF LoadInv
<1>7. IdleInv'
  <2>1. Serves(InForce)' <=> Serves(InForce') BY DEF Serves
  <2> QED BY <1>2, <1>4, <2>1 DEF IdleInv
<1>8. LoadedWorkersServe'
  BY <1>1, <1>2 DEF LoadedWorkersServe, Serves
<1> QED BY <1>5, <1>6, <1>7, <1>8 DEF Inv

(* One worker changes: it dies, or is replaced by one that serves.          *)
LEMMA WorkerKeeps ==
    ASSUME Inv, NEW w \in Workers, WorkerDies(w) \/ Respawn(w) PROVE Inv'
<1>1. /\ UNCHANGED <<ngx_cycle, prev_cycle, chain, blocks, stage, loading, rest,
                     new_blocks, failed>>
      /\ \/ workers' = [workers EXCEPT ![w] = Dead]
         \/ stage = "idle" /\ workers' = [workers EXCEPT ![w] = InForce]
  BY DEF WorkerDies, Respawn, master, reading, InForce
<1>2. PICK new : /\ workers' = [workers EXCEPT ![w] = new]
                 /\ new = Dead \/ (stage = "idle" /\ new = InForce)
  BY <1>1
<1>3. InForce \in WorkerRecords /\ InForce.late = failed
  BY ForkedTyped DEF Inv, Typed, InForce
<1>4. new \in WorkerRecords /\ (new.alive /\ ~new.late => Serves(new))
  <2>1. CASE new = Dead BY <2>1, DeadTyped
  <2>2. CASE stage = "idle" /\ new = InForce
    BY <1>3, <2>2 DEF Inv, IdleInv
  <2> QED BY <1>2, <2>1, <2>2
<1>5. Typed' BY <1>1, <1>2, <1>4 DEF Inv, Typed
<1>6. LoadInv'
  BY <1>1 DEF Inv, LoadInv, BlocksInv, ChainInv, Finished, Block
<1>7. IdleInv' BY <1>1 DEF Inv, IdleInv, InForce, Forked, Serves
<1>8. LoadedWorkersServe'
  <2> SUFFICES ASSUME NEW v \in Workers, workers'[v].alive, ~workers'[v].late
               PROVE  Serves(workers'[v])
    BY DEF LoadedWorkersServe, Serves
  <2>1. CASE v = w BY <1>2, <1>4, <2>1 DEF Inv, Typed
  <2>2. CASE v # w
    BY <1>2, <2>2 DEF Inv, Typed, LoadedWorkersServe
  <2> QED BY <2>1, <2>2
<1> QED BY <1>5, <1>6, <1>7, <1>8 DEF Inv

LEMMA StutterKeeps == ASSUME Inv, UNCHANGED vars PROVE Inv'
<1> USE DEF vars, master, reading
<1>1. Typed' BY DEF Inv, Typed
<1>2. LoadInv' BY DEF Inv, LoadInv, BlocksInv, ChainInv, Finished, Block
<1>3. IdleInv' BY DEF Inv, IdleInv, InForce, Forked, Serves
<1> QED BY <1>1, <1>2, <1>3, WorkersStay DEF Inv

LEMMA Step == ASSUME Inv, [Next]_vars PROVE Inv'
BY LoadKeeps, CreateMainConfKeeps, DirectiveKeeps, BlockEndsKeeps,
   PostConfigKeeps, FailureKeeps, LoadSucceedsKeeps, WorkerKeeps, StutterKeeps
DEF Next, Exited

(* Every worker that a successful load has forked, or that replaces one     *)
(* before another load fails, has the filters in front of those of nginx    *)
(* and the access handler in every block that needs it                      *)
(* (ngx_http_srcache_post_config, filter_module.c:531-558).                 *)
THEOREM WorkersServe == Spec => []LoadedWorkersServe
<1>1. Init => Inv BY Initially
<1>2. Inv /\ [Next]_vars => Inv' BY Step
<1>3. Inv => LoadedWorkersServe BY DEF Inv
<1> QED BY <1>1, <1>2, <1>3, PTL DEF Spec

-----------------------------------------------------------------------------
(***************************************************************************)
(* SrcacheSubrequest.                                                      *)
(***************************************************************************)
(* Lists of parts.                                                          *)

Data == Headers \cup {OwnLength, Null}
Spares == ToSet(SpareParts)
Places == Parts \cup {Null}
Allocated == { SpareParts[k] : k \in 1..heap }

PartRecords == [elts : Parts, nelts : 0..NAlloc, next : Spares \cup {Null}]

(* A part of a list comes after those of its list that were allocated       *)
(* before.                                                                  *)
Follows(p, q) ==
    \E k \in 1..Len(SpareParts) :
        /\ q = SpareParts[k]
        /\ p \in Requests \/ \E j \in 1..(k - 1) : p = SpareParts[j]

Memory(ps, as) ==
    /\ ps \in [Parts -> PartRecords]
    /\ as \in [Parts -> [1..NAlloc -> Data]]
    /\ \A p \in Parts : ps[p].next = Null \/ Follows(p, ps[p].next)

(* What lies in one part, and in a list from a part on.                     *)
Held(ps, as, p) == SubSeq(as[ps[p].elts], 1, ps[p].nelts)

Contents(ps, as, r) ==
    LET From[p \in Places] ==
            IF p = Null THEN <<>>
            ELSE SubSeq(as[ps[p].elts], 1, ps[p].nelts) \o From[ps[p].next]
    IN  From[r]

(* C is closed, and end is its last part.                                   *)
IsList(ps, C, end) ==
    \A p \in C : /\ ps[p].next \in C \cup {Null}
                 /\ ps[p].next = Null <=> p = end

-----------------------------------------------------------------------------
(* The invariant.                                                           *)

ListsTyped ==
    /\ Memory(parts, arrays) /\ heap \in 0..Len(SpareParts)
    /\ \A p \in Parts : parts[p].next \in Allocated \cup {Null}
    /\ last \in [Requests -> Requests \cup Allocated]
    /\ state \in [Requests ->
                     {"none", "created", "forwarding", "running", "ended"}]
    /\ said \in [Requests -> Seq(Data)] /\ shares \in BOOLEAN
    /\ \A r \in Subrequests :
           state[r] \in {"none", "created", "forwarding"} => r \notin ctx
    /\ \E S : method \in [Requests -> S]
    /\ request_body \in [Requests -> Requests]
    /\ content_length_n \in [Requests -> Requests]

(* Whose memory a part and the end of a list are in.                        *)
Owned ==
    /\ parts[Main].elts = Main /\ \A p \in Spares : parts[p].elts = p
    /\ parts["fetch"].elts \in {Main, "fetch"}
    /\ parts["store"].elts \in {Main, "store"}
    /\ state["store"] = "created" => parts["store"].elts = Main
    /\ last[Main] \in {Main} \cup Allocated

(* The fetch is over before the store begins.                               *)
InTurn ==
    /\ state["store"] # "none" => state["fetch"] \in {"none", "ended"}
    /\ state["fetch"] # "forwarding"
    /\ state[Main] \in {"running", "ended"}

MainOK ==
    ~shares =>
        /\ Elements(Main) = said[Main]
        /\ \E C \in SUBSET ({Main} \cup Allocated) :
               Main \in C /\ last[Main] \in C /\ IsList(parts, C, last[Main])

(* The fetch subrequest shares the array of the parent's only part, and     *)
(* writes behind the parent's elements.                                     *)
FetchOK ==
    ~shares /\ state["fetch"] \in {"created", "running"} =>
        /\ parts[Main].next = Null /\ last[Main] = Main
        /\ parts["fetch"].elts = Main
        /\ parts["fetch"].nelts >= parts[Main].nelts
        /\ Elements("fetch") = said["fetch"]
        /\ state["fetch"] = "created" => parts["fetch"].next = Null
        /\ state["fetch"] = "running" =>
               \E C \in SUBSET ({"fetch"} \cup Allocated) :
                   /\ "fetch" \in C /\ last["fetch"] \in C
                   /\ IsList(parts, C, last["fetch"])

(* The store subrequest has a list of its own.                              *)
OwnsList ==
    state["store"] \in {"forwarding", "running"} /\ parts["store"].elts = "store"

(* What is left to be forwarded.                                            *)
Rest == SubSeq(arrays[parts[at].elts], i, parts[at].nelts)
        \o Elements(parts[at].next)

OwnList(D) ==
    /\ D \subseteq {"store"} \cup Allocated /\ "store" \in D
    /\ last["store"] \in D /\ IsList(parts, D, last["store"])
    /\ last[Main] \notin D /\ \A p \in Parts \ D : parts[p].next \notin D

StoreOK ==
    /\ state["store"] = "created" => said["store"] = Due("store")
    /\ OwnsList =>
           \E D \in SUBSET Parts :
               /\ OwnList(D)
               /\ state["store"] = "forwarding" =>
                      at \in ({Main} \cup Allocated) \ D
    /\ state["store"] = "forwarding" =>
           /\ i \in 1..(parts[at].nelts + 1)
           /\ said["store"] = Elements("store") \o WithoutLength(Rest)
    /\ state["store"] = "forwarding" \/ (state["store"] = "running" /\
                                         (~shares \/ "store" \in ctx)) =>
           parts["store"].elts = "store"
    /\ state["store"] = "forwarding" \/ (state["store"] = "running" /\
                                         "store" \in ctx) =>
           /\ method["store"] = conf["store"]
           /\ request_body["store"] = "store"
           /\ content_length_n["store"] = "store"
    /\ state["store"] = "running" /\ "store" \in ctx =>
           Elements("store") = said["store"]

ListsInv == ListsTyped /\ Owned /\ InTurn /\ MainOK /\ FetchOK /\ StoreOK

-----------------------------------------------------------------------------
(* Numbers and parts.                                                       *)

(* Every set of numbers has a least one.                                    *)
LEMMA LeastNumber ==
  ASSUME NEW T, T \subseteq Nat, T # {}
  PROVE  \E n \in T : \A k \in T : n <= k
  <1> DEFINE R == OpToRel(<, Nat)
  <1>1. IsWellFoundedOn(R, Nat)
    BY NatLessThanWellFounded
  <1>2. \A a, b \in Nat : <<a, b>> \in R <=> a < b
    BY DEF OpToRel
  <1> HIDE DEF R
  <1>3. PICK n \in T : \A k \in T : <<k, n>> \notin R
    BY <1>1, WFMin
  <1>4. ASSUME NEW k \in T
        PROVE  n <= k
    <2>1. k \in Nat /\ n \in Nat /\ ~(k < n)
      BY <1>2, <1>3
    <2> QED
      BY <2>1
  <1> QED
    BY <1>4

(* The names of parts.                                                      *)
LEMMA PartNames ==
  /\ Len(SpareParts) \in Nat /\ Null \notin Parts
  /\ \A k \in 1..Len(SpareParts) :
         SpareParts[k] \in Spares /\ SpareParts[k] \notin Requests
  /\ \A k, l \in 1..Len(SpareParts) :
         SpareParts[k] = SpareParts[l] => k = l
  /\ \A p \in Spares : \E k \in 1..Len(SpareParts) : p = SpareParts[k]
  /\ Parts = Requests \cup Spares /\ Spares \cap Requests = {}
  /\ Null \notin Spares
  <1>1. /\ SpareParts \in Seq(STRING) /\ IsInjective(SpareParts)
        /\ Spares \cap (Requests \cup {Null}) = {}
    BY PartsAssumption DEF Spares
  <1>2. /\ Len(SpareParts) \in Nat
        /\ DOMAIN SpareParts = 1..Len(SpareParts)
    BY <1>1
  <1>3. Spares = { SpareParts[k] : k \in 1..Len(SpareParts) }
    BY <1>2 DEF Spares, ToSet
  <1>4. Parts = Requests \cup Spares
    BY DEF Parts, Spares
  <1>5. Null \notin Requests
    BY DEF Null, Requests, Subrequests, Main
  <1>6. \A k, l \in 1..Len(SpareParts) :
           SpareParts[k] = SpareParts[l] => k = l
    BY <1>1, <1>2 DEF IsInjective
  <1> QED
    BY <1>1, <1>2, <1>3, <1>4, <1>5, <1>6

(* What holds of the end of every list and is handed up from each part to   *)
(* the one before it holds of all parts.                                    *)
LEMMA ChainInduction ==
  ASSUME NEW ps, NEW as, Memory(ps, as), NEW T, Null \in T,
         \A p \in Parts : ps[p].next \in T => p \in T
  PROVE  Places \subseteq T
  <1> DEFINE len == Len(SpareParts)
             Bad == { d \in 0..len : \E k \in 1..len :
                        d = len - k /\ SpareParts[k] \notin T }
  <1>1. ASSUME Bad # {} PROVE FALSE
    <2>1. Bad \subseteq Nat
      OBVIOUS
    <2>2. PICK d \in Bad : \A e \in Bad : d <= e
      BY <1>1, <2>1, LeastNumber
    <2>3. PICK k \in 1..len : d = len - k /\ SpareParts[k] \notin T
      BY <2>2
    <2> DEFINE p == SpareParts[k]
    <2>4. p \in Parts /\ len \in Nat
      BY <2>3, PartNames
    <2>5. ps[p].next # Null /\ ps[p].next \notin T
      BY <2>3, <2>4
    <2>6. PICK l \in 1..len : /\ ps[p].next = SpareParts[l]
                              /\ \/ p \in Requests
                                 \/ \E j \in 1..(l - 1) : p = SpareParts[j]
      BY <2>4, <2>5 DEF Memory, Follows
    <2>7. k < l
      BY <2>3, <2>4, <2>6, PartNames
    <2>8. len - l \in Bad
      BY <2>4, <2>5, <2>6
    <2>9. d <= len - l
      BY <2>2, <2>8
    <2> HIDE DEF Bad, len, p
    <2> QED
      BY <2>3, <2>4, <2>6, <2>7, <2>9
  <1>2. ASSUME NEW k \in 1..len
        PROVE  SpareParts[k] \in T
    <2>1. len - k \in 0..len
      BY PartNames
    <2> QED
      BY <1>1, <2>1
  <1> HIDE DEF Bad, len
  <1>3. Spares \cup {Null} \subseteq T
    BY <1>2, PartNames DEF len
  <1>4. \A p \in Parts : ps[p].next \in Spares \cup {Null}
    BY DEF Memory, PartRecords
  <1> QED
    BY <1>3, <1>4, PartNames DEF Places

-----------------------------------------------------------------------------
(* What is in a list.                                                       *)

LEMMA HeldTyped ==
  ASSUME NEW ps, NEW as, Memory(ps, as), NEW p \in Parts
  PROVE  /\ Held(ps, as, p) \in Seq(Data)
         /\ Len(Held(ps, as, p)) = ps[p].nelts
         /\ \A k \in 1..ps[p].nelts : Held(ps, as, p)[k] = as[ps[p].elts][k]
         /\ ps[p].nelts \in 0..NAlloc /\ ps[p].next \in Places
         /\ ps[p].elts \in Parts
  <1> DEFINE s == as[ps[p].elts]  n == ps[p].nelts
  <1>1. /\ ps[p].elts \in Parts /\ n \in 0..NAlloc
        /\ ps[p].next \in Spares \cup {Null}
    BY DEF Memory, PartRecords
  <1>2. s \in [1..NAlloc -> Data] /\ NAlloc \in Nat
    BY <1>1, BoundsAssumption DEF Memory
  <1> HIDE DEF s, n
  <1>3. s \in Seq(Data) /\ Len(s) = NAlloc
    BY <1>2
  <1>4. /\ SubSeq(s, 1, n) \in Seq(Data) /\ Len(SubSeq(s, 1, n)) = n
        /\ \A k \in 1..n : SubSeq(s, 1, n)[k] = s[k]
    BY <1>1, <1>2, <1>3
  <1> QED
    BY <1>1, <1>4, PartNames DEF Held, s, n, Places

Solves(ps, as, f) ==
    f = [p \in Places |-> IF p = Null THEN <<>>
                          ELSE Held(ps, as, p) \o f[ps[p].next]]

(* A function that satisfies the equation of Contents exists: no part comes *)
(* twice in a list.                                                         *)
LEMMA ContentsExist ==
  ASSUME NEW ps, NEW as, Memory(ps, as)
  PROVE  \E f : Solves(ps, as, f)
  <1> DEFINE len == Len(SpareParts)
             Late(n) == {Null} \cup { SpareParts[k] : k \in (len - n + 1)..len }
             Fits(f, p) == f[p] = IF p = Null THEN <<>>
                                  ELSE Held(ps, as, p) \o f[ps[p].next]
             Good(n, f) == /\ f \in [Places -> Seq(Data)]
                           /\ \A p \in Late(n) : Fits(f, p)
             T == { n \in 0..len : ~ \E f : Good(n, f) }
  <1>1. len \in Nat
    BY PartNames
  <1>2. ASSUME NEW f \in [Places -> Seq(Data)], NEW p \in Parts
        PROVE  /\ Held(ps, as, p) \o f[ps[p].next] \in Seq(Data)
               /\ ps[p].next \in Places
    <2>1. Held(ps, as, p) \in Seq(Data) /\ ps[p].next \in Places
      BY HeldTyped
    <2>2. f[ps[p].next] \in Seq(Data)
      BY <2>1
    <2>3. \A s, t \in Seq(Data) : s \o t \in Seq(Data)
      OBVIOUS
    <2> QED
      BY <2>1, <2>2, <2>3, Zenon
  <1>3. ASSUME T # {} PROVE FALSE
    <2>1. PICK n \in T : \A k \in T : n <= k
      <3>1. T \subseteq Nat
        <4> HIDE DEF Good, len
        <4> QED
          BY <1>1
      <3> QED
        BY <1>3, <3>1, LeastNumber
    <2>2. n \in 0..len /\ ~ \E f : Good(n, f)
      BY <2>1
    <2>3. n # 0
      <3>1. ASSUME n = 0 PROVE FALSE
        <4> DEFINE f == [p \in Places |-> <<>>]
        <4>1. Late(n) = {Null}
          BY <1>1, <3>1
        <4>2. f \in [Places -> Seq(Data)] /\ f[Null] = <<>>
          BY DEF Places
        <4>3. Good(n, f)
          BY <4>1, <4>2
        <4> QED
          BY <2>2, <4>3
      <3> QED
        BY <3>1
    <2>4. n - 1 \in 0..len /\ n - 1 \notin T
      <3>1. n - 1 \in 0..len /\ ~(n <= n - 1)
        BY <1>1, <2>2, <2>3
      <3> QED
        BY <2>1, <3>1
    <2>5. PICK f : Good(n - 1, f)
      BY <2>4
    <2> DEFINE k == len - n + 1
               q == SpareParts[k]
               g == [f EXCEPT ![q] = Held(ps, as, q) \o f[ps[q].next]]
    <2>6. k \in 1..len /\ q \in Parts /\ q # Null
      BY <1>1, <2>2, <2>3, PartNames
    <2>7. Late(n) = Late(n - 1) \cup {q} /\ q \notin Late(n - 1)
      <3>1. (len - n + 1)..len = ((len - (n - 1) + 1)..len) \cup {k}
        BY <1>1, <2>2, <2>3
      <3>2. \A l \in (len - (n - 1) + 1)..len : l \in 1..len /\ l # k
        BY <1>1, <2>2, <2>3
      <3> QED
        BY <2>6, <3>1, <3>2, PartNames
    <2>8. g \in [Places -> Seq(Data)]
      BY <1>2, <2>5, <2>6 DEF Places
    <2>9. ASSUME NEW p \in Late(n)
          PROVE  p # Null => p \in Parts /\ ps[p].next \in Late(n) \ {q}
      <3>1. CASE p = Null
        BY <3>1
      <3>2. CASE p # Null
        <4>1. PICK l \in k..len : p = SpareParts[l]
          BY <3>2
        <4>2. p \in Spares /\ l \in 1..len
          BY <2>6, <4>1, PartNames
        <4>3. p \in Parts
          BY <4>2, PartNames
        <4>4. CASE ps[p].next = Null
          BY <2>6, <4>3, <4>4
        <4>5. CASE ps[p].next # Null
          <5>1. PICK m \in 1..len :
                  /\ ps[p].next = SpareParts[m]
                  /\ p \in Requests \/ \E j \in 1..(m - 1) : p = SpareParts[j]
            BY <4>3, <4>5 DEF Memory, Follows
          <5>2. PICK j \in 1..(m - 1) : p = SpareParts[j]
            BY <4>2, <5>1, PartNames
          <5>3. j \in 1..len
            BY <1>1, <5>1, <5>2
          <5>4. j = l
            BY <4>1, <4>2, <5>2, <5>3, PartNames
          <5>5. m \in k..len /\ m # k
            BY <1>1, <2>6, <4>1, <5>1, <5>2, <5>4
          <5>6. SpareParts[m] # q
            BY <2>6, <5>1, <5>5, PartNames
          <5> QED
            BY <4>3, <5>1, <5>5, <5>6
        <4> QED
          BY <4>4, <4>5
      <3> QED
        BY <3>1, <3>2
    <2>10. ASSUME NEW p \in Late(n)
           PROVE  Fits(g, p)
      <3> HIDE DEF Late, k, q, len
      <3>1. \A x \in Places \ {q} : g[x] = f[x]
        BY <2>5
      <3>2. CASE p = q
        <4>1. g[q] = Held(ps, as, q) \o f[ps[q].next]
          BY <2>5, <2>6 DEF Places
        <4>2. ps[q].next # q /\ ps[q].next \in Places
          BY <1>2, <2>5, <2>6, <2>9, <3>2
        <4> QED
          BY <2>6, <3>1, <3>2, <4>1, <4>2
      <3>3. CASE p # q
        <4>1. p \in Late(n - 1)
          BY <2>7, <3>3
        <4>2. Fits(f, p)
          BY <2>5, <4>1
        <4>3. CASE p = Null
          BY <2>6, <3>1, <4>2, <4>3 DEF Places
        <4>4. CASE p # Null
          <5>1. p \in Parts /\ ps[p].next # q
            BY <2>9, <4>4
          <5>2. ps[p].next \in Places
            BY <1>2, <2>5, <5>1
          <5> QED
            BY <3>1, <3>3, <4>2, <4>4, <5>1, <5>2 DEF Places
        <4> QED
          BY <4>3, <4>4
      <3> QED
        BY <3>2, <3>3
    <2>11. Good(n, g)
      <3> HIDE DEF g, Fits, Late
      <3> QED
        BY <2>8, <2>10
    <2> QED
      BY <2>2, <2>11
  <1>4. PICK f : Good(len, f)
    <2> HIDE DEF Good, len
    <2>1. len \in 0..len /\ len \notin T
      BY <1>1, <1>3
    <2> QED
      BY <2>1
  <1> DEFINE h == [p \in Places |->
                     IF p \in Requests THEN Held(ps, as, p) \o f[ps[p].next]
                     ELSE f[p]]
  <1>5. Late(len) = {Null} \cup Spares
    <2>1. len - len + 1 = 1
      BY <1>1
    <2>2. Spares = { SpareParts[k] : k \in 1..len }
      BY PartNames
    <2> QED
      BY <2>1, <2>2
  <1>6. \A p \in Parts : ps[p].next \in Spares \cup {Null}
    BY DEF Memory, PartRecords
  <1>7. \A p \in Spares \cup {Null} : p \in Places /\ h[p] = f[p]
    <2>1. Null \notin Requests /\ Spares \cap Requests = {}
      BY PartNames
    <2> QED
      BY <2>1, PartNames DEF Places
  <1>8. ASSUME NEW p \in Places
        PROVE  h[p] = IF p = Null THEN <<>>
                      ELSE Held(ps, as, p) \o h[ps[p].next]
    <2>1. CASE p \in Requests
      <3>1. p \in Parts /\ p # Null
        BY <2>1, PartNames
      <3>2. h[ps[p].next] = f[ps[p].next]
        BY <1>6, <1>7, <3>1
      <3> QED
        BY <2>1, <3>1, <3>2
    <2>2. CASE p = Null
      BY <1>4, <1>5, <1>7, <2>2
    <2>3. CASE p \in Spares
      <3>1. p \in Parts /\ p # Null /\ h[ps[p].next] = f[ps[p].next]
        BY <1>6, <1>7, <2>3, PartNames
      <3>2. f[p] = Held(ps, as, p) \o f[ps[p].next]
        BY <1>4, <1>5, <2>3, <3>1
      <3> QED
        BY <1>7, <2>3, <3>1, <3>2
    <2> QED
      BY <2>1, <2>2, <2>3, PartNames DEF Places
  <1>9. h = [p \in Places |-> IF p = Null THEN <<>>
                              ELSE Held(ps, as, p) \o h[ps[p].next]]
    <2> DEFINE e == [p \in Places |-> IF p = Null THEN <<>>
                              ELSE Held(ps, as, p) \o h[ps[p].next]]
    <2>1. \A p \in Places : h[p] = e[p]
      BY <1>8
    <2>2. DOMAIN h = Places /\ DOMAIN e = Places
          /\ h = [p \in DOMAIN h |-> h[p]] /\ e = [p \in DOMAIN e |-> e[p]]
      OBVIOUS
    <2> HIDE DEF h, e
    <2>3. h = e
      BY <2>1, <2>2
    <2> QED
      BY <2>3 DEF e
  <1>10. Solves(ps, as, h)
    <2> HIDE DEF h
    <2> QED
      BY <1>9 DEF Solves
  <1> QED
    BY <1>10


(* The equation, with the type of what it yields.                           *)
LEMMA ContentsUnfold ==
  ASSUME NEW ps, NEW as, Memory(ps, as)
  PROVE  /\ Contents(ps, as, Null) = <<>>
         /\ \A p \in Parts : Contents(ps, as, p) =
                Held(ps, as, p) \o Contents(ps, as, ps[p].next)
         /\ \A p \in Places : Contents(ps, as, p) \in Seq(Data)
  <1> DEFINE f == CHOOSE f : Solves(ps, as, f)
  <1>1. Solves(ps, as, f)
    BY ContentsExist, Zenon
  <1>2. \A p : Contents(ps, as, p) = f[p]
    BY DEF Contents, Held, Solves
  <1> HIDE DEF f
  <1>3. /\ \A p \in Places : f[p] = IF p = Null THEN <<>>
                                   ELSE Held(ps, as, p) \o f[ps[p].next]
    BY <1>1, Zenon DEF Solves
  <1>4. Null \in Places /\ \A p \in Parts : p \in Places /\ p # Null
    BY PartNames DEF Places
  <1>5. /\ Contents(ps, as, Null) = <<>>
        /\ \A p \in Parts : Contents(ps, as, p) =
               Held(ps, as, p) \o Contents(ps, as, ps[p].next)
    BY <1>2, <1>3, <1>4
  <1>6. \A s, t \in Seq(Data) : s \o t \in Seq(Data)
    OBVIOUS
  <1> DEFINE T == { p \in Places : Contents(ps, as, p) \in Seq(Data) }
  <1>7. Null \in T
    BY <1>4, <1>5
  <1>8. ASSUME NEW p \in Parts, ps[p].next \in T
        PROVE  p \in T
    <2>1. Held(ps, as, p) \in Seq(Data)
      BY HeldTyped
    <2> QED
      BY <1>4, <1>5, <1>6, <1>8, <2>1
  <1> HIDE DEF T
  <1>9. Places \subseteq T
    BY <1>7, <1>8, ChainInduction
  <1> QED
    BY <1>5, <1>9 DEF T

(* Parts that stay as they are, and lead to such parts, hold the same list. *)
Alike(ps, as, qs, bs, C) ==
    /\ Memory(ps, as) /\ Memory(qs, bs) /\ C \subseteq Parts
    /\ \A p \in C : /\ ps[p].next \in C \cup {Null}
                    /\ qs[p].next = ps[p].next
                    /\ Held(qs, bs, p) = Held(ps, as, p)

LEMMA SameContents ==
  ASSUME NEW ps, NEW as, NEW qs, NEW bs, NEW C, Alike(ps, as, qs, bs, C)
  PROVE  \A p \in C : Contents(qs, bs, p) = Contents(ps, as, p)
  <1>0. /\ Memory(ps, as) /\ Memory(qs, bs) /\ C \subseteq Parts
        /\ \A p \in C : /\ ps[p].next \in C \cup {Null}
                        /\ qs[p].next = ps[p].next
                        /\ Held(qs, bs, p) = Held(ps, as, p)
    BY DEF Alike
  <1> USE <1>0
  <1> DEFINE T == { p \in Places : p \in C \cup {Null} =>
                      Contents(qs, bs, p) = Contents(ps, as, p) }
  <1>1. Null \in T
    BY ContentsUnfold DEF Places
  <1>2. ASSUME NEW p \in Parts, ps[p].next \in T
        PROVE  p \in T
    <2>1. /\ Contents(ps, as, p) =
              Held(ps, as, p) \o Contents(ps, as, ps[p].next)
          /\ Contents(qs, bs, p) =
              Held(qs, bs, p) \o Contents(qs, bs, qs[p].next)
      BY ContentsUnfold
    <2>2. p # Null /\ p \in Places
      BY PartNames DEF Places
    <2> QED
      BY <1>2, <2>1, <2>2
  <1> HIDE DEF T
  <1>3. Places \subseteq T
    BY <1>1, <1>2, ChainInduction
  <1> QED
    BY <1>3 DEF T, Places

LEMMA AtTheEnd ==
  ASSUME NEW h \in Data
  PROVE  /\ <<h>> \o <<>> = <<h>>
         /\ \A s \in Seq(Data) : /\ s \o <<>> = s /\ s \o <<h>> = Append(s, h)
                                 /\ Append(s, h) \o <<>> = Append(s, h)
                                 /\ Append(s, h) \in Seq(Data)
         /\ \A s, t \in Seq(Data) : s \o Append(t, h) = Append(s \o t, h)
  <1>1. \A s \in Seq(Data) : /\ s \o <<>> = s /\ s \o <<h>> = Append(s, h)
                             /\ Append(s, h) \in Seq(Data)
    OBVIOUS
  <1>2. \A s, t \in Seq(Data) : s \o Append(t, h) = Append(s \o t, h)
    OBVIOUS
  <1>3. <<h>> \in Seq(Data)
    OBVIOUS
  <1> QED
    BY <1>1, <1>2, <1>3, Zenon

(* A list whose last part gets one more element, or a new part with one.    *)
OneMore(ps, as, qs, bs, C, end, h) ==
    /\ Memory(ps, as) /\ Memory(qs, bs) /\ h \in Data
    /\ C \subseteq Parts /\ end \in C /\ IsList(ps, C, end)
    /\ \A p \in C \ {end} : /\ qs[p].next = ps[p].next
                            /\ Held(qs, bs, p) = Held(ps, as, p)
    /\ \/ /\ qs[end].next = Null
          /\ Held(qs, bs, end) = Append(Held(ps, as, end), h)
       \/ /\ Held(qs, bs, end) = Held(ps, as, end)
          /\ qs[end].next \in Parts /\ Held(qs, bs, qs[end].next) = <<h>>
          /\ qs[qs[end].next].next = Null

LEMMA OneMoreContents ==
  ASSUME NEW ps, NEW as, NEW qs, NEW bs, NEW C, NEW end, NEW h,
         OneMore(ps, as, qs, bs, C, end, h)
  PROVE  \A p \in C : Contents(qs, bs, p) = Append(Contents(ps, as, p), h)
  <1>00. /\ Memory(ps, as) /\ Memory(qs, bs) /\ h \in Data
        /\ C \subseteq Parts /\ end \in C /\ IsList(ps, C, end)
    BY DEF OneMore
  <1> USE <1>00
  <1>0. /\ \A p \in C \ {end} : /\ qs[p].next = ps[p].next
                                /\ Held(qs, bs, p) = Held(ps, as, p)
        /\ \/ /\ qs[end].next = Null
              /\ Held(qs, bs, end) = Append(Held(ps, as, end), h)
           \/ /\ Held(qs, bs, end) = Held(ps, as, end)
              /\ qs[end].next \in Parts /\ Held(qs, bs, qs[end].next) = <<h>>
              /\ qs[qs[end].next].next = Null
    BY DEF OneMore
  <1> DEFINE T == { p \in Places : p \in C =>
                      Contents(qs, bs, p) = Append(Contents(ps, as, p), h) }
  <1>1. Null \in T
    BY PartNames DEF Places
  <1>2. ASSUME NEW p \in Parts, ps[p].next \in T, p \in C
        PROVE  Contents(qs, bs, p) = Append(Contents(ps, as, p), h)
    <2>1. /\ Contents(ps, as, p) =
              Held(ps, as, p) \o Contents(ps, as, ps[p].next)
          /\ Contents(qs, bs, p) =
              Held(qs, bs, p) \o Contents(qs, bs, qs[p].next)
          /\ Contents(ps, as, Null) = <<>> /\ Contents(qs, bs, Null) = <<>>
      BY ContentsUnfold
    <2>2. Held(ps, as, p) \in Seq(Data)
      BY HeldTyped
    <2>3. CASE p = end
      <3>1. ps[p].next = Null
        BY <2>3 DEF IsList
      <3>2. Contents(ps, as, p) = Held(ps, as, p)
        <4>1. Contents(ps, as, p) = Held(ps, as, p) \o <<>>
          BY <2>1, <3>1
        <4> QED
          BY <2>2, <4>1, AtTheEnd
      <3>3. CASE qs[end].next = Null /\ Held(qs, bs, end) = Append(Held(ps, as, end), h)
        <4>1. Contents(qs, bs, p) = Append(Held(ps, as, p), h) \o <<>>
          BY <2>1, <2>3, <3>3
        <4> QED
          BY <2>2, <3>2, <4>1, AtTheEnd
      <3>4. CASE /\ Held(qs, bs, end) = Held(ps, as, end)
                 /\ qs[end].next \in Parts /\ Held(qs, bs, qs[end].next) = <<h>>
                 /\ qs[qs[end].next].next = Null
        <4> DEFINE q == qs[end].next
        <4>1. Contents(qs, bs, q) =
                Held(qs, bs, q) \o Contents(qs, bs, qs[q].next)
          BY <3>4, ContentsUnfold
        <4>2. Contents(qs, bs, q) = <<h>> \o <<>>
          BY <2>1, <3>4, <4>1
        <4>3. Contents(qs, bs, q) = <<h>>
          BY <2>2, <4>2, AtTheEnd
        <4>4. Contents(qs, bs, p) = Held(ps, as, p) \o <<h>>
          BY <2>1, <2>3, <3>4, <4>3
        <4> QED
          BY <2>2, <3>2, <4>4, AtTheEnd
      <3> QED
        BY <1>0, <3>3, <3>4
    <2>4. CASE p # end
      <3>1. ps[p].next \in C
        <4>1. ps[p].next \in C \cup {Null} /\ ~(ps[p].next = Null)
          BY <1>2, <2>4 DEF IsList
        <4> QED
          BY <4>1
      <3>2. Contents(ps, as, ps[p].next) \in Seq(Data)
        BY <3>1, ContentsUnfold DEF Places
      <3>3. Contents(qs, bs, ps[p].next) = Append(Contents(ps, as, ps[p].next), h)
        BY <1>2, <3>1
      <3>4. Contents(qs, bs, p) =
              Held(ps, as, p) \o Append(Contents(ps, as, ps[p].next), h)
        <4>1. qs[p].next = ps[p].next /\ Held(qs, bs, p) = Held(ps, as, p)
          BY <1>0, <1>2, <2>4
        <4> QED
          BY <2>1, <3>3, <4>1
      <3> DEFINE s == Held(ps, as, p)  t == Contents(ps, as, ps[p].next)
      <3>5. s \o Append(t, h) = Append(s \o t, h)
        <4> HIDE DEF s, t
        <4> QED
          BY <2>2, <3>2, AtTheEnd DEF s, t
      <3> QED
        BY <2>1, <3>4, <3>5, Zenon
    <2> QED
      BY <2>3, <2>4
  <1>3. ASSUME NEW p \in Parts, ps[p].next \in T
        PROVE  p \in T
    BY <1>2, <1>3 DEF Places
  <1> HIDE DEF T
  <1>4. Places \subseteq T
    BY <1>1, <1>3, ChainInduction
  <1> QED
    BY <1>4 DEF T, Places


-----------------------------------------------------------------------------
(* Headers without the length.                                              *)

Kept(h) == IF IsLength(h) THEN <<>> ELSE <<h>>

(* f[k] is what is kept from the k-th header on, for k > n.                 *)
Keeps(f, s, n) ==
    /\ f \in [1..(Len(s) + 1) -> Seq(Data)] /\ f[Len(s) + 1] = <<>>
    /\ \A k \in 1..Len(s) : k > n => f[k] = Kept(s[k]) \o f[k + 1]

IsKept(f, s) ==
    f = [k \in 1..(Len(s) + 1) |->
            IF k = Len(s) + 1 THEN <<>> ELSE Kept(s[k]) \o f[k + 1]]

LEMMA KeptTyped ==
  ASSUME NEW h \in Data, NEW t \in Seq(Data)
  PROVE  Kept(h) \o t \in Seq(Data)
  <1>1. <<>> \o t = t /\ <<h>> \in Seq(Data)
    OBVIOUS
  <1>2. \A a, b \in Seq(Data) : a \o b \in Seq(Data)
    OBVIOUS
  <1>3. <<h>> \o t \in Seq(Data)
    BY <1>1, <1>2, Zenon
  <1> QED
    BY <1>1, <1>3 DEF Kept

LEMMA KeepsExist ==
  ASSUME NEW s \in Seq(Data)
  PROVE  \E f : Keeps(f, s, 0)
  <1> DEFINE len == Len(s)
             T == { d \in 0..len : ~ \E f : Keeps(f, s, len - d) }
  <1>1. len \in Nat /\ \A k \in 1..len : s[k] \in Data
    OBVIOUS
  <1>2. ASSUME T # {} PROVE FALSE
    <2>1. T \subseteq Nat
      BY <1>1
    <2>2. PICK d \in T : \A e \in T : d <= e
      BY <1>2, <2>1, LeastNumber
    <2>3. d \in 0..len /\ ~ \E f : Keeps(f, s, len - d)
      BY <2>2
    <2>4. d # 0
      <3>1. ASSUME d = 0 PROVE FALSE
        <4> DEFINE f == [k \in 1..(len + 1) |-> <<>>]
        <4>1. f \in [1..(len + 1) -> Seq(Data)] /\ f[len + 1] = <<>>
          BY <1>1
        <4> HIDE DEF f, len
        <4>2. \A k \in 1..len : ~(k > len - 0)
          BY <1>1
        <4>3. Keeps(f, s, len - d)
          BY <3>1, <4>1, <4>2 DEF Keeps, len
        <4> QED
          BY <2>3, <4>3
      <3> QED
        BY <3>1
    <2>5. d - 1 \in 0..len /\ d - 1 \notin T
      <3>1. d - 1 \in 0..len /\ ~(d <= d - 1)
        BY <1>1, <2>3, <2>4
      <3> QED
        BY <2>2, <3>1
    <2>6. PICK f : Keeps(f, s, len - (d - 1))
      BY <2>5
    <2> DEFINE m == len - d + 1
               g == [f EXCEPT ![m] = Kept(s[m]) \o f[m + 1]]
    <2>7. m \in 1..len /\ m + 1 \in 1..(len + 1) /\ len - (d - 1) = m
          /\ len - d = m - 1 /\ m \in 1..(len + 1) /\ m # len + 1
      BY <1>1, <2>3, <2>4
    <2> HIDE DEF m, T
    <2>8. /\ f \in [1..(len + 1) -> Seq(Data)] /\ f[len + 1] = <<>>
          /\ \A k \in 1..len : k > m => f[k] = Kept(s[k]) \o f[k + 1]
      BY <2>6, <2>7 DEF Keeps
    <2> HIDE DEF len
    <2>9. Kept(s[m]) \o f[m + 1] \in Seq(Data)
      BY <1>1, <2>7, <2>8, KeptTyped
    <2>10. /\ g \in [1..(len + 1) -> Seq(Data)]
           /\ g[m] = Kept(s[m]) \o f[m + 1]
           /\ \A k \in 1..(len + 1) : k # m => g[k] = f[k]
      BY <2>7, <2>8, <2>9
    <2> HIDE DEF g
    <2>11. len + 1 \in 1..(len + 1)
      BY <1>1
    <2>12. ASSUME NEW k \in 1..len, k > m - 1
           PROVE  g[k] = Kept(s[k]) \o g[k + 1]
      <3>1. k + 1 \in 1..(len + 1) /\ k + 1 # m /\ k \in 1..(len + 1)
            /\ (k # m => k > m)
        BY <1>1, <2>7, <2>12
      <3>2. g[k + 1] = f[k + 1]
        BY <2>10, <3>1
      <3> QED
        BY <2>8, <2>10, <3>1, <3>2
    <2>13. Keeps(g, s, len - d)
      <3>1. g[len + 1] = <<>>
        BY <2>7, <2>8, <2>10, <2>11
      <3> QED
        BY <2>7, <2>10, <2>12, <3>1 DEF Keeps, len
    <2> QED
      BY <2>3, <2>13
  <1>3. len \in 0..len /\ len - len = 0
    BY <1>1
  <1> HIDE DEF len
  <1> QED
    BY <1>2, <1>3

LEMMA WithoutLengthKeeps ==
  ASSUME NEW s \in Seq(Data)
  PROVE  \E f : Keeps(f, s, 0) /\ WithoutLength(s) = f[1]
  <1>1. PICK g : Keeps(g, s, 0)
    BY KeepsExist
  <1>2. IsKept(g, s)
    <2> DEFINE e == [k \in 1..(Len(s) + 1) |->
                       IF k = Len(s) + 1 THEN <<>> ELSE Kept(s[k]) \o g[k + 1]]
    <2>1. Len(s) \in Nat
      OBVIOUS
    <2>2. g \in [1..(Len(s) + 1) -> Seq(Data)] /\ g[Len(s) + 1] = <<>>
      BY <1>1 DEF Keeps
    <2>3. \A k \in 1..Len(s) : g[k] = Kept(s[k]) \o g[k + 1]
      <3>1. \A k \in 1..Len(s) : k > 0
        OBVIOUS
      <3> QED
        BY <1>1, <3>1 DEF Keeps
    <2>4. \A k \in 1..(Len(s) + 1) : k # Len(s) + 1 => k \in 1..Len(s)
      BY <2>1
    <2>5. \A k \in 1..(Len(s) + 1) : g[k] = e[k]
      BY <2>2, <2>3, <2>4
    <2>6. DOMAIN g = 1..(Len(s) + 1) /\ g = [k \in DOMAIN g |-> g[k]]
          /\ DOMAIN e = 1..(Len(s) + 1) /\ e = [k \in DOMAIN e |-> e[k]]
      BY <2>2
    <2> HIDE DEF e
    <2>7. g = e
      BY <2>5, <2>6
    <2> QED
      BY <2>7 DEF e, IsKept
  <1> DEFINE f == CHOOSE f : IsKept(f, s)
  <1>3. IsKept(f, s)
    BY <1>2, Zenon
  <1>4. WithoutLength(s) = f[1]
    BY DEF WithoutLength, IsKept, Kept
  <1> HIDE DEF f
  <1> DEFINE T == { d \in 0..Len(s) : f[Len(s) - d + 1] # g[Len(s) - d + 1] }
  <1>5. Len(s) \in Nat /\ \A k \in 1..(Len(s) + 1) :
           f[k] = IF k = Len(s) + 1 THEN <<>> ELSE Kept(s[k]) \o f[k + 1]
    <2>1. Len(s) \in Nat
      OBVIOUS
    <2>2. \A k \in 1..(Len(s) + 1) :
           f[k] = IF k = Len(s) + 1 THEN <<>> ELSE Kept(s[k]) \o f[k + 1]
      BY <1>3, Zenon DEF IsKept
    <2> QED
      BY <2>1, <2>2
  <1>6. ASSUME T # {} PROVE FALSE
    <2>1. T \subseteq Nat
      OBVIOUS
    <2>2. PICK d \in T : \A e \in T : d <= e
      BY <1>6, <2>1, LeastNumber
    <2> DEFINE k == Len(s) - d + 1
    <2>3. d \in 0..Len(s) /\ f[k] # g[k]
      BY <2>2
    <2>4. g[Len(s) + 1] = <<>> /\ f[Len(s) + 1] = <<>>
      BY <1>1, <1>5 DEF Keeps
    <2>5. d # 0
      BY <2>3, <2>4
    <2>6. /\ d - 1 \in 0..Len(s) /\ ~(d <= d - 1) /\ k \in 1..Len(s) /\ k > 0
          /\ Len(s) - (d - 1) + 1 = k + 1 /\ k \in 1..(Len(s) + 1)
          /\ k # Len(s) + 1
      BY <1>5, <2>3, <2>5
    <2>7. d - 1 \notin T
      BY <2>2, <2>6
    <2> HIDE DEF k
    <2>8. f[k + 1] = g[k + 1]
      BY <2>6, <2>7
    <2>9. g[k] = Kept(s[k]) \o g[k + 1]
      BY <1>1, <2>6 DEF Keeps
    <2>10. f[k] = Kept(s[k]) \o f[k + 1]
      BY <1>5, <2>6
    <2> QED
      BY <2>3, <2>8, <2>9, <2>10 DEF k
  <1>7. Len(s) \in 0..Len(s) /\ Len(s) - Len(s) + 1 = 1
    BY <1>5
  <1>8. f[1] = g[1]
    BY <1>6, <1>7
  <1> QED
    BY <1>1, <1>4, <1>8

LEMMA WithoutLengthOfNone == WithoutLength(<<>>) = <<>>
  <1>1. <<>> \in Seq(Data) /\ Len(<<>>) + 1 = 1
    OBVIOUS
  <1>2. PICK f : Keeps(f, <<>>, 0) /\ WithoutLength(<<>>) = f[1]
    BY <1>1, WithoutLengthKeeps
  <1> QED
    BY <1>1, <1>2 DEF Keeps

(* How WithoutLength goes from header to header.                            *)
LEMMA WithoutLengthOfNext ==
  ASSUME NEW h \in Data, NEW s \in Seq(Data)
  PROVE  /\ WithoutLength(<<h>> \o s) = Kept(h) \o WithoutLength(s)
         /\ WithoutLength(s) \in Seq(Data)
  <1> DEFINE t == <<h>> \o s
             n == Len(s)
  <1>1. /\ t \in Seq(Data) /\ Len(t) = n + 1 /\ t[1] = h /\ n \in Nat
        /\ \A k \in 1..n : t[k + 1] = s[k]
    OBVIOUS
  <1> HIDE DEF t
  <1>2. PICK f : Keeps(f, s, 0) /\ WithoutLength(s) = f[1]
    BY WithoutLengthKeeps
  <1>3. PICK g : Keeps(g, t, 0) /\ WithoutLength(t) = g[1]
    BY <1>1, WithoutLengthKeeps
  <1> HIDE DEF n
  <1> DEFINE T == { d \in 0..n : f[n - d + 1] # g[n - d + 2] }
  <1>4. ASSUME T # {} PROVE FALSE
    <2>1. T \subseteq Nat
      BY <1>1
    <2>2. PICK d \in T : \A e \in T : d <= e
      BY <1>4, <2>1, LeastNumber
    <2> DEFINE k == n - d + 1
    <2>3. d \in 0..n /\ f[k] # g[k + 1]
      <3>1. n - d + 2 = k + 1
        BY <1>1, <2>2
      <3> QED
        BY <2>2, <3>1
    <2>4. f[n + 1] = <<>> /\ g[n + 2] = <<>>
      BY <1>1, <1>2, <1>3 DEF Keeps, n
    <2>5. d # 0
      BY <1>1, <2>2, <2>4
    <2>6. /\ d - 1 \in 0..n /\ ~(d <= d - 1) /\ k \in 1..n /\ k > 0
          /\ n - (d - 1) + 1 = k + 1 /\ n - (d - 1) + 2 = k + 2
          /\ k + 1 \in 1..(n + 1) /\ k + 1 > 0 /\ (k + 1) + 1 = k + 2
      BY <1>1, <2>3, <2>5
    <2>7. d - 1 \notin T
      BY <2>2, <2>6
    <2> HIDE DEF k
    <2>8. f[k + 1] = g[k + 2]
      BY <2>6, <2>7
    <2>9. f[k] = Kept(s[k]) \o f[k + 1]
      BY <1>2, <2>6 DEF Keeps, n
    <2>10. g[k + 1] = Kept(t[k + 1]) \o g[k + 2]
      BY <1>1, <1>3, <2>6 DEF Keeps
    <2> QED
      BY <1>1, <2>3, <2>6, <2>8, <2>9, <2>10
  <1>5. f[1] = g[2]
    <2>1. n \in 0..n /\ n - n + 1 = 1 /\ n - n + 2 = 2
      BY <1>1
    <2> QED
      BY <1>4, <2>1
  <1>6. g[1] = Kept(t[1]) \o g[2]
    <2>1. 1 \in 1..(n + 1) /\ 1 > 0 /\ 1 + 1 = 2
      BY <1>1
    <2> QED
      BY <1>1, <1>3, <2>1 DEF Keeps
  <1>7. f[1] \in Seq(Data)
    <2>1. 1 \in 1..(n + 1)
      BY <1>1
    <2> QED
      BY <1>2, <2>1 DEF Keeps, n
  <1> QED
    BY <1>1, <1>2, <1>3, <1>5, <1>6, <1>7 DEF t


-----------------------------------------------------------------------------
(* ngx_list_push                                                            *)

Used == Requests \cup Allocated

(* What a push to the list of r does: one more element behind its last      *)
(* part, or a part that was not used before.                                *)
Pushed(r, h) ==
    LET p == last[r]  end == last'[r] IN
    /\ Memory(parts', arrays') /\ heap' \in 0..Len(SpareParts)
    /\ Allocated \subseteq Allocated'
    /\ \A q \in Parts : parts'[q].next \in Allocated' \cup {Null}
    /\ last' \in [Requests -> Requests \cup Allocated']
    /\ \A x \in Requests : x # r => last'[x] = last[x]
    /\ \A q \in Parts : parts'[q].elts = parts[q].elts
    /\ \A q \in Parts : q \notin {p, end} => parts'[q] = parts[q]
    /\ \A q \in Used : /\ q # p => parts'[q] = parts[q]
                       /\ parts'[q].nelts >= parts[q].nelts
    /\ \A q \in Used :
           q # p /\ \/ parts[q].elts # parts[p].elts
                    \/ parts[q].nelts <= parts[p].nelts
           => Held(parts', arrays', q) = Held(parts, arrays, q)
    /\ \/ /\ end = p /\ Allocated' = Allocated
          /\ parts'[p].next = parts[p].next
          /\ Held(parts', arrays', p) = Append(Held(parts, arrays, p), h)
       \/ /\ end \in Allocated' \ Allocated /\ end \in Spares
          /\ Allocated' = Allocated \cup {end}
          /\ parts'[p].next = end /\ parts'[end].next = Null
          /\ Held(parts', arrays', p) = Held(parts, arrays, p)
          /\ Held(parts', arrays', end) = <<h>>

LEMMA UsedParts ==
  ASSUME ListsTyped
  PROVE  /\ Allocated \subseteq Spares /\ Used \subseteq Parts
         /\ Requests \subseteq Parts /\ heap \in Nat
         /\ Allocated \cap Requests = {} /\ Null \notin Used
         /\ \A r \in Requests : last[r] \in Used
         /\ \A p \in Parts : parts[p].next \in Allocated \cup {Null}
  <1>1. heap \in 0..Len(SpareParts) /\ Len(SpareParts) \in Nat
    BY PartNames DEF ListsTyped
  <1>2. Allocated \subseteq Spares
    BY <1>1, PartNames DEF Allocated
  <1>3. last \in [Requests -> Requests \cup Allocated]
        /\ \A p \in Parts : parts[p].next \in Allocated \cup {Null}
    BY DEF ListsTyped
  <1> QED
    BY <1>1, <1>2, <1>3, PartNames DEF Used

LEMMA PushToLastPushes ==
  ASSUME ListsTyped, Owned, NEW r \in Requests, NEW h \in Data, PushToLast(r, h)
  PROVE  Pushed(r, h)
  <1> DEFINE p == last[r]  e == parts[p].elts  n == parts[p].nelts
  <1>1. p \in Parts /\ p \in Used /\ Used \subseteq Parts
    BY UsedParts
  <1>2. /\ Memory(parts, arrays) /\ heap \in 0..Len(SpareParts)
        /\ last \in [Requests -> Requests \cup Allocated]
        /\ \A q \in Parts : parts[q].next \in Allocated \cup {Null}
    BY DEF ListsTyped
  <1>3. /\ parts \in [Parts -> PartRecords]
        /\ arrays \in [Parts -> [1..NAlloc -> Data]]
        /\ \A q \in Parts : parts[q].next = Null \/ Follows(q, parts[q].next)
    BY <1>2 DEF Memory
  <1>4. NAlloc \in Nat /\ n < NAlloc /\ last' = last /\ heap' = heap
        /\ arrays' = [arrays EXCEPT ![e][n + 1] = h]
        /\ parts' = [parts EXCEPT ![p].nelts = @ + 1]
    BY BoundsAssumption DEF PushToLast
  <1>5. e \in Parts /\ n \in 0..NAlloc /\ parts[p].next \in Spares \cup {Null}
        /\ parts[p] \in PartRecords
    BY <1>1, <1>3 DEF PartRecords
  <1> HIDE DEF p, e, n
  <1>6. /\ parts'[p] = [parts[p] EXCEPT !.nelts = @ + 1]
        /\ \A q \in Parts : q # p => parts'[q] = parts[q]
        /\ DOMAIN parts' = Parts
    BY <1>1, <1>3, <1>4
  <1>7. /\ parts'[p].nelts = n + 1 /\ parts'[p].elts = e
        /\ parts'[p].next = parts[p].next /\ parts'[p] \in PartRecords
    BY <1>4, <1>5, <1>6 DEF PartRecords, n, e
  <1>8. n + 1 \in 1..NAlloc
    BY <1>4, <1>5
  <1>9. /\ arrays'[e] = [arrays[e] EXCEPT ![n + 1] = h]
        /\ \A q \in Parts : q # e => arrays'[q] = arrays[q]
        /\ arrays' \in [Parts -> [1..NAlloc -> Data]]
    BY <1>3, <1>4, <1>5, <1>8
  <1>10. parts' \in [Parts -> PartRecords]
    <2>1. \A q \in Parts : parts'[q] \in PartRecords
      BY <1>3, <1>6, <1>7
    <2> QED
      BY <1>3, <1>4, <2>1
  <1>11. Memory(parts', arrays')
    <2>1. \A q \in Parts : parts'[q].next = parts[q].next
      BY <1>6, <1>7
    <2> QED
      BY <1>3, <1>9, <1>10, <2>1 DEF Memory
  <1>12. Allocated' = Allocated
    BY <1>4 DEF Allocated
  <1>13. ASSUME NEW q \in Parts, NEW l \in 0..NAlloc,
                parts[q].elts # e \/ l <= n
         PROVE  SubSeq(arrays'[parts[q].elts], 1, l) =
                SubSeq(arrays[parts[q].elts], 1, l)
    <2> DEFINE s == arrays[parts[q].elts]  t == arrays'[parts[q].elts]
    <2>1. parts[q].elts \in Parts
      BY <1>3 DEF PartRecords
    <2>2. s \in [1..NAlloc -> Data] /\ t \in [1..NAlloc -> Data]
      BY <1>3, <1>9, <2>1
    <2>3. \A k \in 1..l : t[k] = s[k]
      <3>1. CASE parts[q].elts # e
        BY <1>9, <2>1, <3>1
      <3>2. CASE parts[q].elts = e /\ l <= n
        <4>1. \A k \in 1..l : k \in 1..NAlloc /\ k # n + 1
          BY <1>4, <1>5, <3>2
        <4>2. /\ s \in [1..NAlloc -> Data] /\ s = arrays[e]
              /\ t = [s EXCEPT ![n + 1] = h]
          BY <1>3, <1>5, <1>9, <3>2
        <4> HIDE DEF s, t
        <4> QED
          BY <4>1, <4>2
      <3> QED
        BY <1>13, <3>1, <3>2
    <2> HIDE DEF s, t
    <2>4. s \in Seq(Data) /\ t \in Seq(Data) /\ Len(s) = NAlloc /\ Len(t) = NAlloc
      BY <1>4, <2>2
    <2>5. SubSeq(t, 1, l) = SubSeq(s, 1, l)
      BY <1>4, <2>3, <2>4
    <2> QED
      BY <2>5 DEF s, t
  <1>14. ASSUME NEW q \in Used, q # p,
                \/ parts[q].elts # e \/ parts[q].nelts <= n
         PROVE  Held(parts', arrays', q) = Held(parts, arrays, q)
    <2>1. q \in Parts /\ parts[q].nelts \in 0..NAlloc /\ parts'[q] = parts[q]
      BY <1>1, <1>3, <1>6, <1>14 DEF PartRecords
    <2> QED
      BY <1>13, <1>14, <2>1 DEF Held
  <1>15. Held(parts', arrays', p) = Append(Held(parts, arrays, p), h)
    <2> DEFINE s == arrays[e]  t == arrays'[e]
    <2>1. /\ s \in [1..NAlloc -> Data] /\ t \in [1..NAlloc -> Data]
          /\ t[n + 1] = h /\ \A k \in 1..n : t[k] = s[k]
      <3>1. \A k \in 1..n : k \in 1..NAlloc /\ k # n + 1
        BY <1>4, <1>5
      <3> QED
        BY <1>3, <1>5, <1>8, <1>9, <3>1
    <2> HIDE DEF s, t
    <2>2. s \in Seq(Data) /\ t \in Seq(Data) /\ Len(s) = NAlloc /\ Len(t) = NAlloc
      BY <1>4, <2>1
    <2>3. SubSeq(t, 1, n + 1) = Append(SubSeq(s, 1, n), h)
      <3> DEFINE a == SubSeq(t, 1, n + 1)  b == Append(SubSeq(s, 1, n), h)
      <3>1. a \in Seq(Data) /\ Len(a) = n + 1 /\ \A k \in 1..(n + 1) : a[k] = t[k]
        BY <1>4, <1>5, <1>8, <2>2
      <3>2. SubSeq(s, 1, n) \in Seq(Data) /\ Len(SubSeq(s, 1, n)) = n
            /\ \A k \in 1..n : SubSeq(s, 1, n)[k] = s[k]
        BY <1>4, <1>5, <2>2
      <3>3. b \in Seq(Data) /\ Len(b) = n + 1 /\ b[n + 1] = h
            /\ \A k \in 1..n : b[k] = s[k]
        BY <1>5, <3>2
      <3>4. \A k \in 1..(n + 1) : a[k] = b[k]
        <4>1. \A k \in 1..(n + 1) : k = n + 1 \/ k \in 1..n
          BY <1>5
        <4> HIDE DEF a, b
        <4> QED
          BY <2>1, <3>1, <3>3, <4>1
      <3> HIDE DEF a, b
      <3>5. a = b
        BY <3>1, <3>3, <3>4
      <3> QED
        BY <3>5 DEF a, b
    <2> QED
      BY <1>7, <2>3 DEF Held, s, t, n, e
  <1>16. /\ \A q \in Parts : parts'[q].next = parts[q].next
                            /\ parts'[q].elts = parts[q].elts
         /\ \A q \in Used : parts'[q].nelts >= parts[q].nelts
    <2>1. \A q \in Parts : parts[q].nelts \in 0..NAlloc
      BY <1>3 DEF PartRecords
    <2>2. \A q \in Parts : parts'[q].next = parts[q].next
                          /\ parts'[q].elts = parts[q].elts
      BY <1>6, <1>7 DEF e
    <2>3. \A q \in Parts : parts'[q].nelts >= parts[q].nelts
      <3>1. n + 1 >= n /\ \A k \in 0..NAlloc : k >= k
        BY <1>4, <1>5
      <3> QED
        BY <1>6, <1>7, <2>1, <3>1 DEF n
    <2> QED
      BY <1>1, <2>2, <2>3
  <1> QED
    <2>1. /\ \A q \in Used : q # p => parts'[q] = parts[q]
          /\ \A q \in Parts : q # p => parts'[q] = parts[q]
      BY <1>1, <1>6
    <2> QED
      BY <1>2, <1>4, <1>7, <1>11, <1>12, <1>14, <1>15, <1>16, <2>1
         DEF Pushed, p, e, n

LEMMA OneElement ==
  ASSUME NEW s \in [1..NAlloc -> Data]
  PROVE  SubSeq(s, 1, 1) = <<s[1]>> /\ s[1] \in Data
  <1>1. NAlloc \in Nat /\ 1 \in 1..NAlloc
    BY BoundsAssumption
  <1>2. s \in Seq(Data) /\ Len(s) = NAlloc /\ s[1] \in Data
    BY <1>1
  <1> DEFINE t == SubSeq(s, 1, 1)
  <1>3. t \in Seq(Data) /\ Len(t) = 1 /\ t[1] = s[1]
    BY <1>1, <1>2
  <1> HIDE DEF t
  <1>4. t = <<t[1]>>
    BY <1>3
  <1> QED
    BY <1>2, <1>3, <1>4 DEF t

LEMMA PushToNewPartPushes ==
  ASSUME ListsTyped, Owned, NEW r \in Requests, NEW h \in Data, PushToNewPart(r, h)
  PROVE  Pushed(r, h)
  <1> DEFINE p == last[r]  new == SpareParts[heap + 1]
  <1>1. p \in Parts /\ p \in Used /\ Used \subseteq Parts
    BY UsedParts
  <1>2. /\ Memory(parts, arrays) /\ heap \in 0..Len(SpareParts)
        /\ last \in [Requests -> Requests \cup Allocated]
        /\ \A q \in Parts : parts[q].next \in Allocated \cup {Null}
    BY DEF ListsTyped
  <1>3. /\ parts \in [Parts -> PartRecords]
        /\ arrays \in [Parts -> [1..NAlloc -> Data]]
        /\ \A q \in Parts : parts[q].next = Null \/ Follows(q, parts[q].next)
    BY <1>2 DEF Memory
  <1>4. /\ heap < Len(SpareParts) /\ heap' = heap + 1
        /\ last' = [last EXCEPT ![r] = new]
        /\ parts' = [parts EXCEPT ![p].next = new, ![new] = Part(new, 1)]
        /\ arrays' = [arrays EXCEPT ![new] = [Blank EXCEPT ![1] = h]]
    BY DEF PushToNewPart
  <1>5. heap + 1 \in 1..Len(SpareParts) /\ heap \in Nat
    BY <1>2, <1>4, PartNames
  <1>6. new \in Spares /\ new \in Parts /\ new \notin Requests /\ new # Null
    BY <1>5, PartNames
  <1>7. new \notin Allocated
    <2>1. \A k \in 1..heap : k \in 1..Len(SpareParts) /\ k # heap + 1
      BY <1>2, <1>5
    <2> QED
      BY <1>5, <2>1, PartNames DEF Allocated
  <1>8. Allocated' = Allocated \cup {new}
    <2>1. 1..(heap + 1) = 1..heap \cup {heap + 1}
      BY <1>5
    <2> QED
      BY <1>4, <2>1 DEF Allocated
  <1>9. new \notin Used /\ new # p
    BY <1>1, <1>6, <1>7 DEF Used
  <1>10. Follows(p, new)
    <2>1. CASE p \in Requests
      BY <1>5, <2>1 DEF Follows
    <2>2. CASE p \in Allocated
      <3>1. PICK j \in 1..heap : p = SpareParts[j]
        BY <2>2 DEF Allocated
      <3>2. j \in 1..((heap + 1) - 1)
        BY <1>5
      <3> QED
        BY <1>5, <3>1, <3>2 DEF Follows
    <2> QED
      BY <1>1, <2>1, <2>2 DEF Used
  <1> HIDE DEF p, new
  <1>11. /\ parts'[p] = [parts[p] EXCEPT !.next = new]
         /\ parts'[new] = Part(new, 1)
         /\ \A q \in Parts : q # p /\ q # new => parts'[q] = parts[q]
    BY <1>1, <1>3, <1>4, <1>6, <1>9
  <1>12. NAlloc \in Nat /\ 1 \in 1..NAlloc /\ 1 \in 0..NAlloc
    BY BoundsAssumption
  <1>13. parts[p] \in PartRecords
    BY <1>1, <1>3
  <1>14. /\ parts'[p].nelts = parts[p].nelts /\ parts'[p].elts = parts[p].elts
         /\ parts'[p].next = new /\ parts'[p] \in PartRecords
    BY <1>6, <1>11, <1>13 DEF PartRecords
  <1>15. /\ parts'[new].nelts = 1 /\ parts'[new].elts = new
         /\ parts'[new].next = Null /\ parts'[new] \in PartRecords
    BY <1>6, <1>11, <1>12 DEF PartRecords, Part
  <1>16. parts' \in [Parts -> PartRecords]
    <2>1. \A q \in Parts : parts'[q] \in PartRecords
      BY <1>3, <1>11, <1>14, <1>15
    <2> QED
      BY <1>3, <1>4, <2>1
  <1>17. /\ arrays'[new] = [Blank EXCEPT ![1] = h]
         /\ \A q \in Parts : q # new => arrays'[q] = arrays[q]
         /\ arrays'[new] \in [1..NAlloc -> Data] /\ arrays'[new][1] = h
         /\ arrays' \in [Parts -> [1..NAlloc -> Data]]
    <2>1. Blank \in [1..NAlloc -> Data]
      BY DEF Blank, Data
    <2>2. /\ [Blank EXCEPT ![1] = h] \in [1..NAlloc -> Data]
          /\ [Blank EXCEPT ![1] = h][1] = h
      BY <1>12, <2>1
    <2> QED
      BY <1>3, <1>4, <1>6, <2>2
  <1>18. Memory(parts', arrays')
    <2>1. \A q \in Parts : parts'[q].next = Null \/ Follows(q, parts'[q].next)
      BY <1>3, <1>10, <1>11, <1>14, <1>15
    <2> QED
      BY <1>16, <1>17, <2>1 DEF Memory
  <1>19. \A q \in Parts : q # new => parts[q].elts # new
    <2>1. \A q \in Spares : parts[q].elts = q
      BY DEF Owned
    <2>2. \A q \in Requests : parts[q].elts \in Requests
      BY DEF Owned, Requests, Subrequests
    <2> QED
      BY <1>6, <2>1, <2>2, PartNames
  <1>20. ASSUME NEW q \in Used
         PROVE  Held(parts', arrays', q) = Held(parts, arrays, q)
    <2>1. q \in Parts /\ q # new
      BY <1>1, <1>9
    <2>2. parts'[q].nelts = parts[q].nelts /\ parts'[q].elts = parts[q].elts
      BY <1>11, <1>14, <2>1
    <2>3. parts[q].elts \in Parts
      BY <1>3, <2>1 DEF PartRecords
    <2>4. arrays'[parts[q].elts] = arrays[parts[q].elts]
      BY <1>17, <1>19, <2>1, <2>3
    <2> QED
      BY <2>2, <2>4 DEF Held
  <1>21. Held(parts', arrays', new) = <<h>>
    <2>1. SubSeq(arrays'[new], 1, 1) = <<h>>
      BY <1>17, OneElement
    <2> QED
      BY <1>15, <2>1 DEF Held
  <1>22. \A q \in Parts : parts'[q].elts = parts[q].elts
    <2>1. parts[new].elts = new
      BY <1>6 DEF Owned
    <2> QED
      BY <1>11, <1>14, <1>15, <2>1
  <1>23. \A q \in Used : /\ q # p => parts'[q] = parts[q]
                         /\ parts'[q].nelts >= parts[q].nelts
    <2>1. \A q \in Used : q \in Parts /\ q # new
      BY <1>1, <1>9
    <2>2. \A q \in Used : parts'[q].nelts = parts[q].nelts
      BY <1>11, <1>14, <2>1
    <2>3. \A q \in Used : parts[q].nelts \in 0..NAlloc
      BY <1>3, <2>1 DEF PartRecords
    <2>4. \A k \in 0..NAlloc : k >= k
      BY <1>12
    <2> QED
      BY <1>11, <2>1, <2>2, <2>3, <2>4
  <1>24. /\ last' \in [Requests -> Requests \cup Allocated']
         /\ \A x \in Requests : x # r => last'[x] = last[x]
         /\ last'[r] = new
    BY <1>2, <1>4, <1>8
  <1>25. heap' \in 0..Len(SpareParts)
    BY <1>4, <1>5, PartNames
  <1>26. \A q \in Parts : parts'[q].next \in Allocated' \cup {Null}
    BY <1>2, <1>8, <1>11, <1>14, <1>15
  <1> QED
    BY <1>1, <1>6, <1>7, <1>8, <1>11, <1>14, <1>15, <1>18, <1>20, <1>21, <1>22,
       <1>23, <1>24, <1>25, <1>26 DEF Pushed, p

LEMMA PushPushes ==
  ASSUME ListsTyped, Owned, NEW r \in Requests, NEW h \in Data, ListPush(r, h)
  PROVE  Pushed(r, h)
  BY PushToLastPushes, PushToNewPartPushes DEF ListPush

(* The list of r grows by the header.                                       *)
LEMMA PushGrows ==
  ASSUME ListsTyped, Owned, NEW r \in Requests, NEW h \in Data, Pushed(r, h),
         NEW C, C \subseteq {r} \cup Allocated, last[r] \in C,
         IsList(parts, C, last[r])
  PROVE  \E E \in SUBSET ({r} \cup Allocated') :
             /\ C \subseteq E /\ E \ C \subseteq Allocated' \ Allocated
             /\ last'[r] \in E /\ IsList(parts', E, last'[r])
             /\ \A q \in C : Contents(parts', arrays', q) =
                             Append(Contents(parts, arrays, q), h)
  <1> DEFINE p == last[r]  end == last'[r]  E == C \cup {end}
  <1>1. C \subseteq Used /\ C \subseteq Parts
    BY UsedParts DEF Used
  <1>2. \A q \in C : q # p => parts[q].elts # parts[p].elts
    <2>1. parts[r].elts \in Requests
      BY DEF Owned, Requests, Subrequests
    <2>2. \A q \in Allocated : parts[q].elts = q /\ q \notin Requests
      BY UsedParts DEF Owned
    <2> QED
      BY <2>1, <2>2
  <1>3. \A q \in C : /\ parts[q].next \in C \cup {Null}
                     /\ parts[q].next = Null <=> q = p
    BY DEF IsList
  <1>4. \A q \in C \ {p} : /\ parts'[q] = parts[q]
                           /\ Held(parts', arrays', q) = Held(parts, arrays, q)
    BY <1>1, <1>2 DEF Pushed
  <1>5. Memory(parts, arrays) /\ Memory(parts', arrays')
    BY DEF ListsTyped, Pushed
  <1>6. \/ /\ end = p /\ parts'[p].next = Null /\ Allocated' = Allocated
           /\ Held(parts', arrays', p) = Append(Held(parts, arrays, p), h)
        \/ /\ end \in Allocated' \ Allocated /\ end \in Spares
           /\ Allocated' = Allocated \cup {end}
           /\ parts'[p].next = end /\ parts'[end].next = Null
           /\ Held(parts', arrays', p) = Held(parts, arrays, p)
           /\ Held(parts', arrays', end) = <<h>>
    BY <1>3 DEF Pushed
  <1>7. end # Null /\ p # Null /\ (end \in Spares => end \in Parts)
    BY <1>1, <1>6, PartNames
  <1>8. r \notin Allocated' \ Allocated
    BY <1>6, PartNames
  <1> HIDE DEF p, end
  <1>9. \A q \in C : Contents(parts', arrays', q) =
                     Append(Contents(parts, arrays, q), h)
    <2>1. IsList(parts, C, p) /\ p \in C
      BY DEF p
    <2>2. \/ /\ parts'[p].next = Null
             /\ Held(parts', arrays', p) = Append(Held(parts, arrays, p), h)
          \/ /\ Held(parts', arrays', p) = Held(parts, arrays, p)
             /\ parts'[p].next \in Parts
             /\ Held(parts', arrays', parts'[p].next) = <<h>>
             /\ parts'[parts'[p].next].next = Null
      BY <1>6, <1>7
    <2>3. \A q \in C \ {p} :
             /\ parts'[q].next = parts[q].next
             /\ Held(parts', arrays', q) = Held(parts, arrays, q)
      BY <1>4
    <2>4. OneMore(parts, arrays, parts', arrays', C, p, h)
      BY <1>1, <1>5, <2>1, <2>2, <2>3 DEF OneMore
    <2> QED
      BY <2>4, OneMoreContents
  <1>10. E \subseteq {r} \cup Allocated' /\ E \ C \subseteq Allocated' \ Allocated
    <2>1. Allocated \subseteq Allocated' /\ p \in C
      BY <1>6 DEF p
    <2> QED
      BY <1>6, <2>1
  <1>11. IsList(parts', E, end)
    <2>1. CASE end = p
      BY <1>3, <1>4, <1>6, <1>7, <2>1 DEF IsList, p
    <2>2. CASE end # p
      <3>1. end \notin C
        <4>1. CASE end = r
          BY <1>6, <1>8, <2>2, <4>1
        <4>2. CASE end # r
          BY <1>6, <2>2, <4>2
        <4> QED
          BY <4>1, <4>2
      <3> QED
        BY <1>3, <1>4, <1>6, <1>7, <2>2, <3>1 DEF IsList
    <2> QED
      BY <2>1, <2>2
  <1> QED
    BY <1>9, <1>10, <1>11 DEF end

(* Another list stays as it is.                                             *)
LEMMA PushSpares ==
  ASSUME ListsTyped, NEW r \in Requests, NEW h \in Data, Pushed(r, h),
         NEW B, B \subseteq Used, last[r] \notin B,
         \A q \in B : /\ parts[q].next \in B \cup {Null}
                      /\ \/ parts[q].elts # parts[last[r]].elts
                         \/ parts[q].nelts <= parts[last[r]].nelts
  PROVE  /\ \A q \in B : /\ parts'[q] = parts[q]
                         /\ Held(parts', arrays', q) = Held(parts, arrays, q)
         /\ \A q \in B \cup {Null} : Contents(parts', arrays', q) =
                                     Contents(parts, arrays, q)
  <1>1. \A q \in B : /\ parts'[q] = parts[q]
                     /\ Held(parts', arrays', q) = Held(parts, arrays, q)
    BY DEF Pushed
  <1>2. Memory(parts, arrays) /\ Memory(parts', arrays')
    BY DEF ListsTyped, Pushed
  <1>3. B \subseteq Parts
    BY UsedParts
  <1>4. \A q \in B : Contents(parts', arrays', q) = Contents(parts, arrays, q)
    <2>1. Alike(parts, arrays, parts', arrays', B)
      BY <1>1, <1>2, <1>3 DEF Alike
    <2> QED
      BY <2>1, SameContents
  <1>5. Contents(parts', arrays', Null) = Contents(parts, arrays, Null)
    BY <1>2, ContentsUnfold
  <1> QED
    BY <1>1, <1>4, <1>5

LEMMA PushOwned ==
  ASSUME ListsTyped, Owned, NEW r \in Requests, NEW h \in Data, Pushed(r, h),
         state'["store"] = "created" => state["store"] = "created"
  PROVE  Owned'
  <1>1. /\ \A q \in Parts : parts'[q].elts = parts[q].elts
        /\ \A x \in Requests : x # r => last'[x] = last[x]
        /\ Allocated \subseteq Allocated'
        /\ last'[r] = last[r] \/ last'[r] \in Allocated'
    BY DEF Pushed
  <1>2. /\ Main \in Parts /\ "fetch" \in Parts /\ "store" \in Parts
        /\ Main \in Requests /\ Spares \subseteq Parts
    BY PartNames DEF Requests, Subrequests
  <1>3. last'[Main] \in {Main} \cup Allocated'
    <2>1. last[Main] \in {Main} \cup Allocated
      BY DEF Owned
    <2> QED
      BY <1>1, <1>2, <2>1
  <1> QED
    BY <1>1, <1>2, <1>3 DEF Owned

LEMMA ElementsAreContents ==
  \A p : /\ Elements(p) = Contents(parts, arrays, p)
         /\ Elements(p)' = Contents(parts', arrays', p)
  BY DEF Elements, Contents, Places

-----------------------------------------------------------------------------
(* The lists of the three requests, when one of them grows.                 *)

(* A push to the list of the store subrequest.                              *)
LEMMA StorePush ==
  ASSUME ListsTyped, Owned, NEW h \in Data, Pushed("store", h), NEW D, OwnList(D)
  PROVE  \E E : /\ OwnList(E)' /\ E \ D \subseteq Allocated' \ Allocated
                /\ Contents(parts', arrays', "store") =
                   Append(Contents(parts, arrays, "store"), h)
  <1>1. /\ D \subseteq {"store"} \cup Allocated /\ "store" \in D
        /\ last["store"] \in D /\ IsList(parts, D, last["store"])
        /\ last[Main] \notin D /\ \A p \in Parts \ D : parts[p].next \notin D
    BY DEF OwnList
  <1>2. "store" \in Requests /\ Main \in Requests /\ Main # "store"
    BY DEF Requests, Subrequests, Main
  <1>3. PICK E \in SUBSET ({"store"} \cup Allocated') :
             /\ D \subseteq E /\ E \ D \subseteq Allocated' \ Allocated
             /\ last'["store"] \in E /\ IsList(parts', E, last'["store"])
             /\ \A q \in D : Contents(parts', arrays', q) =
                             Append(Contents(parts, arrays, q), h)
    BY <1>1, <1>2, PushGrows
  <1>4. last'[Main] \notin E
    <2>1. last'[Main] = last[Main]
      BY <1>2 DEF Pushed
    <2>2. last[Main] \notin Allocated' \ Allocated
      <3>1. last[Main] \in {Main} \cup Allocated /\ Main \notin Spares
        BY <1>2, PartNames DEF Owned
      <3>2. Allocated' \subseteq Allocated \cup Spares
        BY DEF Pushed
      <3> QED
        BY <3>1, <3>2
    <2> QED
      BY <1>1, <1>3, <2>1, <2>2
  <1>5. ASSUME NEW p \in Parts \ E PROVE parts'[p].next \notin E
    <2>1. parts'[p] = parts[p]
      BY <1>1, <1>3 DEF Pushed
    <2>2. parts[p].next \notin D /\ parts[p].next \in Allocated \cup {Null}
      BY <1>1, <1>3 DEF ListsTyped
    <2>3. Null \notin Allocated'
      <3>1. Allocated' \subseteq Allocated \cup Spares /\ Allocated \subseteq Spares
        BY UsedParts DEF Pushed
      <3> QED
        BY <3>1, PartNames
    <2> QED
      BY <1>3, <2>1, <2>2, <2>3
  <1>6. OwnList(E)'
    BY <1>1, <1>3, <1>4, <1>5 DEF OwnList
  <1> QED
    BY <1>1, <1>3, <1>6

(* It does not reach lists that lie apart from it.                          *)
LEMMA StoreSpares ==
  ASSUME ListsTyped, Owned, parts["store"].elts = "store",
         NEW h \in Data, Pushed("store", h), NEW D, OwnList(D),
         NEW B, B \subseteq ({Main} \cup Allocated) \ D,
         \A q \in B : parts[q].next \in B \cup {Null}
  PROVE  /\ \A q \in B : /\ parts'[q] = parts[q]
                         /\ Held(parts', arrays', q) = Held(parts, arrays, q)
         /\ \A q \in B \cup {Null} : Contents(parts', arrays', q) =
                                     Contents(parts, arrays, q)
  <1>1. "store" \in Requests /\ Main \in Requests
    BY DEF Requests, Subrequests
  <1>2. last["store"] \in D /\ D \subseteq {"store"} \cup Allocated
    BY DEF OwnList
  <1>3. parts[last["store"]].elts = last["store"]
    BY <1>2, UsedParts DEF Owned
  <1>4. \A q \in B : parts[q].elts = q
    BY UsedParts DEF Owned
  <1>5. \A q \in B : parts[q].elts # parts[last["store"]].elts
    BY <1>2, <1>3, <1>4
  <1>6. B \subseteq Used /\ last["store"] \notin B
    BY <1>1, <1>2 DEF Used
  <1> QED
    BY <1>1, <1>5, <1>6, PushSpares

(* A push to the list of the main request does not reach that of the store. *)
LEMMA MainSpares ==
  ASSUME ListsTyped, Owned, parts["store"].elts = "store",
         NEW h \in Data, Pushed(Main, h), NEW D, OwnList(D)
  PROVE  /\ OwnList(D)'
         /\ Contents(parts', arrays', "store") = Contents(parts, arrays, "store")
  <1>1. /\ D \subseteq {"store"} \cup Allocated /\ "store" \in D
        /\ last["store"] \in D /\ IsList(parts, D, last["store"])
        /\ last[Main] \notin D /\ \A p \in Parts \ D : parts[p].next \notin D
    BY DEF OwnList
  <1>2. "store" \in Requests /\ Main \in Requests /\ Main # "store"
    BY DEF Requests, Subrequests, Main
  <1>3. last[Main] \in {Main} \cup Allocated
    BY DEF Owned
  <1>4. parts[last[Main]].elts = last[Main] /\ \A q \in D : parts[q].elts = q
    BY <1>1, <1>3, UsedParts DEF Owned
  <1>5. \A q \in D : /\ parts[q].next \in D \cup {Null}
                     /\ parts[q].next = Null <=> q = last["store"]
    BY <1>1 DEF IsList
  <1>6. D \subseteq Used
    BY <1>1, <1>2 DEF Used
  <1>7. /\ \A q \in D : parts'[q] = parts[q]
        /\ \A q \in D : Contents(parts', arrays', q) = Contents(parts, arrays, q)
    <2>1. \A q \in D : parts[q].elts # parts[last[Main]].elts
      BY <1>1, <1>4
    <2>2. \A q \in D : /\ parts[q].next \in D \cup {Null}
                       /\ \/ parts[q].elts # parts[last[Main]].elts
                          \/ parts[q].nelts <= parts[last[Main]].nelts
      BY <1>5, <2>1
    <2>3. last[Main] \notin D
      BY <1>1
    <2>4. \A q \in D : /\ parts'[q] = parts[q]
                       /\ Held(parts', arrays', q) = Held(parts, arrays, q)
      BY <1>2, <1>6, <2>2, <2>3, PushSpares
    <2>5. \A q \in D \cup {Null} : Contents(parts', arrays', q) =
                                   Contents(parts, arrays, q)
      BY <1>2, <1>6, <2>2, <2>3, PushSpares
    <2> QED
      BY <2>4, <2>5
  <1>8. last'["store"] = last["store"] /\ Allocated \subseteq Allocated'
    BY <1>2 DEF Pushed
  <1>9. IsList(parts', D, last'["store"])
    BY <1>5, <1>7, <1>8 DEF IsList
  <1>10. \/ last'[Main] = last[Main] /\ parts'[last[Main]].next = parts[last[Main]].next
         \/ /\ last'[Main] \in Spares /\ last'[Main] \notin Allocated
            /\ parts'[last[Main]].next = last'[Main]
            /\ parts'[last'[Main]].next = Null
    BY DEF Pushed
  <1>11. last'[Main] \notin D
    <2>1. "store" \notin Spares
      BY <1>2, PartNames
    <2> QED
      BY <1>1, <1>10, <2>1
  <1>12. ASSUME NEW p \in Parts \ D PROVE parts'[p].next \notin D
    <2>1. parts[p].next \notin D /\ Null \notin D
      BY <1>1, <1>6, UsedParts
    <2>2. p \notin {last[Main], last'[Main]} => parts'[p] = parts[p]
      BY DEF Pushed
    <2> QED
      BY <1>10, <1>11, <2>1, <2>2
  <1> QED
    BY <1>1, <1>7, <1>8, <1>9, <1>11, <1>12 DEF OwnList

-----------------------------------------------------------------------------
(* A header is added.                                                       *)

LEMMA WhoIsRun ==
  ASSUME ListsInv, NEW r \in Requests, IsRun(r)
  PROVE  /\ state[r] = "running"
         /\ \A q \in Requests : state[q] # "created" /\ state[q] # "forwarding"
         /\ r = Main => state["fetch"] # "running"
         /\ r = "fetch" => state["store"] = "none"
         /\ r = "store" => state["fetch"] # "running"
  <1>1. /\ state[r] = "running"
        /\ r = Main => state["fetch"] # "running"
        /\ \A q \in Requests : state[q] # "created" /\ state[q] # "forwarding"
    BY DEF IsRun, Quiet
  <1>2. state["store"] # "none" => state["fetch"] \in {"none", "ended"}
    BY DEF ListsInv, InTurn
  <1> QED
    BY <1>1, <1>2

LEMMA RequestNames ==
  /\ Main \in Requests /\ "fetch" \in Requests /\ "store" \in Requests
  /\ Main # "fetch" /\ Main # "store" /\ "fetch" # "store"
  /\ Requests = {Main, "fetch", "store"} /\ Subrequests = {"fetch", "store"}
  /\ Subrequests \subseteq Requests
  BY DEF Requests, Subrequests, Main

(* Nobody but the main request and its subrequests writes to their lists.   *)
LEMMA MainAlone ==
  ASSUME ListsTyped, Owned, MainOK, ~shares, last[Main] = Main,
         NEW h \in Data, Pushed("fetch", h),
         last["fetch"] \in {"fetch"} \cup Allocated,
         parts["fetch"].elts = Main, parts["fetch"].nelts >= parts[Main].nelts,
         parts[Main].next = Null
  PROVE  /\ parts'[Main] = parts[Main] /\ last'[Main] = Main
         /\ Contents(parts', arrays', Main) = Contents(parts, arrays, Main)
         /\ parts'["fetch"].nelts >= parts'[Main].nelts
  <1> DEFINE B == {Main}
  <1>1. last["fetch"] # Main
    BY RequestNames, UsedParts
  <1>2. \/ parts[Main].elts # parts[last["fetch"]].elts
        \/ parts[Main].nelts <= parts[last["fetch"]].nelts
    <2>1. CASE last["fetch"] = "fetch"
      <3>1. parts[Main] \in PartRecords /\ parts["fetch"] \in PartRecords
        BY RequestNames, PartNames DEF ListsTyped, Memory
      <3>2. parts[Main].nelts \in Nat /\ parts["fetch"].nelts \in Nat
        BY <3>1, BoundsAssumption DEF PartRecords
      <3> QED
        BY <2>1, <3>2
    <2>2. CASE last["fetch"] \in Allocated
      BY <2>2, UsedParts, RequestNames DEF Owned
    <2> QED
      BY <2>1, <2>2
  <1>3. B \subseteq Used /\ last["fetch"] \notin B
    BY <1>1, RequestNames DEF Used
  <1>4. \A q \in B : /\ parts[q].next \in B \cup {Null}
                     /\ \/ parts[q].elts # parts[last["fetch"]].elts
                        \/ parts[q].nelts <= parts[last["fetch"]].nelts
    BY <1>2
  <1>5. \A q \in B : /\ parts'[q] = parts[q]
                     /\ Held(parts', arrays', q) = Held(parts, arrays, q)
    BY <1>3, <1>4, PushSpares, RequestNames
  <1>6. \A q \in B \cup {Null} : Contents(parts', arrays', q) =
                                 Contents(parts, arrays, q)
    BY <1>3, <1>4, PushSpares, RequestNames
  <1>7. last'[Main] = Main
    BY RequestNames DEF Pushed
  <1>8. parts'["fetch"].nelts >= parts'[Main].nelts
    <2>1. parts'["fetch"].nelts >= parts["fetch"].nelts
      BY RequestNames DEF Pushed, Used
    <2>2. /\ parts[Main] \in PartRecords /\ parts["fetch"] \in PartRecords
          /\ parts'["fetch"] \in PartRecords
      BY RequestNames, PartNames DEF ListsTyped, Memory, Pushed
    <2>3. /\ parts[Main].nelts \in Nat /\ parts["fetch"].nelts \in Nat
          /\ parts'["fetch"].nelts \in Nat
      BY <2>2, BoundsAssumption DEF PartRecords
    <2>4. parts'[Main].nelts = parts[Main].nelts
      BY <1>5
    <2> QED
      BY <2>1, <2>3, <2>4
  <1> QED
    BY <1>5, <1>6, <1>7, <1>8

LEMMA ElementsTyped ==
  ASSUME ListsTyped
  PROVE  \A p \in Places : Elements(p) \in Seq(Data)
  BY ContentsUnfold, ElementsAreContents DEF ListsTyped

LEMMA AddHeaderKeepsTyped ==
  ASSUME ListsInv, NEW r \in Requests, NEW h \in Pushes, AddHeader(r, h)
  PROVE  /\ h \in Data /\ Pushed(r, h) /\ IsRun(r)
         /\ ListsTyped' /\ Owned' /\ InTurn'
         /\ said' = [said EXCEPT ![r] = Append(@, h)]
         /\ said[r] \in Seq(Data) /\ said'[r] = Append(said[r], h)
         /\ UNCHANGED <<conf, state, set_up, scan, ctx, shares>>
  <1>1. h \in Data
    BY HeadersAssumption DEF Data
  <1>2. /\ IsRun(r) /\ ListPush(r, h)
        /\ said' = [said EXCEPT ![r] = Append(@, h)]
        /\ UNCHANGED <<conf, state, set_up, scan, ctx, shares>>
    BY DEF AddHeader
  <1>3. ListsTyped /\ Owned /\ InTurn
    BY DEF ListsInv
  <1>4. Pushed(r, h)
    BY <1>1, <1>2, <1>3, PushPushes
  <1>5. said \in [Requests -> Seq(Data)] /\ said[r] \in Seq(Data)
    BY <1>3 DEF ListsTyped
  <1>6. Append(said[r], h) \in Seq(Data)
    BY <1>1, <1>5
  <1>7. said' \in [Requests -> Seq(Data)] /\ said'[r] = Append(said[r], h)
    BY <1>2, <1>5, <1>6
  <1>8. ListsTyped'
    <2>1. /\ Memory(parts', arrays') /\ heap' \in 0..Len(SpareParts)
          /\ \A q \in Parts : parts'[q].next \in Allocated' \cup {Null}
          /\ last' \in [Requests -> Requests \cup Allocated']
      BY <1>4 DEF Pushed
    <2>2. /\ state' = state /\ shares' = shares /\ ctx' = ctx /\ method' = method
          /\ request_body' = request_body /\ content_length_n' = content_length_n
      BY <1>2 DEF set_up
    <2> QED
      BY <1>3, <1>7, <2>1, <2>2 DEF ListsTyped
  <1>9. Owned'
    BY <1>1, <1>2, <1>3, <1>4, PushOwned
  <1>10. InTurn'
    BY <1>2, <1>3 DEF InTurn
  <1> QED
    BY <1>1, <1>2, <1>4, <1>5, <1>7, <1>8, <1>9, <1>10

LEMMA AddMainHeader ==
  ASSUME ListsInv, NEW h \in Pushes, AddHeader(Main, h)
  PROVE  ListsInv'
  <1>1. /\ h \in Data /\ Pushed(Main, h) /\ IsRun(Main)
        /\ ListsTyped' /\ Owned' /\ InTurn' /\ ListsTyped /\ Owned
        /\ said[Main] \in Seq(Data) /\ said'[Main] = Append(said[Main], h)
        /\ UNCHANGED <<conf, state, set_up, scan, ctx, shares>>
    BY AddHeaderKeepsTyped, RequestNames DEF ListsInv
  <1>2. said'["store"] = said["store"]
    BY AddHeaderKeepsTyped, RequestNames DEF ListsTyped, ListsInv
  <1>3. /\ state["fetch"] \notin {"created", "running"}
        /\ state["store"] \notin {"created", "forwarding"}
    BY <1>1, WhoIsRun, RequestNames
  <1>4. MainOK'
    <2> SUFFICES ASSUME ~shares'
                 PROVE  /\ Elements(Main)' = said'[Main]
                        /\ \E C \in SUBSET ({Main} \cup Allocated') :
                               /\ Main \in C /\ last'[Main] \in C
                               /\ IsList(parts', C, last'[Main])
      BY DEF MainOK
    <2>1. ~shares /\ MainOK
      BY <1>1 DEF ListsInv
    <2>2. Elements(Main) = said[Main]
      BY <2>1 DEF MainOK
    <2>3. PICK C \in SUBSET ({Main} \cup Allocated) :
              Main \in C /\ last[Main] \in C /\ IsList(parts, C, last[Main])
      BY <2>1 DEF MainOK
    <2>4. PICK E \in SUBSET ({Main} \cup Allocated') :
             /\ C \subseteq E /\ E \ C \subseteq Allocated' \ Allocated
             /\ last'[Main] \in E /\ IsList(parts', E, last'[Main])
             /\ \A q \in C : Contents(parts', arrays', q) =
                             Append(Contents(parts, arrays, q), h)
      BY <1>1, <2>3, PushGrows, RequestNames
    <2>5. Elements(Main)' = said'[Main]
      BY <1>1, <2>2, <2>3, <2>4, ElementsAreContents
    <2> QED
      BY <2>3, <2>4, <2>5
  <1>5. FetchOK'
    BY <1>1, <1>3 DEF FetchOK
  <1>6. StoreOK'
    <2>1. StoreOK
      BY DEF ListsInv
    <2>2. /\ parts'["store"].elts = parts["store"].elts
          /\ state' = state /\ ctx' = ctx /\ method' = method /\ conf' = conf
          /\ request_body' = request_body /\ shares' = shares
          /\ content_length_n' = content_length_n
      BY <1>1, RequestNames, UsedParts DEF Pushed, set_up
    <2>3. CASE OwnsList
      <3>1. PICK D \in SUBSET Parts : OwnList(D)
        BY <2>1, <2>3 DEF StoreOK
      <3>2. parts["store"].elts = "store"
        BY <2>3 DEF OwnsList
      <3>3. /\ OwnList(D)'
            /\ Contents(parts', arrays', "store") = Contents(parts, arrays, "store")
        BY <1>1, <3>1, <3>2, MainSpares
      <3>4. Elements("store")' = Elements("store")
        BY <3>3, ElementsAreContents
      <3> QED
        BY <1>2, <1>3, <2>1, <2>2, <3>2, <3>3, <3>4 DEF StoreOK
    <2>4. CASE ~OwnsList
      <3>1. ~OwnsList'
        BY <2>2, <2>4 DEF OwnsList
      <3>2. state["store"] = "running" /\ "store" \in ctx => OwnsList
        BY <2>1 DEF StoreOK, OwnsList
      <3> QED
        BY <1>3, <2>1, <2>2, <2>4, <3>1, <3>2 DEF StoreOK
    <2> QED
      BY <2>3, <2>4
  <1> QED
    BY <1>1, <1>4, <1>5, <1>6 DEF ListsInv

LEMMA AddFetchHeader ==
  ASSUME ListsInv, NEW h \in Pushes, AddHeader("fetch", h)
  PROVE  ListsInv'
  <1>1. /\ h \in Data /\ Pushed("fetch", h) /\ IsRun("fetch")
        /\ ListsTyped' /\ Owned' /\ InTurn' /\ ListsTyped /\ Owned
        /\ said["fetch"] \in Seq(Data)
        /\ said'["fetch"] = Append(said["fetch"], h)
        /\ UNCHANGED <<conf, state, set_up, scan, ctx, shares>>
    BY AddHeaderKeepsTyped, RequestNames DEF ListsInv
  <1>2. said'[Main] = said[Main]
    BY AddHeaderKeepsTyped, RequestNames DEF ListsTyped, ListsInv
  <1>3. state["fetch"] = "running" /\ state["store"] = "none"
    BY <1>1, WhoIsRun, RequestNames
  <1>4. ASSUME ~shares
        PROVE  /\ MainOK' /\ FetchOK'
    <2>1. /\ MainOK /\ parts[Main].next = Null /\ last[Main] = Main
          /\ parts["fetch"].elts = Main
          /\ parts["fetch"].nelts >= parts[Main].nelts
          /\ Elements("fetch") = said["fetch"]
          /\ \E C \in SUBSET ({"fetch"} \cup Allocated) :
                 /\ "fetch" \in C /\ last["fetch"] \in C
                 /\ IsList(parts, C, last["fetch"])
      BY <1>3, <1>4 DEF FetchOK, ListsInv
    <2>2. PICK C \in SUBSET ({"fetch"} \cup Allocated) :
              /\ "fetch" \in C /\ last["fetch"] \in C
              /\ IsList(parts, C, last["fetch"])
      BY <2>1
    <2>3. last["fetch"] \in {"fetch"} \cup Allocated
      BY <2>2
    <2>4. /\ parts'[Main] = parts[Main] /\ last'[Main] = Main
          /\ Contents(parts', arrays', Main) = Contents(parts, arrays, Main)
          /\ parts'["fetch"].nelts >= parts'[Main].nelts
      BY <1>1, <1>4, <2>1, <2>3, MainAlone
    <2>5. PICK E \in SUBSET ({"fetch"} \cup Allocated') :
             /\ C \subseteq E /\ E \ C \subseteq Allocated' \ Allocated
             /\ last'["fetch"] \in E /\ IsList(parts', E, last'["fetch"])
             /\ \A q \in C : Contents(parts', arrays', q) =
                             Append(Contents(parts, arrays, q), h)
      BY <1>1, <2>2, PushGrows, RequestNames
    <2>6. Elements(Main)' = Elements(Main)
      BY <2>4, ElementsAreContents
    <2>7. Elements("fetch")' = Append(Elements("fetch"), h)
      BY <2>2, <2>5, ElementsAreContents
    <2>8. MainOK'
      <3>1. IsList(parts', {Main}, Main)
        BY <2>1, <2>4 DEF IsList
      <3>2. Elements(Main) = said[Main]
        BY <1>4, <2>1 DEF MainOK
      <3>3. Elements(Main)' = said'[Main]
        BY <1>2, <2>6, <3>2
      <3>4. {Main} \in SUBSET ({Main} \cup Allocated') /\ Main \in {Main}
        OBVIOUS
      <3> QED
        BY <2>4, <3>1, <3>3, <3>4 DEF MainOK
    <2>9. FetchOK'
      <3>1. parts'["fetch"].elts = Main
        BY <1>1, <2>1, RequestNames, UsedParts DEF Pushed
      <3>2. "fetch" \in E
        BY <2>2, <2>5
      <3> QED
        BY <1>1, <1>3, <2>1, <2>4, <2>5, <2>7, <3>1, <3>2 DEF FetchOK
    <2> QED
      BY <2>8, <2>9
  <1>5. MainOK' /\ FetchOK'
    <2>1. CASE shares
      BY <1>1, <2>1 DEF MainOK, FetchOK
    <2> QED
      BY <1>4, <2>1
  <1>6. StoreOK'
    BY <1>1, <1>3 DEF StoreOK, OwnsList
  <1> QED
    BY <1>1, <1>5, <1>6 DEF ListsInv

LEMMA AddStoreHeader ==
  ASSUME ListsInv, NEW h \in Pushes, AddHeader("store", h)
  PROVE  ListsInv'
  <1>1. /\ h \in Data /\ Pushed("store", h) /\ IsRun("store")
        /\ ListsTyped' /\ Owned' /\ InTurn' /\ ListsTyped /\ Owned
        /\ said["store"] \in Seq(Data)
        /\ said'["store"] = Append(said["store"], h)
        /\ UNCHANGED <<conf, state, set_up, scan, ctx, shares>>
    BY AddHeaderKeepsTyped, RequestNames DEF ListsInv
  <1>2. said'[Main] = said[Main]
    BY AddHeaderKeepsTyped, RequestNames DEF ListsTyped, ListsInv
  <1>3. /\ state["store"] = "running"
        /\ state["fetch"] \notin {"created", "running"}
    BY <1>1, WhoIsRun, RequestNames
  <1>4. StoreOK /\ MainOK
    BY DEF ListsInv
  <1>5. /\ parts'["store"].elts = parts["store"].elts
        /\ state' = state /\ ctx' = ctx /\ method' = method /\ conf' = conf
        /\ request_body' = request_body /\ shares' = shares
        /\ content_length_n' = content_length_n /\ last'[Main] = last[Main]
    BY <1>1, RequestNames, UsedParts DEF Pushed, set_up
  <1>6. ASSUME parts["store"].elts = "store"
        PROVE  \E D : OwnList(D) /\ D \in SUBSET Parts
    BY <1>3, <1>4, <1>6 DEF StoreOK, OwnsList
  <1>7. MainOK'
    <2> SUFFICES ASSUME ~shares'
                 PROVE  /\ Elements(Main)' = said'[Main]
                        /\ \E C \in SUBSET ({Main} \cup Allocated') :
                               /\ Main \in C /\ last'[Main] \in C
                               /\ IsList(parts', C, last'[Main])
      BY DEF MainOK
    <2>1. ~shares /\ parts["store"].elts = "store"
      BY <1>3, <1>4, <1>5 DEF StoreOK
    <2>2. PICK D : OwnList(D) /\ D \in SUBSET Parts
      BY <1>6, <2>1
    <2>3. Elements(Main) = said[Main]
      BY <1>4, <2>1 DEF MainOK
    <2>4. PICK C \in SUBSET ({Main} \cup Allocated) :
              Main \in C /\ last[Main] \in C /\ IsList(parts, C, last[Main])
      BY <1>4, <2>1 DEF MainOK
    <2> DEFINE B == C \ D
    <2>5. /\ D \subseteq {"store"} \cup Allocated /\ last[Main] \notin D
          /\ \A p \in Parts \ D : parts[p].next \notin D
      BY <2>2 DEF OwnList
    <2>6. Main \in B /\ last[Main] \in B /\ B \subseteq ({Main} \cup Allocated) \ D
      BY <1>1, <2>4, <2>5, UsedParts, RequestNames
    <2>7. \A q \in B : /\ parts[q].next \in B \cup {Null}
                       /\ parts[q].next = Null <=> q = last[Main]
      <3>1. \A q \in C : /\ parts[q].next \in C \cup {Null}
                         /\ parts[q].next = Null <=> q = last[Main]
        BY <2>4 DEF IsList
      <3>2. B \subseteq Parts \ D
        <4>1. {Main} \cup Allocated \subseteq Parts
          BY <1>1, UsedParts, RequestNames DEF Used
        <4> HIDE DEF B
        <4> QED
          BY <2>6, <4>1
      <3> QED
        BY <2>5, <3>1, <3>2
    <2> HIDE DEF B
    <2>8. /\ \A q \in B : /\ parts'[q] = parts[q]
                          /\ Held(parts', arrays', q) = Held(parts, arrays, q)
          /\ \A q \in B \cup {Null} : Contents(parts', arrays', q) =
                                      Contents(parts, arrays, q)
      BY <1>1, <2>1, <2>2, <2>6, <2>7, StoreSpares
    <2>9. Elements(Main)' = said'[Main]
      BY <1>2, <2>3, <2>6, <2>8, ElementsAreContents
    <2>10. IsList(parts', B, last'[Main])
      BY <1>5, <2>7, <2>8 DEF IsList
    <2>11. B \in SUBSET ({Main} \cup Allocated')
      BY <1>1, <2>6 DEF Pushed
    <2> QED
      BY <1>5, <2>6, <2>9, <2>10, <2>11
  <1>8. FetchOK'
    BY <1>3, <1>5 DEF FetchOK
  <1>9. StoreOK'
    <2>1. CASE parts["store"].elts = "store"
      <3>1. PICK D : OwnList(D) /\ D \in SUBSET Parts
        BY <1>6, <2>1
      <3>2. PICK E : /\ OwnList(E)' /\ E \ D \subseteq Allocated' \ Allocated
                     /\ Contents(parts', arrays', "store") =
                        Append(Contents(parts, arrays, "store"), h)
        BY <1>1, <3>1, StorePush
      <3>3. E \in SUBSET Parts
        <4>1. E \subseteq {"store"} \cup Allocated'
          BY <3>2 DEF OwnList
        <4> QED
          BY <1>1, <4>1, UsedParts, RequestNames, PartNames DEF Pushed
      <3>4. Elements("store")' = Append(Elements("store"), h)
        BY <3>2, ElementsAreContents
      <3>5. \E D_1 \in SUBSET Parts : OwnList(D_1)'
        BY <3>2, <3>3
      <3> QED
        BY <1>1, <1>3, <1>4, <1>5, <2>1, <3>4, <3>5 DEF StoreOK
    <2>2. CASE parts["store"].elts # "store"
      <3>1. ~OwnsList'
        BY <1>5, <2>2 DEF OwnsList
      <3>2. ~("store" \in ctx) /\ shares
        BY <1>3, <1>4, <2>2 DEF StoreOK
      <3> QED
        BY <1>3, <1>5, <3>1, <3>2 DEF StoreOK
    <2> QED
      BY <2>1, <2>2
  <1> QED
    BY <1>1, <1>7, <1>8, <1>9 DEF ListsInv

-----------------------------------------------------------------------------
(* Steps that leave the lists alone.                                        *)

LEMMA ElementsStay ==
  ASSUME UNCHANGED <<parts, arrays>>
  PROVE  \A p : Elements(p)' = Elements(p)
  <1>1. parts' = parts /\ arrays' = arrays
    OBVIOUS
  <1> QED
    BY <1>1, ElementsAreContents

LEMMA AllocatedStay ==
  ASSUME UNCHANGED heap
  PROVE  Allocated' = Allocated
  BY DEF Allocated

LEMMA MainStays ==
  ASSUME MainOK, UNCHANGED <<parts, arrays, heap>>, shares => shares',
         last'[Main] = last[Main], said'[Main] = said[Main]
  PROVE  MainOK'
  <1>1. Elements(Main)' = Elements(Main) /\ Allocated' = Allocated /\ parts' = parts
    BY ElementsStay, AllocatedStay
  <1> QED
    BY <1>1 DEF MainOK

LEMMA StoreStays ==
  ASSUME Owned, StoreOK,
         UNCHANGED <<list, conf, method, request_body, content_length_n, ctx>>,
         UNCHANGED <<said, shares>>,
         \/ state["store"] = "running" /\ state'["store"] = "running"
         \/ state'["store"] = "none" \/ state'["store"] = "ended"
  PROVE  StoreOK'
  <1>1. /\ parts' = parts /\ arrays' = arrays /\ last' = last /\ heap' = heap
        /\ ctx' = ctx /\ method' = method /\ conf' = conf /\ said' = said
        /\ request_body' = request_body /\ content_length_n' = content_length_n
        /\ shares' = shares
    BY DEF list
  <1>2. Elements("store")' = Elements("store") /\ Allocated' = Allocated
    BY <1>1, ElementsStay, AllocatedStay
  <1>3. \A D : OwnList(D)' <=> OwnList(D)
    BY <1>1, <1>2 DEF OwnList
  <1> QED
    BY <1>1, <1>2, <1>3 DEF StoreOK, OwnsList

LEMMA NotCreatedKeeps ==
  ASSUME ListsInv, NEW r \in Subrequests, NotCreated(r)
  PROVE  ListsInv'
  <1>1. /\ IsRun(Main) /\ state[r] = "none"
        /\ r = "fetch" => state["store"] = "none"
        /\ state' = [q \in Requests |->
               IF q = r \/ r = "fetch" THEN "ended" ELSE state[q]]
        /\ UNCHANGED <<conf, list, set_up, scan, ctx, said, shares, pushes>>
    BY DEF NotCreated
  <1>2. ListsTyped /\ Owned /\ InTurn /\ MainOK /\ FetchOK /\ StoreOK
    BY DEF ListsInv
  <1>3. /\ parts' = parts /\ arrays' = arrays /\ last' = last /\ heap' = heap
        /\ ctx' = ctx /\ method' = method /\ conf' = conf /\ said' = said
        /\ request_body' = request_body /\ content_length_n' = content_length_n
        /\ shares' = shares /\ Allocated' = Allocated
    BY <1>1, AllocatedStay DEF list, set_up
  <1>4. /\ state[Main] = "running" /\ state["fetch"] \in {"none", "ended"}
    <2>1. /\ state[Main] = "running" /\ state["fetch"] # "running"
          /\ \A q \in Requests : state[q] # "created" /\ state[q] # "forwarding"
      BY <1>1, WhoIsRun, RequestNames
    <2>2. state["fetch"] \in {"none", "created", "forwarding", "running", "ended"}
      BY <1>2, RequestNames DEF ListsTyped
    <2> QED
      BY <2>1, <2>2, RequestNames
  <1>5. /\ state'[Main] \in {"running", "ended"}
        /\ state'["fetch"] \in {"none", "ended"}
        /\ state'["store"] = "ended"
    BY <1>1, <1>4, RequestNames
  <1>6. ListsTyped'
    <2>1. state' \in [Requests ->
                       {"none", "created", "forwarding", "running", "ended"}]
      BY <1>1, <1>2 DEF ListsTyped
    <2>2. ASSUME NEW q \in Subrequests,
                 state'[q] \in {"none", "created", "forwarding"}
          PROVE  q \notin ctx
      <3>1. state'[q] = state[q]
        BY <1>1, <2>2, RequestNames
      <3> QED
        BY <1>2, <2>2, <3>1 DEF ListsTyped
    <2> QED
      BY <1>2, <1>3, <2>1, <2>2 DEF ListsTyped
  <1>7. Owned' /\ InTurn'
    BY <1>2, <1>3, <1>5 DEF Owned, InTurn
  <1>8. MainOK' /\ FetchOK' /\ StoreOK'
    BY <1>2, <1>3, <1>5, MainStays DEF FetchOK, StoreOK, OwnsList
  <1> QED
    BY <1>6, <1>7, <1>8 DEF ListsInv

LEMMA EndsKeeps ==
  ASSUME ListsInv, NEW r \in Requests, Ends(r)
  PROVE  ListsInv'
  <1>1. /\ IsRun(r)
        /\ state' = [q \in Requests |->
               IF q = r \/ r = Main THEN "ended" ELSE state[q]]
        /\ UNCHANGED <<conf, list, set_up, scan, ctx, said, shares, pushes>>
    BY DEF Ends
  <1>2. ListsTyped /\ Owned /\ InTurn /\ MainOK /\ FetchOK /\ StoreOK
    BY DEF ListsInv
  <1>3. /\ parts' = parts /\ arrays' = arrays /\ last' = last /\ heap' = heap
        /\ ctx' = ctx /\ method' = method /\ conf' = conf /\ said' = said
        /\ request_body' = request_body /\ content_length_n' = content_length_n
        /\ shares' = shares /\ Allocated' = Allocated
    BY <1>1, AllocatedStay DEF list, set_up
  <1>4. /\ state[r] = "running"
        /\ \A q \in Requests : state[q] # "created" /\ state[q] # "forwarding"
    BY <1>1, WhoIsRun
  <1>5. \A q \in Requests : state'[q] = "ended" \/ state'[q] = state[q]
    BY <1>1
  <1>6. state'["store"] # "none" => state'["fetch"] \in {"none", "ended"}
    <2>1. state["store"] # "none" => state["fetch"] \in {"none", "ended"}
      BY <1>2 DEF InTurn
    <2>2. CASE r = "store"
      <3>1. state["store"] # "none"
        BY <1>1, <2>2, WhoIsRun, RequestNames
      <3> QED
        BY <1>5, <2>1, <3>1, RequestNames
    <2>3. CASE r = "fetch"
      BY <1>1, <2>3, RequestNames
    <2>4. CASE r = Main
      BY <1>1, <2>4, RequestNames
    <2> QED
      BY <2>2, <2>3, <2>4, RequestNames
  <1>7. ListsTyped'
    <2>1. state' \in [Requests ->
                       {"none", "created", "forwarding", "running", "ended"}]
      BY <1>1, <1>2 DEF ListsTyped
    <2>2. ASSUME NEW q \in Subrequests,
                 state'[q] \in {"none", "created", "forwarding"}
          PROVE  q \notin ctx
      <3>1. state'[q] = state[q]
        BY <1>5, <2>2, RequestNames
      <3> QED
        BY <1>2, <2>2, <3>1 DEF ListsTyped
    <2> QED
      BY <1>2, <1>3, <2>1, <2>2 DEF ListsTyped
  <1>8. Owned' /\ InTurn'
    <2>1. state["fetch"] # "forwarding" /\ state[Main] \in {"running", "ended"}
      BY <1>2 DEF InTurn
    <2>2. state'["fetch"] # "forwarding" /\ state'[Main] \in {"running", "ended"}
          /\ state'["store"] # "created"
      BY <1>4, <1>5, <2>1, RequestNames
    <2> QED
      BY <1>2, <1>3, <1>6, <2>2 DEF Owned, InTurn
  <1>9. FetchOK'
    <2>1. state'["fetch"] = "ended" \/ state'["fetch"] = state["fetch"]
      BY <1>5, RequestNames
    <2>2. Elements("fetch")' = Elements("fetch")
      BY <1>3, ElementsStay
    <2> QED
      BY <1>2, <1>3, <2>1, <2>2 DEF FetchOK
  <1>10. StoreOK'
    <2>1. \/ state["store"] = "running" /\ state'["store"] = "running"
          \/ state'["store"] = "none" \/ state'["store"] = "ended"
      <3>1. state["store"] \in {"none", "created", "forwarding", "running", "ended"}
        BY <1>2, RequestNames DEF ListsTyped
      <3> QED
        BY <1>4, <1>5, <3>1, RequestNames
    <2> QED
      BY <1>1, <1>2, <1>3, <2>1, StoreStays DEF list
  <1> QED
    BY <1>2, <1>3, <1>7, <1>8, <1>9, <1>10, MainStays DEF ListsInv

-----------------------------------------------------------------------------
(* The headers are forwarded.                                               *)

LEMMA ForwardState ==
  ASSUME ListsInv, state["store"] = "forwarding"
  PROVE  /\ ListsTyped /\ Owned /\ InTurn /\ MainOK /\ FetchOK /\ StoreOK
         /\ state["fetch"] \in {"none", "ended"} /\ "store" \notin ctx
         /\ parts["store"].elts = "store"
         /\ i \in 1..(parts[at].nelts + 1)
         /\ said["store"] = Elements("store") \o WithoutLength(Rest)
         /\ method["store"] = conf["store"]
         /\ request_body["store"] = "store" /\ content_length_n["store"] = "store"
         /\ \E D \in SUBSET Parts :
                OwnList(D) /\ at \in ({Main} \cup Allocated) \ D
         /\ at \in Parts /\ at \in {Main} \cup Allocated
         /\ parts[at].elts \in Parts /\ parts[at].nelts \in 0..NAlloc
         /\ parts[at].next \in Allocated \cup {Null}
         /\ Elements("store") \in Seq(Data)
  <1>1. ListsTyped /\ Owned /\ InTurn /\ MainOK /\ FetchOK /\ StoreOK
    BY DEF ListsInv
  <1>2. state["fetch"] \in {"none", "ended"}
    BY <1>1 DEF InTurn
  <1>3. "store" \notin ctx
    BY <1>1, RequestNames DEF ListsTyped
  <1>4. parts["store"].elts = "store"
    BY <1>1 DEF StoreOK
  <1>5. /\ i \in 1..(parts[at].nelts + 1)
        /\ said["store"] = Elements("store") \o WithoutLength(Rest)
        /\ method["store"] = conf["store"]
        /\ request_body["store"] = "store" /\ content_length_n["store"] = "store"
    BY <1>1 DEF StoreOK
  <1>6. \E D \in SUBSET Parts :
            OwnList(D) /\ at \in ({Main} \cup Allocated) \ D
    BY <1>1, <1>4 DEF StoreOK, OwnsList
  <1>7. at \in Parts /\ at \in {Main} \cup Allocated
    <2>1. at \in {Main} \cup Allocated
      BY <1>6
    <2>2. {Main} \cup Allocated \subseteq Parts
      BY <1>1, UsedParts, RequestNames DEF Used
    <2> QED
      BY <2>1, <2>2
  <1>8. Memory(parts, arrays) /\ parts[at].next \in Allocated \cup {Null}
    BY <1>1, <1>7 DEF ListsTyped
  <1>9. parts[at].elts \in Parts /\ parts[at].nelts \in 0..NAlloc
    BY <1>7, <1>8, HeldTyped
  <1>10. Elements("store") \in Seq(Data)
    BY <1>1, ElementsTyped, RequestNames, PartNames DEF Places
  <1> QED
    BY <1>1, <1>2, <1>3, <1>4, <1>5, <1>6, <1>7, <1>8, <1>9, <1>10

(* The parent's list from a part on, and from an element on.                *)
LEMMA FromPart ==
  ASSUME ListsTyped, NEW p \in Parts
  PROVE  /\ Elements(p) = Held(parts, arrays, p) \o Elements(parts[p].next)
         /\ Elements(p) \in Seq(Data) /\ Elements(parts[p].next) \in Seq(Data)
         /\ Held(parts, arrays, p) \in Seq(Data)
         /\ Elements(Null) = <<>>
  <1>1. Memory(parts, arrays)
    BY DEF ListsTyped
  <1>2. parts[p].next \in Places /\ p \in Places
    BY <1>1, HeldTyped DEF Places
  <1>3. /\ Contents(parts, arrays, p) =
               Held(parts, arrays, p) \o Contents(parts, arrays, parts[p].next)
        /\ Contents(parts, arrays, Null) = <<>>
    BY <1>1, ContentsUnfold
  <1> QED
    BY <1>1, <1>2, <1>3, ElementsTyped, ElementsAreContents, HeldTyped

LEMMA TailOfArray ==
  ASSUME NEW s \in [1..NAlloc -> Data], NEW n \in 0..NAlloc, NEW k \in 1..(n + 1)
  PROVE  /\ SubSeq(s, k, n) \in Seq(Data)
         /\ k > n => SubSeq(s, k, n) = <<>>
         /\ ~(k > n) => SubSeq(s, k, n) = <<s[k]>> \o SubSeq(s, k + 1, n)
         /\ ~(k > n) => SubSeq(s, k + 1, n) \in Seq(Data) /\ s[k] \in Data
  <1>1. NAlloc \in Nat /\ n \in Nat /\ k \in Nat /\ n <= NAlloc /\ 1 <= k
        /\ k <= n + 1
    BY BoundsAssumption
  <1>2. s \in Seq(Data) /\ Len(s) = NAlloc
    BY <1>1
  <1>3. \A j \in 1..(n + 1) : SubSeq(s, j, n) \in Seq(Data)
                              /\ Len(SubSeq(s, j, n)) = n + 1 - j
    BY <1>1, <1>2
  <1>4. ASSUME k > n PROVE SubSeq(s, k, n) = <<>>
    <2>1. n + 1 - k = 0
      BY <1>1, <1>4
    <2> DEFINE t == SubSeq(s, k, n)
    <2>2. t \in Seq(Data) /\ Len(t) = 0
      BY <1>3, <2>1
    <2> HIDE DEF t
    <2>3. t = <<>>
      BY <2>2
    <2> QED
      BY <2>3 DEF t
  <1>5. ASSUME ~(k > n)
        PROVE  /\ SubSeq(s, k, n) = <<s[k]>> \o SubSeq(s, k + 1, n)
               /\ SubSeq(s, k + 1, n) \in Seq(Data) /\ s[k] \in Data
    <2> DEFINE a == SubSeq(s, k, n)  b == SubSeq(s, k + 1, n)
    <2>1. k \in 1..n /\ k + 1 \in 1..(n + 1) /\ s[k] \in Data
      BY <1>1, <1>5
    <2>2. a \in Seq(Data) /\ Len(a) = n + 1 - k
          /\ \A j \in 1..(n + 1 - k) : a[j] = s[k + j - 1]
      BY <1>1, <1>2
    <2>3. b \in Seq(Data) /\ Len(b) = n - k
          /\ \A j \in 1..(n - k) : b[j] = s[k + j]
      BY <1>1, <1>2, <2>1
    <2> HIDE DEF a, b
    <2> DEFINE c == <<s[k]>> \o b
    <2>4. c \in Seq(Data) /\ Len(c) = n + 1 - k /\ c[1] = s[k]
          /\ \A j \in 2..(n + 1 - k) : c[j] = b[j - 1]
      BY <1>1, <2>1, <2>3
    <2> HIDE DEF c
    <2>5. ASSUME NEW j \in 1..(n + 1 - k) PROVE a[j] = c[j]
      <3>1. CASE j = 1
        <4>1. k + 1 - 1 = k
          BY <1>1
        <4> QED
          BY <2>2, <2>4, <3>1, <4>1
      <3>2. CASE j # 1
        <4>1. j \in 2..(n + 1 - k) /\ j - 1 \in 1..(n - k) /\ k + (j - 1) = k + j - 1
          BY <1>1, <2>1, <3>2
        <4> QED
          BY <2>2, <2>3, <2>4, <4>1
      <3> QED
        BY <3>1, <3>2
    <2>6. a = c
      BY <2>2, <2>4, <2>5
    <2> QED
      BY <2>1, <2>3, <2>6 DEF a, b, c
  <1> QED
    BY <1>3, <1>4, <1>5

LEMMA RestTyped ==
  ASSUME ListsInv, state["store"] = "forwarding"
  PROVE  /\ Rest \in Seq(Data)
         /\ PartDone => Rest = Elements(parts[at].next)
         /\ ~PartDone =>
                /\ arrays[parts[at].elts][i] \in Data
                /\ SubSeq(arrays[parts[at].elts], i + 1, parts[at].nelts)
                   \o Elements(parts[at].next) \in Seq(Data)
                /\ Rest = <<arrays[parts[at].elts][i]>> \o
                     (SubSeq(arrays[parts[at].elts], i + 1, parts[at].nelts)
                      \o Elements(parts[at].next))
  <1> DEFINE s == arrays[parts[at].elts]  n == parts[at].nelts
             e == Elements(parts[at].next)
  <1>1. /\ ListsTyped /\ at \in Parts /\ parts[at].elts \in Parts /\ n \in 0..NAlloc
        /\ i \in 1..(n + 1)
    BY ForwardState
  <1>2. s \in [1..NAlloc -> Data] /\ e \in Seq(Data)
    BY <1>1, FromPart DEF ListsTyped, Memory
  <1>3. Rest = SubSeq(s, i, n) \o e /\ (PartDone <=> i > n)
    BY DEF Rest, PartDone
  <1> HIDE DEF s, n, e
  <1>4. /\ SubSeq(s, i, n) \in Seq(Data)
        /\ i > n => SubSeq(s, i, n) = <<>>
        /\ ~(i > n) => SubSeq(s, i, n) = <<s[i]>> \o SubSeq(s, i + 1, n)
        /\ ~(i > n) => SubSeq(s, i + 1, n) \in Seq(Data) /\ s[i] \in Data
    BY <1>1, <1>2, TailOfArray
  <1>5. /\ \A t \in Seq(Data) : <<>> \o t = t
        /\ \A t, u \in Seq(Data) : t \o u \in Seq(Data)
        /\ \A h \in Data : <<h>> \in Seq(Data)
    OBVIOUS
  <1>6. \A t, u, v \in Seq(Data) : (t \o u) \o v = t \o (u \o v)
    OBVIOUS
  <1>7. ASSUME ~(i > n)
        PROVE  Rest = <<s[i]>> \o (SubSeq(s, i + 1, n) \o e)
    <2>1. <<s[i]>> \in Seq(Data) /\ SubSeq(s, i + 1, n) \in Seq(Data)
      BY <1>4, <1>5, <1>7
    <2>2. Rest = (<<s[i]>> \o SubSeq(s, i + 1, n)) \o e
      BY <1>3, <1>4, <1>7
    <2>3. (<<s[i]>> \o SubSeq(s, i + 1, n)) \o e =
              <<s[i]>> \o (SubSeq(s, i + 1, n) \o e)
      BY <1>2, <1>6, <2>1, Zenon
    <2> QED
      BY <2>2, <2>3
  <1>8. Rest \in Seq(Data)
    BY <1>2, <1>3, <1>4, <1>5
  <1>9. PartDone => Rest = e
    <2>1. PartDone => Rest = <<>> \o e
      BY <1>3, <1>4
    <2> QED
      BY <1>2, <1>5, <2>1
  <1>10. ~(i > n) => SubSeq(s, i + 1, n) \o e \in Seq(Data)
    BY <1>2, <1>4, <1>5
  <1> QED
    BY <1>3, <1>4, <1>7, <1>8, <1>9, <1>10 DEF s, n, e

LEMMA ForwardNextPartKeeps ==
  ASSUME ListsInv, ForwardNextPart
  PROVE  ListsInv'
  <1>1. /\ state["store"] = "forwarding" /\ PartDone /\ parts[at].next # Null
        /\ at' = parts[at].next /\ i' = 1
        /\ UNCHANGED <<conf, list, state, set_up, ctx, said, shares, pushes>>
    BY DEF ForwardNextPart
  <1>2. /\ parts' = parts /\ arrays' = arrays /\ last' = last /\ heap' = heap
        /\ ctx' = ctx /\ method' = method /\ conf' = conf /\ said' = said
        /\ request_body' = request_body /\ content_length_n' = content_length_n
        /\ shares' = shares /\ state' = state /\ Allocated' = Allocated
    BY <1>1, AllocatedStay DEF list, set_up
  <1>3. /\ ListsTyped /\ Owned /\ InTurn /\ MainOK /\ FetchOK /\ StoreOK
        /\ state["fetch"] \in {"none", "ended"} /\ "store" \notin ctx
        /\ parts["store"].elts = "store"
        /\ said["store"] = Elements("store") \o WithoutLength(Rest)
        /\ method["store"] = conf["store"]
        /\ request_body["store"] = "store" /\ content_length_n["store"] = "store"
        /\ at \in Parts /\ parts[at].next \in Allocated \cup {Null}
    BY <1>1, ForwardState
  <1>4. PICK D \in SUBSET Parts :
            OwnList(D) /\ at \in ({Main} \cup Allocated) \ D
    BY <1>1, ForwardState
  <1>5. \A p : Elements(p)' = Elements(p)
    BY <1>2, ElementsStay
  <1>6. ListsTyped' /\ Owned' /\ InTurn' /\ MainOK' /\ FetchOK'
    <2>1. ListsTyped' /\ Owned' /\ InTurn'
      BY <1>2, <1>3 DEF ListsTyped, Owned, InTurn
    <2> QED
      BY <1>2, <1>3, <2>1, MainStays DEF FetchOK
  <1>7. at' \in ({Main} \cup Allocated) \ D
    BY <1>1, <1>3, <1>4 DEF OwnList
  <1>8. at' \in Parts
    BY <1>3, <1>7, UsedParts, RequestNames DEF Used
  <1>9. Rest' = Rest
    <2>1. Rest = Elements(at')
      BY <1>1, RestTyped
    <2>2. Elements(at') = Held(parts, arrays, at') \o Elements(parts[at'].next)
      BY <1>3, <1>8, FromPart
    <2>3. Rest' = SubSeq(arrays[parts[at'].elts], 1, parts[at'].nelts)
                  \o Elements(parts[at'].next)
      BY <1>1, <1>2, <1>5 DEF Rest
    <2> QED
      BY <2>1, <2>2, <2>3 DEF Held
  <1>10. i' \in 1..(parts[at'].nelts + 1)
    <2>1. parts[at'].nelts \in 0..NAlloc /\ NAlloc \in Nat
      BY <1>3, <1>8, HeldTyped, BoundsAssumption DEF ListsTyped
    <2> QED
      BY <1>1, <2>1
  <1>11. OwnList(D)'
    BY <1>2, <1>4 DEF OwnList
  <1>12. StoreOK'
    <2>1. said'["store"] = Elements("store")' \o WithoutLength(Rest)'
      <3>1. WithoutLength(Rest)' = WithoutLength(Rest)
        BY <1>9 DEF WithoutLength
      <3> QED
        BY <1>2, <1>3, <1>5, <3>1
    <2> QED
      BY <1>1, <1>2, <1>3, <1>4, <1>7, <1>10, <1>11, <2>1 DEF StoreOK
  <1> QED
    BY <1>6, <1>12 DEF ListsInv

LEMMA ForwardDoneKeeps ==
  ASSUME ListsInv, ForwardDone
  PROVE  ListsInv'
  <1>1. /\ state["store"] = "forwarding" /\ PartDone /\ parts[at].next = Null
        /\ state' = [state EXCEPT !["store"] = "running"]
        /\ ctx' = ctx \cup {"store"}
        /\ UNCHANGED <<conf, list, set_up, scan, said, shares, pushes>>
    BY DEF ForwardDone
  <1>2. /\ parts' = parts /\ arrays' = arrays /\ last' = last /\ heap' = heap
        /\ method' = method /\ conf' = conf /\ said' = said
        /\ request_body' = request_body /\ content_length_n' = content_length_n
        /\ shares' = shares /\ Allocated' = Allocated
    BY <1>1, AllocatedStay DEF list, set_up
  <1>3. /\ ListsTyped /\ Owned /\ InTurn /\ MainOK /\ FetchOK /\ StoreOK
        /\ state["fetch"] \in {"none", "ended"} /\ "store" \notin ctx
        /\ parts["store"].elts = "store"
        /\ said["store"] = Elements("store") \o WithoutLength(Rest)
        /\ method["store"] = conf["store"]
        /\ request_body["store"] = "store" /\ content_length_n["store"] = "store"
        /\ at \in Parts /\ Elements("store") \in Seq(Data)
    BY <1>1, ForwardState
  <1>4. PICK D \in SUBSET Parts : OwnList(D)
    BY <1>1, ForwardState
  <1>5. \A p : Elements(p)' = Elements(p)
    BY <1>2, ElementsStay
  <1>6. /\ state' \in [Requests ->
                         {"none", "created", "forwarding", "running", "ended"}]
        /\ state'["store"] = "running" /\ state'[Main] = state[Main]
        /\ state'["fetch"] = state["fetch"]
    BY <1>1, <1>3, RequestNames DEF ListsTyped
  <1>7. ListsTyped'
    <2>1. \A q \in Subrequests :
             state'[q] \in {"none", "created", "forwarding"} => q \notin ctx'
      BY <1>1, <1>3, <1>6, RequestNames DEF ListsTyped
    <2> QED
      BY <1>2, <1>3, <1>6, <2>1 DEF ListsTyped
  <1>8. Owned' /\ InTurn' /\ MainOK' /\ FetchOK'
    <2>1. Owned' /\ InTurn'
      BY <1>2, <1>3, <1>6 DEF Owned, InTurn
    <2> QED
      BY <1>2, <1>3, <1>6, <2>1, MainStays DEF FetchOK
  <1>9. said["store"] = Elements("store")
    <2>1. Rest = <<>>
      BY <1>1, <1>3, RestTyped, FromPart
    <2>2. WithoutLength(Rest) = <<>>
      BY <2>1, WithoutLengthOfNone
    <2>3. \A t \in Seq(Data) : t \o <<>> = t
      OBVIOUS
    <2> QED
      BY <1>3, <2>2, <2>3
  <1>10. OwnList(D)'
    BY <1>2, <1>4 DEF OwnList
  <1>11. StoreOK'
    BY <1>2, <1>3, <1>4, <1>5, <1>6, <1>9, <1>10 DEF StoreOK
  <1> QED
    BY <1>7, <1>8, <1>11 DEF ListsInv

LEMMA NoElementKeeps ==
  ASSUME ListsInv, NoElement
  PROVE  ListsInv'
  <1>1. /\ state["store"] = "forwarding" /\ SetUpFails("store")
        /\ UNCHANGED <<conf, list, set_up, scan, ctx, said, shares, pushes>>
    BY DEF NoElement
  <1>2. /\ parts' = parts /\ arrays' = arrays /\ last' = last /\ heap' = heap
        /\ method' = method /\ conf' = conf /\ said' = said /\ ctx' = ctx
        /\ request_body' = request_body /\ content_length_n' = content_length_n
        /\ shares' = shares /\ Allocated' = Allocated
    BY <1>1, AllocatedStay DEF list, set_up
  <1>3. /\ ListsTyped /\ Owned /\ InTurn /\ MainOK /\ FetchOK /\ StoreOK
        /\ state["fetch"] \in {"none", "ended"} /\ "store" \notin ctx
        /\ parts["store"].elts = "store"
    BY <1>1, ForwardState
  <1>4. PICK D \in SUBSET Parts : OwnList(D)
    BY <1>1, ForwardState
  <1>5. state' = [q \in Requests |-> IF q = "store" THEN "running" ELSE state[q]]
    BY <1>1 DEF SetUpFails
  <1>6. /\ state' \in [Requests ->
                         {"none", "created", "forwarding", "running", "ended"}]
        /\ state'["store"] = "running" /\ state'[Main] = state[Main]
        /\ state'["fetch"] = state["fetch"]
    BY <1>3, <1>5, RequestNames DEF ListsTyped
  <1>7. ListsTyped'
    <2>1. \A q \in Subrequests :
             state'[q] \in {"none", "created", "forwarding"} => q \notin ctx'
      BY <1>2, <1>3, <1>6, RequestNames DEF ListsTyped
    <2> QED
      BY <1>2, <1>3, <1>6, <2>1 DEF ListsTyped
  <1>8. Owned' /\ InTurn' /\ MainOK' /\ FetchOK'
    <2>1. Owned' /\ InTurn'
      BY <1>2, <1>3, <1>6 DEF Owned, InTurn
    <2> QED
      BY <1>2, <1>3, <1>6, <2>1, MainStays DEF FetchOK
  <1>9. OwnList(D)'
    BY <1>2, <1>4 DEF OwnList
  <1>10. StoreOK'
    BY <1>2, <1>3, <1>4, <1>6, <1>9 DEF StoreOK
  <1> QED
    BY <1>7, <1>8, <1>10 DEF ListsInv

(* The next header is forwarded, or it is the length.                       *)
LEMMA ForwardHeaderKeeps ==
  ASSUME ListsInv, ForwardHeader
  PROVE  ListsInv'
  <1> DEFINE h == arrays[parts[at].elts][i]
             after == SubSeq(arrays[parts[at].elts], i + 1, parts[at].nelts)
                     \o Elements(parts[at].next)
  <1>1. /\ state["store"] = "forwarding" /\ ~PartDone
        /\ \/ Forwards(h) /\ ListPush("store", h)
           \/ ~Forwards(h) /\ UNCHANGED list
        /\ i' = i + 1
        /\ UNCHANGED <<conf, state, set_up, at, ctx, said, shares, pushes>>
    BY DEF ForwardHeader
  <1>2. /\ method' = method /\ conf' = conf /\ said' = said /\ ctx' = ctx
        /\ request_body' = request_body /\ content_length_n' = content_length_n
        /\ shares' = shares /\ state' = state /\ at' = at
    BY <1>1 DEF set_up
  <1>3. /\ ListsTyped /\ Owned /\ InTurn /\ MainOK /\ FetchOK /\ StoreOK
        /\ state["fetch"] \in {"none", "ended"} /\ "store" \notin ctx
        /\ parts["store"].elts = "store"
        /\ i \in 1..(parts[at].nelts + 1)
        /\ said["store"] = Elements("store") \o WithoutLength(Rest)
        /\ method["store"] = conf["store"]
        /\ request_body["store"] = "store" /\ content_length_n["store"] = "store"
        /\ at \in Parts /\ at \in {Main} \cup Allocated
        /\ parts[at].elts \in Parts /\ parts[at].nelts \in 0..NAlloc
        /\ Elements("store") \in Seq(Data)
    BY <1>1, ForwardState
  <1>4. PICK D \in SUBSET Parts :
            OwnList(D) /\ at \in ({Main} \cup Allocated) \ D
    BY <1>1, ForwardState
  <1>5. h \in Data /\ after \in Seq(Data) /\ Rest = <<h>> \o after
    BY <1>1, RestTyped
  <1>6. i' \in 1..(parts[at].nelts + 1)
    <2>1. parts[at].nelts \in Nat /\ ~(i > parts[at].nelts)
      BY <1>1, <1>3, BoundsAssumption DEF PartDone
    <2> QED
      BY <1>1, <1>3, <2>1
  <1> HIDE DEF h, after
  <1>7. /\ WithoutLength(Rest) = Kept(h) \o WithoutLength(after)
        /\ WithoutLength(after) \in Seq(Data)
    BY <1>5, WithoutLengthOfNext
  <1>8. Rest' = SubSeq(arrays'[parts'[at].elts], i + 1, parts'[at].nelts)
                \o Contents(parts', arrays', parts'[at].next)
    <2>1. Rest' = SubSeq(arrays'[parts'[at'].elts], i', parts'[at'].nelts)
                  \o Contents(parts', arrays', parts'[at'].next)
      BY ElementsAreContents DEF Rest
    <2> QED
      BY <1>1, <1>2, <2>1
  <1>9. CASE Forwards(h) /\ ListPush("store", h)
    <2>1. Pushed("store", h)
      BY <1>3, <1>5, <1>9, PushPushes, RequestNames
    <2>2. Kept(h) = <<h>>
      BY <1>9 DEF Forwards, Kept
    <2>3. PICK E : /\ OwnList(E)' /\ E \ D \subseteq Allocated' \ Allocated
                   /\ Contents(parts', arrays', "store") =
                      Append(Contents(parts, arrays, "store"), h)
      BY <1>3, <1>4, <1>5, <2>1, StorePush
    <2>4. Elements("store")' = Append(Elements("store"), h)
      BY <2>3, ElementsAreContents
    <2>5. /\ D \subseteq {"store"} \cup Allocated /\ "store" \in D
          /\ last["store"] \in D /\ last[Main] \notin D
          /\ \A p \in Parts \ D : parts[p].next \notin D
      BY <1>4 DEF OwnList
    <2> DEFINE B == ({Main} \cup Allocated) \ D
    <2>6. B \subseteq Parts \ D /\ B \subseteq ({Main} \cup Allocated) \ D
      <3>1. {Main} \cup Allocated \subseteq Parts
        BY <1>3, UsedParts, RequestNames DEF Used
      <3> QED
        BY <3>1
    <2>7. \A q \in B : parts[q].next \in B \cup {Null}
      <3>1. \A q \in B : parts[q].next \in Allocated \cup {Null}
        BY <1>3, <2>6 DEF ListsTyped
      <3>2. \A q \in B : parts[q].next \notin D
        BY <2>5, <2>6
      <3> QED
        BY <3>1, <3>2
    <2>8. at \in B
      BY <1>4
    <2> HIDE DEF B
    <2>9. /\ \A q \in B : /\ parts'[q] = parts[q]
                          /\ Held(parts', arrays', q) = Held(parts, arrays, q)
          /\ \A q \in B \cup {Null} : Contents(parts', arrays', q) =
                                      Contents(parts, arrays, q)
      BY <1>3, <1>4, <1>5, <2>1, <2>6, <2>7, StoreSpares
    <2>10. Contents(parts', arrays', parts[at].next) = Elements(parts[at].next)
      BY <2>7, <2>8, <2>9, ElementsAreContents
    <2>11. arrays'[parts[at].elts] = arrays[parts[at].elts]
      <3>1. parts[last["store"]].elts = last["store"] /\ parts[at].elts = at
        BY <1>3, <2>5, UsedParts DEF Owned
      <3>2. at # last["store"]
        BY <1>4, <2>5
      <3>3. at \notin Allocated' \ Allocated
        <4>1. Main \notin Spares
          BY PartNames, RequestNames
        <4>2. Allocated' \subseteq Allocated \cup Spares
          BY <2>1 DEF Pushed
        <4> QED
          BY <1>3, <4>1, <4>2
      <3>4. PushToLast("store", h) \/ PushToNewPart("store", h)
        BY <1>9 DEF ListPush
      <3>5. /\ arrays \in [Parts -> [1..NAlloc -> Data]]
        BY <1>3 DEF ListsTyped, Memory
      <3>6. CASE PushToLast("store", h)
        <4>1. arrays' = [arrays EXCEPT ![last["store"]][parts[last["store"]].nelts + 1] = h]
          BY <3>1, <3>6 DEF PushToLast
        <4> QED
          BY <1>3, <3>1, <3>2, <3>5, <4>1
      <3>7. CASE PushToNewPart("store", h)
        <4>1. /\ heap < Len(SpareParts) /\ heap' = heap + 1
              /\ arrays' = [arrays EXCEPT ![SpareParts[heap + 1]] =
                               [Blank EXCEPT ![1] = h]]
          BY <3>7 DEF PushToNewPart
        <4>2. heap \in Nat
          BY <1>3, UsedParts
        <4>3. heap + 1 \in 1..(heap + 1)
          BY <4>2
        <4>4. SpareParts[heap + 1] \in Allocated'
          BY <4>1, <4>3 DEF Allocated
        <4>5. heap + 1 \in 1..Len(SpareParts) /\ Len(SpareParts) \in Nat
          BY <4>1, <4>2, PartNames
        <4>6. SpareParts[heap + 1] \notin Allocated
          <5>1. \A k \in 1..heap : k \in 1..Len(SpareParts) /\ k # heap + 1
            BY <4>2, <4>5
          <5> QED
            BY <4>5, <5>1, PartNames DEF Allocated
        <4>7. at # SpareParts[heap + 1]
          BY <3>3, <4>4, <4>6
        <4> QED
          BY <1>3, <3>1, <3>5, <4>1, <4>7
      <3> QED
        BY <3>4, <3>6, <3>7
    <2>12. Rest' = after
      <3>1. parts'[at] = parts[at]
        BY <2>8, <2>9
      <3> QED
        BY <1>8, <2>10, <2>11, <3>1 DEF after
    <2>13. said'["store"] = Elements("store")' \o WithoutLength(Rest)'
      <3>1. WithoutLength(Rest)' = WithoutLength(after)
        BY <2>12 DEF WithoutLength
      <3> DEFINE s == Elements("store")  t == WithoutLength(after)
      <3>2. s \in Seq(Data) /\ t \in Seq(Data)
        BY <1>3, <1>7
      <3> HIDE DEF s, t
      <3>3. s \o (<<h>> \o t) = Append(s, h) \o t
        BY <1>5, <3>2
      <3> QED
        BY <1>2, <1>3, <1>7, <2>2, <2>4, <3>1, <3>3 DEF s, t
    <2>14. ListsTyped'
      <3>1. /\ Memory(parts', arrays') /\ heap' \in 0..Len(SpareParts)
            /\ \A q \in Parts : parts'[q].next \in Allocated' \cup {Null}
            /\ last' \in [Requests -> Requests \cup Allocated']
        BY <2>1 DEF Pushed
      <3> QED
        BY <1>2, <1>3, <3>1 DEF ListsTyped
    <2>15. Owned' /\ InTurn' /\ FetchOK'
      <3>1. Owned'
        BY <1>2, <1>3, <1>5, <2>1, PushOwned, RequestNames
      <3> QED
        BY <1>2, <1>3, <3>1 DEF InTurn, FetchOK
    <2>16. last'[Main] = last[Main] /\ Allocated \subseteq Allocated'
      BY <2>1, RequestNames DEF Pushed
    <2>17. MainOK'
      <3> SUFFICES ASSUME ~shares'
                   PROVE  /\ Elements(Main)' = said'[Main]
                          /\ \E C \in SUBSET ({Main} \cup Allocated') :
                                 /\ Main \in C /\ last'[Main] \in C
                                 /\ IsList(parts', C, last'[Main])
        BY DEF MainOK
      <3>1. Elements(Main) = said[Main]
        BY <1>2, <1>3 DEF MainOK
      <3>2. PICK C \in SUBSET ({Main} \cup Allocated) :
                Main \in C /\ last[Main] \in C /\ IsList(parts, C, last[Main])
        BY <1>2, <1>3 DEF MainOK
      <3>3. \A q \in C : /\ parts[q].next \in C \cup {Null}
                         /\ parts[q].next = Null <=> q = last[Main]
        BY <3>2 DEF IsList
      <3>4. Main \in B /\ C \cap B = C \ D
        BY <2>5, <3>2, UsedParts, RequestNames, <1>3 DEF B
      <3>5. last[Main] \in C \cap B
        BY <2>5, <3>2, <3>4
      <3>6. \A q \in C \cap B : /\ parts'[q].next \in (C \cap B) \cup {Null}
                                /\ parts'[q].next = Null <=> q = last'[Main]
        <4>1. \A q \in C \cap B : parts'[q] = parts[q]
          BY <2>9
        <4>2. Null \notin C
          BY <1>3, <3>2, UsedParts, RequestNames DEF Used
        <4> QED
          BY <2>7, <2>16, <3>3, <4>1, <4>2
      <3>7. C \cap B \in SUBSET ({Main} \cup Allocated')
        BY <2>16, <3>2
      <3>8. Elements(Main)' = said'[Main]
        BY <1>2, <2>9, <3>1, <3>4, ElementsAreContents
      <3>9. IsList(parts', C \cap B, last'[Main])
        BY <3>6 DEF IsList
      <3> QED
        BY <2>16, <3>2, <3>4, <3>5, <3>7, <3>8, <3>9
    <2>18. StoreOK'
      <3>1. parts'["store"].elts = "store" /\ parts'[at] = parts[at]
        BY <1>3, <2>1, <2>8, <2>9, RequestNames, UsedParts DEF Pushed
      <3>2. at \in ({Main} \cup Allocated') \ E
        <4>1. at \notin Allocated' \ Allocated
          <5>1. Main \notin Spares
            BY PartNames, RequestNames
          <5>2. Allocated' \subseteq Allocated \cup Spares
            BY <2>1 DEF Pushed
          <5> QED
            BY <1>3, <5>1, <5>2
        <4> QED
          BY <1>4, <2>3, <2>16, <4>1
      <3>3. E \in SUBSET Parts
        <4>1. E \subseteq {"store"} \cup Allocated'
          BY <2>3 DEF OwnList
        <4>2. Allocated' \subseteq Allocated \cup Spares
          BY <2>1 DEF Pushed
        <4> QED
          BY <1>3, <4>1, <4>2, UsedParts, RequestNames, PartNames
      <3>4. \E D_1 \in SUBSET Parts :
               OwnList(D_1)' /\ at' \in ({Main} \cup Allocated') \ D_1
        BY <1>2, <2>3, <3>2, <3>3
      <3> QED
        BY <1>1, <1>2, <1>3, <1>6, <2>13, <3>1, <3>4 DEF StoreOK
    <2> QED
      BY <2>14, <2>15, <2>17, <2>18 DEF ListsInv
  <1>10. CASE ~Forwards(h) /\ UNCHANGED list
    <2>1. /\ parts' = parts /\ arrays' = arrays /\ last' = last /\ heap' = heap
          /\ Allocated' = Allocated
      BY <1>10, AllocatedStay DEF list
    <2>2. \A p : Elements(p)' = Elements(p)
      BY <2>1, ElementsStay
    <2>3. ListsTyped' /\ Owned' /\ InTurn' /\ FetchOK'
      <3>1. ListsTyped' /\ Owned' /\ InTurn'
        BY <1>2, <1>3, <2>1 DEF ListsTyped, Owned, InTurn
      <3> QED
        BY <1>2, <1>3, <2>1, <3>1 DEF FetchOK
    <2>4. MainOK'
      BY <1>2, <1>3, <2>1, MainStays
    <2>5. Kept(h) = <<>>
      BY <1>10 DEF Forwards, Kept
    <2>6. Rest' = after
      BY <1>8, <2>1, ElementsAreContents DEF after
    <2>7. said'["store"] = Elements("store")' \o WithoutLength(Rest)'
      <3>1. WithoutLength(Rest)' = WithoutLength(after)
        BY <2>6 DEF WithoutLength
      <3>2. \A t \in Seq(Data) : <<>> \o t = t
        OBVIOUS
      <3>3. WithoutLength(Rest) = WithoutLength(after)
        BY <1>7, <2>5, <3>2
      <3> QED
        BY <1>2, <1>3, <2>2, <3>1, <3>3
    <2>8. OwnList(D)'
      BY <1>4, <2>1 DEF OwnList
    <2>9. StoreOK'
      BY <1>1, <1>2, <1>3, <1>4, <1>6, <2>1, <2>7, <2>8 DEF StoreOK
    <2> QED
      BY <2>3, <2>4, <2>9 DEF ListsInv
  <1> QED
    BY <1>1, <1>9, <1>10

-----------------------------------------------------------------------------
(* A subrequest is created and set up.                                      *)

LEMMA DueTyped ==
  ASSUME ListsTyped
  PROVE  /\ Elements(Main) \in Seq(Data)
         /\ WithoutLength(Elements(Main)) \in Seq(Data)
         /\ \A r \in Subrequests : Due(r) \in Seq(Data)
  <1>1. Elements(Main) \in Seq(Data)
    BY ElementsTyped, RequestNames, PartNames DEF Places
  <1>2. OwnLength \in Data
    BY DEF Data
  <1>3. WithoutLength(Elements(Main)) \in Seq(Data)
    BY <1>1, <1>2, WithoutLengthOfNext
  <1>4. <<OwnLength>> \o WithoutLength(Elements(Main)) \in Seq(Data)
    <2>1. \A h \in Data, t \in Seq(Data) : <<h>> \o t \in Seq(Data)
      OBVIOUS
    <2> QED
      BY <1>2, <1>3, <2>1
  <1> QED
    BY <1>1, <1>3, <1>4 DEF Due

(* The copy of the structure is a list of its own first part, and the rest  *)
(* of the parent's.                                                         *)
LEMMA CopiedList ==
  ASSUME ListsTyped, NEW r \in Subrequests, parts' = [parts EXCEPT ![r] = parts[Main]],
         arrays' = arrays
  PROVE  /\ Memory(parts', arrays')
         /\ parts'[r] = parts[Main] /\ \A p \in Parts : p # r => parts'[p] = parts[p]
         /\ Elements(r)' = Elements(Main) /\ Elements(Main)' = Elements(Main)
  <1>1. /\ Memory(parts, arrays) /\ parts \in [Parts -> PartRecords]
        /\ \A p \in Parts : parts[p].next = Null \/ Follows(p, parts[p].next)
        /\ \A p \in Parts : parts[p].next \in Spares \cup {Null}
    <2>1. Memory(parts, arrays)
      BY DEF ListsTyped
    <2> QED
      BY <2>1, UsedParts DEF Memory, ListsTyped
  <1>2. r \in Parts /\ Main \in Parts /\ r # Main /\ r \in Requests
    BY RequestNames, PartNames
  <1>3. /\ parts' \in [Parts -> PartRecords] /\ parts'[r] = parts[Main]
        /\ \A p \in Parts : p # r => parts'[p] = parts[p]
    BY <1>1, <1>2
  <1>4. \A q : Follows(Main, q) => Follows(r, q)
    BY <1>2 DEF Follows
  <1>5. Memory(parts', arrays')
    <2>1. \A p \in Parts : parts'[p].next = Null \/ Follows(p, parts'[p].next)
      BY <1>1, <1>2, <1>3, <1>4
    <2>2. arrays' \in [Parts -> [1..NAlloc -> Data]]
      BY <1>1 DEF Memory
    <2> QED
      BY <1>3, <2>1, <2>2 DEF Memory
  <1> DEFINE C == Parts \ {r}
  <1>6. \A p \in C : Contents(parts', arrays', p) = Contents(parts, arrays, p)
    <2>1. ASSUME NEW p \in C
          PROVE  /\ parts[p].next \in C \cup {Null}
                 /\ parts'[p].next = parts[p].next
                 /\ Held(parts', arrays', p) = Held(parts, arrays, p)
      <3>1. parts'[p] = parts[p] /\ parts[p].next \in Spares \cup {Null}
        BY <1>1, <1>3
      <3>2. r \notin Spares /\ Spares \subseteq Parts
        BY <1>2, PartNames
      <3> QED
        BY <3>1, <3>2 DEF Held
    <2>2. C \subseteq Parts
      OBVIOUS
    <2> HIDE DEF C
    <2>3. Alike(parts, arrays, parts', arrays', C)
      BY <1>1, <1>5, <2>1, <2>2 DEF Alike
    <2> QED
      BY <2>3, SameContents
  <1>7. Contents(parts', arrays', Null) = <<>> /\ Contents(parts, arrays, Null) = <<>>
    BY <1>1, <1>5, ContentsUnfold
  <1>8. /\ Contents(parts', arrays', r) =
               Held(parts', arrays', r) \o Contents(parts', arrays', parts'[r].next)
        /\ Contents(parts, arrays, Main) =
               Held(parts, arrays, Main) \o Contents(parts, arrays, parts[Main].next)
    BY <1>1, <1>2, <1>5, ContentsUnfold
  <1>9. Held(parts', arrays', r) = Held(parts, arrays, Main)
    BY <1>3 DEF Held
  <1>10. Contents(parts', arrays', parts[Main].next) =
         Contents(parts, arrays, parts[Main].next)
    <2>1. parts[Main].next \in Spares \cup {Null} /\ r \notin Spares
      BY <1>1, <1>2, PartNames
    <2> QED
      BY <1>6, <1>7, <2>1, PartNames
  <1>11. Elements(r)' = Elements(Main)
    BY <1>3, <1>8, <1>9, <1>10, ElementsAreContents
  <1>12. Elements(Main)' = Elements(Main)
    BY <1>2, <1>6, ElementsAreContents
  <1> QED
    BY <1>3, <1>5, <1>11, <1>12

LEMMA CreateKeeps ==
  ASSUME ListsInv, NEW r \in Subrequests, Create(r)
  PROVE  ListsInv'
  <1>1. /\ IsRun(Main) /\ state[r] = "none"
        /\ r = "fetch" => state["store"] = "none"
        /\ state' = [state EXCEPT ![r] = "created"]
        /\ parts' = [parts EXCEPT ![r] = parts[Main]]
        /\ last' = [last EXCEPT ![r] = last[Main]]
        /\ said' = [said EXCEPT ![r] = Due(r)]
        /\ shares' = (shares \/ (r = "fetch" /\ last[Main] # Main))
        /\ UNCHANGED <<conf, arrays, heap, set_up, scan, ctx, pushes>>
    BY DEF Create
  <1>2. ListsTyped /\ Owned /\ InTurn /\ MainOK /\ FetchOK /\ StoreOK
    BY DEF ListsInv
  <1>3. /\ arrays' = arrays /\ heap' = heap /\ ctx' = ctx /\ method' = method
        /\ request_body' = request_body /\ content_length_n' = content_length_n
        /\ Allocated' = Allocated
    BY <1>1, AllocatedStay DEF set_up
  <1>4. /\ Memory(parts', arrays')
        /\ parts'[r] = parts[Main]
        /\ \A p \in Parts : p # r => parts'[p] = parts[p]
        /\ Elements(r)' = Elements(Main) /\ Elements(Main)' = Elements(Main)
    BY <1>1, <1>2, <1>3, CopiedList
  <1>5. r \in Requests /\ r # Main /\ r \in Parts /\ Main \in Parts /\ r \notin Spares
        /\ Requests \subseteq Parts /\ Spares \subseteq Parts
    BY RequestNames, PartNames
  <1>6. /\ state[Main] = "running" /\ state["fetch"] \in {"none", "ended"}
        /\ state["store"] # "forwarding"
    <2>1. /\ state[Main] = "running" /\ state["fetch"] # "running"
          /\ \A q \in Requests : state[q] # "created" /\ state[q] # "forwarding"
      BY <1>1, WhoIsRun, RequestNames
    <2>2. state["fetch"] \in {"none", "created", "forwarding", "running", "ended"}
      BY <1>2, RequestNames DEF ListsTyped
    <2> QED
      BY <2>1, <2>2, RequestNames
  <1>7. /\ state'[r] = "created" /\ \A q \in Requests : q # r => state'[q] = state[q]
        /\ last'[r] = last[Main] /\ \A q \in Requests : q # r => last'[q] = last[q]
        /\ said'[r] = Due(r) /\ \A q \in Requests : q # r => said'[q] = said[q]
        /\ shares' \in BOOLEAN /\ Due(r) \in Seq(Data)
    BY <1>1, <1>2, <1>5, DueTyped DEF ListsTyped
  <1>8. ListsTyped'
    <2>1. /\ state' \in [Requests ->
                           {"none", "created", "forwarding", "running", "ended"}]
          /\ last' \in [Requests -> Requests \cup Allocated]
          /\ said' \in [Requests -> Seq(Data)]
      <3>1. last[Main] \in Requests \cup Allocated
        BY <1>2, RequestNames DEF ListsTyped
      <3> QED
        BY <1>1, <1>2, <1>7, <3>1 DEF ListsTyped
    <2>2. \A q \in Subrequests :
             state'[q] \in {"none", "created", "forwarding"} => q \notin ctx'
      BY <1>1, <1>2, <1>3, <1>7, RequestNames DEF ListsTyped
    <2>3. \A p \in Parts : parts'[p].next \in Allocated \cup {Null}
      BY <1>2, <1>4, <1>5 DEF ListsTyped
    <2> QED
      BY <1>2, <1>3, <1>4, <1>7, <2>1, <2>2, <2>3 DEF ListsTyped
  <1>9. Owned'
    <2>1. parts'[Main].elts = Main /\ parts'[r].elts = Main
          /\ \A p \in Spares : parts'[p].elts = p
      BY <1>2, <1>4, <1>5 DEF Owned
    <2>2. /\ parts'["fetch"].elts \in {Main, "fetch"}
          /\ parts'["store"].elts \in {Main, "store"}
      BY <1>2, <1>4, <1>5, <2>1, RequestNames DEF Owned
    <2>3. state'["store"] = "created" => parts'["store"].elts = Main
      <3>1. r # "store" => state'["store"] = state["store"]
        BY <1>7, RequestNames
      <3>2. state["store"] # "created"
        BY <1>1, WhoIsRun, RequestNames, <1>2
      <3> QED
        BY <2>1, <3>1, <3>2
    <2>4. last'[Main] \in {Main} \cup Allocated
      BY <1>2, <1>5, <1>7, RequestNames DEF Owned
    <2> QED
      BY <1>3, <2>1, <2>2, <2>3, <2>4 DEF Owned
  <1>10. CASE r = "fetch"
    <2>1. /\ state'["store"] = "none" /\ state'["fetch"] = "created"
          /\ state'[Main] = state[Main] /\ last'[Main] = last[Main]
          /\ said'[Main] = said[Main] /\ said'["fetch"] = Elements(Main)
          /\ shares' = (shares \/ last[Main] # Main)
      BY <1>1, <1>7, <1>10, RequestNames DEF Due
    <2>2. InTurn' /\ StoreOK'
      BY <1>6, <2>1 DEF InTurn, StoreOK, OwnsList
    <2>3. MainOK' /\ FetchOK'
      <3>1. CASE shares'
        BY <3>1 DEF MainOK, FetchOK
      <3>2. CASE ~shares'
        <4>1. ~shares /\ last[Main] = Main
          BY <2>1, <3>2
        <4>2. Elements(Main) = said[Main]
          BY <1>2, <4>1 DEF MainOK
        <4>3. PICK C \in SUBSET ({Main} \cup Allocated) :
                  Main \in C /\ last[Main] \in C /\ IsList(parts, C, last[Main])
          BY <1>2, <4>1 DEF MainOK
        <4>4. parts[Main].next = Null
          BY <4>1, <4>3 DEF IsList
        <4>5. C \subseteq Parts /\ r \notin C
          BY <1>2, <1>5, UsedParts
        <4>6. IsList(parts', C, last'[Main])
          BY <1>4, <2>1, <4>3, <4>5 DEF IsList
        <4>7. MainOK'
          BY <1>3, <1>4, <2>1, <4>2, <4>3, <4>6 DEF MainOK
        <4>8. parts'["fetch"] = parts[Main] /\ parts'[Main] = parts[Main]
              /\ Elements("fetch")' = Elements(Main) /\ parts[Main].elts = Main
          BY <1>2, <1>4, <1>5, <1>10 DEF Owned
        <4>9. parts[Main].nelts >= parts[Main].nelts
          <5>1. parts[Main].nelts \in 0..NAlloc /\ NAlloc \in Nat
            BY <1>2, <1>5, HeldTyped, BoundsAssumption DEF ListsTyped
          <5> QED
            BY <5>1
        <4>10. FetchOK'
          BY <2>1, <4>1, <4>4, <4>8, <4>9 DEF FetchOK
        <4> QED
          BY <4>7, <4>10
      <3> QED
        BY <3>1, <3>2
    <2> QED
      BY <1>8, <1>9, <2>2, <2>3 DEF ListsInv
  <1>11. CASE r = "store"
    <2>1. /\ state'["store"] = "created" /\ state'["fetch"] = state["fetch"]
          /\ state'[Main] = state[Main] /\ last'[Main] = last[Main]
          /\ said'[Main] = said[Main] /\ said'["store"] = Due("store")
          /\ shares' = shares
      BY <1>1, <1>2, <1>7, <1>11, RequestNames DEF ListsTyped
    <2>2. InTurn' /\ FetchOK'
      BY <1>6, <2>1 DEF InTurn, FetchOK
    <2>3. StoreOK'
      <3>1. Due("store")' = Due("store")
        BY <1>4 DEF Due, WithoutLength
      <3> QED
        BY <2>1, <3>1 DEF StoreOK, OwnsList
    <2>4. MainOK'
      <3>1. CASE shares'
        BY <3>1 DEF MainOK
      <3>2. CASE ~shares'
        <4>1. Elements(Main) = said[Main]
          BY <1>2, <2>1, <3>2 DEF MainOK
        <4>2. PICK C \in SUBSET ({Main} \cup Allocated) :
                  Main \in C /\ last[Main] \in C /\ IsList(parts, C, last[Main])
          BY <1>2, <2>1, <3>2 DEF MainOK
        <4>3. C \subseteq Parts /\ r \notin C
          BY <1>2, <1>5, UsedParts
        <4>4. IsList(parts', C, last'[Main])
          BY <1>4, <2>1, <4>2, <4>3 DEF IsList
        <4> QED
          BY <1>3, <1>4, <2>1, <4>1, <4>2, <4>4 DEF MainOK
      <3> QED
        BY <3>1, <3>2
    <2> QED
      BY <1>8, <1>9, <2>2, <2>3, <2>4 DEF ListsInv
  <1> QED
    BY <1>10, <1>11, RequestNames

LEMMA AdjustFetchKeeps ==
  ASSUME ListsInv, AdjustFetch
  PROVE  ListsInv'
  <1>1. /\ state["fetch"] = "created"
        /\ method' = [method EXCEPT !["fetch"] = conf["fetch"]]
        /\ last' = [last EXCEPT !["fetch"] =
                       IF last[Main] = Main THEN "fetch" ELSE last["fetch"]]
        /\ state' = [state EXCEPT !["fetch"] = "running"]
        /\ ctx' = ctx \cup {"fetch"}
        /\ UNCHANGED <<conf, parts, arrays, heap, request_body, content_length_n,
                       scan, said, shares, pushes>>
    BY DEF AdjustFetch, WithMethod, OwnLast
  <1>2. ListsTyped /\ Owned /\ InTurn /\ MainOK /\ FetchOK /\ StoreOK
    BY DEF ListsInv
  <1>3. Allocated' = Allocated /\ \A p : Elements(p)' = Elements(p)
    BY <1>1, AllocatedStay, ElementsStay
  <1>4. state["store"] = "none"
    <2>1. state["fetch"] # "none" /\ state["fetch"] # "ended"
      BY <1>1
    <2> QED
      BY <1>2, <2>1 DEF InTurn
  <1>5. /\ state' \in [Requests ->
                         {"none", "created", "forwarding", "running", "ended"}]
        /\ state'["store"] = "none" /\ state'["fetch"] = "running"
        /\ state'[Main] = state[Main] /\ last'[Main] = last[Main]
        /\ last' \in [Requests -> Requests \cup Allocated]
        /\ last[Main] = Main => last'["fetch"] = "fetch"
    <2>1. last \in [Requests -> Requests \cup Allocated]
          /\ last["fetch"] \in Requests \cup Allocated
      BY <1>2, RequestNames DEF ListsTyped
    <2>2. state' \in [Requests ->
                         {"none", "created", "forwarding", "running", "ended"}]
      BY <1>1, <1>2 DEF ListsTyped
    <2>3. last' \in [Requests -> Requests \cup Allocated]
      BY <1>1, <2>1, RequestNames
    <2> QED
      BY <1>1, <1>2, <1>4, <2>1, <2>2, <2>3, RequestNames DEF ListsTyped
  <1>6. ListsTyped'
    <2>1. PICK S : method \in [Requests -> S]
      BY <1>2 DEF ListsTyped
    <2>2. method' \in [Requests -> S \cup {conf["fetch"]}]
      BY <1>1, <2>1
    <2>3. \A q \in Subrequests :
             state'[q] \in {"none", "created", "forwarding"} => q \notin ctx'
      BY <1>1, <1>2, <1>4, <1>5, RequestNames DEF ListsTyped
    <2> QED
      BY <1>1, <1>2, <1>3, <1>5, <2>2, <2>3 DEF ListsTyped
  <1>7. Owned' /\ InTurn' /\ MainOK' /\ StoreOK'
    <2>1. Owned'
      BY <1>1, <1>2, <1>3, <1>5 DEF Owned
    <2>2. InTurn' /\ StoreOK'
      BY <1>2, <1>5 DEF InTurn, StoreOK, OwnsList
    <2>3. MainOK'
      BY <1>1, <1>2, <1>5, MainStays
    <2> QED
      BY <2>1, <2>2, <2>3
  <1>8. FetchOK'
    <2>1. CASE shares'
      BY <2>1 DEF FetchOK
    <2>2. CASE ~shares'
      <3>1. /\ parts[Main].next = Null /\ last[Main] = Main
            /\ parts["fetch"].elts = Main
            /\ parts["fetch"].nelts >= parts[Main].nelts
            /\ Elements("fetch") = said["fetch"]
            /\ parts["fetch"].next = Null
        BY <1>1, <1>2, <2>2 DEF FetchOK
      <3> DEFINE C == {"fetch"}
      <3>2. C \in SUBSET ({"fetch"} \cup Allocated') /\ "fetch" \in C
        OBVIOUS
      <3>3. last'["fetch"] \in C /\ IsList(parts', C, last'["fetch"])
        BY <1>1, <1>5, <3>1 DEF IsList
      <3> QED
        BY <1>1, <1>3, <1>5, <3>1, <3>2, <3>3 DEF FetchOK
    <2> QED
      BY <2>1, <2>2
  <1> QED
    BY <1>6, <1>7, <1>8 DEF ListsInv

LEMMA NoVariablesKeeps ==
  ASSUME ListsInv, NEW r \in Subrequests, NoVariables(r)
  PROVE  ListsInv'
  <1>1. /\ state[r] = "created"
        /\ method' = [method EXCEPT ![r] = conf[r]]
        /\ state' = [q \in Requests |-> IF r = "fetch" THEN "ended"
                                        ELSE IF q = r THEN "running" ELSE state[q]]
        /\ last' = [last EXCEPT ![r] = IF last[Main] = Main THEN r ELSE last[r]]
        /\ shares' = (shares \/ r = "store")
        /\ UNCHANGED <<conf, parts, arrays, heap, request_body, content_length_n,
                       scan, ctx, said, pushes>>
    BY DEF NoVariables, WithMethod, SetUpFails, OwnLast
  <1>2. ListsTyped /\ Owned /\ InTurn /\ MainOK /\ FetchOK /\ StoreOK
    BY DEF ListsInv
  <1>3. Allocated' = Allocated /\ \A p : Elements(p)' = Elements(p)
    BY <1>1, AllocatedStay, ElementsStay
  <1>4. r \in Requests /\ r # Main
    BY RequestNames
  <1>5. /\ last' \in [Requests -> Requests \cup Allocated]
        /\ last'[Main] = last[Main] /\ shares' \in BOOLEAN
    <2>1. last \in [Requests -> Requests \cup Allocated]
          /\ last[r] \in Requests \cup Allocated /\ shares \in BOOLEAN
      BY <1>2, <1>4 DEF ListsTyped
    <2> QED
      BY <1>1, <1>4, <2>1
  <1>6. state' \in [Requests ->
                       {"none", "created", "forwarding", "running", "ended"}]
    BY <1>1, <1>2 DEF ListsTyped
  <1>7. ListsTyped'
    <2>1. PICK S : method \in [Requests -> S]
      BY <1>2 DEF ListsTyped
    <2>2. method' \in [Requests -> S \cup {conf[r]}]
      BY <1>1, <2>1
    <2>3. \A q \in Subrequests :
             state'[q] \in {"none", "created", "forwarding"} => q \notin ctx'
      BY <1>1, <1>2, RequestNames DEF ListsTyped
    <2> QED
      BY <1>1, <1>2, <1>3, <1>5, <1>6, <2>2, <2>3 DEF ListsTyped
  <1>8. state'["store"] # "created" /\ state'["store"] # "forwarding"
    BY <1>1, RequestNames
  <1>9. Owned'
    BY <1>1, <1>2, <1>3, <1>5, <1>8 DEF Owned
  <1>10. MainOK'
    BY <1>1, <1>2, <1>5, MainStays
  <1>11. InTurn' /\ FetchOK' /\ StoreOK'
    <2>1. CASE r = "fetch"
      <3>1. state'["fetch"] = "ended" /\ state'["store"] = "ended"
            /\ state'[Main] = "ended"
        BY <1>1, <2>1, RequestNames
      <3> QED
        BY <3>1 DEF InTurn, FetchOK, StoreOK, OwnsList
    <2>2. CASE r = "store"
      <3>1. /\ state'["store"] = "running" /\ state'["fetch"] = state["fetch"]
            /\ state'[Main] = state[Main] /\ shares'
        BY <1>1, <2>2, RequestNames
      <3>2. state["fetch"] \in {"none", "ended"}
        BY <1>1, <1>2, <2>2 DEF InTurn
      <3>3. parts'["store"].elts = Main /\ "store" \notin ctx'
        BY <1>1, <1>2, <2>2, RequestNames DEF Owned, ListsTyped
      <3>4. InTurn' /\ FetchOK'
        BY <1>2, <3>1, <3>2 DEF InTurn, FetchOK
      <3>5. StoreOK'
        BY <3>1, <3>3, RequestNames DEF StoreOK, OwnsList
      <3> QED
        BY <3>4, <3>5
    <2> QED
      BY <2>1, <2>2, RequestNames
  <1> QED
    BY <1>7, <1>9, <1>10, <1>11 DEF ListsInv

(* The list of its own is begun.                                            *)
LEMMA AdjustStoreKeeps ==
  ASSUME ListsInv, AdjustStore
  PROVE  ListsInv'
  <1>1. /\ state["store"] = "created"
        /\ method' = [method EXCEPT !["store"] = conf["store"]]
        /\ request_body' = [request_body EXCEPT !["store"] = "store"]
        /\ content_length_n' = [content_length_n EXCEPT !["store"] = "store"]
        /\ last' = [last EXCEPT !["store"] = "store"]
        /\ parts' = [parts EXCEPT !["store"] = Part("store", 1)]
        /\ arrays' = [arrays EXCEPT !["store"] = [Blank EXCEPT ![1] = OwnLength]]
        /\ state' = [state EXCEPT !["store"] = "forwarding"]
        /\ at' = Main /\ i' = 1
        /\ UNCHANGED <<conf, heap, ctx, said, shares, pushes>>
    BY DEF AdjustStore, WithMethod
  <1>2. ListsTyped /\ Owned /\ InTurn /\ MainOK /\ FetchOK /\ StoreOK
    BY DEF ListsInv
  <1>3. Allocated' = Allocated
    BY <1>1, AllocatedStay
  <1>4. /\ Memory(parts, arrays) /\ parts \in [Parts -> PartRecords]
        /\ arrays \in [Parts -> [1..NAlloc -> Data]]
        /\ \A p \in Parts : parts[p].next = Null \/ Follows(p, parts[p].next)
        /\ \A p \in Parts : parts[p].next \in Allocated \cup {Null}
    BY <1>2 DEF ListsTyped, Memory
  <1>5. /\ "store" \in Parts /\ Main \in Parts /\ Spares \subseteq Parts
        /\ Requests \subseteq Parts /\ "store" \notin Spares
        /\ Allocated \subseteq Spares /\ Main \notin Spares /\ Null \notin Parts
    BY <1>2, RequestNames, PartNames, UsedParts
  <1>6. NAlloc \in Nat /\ 1 \in 1..NAlloc /\ 1 \in 0..NAlloc
    BY BoundsAssumption
  <1>7. /\ parts'["store"] = Part("store", 1)
        /\ \A p \in Parts : p # "store" => parts'[p] = parts[p]
        /\ parts'["store"].elts = "store" /\ parts'["store"].nelts = 1
        /\ parts'["store"].next = Null
        /\ parts' \in [Parts -> PartRecords]
    <2>1. Part("store", 1) \in PartRecords
      BY <1>5, <1>6 DEF Part, PartRecords
    <2>2. parts'["store"] = Part("store", 1) /\ parts' \in [Parts -> PartRecords]
          /\ \A p \in Parts : p # "store" => parts'[p] = parts[p]
      BY <1>1, <1>4, <1>5, <2>1
    <2> QED
      BY <2>2 DEF Part
  <1>8. /\ \A p \in Parts : p # "store" => arrays'[p] = arrays[p]
        /\ arrays' \in [Parts -> [1..NAlloc -> Data]]
        /\ arrays'["store"] \in [1..NAlloc -> Data]
        /\ arrays'["store"][1] = OwnLength
    <2>1. Blank \in [1..NAlloc -> Data] /\ OwnLength \in Data
      BY DEF Blank, Data
    <2>2. /\ [Blank EXCEPT ![1] = OwnLength] \in [1..NAlloc -> Data]
          /\ [Blank EXCEPT ![1] = OwnLength][1] = OwnLength
      BY <1>6, <2>1
    <2> HIDE DEF OwnLength
    <2> QED
      BY <1>1, <1>4, <1>5, <2>2
  <1>9. Memory(parts', arrays')
    <2>1. \A p \in Parts : parts'[p].next = Null \/ Follows(p, parts'[p].next)
      BY <1>4, <1>7
    <2> QED
      BY <1>7, <1>8, <2>1 DEF Memory
  <1> DEFINE C == Parts \ {"store"}
  <1>10. \A p \in C : /\ parts'[p] = parts[p]
                      /\ Held(parts', arrays', p) = Held(parts, arrays, p)
                      /\ parts[p].next \in C \cup {Null}
                      /\ parts[p].elts # "store"
    <2>1. \A p \in C : parts[p].elts # "store" /\ parts[p].elts \in Parts
      <3>1. C \subseteq {Main, "fetch"} \cup Spares
        BY PartNames, RequestNames
      <3>2. \A p \in {Main, "fetch"} \cup Spares : parts[p].elts # "store"
        BY <1>2, <1>5, RequestNames DEF Owned
      <3>3. \A p \in Parts : parts[p].elts \in Parts
        BY <1>4 DEF PartRecords
      <3> QED
        BY <3>1, <3>2, <3>3
    <2>2. \A p \in C : Held(parts', arrays', p) = Held(parts, arrays, p)
      BY <1>7, <1>8, <2>1 DEF Held
    <2>3. \A p \in C : parts[p].next \in C \cup {Null}
      BY <1>4, <1>5
    <2> QED
      BY <1>7, <2>1, <2>2, <2>3
  <1>11. \A p \in C : Contents(parts', arrays', p) = Contents(parts, arrays, p)
    <2>1. C \subseteq Parts
      OBVIOUS
    <2>2. Alike(parts, arrays, parts', arrays', C)
      <3> HIDE DEF C
      <3> QED
        BY <1>4, <1>9, <1>10, <2>1 DEF Alike
    <2> QED
      BY <2>2, SameContents
  <1>12. /\ Contents(parts', arrays', Null) = <<>> /\ Contents(parts, arrays, Null) = <<>>
         /\ Contents(parts', arrays', "store") =
                Held(parts', arrays', "store")
                \o Contents(parts', arrays', parts'["store"].next)
         /\ Contents(parts, arrays, Main) =
                Held(parts, arrays, Main) \o Contents(parts, arrays, parts[Main].next)
    BY <1>4, <1>5, <1>9, ContentsUnfold
  <1>13. OwnLength \in Data
    BY DEF Data
  <1> HIDE DEF C
  <1>14. Contents(parts', arrays', "store") = <<OwnLength>>
    <2>1. Held(parts', arrays', "store") = <<OwnLength>>
      BY <1>7, <1>8, OneElement DEF Held
    <2>2. <<OwnLength>> \o <<>> = <<OwnLength>>
      BY <1>13, AtTheEnd
    <2> QED
      BY <1>7, <1>12, <2>1, <2>2
  <1>15. Main \in C
    BY <1>5, RequestNames DEF C
  <1>16. Elements(Main)' = Elements(Main) /\ parts'[Main] = parts[Main]
    BY <1>10, <1>11, <1>15, ElementsAreContents
  <1>17. Rest' = Elements(Main)
    <2>1. Rest' = SubSeq(arrays'[parts'[at'].elts], i', parts'[at'].nelts)
                  \o Contents(parts', arrays', parts'[at'].next)
      BY ElementsAreContents DEF Rest
    <2>2. Rest' = Held(parts', arrays', Main)
                  \o Contents(parts', arrays', parts[Main].next)
      BY <1>1, <1>16, <2>1 DEF Held
    <2>3. Contents(parts', arrays', parts[Main].next) =
          Contents(parts, arrays, parts[Main].next)
      BY <1>10, <1>11, <1>12, <1>15
    <2> QED
      BY <1>10, <1>12, <1>15, <2>2, <2>3, ElementsAreContents
  <1>18. /\ state' \in [Requests ->
                          {"none", "created", "forwarding", "running", "ended"}]
         /\ state'["store"] = "forwarding" /\ state'["fetch"] = state["fetch"]
         /\ state'[Main] = state[Main]
    BY <1>1, <1>2, RequestNames DEF ListsTyped
  <1>19. /\ last' \in [Requests -> Requests \cup Allocated]
         /\ last'["store"] = "store" /\ last'[Main] = last[Main]
    BY <1>1, <1>2, RequestNames DEF ListsTyped
  <1>20. /\ request_body' \in [Requests -> Requests]
         /\ content_length_n' \in [Requests -> Requests]
         /\ request_body'["store"] = "store" /\ content_length_n'["store"] = "store"
    BY <1>1, <1>2, RequestNames DEF ListsTyped
  <1>21. /\ \E S : method' \in [Requests -> S]
         /\ method'["store"] = conf["store"]
    <2>1. PICK S : method \in [Requests -> S]
      BY <1>2 DEF ListsTyped
    <2>2. method' \in [Requests -> S \cup {conf["store"]}]
          /\ method'["store"] = conf["store"]
      BY <1>1, <2>1, RequestNames
    <2> QED
      BY <2>2
  <1>22. ListsTyped'
    <2>1. \A q \in Subrequests :
             state'[q] \in {"none", "created", "forwarding"} => q \notin ctx'
      BY <1>1, <1>2, <1>18, RequestNames DEF ListsTyped
    <2>2. \A p \in Parts : parts'[p].next \in Allocated \cup {Null}
      BY <1>4, <1>7
    <2> QED
      BY <1>1, <1>2, <1>3, <1>9, <1>18, <1>19, <1>20, <1>21, <2>1, <2>2 DEF ListsTyped
  <1>23. Owned' /\ InTurn' /\ FetchOK'
    <2>1. state["fetch"] \in {"none", "ended"}
      BY <1>1, <1>2 DEF InTurn
    <2>2. Owned'
      BY <1>2, <1>3, <1>5, <1>7, <1>18, <1>19, RequestNames DEF Owned
    <2> QED
      BY <1>2, <1>18, <2>1, <2>2 DEF InTurn, FetchOK
  <1>24. MainOK'
    <2>1. CASE shares'
      BY <2>1 DEF MainOK
    <2>2. CASE ~shares'
      <3>1. Elements(Main) = said[Main]
        BY <1>1, <1>2, <2>2 DEF MainOK
      <3>2. PICK B \in SUBSET ({Main} \cup Allocated) :
                Main \in B /\ last[Main] \in B /\ IsList(parts, B, last[Main])
        BY <1>1, <1>2, <2>2 DEF MainOK
      <3>3. B \subseteq C
        BY <1>5, <3>2, RequestNames DEF C
      <3>4. IsList(parts', B, last'[Main])
        BY <1>10, <1>19, <3>2, <3>3 DEF IsList
      <3> QED
        BY <1>1, <1>3, <1>16, <1>19, <3>1, <3>2, <3>4 DEF MainOK
    <2> QED
      BY <2>1, <2>2
  <1>25. StoreOK'
    <2> DEFINE D == {"store"}
    <2>1. OwnList(D)'
      <3>1. last'[Main] \notin D
        BY <1>2, <1>5, <1>19, RequestNames DEF Owned
      <3>2. IsList(parts', D, last'["store"])
        BY <1>7, <1>19 DEF IsList
      <3>3. \A p \in Parts \ D : parts'[p].next \notin D
        BY <1>4, <1>5, <1>7
      <3> QED
        BY <1>19, <3>1, <3>2, <3>3 DEF OwnList
    <2>2. at' \in ({Main} \cup Allocated') \ D /\ D \in SUBSET Parts
      BY <1>1, <1>5, RequestNames
    <2>3. i' \in 1..(parts'[at'].nelts + 1)
      <3>1. parts[Main].nelts \in 0..NAlloc
        BY <1>4, <1>5, HeldTyped
      <3> QED
        BY <1>1, <1>6, <1>16, <3>1
    <2>4. said'["store"] = Elements("store")' \o WithoutLength(Rest)'
      <3>1. said["store"] = <<OwnLength>> \o WithoutLength(Elements(Main))
        BY <1>1, <1>2, RequestNames DEF StoreOK, Due
      <3>2. WithoutLength(Rest)' = WithoutLength(Elements(Main))
        BY <1>17 DEF WithoutLength
      <3> QED
        BY <1>1, <1>14, <3>1, <3>2, ElementsAreContents
    <2> HIDE DEF D
    <2>5. \E E \in SUBSET Parts :
             OwnList(E)' /\ at' \in ({Main} \cup Allocated') \ E
      BY <2>1, <2>2
    <2> QED
      BY <1>1, <1>7, <1>18, <1>20, <1>21, <2>3, <2>4, <2>5 DEF StoreOK
  <1> QED
    BY <1>22, <1>23, <1>24, <1>25 DEF ListsInv

-----------------------------------------------------------------------------
(* The invariant holds in the beginning, and every step keeps it.           *)

LEMMA FirstList ==
  ASSUME NEW headers \in Parents, Len(headers) <= NAlloc
  PROVE  /\ headers \in Seq(Data) /\ Len(headers) \in 0..NAlloc
         /\ headers \o SubSeq(Blank, 1, NAlloc - Len(headers))
                \in [1..NAlloc -> Data]
         /\ SubSeq(headers \o SubSeq(Blank, 1, NAlloc - Len(headers)), 1,
                   Len(headers)) = headers
  <1> DEFINE n == Len(headers)  after == SubSeq(Blank, 1, NAlloc - n)
             all == headers \o after
  <1>1. headers \in Seq(Data) /\ NAlloc \in Nat /\ n \in 0..NAlloc
    <2>1. headers \in Seq(Headers) /\ NAlloc \in Nat
      BY HeadersAssumption, BoundsAssumption
    <2>2. Headers \subseteq Data
      BY DEF Data
    <2> HIDE DEF n
    <2>3. headers \in Seq(Data)
      BY <2>1, <2>2
    <2> QED
      BY <2>1, <2>3 DEF n
  <1>2. Blank \in [1..NAlloc -> Data]
    BY DEF Blank, Data
  <1> HIDE DEF n
  <1>3. Blank \in Seq(Data) /\ Len(Blank) = NAlloc
    BY <1>1, <1>2
  <1>4. after \in Seq(Data) /\ Len(after) = NAlloc - n
    BY <1>1, <1>3
  <1> HIDE DEF after
  <1>5. /\ all \in Seq(Data) /\ Len(all) = NAlloc
        /\ \A k \in 1..n : all[k] = headers[k]
    BY <1>1, <1>4 DEF n
  <1> HIDE DEF all
  <1>6. all \in [1..NAlloc -> Data]
    BY <1>5
  <1>7. SubSeq(all, 1, n) = headers
    <2> DEFINE s == SubSeq(all, 1, n)
    <2>1. s \in Seq(Data) /\ Len(s) = n /\ \A k \in 1..n : s[k] = all[k]
      BY <1>1, <1>5
    <2> HIDE DEF s
    <2>2. s = headers
      BY <1>1, <1>5, <2>1 DEF n
    <2> QED
      BY <2>2 DEF s
  <1> QED
    BY <1>1, <1>6, <1>7 DEF all, after, n

LEMMA ListsInitially ==
  ASSUME SubrequestInit
  PROVE  ListsInv
  <1>1. PICK headers \in Parents :
           /\ Len(headers) <= NAlloc
           /\ arrays = [p \in Parts |-> IF p = Main THEN headers \o SubSeq(
                            Blank, 1, NAlloc - Len(headers)) ELSE Blank]
           /\ parts = [p \in Parts |->
                          Part(p, IF p = Main THEN Len(headers) ELSE 0)]
           /\ said = [r \in Requests |-> IF r = Main THEN headers ELSE <<>>]
    BY DEF SubrequestInit
  <1>2. /\ last = [r \in Requests |-> r] /\ heap = 0
        /\ state = [r \in Requests |-> IF r = Main THEN "running" ELSE "none"]
        /\ method = [r \in Requests |-> "GET"]
        /\ request_body = [r \in Requests |-> Main]
        /\ content_length_n = [r \in Requests |-> Main]
        /\ ctx = {Main} /\ shares = FALSE
    BY DEF SubrequestInit
  <1>3. /\ headers \in Seq(Data) /\ Len(headers) \in 0..NAlloc
        /\ headers \o SubSeq(Blank, 1, NAlloc - Len(headers))
               \in [1..NAlloc -> Data]
        /\ SubSeq(headers \o SubSeq(Blank, 1, NAlloc - Len(headers)), 1,
                  Len(headers)) = headers
    BY <1>1, FirstList
  <1>4. /\ Main \in Parts /\ "fetch" \in Parts /\ "store" \in Parts
        /\ Spares \subseteq Parts /\ Main \notin Spares
        /\ Len(SpareParts) \in Nat /\ NAlloc \in Nat
    BY RequestNames, PartNames, BoundsAssumption
  <1>5. \A p \in Parts : /\ parts[p].elts = p /\ parts[p].next = Null
                         /\ parts[p] \in PartRecords
    <2>1. ASSUME NEW p \in Parts, NEW n \in 0..NAlloc
          PROVE  /\ Part(p, n) \in PartRecords
                 /\ Part(p, n).elts = p /\ Part(p, n).next = Null
      BY DEF Part, PartRecords
    <2>2. \A p \in Parts : (IF p = Main THEN Len(headers) ELSE 0) \in 0..NAlloc
      <3>1. 0 \in 0..NAlloc
        BY <1>4
      <3> QED
        BY <1>3, <3>1, Zenon
    <2>3. \A p \in Parts :
             parts[p] = Part(p, IF p = Main THEN Len(headers) ELSE 0)
      BY <1>1
    <2> QED
      BY <2>1, <2>2, <2>3
  <1>6. parts[Main].nelts = Len(headers)
    BY <1>1, <1>4 DEF Part
  <1>7. Memory(parts, arrays)
    <2>1. Blank \in [1..NAlloc -> Data]
      BY DEF Blank, Data
    <2>2. arrays \in [Parts -> [1..NAlloc -> Data]]
      BY <1>1, <1>3, <2>1
    <2>3. parts \in [Parts -> PartRecords]
      BY <1>1, <1>5
    <2> QED
      BY <1>5, <2>2, <2>3 DEF Memory
  <1>8. Elements(Main) = headers
    <2>1. /\ Contents(parts, arrays, Main) =
                Held(parts, arrays, Main) \o Contents(parts, arrays, parts[Main].next)
          /\ Contents(parts, arrays, Null) = <<>>
      BY <1>4, <1>7, ContentsUnfold
    <2>2. Held(parts, arrays, Main) = headers
      BY <1>1, <1>3, <1>4, <1>5, <1>6 DEF Held
    <2>3. \A s \in Seq(Data) : s \o <<>> = s
      OBVIOUS
    <2>4. Contents(parts, arrays, Main) = headers \o <<>>
      BY <1>4, <1>5, <2>1, <2>2
    <2> QED
      BY <1>3, <2>3, <2>4, ElementsAreContents
  <1>9. said \in [Requests -> Seq(Data)] /\ said[Main] = headers
    <2>1. <<>> \in Seq(Data)
      OBVIOUS
    <2> QED
      BY <1>1, <1>3, <2>1, RequestNames
  <1>10. /\ state["fetch"] = "none" /\ state["store"] = "none"
         /\ state[Main] = "running" /\ last[Main] = Main
    BY <1>2, RequestNames
  <1>11. ListsTyped
    <2>1. heap \in 0..Len(SpareParts) /\ \E S : method \in [Requests -> S]
      <3>1. method \in [Requests -> {"GET"}]
        BY <1>2
      <3>2. heap \in 0..Len(SpareParts)
        BY <1>2, <1>4
      <3> QED
        BY <3>1, <3>2, Zenon
    <2>2. /\ last \in [Requests -> Requests \cup Allocated]
          /\ request_body \in [Requests -> Requests]
          /\ content_length_n \in [Requests -> Requests]
          /\ state \in [Requests ->
                           {"none", "created", "forwarding", "running", "ended"}]
          /\ shares \in BOOLEAN
      BY <1>2, RequestNames
    <2>3. \A r \in Subrequests : r \notin ctx
      BY <1>2, RequestNames
    <2> QED
      BY <1>5, <1>7, <1>9, <2>1, <2>2, <2>3 DEF ListsTyped
  <1>12. Owned /\ InTurn /\ FetchOK /\ StoreOK
    BY <1>4, <1>5, <1>10 DEF Owned, InTurn, FetchOK, StoreOK, OwnsList
  <1>13. MainOK
    <2> DEFINE C == {Main}
    <2>1. C \in SUBSET ({Main} \cup Allocated) /\ Main \in C
      OBVIOUS
    <2>2. last[Main] \in C /\ IsList(parts, C, last[Main])
      BY <1>4, <1>5, <1>10 DEF IsList
    <2> QED
      BY <1>8, <1>9, <2>1, <2>2 DEF MainOK
  <1> QED
    BY <1>11, <1>12, <1>13 DEF ListsInv

LEMMA ListsStutter ==
  ASSUME ListsInv, UNCHANGED subrequest_vars
  PROVE  ListsInv'
  <1>1. /\ parts' = parts /\ arrays' = arrays /\ last' = last /\ heap' = heap
        /\ state' = state /\ method' = method /\ conf' = conf /\ said' = said
        /\ request_body' = request_body /\ content_length_n' = content_length_n
        /\ ctx' = ctx /\ shares' = shares /\ at' = at /\ i' = i
        /\ Allocated' = Allocated
    BY AllocatedStay DEF subrequest_vars, list, set_up, scan
  <1>2. ListsTyped /\ Owned /\ InTurn /\ MainOK /\ FetchOK /\ StoreOK
    BY DEF ListsInv
  <1>3. \A p : Elements(p)' = Elements(p)
    BY <1>1, ElementsStay
  <1>4. ListsTyped' /\ Owned' /\ InTurn'
    BY <1>1, <1>2 DEF ListsTyped, Owned, InTurn
  <1>5. MainOK' /\ FetchOK'
    BY <1>1, <1>2, <1>3, MainStays DEF FetchOK
  <1>6. \A D : OwnList(D)' <=> OwnList(D)
    BY <1>1 DEF OwnList
  <1>7. /\ Due("store")' = Due("store")
        /\ WithoutLength(Rest)' = WithoutLength(Rest)
    <2>1. Elements(Main)' = Elements(Main)
      BY <1>3
    <2>2. Rest' = Rest
      <3>1. Rest' = SubSeq(arrays'[parts'[at'].elts], i', parts'[at'].nelts)
                    \o Contents(parts', arrays', parts'[at'].next)
        BY ElementsAreContents DEF Rest
      <3> QED
        BY <1>1, <3>1, ElementsAreContents DEF Rest
    <2> QED
      BY <2>1, <2>2 DEF Due, WithoutLength
  <1>8. StoreOK'
    BY <1>1, <1>2, <1>3, <1>6, <1>7 DEF StoreOK, OwnsList
  <1> QED
    BY <1>4, <1>5, <1>8 DEF ListsInv

LEMMA ListsStep ==
  ASSUME ListsInv, [SubrequestNext]_subrequest_vars
  PROVE  ListsInv'
  <1>1. ASSUME NEW r \in Requests, NEW h \in Pushes, AddHeader(r, h)
        PROVE  ListsInv'
    BY <1>1, AddMainHeader, AddFetchHeader, AddStoreHeader, RequestNames
  <1>2. ASSUME NEW r \in Subrequests, Create(r) \/ NotCreated(r) \/ NoVariables(r)
        PROVE  ListsInv'
    BY <1>2, CreateKeeps, NotCreatedKeeps, NoVariablesKeeps
  <1>3. CASE AdjustFetch \/ AdjustStore
    BY <1>3, AdjustFetchKeeps, AdjustStoreKeeps
  <1>4. CASE ForwardNextPart \/ ForwardHeader \/ ForwardDone
    BY <1>4, ForwardNextPartKeeps, ForwardHeaderKeeps, ForwardDoneKeeps
  <1>5. CASE NoElement
    BY <1>5, NoElementKeeps
  <1>6. ASSUME NEW r \in Requests, Ends(r)
        PROVE  ListsInv'
    BY <1>6, EndsKeeps
  <1>7. CASE Over \/ UNCHANGED subrequest_vars
    BY <1>7, ListsStutter DEF Over
  <1> QED
    BY <1>1, <1>2, <1>3, <1>4, <1>5, <1>6, <1>7 DEF SubrequestNext

(* What is added to a fetch subrequest is added to it alone, and the parent *)
(* keeps its headers, for all lists of headers, however they lie in parts,  *)
(* all methods, any number of additions and any size of a part.             *)
THEOREM HeadersStayApart == SubrequestSpec => []HeadersStayTheirOwn
  <1>1. ASSUME ListsInv PROVE HeadersStayTheirOwn
    BY <1>1 DEF HeadersStayTheirOwn, ListsInv, MainOK, FetchOK
  <1>2. SubrequestInit => ListsInv
    BY ListsInitially
  <1>3. ListsInv /\ [SubrequestNext]_subrequest_vars => ListsInv'
    BY ListsStep
  <1> QED
    BY <1>1, <1>2, <1>3, PTL DEF SubrequestSpec

(* A store subrequest that was set up has its own length and all other      *)
(* headers of the parent, whatever was added to either before and since.    *)
THEOREM StoreHeadersForwarded == SubrequestSpec => []StoreSeesItsHeaders
  <1>1. ASSUME ListsInv PROVE StoreSeesItsHeaders
    BY <1>1 DEF StoreSeesItsHeaders, ListsInv, StoreOK
  <1>2. SubrequestInit => ListsInv
    BY ListsInitially
  <1>3. ListsInv /\ [SubrequestNext]_subrequest_vars => ListsInv'
    BY ListsStep
  <1> QED
    BY <1>1, <1>2, <1>3, PTL DEF SubrequestSpec

=============================================================================

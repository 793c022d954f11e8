------------------------ MODULE SrcacheRegistration ------------------------
(***************************************************************************)
(* How the module puts itself into nginx while a configuration is loaded.  *)
(* Its filters go to the front of two chains that are global variables of  *)
(* the process; its access handler goes into an array of the http block.   *)
(* Both happen only for a block in which the module is used, or which is   *)
(* not the first of its file.  The first one is known by a static variable *)
(* with the cycle of the last block: ngx_cycle changes when a load has     *)
(* succeeded, and the new cycle may lie where a freed one was.             *)
(*                                                                         *)
(* The master process loads; its workers are forked with its global        *)
(* variables, also much later, when one of them has died.                  *)
(***************************************************************************)
EXTENDS Integers, Sequences, SequencesExt

CONSTANTS
    Files,      \* the blocks of a file: sequences of directives
    Addresses,  \* where a cycle can lie
    InitCycle,  \* ngx_cycle of a process that has loaded nothing
    Workers,
    MaxLoads    \* bound on the number of loads

None == "none"
Filter == "srcache"

\* srcache_fetch and srcache_store, or any other directive.
Directives == {"request", "other"}

ASSUME FilesAssumption == Files \subseteq Seq(Seq(Directives))
ASSUME AddressesAssumption == InitCycle \in Addresses /\ None \notin Addresses
ASSUME MaxLoadsAssumption == MaxLoads \in Nat

VARIABLES
    ngx_cycle, prev_cycle,
    chain,      \* the filters before those of nginx
    blocks,     \* of the configuration in force
    stage,      \* "idle", "file", "block", "read" or "exit"
    loading,    \* the address of the new cycle
    rest,       \* of the file that is read
    new_blocks, \* what has been read of it
    workers,    \* what each was forked with, or nothing
    loads,
    failed      \* history: a load has failed since the last that did not

master == <<ngx_cycle, prev_cycle, chain, blocks>>
reading == <<stage, loading, rest, new_blocks>>
vars == <<master, reading, workers, loads, failed>>

Dead == [alive |-> FALSE, blocks |-> <<>>, chain |-> <<>>, late |-> FALSE]

Forked(bs, filters, late) ==
    [alive |-> TRUE, blocks |-> bs, chain |-> filters, late |-> late]

Init ==
    /\ ngx_cycle = InitCycle /\ prev_cycle = None
    /\ chain = <<>> /\ blocks = <<>>
    /\ stage = "idle" /\ loading = None /\ rest = <<>> /\ new_blocks = <<>>
    /\ workers = [w \in Workers |-> Dead] /\ loads = 0 /\ failed = FALSE

-----------------------------------------------------------------------------
(* The start, or a reload: the new cycle lies where no live one does.       *)
Load(file, address) ==
    /\ stage = "idle" /\ loads < MaxLoads
    /\ address \notin {ngx_cycle, InitCycle}
    /\ stage' = "file" /\ loading' = address
    /\ rest' = file /\ new_blocks' = <<>> /\ loads' = loads + 1
    /\ UNCHANGED <<master, workers, failed>>

(* ngx_http_srcache_create_main_conf                                        *)
CreateMainConf ==
    /\ stage = "file" /\ rest # <<>>
    /\ stage' = "block"
    /\ new_blocks' = Append(new_blocks, [used |-> FALSE, handlers |-> 0])
    /\ UNCHANGED <<master, loading, rest, workers, loads, failed>>

Block == Len(new_blocks)

(* ngx_http_srcache_conf_set_request, or a directive of another module.     *)
Directive ==
    /\ stage = "block" /\ Head(rest) # <<>>
    /\ new_blocks' = [new_blocks EXCEPT
           ![Block].used = @ \/ Head(Head(rest)) = "request"]
    /\ rest' = <<Tail(Head(rest))>> \o Tail(rest)
    /\ UNCHANGED <<master, stage, loading, workers, loads, failed>>

(* nginx builds its own chain anew when a block is over.                    *)
BlockEnds ==
    /\ stage = "block" /\ Head(rest) = <<>>
    /\ stage' = "read" /\ chain' = <<>> /\ rest' = Tail(rest)
    /\ UNCHANGED <<ngx_cycle, prev_cycle, blocks, loading, new_blocks, workers,
                   loads, failed>>

(* Faulty: a second block is not told from a first one.                     *)
MultiHttpBlocks_Never == FALSE

MultiHttpBlocks == prev_cycle = ngx_cycle

Registers == MultiHttpBlocks \/ new_blocks[Block].used

(* ngx_http_srcache_filter_init                                             *)
FilterInit == chain' = <<Filter>> \o chain

(* ngx_http_srcache_post_config                                             *)
PostConfig ==
    /\ stage = "read" /\ stage' = "file" /\ prev_cycle' = ngx_cycle
    /\ \/ /\ Registers
          /\ FilterInit
          /\ new_blocks' = [new_blocks EXCEPT ![Block].handlers = @ + 1]
       \/ ~Registers /\ UNCHANGED <<chain, new_blocks>>
    /\ UNCHANGED <<ngx_cycle, blocks, loading, rest, workers, loads, failed>>

(* A load fails: nothing of it remains but what it did to the variables of  *)
(* the process.  A first load that fails is the end of the process.         *)
GivesUp ==
    /\ stage' = IF ngx_cycle = InitCycle THEN "exit" ELSE "idle"
    /\ loading' = None /\ rest' = <<>> /\ new_blocks' = <<>> /\ failed' = TRUE
    /\ UNCHANGED <<ngx_cycle, blocks, workers, loads>>

(* The array of access handlers has no memory left.                         *)
PostConfigNoMemory ==
    /\ stage = "read" /\ Registers
    /\ prev_cycle' = ngx_cycle /\ FilterInit
    /\ GivesUp

(* ngx_http_srcache_add_variables fails.                                    *)
PostConfigNoVariables ==
    stage = "read" /\ GivesUp /\ UNCHANGED <<prev_cycle, chain>>

(* A directive is wrong, a conf cannot be allocated, a file or a port       *)
(* cannot be opened.                                                        *)
LoadFails ==
    /\ stage \in {"file", "block"}
    /\ GivesUp
    /\ UNCHANGED <<prev_cycle, chain>>

(* The new cycle is in force, and new workers take over.                    *)
LoadSucceeds ==
    /\ stage = "file" /\ rest = <<>>
    /\ stage' = "idle" /\ ngx_cycle' = loading
    /\ blocks' = new_blocks /\ failed' = FALSE
    /\ workers' = [w \in Workers |-> Forked(new_blocks, chain, FALSE)]
    /\ loading' = None /\ new_blocks' = <<>>
    /\ UNCHANGED <<prev_cycle, chain, rest, loads>>

WorkerDies(w) ==
    /\ workers[w].alive
    /\ workers' = [workers EXCEPT ![w] = Dead]
    /\ UNCHANGED <<master, reading, loads, failed>>

(* The master replaces a dead worker when it is not busy loading.           *)
Respawn(w) ==
    /\ stage = "idle" /\ ngx_cycle # InitCycle /\ ~workers[w].alive
    /\ workers' = [workers EXCEPT ![w] = Forked(blocks, chain, failed)]
    /\ UNCHANGED <<master, reading, loads, failed>>

Exited == stage = "exit" /\ UNCHANGED vars

Next ==
    \/ \E file \in Files, address \in Addresses : Load(file, address)
    \/ CreateMainConf \/ Directive \/ BlockEnds
    \/ PostConfig \/ PostConfigNoVariables \/ PostConfigNoMemory
    \/ LoadFails \/ LoadSucceeds
    \/ \E w \in Workers : WorkerDies(w) \/ Respawn(w)
    \/ Exited

Spec == Init /\ [][Next]_vars

-----------------------------------------------------------------------------
(* What a worker needs: with srcache_fetch or srcache_store in some block,  *)
(* the filters are in front of those of nginx, once, and the access handler *)
(* is in every such block, once.  With the handler and without the filters, *)
(* the subrequests of a fetch would write to the client.                    *)
Serves(worker) ==
    /\ \A b \in DOMAIN worker.blocks :
           worker.blocks[b].used => worker.blocks[b].handlers = 1
    /\ (\E b \in DOMAIN worker.blocks : worker.blocks[b].handlers > 0)
           => worker.chain = <<Filter>>

(* Every worker that a successful load has forked, or that replaces one     *)
(* before another load fails, can serve its configuration: whatever loads   *)
(* came before, wherever the cycles lay and whichever blocks of the file    *)
(* use the module (filter_module.c:531-558).                                *)
LoadedWorkersServe ==
    \A w \in Workers : workers[w].alive /\ ~workers[w].late => Serves(workers[w])

(* README.markdown:566: srcache_store "registers an output filter handler   *)
(* that will issue an Nginx subrequest to save the response": so it does    *)
(* for every worker whose configuration has the directive.                  *)
EveryWorkerServes ==
    \A w \in Workers : workers[w].alive => Serves(workers[w])
=============================================================================

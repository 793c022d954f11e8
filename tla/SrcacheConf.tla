---------------------------- MODULE SrcacheConf ----------------------------
(***************************************************************************)
(* How the directives of nginx.conf become the ngx_http_srcache_loc_conf_t *)
(* of a location: the directive handlers, the merge along http, server,    *)
(* location and nested location (ngx_http_srcache_merge_loc_conf), the     *)
(* hash of hidden headers (ngx_http_srcache_hide_headers_hash), and the    *)
(* scan of srcache_store_statuses in the header filter.                    *)
(*                                                                         *)
(* Level 1 is the http block, level l + 1 is nested in level l.  nginx     *)
(* calls the merge for levels 2, 3, ... in that order, so that the conf of *)
(* the http block itself stays as it was read.  The directives that take   *)
(* one value are merged alike and stand here as one.                       *)
(***************************************************************************)
EXTENDS Integers, Sequences, SequencesExt

CONSTANTS
    Levels,       \* how deep blocks are nested
    Files,        \* nginx.conf: sequences of directives
    StatusLists,  \* the arguments of srcache_store_statuses, by name
    Statuses      \* status codes of responses

Unset == "unset"
Bad == "bad"

DirectiveNames ==
    {"fetch", "value", "statuses", "methods", "hide", "pass"}

(* An argument is not the mark of a value that was not given.               *)
Directives ==
    [level : 1..Levels, name : DirectiveNames, arg : STRING \ {Unset}]

(* ngx_http_srcache_hide_headers                                            *)
DefaultHidden == {"Connection", "Set-Cookie"}

DefaultValue == "default"
DefaultMethods == {"GET", "HEAD"}
DefaultStatuses == {200, 301, 302, 307, 308}

ASSUME LevelsAssumption == Levels \in Nat \ {0}
ASSUME FilesAssumption == Files \subseteq Seq(Directives)
ASSUME ListsAssumption ==
    /\ \A name \in DOMAIN StatusLists : StatusLists[name] \in Seq(Nat \ {0})
    /\ \A f \in Files : \A i \in DOMAIN f :
           f[i].name = "statuses" => f[i].arg \in DOMAIN StatusLists \cup {Bad}
ASSUME StatusesAssumption == Statuses \subseteq Nat \ {0}

VARIABLES
    file,    \* the directives
    next,    \* the directive to be read
    conf,    \* conf[l]: the loc_conf of level l
    merged,  \* levels that are done
    error    \* nginx refuses to start

vars == <<file, next, conf, merged, error>>

(* What ngx_http_srcache_create_loc_conf returns.  An empty store_statuses  *)
(* is NULL, as an empty array of header names is NGX_CONF_UNSET_PTR.        *)
Created ==
    [fetch |-> Unset, value |-> Unset, store_statuses |-> <<>>,
     cache_methods |-> {}, hide_headers |-> {}, pass_headers |-> {},
     buckets |-> FALSE, hide_headers_hash |-> {},
     hide_content_type |-> FALSE, hide_last_modified |-> FALSE]

Init ==
    /\ file \in Files /\ next = 1
    /\ conf = [l \in 1..Levels |-> Created]
    /\ merged = 1 /\ error = FALSE

-----------------------------------------------------------------------------
(* Reading a directive.                                                     *)

Reading(name) == ~error /\ next <= Len(file) /\ file[next].name = name

Arg == file[next].arg
AtLevel == file[next].level

Set(c) ==
    /\ conf' = [conf EXCEPT ![AtLevel] = c] /\ next' = next + 1
    /\ UNCHANGED <<file, merged, error>>

Refuse == error' = TRUE /\ UNCHANGED <<file, next, conf, merged>>

IsDuplicate(field) == field # Unset

(* srcache_fetch and srcache_store: ngx_http_srcache_conf_set_request.  Bad *)
(* is a method nobody knows.                                                *)
ReadRequest ==
    /\ Reading("fetch") /\ ~IsDuplicate(conf[AtLevel].fetch) /\ Arg # Bad
    /\ Set([conf[AtLevel] EXCEPT !.fetch = Arg])

ReadBadRequest ==
    /\ Reading("fetch")
    /\ IsDuplicate(conf[AtLevel].fetch) \/ Arg = Bad
    /\ Refuse

ReadValue ==
    /\ Reading("value") /\ ~IsDuplicate(conf[AtLevel].value)
    /\ Set([conf[AtLevel] EXCEPT !.value = Arg])

ReadSecondValue ==
    Reading("value") /\ IsDuplicate(conf[AtLevel].value) /\ Refuse

(* ngx_http_srcache_cmp_int, as ngx_sort uses it: a comes first.            *)
Before(a, b) == b < a

(* ngx_sort: none comes after one that it is Before.                        *)
Sorted(list) ==
    LET order == CHOOSE p \in Bijection(DOMAIN list, DOMAIN list) :
                     \A i, j \in DOMAIN list :
                         i < j => ~Before(list[p[j]], list[p[i]])
    IN  [k \in DOMAIN list |-> list[order[k]]]

(* Sorted, and ended by a 0.                                                *)
ReadStatuses ==
    /\ Reading("statuses") /\ conf[AtLevel].store_statuses = <<>>
    /\ Arg # Bad
    /\ Set([conf[AtLevel] EXCEPT
               !.store_statuses = Sorted(StatusLists[Arg]) \o <<0>>])

(* Bad is a number that is none.                                            *)
ReadBadStatuses ==
    /\ Reading("statuses")
    /\ conf[AtLevel].store_statuses # <<>> \/ Arg = Bad
    /\ Refuse

ReadMethod ==
    /\ Reading("methods")
    /\ Set([conf[AtLevel] EXCEPT !.cache_methods = @ \cup {Arg}])

ReadHide ==
    /\ Reading("hide")
    /\ Set([conf[AtLevel] EXCEPT !.hide_headers = @ \cup {Arg}])

ReadPass ==
    /\ Reading("pass")
    /\ Set([conf[AtLevel] EXCEPT !.pass_headers = @ \cup {Arg}])

-----------------------------------------------------------------------------
(* The merge of level merged + 1 with the level it is nested in.            *)

MergeValue(own, prev, default) ==
    IF own # Unset THEN own ELSE IF prev # Unset THEN prev ELSE default

MergeSet(own, prev) == IF own = {} THEN prev ELSE own

(* Faulty: the methods that are always there are not added.                 *)
MergeMethods_NoDefault(own, prev) == MergeSet(own, prev)

MergeMethods(own, prev) == MergeSet(own, prev) \cup DefaultMethods

MergedValues(c, p) ==
    [c EXCEPT !.fetch = MergeValue(c.fetch, p.fetch, "NULL"),
              !.value = MergeValue(c.value, p.value, DefaultValue),
              !.store_statuses = IF @ = <<>> THEN p.store_statuses ELSE @,
              !.cache_methods = MergeMethods(@, p.cache_methods)]

StatesNoList(c) == c.hide_headers = {} /\ c.pass_headers = {}

(* Faulty: the level above may have no hash, as the http block.             *)
SharesHash_Unbuilt(c, p) == StatesNoList(c)

(* The early return of hide_headers_hash: the hash of the level above.      *)
SharesHash(c, p) == StatesNoList(c) /\ p.buckets

SharedHash(c, p) ==
    [c EXCEPT !.buckets = TRUE, !.hide_headers_hash = p.hide_headers_hash]

(* Otherwise a hash is built from the lists that hold at this level, and    *)
(* the flags for the two headers that have fields of their own.             *)
Hash(hide, pass) == (DefaultHidden \cup hide) \ pass

(* A listed name raises its flag and a passed one clears it.                *)
HidesByFlag(name, flag, hide, pass) == (name \in hide \/ flag) /\ name \notin pass

BuiltHash(c, p) ==
    LET hide == MergeSet(c.hide_headers, p.hide_headers)
        pass == MergeSet(c.pass_headers, p.pass_headers)
        typeFlag == StatesNoList(c) /\ p.hide_content_type
        dateFlag == StatesNoList(c) /\ p.hide_last_modified
    IN  [c EXCEPT
            !.hide_headers = hide, !.pass_headers = pass,
            !.buckets = TRUE, !.hide_headers_hash = Hash(hide, pass),
            !.hide_content_type =
                HidesByFlag("Content-Type", typeFlag, hide, pass),
            !.hide_last_modified =
                HidesByFlag("Last-Modified", dateFlag, hide, pass)]

MergeLocConf ==
    /\ ~error /\ next > Len(file) /\ merged < Levels
    /\ LET p == conf[merged]
           c == MergedValues(conf[merged + 1], p)
       IN  conf' = [conf EXCEPT ![merged + 1] =
                       IF SharesHash(c, p) THEN SharedHash(c, p)
                       ELSE BuiltHash(c, p)]
    /\ merged' = merged + 1
    /\ UNCHANGED <<file, next, error>>

Done == (error \/ merged = Levels) /\ UNCHANGED vars

Read ==
    \/ ReadRequest \/ ReadBadRequest \/ ReadValue \/ ReadSecondValue
    \/ ReadStatuses \/ ReadBadStatuses \/ ReadMethod \/ ReadHide \/ ReadPass

Next == Read \/ MergeLocConf \/ Done

Spec == Init /\ [][Next]_vars

-----------------------------------------------------------------------------
(* The header filter's scan: the first entry that is not above the status.  *)
Matches(status, list) ==
    LET sp == CHOOSE i \in DOMAIN list :
                  status >= list[i] /\ \A j \in 1..(i - 1) : status < list[j]
    IN  ~(list[sp] = 0 \/ status > list[sp])

Storable(status, c) ==
    IF c.store_statuses = <<>> THEN status \in DefaultStatuses
    ELSE Matches(status, c.store_statuses)

-----------------------------------------------------------------------------
(* The reference: what holds at a level is what the nearest block around it *)
(* that uses the directive says.                                            *)

Stated(l, name) ==
    { file[i].arg : i \in { j \in DOMAIN file :
                              file[j].level = l /\ file[j].name = name } }

(* The nearest level with a directive of that name, or 0.                   *)
NearestLevel(l, name) ==
    LET stating == { k \in 1..l : Stated(k, name) # {} }
    IN  IF stating = {} THEN 0 ELSE CHOOSE k \in stating : \A j \in stating : j <= k

Nearest(l, name) ==
    IF NearestLevel(l, name) = 0 THEN {} ELSE Stated(NearestLevel(l, name), name)

Named(lists) ==
    IF lists = {} THEN DefaultStatuses
    ELSE UNION { ToSet(StatusLists[name]) : name \in lists }

(* The levels whose conf is ready to be used: the http block's never is.    *)
Ready == IF error THEN {} ELSE 2..merged

Lists(l) == Stated(l, "hide") \cup Stated(l, "pass")

(* Every directive of one value, every list of methods and of statuses that *)
(* a location does not give is that of the nearest block around it, through *)
(* any number of blocks in between (filter_module.c:294-341); and of the    *)
(* statuses the header filter lets through those that the list names:       *)
(* sorting, the final 0 and the scan fit together (util.c:1287, store.c:    *)
(* 193-227).                                                                *)
NearestBlockWins ==
    \A l \in Ready :
        /\ Nearest(l, "fetch") = {} => conf[l].fetch = "NULL"
        /\ Nearest(l, "fetch") # {} => {conf[l].fetch} = Nearest(l, "fetch")
        /\ Nearest(l, "value") = {} => conf[l].value = DefaultValue
        /\ Nearest(l, "value") # {} => {conf[l].value} = Nearest(l, "value")
        /\ conf[l].cache_methods = Nearest(l, "methods") \cup DefaultMethods
        /\ { status \in Statuses : Storable(status, conf[l]) }
               = Named(Nearest(l, "statuses")) \cap Statuses

(* What a location keeps out of the cache, in the hash and in the two flags. *)
FlagsAgree(c) ==
    /\ c.hide_content_type <=> "Content-Type" \in c.hide_headers_hash
    /\ c.hide_last_modified <=> "Last-Modified" \in c.hide_headers_hash

(* A flag that is raised agrees with the hash; one that is not may disagree. *)
RaisedFlagsHide(c) ==
    /\ c.hide_content_type => "Content-Type" \in c.hide_headers_hash
    /\ c.hide_last_modified => "Last-Modified" \in c.hide_headers_hash

HidesWhatHolds(l) ==
    conf[l].hide_headers_hash = Hash(Nearest(l, "hide"), Nearest(l, "pass"))

(* The nearest level that names headers, and whether every level between    *)
(* the server block and that one does so.                                   *)
ListingLevel(l) ==
    IF \A k \in 1..l : Lists(k) = {} THEN 0
    ELSE CHOOSE k \in 1..l : Lists(k) # {} /\ \A j \in (k + 1)..l : Lists(j) = {}

Unbroken(k) == \A j \in 3..(k - 1) : Lists(j) # {}

(* What a location hides is what the nearest lists say, through the lists a *)
(* level takes over, the hash it shares and the lists of the http block,    *)
(* which has no hash: if no level in between names nothing.  Where the hash *)
(* was built the two flags agree with it, and nowhere do they hide what it  *)
(* passes (util.c:1153-1283).                                               *)
ListsReachInnerBlocks ==
    \A l \in Ready :
        /\ RaisedFlagsHide(conf[l])
        /\ Unbroken(ListingLevel(l)) =>
               /\ HidesWhatHolds(l)
               /\ l = 2 \/ ListingLevel(l) = l => FlagsAgree(conf[l])
=============================================================================

----------------------- MODULE MCSrcacheCacheControl -----------------------
(* Request lists of up to three parts against a plain response, and         *)
(* responses of up to two headers against a plain request.                  *)
EXTENDS SrcacheCacheControl

Q(name, has) == [name |-> name, has |-> has]

RequestKinds ==
    { Q("Cache-Control", {}), Q("Cache-Control", {"no-store"}),
      Q("Cache-Control", {"no-cache"}), Q("Pragma", {"no-cache"}),
      Q("Pragma", {"no-store"}), Q("other", {"no-cache", "no-store"}) }

RequestLists ==
    { <<p>> : p \in { <<>> } \cup { <<h>> : h \in RequestKinds } }
    \cup { <<<<g, h>>, <<k>>>> : g, h, k \in RequestKinds }
    \cup { <<<<h>>, <<g>>, <<k, h>>>> : g, h, k \in RequestKinds }

A(has, age) == [live |-> TRUE, has |-> has, has_age |-> TRUE, age |-> age]
N(has) == [live |-> TRUE, has |-> has, has_age |-> FALSE, age |-> <<>>]
Dying(h) == [h EXCEPT !.live = FALSE]

(* 31 is the largest number: six bits, so 64 wraps to 0, 99 to -29.         *)
Ages ==
    { <<>>, <<0>>, <<2>>, <<0, 3, Separator, 9>>, <<3, 1>>, <<3, 2>>, <<6, 4>>,
      <<9, 9>>, <<4, Other>>, <<1, 0, 0>>, <<Other>> }

ResponseKinds ==
    { A({}, age) : age \in Ages } \cup { N({d}) : d \in
        {"private", "no-store", "no-cache"} }
    \cup { N({}), A({"no-cache"}, <<7>>), Dying(A({"private"}, <<5>>)),
           Dying(A({}, <<0>>)) }

CacheControls ==
    { <<>> } \cup { <<h>> : h \in ResponseKinds }
    \cup { <<g, h>> : g, h \in ResponseKinds }

Conf(request, response, ignoring, max, default) ==
    [req_cache_control |-> request, resp_cache_control |-> response,
     ignored |-> ignoring, max_expire |-> max, default_expire |-> default]

ResponseConfs ==
    { Conf(FALSE, TRUE, {}, 0, 4), Conf(FALSE, TRUE, {"no-cache"}, 3, 4),
      Conf(FALSE, FALSE, {}, 3, 4) }

RequestConfs ==
    { Conf(TRUE, TRUE, {}, 0, 4), Conf(FALSE, TRUE, {}, 0, 4) }

Case(location, request, response, time) ==
    [conf |-> location, headers_in |-> request, cache_control |-> response,
     expires |-> time]

MCCases ==
    { Case(c, request, response, Absent) :
        c \in RequestConfs, request \in RequestLists,
        response \in {<<>>, <<N({"private"})>>} }
    \cup { Case(c, <<<<>>>>, response, time) :
        c \in ResponseConfs, response \in CacheControls,
        time \in {Absent, Garbage, 1, 2, 3} }
=============================================================================

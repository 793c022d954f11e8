---------------------------- MODULE MCSrcacheConf ----------------------------
(* Every nginx.conf of up to three directives over http, server, location   *)
(* and a nested location.                                                   *)
EXTENDS SrcacheConf

D(l, n, a) == [level |-> l, name |-> n, arg |-> a]

MCStatusLists ==
    [few |-> <<404, 200>>, more |-> <<200, 503, 301, 404>>, one |-> <<301>>]

Listing ==
    { D(l, n, a) : l \in 1..Levels, n \in {"hide", "pass"},
                   a \in {"Content-Type", "X-Foo"} }

Rest ==
    { D(l, "statuses", a) : l \in 1..Levels, a \in {"few", "more", "one"} }
    \cup { D(l, "methods", a) : l \in 1..Levels, a \in {"POST", "GET"} }
    \cup { D(l, n, a) : l \in 1..Levels, n \in {"value", "fetch"},
                        a \in {"a", "b"} }
    \cup { D(2, "fetch", Bad), D(3, "statuses", Bad),
           D(2, "hide", "Last-Modified"), D(3, "pass", "Last-Modified"),
           D(1, "hide", "Last-Modified"), D(2, "pass", "Set-Cookie") }

UpTo(set, n) == UNION { [1..m -> set] : m \in 0..n }

MCFiles == UpTo(Listing, 3) \cup UpTo(Listing \cup Rest, 2)
=============================================================================

--------------------------- MODULE MCSrcachePhase ---------------------------
(* Two requests, two other access handlers, and srcache anywhere among them. *)
EXTENDS SrcachePhase, TLC

CONSTANTS r1, r2

MCRequests == {r1, r2}
MCHandlers == {"auth", "lua"}
MCWaiting == {"lua"}

MCOrders ==
    { <<Srcache, "auth", "lua">>, <<"auth", Srcache, "lua">>,
      <<"lua", Srcache, "auth">>, <<"auth", "lua", Srcache>> }
=============================================================================

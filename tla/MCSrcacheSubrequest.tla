------------------------ MODULE MCSrcacheSubrequest ------------------------
(* Up to two headers in a part of two, and three more in up to two parts.   *)
EXTENDS SrcacheSubrequest

L == [name |-> "Content-Length", of |-> "main"]
A == [name |-> "a", of |-> "main"]
B == [name |-> "b", of |-> "module"]

MCParents == { <<>>, <<A>>, <<L>>, <<A, L>>, <<L, A>> }
MCMethods == {"GET", "PUT", "put"}
MCPushes == {B, L}

MCSpareParts == <<"p1", "p2", "p3", "p4", "p5">>
=============================================================================

--------------------------- MODULE MCSrcacheEntry ---------------------------
(* Every way a header can be represented in headers_out, one or two at a    *)
(* time, against locations that hide none, one or all of them.              *)
EXTENDS SrcacheEntry

H(name, value) ==
    [name |-> name, value |-> value, size |-> 12, live |-> TRUE]

Page ==
    [status |-> 200, own_text |-> 0, content_type |-> "text/html",
     sole_type |-> TRUE, charset |-> None, last_modified_time |-> None,
     slots |-> {}, allow_ranges |-> FALSE, headers |-> <<>>,
     content_length_n |-> "whole", cut |-> FALSE, body |-> "whole"]

(* Status codes from all parts of the table, and with a text of their own.  *)
TextStatuses == {200, 206, 301, 304, 308, 404, 416, 500, 507}

Statuses ==
    { [Page EXCEPT !.status = s, !.last_modified_time = t] :
        s \in TextStatuses, t \in {None, "monday"} }
    \cup { [Page EXCEPT !.status = s, !.own_text = 7] : s \in {200, 203, 429} }
    \cup { [Page EXCEPT !.status = s] : s \in {203, 207, 300, 407, 429} }

Types ==
    { [Page EXCEPT !.content_type = t, !.charset = c, !.sole_type = b] :
        t \in {None, "text/html"}, c \in {"utf-8"}, b \in BOOLEAN }

(* A Last-Modified as a time, as a header, or both; one a filter removed.   *)
Dated ==
    { [Page EXCEPT !.status = s, !.last_modified_time = t,
           !.slots = {"Last-Modified"},
           !.headers = <<H("Last-Modified", "monday")>>] :
        s \in {200, 404}, t \in {None, "monday"} }
    \cup { [Page EXCEPT !.last_modified_time = "tuesday",
               !.headers = <<[H("Last-Modified", "monday")
                              EXCEPT !.live = FALSE]>>] }

Listed ==
    { [Page EXCEPT !.headers = <<H("Cache-Control", "max-age=1"),
                                 H("Connection", "close"),
                                 H("Cache-Control", "public"),
                                 H("X-Foo", "bar"), h>>] :
        h \in {H("Location", "/local"), H("Location", "http://else"),
               H("Set-Cookie", "a"), [H("ETag", "x") EXCEPT !.live = FALSE]} }

Ranged ==
    { [Page EXCEPT !.allow_ranges = TRUE, !.cut = b] : b \in BOOLEAN }

Announced ==
    [Page EXCEPT !.headers = <<H("Content-Length", "whole")>>,
                 !.slots = {"Content-Length"}]

MCResponses ==
    Statuses \cup Types \cup Dated \cup Listed \cup Ranged
    \cup {Announced, [Announced EXCEPT !.allow_ranges = TRUE, !.cut = TRUE]}

Hiding(names) ==
    [hide_headers_hash |-> names, hide_content_type |-> "Content-Type" \in names,
     hide_last_modified |-> "Last-Modified" \in names, store_ranges |-> TRUE]

MCConfs ==
    { Hiding({}), Hiding({"Set-Cookie", "Connection"}),
      Hiding({"Last-Modified", "X-Foo"}), Hiding({"Content-Type"}),
      Hiding({"Cache-Control", "Content-Length", "Location"}),
      Hiding({"Accept-Ranges"}),
      [Hiding({}) EXCEPT !.store_ranges = FALSE],
      [Hiding({"Content-Type", "Last-Modified", "X-Foo"})
       EXCEPT !.hide_content_type = FALSE, !.hide_last_modified = FALSE] }
=============================================================================

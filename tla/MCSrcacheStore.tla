--------------------------- MODULE MCSrcacheStore ---------------------------
(* Small instances of SrcacheStore: bodies of up to three pieces, announced *)
(* or not, around a limit that the header, the estimate for it or the body  *)
(* may cross; every way to keep a response out of the cache.                *)
EXTENDS SrcacheStore

MCHeaderSize == 20

Plain ==
    [registered |-> TRUE, from_cache |-> FALSE, store |-> TRUE,
     cacheable |-> TRUE, ignore_content_encoding |-> FALSE,
     resp_cache_control |-> TRUE, store_private |-> FALSE,
     store_no_store |-> FALSE, store_no_cache |-> FALSE,
     store_ranges |-> FALSE, statuses |-> {200, 301, 302, 307, 308},
     max_size |-> 0, default_expire |-> 5, max_expire |-> 0]

MCConfs ==
    { Plain,
      [Plain EXCEPT !.registered = FALSE],
      [Plain EXCEPT !.from_cache = TRUE],
      [Plain EXCEPT !.store = FALSE],
      [Plain EXCEPT !.cacheable = FALSE],
      [Plain EXCEPT !.ignore_content_encoding = TRUE, !.max_expire = 2],
      [Plain EXCEPT !.resp_cache_control = FALSE],
      [Plain EXCEPT !.store_private = TRUE, !.max_size = 40],
      [Plain EXCEPT !.store_no_store = TRUE, !.max_size = 26],
      [Plain EXCEPT !.store_no_cache = TRUE, !.store_ranges = TRUE],
      [Plain EXCEPT !.store_ranges = TRUE, !.statuses = {200, 206, 404}],
      [Plain EXCEPT !.statuses = {200, 416, 502}] }

CC(a) == [private |-> FALSE, no_store |-> FALSE, no_cache |-> FALSE,
          max_age |-> a]

Hello ==
    [status |-> 200, encoded |-> FALSE, cache_control |-> <<>>,
     expires |-> Absent, declared |-> TRUE, ranges |-> FALSE,
     pieces |-> <<4, 1, 7>>, skip |-> "never"]

MCErrorPage == [Hello EXCEPT !.status = 416, !.pieces = <<3>>]

MCResponses ==
    { Hello,
      [Hello EXCEPT !.declared = FALSE, !.pieces = <<4, 17>>],
      [Hello EXCEPT !.pieces = <<>>],
      [Hello EXCEPT !.ranges = TRUE, !.cache_control = <<CC(2)>>],
      [Hello EXCEPT !.status = 404, !.declared = FALSE],
      [Hello EXCEPT !.status = 502, !.declared = FALSE],
      [Hello EXCEPT !.encoded = TRUE, !.skip = "at_end"],
      [Hello EXCEPT !.skip = "always", !.ranges = TRUE],
      [Hello EXCEPT !.cache_control = <<CC(3), CC(0)>>, !.skip = "at_end"],
      [Hello EXCEPT !.cache_control = <<CC(Garbage)>>],
      [Hello EXCEPT !.cache_control = <<[CC(Absent) EXCEPT !.private = TRUE]>>],
      [Hello EXCEPT !.cache_control = <<[CC(1) EXCEPT !.no_store = TRUE]>>],
      [Hello EXCEPT !.cache_control = <<[CC(9) EXCEPT !.no_cache = TRUE]>>],
      [Hello EXCEPT !.expires = 2],
      [Hello EXCEPT !.expires = Garbage, !.pieces = <<4>>],
      [Hello EXCEPT !.expires = Garbage, !.cache_control = <<CC(2), CC(4)>>] }
=============================================================================

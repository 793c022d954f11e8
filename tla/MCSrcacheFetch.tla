--------------------------- MODULE MCSrcacheFetch ---------------------------
(* Small instances of SrcacheFetch: entries of up to five tokens, well      *)
(* formed and not, and one location of every kind the access handler tells  *)
(* apart.                                                                   *)
EXTENDS SrcacheFetch

T(k, d) == [kind |-> k, data |-> d]

status == T("status", "s")
hdr == T("header", "h")
eoh == T("end", "e")
b1 == T("body", "b1")
b2 == T("body", "b2")
junk == T("junk", "j")

MCData == {"s", "h", "e", "b1", "b2", "j"}

MCEntries ==
    { <<status, hdr, eoh, b1, b2>>,
      <<status, eoh>>,
      <<status, hdr>>,
      <<status, junk, eoh, b1>>,
      <<b1>>,
      <<>> }

SomeEntries ==
    { <<status, hdr, eoh, b1>>, <<status, eoh>>, <<status, junk>> }

Both == [fetch |-> TRUE, store |-> TRUE, cacheable |-> TRUE,
         no_cache |-> FALSE, no_store |-> FALSE, skip |-> "never"]

MCLocations ==
    { Both,
      [Both EXCEPT !.fetch = FALSE],
      [Both EXCEPT !.fetch = FALSE, !.store = FALSE],
      [Both EXCEPT !.cacheable = FALSE],
      [Both EXCEPT !.no_cache = TRUE],
      [Both EXCEPT !.no_cache = TRUE, !.no_store = TRUE],
      [Both EXCEPT !.no_store = TRUE],
      [Both EXCEPT !.skip = "always"],
      [Both EXCEPT !.skip = "after_body"],
      [Both EXCEPT !.skip = "after_fetch"] }

SomeLocations == { Both, [Both EXCEPT !.fetch = FALSE] }

SkipLocations == { Both, [Both EXCEPT !.skip = "after_fetch"] }
=============================================================================

------------------------ MODULE MCSrcacheHeaderParser ------------------------
(* A header buffer of three bytes against lines of up to five bytes, every  *)
(* cut of the response into buffers, and every point where it may stop.     *)
EXTENDS SrcacheHeaderParser

(* The lengths of the lines and their kinds, with every size up to two      *)
(* bytes of body.                                                           *)
Sized(kinds, ends) ==
    { [kinds |-> kinds, ends |-> ends, size |-> s] :
        s \in 0..(ends[Len(ends)] + 2) }

MCEntries ==
    UNION { Sized(<<"status", "field", "field", "end">>, <<5, 8, 12, 13>>),
            Sized(<<"status", "field", "end">>, <<2, 5, 7>>),
            Sized(<<"status", "field", "field", "bad">>, <<2, 4, 7, 9>>),
            Sized(<<"status", "bad">>, <<3, 8>>),
            Sized(<<"status", "end">>, <<2, 4>>),
            Sized(<<"bad">>, <<2>>) }
=============================================================================

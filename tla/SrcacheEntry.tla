---------------------------- MODULE SrcacheEntry ----------------------------
(***************************************************************************)
(* The header of a cached response: how the headers_out of one request are *)
(* written down (ngx_http_srcache_store_response_header) and how they come *)
(* back in a later request (process_status_line, the handlers of           *)
(* ngx_http_srcache_headers.c, the answer of the access handler).          *)
(*                                                                         *)
(* A header is a name, a value and the sum of their sizes; the entry is a  *)
(* sequence of lines.  Sizes are those of the source, so that the length   *)
(* computed first can be compared with what is written then.               *)
(***************************************************************************)
EXTENDS Integers, Sequences, TLC

CONSTANTS
    Responses,  \* headers_out of responses that are to be stored
    Confs,      \* locations: what is hidden from the store
    TextSize    \* bytes of a status text, such as "200 OK"

None == "none"

(* Names in the model of what is no header: the status line, the charset of *)
(* a Content-Type and the end of the header.                                *)
Tags == {"status", "charset", "end"}

(* Not in the list of headers_out: nginx and its modules put a Content-Type *)
(* into content_type, and the name that stands for r->allow_ranges in an    *)
(* entry is the module's own.                                               *)
Unlisted == Tags \cup {"Content-Type", "X-SRCache-Allow-Ranges"}

(* live: hash is not 0.                                                     *)
Headers == [name : STRING, value : STRING, size : Nat, live : BOOLEAN]

(* headers_out and what surrounds it.  own_text: bytes of a status_line set *)
(* by the content handler, or 0; sole_type: the charset is not part of the  *)
(* text of content_type; slots: header pointers that are set; cut: the      *)
(* range filter will make a 206 of it.  A length is that of the "whole" of  *)
(* the body or of the "part" the range filter leaves.                       *)
HeadersOut ==
    [status : Nat, own_text : Nat, content_type : STRING,
     sole_type : BOOLEAN, charset : STRING, last_modified_time : STRING,
     slots : SUBSET STRING, allow_ranges : BOOLEAN, headers : Seq(Headers),
     content_length_n : {"whole", "part", None}, cut : BOOLEAN,
     body : {"whole", "part"}]

ConfRecords ==
    [hide_headers_hash : SUBSET STRING, hide_content_type : BOOLEAN,
     hide_last_modified : BOOLEAN, store_ranges : BOOLEAN]

(* A Content-Length header tells the length of the body: a filter that      *)
(* changes the body clears it.                                              *)
ASSUME ResponsesAssumption ==
    /\ Responses \subseteq HeadersOut
    /\ \A o \in Responses : \A i \in DOMAIN o.headers :
           LET h == o.headers[i] IN
           /\ h.name \notin Unlisted
           /\ h.live /\ h.name = "Content-Length" => h.value = o.body

(* A flag that is raised agrees with the hash; one that is not need not: a  *)
(* hash that is taken over from an outer block comes without them.          *)
ASSUME ConfsAssumption ==
    /\ Confs \subseteq ConfRecords
    /\ \A c \in Confs :
           /\ c.hide_headers_hash \cap Tags = {}
           /\ c.hide_content_type => "Content-Type" \in c.hide_headers_hash
           /\ c.hide_last_modified => "Last-Modified" \in c.hide_headers_hash
ASSUME SizesAssumption == TextSize \in Nat \ {0}

VARIABLES
    phase,   \* what becomes of the response
    conf,    \* the location
    out,     \* headers_out of the request at hand
    len,     \* what the first pass of store_response_header computes
    lines,   \* the lines written by its second pass
    at,      \* the line to be replayed
    seen     \* history: what the client of the original response got

entry_vars == <<phase, conf, out, len, lines, at, seen>>

-----------------------------------------------------------------------------
(* The table of status lines: codes without an entry, and empty entries.    *)

InTable(status) ==
    status \in (200..206) \cup (301..308) \cup (400..416) \cup (500..507)

NullText == {203, 205, 305, 306, 407, 414, 505, 506}

TableText(status) == IF status \in NullText THEN 0 ELSE TextSize

(* Digits of a number below 10000, as "%ui" prints it.                      *)
Digits(n) ==
    IF n < 10 THEN 1 ELSE IF n < 100 THEN 2 ELSE IF n < 1000 THEN 3 ELSE 4

NgxIntTLen == 20

Crlf == 2

(* A Last-Modified is sent with these only.                                 *)
MayHaveLastModified == {200, 206, 304, 204}

WithoutStaleDate(o) ==
    IF /\ ~conf.hide_last_modified /\ o.last_modified_time # None
       /\ o.status \notin MayHaveLastModified
    THEN [o EXCEPT !.last_modified_time = None,
                   !.slots = @ \ {"Last-Modified"}]
    ELSE o

WritesType(o) == ~conf.hide_content_type /\ o.content_type # None

WritesCharset(o) == o.sole_type /\ o.charset # None

WritesDate(o) ==
    /\ ~conf.hide_last_modified /\ o.last_modified_time # None
    /\ "Last-Modified" \notin o.slots

(* Faulty: what a filter has removed by clearing its hash is written.       *)
WritesHeader_Dead(h) == h.name \notin conf.hide_headers_hash

(* Faulty: the list of hidden headers is not asked.                         *)
WritesHeader_Hidden(h) == h.live

WritesHeader(h) == h.live /\ h.name \notin conf.hide_headers_hash

Sum(sizes) ==
    LET From[k \in 1..(Len(sizes) + 1)] ==
            IF k = Len(sizes) + 1 THEN 0 ELSE sizes[k] + From[k + 1]
    IN  From[1]

(* Sizes of the texts and of "; charset=".                                  *)
TypeSize == 9
CharsetSize == 10 + 5
DateSize == 29

(* content_type.len                                                         *)
TypeLength(o) == IF o.sole_type THEN TypeSize ELSE TypeSize + CharsetSize

(* The first pass.                                                          *)
StatusSize(o) ==
    IF o.own_text # 0 THEN o.own_text
    ELSE IF InTable(o.status) THEN TableText(o.status) ELSE NgxIntTLen

(* Faulty: the charset is not counted.                                      *)
TypeLineSize_NoCharset(o) ==
    IF WritesType(o) THEN 14 + TypeLength(o) + 2 ELSE 0

TypeLineSize(o) ==
    IF ~WritesType(o) THEN 0
    ELSE 14 + TypeLength(o) + 2 + (IF WritesCharset(o) THEN CharsetSize ELSE 0)

HeaderSize(h) == IF WritesHeader(h) THEN h.size + 2 + Crlf ELSE 0

FirstPass(o) ==
    9 + Crlf + Crlf + StatusSize(o) + TypeLineSize(o)
    + (IF WritesDate(o) THEN 15 + DateSize + 2 ELSE 0)
    + (IF o.allow_ranges THEN 25 + 2 ELSE 0)
    + Sum([i \in DOMAIN o.headers |-> HeaderSize(o.headers[i])])

(* The second.  The value of a status line is "text", "number" or None.     *)
Field(name, value, size) ==
    [name |-> name, value |-> value, charset |-> None, code |-> 0,
     size |-> size]

StatusLine(o) ==
    LET text == o.own_text # 0 \/ InTable(o.status) IN
    [Field("status", IF ~text THEN "number"
                     ELSE IF StatusSize(o) = 0 THEN None ELSE "text",
           9 + Crlf + (IF text THEN StatusSize(o) ELSE Digits(o.status)))
     EXCEPT !.code = o.status]

TypeLine(o) ==
    LET appended == IF WritesCharset(o) THEN CharsetSize ELSE 0 IN
    IF WritesType(o)
    THEN <<[Field("Content-Type", o.content_type,
                  14 + TypeLength(o) + appended + Crlf)
            EXCEPT !.charset = o.charset]>>
    ELSE <<>>

DateLine(o) ==
    IF WritesDate(o)
    THEN <<Field("Last-Modified", o.last_modified_time, 15 + DateSize + Crlf)>>
    ELSE <<>>

RangesLine(o) ==
    IF o.allow_ranges THEN <<Field("X-SRCache-Allow-Ranges", "1", 25 + Crlf)>>
    ELSE <<>>

ListLine(h) ==
    IF WritesHeader(h) THEN <<Field(h.name, h.value, h.size + 2 + Crlf)>>
    ELSE <<>>

ListLines(headers) ==
    LET From[k \in 1..(Len(headers) + 1)] ==
            IF k = Len(headers) + 1 THEN <<>>
            ELSE ListLine(headers[k]) \o From[k + 1]
    IN  From[1]

Middle(o) ==
    TypeLine(o) \o DateLine(o) \o RangesLine(o) \o ListLines(o.headers)

SecondPass(o) ==
    <<StatusLine(o)>> \o Middle(o) \o <<Field("end", "", Crlf)>>

Bytes(ls) == Sum([i \in DOMAIN ls |-> ls[i].size])

-----------------------------------------------------------------------------
(* What nginx's header filter sends for headers_out.                        *)

Item(name, value) == [name |-> name, value |-> value]

ShownList(headers) ==
    { Item(headers[i].name, headers[i].value) :
        i \in {j \in DOMAIN headers : headers[j].live} }

ShownType(o) ==
    IF o.content_type = None THEN {}
    ELSE {Item("Content-Type", o.content_type), Item("charset", o.charset)}

ShownDate(o) ==
    IF o.last_modified_time = None \/ "Last-Modified" \in o.slots THEN {}
    ELSE {Item("Last-Modified", o.last_modified_time)}

ShownRanges(o) ==
    IF o.allow_ranges THEN {Item("Accept-Ranges", "bytes")} ELSE {}

ShownLength(o) ==
    IF o.content_length_n = None \/ "Content-Length" \in o.slots THEN {}
    ELSE {Item("Content-Length", o.content_length_n)}

Shown(o) ==
    {Item("status", ToString(o.status))} \cup ShownList(o.headers)
    \cup ShownType(o) \cup ShownDate(o) \cup ShownRanges(o)
    \cup ShownLength(o)

EntryInit ==
    /\ phase = "passing" /\ conf \in Confs /\ out \in Responses
    /\ len = 0 /\ lines = <<>> /\ at = 1 /\ seen = {}

(* store_response_header: two passes over the same headers_out.             *)
StoreHeader ==
    /\ phase = "passing"
    /\ out' = WithoutStaleDate(out)
    /\ len' = FirstPass(out')
    /\ lines' = SecondPass(out')
    /\ phase' = IF Bytes(lines') = len' THEN "taken" ELSE "refused"
    /\ UNCHANGED <<conf, at, seen>>

(* The range filter, further down: it marks the header of the whole length  *)
(* as removed.                                                              *)
WithoutLength(headers) ==
    [i \in DOMAIN headers |->
        [headers[i] EXCEPT !.live = @ /\ headers[i].name # "Content-Length"]]

ContentRange ==
    [name |-> "Content-Range", value |-> "part", size |-> 20, live |-> TRUE]

RangeFilter ==
    /\ phase = "taken" /\ out.cut /\ out.status = 200
    /\ out' = [out EXCEPT
           !.status = 206, !.cut = FALSE, !.body = "part",
           !.allow_ranges = FALSE, !.content_length_n = "part",
           !.slots = @ \ {"Content-Length"},
           !.headers = Append(WithoutLength(@), ContentRange)]
    /\ UNCHANGED <<phase, conf, len, lines, at, seen>>

CutDown == out.status = 206 /\ lines[1].code = 200

(* The body passes, and the digit of the status is patched if need be.      *)
StoreBody ==
    /\ phase = "taken" /\ ~out.cut
    /\ CutDown => conf.store_ranges
    /\ phase' = "stored" /\ seen' = Shown(out)
    /\ lines' = IF CutDown THEN [lines EXCEPT ![1].code = 206] ELSE lines
    /\ UNCHANGED <<conf, out, len, at>>

-----------------------------------------------------------------------------
(* A later request.                                                         *)

Blank ==
    [status |-> 0, own_text |-> 0, content_type |-> None, sole_type |-> TRUE,
     charset |-> None, last_modified_time |-> None, slots |-> {},
     allow_ranges |-> FALSE, headers |-> <<>>, content_length_n |-> None,
     cut |-> FALSE, body |-> "whole"]

Fetch ==
    /\ phase = "stored" /\ phase' = "replaying"
    /\ out' = [Blank EXCEPT !.body = out.body]
    /\ UNCHANGED <<conf, len, lines, at, seen>>

Replaying(names) == phase = "replaying" /\ lines[at].name \in names

Replay(o) ==
    /\ out' = o /\ at' = at + 1
    /\ UNCHANGED <<phase, conf, len, lines, seen>>

Pushed(slots) ==
    [out EXCEPT
        !.headers = Append(@, [name |-> lines[at].name,
                               value |-> lines[at].value,
                               size |-> lines[at].size, live |-> TRUE]),
        !.slots = @ \cup slots]

(* Only the code is taken over; a line without one is invalid.              *)
ReplayStatus ==
    /\ Replaying({"status"}) /\ lines[at].value # None
    /\ Replay([out EXCEPT !.status = lines[at].code])

ReplayNoStatus ==
    /\ Replaying({"status"}) /\ lines[at].value = None
    /\ phase' = "invalid" /\ UNCHANGED <<conf, out, len, lines, at, seen>>

ReplayContentType ==
    /\ Replaying({"Content-Type"})
    /\ Replay([out EXCEPT !.content_type = lines[at].value,
                          !.charset = lines[at].charset,
                          !.sole_type = lines[at].charset = None])

ReplayContentLength ==
    /\ Replaying({"Content-Length"})
    /\ Replay([Pushed({"Content-Length"})
               EXCEPT !.content_length_n = lines[at].value])

DateSlot == {"Last-Modified"}

ReplayLastModified ==
    /\ Replaying({"Last-Modified"})
    /\ Replay([Pushed(DateSlot) EXCEPT !.last_modified_time = lines[at].value])

IsLocal(value) == value = "/local"

(* The slot is left empty for a local redirect.                             *)
ReplayLocation ==
    /\ Replaying({"Location"})
    /\ Replay(Pushed(IF IsLocal(lines[at].value) THEN {} ELSE {"Location"}))

AllowRangesLine == {"X-SRCache-Allow-Ranges"}

ReplayAllowRanges ==
    /\ Replaying(AllowRangesLine)
    /\ Replay([out EXCEPT !.allow_ranges = TRUE])

Ignored == {"Connection", "Keep-Alive"}

ReplayIgnored == Replaying(Ignored) /\ Replay(out)

WithSlot ==
    {"Date", "ETag", "Server", "WWW-Authenticate", "Refresh", "Expires",
     "Cache-Control", "Accept-Ranges", "Content-Encoding"}

ReplayWithSlot == Replaying(WithSlot) /\ Replay(Pushed({lines[at].name}))

ReplayOther ==
    /\ phase = "replaying"
    /\ lines[at].name \notin
           ({"status", "end", "Content-Type", "Content-Length", "Location",
             "Last-Modified"} \cup AllowRangesLine \cup Ignored \cup WithSlot)
    /\ Replay(Pushed({}))

(* Faulty: the last link of the chain is not counted.                       *)
CountedLength_NotLast == "part"

CountedLength == out.body

(* The access handler announces the length of the cached body.              *)
Hit ==
    /\ Replaying({"end"}) /\ phase' = "hit"
    /\ out' = [out EXCEPT !.content_length_n = CountedLength]
    /\ UNCHANGED <<conf, len, lines, at, seen>>

Over ==
    /\ \/ phase \in {"refused", "invalid", "hit"}
       \/ phase = "taken" /\ ~out.cut /\ CutDown /\ ~conf.store_ranges
    /\ UNCHANGED entry_vars

EntryNext ==
    \/ StoreHeader \/ RangeFilter \/ StoreBody
    \/ Fetch
    \/ ReplayStatus \/ ReplayNoStatus \/ ReplayContentType
    \/ ReplayContentLength \/ ReplayLastModified \/ ReplayLocation
    \/ ReplayAllowRanges \/ ReplayIgnored \/ ReplayWithSlot \/ ReplayOther
    \/ Hit
    \/ Over

EntrySpec == EntryInit /\ [][EntryNext]_entry_vars

-----------------------------------------------------------------------------
(* The status has a text, of its own or from the table.                     *)
HasText(o) == o.own_text # 0 \/ InTable(o.status)

(* The two passes of store_response_header count and write the same lines,  *)
(* and what they write is accepted by every later fetch: only a status that *)
(* is printed as a number makes them differ (util.c:948, 1122), and only    *)
(* one whose text is null is lost on its way back (util.c:682-686).         *)
OnlyTheStatusFails ==
    /\ phase = "refused" => ~HasText(out)
    /\ phase = "invalid" =>
           \E s \in NullText : Item("status", ToString(s)) \in seen

(* The headers with a field of their own that the location does not hide,   *)
(* whatever its hash says (util.c:953, 964).                                *)
Unflagged ==
    (IF conf.hide_content_type THEN {} ELSE {"Content-Type"})
    \cup (IF conf.hide_last_modified THEN {} ELSE {"Last-Modified"})

(* What a location hides reaches no client through the cache, neither by    *)
(* the fields of headers_out nor by the list of headers (util.c:953-1017):  *)
(* only the length of the cached body and the Accept-Ranges of an entry     *)
(* that ranges are taken of are made anew; and a field whose flag is not    *)
(* raised is not hidden by the hash (util.c:1158).                          *)
HiddenStaysOut ==
    phase = "hit" =>
        \A h \in Shown(out) :
            h.name \in conf.hide_headers_hash =>
                \/ h.name \in {"Content-Length"} \cup Unflagged
                \/ h = Item("Accept-Ranges", "bytes") /\ out.allow_ranges

(* What a hit of some status may lack, or has for itself.                   *)
Exempt(status) ==
    conf.hide_headers_hash \cup Ignored \cup {"Content-Length"}
    \cup (IF status = 206 THEN {"Content-Range", "Accept-Ranges"} ELSE {})
    \cup (IF conf.hide_content_type THEN {"charset"} ELSE {})

Besides(shown, names) == { h \in shown : h.name \notin names }

(* A hit shows its client the status and the headers that the client of the *)
(* original response got, save the hidden ones: headers_out survives the    *)
(* way through store_response_header and the handlers of _headers.c.        *)
HitLooksLikeTheOriginal ==
    phase = "hit" =>
        Besides(Shown(out), Exempt(out.status)) =
            Besides(seen, Exempt(out.status))

(* The length a hit announces is that of its body, also for a part that the *)
(* range filter left (fetch.c:154, headers.c:198): unless the response had  *)
(* a Content-Length header, which is stored before it is cut down.          *)
LengthIsTheBody ==
    phase = "hit" /\ ~(out.status = 206 /\ "Content-Length" \in out.slots) =>
        \A h \in Shown(out) : h.name = "Content-Length" => h.value = out.body
=============================================================================

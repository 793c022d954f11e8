------------------------ MODULE SrcacheHeaderParser ------------------------
(***************************************************************************)
(* How the body filter of a fetch subrequest cuts the bytes of a cached    *)
(* response into lines (ngx_http_srcache_process_status_line and _header,  *)
(* driven by the loop of ngx_http_srcache_body_filter).  SrcacheFetch      *)
(* takes a line at a time; here the bytes arrive in buffers cut anywhere,  *)
(* and a header line has to fit into header_buf, of srcache_header_buffer_ *)
(* size bytes.                                                             *)
(*                                                                         *)
(* A position is a number of bytes from the beginning of the response; a   *)
(* line is known by its kind and by the position where it ends, which is   *)
(* the byte the parser rejects if the line is bad.                         *)
(***************************************************************************)
EXTENDS Integers, Sequences

CONSTANTS
    HeaderBufSize,  \* srcache_header_buffer_size
    Entries         \* what the cache may send

LineKinds == {"status", "field", "end", "bad"}

(* size: bytes the cache sends, which may stop short of the lines.          *)
EntryRecords == [kinds : Seq(LineKinds), ends : Seq(Nat), size : Nat]

Begin(e, i) == IF i = 1 THEN 0 ELSE e.ends[i - 1]

LineLength(e, i) == e.ends[i] - Begin(e, i)

WellCut(e) ==
    /\ Len(e.kinds) = Len(e.ends) /\ Len(e.kinds) > 0
    /\ e.kinds[1] \in {"status", "bad"}
    /\ \A i \in 2..Len(e.kinds) : e.kinds[i] # "status"
    /\ \A i \in 1..Len(e.kinds) :
           /\ Begin(e, i) < e.ends[i]
           /\ i = Len(e.kinds) <=> e.kinds[i] \in {"end", "bad"}

ASSUME SizeAssumption == HeaderBufSize \in Nat \ {0}
ASSUME EntriesAssumption == \A e \in Entries : e \in EntryRecords /\ WellCut(e)

VARIABLES
    entry,           \* the cached response
    arrived,         \* bytes of it that reached the filter
    pos,             \* b->pos: bytes consumed
    line,            \* the line being parsed
    process_header,  \* the parser in charge, "status_line" or "header"
    fill,            \* header_buf->last - header_buf->start
    verdict,         \* what the parser said
    body             \* bytes handed to the parent as body

vars == <<entry, arrived, pos, line, process_header, fill, verdict, body>>

Verdicts == {"parsing", "ok", "invalid", "overflow", "no_memory"}

Init ==
    /\ entry \in Entries /\ arrived = 0 /\ pos = 0 /\ line = 1
    /\ process_header = "status_line" /\ fill = 0
    /\ verdict = "parsing" /\ body = 0

-----------------------------------------------------------------------------
(* The next buffer; the one before it has been consumed.  Once the header   *)
(* is over it is body, after an error it is discarded.                      *)
NextBuf(n) ==
    /\ pos = arrived /\ n > 0 /\ arrived + n <= entry.size
    /\ arrived' = arrived + n
    /\ pos' = IF verdict = "parsing" THEN pos ELSE arrived + n
    /\ body' = IF verdict = "ok" THEN body + n ELSE body
    /\ UNCHANGED <<entry, line, process_header, fill, verdict>>

Parsing(parser) ==
    verdict = "parsing" /\ pos < arrived /\ process_header = parser

(* An error: the rest of the buffer is discarded.                           *)
Reject(why) ==
    /\ verdict' = why /\ pos' = arrived
    /\ UNCHANGED <<entry, arrived, line, process_header, fill, body>>

(* process_status_line works on the buffer itself, whatever its length.     *)
StatusLineAgain ==
    /\ Parsing("status_line") /\ arrived < entry.ends[1]
    /\ pos' = arrived
    /\ UNCHANGED <<entry, arrived, line, process_header, fill, verdict, body>>

StatusLineBad ==
    /\ Parsing("status_line") /\ entry.ends[1] <= arrived
    /\ entry.kinds[1] = "bad" /\ Reject("invalid")

StatusLineDone ==
    /\ Parsing("status_line") /\ entry.ends[1] <= arrived
    /\ entry.kinds[1] = "status"
    /\ pos' = entry.ends[1] /\ line' = 2
    /\ process_header' = "header" /\ fill' = 0
    /\ UNCHANGED <<entry, arrived, verdict, body>>

(* header_buf cannot be allocated.                                          *)
StatusLineNoMemory ==
    /\ Parsing("status_line") /\ entry.ends[1] <= arrived
    /\ entry.kinds[1] = "status" /\ Reject("no_memory")

-----------------------------------------------------------------------------
(* One turn of the loop of process_header: bytes of the buffer are copied   *)
(* behind those already in header_buf, as many as fit, and parsed there.    *)

Least(m, n) == IF m < n THEN m ELSE n

Rest == HeaderBufSize - fill

Copied == Least(arrived - pos, Rest)

(* Faulty: a header_buf that is just full counts as overflown.              *)
Truncated_AtLimit == arrived - pos >= Rest

(* Faulty: a full header_buf is not noticed.                                *)
Truncated_Never == FALSE

Truncated == arrived - pos > Rest

(* Bytes of the line that header_buf does not hold yet.                     *)
Missing == entry.ends[line] - Begin(entry, line) - fill

FillAfterLine == 0

(* Faulty: what was copied behind the line counts as consumed.              *)
PosAfterLine_AllCopied == pos + Copied

PosAfterLine == pos + Missing

HeaderLine ==
    /\ Parsing("header") /\ Missing <= Copied
    /\ entry.kinds[line] = "field"
    /\ pos' = PosAfterLine /\ line' = line + 1 /\ fill' = FillAfterLine
    /\ UNCHANGED <<entry, arrived, process_header, verdict, body>>

(* No memory for the copy of the line or in the header's handler.           *)
HeaderLineNoMemory ==
    /\ Parsing("header") /\ Missing <= Copied
    /\ entry.kinds[line] = "field" /\ Reject("no_memory")

HeaderBad ==
    /\ Parsing("header") /\ Missing <= Copied
    /\ entry.kinds[line] = "bad" /\ Reject("invalid")

(* The empty line.  The rest of the buffer is body.                         *)
HeaderDone ==
    /\ Parsing("header") /\ Missing <= Copied
    /\ entry.kinds[line] = "end"
    /\ verdict' = "ok" /\ fill' = 0
    /\ pos' = arrived /\ body' = arrived - PosAfterLine
    /\ UNCHANGED <<entry, arrived, line, process_header>>

HeaderOverflow ==
    Parsing("header") /\ Missing > Copied /\ Truncated /\ Reject("overflow")

HeaderAgain ==
    /\ Parsing("header") /\ Missing > Copied /\ ~Truncated
    /\ pos' = pos + Copied /\ fill' = fill + Copied
    /\ UNCHANGED <<entry, arrived, line, process_header, verdict, body>>

ProcessStatusLine ==
    StatusLineAgain \/ StatusLineBad \/ StatusLineDone \/ StatusLineNoMemory

ProcessHeader ==
    \/ HeaderLine \/ HeaderLineNoMemory \/ HeaderBad
    \/ HeaderDone \/ HeaderOverflow \/ HeaderAgain

(* The cache sends no more.                                                 *)
Ended == arrived = entry.size /\ pos = arrived

End == Ended /\ UNCHANGED vars

Next ==
    \/ \E n \in 1..(entry.size - arrived) : NextBuf(n)
    \/ ProcessStatusLine
    \/ ProcessHeader
    \/ End

Spec == Init /\ [][Next]_vars

(* The loop runs on, and what the cache has to send arrives: the            *)
(* subrequest's upstream has timeouts.                                      *)
Fairness ==
    /\ WF_vars(ProcessStatusLine \/ ProcessHeader)
    /\ WF_vars(\E n \in 1..(entry.size - arrived) : NextBuf(n))

FairSpec == Spec /\ Fairness

-----------------------------------------------------------------------------
(* The reference: the lines themselves, without buffers.                    *)

Fits(i) == LineLength(entry, i) <= HeaderBufSize

(* Line i is complete, of a good kind and, except for the status line, not  *)
(* longer than the header buffer.                                           *)
GoodLine(i) ==
    /\ entry.ends[i] <= entry.size /\ entry.kinds[i] # "bad"
    /\ i > 1 => Fits(i)

LastLine == Len(entry.kinds)

Accepted == \A i \in 1..LastLine : GoodLine(i)

GoodBefore(i) == \A j \in 1..(i - 1) : GoodLine(j)

(* The first line that is not good is bad, and within the limit.            *)
BadLine ==
    /\ GoodBefore(LastLine) /\ entry.kinds[LastLine] = "bad"
    /\ entry.ends[LastLine] <= entry.size
    /\ LastLine > 1 => Fits(LastLine)

(* Or it is too long, and more of it than the limit was sent.               *)
LongLine ==
    \E i \in 2..LastLine :
        /\ GoodBefore(i) /\ ~Fits(i)
        /\ entry.size - Begin(entry, i) > HeaderBufSize

(* Types of the variables; b->pos never passes b->last.                     *)
TypeOK ==
    /\ entry \in Entries
    /\ arrived \in 0..entry.size /\ pos \in 0..arrived
    /\ line \in 1..LastLine
    /\ process_header \in {"status_line", "header"}
    /\ fill \in Nat /\ verdict \in Verdicts /\ body \in Nat

(* Wherever the buffers were cut, the parser's verdict is that on the lines *)
(* themselves: util.c:738-746 and 838-848 together refuse exactly the lines *)
(* longer than srcache_header_buffer_size.                                  *)
CutsDoNotMatter ==
    /\ verdict = "ok" => Accepted
    /\ verdict = "invalid" => BadLine
    /\ verdict = "overflow" => LongLine

(* Nor does the parser wait for more once it could know: when all that the  *)
(* cache sends was consumed and there is no verdict, none was possible.     *)
SilenceMeansCutShort ==
    Ended /\ verdict = "parsing" => ~Accepted /\ ~BadLine /\ ~LongLine

(* The parent gets every byte behind the empty line and none before it, even *)
(* if header and body share a buffer (util.c:758, store.c:363).              *)
BodyFollowsTheHeader ==
    verdict = "ok" => body = arrived - entry.ends[LastLine]

(* header_buf holds exactly what was consumed of the line at hand and is    *)
(* never filled past its end.                                               *)
HeaderBufHoldsTheLine ==
    verdict = "parsing" /\ process_header = "header" =>
        fill = pos - Begin(entry, line) /\ fill <= HeaderBufSize

(* No buffer keeps the filter's loop turning for ever, and all is consumed. *)
ParserEnds == <>Ended
=============================================================================

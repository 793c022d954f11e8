------------------------- MODULE SrcacheHeaderProofs -------------------------
(***************************************************************************)
(* Proofs about the header of a cached response: how it is parsed          *)
(* (SrcacheHeaderParser) and how headers_out become its lines and come     *)
(* back from them (SrcacheEntry).                                          *)
(*                                                                         *)
(* The parser, for every header buffer size and every set of entries: the  *)
(* verdict does not depend on where buffers are cut.                       *)
(*                                                                         *)
(* The entry, for all headers_out and locations: its lines say what the    *)
(* client of the original response was shown, and the headers_out of a hit *)
(* at each moment say what the lines replayed so far do.                   *)
(***************************************************************************)
EXTENDS SrcacheHeaderParser, SrcacheEntry, TLAPS, WellFoundedInduction

-----------------------------------------------------------------------------
(***************************************************************************)
(* SrcacheHeaderParser.                                                    *)
(***************************************************************************)

(* What holds while there is no verdict yet: the lines before the one at    *)
(* hand are good, and the parser is inside that line.                       *)
InLine ==
    verdict = "parsing" =>
        /\ GoodBefore(line)
        /\ Begin(entry, line) <= pos /\ pos < entry.ends[line]
        /\ process_header = "status_line" <=> line = 1
        /\ process_header = "header" =>
               fill = pos - Begin(entry, line) /\ fill <= HeaderBufSize

Inv ==
    TypeOK /\ InLine /\ CutsDoNotMatter /\ BodyFollowsTheHeader
    /\ (verdict = "ok" => entry.ends[LastLine] <= pos /\ line = LastLine)

(* What the assumption on entries says of the one at hand.                  *)
LEMMA EntryFacts ==
    ASSUME TypeOK
    PROVE  /\ LastLine \in Nat \ {0}
           /\ entry.size \in Nat
           /\ Len(entry.ends) = LastLine
           /\ \A i \in 1..LastLine :
                  /\ entry.ends[i] \in Nat /\ entry.kinds[i] \in LineKinds
                  /\ Begin(entry, i) \in Nat
                  /\ Begin(entry, i) < entry.ends[i]
                  /\ i = LastLine <=> entry.kinds[i] \in {"end", "bad"}
                  /\ i > 1 => entry.kinds[i] # "status"
           /\ entry.kinds[1] \in {"status", "bad"}
<1>1. /\ entry.kinds \in Seq(LineKinds) /\ entry.ends \in Seq(Nat)
      /\ entry.size \in Nat /\ WellCut(entry)
  BY EntriesAssumption DEF TypeOK, EntryRecords
<1>2. /\ LastLine \in Nat \ {0} /\ Len(entry.ends) = LastLine
      /\ entry.kinds[1] \in {"status", "bad"}
  BY <1>1 DEF WellCut, LastLine
<1>3. ASSUME NEW i \in 1..LastLine
      PROVE  /\ entry.ends[i] \in Nat /\ entry.kinds[i] \in LineKinds
             /\ Begin(entry, i) \in Nat
             /\ Begin(entry, i) < entry.ends[i]
             /\ i = LastLine <=> entry.kinds[i] \in {"end", "bad"}
             /\ i > 1 => entry.kinds[i] # "status"
  <2>1. entry.ends[i] \in Nat /\ entry.kinds[i] \in LineKinds
    BY <1>1, <1>2 DEF LastLine
  <2>2. Begin(entry, i) \in Nat
    BY <1>1, <1>2 DEF Begin
  <2>3. /\ Begin(entry, i) < entry.ends[i]
        /\ i = LastLine <=> entry.kinds[i] \in {"end", "bad"}
        /\ i > 1 => entry.kinds[i] # "status"
    BY <1>1, <1>2 DEF WellCut, LastLine
  <2> QED BY <2>1, <2>2, <2>3
<1> QED BY <1>1, <1>2, <1>3

(* A good line is followed by another one.                                  *)
LEMMA NextLine ==
    ASSUME TypeOK, NEW i \in 1..LastLine,
           entry.kinds[i] \in {"status", "field"}
    PROVE  /\ i + 1 \in 1..LastLine
           /\ Begin(entry, i + 1) = entry.ends[i]
           /\ entry.ends[i] < entry.ends[i + 1]
<1>1. i # LastLine BY EntryFacts
<1>2. i + 1 \in 1..LastLine BY <1>1, EntryFacts
<1>3. Begin(entry, i + 1) = entry.ends[i] BY <1>2 DEF Begin
<1> QED BY <1>2, <1>3, EntryFacts

LEMMA Initially == Init => Inv
<1> SUFFICES ASSUME Init PROVE Inv OBVIOUS
<1>1. TypeOK
  BY EntriesAssumption
  DEF Init, TypeOK, EntryRecords, WellCut, LastLine, Verdicts
<1> QED BY <1>1, EntryFacts
  DEF Init, Inv, InLine, CutsDoNotMatter, BodyFollowsTheHeader, Begin, GoodBefore

LEMMA BufKeeps ==
    ASSUME Inv, NEW n \in 1..(entry.size - arrived), NextBuf(n)
    PROVE  Inv'
<1> USE DEF Inv
<1>1. TypeOK' BY EntryFacts DEF NextBuf, TypeOK, LastLine
<1>2. InLine'
  BY EntryFacts DEF NextBuf, InLine, GoodBefore, GoodLine, Fits, Begin, LineLength, TypeOK
<1>3. CutsDoNotMatter'
  BY DEF NextBuf, CutsDoNotMatter, Accepted, BadLine, LongLine, GoodBefore,
         GoodLine, Fits, LineLength, Begin, LastLine
<1>4. BodyFollowsTheHeader' /\ (verdict' = "ok" => entry'.ends[LastLine'] <= pos'
                                                   /\ line' = LastLine')
  <2>1. LastLine' = LastLine /\ entry' = entry /\ verdict' = verdict /\ line' = line
    BY DEF NextBuf, LastLine
  <2>2. /\ entry.ends[LastLine] \in Nat /\ arrived \in Nat /\ body \in Nat
        /\ pos = arrived
    BY EntryFacts DEF TypeOK, NextBuf
  <2> QED BY <2>1, <2>2 DEF NextBuf, BodyFollowsTheHeader
<1> QED BY <1>1, <1>2, <1>3, <1>4

(* An error keeps the invariant when the reference agrees with it.          *)
LEMMA RejectKeeps ==
    ASSUME Inv, NEW why \in {"invalid", "overflow", "no_memory"}, Reject(why),
           why = "invalid" => BadLine, why = "overflow" => LongLine
    PROVE  Inv'
<1> USE DEF Inv
<1>1. TypeOK' BY EntryFacts DEF Reject, TypeOK, Verdicts, LastLine
<1>2. CutsDoNotMatter'
  BY DEF Reject, CutsDoNotMatter, Accepted, BadLine, LongLine, GoodBefore,
         GoodLine, Fits, LineLength, Begin, LastLine
<1> QED BY <1>1, <1>2 DEF Reject, InLine, BodyFollowsTheHeader

LEMMA StatusLineKeeps == ASSUME Inv, ProcessStatusLine PROVE Inv'
<1> USE DEF Inv
<1>0. line = 1 /\ verdict = "parsing" /\ pos < arrived
  BY DEF ProcessStatusLine, StatusLineAgain, StatusLineBad, StatusLineDone,
         StatusLineNoMemory, Parsing, InLine
<1>1. CASE StatusLineAgain
  <2>1. TypeOK' BY <1>1, EntryFacts DEF StatusLineAgain, TypeOK, LastLine
  <2>2. InLine'
    BY <1>0, <1>1, EntryFacts
    DEF StatusLineAgain, InLine, GoodBefore, GoodLine, Fits, Begin, LineLength, TypeOK, Parsing
  <2> QED BY <1>0, <1>1, <2>1, <2>2
      DEF StatusLineAgain, CutsDoNotMatter, BodyFollowsTheHeader
<1>2. CASE StatusLineBad
  <2>1. LastLine = 1 BY <1>2, EntryFacts DEF StatusLineBad
  <2>2. BadLine BY <1>2, <2>1, EntryFacts DEF StatusLineBad, BadLine, GoodBefore, TypeOK
  <2> QED BY <1>2, <2>2, RejectKeeps DEF StatusLineBad
<1>3. CASE StatusLineDone
  <2>1. /\ 2 \in 1..LastLine /\ Begin(entry, 2) = entry.ends[1]
        /\ entry.ends[1] < entry.ends[2]
    BY <1>3, EntryFacts, NextLine DEF StatusLineDone
  <2>2. TypeOK' BY <1>3, <2>1, EntryFacts DEF StatusLineDone, TypeOK, LastLine
  <2>3. GoodBefore(2)
    BY <1>3, EntryFacts DEF StatusLineDone, GoodBefore, GoodLine, TypeOK
  <2>4. InLine'
    BY <1>3, <2>1, <2>3, EntryFacts, SizeAssumption
    DEF StatusLineDone, InLine, GoodBefore, GoodLine, Fits, Begin, LineLength
  <2> QED BY <1>0, <1>3, <2>2, <2>4
      DEF StatusLineDone, CutsDoNotMatter, BodyFollowsTheHeader
<1>4. CASE StatusLineNoMemory
  BY <1>4, RejectKeeps DEF StatusLineNoMemory
<1> QED BY <1>1, <1>2, <1>3, <1>4 DEF ProcessStatusLine

(* Inside a header line: what is missing of it, and when it fits.           *)
LEMMA HeaderFacts ==
    ASSUME Inv, Parsing("header")
    PROVE  /\ line > 1 /\ line \in 1..LastLine
           /\ pos \in Nat /\ arrived \in Nat /\ pos <= arrived
           /\ entry.size \in Nat /\ arrived <= entry.size
           /\ entry.ends[line] \in Nat /\ Begin(entry, line) \in Nat
           /\ fill = pos - Begin(entry, line) /\ fill \in 0..HeaderBufSize
           /\ Missing = entry.ends[line] - pos /\ Missing \in Nat \ {0}
           /\ Rest \in Nat /\ Copied \in 0..(arrived - pos) /\ Copied <= Rest
           /\ (Copied = arrived - pos \/ Copied = Rest)
           /\ Missing <= Copied => pos + Missing <= arrived /\ GoodBefore(line)
                                   /\ Fits(line)
<1>0. /\ pos \in Nat /\ arrived \in Nat /\ pos <= arrived
      /\ entry.size \in Nat /\ arrived <= entry.size
      /\ entry.ends[line] \in Nat /\ Begin(entry, line) \in Nat
  BY EntryFacts DEF Inv, TypeOK
<1>1. /\ line > 1 /\ line \in 1..LastLine
      /\ fill = pos - Begin(entry, line) /\ fill \in 0..HeaderBufSize
  BY EntryFacts, SizeAssumption DEF Inv, InLine, Parsing, TypeOK
<1>2. Missing = entry.ends[line] - pos /\ Missing \in Nat \ {0}
  <2>1. pos < entry.ends[line] BY DEF Inv, InLine, Parsing
  <2> QED BY <1>0, <1>1, <2>1 DEF Missing
<1>3. /\ Rest \in Nat /\ Copied \in 0..(arrived - pos) /\ Copied <= Rest
      /\ (Copied = arrived - pos \/ Copied = Rest)
  BY <1>1, EntryFacts, SizeAssumption DEF Inv, TypeOK, Parsing, Rest, Copied, Least
<1>4. Missing <= Copied => pos + Missing <= arrived /\ GoodBefore(line) /\ Fits(line)
  BY <1>0, <1>1, <1>2, <1>3, SizeAssumption
  DEF Inv, InLine, Parsing, Rest, Fits, LineLength
<1> QED BY <1>0, <1>1, <1>2, <1>3, <1>4

LEMMA HeaderLineKeeps == ASSUME Inv, HeaderLine PROVE Inv'
<1> USE DEF Inv
<1>0. Parsing("header") /\ verdict = "parsing" BY DEF HeaderLine, Parsing
<1>1. /\ line + 1 \in 1..LastLine /\ Begin(entry, line + 1) = entry.ends[line]
      /\ entry.ends[line] < entry.ends[line + 1]
  BY <1>0, HeaderFacts, NextLine DEF HeaderLine
<1>2. pos' = entry.ends[line] /\ pos' <= arrived
  BY <1>0, HeaderFacts DEF HeaderLine, PosAfterLine
<1>3. TypeOK'
  BY <1>1, <1>2, EntryFacts DEF HeaderLine, TypeOK, LastLine, FillAfterLine
<1>4. GoodBefore(line + 1)
  <2>1. GoodLine(line)
    BY <1>0, <1>2, HeaderFacts DEF HeaderLine, GoodLine
  <2> QED BY <1>0, <2>1, HeaderFacts DEF GoodBefore, HeaderLine
<1>5. InLine'
  <2>1. Begin(entry', line') = entry.ends[line] /\ line' = line + 1
    BY <1>1 DEF HeaderLine, Begin
  <2>2. GoodBefore(line)'
    BY <1>4, <2>1 DEF HeaderLine, GoodBefore, GoodLine, Fits, LineLength, Begin
  <2>3. entry.ends[line] \in Nat BY <1>0, HeaderFacts
  <2> QED BY <1>0, <1>1, <1>2, <2>1, <2>2, <2>3, HeaderFacts, SizeAssumption
      DEF HeaderLine, InLine, FillAfterLine, Parsing
<1> QED BY <1>0, <1>3, <1>5 DEF HeaderLine, CutsDoNotMatter, BodyFollowsTheHeader

LEMMA HeaderBadKeeps == ASSUME Inv, HeaderBad PROVE Inv'
<1> USE DEF Inv
<1>1. Parsing("header") /\ LastLine = line
  BY HeaderFacts, EntryFacts DEF HeaderBad
<1>2. BadLine
  BY <1>1, HeaderFacts DEF HeaderBad, BadLine
<1> QED BY <1>2, RejectKeeps DEF HeaderBad

LEMMA HeaderDoneKeeps == ASSUME Inv, HeaderDone PROVE Inv'
<1> USE DEF Inv
<1>0. Parsing("header") BY DEF HeaderDone
<1>1. LastLine = line BY <1>0, HeaderFacts, EntryFacts DEF HeaderDone
<1>2. PosAfterLine = entry.ends[line] /\ entry.ends[line] <= arrived
  <2>1. Missing <= Copied BY DEF HeaderDone
  <2>2. Missing = entry.ends[line] - pos /\ pos + Missing <= arrived
    BY <1>0, <2>1, HeaderFacts
  <2>3. pos \in Nat /\ entry.ends[line] \in Nat BY <1>0, HeaderFacts
  <2> QED BY <2>2, <2>3 DEF PosAfterLine
<1>3. Accepted
  <2>1. GoodLine(line)
    BY <1>0, <1>2, HeaderFacts DEF HeaderDone, GoodLine
  <2> QED BY <1>0, <1>1, <2>1, HeaderFacts DEF Accepted, GoodBefore, HeaderDone
<1>4. TypeOK'
  BY <1>2, EntryFacts DEF HeaderDone, TypeOK, Verdicts, LastLine
<1>5. CutsDoNotMatter'
  BY <1>3 DEF HeaderDone, CutsDoNotMatter, Accepted, GoodLine, Fits, LineLength,
              Begin, LastLine
<1>6. BodyFollowsTheHeader' BY <1>1, <1>2 DEF HeaderDone, BodyFollowsTheHeader, LastLine
<1>7. entry'.ends[LastLine'] <= pos' /\ line' = LastLine'
  BY <1>1, <1>2 DEF HeaderDone, LastLine
<1> QED BY <1>4, <1>5, <1>6, <1>7 DEF HeaderDone, InLine

LEMMA HeaderOverflowKeeps == ASSUME Inv, HeaderOverflow PROVE Inv'
<1> USE DEF Inv
<1>0. Parsing("header") BY DEF HeaderOverflow
<1>1. Copied = Rest
  BY <1>0, HeaderFacts, EntryFacts DEF HeaderOverflow, Truncated, TypeOK
<1>2. ~Fits(line) /\ entry.size - Begin(entry, line) > HeaderBufSize
  <2>1. arrived - pos > Rest /\ Missing > Rest
    BY <1>1 DEF HeaderOverflow, Truncated
  <2>2. LineLength(entry, line) = entry.ends[line] - Begin(entry, line)
    BY DEF LineLength
  <2> QED BY <1>0, <2>1, <2>2, HeaderFacts, SizeAssumption DEF Fits, Rest
<1>3. GoodBefore(line) BY <1>0 DEF InLine, Parsing
<1>4. LongLine BY <1>0, <1>2, <1>3, HeaderFacts DEF LongLine
<1> QED BY <1>4, RejectKeeps DEF HeaderOverflow

LEMMA HeaderAgainKeeps == ASSUME Inv, HeaderAgain PROVE Inv'
<1> USE DEF Inv
<1>0. Parsing("header") /\ verdict = "parsing" BY DEF HeaderAgain, Parsing
<1>1. pos + Copied \in 0..arrived /\ pos + Copied < entry.ends[line]
  BY <1>0, HeaderFacts DEF HeaderAgain
<1>2. TypeOK'
  <2>1. fill' \in Nat BY <1>0, HeaderFacts DEF HeaderAgain
  <2> QED BY <1>1, <2>1 DEF HeaderAgain, TypeOK, LastLine
<1>3. fill' = pos' - Begin(entry, line) /\ fill' <= HeaderBufSize
  BY <1>0, <1>1, HeaderFacts, SizeAssumption DEF HeaderAgain, Rest
<1>4. InLine'
  <2>1. /\ GoodBefore(line)' <=> GoodBefore(line)
        /\ Begin(entry, line)' = Begin(entry, line)
    BY DEF HeaderAgain, GoodBefore, GoodLine, Fits, LineLength, Begin
  <2>2. Begin(entry, line) <= pos' /\ pos' < entry.ends[line]
    BY <1>0, <1>1, HeaderFacts DEF HeaderAgain
  <2> QED BY <1>0, <1>3, <2>1, <2>2, HeaderFacts
      DEF HeaderAgain, InLine, Parsing
<1> QED BY <1>0, <1>2, <1>4 DEF HeaderAgain, CutsDoNotMatter, BodyFollowsTheHeader

LEMMA HeaderKeeps == ASSUME Inv, ProcessHeader PROVE Inv'
<1>1. CASE HeaderLineNoMemory BY <1>1, RejectKeeps DEF HeaderLineNoMemory
<1> QED
  BY <1>1, HeaderLineKeeps, HeaderBadKeeps, HeaderDoneKeeps, HeaderOverflowKeeps,
     HeaderAgainKeeps
  DEF ProcessHeader

LEMMA StutterKeeps == ASSUME Inv, UNCHANGED vars PROVE Inv'
BY DEF vars, Inv, TypeOK, InLine, CutsDoNotMatter, BodyFollowsTheHeader, Accepted,
       BadLine, LongLine, GoodBefore, GoodLine, Fits, LineLength, Begin, LastLine

LEMMA Invariant == Spec => []Inv
<1>1. Inv /\ [Next]_vars => Inv'
  BY BufKeeps, StatusLineKeeps, HeaderKeeps, StutterKeeps DEF Next, End
<1> QED BY Initially, <1>1, PTL DEF Spec

(* Every variable of the parser keeps its type; b->pos never passes b->last *)
(* and the line at hand is one of the response.                             *)
THEOREM ParserTyped == Spec => []TypeOK
BY Invariant, PTL DEF Inv

(* The verdict of the parser is that on the lines, wherever buffers are cut. *)
THEOREM VerdictIsOnTheLines == Spec => []CutsDoNotMatter
BY Invariant, PTL DEF Inv

(* The parent's body is exactly what follows the empty line.                *)
THEOREM BodyIsTheRest == Spec => []BodyFollowsTheHeader
BY Invariant, PTL DEF Inv

(* The header buffer holds the line at hand and never overflows.            *)
THEOREM HeaderBufIsExact == Spec => []HeaderBufHoldsTheLine
<1>1. Inv => HeaderBufHoldsTheLine BY DEF Inv, InLine, HeaderBufHoldsTheLine
<1> QED BY <1>1, Invariant, PTL

(* A parser without a verdict, with all consumed, could not have had one.   *)
THEOREM SilenceIsTrue == Spec => []SilenceMeansCutShort
<1>1. Inv => SilenceMeansCutShort
  <2> SUFFICES ASSUME Inv, Ended, verdict = "parsing"
               PROVE  ~Accepted /\ ~BadLine /\ ~LongLine
      BY DEF SilenceMeansCutShort
  <2>1. /\ line \in 1..LastLine /\ entry.size < entry.ends[line]
        /\ GoodBefore(line) /\ Begin(entry, line) <= entry.size
    BY EntryFacts DEF Inv, InLine, Ended, TypeOK
  <2>2. ~GoodLine(line) BY <2>1, EntryFacts DEF GoodLine, Inv
  <2>3. ~Accepted BY <2>1, <2>2 DEF Accepted
  <2>4. ~BadLine
    <3>1. CASE line = LastLine BY <2>1, <3>1, EntryFacts DEF BadLine, Inv
    <3>2. CASE line # LastLine
      BY <2>1, <2>2, <3>2, EntryFacts DEF BadLine, GoodBefore, Inv
    <3> QED BY <3>1, <3>2
  <2>5. ~LongLine
    <3> SUFFICES ASSUME NEW i \in 2..LastLine, GoodBefore(i), ~Fits(i),
                        entry.size - Begin(entry, i) > HeaderBufSize
                 PROVE  FALSE
        BY DEF LongLine
    <3>1. CASE i < line
      <4>1. LastLine \in Nat /\ line \in 1..LastLine
        BY <2>1, EntryFacts DEF Inv
      <4>2. i \in 1..(line - 1) /\ i > 1
        BY <3>1, <4>1
      <4>3. GoodLine(i)
        BY <2>1, <4>2 DEF GoodBefore
      <4> QED BY <4>2, <4>3 DEF GoodLine
    <3>2. CASE i > line
      BY <2>1, <2>2, <3>2, EntryFacts DEF GoodBefore, Inv
    <3>3. CASE i = line
      BY <2>1, <3>3, EntryFacts, SizeAssumption DEF Inv, InLine, Ended, TypeOK
    <3> QED BY <2>1, <3>1, <3>2, <3>3, EntryFacts DEF Inv
  <2> QED BY <2>3, <2>4, <2>5
<1> QED BY <1>1, Invariant, PTL

-----------------------------------------------------------------------------
(***************************************************************************)
(* SrcacheEntry.                                                           *)
(***************************************************************************)
-----------------------------------------------------------------------------
(* Recursion from the end of a sequence.                                    *)

LEMMA LeastNumber ==
  ASSUME NEW T, T \subseteq Nat, T # {}
  PROVE  \E n \in T : \A k \in T : n <= k
  <1> DEFINE R == OpToRel(<, Nat)
  <1>1. IsWellFoundedOn(R, Nat)
    BY NatLessThanWellFounded
  <1>2. \A a, b \in Nat : <<a, b>> \in R <=> a < b
    BY DEF OpToRel
  <1> HIDE DEF R
  <1>3. PICK n \in T : \A k \in T : <<k, n>> \notin R
    BY <1>1, WFMin
  <1>4. ASSUME NEW k \in T
        PROVE  n <= k
    <2>1. k \in Nat /\ n \in Nat /\ ~(k < n)
      BY <1>2, <1>3
    <2> QED
      BY <2>1
  <1> QED
    BY <1>4

(* What holds at n + 1, and at k if at k + 1, holds from 1 on.              *)
LEMMA Downward ==
  ASSUME NEW n \in Nat, NEW P, n + 1 \in P,
         \A k \in 1..n : k + 1 \in P => k \in P
  PROVE  \A k \in 1..(n + 1) : k \in P
  <1> DEFINE T == { d \in 0..n : n + 1 - d \notin P }
  <1>1. T \subseteq Nat
    OBVIOUS
  <1>2. ASSUME T # {} PROVE FALSE
    <2>1. PICK d \in T : \A e \in T : d <= e
      BY <1>1, <1>2, LeastNumber
    <2>2. d \in 0..n /\ n + 1 - d \notin P
      BY <2>1
    <2>3. d # 0
      BY <2>2
    <2>4. d - 1 \in 0..n /\ ~(d <= d - 1) /\ n + 1 - d \in 1..n
          /\ n + 1 - (d - 1) = (n + 1 - d) + 1
      BY <2>2, <2>3
    <2>5. d - 1 \notin T
      BY <2>1, <2>4
    <2>6. n + 1 - (d - 1) \in P
      BY <2>4, <2>5
    <2> QED
      BY <2>2, <2>4, <2>6
  <1>3. ASSUME NEW k \in 1..(n + 1)
        PROVE  k \in P
    <2>1. n + 1 - k \in 0..n /\ n + 1 - (n + 1 - k) = k
      OBVIOUS
    <2>2. n + 1 - k \notin T
      BY <1>2
    <2> QED
      BY <2>1, <2>2
  <1> QED
    BY <1>3

(* The values of a function that is defined from the end on.                *)
Recurs(f, n, b, F) ==
    f[n + 1] = b /\ \A k \in 1..n : f[k] = F[k][f[k + 1]]

LEMMA RecursionExists ==
  ASSUME NEW n \in Nat, NEW S, NEW b \in S, NEW F \in [1..n -> [S -> S]]
  PROVE  \E f \in [1..(n + 1) -> S] : Recurs(f, n, b, F)
  <1> DEFINE Good(f, m) == /\ f \in [1..(n + 1) -> S] /\ f[n + 1] = b
                           /\ \A k \in m..n : f[k] = F[k][f[k + 1]]
             P == { m \in 1..(n + 1) : \E f : Good(f, m) }
  <1>1. n + 1 \in P
    <2> DEFINE f == [k \in 1..(n + 1) |-> b]
    <2>1. Good(f, n + 1)
      OBVIOUS
    <2>2. n + 1 \in 1..(n + 1)
      OBVIOUS
    <2> QED
      BY <2>1, <2>2
  <1>2. ASSUME NEW m \in 1..n, m + 1 \in P
        PROVE  m \in P
    <2>1. PICK f : Good(f, m + 1)
      BY <1>2
    <2> DEFINE v == F[m][f[m + 1]]
               g == [f EXCEPT ![m] = v]
    <2>2. m \in 1..(n + 1) /\ m + 1 \in 1..(n + 1) /\ n + 1 # m
          /\ n + 1 \in 1..(n + 1)
      OBVIOUS
    <2>3. v \in S
      BY <2>1, <2>2
    <2>4. /\ g \in [1..(n + 1) -> S] /\ g[m] = v
          /\ \A k \in 1..(n + 1) : k # m => g[k] = f[k]
      BY <2>1, <2>2, <2>3
    <2> HIDE DEF g
    <2>5. ASSUME NEW k \in m..n
          PROVE  g[k] = F[k][g[k + 1]]
      <3>1. k + 1 \in 1..(n + 1) /\ k + 1 # m /\ k \in 1..(n + 1)
            /\ (k # m => k \in (m + 1)..n)
        OBVIOUS
      <3>2. g[k + 1] = f[k + 1]
        BY <2>4, <3>1
      <3> QED
        BY <2>1, <2>4, <3>1, <3>2
    <2>6. Good(g, m)
      BY <2>1, <2>2, <2>4, <2>5
    <2> HIDE DEF Good
    <2> QED
      BY <2>2, <2>6
  <1> HIDE DEF P, Good
  <1>3. \A k \in 1..(n + 1) : k \in P
    BY <1>1, <1>2, Downward
  <1>4. 1 \in 1..(n + 1)
    OBVIOUS
  <1>5. 1 \in P
    BY <1>3, <1>4
  <1>6. PICK f : Good(f, 1)
    BY <1>5 DEF P
  <1> QED
    BY <1>6 DEF Good, Recurs

-----------------------------------------------------------------------------
(* Sums.                                                                    *)

IsSumOf(f, s) ==
    f = [k \in 1..(Len(s) + 1) |->
            IF k = Len(s) + 1 THEN 0 ELSE s[k] + f[k + 1]]

(* What Sum adds up from each place on.                                     *)
Sums(f, s) ==
    /\ f \in [1..(Len(s) + 1) -> Nat] /\ f[Len(s) + 1] = 0
    /\ \A k \in 1..Len(s) : f[k] = s[k] + f[k + 1]

LEMMA SumUnfolds ==
  ASSUME NEW s \in Seq(Nat)
  PROVE  \E f : Sums(f, s) /\ Sum(s) = f[1]
  <1> DEFINE n == Len(s)
             F == [k \in 1..n |-> [v \in Nat |-> s[k] + v]]
  <1>1. n \in Nat /\ \A k \in 1..n : s[k] \in Nat
    OBVIOUS
  <1>2. F \in [1..n -> [Nat -> Nat]]
    BY <1>1
  <1>3. \A k \in 1..n : \A v \in Nat : F[k][v] = s[k] + v
    OBVIOUS
  <1> HIDE DEF F
  <1>4. PICK g \in [1..(n + 1) -> Nat] : Recurs(g, n, 0, F)
    BY <1>1, <1>2, RecursionExists
  <1> HIDE DEF n
  <1>5. Sums(g, s)
    <2>1. ASSUME NEW k \in 1..n PROVE g[k] = s[k] + g[k + 1]
      <3>1. g[k + 1] \in Nat
        BY <1>1, <1>4
      <3> QED
        BY <1>3, <1>4, <3>1 DEF Recurs
    <2> QED
      BY <1>4, <2>1 DEF Sums, Recurs, n
  <1>6. IsSumOf(g, s)
    <2> DEFINE e == [k \in 1..(n + 1) |->
                       IF k = n + 1 THEN 0 ELSE s[k] + g[k + 1]]
    <2>1. \A k \in 1..(n + 1) : k # n + 1 => k \in 1..n
      BY <1>1
    <2>2. \A k \in 1..(n + 1) : g[k] = e[k]
      BY <1>5, <2>1 DEF Sums, n
    <2>3. DOMAIN g = 1..(n + 1) /\ g = [k \in DOMAIN g |-> g[k]]
          /\ DOMAIN e = 1..(n + 1) /\ e = [k \in DOMAIN e |-> e[k]]
      BY <1>4
    <2> HIDE DEF e
    <2>4. g = e
      BY <2>2, <2>3
    <2> QED
      BY <2>4 DEF e, IsSumOf, n
  <1> DEFINE f == CHOOSE f : IsSumOf(f, s)
  <1>7. IsSumOf(f, s)
    BY <1>6, Zenon
  <1>8. Sum(s) = f[1]
    BY DEF Sum, IsSumOf
  <1> HIDE DEF f
  <1>9. /\ DOMAIN f = 1..(n + 1) /\ f = [k \in 1..(n + 1) |-> f[k]]
        /\ f[n + 1] = 0 /\ \A k \in 1..n : f[k] = s[k] + f[k + 1]
    <2>1. n + 1 \in 1..(n + 1) /\ \A k \in 1..n : k \in 1..(n + 1) /\ k # n + 1
      BY <1>1
    <2> QED
      BY <1>7, <2>1 DEF IsSumOf, n
  <1> DEFINE P == { k \in 1..(n + 1) : f[k] \in Nat }
  <1>10. \A k \in 1..(n + 1) : k \in P
    <2>1. n + 1 \in P
      BY <1>1, <1>9
    <2>2. ASSUME NEW k \in 1..n, k + 1 \in P PROVE k \in P
      <3>1. f[k + 1] \in Nat /\ s[k] \in Nat /\ k \in 1..(n + 1)
        BY <1>1, <2>2
      <3>2. f[k] = s[k] + f[k + 1]
        BY <1>9
      <3>3. f[k] \in Nat
        BY <3>1, <3>2
      <3> QED
        BY <3>1, <3>3
    <2> HIDE DEF P
    <2> QED
      BY <1>1, <2>1, <2>2, Downward
  <1>11. Sums(f, s)
    BY <1>9, <1>10 DEF Sums, n
  <1> QED
    BY <1>8, <1>11

LEMMA SumTyped ==
  ASSUME NEW s \in Seq(Nat)
  PROVE  Sum(s) \in Nat
  <1>1. PICK f : Sums(f, s) /\ Sum(s) = f[1]
    BY SumUnfolds
  <1>2. 1 \in 1..(Len(s) + 1)
    OBVIOUS
  <1> QED
    BY <1>1, <1>2 DEF Sums

LEMMA SumOfFew ==
  /\ Sum(<<>>) = 0
  /\ \A a \in Nat : Sum(<<a>>) = a
  <1>1. Sum(<<>>) = 0
    <2>1. <<>> \in Seq(Nat) /\ Len(<<>>) + 1 = 1
      OBVIOUS
    <2>2. PICK f : Sums(f, <<>>) /\ Sum(<<>>) = f[1]
      BY <2>1, SumUnfolds
    <2> QED
      BY <2>1, <2>2 DEF Sums
  <1>2. ASSUME NEW a \in Nat PROVE Sum(<<a>>) = a
    <2> DEFINE s == <<a>>
    <2>1. s \in Seq(Nat) /\ Len(s) = 1 /\ s[1] = a
      OBVIOUS
    <2> HIDE DEF s
    <2>2. PICK f : Sums(f, s) /\ Sum(s) = f[1]
      BY <2>1, SumUnfolds
    <2>3. f[1 + 1] = 0 /\ \A k \in 1..1 : f[k] = s[k] + f[k + 1]
      BY <2>1, <2>2 DEF Sums
    <2> QED
      BY <2>1, <2>2, <2>3 DEF s
  <1> QED
    BY <1>1, <1>2

LEMMA SumOfBoth ==
  ASSUME NEW s \in Seq(Nat), NEW t \in Seq(Nat)
  PROVE  Sum(s \o t) = Sum(s) + Sum(t)
  <1> DEFINE st == s \o t  n == Len(s)  m == Len(t)
  <1>1. /\ st \in Seq(Nat) /\ Len(st) = n + m /\ n \in Nat /\ m \in Nat
        /\ \A k \in 1..n : st[k] = s[k] /\ s[k] \in Nat
        /\ \A k \in 1..m : st[n + k] = t[k] /\ t[k] \in Nat
    OBVIOUS
  <1> HIDE DEF st
  <1>2. PICK f : Sums(f, s) /\ Sum(s) = f[1]
    BY SumUnfolds
  <1>3. PICK g : Sums(g, t) /\ Sum(t) = g[1]
    BY SumUnfolds
  <1>4. PICK h : Sums(h, st) /\ Sum(st) = h[1]
    BY <1>1, SumUnfolds
  <1> HIDE DEF n, m
  <1>5. /\ f \in [1..(n + 1) -> Nat] /\ f[n + 1] = 0
        /\ \A k \in 1..n : f[k] = s[k] + f[k + 1]
    BY <1>2 DEF Sums, n
  <1>6. /\ g \in [1..(m + 1) -> Nat] /\ g[m + 1] = 0
        /\ \A k \in 1..m : g[k] = t[k] + g[k + 1]
    BY <1>3 DEF Sums, m
  <1>7. /\ h[n + m + 1] = 0
        /\ \A k \in 1..(n + m) : h[k] = st[k] + h[k + 1]
    BY <1>1, <1>4 DEF Sums
  <1> DEFINE P == { k \in 1..(m + 1) : h[n + k] = g[k] }
  <1>8. \A k \in 1..(m + 1) : k \in P
    <2>1. m + 1 \in P
      <3>1. m + 1 \in 1..(m + 1) /\ n + (m + 1) = n + m + 1
        BY <1>1
      <3> QED
        BY <1>6, <1>7, <3>1
    <2>2. ASSUME NEW k \in 1..m, k + 1 \in P PROVE k \in P
      <3>1. /\ k \in 1..(m + 1) /\ n + k \in 1..(n + m)
            /\ n + (k + 1) = (n + k) + 1
        BY <1>1
      <3>2. h[(n + k) + 1] = g[k + 1]
        BY <2>2, <3>1
      <3>3. h[n + k] = t[k] + g[k + 1]
        BY <1>1, <1>7, <3>1, <3>2
      <3> QED
        BY <1>6, <3>1, <3>3
    <2> HIDE DEF P
    <2> QED
      BY <1>1, <2>1, <2>2, Downward
  <1>9. h[n + 1] = g[1] /\ g[1] \in Nat
    <2>1. 1 \in 1..(m + 1)
      BY <1>1
    <2> QED
      BY <1>6, <1>8, <2>1
  <1> DEFINE Q == { k \in 1..(n + 1) : h[k] = f[k] + g[1] }
  <1>10. \A k \in 1..(n + 1) : k \in Q
    <2>1. n + 1 \in Q
      <3>1. n + 1 \in 1..(n + 1)
        BY <1>1
      <3> QED
        BY <1>5, <1>9, <3>1
    <2>2. ASSUME NEW k \in 1..n, k + 1 \in Q PROVE k \in Q
      <3>1. k \in 1..(n + 1) /\ k + 1 \in 1..(n + 1) /\ k \in 1..(n + m)
        BY <1>1
      <3>2. h[k] = s[k] + h[k + 1] /\ h[k + 1] = f[k + 1] + g[1]
        BY <1>1, <1>7, <2>2, <3>1
      <3>3. f[k] = s[k] + f[k + 1] /\ f[k + 1] \in Nat /\ s[k] \in Nat
        BY <1>1, <1>5, <3>1
      <3>4. h[k] = f[k] + g[1]
        BY <1>9, <3>2, <3>3
      <3> QED
        BY <3>1, <3>4
    <2> HIDE DEF Q
    <2> QED
      BY <1>1, <2>1, <2>2, Downward
  <1>11. 1 \in Q
    <2>1. 1 \in 1..(n + 1)
      BY <1>1
    <2> HIDE DEF Q
    <2> QED
      BY <1>10, <2>1
  <1> QED
    BY <1>2, <1>3, <1>4, <1>11 DEF st

-----------------------------------------------------------------------------
(* The lines of the list.                                                   *)

(* Texts of the model itself beside those of headers_out.                   *)
Texts ==
    STRING \cup Unlisted \cup DateSlot \cup {"Location", "Content-Length"}
    \cup {"Content-Range", None, "text", "number", "", "1", "whole", "part"}

HeaderRecords == [name : Texts, value : Texts, size : Nat, live : BOOLEAN]

LineRecords ==
    [name : Texts, value : Texts, charset : Texts, code : Nat, size : Nat]

(* The line of a header.                                                    *)
FieldOf(h) == Field(h.name, h.value, h.size + 2 + Crlf)

LEMMA ListLineTyped ==
  ASSUME NEW h \in HeaderRecords
  PROVE  FieldOf(h) \in LineRecords /\ ListLine(h) \in Seq(LineRecords)
  <1>1. /\ h.name \in Texts /\ h.value \in Texts /\ h.size \in Nat
        /\ None \in Texts /\ 0 \in Nat
    BY DEF HeaderRecords, Texts
  <1>2. FieldOf(h) \in LineRecords
    BY <1>1 DEF FieldOf, Field, LineRecords, Crlf
  <1> QED
    BY <1>2 DEF ListLine, FieldOf

IsListOf(f, s) ==
    f = [k \in 1..(Len(s) + 1) |->
            IF k = Len(s) + 1 THEN <<>> ELSE ListLine(s[k]) \o f[k + 1]]

(* What ListLines writes from each header on.                               *)
Lists(f, s) ==
    /\ f \in [1..(Len(s) + 1) -> Seq(LineRecords)] /\ f[Len(s) + 1] = <<>>
    /\ \A k \in 1..Len(s) : f[k] = ListLine(s[k]) \o f[k + 1]

LEMMA ListUnfolds ==
  ASSUME NEW s \in Seq(HeaderRecords)
  PROVE  \E f : Lists(f, s) /\ ListLines(s) = f[1]
  <1> DEFINE n == Len(s)
             F == [k \in 1..n |-> [v \in Seq(LineRecords) |-> ListLine(s[k]) \o v]]
  <1>1. n \in Nat /\ \A k \in 1..n : ListLine(s[k]) \in Seq(LineRecords)
    BY ListLineTyped
  <1>2. F \in [1..n -> [Seq(LineRecords) -> Seq(LineRecords)]]
    BY <1>1
  <1>3. \A k \in 1..n : \A v \in Seq(LineRecords) : F[k][v] = ListLine(s[k]) \o v
    OBVIOUS
  <1> HIDE DEF F
  <1>4. PICK g \in [1..(n + 1) -> Seq(LineRecords)] : Recurs(g, n, <<>>, F)
    <2>1. <<>> \in Seq(LineRecords)
      OBVIOUS
    <2> HIDE DEF n
    <2> QED
      BY <1>1, <1>2, <2>1, RecursionExists
  <1> HIDE DEF n
  <1>5. Lists(g, s)
    <2>1. ASSUME NEW k \in 1..n PROVE g[k] = ListLine(s[k]) \o g[k + 1]
      <3>1. g[k + 1] \in Seq(LineRecords)
        BY <1>1, <1>4
      <3> QED
        BY <1>3, <1>4, <3>1 DEF Recurs
    <2> QED
      BY <1>4, <2>1 DEF Lists, Recurs, n
  <1>6. IsListOf(g, s)
    <2> DEFINE e == [k \in 1..(n + 1) |->
                       IF k = n + 1 THEN <<>> ELSE ListLine(s[k]) \o g[k + 1]]
    <2>1. \A k \in 1..(n + 1) : k # n + 1 => k \in 1..n
      BY <1>1
    <2>2. \A k \in 1..(n + 1) : g[k] = e[k]
      BY <1>5, <2>1 DEF Lists, n
    <2>3. DOMAIN g = 1..(n + 1) /\ g = [k \in DOMAIN g |-> g[k]]
          /\ DOMAIN e = 1..(n + 1) /\ e = [k \in DOMAIN e |-> e[k]]
      BY <1>4
    <2> HIDE DEF e
    <2>4. g = e
      BY <2>2, <2>3
    <2> QED
      BY <2>4 DEF e, IsListOf, n
  <1> DEFINE f == CHOOSE f : IsListOf(f, s)
  <1>7. IsListOf(f, s)
    BY <1>6, Zenon
  <1>8. ListLines(s) = f[1]
    BY DEF ListLines, IsListOf
  <1> HIDE DEF f
  <1>9. /\ DOMAIN f = 1..(n + 1) /\ f = [k \in 1..(n + 1) |-> f[k]]
        /\ f[n + 1] = <<>> /\ \A k \in 1..n : f[k] = ListLine(s[k]) \o f[k + 1]
    <2>1. n + 1 \in 1..(n + 1) /\ \A k \in 1..n : k \in 1..(n + 1) /\ k # n + 1
      BY <1>1
    <2> QED
      BY <1>7, <2>1 DEF IsListOf, n
  <1> DEFINE P == { k \in 1..(n + 1) : f[k] \in Seq(LineRecords) }
  <1>10. \A k \in 1..(n + 1) : k \in P
    <2>1. n + 1 \in P
      <3>1. n + 1 \in 1..(n + 1) /\ <<>> \in Seq(LineRecords)
        BY <1>1
      <3> QED
        BY <1>9, <3>1
    <2>2. ASSUME NEW k \in 1..n, k + 1 \in P PROVE k \in P
      <3>1. f[k + 1] \in Seq(LineRecords) /\ ListLine(s[k]) \in Seq(LineRecords) /\ k \in 1..(n + 1)
        BY <1>1, <2>2
      <3>2. f[k] = ListLine(s[k]) \o f[k + 1]
        BY <1>9
      <3>3. f[k] \in Seq(LineRecords)
        BY <3>1, <3>2
      <3> QED
        BY <3>1, <3>3
    <2> HIDE DEF P
    <2> QED
      BY <1>1, <2>1, <2>2, Downward
  <1>11. Lists(f, s)
    BY <1>9, <1>10 DEF Lists, n
  <1> QED
    BY <1>8, <1>11

-----------------------------------------------------------------------------
(* What the lines of an entry are, and how many bytes they take.            *)

AllOf(ls) == { ls[i] : i \in 1..Len(ls) }

LEMMA AllOfBoth ==
  ASSUME NEW s \in Seq(LineRecords), NEW t \in Seq(LineRecords)
  PROVE  s \o t \in Seq(LineRecords) /\ AllOf(s \o t) = AllOf(s) \cup AllOf(t)
  <1> DEFINE st == s \o t  n == Len(s)  m == Len(t)
  <1>1. /\ st \in Seq(LineRecords) /\ Len(st) = n + m
        /\ n \in Nat /\ m \in Nat
        /\ \A k \in 1..n : st[k] = s[k]
        /\ \A k \in 1..m : st[n + k] = t[k]
    OBVIOUS
  <1> HIDE DEF st, n, m
  <1>2. \A k \in 1..(n + m) : k \in 1..n \/ (k - n \in 1..m /\ k = n + (k - n))
    BY <1>1
  <1>3. \A k \in 1..n : k \in 1..(n + m)
    BY <1>1
  <1>4. \A k \in 1..m : n + k \in 1..(n + m)
    BY <1>1
  <1>5. \A l \in AllOf(st) : l \in AllOf(s) \cup AllOf(t)
    <2>1. ASSUME NEW l \in AllOf(st) PROVE l \in AllOf(s) \cup AllOf(t)
      <3>1. PICK k \in 1..(n + m) : l = st[k]
        BY <1>1 DEF AllOf
      <3>2. CASE k \in 1..n
        BY <1>1, <3>1, <3>2 DEF AllOf, n
      <3>3. CASE k - n \in 1..m /\ k = n + (k - n)
        <4>1. l = t[k - n]
          BY <1>1, <3>1, <3>3
        <4> QED
          BY <3>3, <4>1 DEF AllOf, m
      <3> QED
        BY <1>2, <3>2, <3>3
    <2> QED
      BY <2>1
  <1>6. \A l \in AllOf(s) \cup AllOf(t) : l \in AllOf(st)
    <2>1. \A l \in AllOf(s) : l \in AllOf(st)
      BY <1>1, <1>3 DEF AllOf, n
    <2>2. \A l \in AllOf(t) : l \in AllOf(st)
      BY <1>1, <1>4 DEF AllOf, m
    <2> QED
      BY <2>1, <2>2
  <1> QED
    BY <1>1, <1>5, <1>6 DEF st

LEMMA AllOfFew ==
  AllOf(<<>>) = {} /\ \A l : AllOf(<<l>>) = {l}
  <1>1. Len(<<>>) = 0 /\ \A l : Len(<<l>>) = 1 /\ <<l>>[1] = l
    OBVIOUS
  <1>2. AllOf(<<>>) = {}
    BY <1>1 DEF AllOf
  <1>3. ASSUME NEW l PROVE AllOf(<<l>>) = {l}
    <2> DEFINE s == <<l>>
    <2>1. Len(s) = 1 /\ s[1] = l
      OBVIOUS
    <2> HIDE DEF s
    <2>2. 1..1 = {1}
      OBVIOUS
    <2> QED
      BY <2>1, <2>2 DEF AllOf, s
  <1> QED
    BY <1>2, <1>3

Sizes(ls) == [i \in DOMAIN ls |-> ls[i].size]

LEMMA SizesOf ==
  ASSUME NEW s \in Seq(LineRecords)
  PROVE  Sizes(s) \in Seq(Nat) /\ Len(Sizes(s)) = Len(s)
  <1>1. \A i \in 1..Len(s) : s[i].size \in Nat
    <2>1. \A i \in 1..Len(s) : s[i] \in LineRecords
      OBVIOUS
    <2>2. \A l \in LineRecords : l.size \in Nat
      BY DEF LineRecords
    <2> QED
      BY <2>1, <2>2
  <1>2. DOMAIN s = 1..Len(s) /\ Len(s) \in Nat
    OBVIOUS
  <1> DEFINE z == Sizes(s)
  <1>3. z = [i \in 1..Len(s) |-> s[i].size]
    BY <1>2 DEF Sizes
  <1> HIDE DEF z
  <1>4. z \in [1..Len(s) -> Nat]
    BY <1>1, <1>3
  <1>5. z \in Seq(Nat) /\ Len(z) = Len(s)
    BY <1>2, <1>4
  <1> QED
    BY <1>5 DEF z

LEMMA BytesOfBoth ==
  ASSUME NEW s \in Seq(LineRecords), NEW t \in Seq(LineRecords)
  PROVE  Bytes(s \o t) = Bytes(s) + Bytes(t)
  <1> DEFINE st == s \o t
  <1>1. /\ st \in Seq(LineRecords) /\ Len(st) = Len(s) + Len(t)
        /\ \A k \in 1..Len(s) : st[k] = s[k]
        /\ \A k \in 1..Len(t) : st[Len(s) + k] = t[k]
    OBVIOUS
  <1> HIDE DEF st
  <1>2. /\ Sizes(s) \in Seq(Nat) /\ Len(Sizes(s)) = Len(s)
        /\ Sizes(t) \in Seq(Nat) /\ Len(Sizes(t)) = Len(t)
        /\ Sizes(st) \in Seq(Nat) /\ Len(Sizes(st)) = Len(st)
    BY <1>1, SizesOf
  <1> DEFINE a == Sizes(s)  b == Sizes(t)  c == Sizes(st)
  <1>3. \A k \in 1..Len(s) : c[k] = a[k]
    <2>1. \A k \in 1..Len(s) : k \in 1..Len(st)
      BY <1>1
    <2> QED
      BY <1>1, <2>1 DEF Sizes
  <1>4. \A k \in 1..Len(t) : c[Len(s) + k] = b[k]
    <2>1. \A k \in 1..Len(t) : Len(s) + k \in 1..Len(st)
      BY <1>1
    <2> QED
      BY <1>1, <2>1 DEF Sizes
  <1>5. a \in Seq(Nat) /\ b \in Seq(Nat) /\ c \in Seq(Nat)
        /\ Len(c) = Len(a) + Len(b)
        /\ (\A k \in 1..Len(a) : c[k] = a[k])
        /\ \A k \in 1..Len(b) : c[Len(a) + k] = b[k]
    BY <1>1, <1>2, <1>3, <1>4
  <1> HIDE DEF a, b, c
  <1>6. c = a \o b
    <2> DEFINE d == a \o b
    <2>1. /\ d \in Seq(Nat) /\ Len(d) = Len(a) + Len(b)
          /\ \A k \in 1..(Len(a) + Len(b)) :
                 d[k] = IF k <= Len(a) THEN a[k] ELSE b[k - Len(a)]
      BY <1>5
    <2> HIDE DEF d
    <2>2. ASSUME NEW k \in 1..(Len(a) + Len(b)) PROVE c[k] = d[k]
      <3>1. CASE k <= Len(a)
        <4>1. k \in 1..Len(a)
          BY <3>1, <1>5
        <4> QED
          BY <1>5, <2>1, <3>1, <4>1
      <3>2. CASE ~(k <= Len(a))
        <4>1. k - Len(a) \in 1..Len(b) /\ Len(a) + (k - Len(a)) = k
          BY <3>2, <1>5
        <4> QED
          BY <1>5, <2>1, <3>2, <4>1
      <3> QED
        BY <3>1, <3>2
    <2>3. /\ c = [k \in 1..(Len(a) + Len(b)) |-> c[k]]
          /\ d = [k \in 1..(Len(a) + Len(b)) |-> d[k]]
      BY <1>5, <2>1
    <2> QED
      BY <2>2, <2>3 DEF d
  <1>7. Sum(c) = Sum(a) + Sum(b)
    BY <1>5, <1>6, SumOfBoth
  <1> QED
    BY <1>7 DEF Bytes, Sizes, a, b, c, st

LEMMA BytesOfFew ==
  /\ Bytes(<<>>) = 0
  /\ \A l \in LineRecords : Bytes(<<l>>) = l.size
  <1>1. Sizes(<<>>) = <<>>
    BY DEF Sizes
  <1>2. ASSUME NEW l \in LineRecords PROVE Sizes(<<l>>) = <<l.size>>
    <2> DEFINE s == <<l>>
    <2>1. s \in Seq(LineRecords) /\ Len(s) = 1 /\ s[1] = l /\ DOMAIN s = 1..1
      OBVIOUS
    <2> HIDE DEF s
    <2>2. Sizes(s) \in Seq(Nat) /\ Len(Sizes(s)) = 1
      BY <2>1, SizesOf
    <2> DEFINE z == Sizes(s)
    <2>3. z \in Seq(Nat) /\ Len(z) = 1 /\ z[1] = l.size
      <3>1. 1 \in DOMAIN s
        BY <2>1
      <3> QED
        BY <2>1, <2>2, <3>1 DEF Sizes
    <2> HIDE DEF z
    <2>4. z = <<l.size>>
      BY <2>3
    <2> QED
      BY <2>4 DEF z, s
  <1>3. \A l \in LineRecords : l.size \in Nat
    BY DEF LineRecords
  <1>4. Bytes(<<>>) = 0
    BY <1>1, SumOfFew DEF Bytes, Sizes
  <1>5. ASSUME NEW l \in LineRecords PROVE Bytes(<<l>>) = l.size
    <2>1. Bytes(<<l>>) = Sum(Sizes(<<l>>))
      BY DEF Bytes, Sizes
    <2> QED
      BY <1>2, <1>3, <2>1, SumOfFew
  <1> QED
    BY <1>4, <1>5

LEMMA ListLineFacts ==
  ASSUME NEW h \in HeaderRecords
  PROVE  /\ Bytes(ListLine(h)) = HeaderSize(h) /\ HeaderSize(h) \in Nat
         /\ AllOf(ListLine(h)) = IF WritesHeader(h) THEN {FieldOf(h)} ELSE {}
  <1>1. FieldOf(h) \in LineRecords /\ h.size \in Nat
    BY ListLineTyped DEF HeaderRecords
  <1>2. FieldOf(h).size = h.size + 2 + Crlf
    BY DEF FieldOf, Field
  <1>3. CASE WritesHeader(h)
    <2>1. ListLine(h) = <<FieldOf(h)>>
      BY <1>3 DEF ListLine, FieldOf
    <2>2. HeaderSize(h) = h.size + 2 + Crlf
      BY <1>3 DEF HeaderSize
    <2> QED
      BY <1>1, <1>2, <1>3, <2>1, <2>2, BytesOfFew, AllOfFew DEF Crlf
  <1>4. CASE ~WritesHeader(h)
    BY <1>4, BytesOfFew, AllOfFew DEF ListLine, HeaderSize
  <1> QED
    BY <1>3, <1>4

HeaderSizes(hs) == [i \in DOMAIN hs |-> HeaderSize(hs[i])]

LEMMA HeaderSizesOf ==
  ASSUME NEW hs \in Seq(HeaderRecords)
  PROVE  /\ HeaderSizes(hs) \in Seq(Nat) /\ Len(HeaderSizes(hs)) = Len(hs)
         /\ \A i \in 1..Len(hs) : HeaderSizes(hs)[i] = HeaderSize(hs[i])
  <1>1. DOMAIN hs = 1..Len(hs) /\ Len(hs) \in Nat
        /\ \A i \in 1..Len(hs) : hs[i] \in HeaderRecords
    OBVIOUS
  <1>2. \A i \in 1..Len(hs) : HeaderSize(hs[i]) \in Nat
    BY <1>1, ListLineFacts
  <1> DEFINE z == HeaderSizes(hs)
  <1>3. z = [i \in 1..Len(hs) |-> HeaderSize(hs[i])]
    BY <1>1 DEF HeaderSizes
  <1> HIDE DEF z
  <1>4. z \in [1..Len(hs) -> Nat]
    BY <1>2, <1>3
  <1>5. z \in Seq(Nat) /\ Len(z) = Len(hs)
    BY <1>1, <1>4
  <1> QED
    BY <1>3, <1>5 DEF z

(* The lines of a list are those of its headers that are written, and take  *)
(* the bytes that were counted for them.                                    *)
LEMMA ListFacts ==
  ASSUME NEW hs \in Seq(HeaderRecords)
  PROVE  /\ ListLines(hs) \in Seq(LineRecords)
         /\ Bytes(ListLines(hs)) = Sum(HeaderSizes(hs))
         /\ Sum(HeaderSizes(hs)) \in Nat
         /\ \A l : l \in AllOf(ListLines(hs)) <=>
                \E i \in 1..Len(hs) : WritesHeader(hs[i]) /\ l = FieldOf(hs[i])
  <1> DEFINE n == Len(hs)  z == HeaderSizes(hs)
  <1>1. n \in Nat /\ \A i \in 1..n : hs[i] \in HeaderRecords
    OBVIOUS
  <1>2. z \in Seq(Nat) /\ Len(z) = n /\ \A i \in 1..n : z[i] = HeaderSize(hs[i])
    BY HeaderSizesOf
  <1> HIDE DEF z
  <1>3. PICK f : Lists(f, hs) /\ ListLines(hs) = f[1]
    BY ListUnfolds
  <1>4. PICK g : Sums(g, z) /\ Sum(z) = g[1]
    BY <1>2, SumUnfolds
  <1> HIDE DEF n
  <1>5. /\ f \in [1..(n + 1) -> Seq(LineRecords)] /\ f[n + 1] = <<>>
        /\ \A k \in 1..n : f[k] = ListLine(hs[k]) \o f[k + 1]
    BY <1>3 DEF Lists, n
  <1>6. /\ g \in [1..(n + 1) -> Nat] /\ g[n + 1] = 0
        /\ \A k \in 1..n : g[k] = HeaderSize(hs[k]) + g[k + 1]
    BY <1>2, <1>4 DEF Sums
  <1>7. /\ 1 \in 1..(n + 1) /\ n + 1 \in 1..(n + 1)
        /\ \A k \in 1..n : k \in 1..(n + 1) /\ k + 1 \in 1..(n + 1)
    BY <1>1
  <1>8. ASSUME NEW k \in 1..n
        PROVE  /\ ListLine(hs[k]) \in Seq(LineRecords)
               /\ f[k + 1] \in Seq(LineRecords)
               /\ f[k] = ListLine(hs[k]) \o f[k + 1]
               /\ Bytes(f[k]) = HeaderSize(hs[k]) + Bytes(f[k + 1])
               /\ AllOf(f[k]) = AllOf(ListLine(hs[k])) \cup AllOf(f[k + 1])
    <2>1. ListLine(hs[k]) \in Seq(LineRecords)
      BY <1>1, ListLineTyped
    <2>2. f[k + 1] \in Seq(LineRecords) /\ f[k] = ListLine(hs[k]) \o f[k + 1]
      BY <1>5, <1>7
    <2>3. Bytes(f[k]) = HeaderSize(hs[k]) + Bytes(f[k + 1])
      BY <1>1, <2>1, <2>2, BytesOfBoth, ListLineFacts
    <2>4. AllOf(f[k]) = AllOf(ListLine(hs[k])) \cup AllOf(f[k + 1])
      BY <2>1, <2>2, AllOfBoth
    <2> QED
      BY <2>1, <2>2, <2>3, <2>4
  <1> DEFINE P == { k \in 1..(n + 1) : Bytes(f[k]) = g[k] }
  <1>9. \A k \in 1..(n + 1) : k \in P
    <2>1. n + 1 \in P
      BY <1>5, <1>6, <1>7, BytesOfFew
    <2>2. ASSUME NEW k \in 1..n, k + 1 \in P PROVE k \in P
      <3>1. Bytes(f[k + 1]) = g[k + 1]
        BY <2>2
      <3>2. Bytes(f[k]) = g[k]
        BY <1>6, <1>8, <3>1
      <3> QED
        BY <1>7, <3>2
    <2> HIDE DEF P
    <2> QED
      BY <1>1, <2>1, <2>2, Downward
  <1> DEFINE From(k, l) ==
                 \E i \in k..n : WritesHeader(hs[i]) /\ l = FieldOf(hs[i])
             Q == { k \in 1..(n + 1) : \A l : l \in AllOf(f[k]) <=> From(k, l) }
  <1>10. \A k \in 1..(n + 1) : k \in Q
    <2>1. n + 1 \in Q
      <3>1. \A l : l \notin AllOf(f[n + 1])
        BY <1>5, AllOfFew
      <3>2. \A i : i \notin (n + 1)..n
        BY <1>1
      <3> QED
        BY <1>7, <3>1, <3>2
    <2>2. ASSUME NEW k \in 1..n, k + 1 \in Q PROVE k \in Q
      <3>1. \A l : l \in AllOf(f[k + 1]) <=> From(k + 1, l)
        BY <2>2
      <3>2. \A l : l \in AllOf(ListLine(hs[k])) <=>
                       WritesHeader(hs[k]) /\ l = FieldOf(hs[k])
        BY <1>1, ListLineFacts
      <3>3. \A i : i \in k..n <=> i = k \/ i \in (k + 1)..n
        BY <1>1
      <3>4. ASSUME NEW l PROVE l \in AllOf(f[k]) <=> From(k, l)
        <4>1. From(k, l) <=> \/ WritesHeader(hs[k]) /\ l = FieldOf(hs[k])
                             \/ From(k + 1, l)
          BY <3>3
        <4> QED
          BY <1>8, <3>1, <3>2, <4>1
      <3> QED
        BY <1>7, <3>4
    <2> HIDE DEF Q
    <2> QED
      BY <1>1, <2>1, <2>2, Downward
  <1>11. /\ f[1] \in Seq(LineRecords) /\ Bytes(f[1]) = g[1] /\ g[1] \in Nat
         /\ \A l : l \in AllOf(f[1]) <=> From(1, l)
    <2>1. 1 \in P /\ 1 \in Q
      BY <1>7, <1>9, <1>10
    <2> QED
      BY <1>5, <1>6, <1>7, <2>1
  <1> QED
    BY <1>3, <1>4, <1>11 DEF z, n

-----------------------------------------------------------------------------
(* An entry as a whole.                                                     *)

OutRecords ==
    [status : Nat, own_text : Nat, content_type : Texts,
     sole_type : BOOLEAN, charset : Texts, last_modified_time : Texts,
     slots : SUBSET Texts, allow_ranges : BOOLEAN,
     headers : Seq(HeaderRecords), content_length_n : Texts, cut : BOOLEAN,
     body : {"whole", "part"}]

(* The line of the status.                                                  *)
LEMMA StatusLineFacts ==
  ASSUME NEW o \in OutRecords
  PROVE  LET l == StatusLine(o) IN
         /\ l \in LineRecords /\ l.name = "status" /\ l.code = o.status
         /\ l.value = None => o.status \in NullText
         /\ StatusSize(o) \in Nat
         /\ HasText(o) => l.size = 9 + Crlf + StatusSize(o)
  <1> DEFINE l == StatusLine(o)
             text == o.own_text # 0 \/ InTable(o.status)
             value == IF ~text THEN "number"
                      ELSE IF StatusSize(o) = 0 THEN None ELSE "text"
             size == 9 + Crlf + (IF text THEN StatusSize(o) ELSE Digits(o.status))
  <1>1. o.status \in Nat /\ o.own_text \in Nat /\ TextSize \in Nat \ {0}
    BY SizesAssumption DEF OutRecords
  <1>2. StatusSize(o) \in Nat
    BY <1>1 DEF StatusSize, TableText, NgxIntTLen
  <1>3. value \in Texts /\ size \in Nat /\ None \in Texts /\ "status" \in Texts
    BY <1>1, <1>2 DEF Texts, Unlisted, Tags, Crlf, Digits
  <1>4. value = None => text /\ StatusSize(o) = 0
    BY DEF None
  <1>5. text /\ StatusSize(o) = 0 => o.status \in NullText
    BY <1>1 DEF StatusSize, TableText
  <1>6. l = [name |-> "status", value |-> value, charset |-> None,
             code |-> o.status, size |-> size]
    BY DEF StatusLine, Field
  <1> HIDE DEF l, value, size
  <1>7. l \in LineRecords
    BY <1>1, <1>3, <1>6 DEF LineRecords
  <1>8. HasText(o) => size = 9 + Crlf + StatusSize(o)
    BY DEF HasText, size
  <1>9. l.name = "status" /\ l.code = o.status /\ l.value = value /\ l.size = size
    BY <1>6
  <1> QED
    BY <1>2, <1>4, <1>5, <1>7, <1>8, <1>9 DEF l

LEMMA OneOrNone ==
  ASSUME NEW c \in BOOLEAN, NEW l \in LineRecords,
         NEW s, s = IF c THEN <<l>> ELSE <<>>
  PROVE  /\ s \in Seq(LineRecords)
         /\ Bytes(s) = IF c THEN l.size ELSE 0
         /\ AllOf(s) = IF c THEN {l} ELSE {}
  <1>1. CASE c
    <2>1. <<l>> \in Seq(LineRecords)
      OBVIOUS
    <2> QED
      BY <1>1, <2>1, BytesOfFew, AllOfFew
  <1>2. CASE ~c
    <2>1. <<>> \in Seq(LineRecords)
      OBVIOUS
    <2> QED
      BY <1>2, <2>1, BytesOfFew, AllOfFew
  <1> QED
    BY <1>1, <1>2

(* The lines between the first and the last.                                *)
LEMMA FieldLines ==
  ASSUME NEW o \in OutRecords
  PROVE  /\ TypeLine(o) \in Seq(LineRecords)
         /\ Bytes(TypeLine(o)) = TypeLineSize(o)
         /\ AllOf(TypeLine(o)) # {} <=> WritesType(o)
         /\ \A l \in AllOf(TypeLine(o)) :
                /\ l.name = "Content-Type" /\ l.value = o.content_type
                /\ l.charset = o.charset
         /\ DateLine(o) \in Seq(LineRecords)
         /\ Bytes(DateLine(o)) = IF WritesDate(o) THEN 15 + DateSize + 2 ELSE 0
         /\ AllOf(DateLine(o)) # {} <=> WritesDate(o)
         /\ \A l \in AllOf(DateLine(o)) :
                l.name = "Last-Modified" /\ l.value = o.last_modified_time
         /\ RangesLine(o) \in Seq(LineRecords)
         /\ Bytes(RangesLine(o)) = IF o.allow_ranges THEN 25 + 2 ELSE 0
         /\ AllOf(RangesLine(o)) # {} <=> o.allow_ranges
         /\ \A l \in AllOf(RangesLine(o)) : l.name = "X-SRCache-Allow-Ranges"
  <1>1. /\ o.content_type \in Texts /\ o.charset \in Texts
        /\ o.last_modified_time \in Texts
        /\ {"Content-Type", "Last-Modified", "X-SRCache-Allow-Ranges", "1",
            None} \subseteq Texts
    BY DEF OutRecords, Texts, Unlisted, DateSlot
  <1> DEFINE t == [name |-> "Content-Type", value |-> o.content_type,
                   charset |-> o.charset, code |-> 0,
                   size |-> 14 + TypeLength(o)
                            + (IF WritesCharset(o) THEN CharsetSize ELSE 0) + Crlf]
             d == [name |-> "Last-Modified", value |-> o.last_modified_time,
                   charset |-> None, code |-> 0, size |-> 15 + DateSize + Crlf]
             r == [name |-> "X-SRCache-Allow-Ranges", value |-> "1",
                   charset |-> None, code |-> 0, size |-> 25 + Crlf]
  <1>2. t \in LineRecords /\ d \in LineRecords /\ r \in LineRecords
    BY <1>1 DEF LineRecords, TypeLength, TypeSize, CharsetSize, DateSize, Crlf
  <1>3. /\ TypeLine(o) = IF WritesType(o) THEN <<t>> ELSE <<>>
        /\ DateLine(o) = IF WritesDate(o) THEN <<d>> ELSE <<>>
        /\ RangesLine(o) = IF o.allow_ranges THEN <<r>> ELSE <<>>
    BY DEF TypeLine, DateLine, RangesLine, Field
  <1>4. /\ t.size = 14 + TypeLength(o) + 2
                    + (IF WritesCharset(o) THEN CharsetSize ELSE 0)
        /\ d.size = 15 + DateSize + 2 /\ r.size = 25 + 2
    BY DEF Crlf, TypeLength, TypeSize, CharsetSize, DateSize
  <1>5. /\ t.name = "Content-Type" /\ t.value = o.content_type
        /\ t.charset = o.charset
        /\ d.name = "Last-Modified" /\ d.value = o.last_modified_time
        /\ r.name = "X-SRCache-Allow-Ranges"
    OBVIOUS
  <1> HIDE DEF t, d, r
  <1>6. /\ TypeLine(o) \in Seq(LineRecords)
        /\ Bytes(TypeLine(o)) = TypeLineSize(o)
        /\ AllOf(TypeLine(o)) = IF WritesType(o) THEN {t} ELSE {}
    <2>1. WritesType(o) \in BOOLEAN
      BY DEF WritesType
    <2>2. /\ TypeLine(o) \in Seq(LineRecords)
          /\ Bytes(TypeLine(o)) = IF WritesType(o) THEN t.size ELSE 0
          /\ AllOf(TypeLine(o)) = IF WritesType(o) THEN {t} ELSE {}
      BY <1>2, <1>3, <2>1, OneOrNone
    <2> QED
      BY <1>4, <2>2 DEF TypeLineSize
  <1>7. /\ DateLine(o) \in Seq(LineRecords)
        /\ Bytes(DateLine(o)) = IF WritesDate(o) THEN 15 + DateSize + 2 ELSE 0
        /\ AllOf(DateLine(o)) = IF WritesDate(o) THEN {d} ELSE {}
    <2>1. WritesDate(o) \in BOOLEAN
      BY DEF WritesDate
    <2>2. /\ DateLine(o) \in Seq(LineRecords)
          /\ Bytes(DateLine(o)) = IF WritesDate(o) THEN d.size ELSE 0
          /\ AllOf(DateLine(o)) = IF WritesDate(o) THEN {d} ELSE {}
      BY <1>2, <1>3, <2>1, OneOrNone
    <2> QED
      BY <1>4, <2>2
  <1>8. /\ RangesLine(o) \in Seq(LineRecords)
        /\ Bytes(RangesLine(o)) = IF o.allow_ranges THEN 25 + 2 ELSE 0
        /\ AllOf(RangesLine(o)) = IF o.allow_ranges THEN {r} ELSE {}
    <2>1. o.allow_ranges \in BOOLEAN
      BY DEF OutRecords
    <2>2. /\ RangesLine(o) \in Seq(LineRecords)
          /\ Bytes(RangesLine(o)) = IF o.allow_ranges THEN r.size ELSE 0
          /\ AllOf(RangesLine(o)) = IF o.allow_ranges THEN {r} ELSE {}
      BY <1>2, <1>3, <2>1, OneOrNone
    <2> QED
      BY <1>4, <2>2
  <1> QED
    BY <1>5, <1>6, <1>7, <1>8

(* The lines of an entry in their order.                                    *)
EndLine == Field("end", "", Crlf)

LEMMA MiddleFacts ==
  ASSUME NEW o \in OutRecords
  PROVE  /\ Middle(o) \in Seq(LineRecords)
         /\ Bytes(Middle(o)) = Bytes(TypeLine(o)) + Bytes(DateLine(o))
                + Bytes(RangesLine(o)) + Bytes(ListLines(o.headers))
         /\ AllOf(Middle(o)) = AllOf(TypeLine(o)) \cup AllOf(DateLine(o))
                \cup AllOf(RangesLine(o)) \cup AllOf(ListLines(o.headers))
  <1> DEFINE t == TypeLine(o)  d == DateLine(o)  r == RangesLine(o)
             l == ListLines(o.headers)
  <1>1. /\ t \in Seq(LineRecords) /\ d \in Seq(LineRecords)
        /\ r \in Seq(LineRecords) /\ l \in Seq(LineRecords)
    BY FieldLines, ListFacts DEF OutRecords
  <1>2. Middle(o) = ((t \o d) \o r) \o l
    BY DEF Middle
  <1> HIDE DEF t, d, r, l
  <1>3. /\ t \o d \in Seq(LineRecords) /\ Bytes(t \o d) = Bytes(t) + Bytes(d)
        /\ AllOf(t \o d) = AllOf(t) \cup AllOf(d)
    BY <1>1, BytesOfBoth, AllOfBoth
  <1> DEFINE td == t \o d
  <1> HIDE DEF td
  <1>4. /\ td \in Seq(LineRecords) /\ Bytes(td) = Bytes(t) + Bytes(d)
        /\ AllOf(td) = AllOf(t) \cup AllOf(d)
    BY <1>3 DEF td
  <1>5. /\ td \o r \in Seq(LineRecords) /\ Bytes(td \o r) = Bytes(td) + Bytes(r)
        /\ AllOf(td \o r) = AllOf(td) \cup AllOf(r)
    BY <1>1, <1>4, BytesOfBoth, AllOfBoth
  <1> DEFINE tdr == td \o r
  <1> HIDE DEF tdr
  <1>6. /\ tdr \in Seq(LineRecords) /\ Bytes(tdr) = Bytes(td) + Bytes(r)
        /\ AllOf(tdr) = AllOf(td) \cup AllOf(r)
    BY <1>5 DEF tdr
  <1>7. /\ tdr \o l \in Seq(LineRecords) /\ Bytes(tdr \o l) = Bytes(tdr) + Bytes(l)
        /\ AllOf(tdr \o l) = AllOf(tdr) \cup AllOf(l)
    BY <1>1, <1>6, BytesOfBoth, AllOfBoth
  <1>8. Middle(o) = tdr \o l
    BY <1>2 DEF td, tdr
  <1> QED
    BY <1>4, <1>6, <1>7, <1>8 DEF t, d, r, l

LEMMA EndLineTyped ==
  EndLine \in LineRecords /\ EndLine.name = "end" /\ EndLine.size = Crlf
  <1>1. EndLine = [name |-> "end", value |-> "", charset |-> None, code |-> 0,
                size |-> Crlf]
    BY DEF EndLine, Field
  <1>2. {"end", "", None} \subseteq Texts /\ Crlf \in Nat
    BY DEF Texts, Unlisted, Tags, Crlf
  <1> QED
    BY <1>1, <1>2 DEF LineRecords

LEMMA SecondPassFacts ==
  ASSUME NEW o \in OutRecords
  PROVE  LET ls == SecondPass(o)  n == Len(Middle(o)) + 2 IN
         /\ ls \in Seq(LineRecords) /\ Len(ls) = n /\ n \in Nat /\ n >= 2
         /\ ls[1] = StatusLine(o) /\ ls[n] = EndLine
         /\ \A i \in 2..(n - 1) : ls[i] \in AllOf(Middle(o))
         /\ \A l \in AllOf(Middle(o)) : \E i \in 2..(n - 1) : ls[i] = l
         /\ Bytes(ls) = StatusLine(o).size + Bytes(Middle(o)) + Crlf
  <1> DEFINE a == StatusLine(o)  m == Middle(o)  b == EndLine
             ls == SecondPass(o)  n == Len(m) + 2
  <1>1. a \in LineRecords /\ m \in Seq(LineRecords) /\ b \in LineRecords
        /\ b.size = Crlf
    BY StatusLineFacts, MiddleFacts, EndLineTyped
  <1>2. ls = (<<a>> \o m) \o <<b>>
    BY DEF SecondPass, EndLine
  <1> HIDE DEF a, m, b
  <1>3. \A x, y \in LineRecords : \A s \in Seq(LineRecords) :
           LET z == (<<x>> \o s) \o <<y>> IN
           /\ z \in Seq(LineRecords) /\ Len(z) = Len(s) + 2 /\ Len(s) \in Nat
           /\ z[1] = x /\ z[Len(s) + 2] = y
           /\ \A i \in 1..Len(s) : z[i + 1] = s[i]
    OBVIOUS
  <1> HIDE DEF ls
  <1>4. /\ ls \in Seq(LineRecords) /\ Len(ls) = n /\ Len(m) \in Nat
        /\ ls[1] = a /\ ls[n] = b /\ \A i \in 1..Len(m) : ls[i + 1] = m[i]
    BY <1>1, <1>2, <1>3
  <1>5. \A i \in 2..(n - 1) : ls[i] \in AllOf(m)
    <2>1. ASSUME NEW i \in 2..(n - 1) PROVE ls[i] \in AllOf(m)
      <3>1. i - 1 \in 1..Len(m) /\ (i - 1) + 1 = i
        BY <1>4
      <3>2. ls[i] = m[i - 1]
        BY <1>4, <3>1
      <3> QED
        BY <3>1, <3>2 DEF AllOf
    <2> QED
      BY <2>1
  <1>6. \A l \in AllOf(m) : \E i \in 2..(n - 1) : ls[i] = l
    <2>1. ASSUME NEW l \in AllOf(m) PROVE \E i \in 2..(n - 1) : ls[i] = l
      <3>1. PICK i \in 1..Len(m) : l = m[i]
        BY DEF AllOf
      <3>2. i + 1 \in 2..(n - 1) /\ ls[i + 1] = m[i]
        BY <1>4
      <3> QED
        BY <3>1, <3>2
    <2> QED
      BY <2>1
  <1>7. Bytes(ls) = a.size + Bytes(m) + Crlf
    <2> DEFINE x == <<a>>  y == <<b>>
    <2>1. x \in Seq(LineRecords) /\ y \in Seq(LineRecords)
      BY <1>1
    <2>2. Bytes(x) = a.size /\ Bytes(y) = Crlf
      BY <1>1, BytesOfFew
    <2> HIDE DEF x, y
    <2>3. x \o m \in Seq(LineRecords) /\ Bytes(x \o m) = Bytes(x) + Bytes(m)
      BY <1>1, <2>1, AllOfBoth, BytesOfBoth
    <2> DEFINE xm == x \o m
    <2> HIDE DEF xm
    <2>4. Bytes(xm \o y) = Bytes(xm) + Bytes(y)
      BY <2>1, <2>3, BytesOfBoth DEF xm
    <2>5. ls = xm \o y
      BY <1>2 DEF xm, x, y
    <2> QED
      BY <2>2, <2>3, <2>4, <2>5 DEF xm
  <1>8. n \in Nat /\ n >= 2
    BY <1>4
  <1> QED
    BY <1>4, <1>5, <1>6, <1>7, <1>8 DEF a, m, b, ls

(* What the first pass counts is what the second writes, if the status has  *)
(* a text.                                                                  *)
LEMMA PassesAgree ==
  ASSUME NEW o \in OutRecords, HasText(o)
  PROVE  Bytes(SecondPass(o)) = FirstPass(o)
  <1>1. o.headers \in Seq(HeaderRecords)
    BY DEF OutRecords
  <1>2. Bytes(SecondPass(o)) = StatusLine(o).size + Bytes(Middle(o)) + Crlf
    BY SecondPassFacts
  <1>3. StatusLine(o).size = 9 + Crlf + StatusSize(o) /\ StatusSize(o) \in Nat
    BY StatusLineFacts
  <1>4. Bytes(ListLines(o.headers)) = Sum(HeaderSizes(o.headers))
        /\ Sum(HeaderSizes(o.headers)) \in Nat
    BY <1>1, ListFacts
  <1> DEFINE t == TypeLineSize(o)
             d == IF WritesDate(o) THEN 15 + DateSize + 2 ELSE 0
             r == IF o.allow_ranges THEN 25 + 2 ELSE 0
             h == Sum(HeaderSizes(o.headers))
  <1>5. Bytes(Middle(o)) = t + d + r + h
    BY <1>4, MiddleFacts, FieldLines
  <1>6. t \in Nat /\ d \in Nat /\ r \in Nat /\ h \in Nat
    BY <1>4 DEF TypeLineSize, TypeLength, TypeSize, CharsetSize, DateSize
  <1>7. FirstPass(o) = 9 + Crlf + Crlf + StatusSize(o) + t + d + r + h
    BY DEF FirstPass, HeaderSizes
  <1> HIDE DEF t, d, r, h
  <1> QED
    BY <1>2, <1>3, <1>5, <1>6, <1>7 DEF Crlf

-----------------------------------------------------------------------------
(* The invariant.                                                           *)

EntryTyped ==
    /\ phase \in {"passing", "refused", "taken", "stored", "replaying",
                  "invalid", "hit"}
    /\ conf \in Confs /\ out \in OutRecords
    /\ at \in Nat \ {0} /\ lines \in Seq(LineRecords)

(* What the lines of an entry before one let a client see.                  *)
ShownBy(l) ==
    IF l.name \in Ignored \cup {"status", "end"} THEN {}
    ELSE IF l.name = "Content-Type"
    THEN {Item("Content-Type", l.value), Item("charset", l.charset)}
    ELSE IF l.name \in AllowRangesLine THEN {Item("Accept-Ranges", "bytes")}
    ELSE {Item(l.name, l.value)}

ShownBefore(ls, k) == UNION { ShownBy(ls[i]) : i \in 1..(k - 1) }

GoodLines(ls) ==
    /\ Len(ls) >= 2
    /\ \A i \in 1..Len(ls) :
           /\ ls[i].name = "status" <=> i = 1
           /\ ls[i].name = "end" <=> i = Len(ls)
           /\ ls[i].name # "charset"
           /\ ls[i].name \in conf.hide_headers_hash =>
                  ls[i].name \in AllowRangesLine \cup Unflagged
    /\ ls[1].value = None => ls[1].code \in NullText

OneType(ls) ==
    \A i \in 1..Len(ls) : ls[i].name = "Content-Type" =>
        /\ ls[i].value # None
        /\ \A j \in 1..Len(ls) : ls[j].name = "Content-Type" =>
               ls[j].value = ls[i].value /\ ls[j].charset = ls[i].charset

LengthsAre(ls, length) ==
    \A i \in 1..Len(ls) :
        ls[i].name = "Content-Length" => ls[i].value = length

PassingOK == phase = "passing" => at = 1 /\ out \in Responses

RefusedOK == phase = "refused" => ~HasText(out)

LinesOK ==
    phase \in {"taken", "stored", "replaying", "invalid", "hit"} =>
        GoodLines(lines) /\ OneType(lines)

(* What a client sees but for its status, which the range filter changes,   *)
(* is what the lines say.                                                   *)
Says(ls, shown, status) ==
    \A x : x.name \notin Exempt(status) \cup {"status"} =>
        (x \in shown <=> x \in ShownBefore(ls, Len(ls) + 1))

TakenOK ==
    phase = "taken" =>
        /\ at = 1
        /\ \/ lines[1].code = out.status
           \/ lines[1].code = 200 /\ out.status = 206
        /\ \A i \in DOMAIN out.headers : out.headers[i].name \notin Tags
        /\ Says(lines, Shown(out), out.status)
        /\ out.status # 206 => LengthsAre(lines, out.body)

StoredOK ==
    phase \in {"stored", "replaying", "invalid", "hit"} =>
        /\ phase = "stored" => at = 1
        /\ \A x : x.name = "status" =>
               (x \in seen <=> x = Item("status", ToString(lines[1].code)))
        /\ Says(lines, seen, lines[1].code)
        /\ lines[1].code # 206 => LengthsAre(lines, out.body)

InvalidOK == phase = "invalid" => lines[1].value = None

(* Of the header of a hit: what was said of the length is yet to be counted.*)
SaysSoFar(o, k) ==
    \A x : x.name \notin {"status", "Content-Length"} =>
        (x \in Shown(o) <=> x \in ShownBefore(lines, k))

HeadersOK(o) ==
    \A i \in DOMAIN o.headers :
        LET h == o.headers[i] IN
        /\ h.live /\ h.name \notin Tags \cup AllowRangesLine
        /\ \E j \in 1..Len(lines) :
               lines[j].name = h.name /\ lines[j].value = h.value
        /\ h.name = "Content-Length" => "Content-Length" \in o.slots

TypeOfLine(o) ==
    o.content_type # None =>
        \E i \in 1..Len(lines) :
            /\ lines[i].name = "Content-Type"
            /\ lines[i].value = o.content_type /\ lines[i].charset = o.charset

DateInList(o) == o.last_modified_time = None \/ "Last-Modified" \in o.slots

ReplayOK ==
    phase \in {"replaying", "hit"} =>
        /\ at \in 1..Len(lines)
        /\ at > 1 => out.status = lines[1].code
        /\ SaysSoFar(out, at)
        /\ HeadersOK(out) /\ TypeOfLine(out) /\ DateInList(out)

HitOK == phase = "hit" => at = Len(lines) /\ out.content_length_n = out.body

EntryInv ==
    /\ EntryTyped /\ PassingOK /\ RefusedOK /\ LinesOK /\ TakenOK /\ StoredOK
    /\ InvalidOK /\ ReplayOK /\ HitOK

-----------------------------------------------------------------------------
(* What the constants are.                                                  *)

LEMMA ResponseFacts ==
  ASSUME NEW o \in Responses
  PROVE  /\ o \in OutRecords
         /\ \A i \in DOMAIN o.headers :
                /\ o.headers[i].name \notin Unlisted
                /\ o.headers[i].live /\ o.headers[i].name = "Content-Length"
                       => o.headers[i].value = o.body
  <1>1. o \in HeadersOut
    BY ResponsesAssumption
  <1>2. Headers \subseteq HeaderRecords
    BY DEF Headers, HeaderRecords, Texts
  <1>3. \A s \in Seq(Headers) : s \in Seq(HeaderRecords)
    BY <1>2
  <1>4. STRING \subseteq Texts /\ SUBSET STRING \subseteq SUBSET Texts
        /\ {"whole", "part", None} \subseteq Texts
    BY DEF Texts
  <1>5. o \in OutRecords
    BY <1>1, <1>3, <1>4 DEF HeadersOut, OutRecords
  <1> QED
    BY <1>5, ResponsesAssumption

LEMMA ConfFacts ==
  ASSUME conf \in Confs
  PROVE  /\ conf.hide_headers_hash \cap Tags = {}
         /\ conf.hide_content_type \in BOOLEAN
         /\ conf.hide_last_modified \in BOOLEAN
         /\ conf.hide_content_type => "Content-Type" \in conf.hide_headers_hash
         /\ conf.hide_last_modified => "Last-Modified" \in conf.hide_headers_hash
  BY ConfsAssumption DEF ConfRecords

LEMMA StaleDateFacts ==
  ASSUME NEW o \in OutRecords
  PROVE  LET w == WithoutStaleDate(o) IN
         /\ w \in OutRecords /\ w.headers = o.headers /\ w.body = o.body
         /\ w.status = o.status
  <1>1. None \in Texts
    BY DEF Texts
  <1> QED
    BY <1>1 DEF WithoutStaleDate, OutRecords

-----------------------------------------------------------------------------
(* What an entry says.                                                      *)

(* A header that the list of headers_out may hold.                          *)
Sound(o) ==
    \A i \in DOMAIN o.headers :
        /\ o.headers[i].name \notin Unlisted
        /\ o.headers[i].live /\ o.headers[i].name = "Content-Length"
               => o.headers[i].value = o.body

LEMMA MiddleLines ==
  ASSUME NEW o \in OutRecords, NEW l \in AllOf(Middle(o))
  PROVE  \/ /\ WritesType(o) /\ l.name = "Content-Type"
            /\ l.value = o.content_type /\ l.charset = o.charset
         \/ /\ WritesDate(o) /\ l.name = "Last-Modified"
            /\ l.value = o.last_modified_time
         \/ o.allow_ranges /\ l.name = "X-SRCache-Allow-Ranges"
         \/ \E i \in DOMAIN o.headers :
                /\ WritesHeader(o.headers[i])
                /\ l.name = o.headers[i].name /\ l.value = o.headers[i].value
  <1>1. o.headers \in Seq(HeaderRecords)
    BY DEF OutRecords
  <1>2. CASE l \in AllOf(TypeLine(o))
    BY <1>2, FieldLines
  <1>3. CASE l \in AllOf(DateLine(o))
    BY <1>3, FieldLines
  <1>4. CASE l \in AllOf(RangesLine(o))
    BY <1>4, FieldLines
  <1>5. CASE l \in AllOf(ListLines(o.headers))
    <2>1. PICK i \in 1..Len(o.headers) :
              WritesHeader(o.headers[i]) /\ l = FieldOf(o.headers[i])
      BY <1>1, <1>5, ListFacts
    <2>2. l.name = o.headers[i].name /\ l.value = o.headers[i].value
      BY <2>1 DEF FieldOf, Field
    <2>3. i \in DOMAIN o.headers
      BY <1>1
    <2> QED
      BY <2>1, <2>2, <2>3
  <1> QED
    BY <1>2, <1>3, <1>4, <1>5, MiddleFacts

LEMMA MiddleNames ==
  ASSUME conf \in Confs, NEW o \in OutRecords, Sound(o),
         NEW l \in AllOf(Middle(o))
  PROVE  /\ l.name \notin Tags
         /\ l.name \in conf.hide_headers_hash =>
                l.name \in AllowRangesLine \cup Unflagged
         /\ l.name = "Content-Length" => l.value = o.body
         /\ l.name = "Content-Type" =>
                /\ l.value = o.content_type /\ l.charset = o.charset
                /\ o.content_type # None
  <1>1. CASE /\ WritesType(o) /\ l.name = "Content-Type"
             /\ l.value = o.content_type /\ l.charset = o.charset
    BY <1>1 DEF WritesType, Tags, Unflagged
  <1>2. CASE WritesDate(o) /\ l.name = "Last-Modified"
    BY <1>2 DEF WritesDate, Tags, Unflagged
  <1>3. CASE o.allow_ranges /\ l.name = "X-SRCache-Allow-Ranges"
    BY <1>3 DEF Tags, AllowRangesLine
  <1>4. CASE \E i \in DOMAIN o.headers :
                /\ WritesHeader(o.headers[i])
                /\ l.name = o.headers[i].name /\ l.value = o.headers[i].value
    BY <1>4 DEF Sound, WritesHeader, Unlisted
  <1> QED
    BY <1>1, <1>2, <1>3, <1>4, MiddleLines

LEMMA EntryIsGood ==
  ASSUME conf \in Confs, NEW o \in OutRecords, Sound(o)
  PROVE  /\ GoodLines(SecondPass(o)) /\ OneType(SecondPass(o))
         /\ LengthsAre(SecondPass(o), o.body)
         /\ SecondPass(o)[1].code = o.status
  <1> DEFINE ls == SecondPass(o)  n == Len(Middle(o)) + 2
  <1>1. /\ ls \in Seq(LineRecords) /\ Len(ls) = n /\ n \in Nat /\ n >= 2
        /\ ls[1] = StatusLine(o) /\ ls[n] = EndLine
        /\ \A i \in 2..(n - 1) : ls[i] \in AllOf(Middle(o))
    BY SecondPassFacts
  <1> HIDE DEF ls, n
  <1>2. ls[1].name = "status" /\ ls[1].code = o.status
        /\ (ls[1].value = None => ls[1].code \in NullText)
    BY <1>1, StatusLineFacts
  <1>3. ls[n].name = "end"
    BY <1>1, EndLineTyped
  <1>4. \A i \in 1..n : i = 1 \/ i = n \/ i \in 2..(n - 1)
    BY <1>1
  <1>5. \A i \in 2..(n - 1) : i # 1 /\ i # n
    BY <1>1
  <1>6. "status" \notin conf.hide_headers_hash
        /\ "end" \notin conf.hide_headers_hash
    BY ConfFacts DEF Tags
  <1>7. ASSUME NEW i \in 1..n
        PROVE  /\ ls[i].name = "status" <=> i = 1
               /\ ls[i].name = "end" <=> i = n
               /\ ls[i].name # "charset"
               /\ ls[i].name \in conf.hide_headers_hash =>
                      ls[i].name \in AllowRangesLine \cup Unflagged
               /\ ls[i].name = "Content-Length" => ls[i].value = o.body
               /\ ls[i].name = "Content-Type" =>
                      /\ ls[i].value = o.content_type
                      /\ ls[i].charset = o.charset /\ o.content_type # None
    <2>1. CASE i = 1
      BY <1>1, <1>2, <1>6, <2>1
    <2>2. CASE i = n
      BY <1>1, <1>3, <1>6, <2>2
    <2>3. CASE i \in 2..(n - 1)
      <3>1. ls[i] \in AllOf(Middle(o))
        BY <1>1, <2>3
      <3> QED
        BY <1>5, <2>3, <3>1, MiddleNames DEF Tags
    <2> QED
      BY <1>4, <2>1, <2>2, <2>3
  <1>8. GoodLines(ls)
    BY <1>1, <1>2, <1>7 DEF GoodLines
  <1>9. OneType(ls)
    BY <1>1, <1>7 DEF OneType
  <1>10. LengthsAre(ls, o.body)
    BY <1>1, <1>7 DEF LengthsAre
  <1> QED
    BY <1>2, <1>8, <1>9, <1>10 DEF ls

(* What the lines between the first and the last show.                      *)
LEMMA EntryShows ==
  ASSUME NEW o \in OutRecords, NEW x
  PROVE  x \in ShownBefore(SecondPass(o), Len(SecondPass(o)) + 1) <=>
             \E l \in AllOf(Middle(o)) : x \in ShownBy(l)
  <1> DEFINE ls == SecondPass(o)  n == Len(Middle(o)) + 2
  <1>1. /\ ls \in Seq(LineRecords) /\ Len(ls) = n /\ n \in Nat /\ n >= 2
        /\ ls[1] = StatusLine(o) /\ ls[n] = EndLine
        /\ \A i \in 2..(n - 1) : ls[i] \in AllOf(Middle(o))
        /\ \A l \in AllOf(Middle(o)) : \E i \in 2..(n - 1) : ls[i] = l
    BY SecondPassFacts
  <1> HIDE DEF ls, n
  <1>2. ShownBy(ls[1]) = {} /\ ShownBy(ls[n]) = {}
    BY <1>1, StatusLineFacts, EndLineTyped DEF ShownBy
  <1>3. \A i \in 1..n : i = 1 \/ i = n \/ i \in 2..(n - 1)
    BY <1>1
  <1>4. \A i \in 2..(n - 1) : i \in 1..n
    BY <1>1
  <1>5. (n + 1) - 1 = n
    BY <1>1
  <1>6. x \in ShownBefore(ls, n + 1) <=> \E i \in 1..n : x \in ShownBy(ls[i])
    BY <1>5 DEF ShownBefore
  <1>7. ASSUME NEW i \in 1..n, x \in ShownBy(ls[i])
        PROVE  \E l \in AllOf(Middle(o)) : x \in ShownBy(l)
    BY <1>1, <1>2, <1>3, <1>7
  <1>8. ASSUME NEW l \in AllOf(Middle(o)), x \in ShownBy(l)
        PROVE  \E i \in 1..n : x \in ShownBy(ls[i])
    BY <1>1, <1>4, <1>8
  <1>9. x \in ShownBefore(ls, n + 1) <=>
            \E l \in AllOf(Middle(o)) : x \in ShownBy(l)
    BY <1>6, <1>7, <1>8
  <1> QED
    BY <1>1, <1>9 DEF ls

LEMMA EntrySays ==
  ASSUME conf \in Confs, NEW o \in OutRecords, Sound(o), NEW status
  PROVE  Says(SecondPass(o), Shown(o), status)
  <1> SUFFICES ASSUME NEW x, x.name \notin Exempt(status) \cup {"status"}
               PROVE  x \in Shown(o) <=>
                          \E l \in AllOf(Middle(o)) : x \in ShownBy(l)
    BY EntryShows DEF Says
  <1>1. /\ x.name \notin conf.hide_headers_hash /\ x.name \notin Ignored
        /\ x.name # "Content-Length" /\ x.name # "status"
        /\ conf.hide_content_type => x.name # "charset"
    BY DEF Exempt
  <1>2. o.headers \in Seq(HeaderRecords)
    BY DEF OutRecords
  <1>3. DOMAIN o.headers = 1..Len(o.headers)
    BY <1>2
  <1>4. ASSUME NEW l \in AllOf(Middle(o)), x \in ShownBy(l)
        PROVE  x \in Shown(o)
    <2>1. CASE /\ WritesType(o) /\ l.name = "Content-Type"
               /\ l.value = o.content_type /\ l.charset = o.charset
      <3>1. x \in {Item("Content-Type", o.content_type),
                   Item("charset", o.charset)}
        BY <1>4, <2>1 DEF ShownBy, Ignored
      <3> QED
        BY <2>1, <3>1 DEF WritesType, Shown, ShownType
    <2>2. CASE /\ WritesDate(o) /\ l.name = "Last-Modified"
               /\ l.value = o.last_modified_time
      <3>1. x = Item("Last-Modified", o.last_modified_time)
        BY <1>4, <2>2 DEF ShownBy, Ignored, AllowRangesLine
      <3> QED
        BY <2>2, <3>1 DEF WritesDate, Shown, ShownDate
    <2>3. CASE o.allow_ranges /\ l.name = "X-SRCache-Allow-Ranges"
      <3>1. x = Item("Accept-Ranges", "bytes")
        BY <1>4, <2>3 DEF ShownBy, Ignored, AllowRangesLine
      <3> QED
        BY <2>3, <3>1 DEF Shown, ShownRanges
    <2>4. CASE \E i \in DOMAIN o.headers :
                  /\ WritesHeader(o.headers[i])
                  /\ l.name = o.headers[i].name /\ l.value = o.headers[i].value
      <3>1. PICK i \in DOMAIN o.headers :
                  /\ WritesHeader(o.headers[i])
                  /\ l.name = o.headers[i].name /\ l.value = o.headers[i].value
        BY <2>4
      <3>2. l.name \notin Unlisted
        BY <3>1 DEF Sound
      <3>3. x = Item(l.name, l.value)
        BY <1>4, <3>2 DEF ShownBy, AllowRangesLine, Unlisted
      <3>4. x \in ShownList(o.headers)
        BY <3>1, <3>3 DEF ShownList, WritesHeader
      <3> QED
        BY <3>4 DEF Shown
    <2> QED
      BY <2>1, <2>2, <2>3, <2>4, MiddleLines
  <1>5. ASSUME x \in Shown(o)
        PROVE  \E l \in AllOf(Middle(o)) : x \in ShownBy(l)
    <2>1. x # Item("status", ToString(o.status)) /\ x \notin ShownLength(o)
      BY <1>1 DEF Item, ShownLength
    <2>2. CASE x \in ShownType(o)
      <3>1. /\ o.content_type # None
            /\ x \in {Item("Content-Type", o.content_type),
                      Item("charset", o.charset)}
        BY <2>2 DEF ShownType
      <3>2. WritesType(o)
        BY <1>1, <3>1, ConfFacts DEF WritesType, Item
      <3>3. PICK l \in AllOf(TypeLine(o)) :
                /\ l.name = "Content-Type" /\ l.value = o.content_type
                /\ l.charset = o.charset
        BY <3>2, FieldLines
      <3>4. x \in ShownBy(l)
        BY <3>1, <3>3 DEF ShownBy, Ignored
      <3> QED
        BY <3>3, <3>4, MiddleFacts
    <2>3. CASE x \in ShownDate(o)
      <3>1. /\ o.last_modified_time # None /\ "Last-Modified" \notin o.slots
            /\ x = Item("Last-Modified", o.last_modified_time)
        BY <2>3 DEF ShownDate
      <3>2. WritesDate(o)
        BY <1>1, <3>1, ConfFacts DEF WritesDate, Item
      <3>3. PICK l \in AllOf(DateLine(o)) :
                l.name = "Last-Modified" /\ l.value = o.last_modified_time
        BY <3>2, FieldLines
      <3>4. x \in ShownBy(l)
        BY <3>1, <3>3 DEF ShownBy, Ignored, AllowRangesLine
      <3> QED
        BY <3>3, <3>4, MiddleFacts
    <2>4. CASE x \in ShownRanges(o)
      <3>1. o.allow_ranges /\ x = Item("Accept-Ranges", "bytes")
        BY <2>4 DEF ShownRanges
      <3>2. PICK l \in AllOf(RangesLine(o)) : l.name = "X-SRCache-Allow-Ranges"
        BY <3>1, FieldLines
      <3>3. x \in ShownBy(l)
        BY <3>1, <3>2 DEF ShownBy, Ignored, AllowRangesLine
      <3> QED
        BY <3>2, <3>3, MiddleFacts
    <2>5. CASE x \in ShownList(o.headers)
      <3>1. PICK i \in DOMAIN o.headers :
                /\ o.headers[i].live
                /\ x = Item(o.headers[i].name, o.headers[i].value)
        BY <2>5 DEF ShownList
      <3>2. x.name = o.headers[i].name
        BY <3>1 DEF Item
      <3>3. WritesHeader(o.headers[i])
        BY <1>1, <3>1, <3>2 DEF WritesHeader
      <3> DEFINE l == FieldOf(o.headers[i])
      <3>4. l \in AllOf(ListLines(o.headers))
        BY <1>2, <1>3, <3>3, ListFacts
      <3>5. l.name = o.headers[i].name /\ l.value = o.headers[i].value
        BY DEF FieldOf, Field
      <3> HIDE DEF l
      <3>6. l.name \notin Unlisted /\ l.name \notin Ignored
        BY <1>1, <3>2, <3>5 DEF Sound
      <3>7. ShownBy(l) = {Item(l.name, l.value)}
        BY <3>6 DEF ShownBy, Unlisted, Tags, AllowRangesLine
      <3> QED
        BY <3>1, <3>4, <3>5, <3>7, MiddleFacts
    <2> QED
      BY <1>5, <2>1, <2>2, <2>3, <2>4, <2>5 DEF Shown
  <1> QED
    BY <1>4, <1>5

-----------------------------------------------------------------------------
(* How a response is stored.                                                *)

LEMMA EntryInitially == EntryInit => EntryInv
  <1> SUFFICES ASSUME EntryInit PROVE EntryInv
    OBVIOUS
  <1>1. out \in OutRecords
    BY ResponseFacts DEF EntryInit
  <1>2. <<>> \in Seq(LineRecords)
    OBVIOUS
  <1> QED
    BY <1>1, <1>2 DEF EntryInit, EntryInv, EntryTyped, PassingOK, RefusedOK,
       LinesOK, TakenOK, StoredOK, InvalidOK, ReplayOK, HitOK

LEMMA StoreHeaderKeeps ==
  ASSUME EntryInv, StoreHeader
  PROVE  EntryInv'
  <1>1. /\ EntryTyped /\ PassingOK /\ phase = "passing"
    BY DEF EntryInv, StoreHeader
  <1>2. /\ at = 1 /\ out \in Responses /\ conf \in Confs
    BY <1>1 DEF PassingOK, EntryTyped
  <1> DEFINE o == WithoutStaleDate(out)
  <1>3. /\ out' = o /\ conf' = conf /\ at' = at
        /\ lines' = SecondPass(o)
        /\ len' = FirstPass(o)
        /\ phase' = IF Bytes(lines') = len' THEN "taken" ELSE "refused"
    BY DEF StoreHeader
  <1>4. o \in OutRecords /\ o.headers = out.headers /\ o.body = out.body
    BY <1>2, ResponseFacts, StaleDateFacts
  <1>5. Sound(o)
    BY <1>2, <1>4, ResponseFacts DEF Sound
  <1> HIDE DEF o
  <1> DEFINE ls == SecondPass(o)
  <1>6. /\ GoodLines(ls) /\ OneType(ls) /\ LengthsAre(ls, o.body)
        /\ ls[1].code = o.status /\ ls \in Seq(LineRecords)
    BY <1>2, <1>4, <1>5, EntryIsGood, SecondPassFacts
  <1>7. Says(ls, Shown(o), o.status)
    BY <1>2, <1>4, <1>5, EntrySays
  <1>8. \A i \in DOMAIN o.headers : o.headers[i].name \notin Tags
    BY <1>5 DEF Sound, Unlisted
  <1>9. phase' = "refused" => ~HasText(o)
    BY <1>3, <1>4, PassesAgree
  <1> HIDE DEF ls
  <1>10. lines' = ls
    BY <1>3 DEF ls
  <1>11. phase' \in {"taken", "refused"}
    BY <1>3
  <1>12. EntryTyped'
    BY <1>1, <1>3, <1>4, <1>6, <1>10, <1>11 DEF EntryTyped
  <1>13. RefusedOK'
    BY <1>3, <1>9 DEF RefusedOK
  <1>14. LinesOK'
    BY <1>3, <1>6, <1>10 DEF LinesOK, GoodLines, OneType, Unflagged
  <1>15. TakenOK'
    <2>1. LengthsAre(lines, out.body)'
      BY <1>3, <1>6, <1>10 DEF LengthsAre
    <2>2. Says(lines, Shown(out), out.status)'
      BY <1>3, <1>7, <1>10 DEF Says, Exempt
    <2> QED
      BY <1>2, <1>3, <1>6, <1>8, <1>10, <2>1, <2>2 DEF TakenOK
  <1> QED
    BY <1>11, <1>12, <1>13, <1>14, <1>15 DEF EntryInv, PassingOK, StoredOK,
       InvalidOK, ReplayOK, HitOK

(* Without the numbers and texts, which would hold the provers up.          *)
LEMMA OutEdited ==
  ASSUME NEW o \in OutRecords, NEW code \in Nat, NEW b \in {"whole", "part"},
         NEW t \in Texts, NEW ss \in SUBSET Texts,
         NEW hs \in Seq(HeaderRecords)
  PROVE  [o EXCEPT !.status = code, !.cut = FALSE, !.body = b,
                   !.allow_ranges = FALSE, !.content_length_n = t,
                   !.slots = ss, !.headers = hs] \in OutRecords
  BY DEF OutRecords

(* The range filter changes what lines are not asked for.                   *)
LEMMA RangeFilterKeeps ==
  ASSUME EntryInv, RangeFilter
  PROVE  EntryInv'
  <1>1. /\ EntryTyped /\ LinesOK /\ TakenOK /\ phase = "taken"
        /\ out.status = 200
    BY DEF EntryInv, RangeFilter
  <1>2. /\ phase' = phase /\ conf' = conf /\ lines' = lines /\ at' = at
    BY DEF RangeFilter
  <1> DEFINE hs == WithoutLength(out.headers)
  <1>3. out \in OutRecords /\ out.headers \in Seq(HeaderRecords)
    BY <1>1 DEF EntryTyped, OutRecords
  <1>4. ContentRange \in HeaderRecords /\ ContentRange.name = "Content-Range"
        /\ ContentRange.live = TRUE
    BY DEF ContentRange, HeaderRecords, Texts
  <1>5. /\ hs \in Seq(HeaderRecords) /\ Len(hs) = Len(out.headers)
        /\ DOMAIN hs = DOMAIN out.headers
        /\ \A i \in DOMAIN out.headers :
               /\ hs[i].name = out.headers[i].name
               /\ hs[i].value = out.headers[i].value
               /\ hs[i].live = (out.headers[i].live
                                /\ out.headers[i].name # "Content-Length")
    <2> DEFINE s == out.headers  n == Len(out.headers)
    <2>1. DOMAIN s = 1..n /\ n \in Nat /\ \A i \in 1..n : s[i] \in HeaderRecords
      BY <1>3
    <2> HIDE DEF n
    <2>2. \A i \in 1..n :
              LET h == [s[i] EXCEPT !.live = @ /\ s[i].name # "Content-Length"] IN
              /\ h \in HeaderRecords /\ h.name = s[i].name
              /\ h.value = s[i].value
              /\ h.live = (s[i].live /\ s[i].name # "Content-Length")
      BY <2>1 DEF HeaderRecords
    <2>3. hs = [i \in 1..n |->
                  [s[i] EXCEPT !.live = @ /\ s[i].name # "Content-Length"]]
      BY <2>1 DEF WithoutLength
    <2> HIDE DEF s, hs
    <2>4. hs \in [1..n -> HeaderRecords]
      BY <2>2, <2>3
    <2>5. hs \in Seq(HeaderRecords) /\ Len(hs) = n /\ DOMAIN hs = 1..n
      BY <2>1, <2>4
    <2>6. \A i \in 1..n : /\ hs[i].name = s[i].name /\ hs[i].value = s[i].value
                          /\ hs[i].live = (s[i].live
                                           /\ s[i].name # "Content-Length")
      BY <2>2, <2>3
    <2> QED
      BY <2>1, <2>5, <2>6 DEF s, n
  <1> HIDE DEF hs
  <1> DEFINE all == Append(hs, ContentRange)
  <1>6. /\ all \in Seq(HeaderRecords) /\ DOMAIN all = 1..(Len(hs) + 1)
        /\ DOMAIN hs = 1..Len(hs) /\ Len(hs) \in Nat
        /\ all[Len(hs) + 1] = ContentRange
        /\ \A i \in 1..Len(hs) : all[i] = hs[i]
    BY <1>4, <1>5
  <1> HIDE DEF all
  <1>7. /\ out' \in OutRecords /\ out'.status = 206 /\ out'.headers = all
        /\ out'.content_type = out.content_type /\ out'.charset = out.charset
        /\ out'.last_modified_time = out.last_modified_time
        /\ out'.slots = out.slots \ {"Content-Length"}
        /\ out'.allow_ranges = FALSE
    <2>1. out' = [out EXCEPT
           !.status = 206, !.cut = FALSE, !.body = "part",
           !.allow_ranges = FALSE, !.content_length_n = "part",
           !.slots = @ \ {"Content-Length"}, !.headers = all]
      BY DEF RangeFilter, all, hs
    <2> DEFINE slots == out.slots \ {"Content-Length"}
    <2>2. "part" \in Texts /\ slots \in SUBSET Texts
      BY <1>3 DEF OutRecords, Texts
    <2> HIDE DEF slots
    <2>3. out' = [out EXCEPT
           !.status = 206, !.cut = FALSE, !.body = "part",
           !.allow_ranges = FALSE, !.content_length_n = "part",
           !.slots = slots, !.headers = all]
      BY <1>3, <2>1 DEF OutRecords, slots
    <2>4. out' \in OutRecords
      <3>1. PICK code \in Nat, part \in {"whole", "part"} :
                code = 206 /\ part = "part"
        OBVIOUS
      <3>2. part \in Texts
        BY <2>2, <3>1
      <3>3. [out EXCEPT
               !.status = code, !.cut = FALSE, !.body = part,
               !.allow_ranges = FALSE, !.content_length_n = part,
               !.slots = slots, !.headers = all] \in OutRecords
        BY <1>3, <1>6, <2>2, <3>2, OutEdited
      <3>4. out' = [out EXCEPT
               !.status = code, !.cut = FALSE, !.body = part,
               !.allow_ranges = FALSE, !.content_length_n = part,
               !.slots = slots, !.headers = all]
        BY <2>3, <3>1, Zenon
      <3> QED
        BY <3>3, <3>4, Zenon
    <2> QED
      BY <1>3, <2>3, <2>4 DEF OutRecords, slots
  <1>8. \A i \in DOMAIN all : \/ i = Len(hs) + 1 /\ all[i] = ContentRange
                              \/ i \in DOMAIN out.headers /\ all[i] = hs[i]
    BY <1>5, <1>6
  <1>9. \A i \in DOMAIN out.headers : i \in DOMAIN all /\ all[i] = hs[i]
    BY <1>5, <1>6
  <1>10. ASSUME NEW x, x.name # "Content-Length", x.name # "Content-Range"
         PROVE  x \in ShownList(all) <=> x \in ShownList(out.headers)
    <2>1. ASSUME x \in ShownList(all) PROVE x \in ShownList(out.headers)
      <3>1. PICK i \in DOMAIN all :
                all[i].live /\ x = Item(all[i].name, all[i].value)
        BY <2>1 DEF ShownList
      <3>2. all[i].name # "Content-Range"
        BY <1>10, <3>1 DEF Item
      <3>3. i \in DOMAIN out.headers /\ all[i] = hs[i]
        BY <1>4, <1>8, <3>1, <3>2
      <3> QED
        BY <1>5, <3>1, <3>3 DEF ShownList
    <2>2. ASSUME x \in ShownList(out.headers) PROVE x \in ShownList(all)
      <3>1. PICK i \in DOMAIN out.headers :
                /\ out.headers[i].live
                /\ x = Item(out.headers[i].name, out.headers[i].value)
        BY <2>2 DEF ShownList
      <3>2. out.headers[i].name # "Content-Length"
        BY <1>10, <3>1 DEF Item
      <3>3. i \in DOMAIN all /\ all[i].live
            /\ x = Item(all[i].name, all[i].value)
        BY <1>5, <1>9, <3>1, <3>2
      <3> QED
        BY <3>3 DEF ShownList
    <2> QED
      BY <2>1, <2>2
  <1>11. ASSUME NEW x, x.name \notin Exempt(206) \cup {"status"}
         PROVE  x \in Shown(out') <=> x \in Shown(out)
    <2>1. /\ x.name # "Content-Length" /\ x.name # "Content-Range"
          /\ x.name # "Accept-Ranges" /\ x.name # "status"
      BY <1>11 DEF Exempt
    <2>2. \A o : x \in Shown(o) <=>
              x \in ShownList(o.headers) \cup ShownType(o) \cup ShownDate(o)
      BY <2>1 DEF Shown, ShownRanges, ShownLength, Item
    <2>3. ShownType(out') = ShownType(out) /\ ShownDate(out') = ShownDate(out)
      BY <1>7 DEF ShownType, ShownDate
    <2> QED
      BY <1>7, <1>10, <2>1, <2>2, <2>3
  <1>12. Says(lines, Shown(out'), 206)
    <2>1. Says(lines, Shown(out), 200)
      BY <1>1 DEF TakenOK
    <2>2. Exempt(200) \subseteq Exempt(206)
      BY DEF Exempt
    <2> QED
      BY <1>11, <2>1, <2>2 DEF Says
  <1>13. TakenOK'
    <2>1. \A i \in DOMAIN all : all[i].name \notin Tags
      BY <1>1, <1>4, <1>5, <1>8 DEF TakenOK, Tags
    <2>2. Says(lines, Shown(out), out.status)'
      BY <1>2, <1>7, <1>12 DEF Says, Exempt
    <2> QED
      BY <1>1, <1>2, <1>7, <2>1, <2>2 DEF TakenOK
  <1>14. LinesOK'
    BY <1>1, <1>2 DEF LinesOK, GoodLines, OneType, Unflagged
  <1>15. EntryTyped'
    BY <1>1, <1>2, <1>7 DEF EntryTyped
  <1> QED
    BY <1>1, <1>2, <1>13, <1>14, <1>15 DEF EntryInv, PassingOK, RefusedOK,
       StoredOK, InvalidOK, ReplayOK, HitOK

(* The status that nginx sends is shown once.                               *)
LEMMA StatusIsShown ==
  ASSUME NEW o, \A i \in DOMAIN o.headers : o.headers[i].name \notin Tags,
         NEW x, x.name = "status"
  PROVE  x \in Shown(o) <=> x = Item("status", ToString(o.status))
  <1>1. x \notin ShownList(o.headers)
    BY DEF ShownList, Item, Tags
  <1>2. /\ x \notin ShownType(o) /\ x \notin ShownDate(o)
        /\ x \notin ShownRanges(o) /\ x \notin ShownLength(o)
    BY DEF ShownType, ShownDate, ShownRanges, ShownLength, Item
  <1> QED
    BY <1>1, <1>2 DEF Shown

LEMMA StoreBodyKeeps ==
  ASSUME EntryInv, StoreBody
  PROVE  EntryInv'
  <1>1. EntryTyped /\ LinesOK /\ TakenOK /\ phase = "taken"
    BY DEF EntryInv, StoreBody
  <1>2. /\ phase' = "stored" /\ conf' = conf /\ out' = out /\ at' = at
        /\ seen' = Shown(out)
        /\ lines' = IF CutDown THEN [lines EXCEPT ![1].code = 206] ELSE lines
    BY DEF StoreBody
  <1>3. GoodLines(lines) /\ OneType(lines) /\ lines \in Seq(LineRecords)
    BY <1>1 DEF LinesOK, EntryTyped
  <1>4. 1 \in 1..Len(lines) /\ lines[1] \in LineRecords /\ Len(lines) \in Nat
    BY <1>3 DEF GoodLines
  <1>5. /\ lines' \in Seq(LineRecords) /\ Len(lines') = Len(lines)
        /\ \A i \in 1..Len(lines) :
               /\ lines'[i].name = lines[i].name
               /\ lines'[i].value = lines[i].value
               /\ lines'[i].charset = lines[i].charset
        /\ lines'[1].code = IF CutDown THEN 206 ELSE lines[1].code
    <2>1. CASE CutDown
      <3> DEFINE l == [lines[1] EXCEPT !.code = 206]
      <3>1. /\ l \in LineRecords /\ l.name = lines[1].name
            /\ l.value = lines[1].value /\ l.charset = lines[1].charset
            /\ l.code = 206
        BY <1>4 DEF LineRecords
      <3>2. lines' = [lines EXCEPT ![1] = l]
        BY <1>2, <2>1
      <3> HIDE DEF l
      <3>3. /\ lines' \in Seq(LineRecords) /\ Len(lines') = Len(lines)
            /\ lines'[1] = l
            /\ \A i \in 1..Len(lines) : i # 1 => lines'[i] = lines[i]
        BY <1>3, <1>4, <3>1, <3>2
      <3> QED
        BY <2>1, <3>1, <3>3
    <2>2. CASE ~CutDown
      BY <1>2, <1>3, <2>2
    <2> QED
      BY <2>1, <2>2
  <1>6. lines'[1].code = out.status
    BY <1>1, <1>5 DEF TakenOK, CutDown
  <1>7. GoodLines(lines)'
    <2>1. lines'[1].value = None => lines'[1].code \in NullText
      <3>1. CASE CutDown
        <4>1. lines[1].code = 200
          BY <3>1 DEF CutDown
        <4>2. lines[1].value # None
          BY <1>3, <4>1 DEF GoodLines, NullText
        <4> QED
          BY <1>4, <1>5, <4>2
      <3>2. CASE ~CutDown
        BY <1>3, <1>4, <1>5, <3>2 DEF GoodLines
      <3> QED
        BY <3>1, <3>2
    <2> QED
      BY <1>2, <1>3, <1>5, <2>1 DEF GoodLines, Unflagged
  <1>8. OneType(lines)'
    BY <1>3, <1>5 DEF OneType
  <1>9. \A x : x \in ShownBefore(lines', Len(lines) + 1) <=>
                   x \in ShownBefore(lines, Len(lines) + 1)
    <2>1. (Len(lines) + 1) - 1 = Len(lines)
      BY <1>4
    <2>2. \A i \in 1..Len(lines) : ShownBy(lines'[i]) = ShownBy(lines[i])
      BY <1>5 DEF ShownBy
    <2>3. ASSUME NEW ls, NEW x
          PROVE  x \in ShownBefore(ls, Len(lines) + 1) <=>
                     \E i \in 1..Len(lines) : x \in ShownBy(ls[i])
      BY <2>1 DEF ShownBefore
    <2> QED
      BY <2>2, <2>3
  <1>10. Says(lines', Shown(out), out.status)
    BY <1>1, <1>5, <1>9 DEF TakenOK, Says
  <1>11. StoredOK'
    <2>1. at' = 1
      BY <1>1, <1>2 DEF TakenOK
    <2>2. ASSUME NEW x, x.name = "status"
          PROVE  x \in seen' <=> x = Item("status", ToString(lines'[1].code))
      BY <1>1, <1>2, <1>6, <2>2, StatusIsShown DEF TakenOK
    <2>3. Says(lines, seen, lines[1].code)'
      <3>1. Says(lines', seen', lines'[1].code)
        BY <1>2, <1>6, <1>10
      <3> QED
        BY <1>2, <3>1 DEF Says, Exempt
    <2>4. lines'[1].code # 206 => LengthsAre(lines, out.body)'
      <3>1. lines'[1].code # 206 => LengthsAre(lines, out.body)
        BY <1>1, <1>6 DEF TakenOK
      <3> QED
        BY <1>2, <1>5, <3>1 DEF LengthsAre
    <2> QED
      BY <1>2, <2>1, <2>2, <2>3, <2>4 DEF StoredOK
  <1>12. LinesOK'
    BY <1>7, <1>8 DEF LinesOK
  <1>13. EntryTyped'
    BY <1>1, <1>2, <1>5 DEF EntryTyped
  <1> QED
    BY <1>2, <1>11, <1>12, <1>13 DEF EntryInv, PassingOK, RefusedOK, TakenOK,
       InvalidOK, ReplayOK, HitOK

-----------------------------------------------------------------------------
(* How an entry is replayed.                                                *)

LEMMA ShownBeforeNext ==
  ASSUME NEW ls, NEW k \in Nat \ {0}
  PROVE  ShownBefore(ls, k + 1) = ShownBefore(ls, k) \cup ShownBy(ls[k])
  <1>1. (k + 1) - 1 = k /\ \A i : i \in 1..k <=> i = k \/ i \in 1..(k - 1)
    OBVIOUS
  <1>2. ASSUME NEW x
        PROVE  x \in ShownBefore(ls, k + 1) <=>
                   x \in ShownBefore(ls, k) \cup ShownBy(ls[k])
    <2>1. x \in ShownBefore(ls, k + 1) <=>
              \E i \in 1..k : x \in ShownBy(ls[i])
      BY <1>1 DEF ShownBefore
    <2>2. x \in ShownBefore(ls, k) <=>
              \E i \in 1..(k - 1) : x \in ShownBy(ls[i])
      BY DEF ShownBefore
    <2> QED
      BY <1>1, <2>1, <2>2
  <1> QED
    BY <1>2

LEMMA FetchKeeps ==
  ASSUME EntryInv, Fetch
  PROVE  EntryInv'
  <1>1. EntryTyped /\ LinesOK /\ StoredOK /\ phase = "stored"
    BY DEF EntryInv, Fetch
  <1>2. /\ phase' = "replaying" /\ conf' = conf /\ lines' = lines /\ at' = at
        /\ seen' = seen /\ out' = [Blank EXCEPT !.body = out.body]
    BY DEF Fetch
  <1>3. /\ out'.status = 0 /\ out'.content_type = None
        /\ out'.last_modified_time = None
        /\ out'.allow_ranges = FALSE /\ out'.headers = <<>>
        /\ out'.content_length_n = None /\ out'.body = out.body
    BY <1>2 DEF Blank
  <1>4. out' \in OutRecords
    <2>1. None \in Texts /\ <<>> \in Seq(HeaderRecords) /\ {} \in SUBSET Texts
      BY DEF Texts
    <2>2. out.body \in {"whole", "part"}
      BY <1>1 DEF EntryTyped, OutRecords
    <2> QED
      BY <1>2, <2>1, <2>2 DEF Blank, OutRecords
  <1>5. at = 1 /\ GoodLines(lines) /\ OneType(lines)
    BY <1>1 DEF LinesOK, StoredOK
  <1>6. 1 \in 1..Len(lines)
    BY <1>1, <1>5 DEF GoodLines, EntryTyped
  <1>7. \A x : x \notin ShownBefore(lines, 1)
    BY DEF ShownBefore
  <1>8. \A x : x.name # "status" => x \notin Shown(out')
    BY <1>3 DEF Shown, ShownList, ShownType, ShownDate, ShownRanges,
       ShownLength, Item
  <1>9. ReplayOK'
    <2>1. SaysSoFar(out, at)'
      BY <1>2, <1>5, <1>7, <1>8 DEF SaysSoFar
    <2>2. (HeadersOK(out) /\ TypeOfLine(out) /\ DateInList(out))'
      BY <1>3 DEF HeadersOK, TypeOfLine, DateInList
    <2> QED
      BY <1>2, <1>5, <1>6, <2>1, <2>2 DEF ReplayOK
  <1>10. StoredOK'
    BY <1>1, <1>2, <1>3 DEF StoredOK, Says, Exempt, LengthsAre
  <1>11. LinesOK'
    BY <1>2, <1>5 DEF LinesOK, GoodLines, OneType, Unflagged
  <1>12. EntryTyped'
    BY <1>1, <1>2, <1>4 DEF EntryTyped
  <1> QED
    BY <1>2, <1>9, <1>10, <1>11, <1>12 DEF EntryInv, PassingOK, RefusedOK,
       TakenOK, InvalidOK, HitOK

(* What a replayed line makes of headers_out.                               *)
Adds(o, l) ==
    /\ o \in OutRecords /\ o.body = out.body
    /\ IF at = 1 THEN o.status = l.code ELSE o.status = out.status
    /\ \A x : x.name \notin {"status", "Content-Length"} =>
           (x \in Shown(o) <=> x \in Shown(out) \/ x \in ShownBy(l))
    /\ HeadersOK(o) /\ TypeOfLine(o) /\ DateInList(o)

LEMMA ReplayFacts ==
  ASSUME EntryInv, phase = "replaying"
  PROVE  /\ EntryTyped /\ LinesOK /\ StoredOK /\ ReplayOK
         /\ GoodLines(lines) /\ OneType(lines)
         /\ at \in Nat \ {0} /\ at \in 1..Len(lines) /\ Len(lines) \in Nat
         /\ lines[at] \in LineRecords
         /\ lines[at].name = "status" <=> at = 1
         /\ lines[at].name = "end" <=> at = Len(lines)
         /\ lines[at].name # "charset"
         /\ SaysSoFar(out, at)
         /\ HeadersOK(out) /\ TypeOfLine(out) /\ DateInList(out)
         /\ out \in OutRecords
  <1>1. EntryTyped /\ LinesOK /\ StoredOK /\ ReplayOK
    BY DEF EntryInv
  <1>2. GoodLines(lines) /\ OneType(lines)
    BY <1>1 DEF LinesOK
  <1>3. /\ at \in 1..Len(lines) /\ SaysSoFar(out, at)
        /\ HeadersOK(out) /\ TypeOfLine(out) /\ DateInList(out)
    BY <1>1 DEF ReplayOK
  <1>4. lines \in Seq(LineRecords) /\ out \in OutRecords
    BY <1>1 DEF EntryTyped
  <1>5. lines[at] \in LineRecords /\ at \in Nat \ {0} /\ Len(lines) \in Nat
    BY <1>3, <1>4
  <1> QED
    BY <1>1, <1>2, <1>3, <1>4, <1>5 DEF GoodLines

LEMMA ReplayKeeps ==
  ASSUME EntryInv, phase = "replaying", NEW o, Replay(o), Adds(o, lines[at]),
         lines[at].name # "end"
  PROVE  EntryInv'
  <1>1. /\ phase' = phase /\ conf' = conf /\ lines' = lines /\ at' = at + 1
        /\ seen' = seen /\ out' = o
    BY DEF Replay
  <1>2. /\ EntryTyped /\ LinesOK /\ StoredOK /\ ReplayOK
        /\ at \in Nat \ {0} /\ at \in 1..Len(lines) /\ Len(lines) \in Nat
        /\ lines[at].name = "status" <=> at = 1
        /\ lines[at].name = "end" <=> at = Len(lines)
        /\ SaysSoFar(out, at)
    BY ReplayFacts
  <1>3. at + 1 \in 1..Len(lines) /\ at + 1 > 1
    BY <1>2
  <1>4. /\ o \in OutRecords /\ o.body = out.body
        /\ IF at = 1 THEN o.status = lines[at].code ELSE o.status = out.status
        /\ \A x : x.name \notin {"status", "Content-Length"} =>
               (x \in Shown(o) <=> x \in Shown(out) \/ x \in ShownBy(lines[at]))
        /\ HeadersOK(o) /\ TypeOfLine(o) /\ DateInList(o)
    BY DEF Adds
  <1>5. o.status = lines[1].code
    <2>1. at # 1 => at > 1
      BY <1>2
    <2> QED
      BY <1>2, <1>4, <2>1 DEF ReplayOK
  <1>6. SaysSoFar(o, at + 1)
    <2>1. ShownBefore(lines, at + 1) =
              ShownBefore(lines, at) \cup ShownBy(lines[at])
      BY <1>2, ShownBeforeNext
    <2> QED
      BY <1>2, <1>4, <2>1 DEF SaysSoFar
  <1>7. ReplayOK'
    <2>1. SaysSoFar(out, at)'
      BY <1>1, <1>6 DEF SaysSoFar
    <2>2. (HeadersOK(out) /\ TypeOfLine(out) /\ DateInList(out))'
      BY <1>1, <1>4 DEF HeadersOK, TypeOfLine, DateInList
    <2> QED
      BY <1>1, <1>3, <1>5, <2>1, <2>2 DEF ReplayOK
  <1>8. StoredOK'
    BY <1>1, <1>2, <1>4 DEF StoredOK, Says, Exempt, LengthsAre
  <1>9. LinesOK'
    BY <1>1, <1>2 DEF LinesOK, GoodLines, OneType, Unflagged
  <1>10. EntryTyped'
    <2>1. at + 1 \in Nat \ {0}
      BY <1>2
    <2> QED
      BY <1>1, <1>2, <1>4, <2>1 DEF EntryTyped
  <1> QED
    BY <1>1, <1>7, <1>8, <1>9, <1>10 DEF EntryInv, PassingOK, RefusedOK,
       TakenOK, InvalidOK, HitOK

(* The header that is pushed for a line.                                    *)
PushedHeader ==
    [name |-> lines[at].name, value |-> lines[at].value,
     size |-> lines[at].size, live |-> TRUE]

(* o is headers_out with that header, perhaps another date and length, and  *)
(* some slots.                                                              *)
Joins(o, slots) ==
    /\ o \in OutRecords /\ o.body = out.body /\ o.status = out.status
    /\ o.headers = Append(out.headers, PushedHeader)
    /\ o.slots = out.slots \cup slots
    /\ o.content_type = out.content_type /\ o.charset = out.charset
    /\ o.allow_ranges = out.allow_ranges
    /\ DateInList(o)
    /\ lines[at].name = "Content-Length" => "Content-Length" \in slots

Special ==
    {"status", "end", "Content-Type"} \cup AllowRangesLine \cup Ignored

LEMMA JoinsAdds ==
  ASSUME EntryInv, phase = "replaying", NEW o, NEW slots, Joins(o, slots),
         lines[at].name \notin Special
  PROVE  Adds(o, lines[at])
  <1> DEFINE l == lines[at]  n == Len(out.headers)
  <1>1. /\ at \in 1..Len(lines) /\ l \in LineRecords /\ at # 1
        /\ l.name # "charset" /\ SaysSoFar(out, at)
        /\ HeadersOK(out) /\ TypeOfLine(out) /\ DateInList(out)
        /\ out \in OutRecords
    BY ReplayFacts DEF Special
  <1>2. /\ o \in OutRecords /\ o.body = out.body /\ o.status = out.status
        /\ o.headers = Append(out.headers, PushedHeader)
        /\ o.slots = out.slots \cup slots
        /\ o.content_type = out.content_type /\ o.charset = out.charset
        /\ o.allow_ranges = out.allow_ranges /\ DateInList(o)
        /\ l.name = "Content-Length" => "Content-Length" \in slots
    BY DEF Joins
  <1>3. /\ PushedHeader.name = l.name /\ PushedHeader.value = l.value
        /\ PushedHeader.live = TRUE /\ PushedHeader \in HeaderRecords
    BY <1>1 DEF PushedHeader, HeaderRecords, LineRecords
  <1>4. out.headers \in Seq(HeaderRecords)
    BY <1>1 DEF OutRecords
  <1>5. /\ DOMAIN o.headers = 1..(n + 1) /\ DOMAIN out.headers = 1..n
        /\ n \in Nat /\ o.headers[n + 1] = PushedHeader
        /\ \A i \in 1..n : o.headers[i] = out.headers[i]
    BY <1>2, <1>3, <1>4
  <1> HIDE DEF n, l
  <1>6. \A i : i \in 1..(n + 1) <=> i = n + 1 \/ i \in 1..n
    BY <1>5
  <1>7. ASSUME NEW x
        PROVE  x \in ShownList(o.headers) <=>
                   x \in ShownList(out.headers) \/ x = Item(l.name, l.value)
    <2>1. \A hs : x \in ShownList(hs) <=>
              \E i \in DOMAIN hs : hs[i].live
                                   /\ x = Item(hs[i].name, hs[i].value)
      BY DEF ShownList
    <2>2. x \in ShownList(o.headers) <=>
              \E i \in 1..(n + 1) :
                  /\ o.headers[i].live
                  /\ x = Item(o.headers[i].name, o.headers[i].value)
      BY <1>5, <2>1
    <2>3. x \in ShownList(out.headers) <=>
              \E i \in 1..n : /\ out.headers[i].live
                              /\ x = Item(out.headers[i].name,
                                          out.headers[i].value)
      BY <1>5, <2>1
    <2> QED
      BY <1>3, <1>5, <1>6, <2>2, <2>3
  <1>8. ShownBy(l) = {Item(l.name, l.value)}
    BY DEF ShownBy, Special, l
  <1>9. ASSUME NEW x, x.name \notin {"status", "Content-Length"}
        PROVE  x \in Shown(o) <=> x \in Shown(out) \/ x \in ShownBy(l)
    <2>1. ShownType(o) = ShownType(out) /\ ShownRanges(o) = ShownRanges(out)
      BY <1>2 DEF ShownType, ShownRanges
    <2>2. ShownDate(o) = {} /\ ShownDate(out) = {}
      BY <1>1, <1>2 DEF DateInList, ShownDate
    <2>3. x \notin ShownLength(o) /\ x \notin ShownLength(out)
      BY <1>9 DEF ShownLength, Item
    <2>4. Item("status", ToString(o.status)) =
              Item("status", ToString(out.status))
      BY <1>2
    <2> QED
      BY <1>7, <1>8, <2>1, <2>2, <2>3, <2>4 DEF Shown
  <1>10. HeadersOK(o)
    <2>1. ASSUME NEW i \in DOMAIN o.headers
          PROVE  LET h == o.headers[i] IN
                 /\ h.live /\ h.name \notin Tags \cup AllowRangesLine
                 /\ \E j \in 1..Len(lines) :
                        lines[j].name = h.name /\ lines[j].value = h.value
                 /\ h.name = "Content-Length" => "Content-Length" \in o.slots
      <3>1. CASE i = n + 1
        <4>1. l.name \notin Tags \cup AllowRangesLine
          BY <1>1 DEF Special, Tags, l
        <4>2. l.name = "Content-Length" => "Content-Length" \in o.slots
          BY <1>2
        <4> QED
          BY <1>1, <1>3, <1>5, <3>1, <4>1, <4>2 DEF l
      <3>2. CASE i \in 1..n
        BY <1>1, <1>2, <1>5, <3>2 DEF HeadersOK
      <3> QED
        BY <1>5, <1>6, <3>1, <3>2
    <2> QED
      BY <2>1 DEF HeadersOK
  <1>11. TypeOfLine(o)
    BY <1>1, <1>2 DEF TypeOfLine
  <1> QED
    BY <1>1, <1>2, <1>9, <1>10, <1>11 DEF Adds, l

LEMMA PushedFacts ==
  ASSUME EntryInv, phase = "replaying", NEW slots \in SUBSET Texts
  PROVE  LET o == Pushed(slots) IN
         /\ o \in OutRecords /\ o.body = out.body /\ o.status = out.status
         /\ o.headers = Append(out.headers, PushedHeader)
         /\ o.slots = out.slots \cup slots
         /\ o.content_type = out.content_type /\ o.charset = out.charset
         /\ o.allow_ranges = out.allow_ranges
         /\ o.last_modified_time = out.last_modified_time
         /\ DateInList(o)
  <1>1. out \in OutRecords /\ lines[at] \in LineRecords /\ DateInList(out)
    BY ReplayFacts
  <1>2. PushedHeader \in HeaderRecords
    BY <1>1 DEF PushedHeader, HeaderRecords, LineRecords
  <1> DEFINE hs == Append(out.headers, PushedHeader)  ss == out.slots \cup slots
  <1>3. out.headers \in Seq(HeaderRecords) /\ out.slots \in SUBSET Texts
    BY <1>1 DEF OutRecords
  <1>4. hs \in Seq(HeaderRecords) /\ ss \in SUBSET Texts
    BY <1>2, <1>3
  <1>5. Pushed(slots) = [out EXCEPT !.headers = hs, !.slots = ss]
    BY <1>1 DEF Pushed, PushedHeader, OutRecords
  <1> HIDE DEF hs, ss
  <1> DEFINE o == Pushed(slots)
  <1>6. o = [out EXCEPT !.headers = hs, !.slots = ss]
    BY <1>5
  <1> HIDE DEF o
  <1>7. /\ o \in OutRecords /\ o.body = out.body /\ o.status = out.status
        /\ o.headers = hs /\ o.slots = ss
        /\ o.content_type = out.content_type /\ o.charset = out.charset
        /\ o.allow_ranges = out.allow_ranges
        /\ o.last_modified_time = out.last_modified_time
    BY <1>1, <1>4, <1>6 DEF OutRecords
  <1>8. DateInList(o)
    BY <1>1, <1>7 DEF DateInList, ss
  <1> QED
    BY <1>7, <1>8 DEF o, hs, ss

-----------------------------------------------------------------------------
(* Each handler.                                                            *)

LEMMA ReplayStatusKeeps ==
  ASSUME EntryInv, ReplayStatus
  PROVE  EntryInv'
  <1> DEFINE l == lines[at]  o == [out EXCEPT !.status = l.code]
  <1>1. phase = "replaying" /\ l.name = "status" /\ Replay(o)
    BY DEF ReplayStatus, Replaying
  <1>2. /\ at = 1 /\ l \in LineRecords /\ out \in OutRecords
        /\ HeadersOK(out) /\ TypeOfLine(out) /\ DateInList(out)
    BY <1>1, ReplayFacts
  <1>3. l.code \in Nat
    BY <1>2 DEF LineRecords
  <1>4. /\ o \in OutRecords /\ o.body = out.body /\ o.status = l.code
        /\ o.headers = out.headers /\ o.slots = out.slots
        /\ o.content_type = out.content_type /\ o.charset = out.charset
        /\ o.allow_ranges = out.allow_ranges
        /\ o.content_length_n = out.content_length_n
        /\ o.last_modified_time = out.last_modified_time
    BY <1>2, <1>3 DEF OutRecords
  <1> HIDE DEF o
  <1>5. ShownBy(l) = {}
    BY <1>1 DEF ShownBy
  <1>6. ASSUME NEW x, x.name \notin {"status", "Content-Length"}
        PROVE  x \in Shown(o) <=> x \in Shown(out) \/ x \in ShownBy(l)
    <2>1. /\ x # Item("status", ToString(o.status))
          /\ x # Item("status", ToString(out.status))
      BY <1>6 DEF Item
    <2>2. /\ ShownType(o) = ShownType(out) /\ ShownRanges(o) = ShownRanges(out)
          /\ ShownDate(o) = ShownDate(out) /\ ShownLength(o) = ShownLength(out)
      BY <1>4 DEF ShownType, ShownRanges, ShownDate, ShownLength
    <2> QED
      BY <1>4, <1>5, <2>1, <2>2 DEF Shown
  <1>7. HeadersOK(o) /\ TypeOfLine(o) /\ DateInList(o)
    BY <1>2, <1>4 DEF HeadersOK, TypeOfLine, DateInList
  <1>8. Adds(o, lines[at])
    BY <1>2, <1>4, <1>6, <1>7 DEF Adds
  <1>9. lines[at].name # "end"
    BY <1>1
  <1> QED
    BY <1>1, <1>8, <1>9, ReplayKeeps

LEMMA ReplayContentTypeKeeps ==
  ASSUME EntryInv, ReplayContentType
  PROVE  EntryInv'
  <1> DEFINE l == lines[at]
             o == [out EXCEPT !.content_type = l.value, !.charset = l.charset,
                              !.sole_type = l.charset = None]
  <1>1. phase = "replaying" /\ l.name = "Content-Type" /\ Replay(o)
    BY DEF ReplayContentType, Replaying
  <1>2. /\ at # 1 /\ at \in 1..Len(lines)
        /\ l \in LineRecords /\ out \in OutRecords /\ OneType(lines)
        /\ HeadersOK(out) /\ TypeOfLine(out) /\ DateInList(out)
    BY <1>1, ReplayFacts
  <1>3. l.value \in Texts /\ l.charset \in Texts
    BY <1>2 DEF LineRecords
  <1>4. /\ o \in OutRecords /\ o.body = out.body /\ o.status = out.status
        /\ o.headers = out.headers /\ o.slots = out.slots
        /\ o.content_type = l.value /\ o.charset = l.charset
        /\ o.allow_ranges = out.allow_ranges
        /\ o.content_length_n = out.content_length_n
        /\ o.last_modified_time = out.last_modified_time
    BY <1>2, <1>3 DEF OutRecords
  <1> HIDE DEF o
  <1>5. l.value # None
    BY <1>1, <1>2 DEF OneType
  <1>6. out.content_type # None =>
            l.value = out.content_type /\ l.charset = out.charset
    BY <1>1, <1>2 DEF OneType, TypeOfLine
  <1> HIDE DEF l
  <1>7. ShownBy(l) = {Item("Content-Type", l.value), Item("charset", l.charset)}
    BY <1>1 DEF ShownBy, Ignored
  <1>8. ShownType(o) = ShownBy(l) /\ ShownType(out) \subseteq ShownBy(l)
    BY <1>4, <1>5, <1>6, <1>7 DEF ShownType
  <1>9. ASSUME NEW x, x.name \notin {"status", "Content-Length"}
        PROVE  x \in Shown(o) <=> x \in Shown(out) \/ x \in ShownBy(l)
    <2>1. Item("status", ToString(o.status)) =
              Item("status", ToString(out.status))
      BY <1>4
    <2>2. /\ ShownRanges(o) = ShownRanges(out)
          /\ ShownDate(o) = ShownDate(out) /\ ShownLength(o) = ShownLength(out)
      BY <1>4 DEF ShownRanges, ShownDate, ShownLength
    <2> QED
      BY <1>4, <1>8, <2>1, <2>2 DEF Shown
  <1>10. HeadersOK(o) /\ DateInList(o)
    BY <1>2, <1>4 DEF HeadersOK, DateInList
  <1>11. TypeOfLine(o)
    BY <1>1, <1>2, <1>4 DEF TypeOfLine, l
  <1>12. Adds(o, l)
    BY <1>2, <1>4, <1>9, <1>10, <1>11 DEF Adds
  <1>13. lines[at].name # "end"
    BY <1>1 DEF l
  <1> QED
    BY <1>1, <1>12, <1>13, ReplayKeeps DEF l

LEMMA ReplayAllowRangesKeeps ==
  ASSUME EntryInv, ReplayAllowRanges
  PROVE  EntryInv'
  <1> DEFINE l == lines[at]  o == [out EXCEPT !.allow_ranges = TRUE]
  <1>1. phase = "replaying" /\ l.name \in AllowRangesLine /\ Replay(o)
    BY DEF ReplayAllowRanges, Replaying
  <1>2. /\ l.name # "status" /\ l.name # "end" /\ l.name # "Content-Type"
        /\ l.name \notin Ignored
    BY <1>1 DEF AllowRangesLine, Ignored
  <1>3. /\ at # 1 /\ out \in OutRecords
        /\ HeadersOK(out) /\ TypeOfLine(out) /\ DateInList(out)
    BY <1>1, <1>2, ReplayFacts
  <1>4. /\ o \in OutRecords /\ o.body = out.body /\ o.status = out.status
        /\ o.headers = out.headers /\ o.slots = out.slots
        /\ o.content_type = out.content_type /\ o.charset = out.charset
        /\ o.allow_ranges = TRUE
        /\ o.content_length_n = out.content_length_n
        /\ o.last_modified_time = out.last_modified_time
    BY <1>3 DEF OutRecords
  <1> HIDE DEF o, l
  <1>5. ShownBy(l) = {Item("Accept-Ranges", "bytes")}
    BY <1>1, <1>2 DEF ShownBy
  <1>6. ShownRanges(o) = ShownBy(l) /\ ShownRanges(out) \subseteq ShownBy(l)
    BY <1>4, <1>5 DEF ShownRanges
  <1>7. ASSUME NEW x, x.name \notin {"status", "Content-Length"}
        PROVE  x \in Shown(o) <=> x \in Shown(out) \/ x \in ShownBy(l)
    <2>1. Item("status", ToString(o.status)) =
              Item("status", ToString(out.status))
      BY <1>4
    <2>2. /\ ShownType(o) = ShownType(out)
          /\ ShownDate(o) = ShownDate(out) /\ ShownLength(o) = ShownLength(out)
      BY <1>4 DEF ShownType, ShownDate, ShownLength
    <2> QED
      BY <1>4, <1>6, <2>1, <2>2 DEF Shown
  <1>8. HeadersOK(o) /\ TypeOfLine(o) /\ DateInList(o)
    BY <1>3, <1>4 DEF HeadersOK, TypeOfLine, DateInList
  <1>9. Adds(o, l)
    BY <1>3, <1>4, <1>7, <1>8 DEF Adds
  <1> QED
    BY <1>1, <1>2, <1>9, ReplayKeeps DEF l

LEMMA ReplayIgnoredKeeps ==
  ASSUME EntryInv, ReplayIgnored
  PROVE  EntryInv'
  <1>1. phase = "replaying" /\ lines[at].name \in Ignored /\ Replay(out)
    BY DEF ReplayIgnored, Replaying
  <1>2. lines[at].name # "status" /\ lines[at].name # "end"
    BY <1>1 DEF Ignored
  <1>3. /\ at # 1 /\ out \in OutRecords
        /\ HeadersOK(out) /\ TypeOfLine(out) /\ DateInList(out)
    BY <1>1, <1>2, ReplayFacts
  <1>4. ShownBy(lines[at]) = {}
    BY <1>1 DEF ShownBy
  <1>5. Adds(out, lines[at])
    BY <1>3, <1>4 DEF Adds
  <1> QED
    BY <1>1, <1>2, <1>5, ReplayKeeps

(* The handlers that push a header.                                         *)
LEMMA JoinsKeeps ==
  ASSUME EntryInv, phase = "replaying", NEW o, NEW slots, Joins(o, slots),
         lines[at].name \notin Special, Replay(o)
  PROVE  EntryInv'
  <1>1. Adds(o, lines[at])
    BY JoinsAdds
  <1>2. lines[at].name # "end"
    BY DEF Special
  <1> QED
    BY <1>1, <1>2, ReplayKeeps

LEMMA PushedJoins ==
  ASSUME EntryInv, phase = "replaying", NEW slots \in SUBSET Texts,
         lines[at].name = "Content-Length" => "Content-Length" \in slots
  PROVE  Joins(Pushed(slots), slots)
  BY PushedFacts DEF Joins

LEMMA ReplayContentLengthKeeps ==
  ASSUME EntryInv, ReplayContentLength
  PROVE  EntryInv'
  <1> DEFINE p == Pushed({"Content-Length"})
             o == [p EXCEPT !.content_length_n = lines[at].value]
  <1>1. /\ phase = "replaying" /\ lines[at].name = "Content-Length" /\ Replay(o)
    BY DEF ReplayContentLength, Replaying
  <1>2. {"Content-Length"} \in SUBSET Texts /\ lines[at].name \notin Special
    BY <1>1 DEF Texts, Special, AllowRangesLine, Ignored
  <1>3. Joins(p, {"Content-Length"})
    BY <1>1, <1>2, PushedJoins
  <1>4. lines[at].value \in Texts
    BY <1>1, ReplayFacts DEF LineRecords
  <1> HIDE DEF p
  <1>5. p \in OutRecords
    BY <1>3 DEF Joins
  <1>6. /\ o \in OutRecords /\ o.body = p.body /\ o.status = p.status
        /\ o.headers = p.headers /\ o.slots = p.slots
        /\ o.content_type = p.content_type /\ o.charset = p.charset
        /\ o.allow_ranges = p.allow_ranges
        /\ o.last_modified_time = p.last_modified_time
    BY <1>4, <1>5 DEF OutRecords
  <1> HIDE DEF o
  <1>7. Joins(o, {"Content-Length"})
    BY <1>3, <1>6 DEF Joins, DateInList
  <1> QED
    BY <1>1, <1>2, <1>7, JoinsKeeps

LEMMA ReplayLastModifiedKeeps ==
  ASSUME EntryInv, ReplayLastModified
  PROVE  EntryInv'
  <1> DEFINE p == Pushed(DateSlot)
             o == [p EXCEPT !.last_modified_time = lines[at].value]
  <1>1. /\ phase = "replaying" /\ lines[at].name = "Last-Modified" /\ Replay(o)
    BY DEF ReplayLastModified, Replaying
  <1>2. DateSlot \in SUBSET Texts /\ lines[at].name \notin Special
    BY <1>1 DEF Texts, Special, AllowRangesLine, Ignored
  <1>3. Joins(p, DateSlot)
    BY <1>1, <1>2, PushedJoins
  <1>4. lines[at].value \in Texts
    BY <1>1, ReplayFacts DEF LineRecords
  <1> HIDE DEF p
  <1>5. p \in OutRecords
    BY <1>3 DEF Joins
  <1>6. /\ o \in OutRecords /\ o.body = p.body /\ o.status = p.status
        /\ o.headers = p.headers /\ o.slots = p.slots
        /\ o.content_type = p.content_type /\ o.charset = p.charset
        /\ o.allow_ranges = p.allow_ranges
    BY <1>4, <1>5 DEF OutRecords
  <1> HIDE DEF o
  <1>7. "Last-Modified" \in o.slots
    BY <1>3, <1>6 DEF Joins, DateSlot
  <1>8. Joins(o, DateSlot)
    BY <1>1, <1>3, <1>6, <1>7 DEF Joins, DateInList
  <1> QED
    BY <1>1, <1>2, <1>8, JoinsKeeps

LEMMA ReplayLocationKeeps ==
  ASSUME EntryInv, ReplayLocation
  PROVE  EntryInv'
  <1> DEFINE slots == IF IsLocal(lines[at].value) THEN {} ELSE {"Location"}
  <1>1. /\ phase = "replaying" /\ lines[at].name = "Location"
        /\ Replay(Pushed(slots))
    BY DEF ReplayLocation, Replaying
  <1>2. slots \in SUBSET Texts /\ lines[at].name \notin Special
    BY <1>1 DEF Texts, Special, AllowRangesLine, Ignored
  <1> HIDE DEF slots
  <1>3. Joins(Pushed(slots), slots)
    BY <1>1, <1>2, PushedJoins
  <1> QED
    BY <1>1, <1>2, <1>3, JoinsKeeps

LEMMA ReplayWithSlotKeeps ==
  ASSUME EntryInv, ReplayWithSlot
  PROVE  EntryInv'
  <1> DEFINE slots == {lines[at].name}
  <1>1. /\ phase = "replaying" /\ lines[at].name \in WithSlot
        /\ Replay(Pushed(slots))
    BY DEF ReplayWithSlot, Replaying
  <1>2. lines[at].name \in Texts
    BY <1>1, ReplayFacts DEF LineRecords
  <1>3. slots \in SUBSET Texts /\ lines[at].name \notin Special
    BY <1>1, <1>2 DEF WithSlot, Special, AllowRangesLine, Ignored
  <1>4. lines[at].name # "Content-Length"
    BY <1>1 DEF WithSlot
  <1> HIDE DEF slots
  <1>5. Joins(Pushed(slots), slots)
    BY <1>1, <1>3, <1>4, PushedJoins
  <1> QED
    BY <1>1, <1>3, <1>5, JoinsKeeps

LEMMA ReplayOtherKeeps ==
  ASSUME EntryInv, ReplayOther
  PROVE  EntryInv'
  <1>1. /\ phase = "replaying" /\ lines[at].name \notin Special
        /\ lines[at].name # "Content-Length" /\ Replay(Pushed({}))
    BY DEF ReplayOther, Special
  <1>2. Joins(Pushed({}), {})
    BY <1>1, PushedJoins
  <1> QED
    BY <1>1, <1>2, JoinsKeeps

LEMMA ReplayNoStatusKeeps ==
  ASSUME EntryInv, ReplayNoStatus
  PROVE  EntryInv'
  <1>1. /\ phase = "replaying" /\ lines[at].name = "status"
        /\ lines[at].value = None /\ phase' = "invalid"
        /\ conf' = conf /\ out' = out /\ lines' = lines /\ at' = at
        /\ seen' = seen
    BY DEF ReplayNoStatus, Replaying
  <1>2. EntryTyped /\ LinesOK /\ StoredOK /\ at = 1
    BY <1>1, ReplayFacts
  <1>3. StoredOK'
    BY <1>1, <1>2 DEF StoredOK, Says, Exempt, LengthsAre
  <1>4. LinesOK'
    BY <1>1, <1>2 DEF LinesOK, GoodLines, OneType, Unflagged
  <1>5. InvalidOK'
    BY <1>1, <1>2 DEF InvalidOK
  <1>6. EntryTyped'
    BY <1>1, <1>2 DEF EntryTyped
  <1> QED
    BY <1>1, <1>3, <1>4, <1>5, <1>6 DEF EntryInv, PassingOK, RefusedOK,
       TakenOK, ReplayOK, HitOK

LEMMA HitKeeps ==
  ASSUME EntryInv, Hit
  PROVE  EntryInv'
  <1>1. /\ phase = "replaying" /\ lines[at].name = "end" /\ phase' = "hit"
        /\ out' = [out EXCEPT !.content_length_n = out.body]
        /\ conf' = conf /\ lines' = lines /\ at' = at /\ seen' = seen
    BY DEF Hit, Replaying, CountedLength
  <1>2. /\ EntryTyped /\ LinesOK /\ StoredOK /\ ReplayOK
        /\ at = Len(lines) /\ at \in 1..Len(lines) /\ SaysSoFar(out, at)
        /\ HeadersOK(out) /\ TypeOfLine(out) /\ DateInList(out)
        /\ out \in OutRecords
    BY <1>1, ReplayFacts
  <1>3. out.body \in Texts
    BY <1>2 DEF OutRecords, Texts
  <1> DEFINE o == [out EXCEPT !.content_length_n = out.body]
  <1>4. /\ o \in OutRecords /\ o.body = out.body /\ o.status = out.status
        /\ o.headers = out.headers /\ o.slots = out.slots
        /\ o.content_type = out.content_type /\ o.charset = out.charset
        /\ o.allow_ranges = out.allow_ranges
        /\ o.content_length_n = out.body
        /\ o.last_modified_time = out.last_modified_time
    BY <1>2, <1>3 DEF OutRecords
  <1>5. out' = o
    BY <1>1
  <1> HIDE DEF o
  <1>6. ASSUME NEW x, x.name \notin {"status", "Content-Length"}
        PROVE  x \in Shown(o) <=> x \in Shown(out)
    <2>1. Item("status", ToString(o.status)) =
              Item("status", ToString(out.status))
      BY <1>4
    <2>2. /\ ShownType(o) = ShownType(out) /\ ShownDate(o) = ShownDate(out)
          /\ ShownRanges(o) = ShownRanges(out)
      BY <1>4 DEF ShownType, ShownDate, ShownRanges
    <2>3. x \notin ShownLength(o) /\ x \notin ShownLength(out)
      BY <1>6 DEF ShownLength, Item
    <2> QED
      BY <1>4, <2>1, <2>2, <2>3 DEF Shown
  <1>7. ReplayOK'
    <2>1. SaysSoFar(out, at)'
      BY <1>1, <1>2, <1>5, <1>6 DEF SaysSoFar
    <2>2. (HeadersOK(out) /\ TypeOfLine(out) /\ DateInList(out))'
      BY <1>1, <1>2, <1>4, <1>5 DEF HeadersOK, TypeOfLine, DateInList
    <2>3. (at > 1 => out.status = lines[1].code)'
      BY <1>1, <1>2, <1>4, <1>5 DEF ReplayOK
    <2> QED
      BY <1>1, <1>2, <2>1, <2>2, <2>3 DEF ReplayOK
  <1>8. StoredOK'
    BY <1>1, <1>2, <1>4, <1>5 DEF StoredOK, Says, Exempt, LengthsAre
  <1>9. LinesOK'
    BY <1>1, <1>2 DEF LinesOK, GoodLines, OneType, Unflagged
  <1>10. HitOK'
    BY <1>1, <1>2, <1>4, <1>5 DEF HitOK
  <1>11. EntryTyped'
    BY <1>1, <1>2, <1>4, <1>5 DEF EntryTyped
  <1> QED
    BY <1>1, <1>7, <1>8, <1>9, <1>10, <1>11 DEF EntryInv, PassingOK, RefusedOK,
       TakenOK, InvalidOK

LEMMA EntryStutters ==
  ASSUME EntryInv, UNCHANGED entry_vars
  PROVE  EntryInv'
  <1>1. /\ phase' = phase /\ conf' = conf /\ out' = out /\ lines' = lines
        /\ at' = at /\ seen' = seen
    BY DEF entry_vars
  <1>2. EntryTyped' /\ PassingOK' /\ RefusedOK'
    BY <1>1 DEF EntryInv, EntryTyped, PassingOK, RefusedOK, HasText
  <1>3. LinesOK'
    BY <1>1 DEF EntryInv, LinesOK, GoodLines, OneType, Unflagged
  <1>4. TakenOK'
    BY <1>1 DEF EntryInv, TakenOK, Says, Exempt, LengthsAre
  <1>5. StoredOK' /\ InvalidOK'
    BY <1>1 DEF EntryInv, StoredOK, InvalidOK, Says, Exempt, LengthsAre
  <1>6. ReplayOK' /\ HitOK'
    BY <1>1 DEF EntryInv, ReplayOK, HitOK, SaysSoFar, HeadersOK, TypeOfLine,
       DateInList
  <1> QED
    BY <1>2, <1>3, <1>4, <1>5, <1>6 DEF EntryInv

LEMMA EntryStepKeeps ==
  ASSUME EntryInv, [EntryNext]_entry_vars
  PROVE  EntryInv'
  <1>1. CASE StoreHeader
    BY <1>1, StoreHeaderKeeps
  <1>2. CASE RangeFilter
    BY <1>2, RangeFilterKeeps
  <1>3. CASE StoreBody
    BY <1>3, StoreBodyKeeps
  <1>4. CASE Fetch
    BY <1>4, FetchKeeps
  <1>5. CASE ReplayStatus
    BY <1>5, ReplayStatusKeeps
  <1>6. CASE ReplayNoStatus
    BY <1>6, ReplayNoStatusKeeps
  <1>7. CASE ReplayContentType
    BY <1>7, ReplayContentTypeKeeps
  <1>8. CASE ReplayContentLength
    BY <1>8, ReplayContentLengthKeeps
  <1>9. CASE ReplayLastModified
    BY <1>9, ReplayLastModifiedKeeps
  <1>10. CASE ReplayLocation
    BY <1>10, ReplayLocationKeeps
  <1>11. CASE ReplayAllowRanges
    BY <1>11, ReplayAllowRangesKeeps
  <1>12. CASE ReplayIgnored
    BY <1>12, ReplayIgnoredKeeps
  <1>13. CASE ReplayWithSlot
    BY <1>13, ReplayWithSlotKeeps
  <1>14. CASE ReplayOther
    BY <1>14, ReplayOtherKeeps
  <1>15. CASE Hit
    BY <1>15, HitKeeps
  <1>16. CASE UNCHANGED entry_vars
    BY <1>16, EntryStutters
  <1>17. Over => UNCHANGED entry_vars
    BY DEF Over
  <1> QED
    BY <1>1, <1>2, <1>3, <1>4, <1>5, <1>6, <1>7, <1>8, <1>9, <1>10, <1>11,
       <1>12, <1>13, <1>14, <1>15, <1>16, <1>17 DEF EntryNext

-----------------------------------------------------------------------------
(* The theorems.                                                            *)

(* Until a hit is answered, the lines of the entry say what the client of   *)
(* the original response saw, and headers_out what the lines before the one *)
(* to be replayed say.                                                      *)
THEOREM EntriesSayWhatWasShown == EntrySpec => []EntryInv
  <1>1. EntryInv /\ [EntryNext]_entry_vars => EntryInv'
    BY EntryStepKeeps
  <1> QED
    BY <1>1, EntryInitially, PTL DEF EntrySpec

LEMMA StatusAlone ==
  ASSUME EntryInv
  PROVE  OnlyTheStatusFails
  <1>1. ASSUME phase = "invalid"
        PROVE  \E s \in NullText : Item("status", ToString(s)) \in seen
    <2>1. LinesOK /\ StoredOK /\ InvalidOK
      BY DEF EntryInv
    <2>2. lines[1].code \in NullText
      BY <1>1, <2>1 DEF LinesOK, InvalidOK, GoodLines
    <2> DEFINE x == Item("status", ToString(lines[1].code))
    <2>3. x.name = "status"
      BY DEF Item
    <2>4. x \in seen
      BY <1>1, <2>1, <2>3 DEF StoredOK
    <2> QED
      BY <2>2, <2>4
  <1>2. phase = "refused" => ~HasText(out)
    BY DEF EntryInv, RefusedOK
  <1> QED
    BY <1>1, <1>2 DEF OnlyTheStatusFails

(* What holds of a hit, without the phases.                                 *)
LEMMA HitFacts ==
  ASSUME EntryInv, phase = "hit"
  PROVE  /\ conf \in Confs /\ GoodLines(lines) /\ OneType(lines)
         /\ Len(lines) \in Nat \ {0} /\ at = Len(lines)
         /\ out.status = lines[1].code
         /\ out.content_length_n = out.body
         /\ SaysSoFar(out, Len(lines))
         /\ HeadersOK(out) /\ TypeOfLine(out) /\ DateInList(out)
         /\ \A x : x.name = "status" =>
                (x \in seen <=> x = Item("status", ToString(out.status)))
         /\ Says(lines, seen, out.status)
         /\ out.status # 206 => LengthsAre(lines, out.body)
  <1>1. EntryTyped /\ LinesOK /\ StoredOK /\ ReplayOK /\ HitOK
    BY DEF EntryInv
  <1>2. conf \in Confs /\ lines \in Seq(LineRecords)
    BY <1>1 DEF EntryTyped
  <1>3. GoodLines(lines) /\ OneType(lines)
    BY <1>1 DEF LinesOK
  <1>4. at = Len(lines) /\ out.content_length_n = out.body
    BY <1>1 DEF HitOK
  <1>5. Len(lines) \in Nat /\ Len(lines) >= 2
    BY <1>2, <1>3 DEF GoodLines
  <1>6. /\ out.status = lines[1].code /\ SaysSoFar(out, at)
        /\ HeadersOK(out) /\ TypeOfLine(out) /\ DateInList(out)
    BY <1>1, <1>4, <1>5 DEF ReplayOK
  <1> QED
    BY <1>1, <1>2, <1>3, <1>4, <1>5, <1>6 DEF StoredOK

LEMMA HiddenHeadersStayOut ==
  ASSUME EntryInv
  PROVE  HiddenStaysOut
  <1> SUFFICES ASSUME phase = "hit", NEW h \in Shown(out),
                      h.name \in conf.hide_headers_hash,
                      h.name \notin Unflagged
               PROVE  \/ h.name = "Content-Length"
                      \/ h = Item("Accept-Ranges", "bytes") /\ out.allow_ranges
    BY DEF HiddenStaysOut
  <1>1. /\ conf \in Confs /\ GoodLines(lines)
        /\ HeadersOK(out) /\ TypeOfLine(out) /\ DateInList(out)
    BY HitFacts
  <1>2. h.name \notin Tags
    BY <1>1, ConfFacts
  <1>3. h # Item("status", ToString(out.status))
    BY <1>2 DEF Item, Tags
  <1>4. h \notin ShownList(out.headers)
    <2> SUFFICES ASSUME h \in ShownList(out.headers)
                 PROVE  FALSE
      OBVIOUS
    <2>1. PICK i \in DOMAIN out.headers : h.name = out.headers[i].name
      BY DEF ShownList, Item
    <2>2. PICK j \in 1..Len(lines) : lines[j].name = out.headers[i].name
      BY <1>1, <2>1 DEF HeadersOK
    <2>3. out.headers[i].name \notin AllowRangesLine
      BY <1>1, <2>1 DEF HeadersOK
    <2> QED
      BY <1>1, <2>1, <2>2, <2>3 DEF GoodLines
  <1>5. h \notin ShownType(out)
    <2> SUFFICES ASSUME h \in ShownType(out)
                 PROVE  FALSE
      OBVIOUS
    <2>1. out.content_type # None /\ h.name \in {"Content-Type", "charset"}
      BY DEF ShownType, Item
    <2>2. h.name = "Content-Type"
      BY <1>2, <2>1 DEF Tags
    <2>3. PICK j \in 1..Len(lines) : lines[j].name = "Content-Type"
      BY <1>1, <2>1 DEF TypeOfLine
    <2> QED
      BY <1>1, <2>2, <2>3 DEF GoodLines, AllowRangesLine
  <1>6. h \notin ShownDate(out)
    BY <1>1 DEF ShownDate, DateInList
  <1>7. h \in ShownRanges(out) =>
            h = Item("Accept-Ranges", "bytes") /\ out.allow_ranges
    BY DEF ShownRanges
  <1>8. h \in ShownLength(out) => h.name = "Content-Length"
    BY DEF ShownLength, Item
  <1> QED
    BY <1>3, <1>4, <1>5, <1>6, <1>7, <1>8 DEF Shown

LEMMA HitsLookAlike ==
  ASSUME EntryInv
  PROVE  HitLooksLikeTheOriginal
  <1> SUFFICES ASSUME phase = "hit"
               PROVE  Besides(Shown(out), Exempt(out.status)) =
                          Besides(seen, Exempt(out.status))
    BY DEF HitLooksLikeTheOriginal
  <1> DEFINE n == Len(lines)
  <1>1. /\ GoodLines(lines) /\ n \in Nat \ {0} /\ SaysSoFar(out, n)
        /\ HeadersOK(out)
        /\ \A x : x.name = "status" =>
               (x \in seen <=> x = Item("status", ToString(out.status)))
        /\ Says(lines, seen, out.status)
    BY HitFacts
  <1>2. ShownBefore(lines, n + 1) = ShownBefore(lines, n)
    <2>1. lines[n].name = "end"
      BY <1>1 DEF GoodLines
    <2>2. ShownBy(lines[n]) = {}
      BY <2>1 DEF ShownBy
    <2> QED
      BY <1>1, <2>2, ShownBeforeNext
  <1>3. ASSUME NEW x, x.name \notin Exempt(out.status)
        PROVE  x \in Shown(out) <=> x \in seen
    <2>1. CASE x.name = "status"
      <3>1. \A i \in DOMAIN out.headers : out.headers[i].name \notin Tags
        BY <1>1 DEF HeadersOK
      <3> QED
        BY <1>1, <2>1, <3>1, StatusIsShown
    <2>2. CASE x.name # "status"
      <3>1. x.name # "Content-Length"
        BY <1>3 DEF Exempt
      <3>2. x \in Shown(out) <=> x \in ShownBefore(lines, n)
        BY <1>1, <2>2, <3>1 DEF SaysSoFar
      <3>3. x \in seen <=> x \in ShownBefore(lines, n + 1)
        BY <1>1, <1>3, <2>2 DEF Says
      <3> QED
        BY <1>2, <3>2, <3>3
    <2> QED
      BY <2>1, <2>2
  <1> QED
    BY <1>3 DEF Besides

LEMMA LengthIsOfTheBody ==
  ASSUME EntryInv
  PROVE  LengthIsTheBody
  <1> SUFFICES ASSUME phase = "hit",
                      ~(out.status = 206 /\ "Content-Length" \in out.slots),
                      NEW h \in Shown(out), h.name = "Content-Length"
               PROVE  h.value = out.body
    BY DEF LengthIsTheBody
  <1>1. /\ out.content_length_n = out.body /\ HeadersOK(out)
        /\ out.status # 206 => LengthsAre(lines, out.body)
    BY HitFacts
  <1>2. CASE h \in ShownList(out.headers)
    <2>1. PICK i \in DOMAIN out.headers :
              h.name = out.headers[i].name /\ h.value = out.headers[i].value
      BY <1>2 DEF ShownList, Item
    <2>2. /\ "Content-Length" \in out.slots
          /\ \E j \in 1..Len(lines) :
                 lines[j].name = h.name /\ lines[j].value = h.value
      BY <1>1, <2>1 DEF HeadersOK
    <2> QED
      BY <1>1, <2>2 DEF LengthsAre
  <1>3. h \in ShownLength(out) => h.value = out.body
    BY <1>1 DEF ShownLength, Item
  <1>4. /\ h # Item("status", ToString(out.status)) /\ h \notin ShownType(out)
        /\ h \notin ShownDate(out) /\ h \notin ShownRanges(out)
    BY DEF ShownType, ShownDate, ShownRanges, Item
  <1> QED
    BY <1>2, <1>3, <1>4 DEF Shown

(* Whatever the headers_out, an entry is not stored, or is refused by every *)
(* later fetch, for the sake of its status alone: the two passes of         *)
(* ngx_http_srcache_store_response_header agree on every header.            *)
THEOREM PassesOnlyDisagreeOnStatus == EntrySpec => []OnlyTheStatusFails
  BY EntriesSayWhatWasShown, StatusAlone, PTL

(* Whatever the headers_out and the hidden names, a hit shows none of them  *)
(* but what is made anew and the fields without a flag                      *)
(* (srcache_store_hide_header, srcache_store_pass_header).                  *)
THEOREM HidingIsComplete == EntrySpec => []HiddenStaysOut
  BY EntriesSayWhatWasShown, HiddenHeadersStayOut, PTL

(* Whatever the headers_out, a hit shows the status and the headers of the  *)
(* original response that are not hidden, and no others.                    *)
THEOREM HitsShowTheOriginal == EntrySpec => []HitLooksLikeTheOriginal
  BY EntriesSayWhatWasShown, HitsLookAlike, PTL

(* Whatever the headers_out, a hit announces the length of its own body, a  *)
(* 206 with a Content-Length of its own excepted.                           *)
THEOREM HitsAnnounceTheirLength == EntrySpec => []LengthIsTheBody
  BY EntriesSayWhatWasShown, LengthIsOfTheBody, PTL

=============================================================================

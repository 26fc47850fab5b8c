--------------------------- MODULE DownloadProofs ---------------------------
(***************************************************************************)
(* However the copy and the pipe cut the downloaded files, the history has *)
(* their first lines, whole and in order.                                  *)
(***************************************************************************)
EXTENDS Download, DataLemmas

DownloadTypeOK ==
  /\ days \in Seq(Seq(Units))
  /\ rest \in Seq(Units) /\ chunk \in Seq(Units) /\ buf \in Seq(Units) /\ full \in Seq(Units)
  /\ out \in Seq(Seq(Units))

(* The formatted lines and those of what is on its way are the lines of    *)
(* what was written, and stay so whatever is written next, as long as main *)
(* can write: a row may lack its newline, and so be continued.             *)
Continued ==
  main \in {"fetch", "copy"} =>
    \A more \in Seq(Units) : Lines(full \o more) = out \o Lines(buf \o chunk \o more)

Accounted == Lines(full) = out \o Lines(buf \o chunk)

(* Between two files, and after the last, everything has been read. *)
Drained ==
  /\ main = "fetch" => rest = <<>>
  /\ main \in {"fetch", "closed", "exited"} => chunk = <<>>
  /\ main \in {"closed", "exited"} => rest = <<>>

DownloadInv == DownloadTypeOK /\ Continued /\ Accounted /\ Drained

------------------------------------------------------------------------------
(* A text that is cut is what its two pieces make together. *)
LEMMA CutInTwo ==
  ASSUME NEW B, NEW text \in Seq(B), NEW n \in DOMAIN text
  PROVE  /\ SubSeq(text, 1, n) \in Seq(B) /\ SubSeq(text, n + 1, Len(text)) \in Seq(B)
         /\ SubSeq(text, 1, n) \o SubSeq(text, n + 1, Len(text)) = text
<1>1. n \in 1 .. Len(text) /\ Len(text) \in Nat
  OBVIOUS
<1>2. SubSeq(text, 1, n) \o SubSeq(text, n + 1, Len(text)) = SubSeq(text, 1, Len(text))
  <2>1. 1 \in 1 .. Len(text) + 1 /\ n \in 1 - 1 .. Len(text) /\ Len(text) \in n .. Len(text)
    BY <1>1
  <2> QED
    BY <2>1, ConcatAdjacentSubSeq
<1>3. SubSeq(text, 1, Len(text)) = text
  BY SubSeqFull
<1>4. SubSeq(text, 1, n) \in Seq(B) /\ SubSeq(text, n + 1, Len(text)) \in Seq(B)
  <2>1. n + 1 \in Nat /\ \A i \in 1 .. Len(text) : text[i] \in B
    BY <1>1
  <2> QED
    BY <1>1, <2>1
<1> QED
  BY <1>2, <1>3, <1>4, Zenon

Associates(r, s, t) == r \o s \o t = r \o (s \o t)

(* Concatenation is associative. *)
LEMMA Associative ==
  ASSUME NEW B, NEW r \in Seq(B), NEW s \in Seq(B), NEW t \in Seq(B)
  PROVE  Associates(r, s, t)
BY ConcatAssociative DEF Associates

(* The invariant holds before the first download. *)
LEMMA InitDownload == Init => DownloadInv
<1> SUFFICES ASSUME Init PROVE DownloadInv
  OBVIOUS
<1>1. DownloadTypeOK
  BY HistoriesAssumption DEF Init, DownloadTypeOK
<1>2. Lines(<<>>) = <<>>
  BY LinesOfNothing
<1>3. Continued
  <2> SUFFICES ASSUME NEW more \in Seq(Units)
               PROVE  Lines(full \o more) = out \o Lines(buf \o chunk \o more)
    BY DEF Continued
  <2>1. <<>> \o more = more /\ <<>> \o <<>> = <<>>
    OBVIOUS
  <2>2. <<>> \o Lines(more) = Lines(more)
    BY LinesType, ConcatEmptySeq
  <2> QED
    BY <2>1, <2>2 DEF Init
<1>4. Accounted
  BY <1>2 DEF Init, Accounted
<1> QED
  BY <1>1, <1>3, <1>4 DEF DownloadInv, Drained, Init

(* Every step of main and of the goroutine keeps the invariant. *)
LEMMA NextDownload == DownloadInv /\ [Next]_vars => DownloadInv'
<1> SUFFICES ASSUME DownloadInv, [Next]_vars PROVE DownloadInv'
  OBVIOUS
<1> USE DEF DownloadInv
<1>0. /\ days \in Seq(Seq(Units)) /\ rest \in Seq(Units) /\ chunk \in Seq(Units)
      /\ buf \in Seq(Units) /\ full \in Seq(Units) /\ out \in Seq(Seq(Units))
  BY DEF DownloadTypeOK
<1>1. CASE Fetch
  <2>1. days' \in Seq(Seq(Units)) /\ rest' \in Seq(Units)
    BY <1>0, <1>1 DEF Fetch
  <2> QED
    BY <1>1, <2>1 DEF Fetch, DownloadTypeOK, Continued, Accounted, Drained
<1>2. CASE FetchFails
  BY <1>2 DEF FetchFails, DownloadTypeOK, Continued, Accounted, Drained
<1>3. CASE WriteChunk
  <2>1. PICK n \in DOMAIN rest :
          /\ chunk' = SubSeq(rest, 1, n)
          /\ rest' = SubSeq(rest, n + 1, Len(rest))
          /\ full' = full \o SubSeq(rest, 1, n)
    BY <1>3 DEF WriteChunk
  <2>2. chunk' \in Seq(Units) /\ rest' \in Seq(Units)
    BY <1>0, <2>1, CutInTwo
  <2>3. chunk = <<>> /\ main = "copy" /\ UNCHANGED <<days, main, fmt, buf, out>>
    BY <1>3 DEF WriteChunk
  <2>4. full' = full \o chunk' /\ full' \in Seq(Units)
    BY <1>0, <2>1, <2>2
  <2>5. buf \o chunk = buf
    BY <1>0, <2>3
  <2>6. Continued'
    <3> SUFFICES ASSUME NEW more \in Seq(Units)
                 PROVE  Lines(full' \o more) = out \o Lines(buf \o chunk' \o more)
      BY <2>3 DEF Continued
    <3>1. full' \o more = full \o (chunk' \o more) /\ chunk' \o more \in Seq(Units)
      BY <1>0, <2>2, <2>4
    <3>2. Lines(full \o (chunk' \o more)) = out \o Lines(buf \o (chunk' \o more))
      BY <2>3, <2>5, <3>1 DEF Continued
    <3>3. buf \o (chunk' \o more) = buf \o chunk' \o more
      BY <1>0, <2>2
    <3> QED
      BY <3>1, <3>2, <3>3
  <2>7. Accounted'
    <3>1. Lines(full \o chunk') = out \o Lines(buf \o chunk')
      BY <2>2, <2>3, <2>5 DEF Continued
    <3> QED
      BY <2>3, <2>4, <3>1 DEF Accounted
  <2> QED
    BY <1>0, <2>2, <2>3, <2>4, <2>6, <2>7 DEF DownloadTypeOK, Drained
<1>4. CASE DayCopied
  BY <1>4 DEF DayCopied, DownloadTypeOK, Continued, Accounted, Drained
<1>5. CASE CloseW
  BY <1>5 DEF CloseW, DownloadTypeOK, Continued, Accounted, Drained
<1>6. CASE Exit
  BY <1>6 DEF Exit, DownloadTypeOK, Continued, Accounted, Drained
<1>7. CASE Create
  BY <1>7 DEF Create, DownloadTypeOK, Continued, Accounted, Drained
<1>8. CASE Read
  <2>1. PICK n \in DOMAIN chunk :
          /\ buf' = buf \o SubSeq(chunk, 1, n)
          /\ chunk' = SubSeq(chunk, n + 1, Len(chunk))
    BY <1>8 DEF Read
  <2>2. UNCHANGED <<days, main, rest, fmt, out, full>> /\ chunk # <<>>
    BY <1>8 DEF Read
  <2> DEFINE got == SubSeq(chunk, 1, n)
  <2>3. got \in Seq(Units) /\ chunk' \in Seq(Units) /\ got \o chunk' = chunk /\ buf' = buf \o got
    BY <1>0, <2>1, CutInTwo
  <2> HIDE DEF got
  <2>4. buf' \in Seq(Units) /\ buf' \o chunk' = buf \o chunk
    <3>1. Associates(buf, got, chunk')
      BY <1>0, <2>3, Associative, Zenon
    <3> QED
      BY <1>0, <2>3, <3>1 DEF Associates
  <2> QED
    BY <1>0, <2>2, <2>3, <2>4 DEF DownloadTypeOK, Continued, Accounted, Drained
<1>9. CASE FormatLine
  <2> DEFINE line == Line(buf)
             Returns == UNCHANGED <<days, rest, chunk, full, buf, out>> /\ main' \in {main, "panicked"}
             Writes == /\ UNCHANGED <<days, rest, chunk, full, main>>
                       /\ buf' = AfterLine(buf) /\ out' = Append(out, line)
  <2>1. Returns \/ Writes
    BY <1>9 DEF FormatLine
  <2>2. CASE Returns
    BY <2>2 DEF DownloadTypeOK, Continued, Accounted, Drained
  <2>3. CASE Writes
    <3>1. line \in Seq(Units) /\ buf' \in Seq(Units)
      BY <1>0, <2>3, LineFacts
    <3>2. out' \in Seq(Seq(Units)) /\ out' = out \o <<line>>
      BY <1>0, <2>3, <3>1
    <3>3. ASSUME NEW more \in Seq(Units), HasLine \/ more = <<>>, buf \o more # <<>>
          PROVE  Lines(buf \o more) = <<line>> \o Lines(buf' \o more)
      <4>1. Line(buf \o more) = line /\ AfterLine(buf \o more) = AfterLine(buf) \o more
        <5>1. CASE HasLine
          <6>1. \E i \in 1 .. Len(buf) : buf[i] = Newline
            BY <5>1 DEF HasLine, Contains
          <6> QED
            BY <1>0, <6>1, LineOfConcat
        <5>2. CASE more = <<>>
          BY <1>0, <2>3, <3>1, <5>2
        <5> QED
          BY <3>3, <5>1, <5>2
      <4>2. buf \o more \in Seq(Units)
        BY <1>0
      <4>3. Lines(buf \o more) = <<Line(buf \o more)>> \o Lines(AfterLine(buf \o more))
        BY <3>3, <4>2, LinesStep
      <4> QED
        BY <2>3, <4>1, <4>3
    <3>4. HasLine => \A more \in Seq(Units) : buf \o more # <<>>
      <4> SUFFICES ASSUME HasLine, NEW more \in Seq(Units) PROVE buf \o more # <<>>
        OBVIOUS
      <4>1. buf # <<>>
        BY <1>0 DEF HasLine, Contains
      <4> QED
        BY <1>0, <4>1, ConcatEqualIffEmpty
    <3>5. ASSUME NEW more \in Seq(Units), HasLine \/ more = <<>>, buf \o more # <<>>
          PROVE  out \o Lines(buf \o more) = out' \o Lines(buf' \o more)
      <4>1. Lines(buf' \o more) \in Seq(Seq(Units))
        <5>1. buf' \o more \in Seq(Units)
          BY <3>1
        <5> QED
          BY <5>1, LinesType
      <4>2. <<line>> \in Seq(Seq(Units))
        BY <3>1
      <4> HIDE DEF line
      <4>3. out \o (<<line>> \o Lines(buf' \o more)) = (out \o <<line>>) \o Lines(buf' \o more)
        <5>1. Associates(out, <<line>>, Lines(buf' \o more))
          BY <1>0, <4>1, <4>2, Associative, Zenon
        <5> QED
          BY <5>1 DEF Associates
      <4>4. Lines(buf \o more) = <<line>> \o Lines(buf' \o more)
        BY <3>3, <3>5
      <4> QED
        BY <3>2, <4>3, <4>4
    <3>6. main \in {"fetch", "copy"} => HasLine
      BY <1>9 DEF FormatLine, AtEnd
    <3>7. Continued'
      <4> SUFFICES ASSUME main \in {"fetch", "copy"}, NEW more \in Seq(Units)
                   PROVE  Lines(full \o more) = out' \o Lines(buf' \o chunk \o more)
        BY <2>3 DEF Continued
      <4>1. /\ chunk \o more \in Seq(Units)
            /\ buf \o chunk \o more = buf \o (chunk \o more)
            /\ buf' \o chunk \o more = buf' \o (chunk \o more)
        <5>1. Associates(buf, chunk, more) /\ Associates(buf', chunk, more)
          BY <1>0, <3>1, Associative, Zenon
        <5> QED
          BY <1>0, <5>1 DEF Associates
      <4>2. out \o Lines(buf \o (chunk \o more)) = out' \o Lines(buf' \o (chunk \o more))
        BY <3>4, <3>5, <3>6, <4>1
      <4> QED
        BY <4>1, <4>2 DEF Continued
    <3>8. Accounted'
      <4>1. (HasLine \/ chunk = <<>>) /\ buf \o chunk # <<>>
        <5>1. CASE HasLine
          BY <1>0, <3>4, <5>1
        <5>2. CASE AtEnd /\ buf # <<>>
          BY <1>0, <5>2 DEF AtEnd
        <5> QED
          BY <1>9, <5>1, <5>2 DEF FormatLine
      <4>2. out \o Lines(buf \o chunk) = out' \o Lines(buf' \o chunk)
        BY <1>0, <3>5, <4>1
      <4> QED
        BY <2>3, <4>2 DEF Accounted
    <3> QED
      BY <1>0, <2>3, <3>1, <3>2, <3>7, <3>8 DEF DownloadTypeOK, Drained
  <2> QED
    BY <2>1, <2>2, <2>3
<1>10. CASE WriteFails
  BY <1>10 DEF WriteFails, DownloadTypeOK, Continued, Accounted, Drained
<1>11. CASE ScanEnds
  BY <1>11 DEF ScanEnds, DownloadTypeOK, Continued, Accounted, Drained
<1>12. CASE UNCHANGED vars
  BY <1>12 DEF vars, DownloadTypeOK, Continued, Accounted, Drained
<1> QED
  BY <1>1, <1>2, <1>3, <1>4, <1>5, <1>6, <1>7, <1>8, <1>9, <1>10, <1>11, <1>12
     DEF Next, Main, Formatter

(* A piece of a row is the end of the history.                             *)
TornIsEnd == torn \in BOOLEAN /\ (torn => fmt = "returned")

LEMMA NextTorn == TornIsEnd /\ [Next]_vars => TornIsEnd'
BY DEF TornIsEnd, Next, vars, Main, Formatter, Fetch, FetchFails, WriteChunk, DayCopied,
   CloseW, Exit, Create, Read, FormatLine, WriteFails, ScanEnds

(* The history has the first lines, and when main has returned only the *)
(* goroutine's lines are missing.                                       *)
LEMMA DownloadInvImplies == DownloadInv /\ TornIsEnd => LosesOnlyRead
<1> SUFFICES ASSUME DownloadInv, TornIsEnd PROVE LosesOnlyRead
  OBVIOUS
<1>1. out \in Seq(Seq(Units)) /\ buf \in Seq(Units) /\ chunk \in Seq(Units)
  BY DEF DownloadInv, DownloadTypeOK
<1>2. Lines(full) = out \o Lines(buf \o chunk)
  BY DEF DownloadInv, Accounted
<1>3. IsPrefix(out, Lines(full))
  <2> DEFINE tail == Lines(buf \o chunk)
             all == out \o tail
             n == Len(out)
  <2>1. tail \in Seq(Seq(Units))
    <3>1. buf \o chunk \in Seq(Units)
      BY <1>1
    <3> QED
      BY <3>1, LinesType
  <2> HIDE DEF tail
  <2>2. /\ all \in Seq(Seq(Units)) /\ Len(all) >= n /\ n \in Nat
        /\ \A i \in 1 .. n : all[i] = out[i]
    BY <1>1, <2>1
  <2> HIDE DEF all, n
  <2>3. SubSeq(all, 1, n) = SubSeq(out, 1, n)
    <3>1. SubSeq(all, 1, n) \in Seq(Seq(Units)) /\ Len(SubSeq(all, 1, n)) = n
          /\ \A i \in 1 .. n : SubSeq(all, 1, n)[i] = all[i]
      BY <2>2
    <3>2. SubSeq(out, 1, n) = out
      BY <1>1, SubSeqFull DEF n
    <3>3. Len(out) = n
      BY DEF n
    <3> DEFINE s == SubSeq(all, 1, n)
    <3> HIDE DEF s
    <3>4. s \in Seq(Seq(Units)) /\ Len(s) = n /\ \A i \in 1 .. Len(s) : s[i] = out[i]
      BY <2>2, <3>1 DEF s
    <3>5. s = out
      BY <1>1, <3>3, <3>4, SeqEqual
    <3> QED
      BY <3>2, <3>5 DEF s
  <2>4. all = Lines(full)
    BY <1>2 DEF all, tail
  <2> QED
    BY <2>2, <2>3, <2>4 DEF IsPrefix, n
<1>4. ASSUME main = "exited"
      PROVE  chunk = <<>> /\ rest = <<>> /\ out \o Lines(buf) = Lines(full)
  <2>1. chunk = <<>> /\ rest = <<>>
    BY <1>4 DEF DownloadInv, Drained
  <2>2. buf \o chunk = buf
    BY <1>1, <2>1
  <2> QED
    BY <1>2, <2>1, <2>2
<1> QED
  BY <1>3, <1>4 DEF LosesOnlyRead, TornIsEnd

(* Whatever the files hold and however they are cut, every line that the   *)
(* goroutine writes to the history (get_data.go: main and its goroutine)   *)
(* is the next line of what was downloaded, and when main returns nothing  *)
(* is missing but what the goroutine had read.                             *)
THEOREM HistoryIsAPrefix == Spec => []LosesOnlyRead
<1>1. DownloadInv /\ [Next]_vars => DownloadInv'
  BY NextDownload
<1>2. Init => TornIsEnd
  BY DEF Init, TornIsEnd
<1> QED
  BY <1>1, <1>2, NextTorn, InitDownload, DownloadInvImplies, PTL DEF Spec
=============================================================================

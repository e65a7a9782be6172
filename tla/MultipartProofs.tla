-------------------------- MODULE MultipartProofs ---------------------------
(***************************************************************************)
(* A taken stream that failed never ends well, and a waiting call holds    *)
(* back no more than a partial delimiter or a header block: proofs for     *)
(* every boundary, body, chunking and limit.                               *)
(***************************************************************************)
EXTENDS Multipart, WellFoundedInduction, NaturalsInduction, TLAPS

-----------------------------------------------------------------------------
(* Who may use the parser.                                                 *)

\* A call is under way only while the parse is open.
Calling == call # "none" => result = "open"

\* Once its data stream is taken nobody calls the parser but that stream.
Exclusive ==
    /\ call \in {"Stream", "Final"} => taken # "no"
    /\ taken # "no" => state = "StreamTaken" /\ call \in {"none", "Stream", "Final"} /\ ~holds

\* A stream aborts before it has seen the delimiter, and stays there.
AbortedInData == aborted => taken # "no" /\ dstate = "Data" /\ result # "end"

StreamInv == Calling /\ Exclusive /\ AbortedInData

\* What is shown of every step.
Kept == StreamInv' /\ (aborted => aborted')

USE DEF Kept, StreamInv, Calling, Exclusive, AbortedInData, Answer, vars, buffer, parser, stream

LEMMA FailKept ==
    ASSUME StreamInv, NEW e, e # "end", Fail(e), UNCHANGED <<state, holds>>,
           call # "none", call = "Stream" => dstate = "Data"
    PROVE  Kept
BY DEF Fail

\* A call that waits for a chunk and is a Stream has not found the delimiter.
LEMMA WaitingInData ==
    ASSUME NeedsChunk
    PROVE  call # "none" /\ (call = "Stream" => dstate = "Data")
BY DEF NeedsChunk, AtFirstBoundary, AtHeaders, AtData, AtBoundary, AtPadding, AtFinalBoundary, AtEpilogue

LEMMA TransportKept ==
    ASSUME StreamInv, Transport \/ Pending
    PROVE  Kept
<1>1. ASSUME NEW n \in 1..Len(wire), Chunk(n) PROVE Kept
  <2>1. CASE AtEpilogue
    BY <1>1, <2>1, FailKept, WaitingInData DEF Chunk
  <2>2. CASE ~AtEpilogue
    BY <1>1, <2>2 DEF Chunk
  <2> QED BY <2>1, <2>2
<1>2. CASE EmptyChunk
  <2>1. CASE empties = MaxEmpty
    BY <1>2, <2>1, FailKept, WaitingInData DEF EmptyChunk
  <2>2. CASE empties # MaxEmpty
    BY <1>2, <2>2 DEF EmptyChunk
  <2> QED BY <2>1, <2>2
<1>3. CASE EndOfBody
  <2>1. CASE AtHeaders /\ UNCHANGED <<state, call, loop, stream, result>>
    BY <1>3, <2>1 DEF EndOfBody
  <2>2. CASE AtFirstBoundary /\ Fail("InvalidFormat") /\ UNCHANGED state
    BY <1>3, <2>2, FailKept, WaitingInData DEF EndOfBody
  <2>3. CASE /\ AtEpilogue /\ call = "NextPart" /\ Answer
             /\ state' = "Done" /\ result' = "done" /\ UNCHANGED stream
    BY <1>3, <2>3 DEF EndOfBody
  <2>4. CASE /\ AtEpilogue /\ call = "Final" /\ Answer
             /\ dstate' = "Done" /\ result' = "end" /\ UNCHANGED <<state, taken, aborted>>
    BY <1>3, <2>4 DEF EndOfBody, AtEpilogue
  <2>5. CASE /\ Fail(IF call \in {"Stream", "Final"} THEN "IncompleteStreamPart" ELSE "IncompleteStream")
             /\ UNCHANGED state
    BY <1>3, <2>5, FailKept, WaitingInData DEF EndOfBody
  <2> QED BY <1>3, <2>1, <2>2, <2>3, <2>4, <2>5 DEF EndOfBody
<1>4. CASE ReadError
  BY <1>4, FailKept, WaitingInData DEF ReadError
<1>5. CASE Pending
  BY <1>5 DEF Pending
<1> QED BY <1>1, <1>2, <1>3, <1>4, <1>5 DEF Transport

LEMMA StepKept ==
    ASSUME StreamInv, Step
    PROVE  Kept
<1>1. CASE FindFirst
  <2>1. CASE Fail("InvalidFormat") /\ UNCHANGED <<buf, state>>
    BY <1>1, <2>1, FailKept DEF FindFirst, AtFirstBoundary
  <2>2. CASE state' = "ReadingBoundary" /\ UNCHANGED <<call, loop, stream, result>>
    BY <1>1, <2>2 DEF FindFirst, AtFirstBoundary
  <2> QED BY <1>1, <2>1, <2>2 DEF FindFirst
<1>2. CASE ReadHeaders
  <2>1. CASE UNCHANGED <<call, loop, stream, result>>
    BY <1>2, <2>1 DEF ReadHeaders
  <2>2. CASE \E e \in Errors : Fail(e)
    BY <1>2, <2>2, FailKept DEF ReadHeaders, AtHeaders, Errors
  <2> QED BY <1>2, <2>1, <2>2 DEF ReadHeaders, Errors
<1>3. CASE YieldHeader
  BY <1>3 DEF YieldHeader, FinishHeaders
<1>4. CASE SkipHeaders
  BY <1>4 DEF SkipHeaders, FinishHeaders
<1>5. CASE YieldNone
  BY <1>5 DEF YieldNone
<1>6. CASE Data
  <2>1. CASE taken = "no"
    BY <1>6, <2>1 DEF Data
  <2>2. CASE taken # "no"
    BY <1>6, <2>2 DEF Data, AtData
  <2> QED BY <2>1, <2>2
<1>7. CASE AfterBoundary
  <2>1. CASE Fail("InvalidFormat") /\ UNCHANGED <<buf, state>>
    BY <1>7, <2>1, FailKept DEF AfterBoundary, AtBoundary
  <2>2. CASE UNCHANGED <<call, stream, result>>
    BY <1>7, <2>2 DEF AfterBoundary, AtBoundary
  <2> QED BY <1>7, <2>1, <2>2 DEF AfterBoundary
<1>8. CASE ConsumePadding
  <2>1. CASE Fail("InvalidFormat") /\ UNCHANGED <<buf, state>>
    BY <1>8, <2>1, FailKept DEF ConsumePadding, AtPadding
  <2>2. CASE UNCHANGED <<call, taken, aborted, result>>
    BY <1>8, <2>2 DEF ConsumePadding, AtPadding
  <2> QED BY <1>8, <2>1, <2>2 DEF ConsumePadding
<1>9. CASE Epilogue
  BY <1>9, FailKept DEF Epilogue, AtEpilogue
<1>10. CASE FinalBoundary
  <2>1. CASE UNCHANGED <<call, taken, aborted, result>>
    BY <1>10, <2>1 DEF FinalBoundary, AtFinalBoundary
  <2>2. CASE \E e \in Errors : Fail(e)
    BY <1>10, <2>2, FailKept DEF FinalBoundary, AtFinalBoundary, Errors
  <2> QED BY <1>10, <2>1, <2>2 DEF FinalBoundary, Errors
<1>11. CASE FinalAborted
  BY <1>11, FailKept DEF FinalAborted
<1>12. CASE YieldPart
  BY <1>12 DEF YieldPart
<1> QED BY <1>1, <1>2, <1>3, <1>4, <1>5, <1>6, <1>7, <1>8, <1>9, <1>10, <1>11, <1>12 DEF Step

LEMMA CallerKept ==
    ASSUME StreamInv, Caller
    PROVE  Kept
BY DEF Caller, CallNextPart, CallPart, TakeDataStream, CallStream, IntoFinal, Idle

LEMMA StreamStep ==
    ASSUME StreamInv, [Next]_vars
    PROVE  Kept
<1>1. CASE UNCHANGED vars
  BY <1>1
<1> QED BY <1>1, TransportKept, StepKept, CallerKept DEF Next

\* A PartDataStream that failed before the delimiter stays failed, also as the final stream
\* into_final makes of it, which answers IncompleteStreamPart and never reads on: no such
\* stream reports a clean end.
THEOREM AbortedNeverEndsHolds == Spec => AbortedNeverEnds
<1>1. Init => StreamInv
  BY DEF Init
<1>2. StreamInv /\ [Next]_vars => StreamInv'
  BY StreamStep
<1>3. StreamInv /\ [Next]_vars => (aborted => aborted')
  BY StreamStep
<1>4. StreamInv => (aborted => result # "end")
  OBVIOUS
<1> QED BY <1>1, <1>2, <1>3, <1>4, PTL DEF Spec, AbortedNeverEnds

-----------------------------------------------------------------------------
(* What is in the buffer.                                                  *)

BufferTypes ==
    /\ {buf, wire} \subseteq Seq(Units)
    /\ cursor \in Nat
    /\ headers = [next |-> headers.next, start |-> headers.start, count |-> headers.count]
    /\ headers.start \in Nat

\* Of the preamble only what may start the first boundary is kept between two polls.
PreambleDropped ==
    state = "FindingFirstBoundary" =>
        Found(buf, FirstBoundary, 0) \/ Len(buf) < Len(FirstBoundary)

BufferInv == BufferTypes /\ PreambleDropped

-----------------------------------------------------------------------------
(* Least elements, and the offsets that the parser chooses.                *)

Below == {p \in Nat \X Nat : p[1] < p[2]}

LEMMA LeastElement ==
    ASSUME NEW T, T \subseteq Nat, T # {}
    PROVE  \E x \in T : \A y \in T : x <= y
<1>1. Below = OpToRel(<, Nat)
  BY Zenon DEF Below, OpToRel
<1>2. IsWellFoundedOn(Below, Nat)
  BY <1>1, NatLessThanWellFounded, Zenon
<1>3. PICK x \in T : \A y \in T : ~(<<y, x>> \in Below)
  BY <1>2, WFMin, Zenon
<1>4. ASSUME NEW y \in T PROVE x <= y
  <2>1. ~(<<y, x>> \in Below)
    BY <1>3
  <2>2. x \in Nat /\ y \in Nat
    OBVIOUS
  <2>3. ~(y < x)
    BY <2>1, <2>2 DEF Below
  <2> QED BY <2>2, <2>3
<1> QED BY <1>4

LEMMA DropType ==
    ASSUME NEW w \in Seq(Units), NEW n \in Nat
    PROVE  /\ Drop(w, n) \in Seq(Units)
           /\ n <= Len(w) => Len(Drop(w, n)) = Len(w) - n
BY DEF Drop

LEMMA ConcatType ==
    ASSUME NEW S, NEW s \in Seq(S), NEW t \in Seq(S)
    PROVE  s \o t \in Seq(S) /\ Len(s \o t) = Len(s) + Len(t)
OBVIOUS

LEMMA DelimiterType ==
    /\ Boundary \in Seq(Units) /\ Len(Boundary) >= 1
    /\ Len(FirstBoundary) = Len(Boundary) + 2
    /\ Len(Delimiter) = Len(Boundary) + 4
    /\ Len(Crlf \o Crlf) = 4
<1>1. Boundary \in Seq(Units) /\ Boundary # <<>>
  BY MultipartAssumption
<1>2. PICK S : Boundary \in Seq(S) /\ {CR, LF, Dash} \subseteq S
  <2>1. Boundary \in Seq(Units \cup {CR, LF, Dash})
    BY <1>1
  <2> QED BY <2>1
<1>3. <<Dash, Dash>> \in Seq(S) /\ Crlf \in Seq(S) /\ Len(Crlf) = 2
  BY <1>2 DEF Crlf
<1>4. FirstBoundary \in Seq(S) /\ Len(FirstBoundary) = Len(Boundary) + 2
  BY <1>2, <1>3 DEF FirstBoundary
<1>5. Len(Delimiter) = Len(Boundary) + 4
  <2>1. Len(Crlf \o FirstBoundary) = Len(Crlf) + Len(FirstBoundary)
    BY <1>3, <1>4, ConcatType, Zenon
  <2>2. Len(Boundary) \in Nat
    BY <1>1
  <2> HIDE DEF Crlf
  <2> QED BY <1>3, <1>4, <2>1, <2>2 DEF Delimiter
<1>6. Len(Boundary) >= 1
  BY <1>1
<1>7. Len(Crlf \o Crlf) = 4
  <2>1. Len(Crlf \o Crlf) = Len(Crlf) + Len(Crlf)
    BY <1>3, ConcatType, Zenon
  <2> QED BY <1>3, <2>1
<1> QED BY <1>1, <1>4, <1>5, <1>6, <1>7

LEMMA FindType ==
    ASSUME NEW w \in Seq(Units), NEW needle, Len(needle) \in Nat, NEW c \in Nat, Found(w, needle, c)
    PROVE  Find(w, needle, c) \in Nat /\ Find(w, needle, c) <= Len(w) - Len(needle)
<1>1. Hits(w, needle, c) \subseteq Nat /\ Hits(w, needle, c) # {}
  BY DEF Found, Hits
<1>2. \E i \in Hits(w, needle, c) : \A j \in Hits(w, needle, c) : i <= j
  BY <1>1, LeastElement
<1>3. Find(w, needle, c) \in Hits(w, needle, c)
  BY <1>2 DEF Find
<1> QED BY <1>3 DEF Hits

LEMMA PaddingType ==
    ASSUME NEW w \in Seq(Units)
    PROVE  Padding(w) \in 0..Len(w)
<1> DEFINE ends == {n \in 0..Len(w) : n = Len(w) \/ w[n + 1] # Space}
<1>1. ends \subseteq Nat /\ Len(w) \in ends
  OBVIOUS
<1>2. PICK n \in ends : \A m \in ends : n <= m
  <2> HIDE DEF ends
  <2> QED BY <1>1, LeastElement
<1>3. \A i \in 1..n : w[i] = Space
  <2>1. SUFFICES ASSUME NEW i \in 1..n PROVE w[i] = Space
    OBVIOUS
  <2>2. i - 1 \in 0..Len(w) /\ i - 1 < n
    BY DEF ends
  <2>3. i - 1 \notin ends
    BY <1>2, <2>2
  <2> QED BY <2>2, <2>3
<1>4. n \in 0..Len(w) /\ (n = Len(w) \/ w[n + 1] # Space)
  OBVIOUS
<1> QED BY <1>3, <1>4 DEF Padding

\* What is held back of a part's data is less than a delimiter.
LEMMA RetainType ==
    ASSUME NEW w \in Seq(Units)
    PROVE  Retain(w) \in Nat /\ Retain(w) < Len(Delimiter)
<1> DEFINE keep == Len(Delimiter) - 1
           starts == {n \in 0..keep : n <= Len(w) /\ Tail1(w, n) = SubSeq(Delimiter, 1, n)}
           below == {keep - n : n \in starts}
<1>1. keep \in Nat
  BY DelimiterType
<1>2. 0 \in starts
  <2>1. Tail1(w, 0) = <<>>
    BY DEF Tail1, Drop
  <2>2. SubSeq(Delimiter, 1, 0) = <<>>
    BY DelimiterType
  <2>3. 0 \in 0..keep /\ 0 <= Len(w)
    BY <1>1
  <2> HIDE DEF keep
  <2> QED BY <2>1, <2>2, <2>3
<1>3. PICK n \in starts : \A m \in starts : m <= n
  <2>1. below \subseteq Nat /\ below # {}
    BY <1>1, <1>2
  <2>2. PICK x \in below : \A y \in below : x <= y
    <3> HIDE DEF below
    <3> QED BY <2>1, LeastElement
  <2>3. PICK n \in starts : x = keep - n
    OBVIOUS
  <2>4. ASSUME NEW m \in starts PROVE m <= n
    <3>1. x <= keep - m
      BY <2>2
    <3> QED BY <1>1, <2>3, <3>1
  <2> QED BY <2>4
<1>4. CASE Len(w) > AdaptiveTail
  <2>1. Retain(w) = CHOOSE k \in starts : \A m \in starts : m <= k
    BY <1>4 DEF Retain
  <2>2. Retain(w) \in starts
    <3> HIDE DEF starts
    <3> QED BY <1>3, <2>1
  <2> QED BY <1>1, <2>2
<1>5. CASE ~(Len(w) > AdaptiveTail)
  BY <1>1, <1>5 DEF Retain
<1> QED BY <1>4, <1>5

-----------------------------------------------------------------------------
(* The buffer through every step.                                          *)

LEMMA BufferInit == Init => BufferInv
BY MultipartAssumption, DelimiterType DEF Init, BufferInv, BufferTypes, PreambleDropped, NoHeaders

LEMMA ChunkBuffer ==
    ASSUME StreamInv, BufferInv, NEW n \in 1..Len(wire), Chunk(n)
    PROVE  BufferInv'
<1> DEFINE w == buf \o SubSeq(wire, 1, n)
<1>1. wire \in Seq(Units) /\ buf \in Seq(Units)
  BY DEF BufferInv, BufferTypes
<1>2. SubSeq(wire, 1, n) \in Seq(Units)
  BY <1>1
<1>3. w \in Seq(Units)
  BY <1>1, <1>2
<1>4. Tail1(w, Len(FirstBoundary) - 1) \in Seq(Units)
      /\ Len(Tail1(w, Len(FirstBoundary) - 1)) < Len(FirstBoundary)
  <2> HIDE DEF w
  <2>1. Len(w) \in Nat /\ Len(FirstBoundary) - 1 \in Nat
    BY <1>3, DelimiterType
  <2>2. CASE Len(w) <= Len(FirstBoundary) - 1
    BY <1>3, <2>1, <2>2 DEF Tail1
  <2>3. CASE ~(Len(w) <= Len(FirstBoundary) - 1)
    <3>1. Len(w) - (Len(FirstBoundary) - 1) \in Nat
      BY <2>1, <2>3
    <3>2. Tail1(w, Len(FirstBoundary) - 1) = Drop(w, Len(w) - (Len(FirstBoundary) - 1))
      BY <2>3 DEF Tail1
    <3>3. Len(Drop(w, Len(w) - (Len(FirstBoundary) - 1))) = Len(w) - (Len(w) - (Len(FirstBoundary) - 1))
          /\ Drop(w, Len(w) - (Len(FirstBoundary) - 1)) \in Seq(Units)
      <4>1. Len(w) - (Len(FirstBoundary) - 1) <= Len(w)
        BY <2>1
      <4> QED BY <1>3, <3>1, <4>1, DropType
    <3> QED BY <2>1, <3>2, <3>3
  <2> QED BY <2>2, <2>3
<1>5. wire' \in Seq(Units)
  BY <1>1, DropType DEF Chunk
<1>6. cursor' \in Nat
  BY <1>1 DEF Chunk, ScanFrom, BufferInv, BufferTypes
<1>7. buf' \in Seq(Units)
  BY <1>1, <1>3, <1>4 DEF Chunk
<1>8. PreambleDropped'
  <2>1. SUFFICES ASSUME state = "FindingFirstBoundary"
                 PROVE  Found(buf', FirstBoundary, 0) \/ Len(buf') < Len(FirstBoundary)
    BY DEF PreambleDropped, Chunk, FirstBoundary
  <2>2. AtFirstBoundary /\ ~AtEpilogue
    BY <2>1 DEF Chunk, NeedsChunk, AtFirstBoundary, AtHeaders, AtData, AtBoundary, AtPadding, AtFinalBoundary, AtEpilogue
  <2> QED BY <2>2, <1>4 DEF Chunk
<1> QED BY <1>5, <1>6, <1>7, <1>8 DEF BufferInv, BufferTypes, Chunk

LEMMA DropBuffer ==
    ASSUME BufferInv, NEW n \in Nat, buf' = Drop(buf, n), UNCHANGED <<wire, cursor, headers>>,
           state' # "FindingFirstBoundary"
    PROVE  BufferInv'
BY DropType DEF BufferInv, BufferTypes, PreambleDropped

LEMMA SameBuffer ==
    ASSUME BufferInv, UNCHANGED <<buf, wire, cursor, headers>>,
           state' = "FindingFirstBoundary" => state = "FindingFirstBoundary"
    PROVE  BufferInv'
BY DEF BufferInv, BufferTypes, PreambleDropped, FirstBoundary

LEMMA FinishHeadersBuffer ==
    ASSUME BufferInv, FinishHeaders \/ (buf' = Drop(buf, headers.start) /\ headers' = NoHeaders),
           state' # "FindingFirstBoundary", UNCHANGED <<wire, cursor>>
    PROVE  BufferInv'
BY DropType DEF FinishHeaders, NoHeaders, BufferInv, BufferTypes, PreambleDropped

LEMMA ReadHeadersBuffer ==
    ASSUME BufferInv, ReadHeaders
    PROVE  BufferInv'
<1> DEFINE ended == Found(buf, Crlf \o Crlf, cursor)
           end == IF StartsWith(buf, Crlf) THEN 2 ELSE Find(buf, Crlf \o Crlf, cursor) + 4
           count == FieldCount(SubSeq(buf, 1, end))
<1>1. UNCHANGED <<buf, wire, state>> /\ cursor' = 0
  BY DEF ReadHeaders, EndRead
<1>2. state # "FindingFirstBoundary"
  BY DEF ReadHeaders, AtHeaders
<1>3. CASE UNCHANGED headers
  BY <1>1, <1>2, <1>3 DEF BufferInv, BufferTypes, PreambleDropped
<1>4. CASE /\ StartsWith(buf, Crlf) \/ ended
           /\ headers' = [next |-> 1, start |-> end, count |-> count]
  <2>1. end \in Nat
    <3>1. CASE StartsWith(buf, Crlf)
      BY <3>1
    <3>2. CASE ~StartsWith(buf, Crlf)
      <4>1. Find(buf, Crlf \o Crlf, cursor) \in Nat
        <5>1. buf \in Seq(Units) /\ cursor \in Nat /\ Found(buf, Crlf \o Crlf, cursor)
          BY <1>4, <3>2 DEF BufferInv, BufferTypes
        <5>2. Len(Crlf \o Crlf) \in Nat
          BY DelimiterType
        <5> QED BY <5>1, <5>2, FindType, Zenon
      <4> QED BY <3>2, <4>1
    <3> QED BY <3>1, <3>2
  <2> HIDE DEF end, count
  <2> QED BY <1>1, <1>2, <1>4, <2>1 DEF BufferInv, BufferTypes, PreambleDropped
<1>5. UNCHANGED headers \/ ( /\ StartsWith(buf, Crlf) \/ ended
                             /\ headers' = [next |-> 1, start |-> end, count |-> count])
  BY DEF ReadHeaders
<1> QED BY <1>3, <1>4, <1>5

LEMMA DataBuffer ==
    ASSUME StreamInv, BufferInv, Data
    PROVE  BufferInv'
<1> DEFINE hit == Found(buf, Delimiter, 0)
           n == IF hit THEN Find(buf, Delimiter, 0) ELSE Len(buf) - Retain(buf)
           k == IF hit THEN n + Len(Delimiter) ELSE n
<1>1. buf \in Seq(Units) /\ Len(buf) \in Nat
  BY DEF BufferInv, BufferTypes
<1>2. k \in Nat
  <2>1. CASE hit
    BY <1>1, <2>1, FindType, DelimiterType
  <2>2. CASE ~hit
    <3>1. ~KeepAll(buf)
      BY DEF Data, NeedsChunk
    <3>2. Retain(buf) \in Nat /\ ~(Len(buf) <= Retain(buf))
      BY <1>1, <2>2, <3>1, RetainType DEF KeepAll
    <3> QED BY <1>1, <2>2, <3>2
  <2> QED BY <2>1, <2>2
<1>3. buf' = Drop(buf, k) /\ UNCHANGED <<wire, cursor, headers>>
  BY DEF Data
<1>4. state' # "FindingFirstBoundary"
  BY DEF Data, AtData
<1> HIDE DEF k
<1> QED BY <1>2, <1>3, <1>4, DropBuffer

LEMMA StepBuffer ==
    ASSUME StreamInv, BufferInv, Step
    PROVE  BufferInv'
<1>0. buf \in Seq(Units) /\ Len(buf) \in Nat
  BY DEF BufferInv, BufferTypes
<1>1. CASE FindFirst
  <2>1. CASE Found(buf, FirstBoundary, 0)
    <3>1. Find(buf, FirstBoundary, 0) + Len(FirstBoundary) \in Nat
      BY <1>0, <2>1, FindType, DelimiterType
    <3> QED BY <1>1, <2>1, <3>1, DropBuffer DEF FindFirst
  <2>2. CASE ~Found(buf, FirstBoundary, 0)
    BY <1>1, <2>2, SameBuffer DEF FindFirst
  <2> QED BY <2>1, <2>2
<1>2. CASE ReadHeaders
  BY <1>2, ReadHeadersBuffer
<1>3. CASE YieldHeader
  <2>1. CASE headers.next <= headers.count
    BY <1>3, <2>1 DEF YieldHeader, BufferInv, BufferTypes, PreambleDropped, FirstBoundary
  <2>2. CASE ~(headers.next <= headers.count)
    BY <1>3, <2>2, FinishHeadersBuffer DEF YieldHeader, FinishHeaders
  <2> QED BY <2>1, <2>2
<1>4. CASE SkipHeaders
  BY <1>4, FinishHeadersBuffer DEF SkipHeaders, FinishHeaders
<1>5. CASE YieldNone
  BY <1>5, SameBuffer DEF YieldNone
<1>6. CASE Data
  BY <1>6, DataBuffer
<1>7. CASE AfterBoundary
  <2>1. CASE buf' = Drop(buf, 2)
    BY <1>7, <2>1, DropBuffer DEF AfterBoundary, AtBoundary, Fail
  <2>2. CASE UNCHANGED <<buf, state>>
    BY <1>7, <2>2, SameBuffer DEF AfterBoundary
  <2> QED BY <1>7, <2>1, <2>2 DEF AfterBoundary
<1>8. CASE ConsumePadding
  <2>1. state # "FindingFirstBoundary"
    BY <1>8 DEF ConsumePadding, AtPadding
  <2>2. state' # "FindingFirstBoundary"
    BY <1>8, <2>1 DEF ConsumePadding
  <2>3. CASE buf' = Drop(buf, Padding(buf))
    <3>1. Padding(buf) \in Nat
      BY <1>0, PaddingType
    <3> QED BY <1>8, <2>2, <2>3, <3>1, DropBuffer DEF ConsumePadding
  <2>4. CASE buf' = Drop(buf, 2)
    BY <1>8, <2>2, <2>4, DropBuffer DEF ConsumePadding
  <2>5. CASE UNCHANGED <<buf, state>>
    BY <1>8, <2>5, SameBuffer DEF ConsumePadding
  <2> QED BY <1>8, <2>3, <2>4, <2>5 DEF ConsumePadding
<1>9. CASE Epilogue
  BY <1>9, SameBuffer DEF Epilogue
<1>10. CASE FinalBoundary
  <2>1. CASE buf' = Drop(buf, 2)
    BY <1>10, <2>1, DropBuffer DEF FinalBoundary, AtFinalBoundary
  <2>2. CASE UNCHANGED buf
    BY <1>10, <2>2, SameBuffer DEF FinalBoundary
  <2> QED BY <1>10, <2>1, <2>2 DEF FinalBoundary
<1>11. CASE FinalAborted
  BY <1>11, SameBuffer DEF FinalAborted
<1>12. CASE YieldPart
  BY <1>12, SameBuffer DEF YieldPart
<1> QED BY <1>1, <1>2, <1>3, <1>4, <1>5, <1>6, <1>7, <1>8, <1>9, <1>10, <1>11, <1>12 DEF Step

LEMMA CallerBuffer ==
    ASSUME BufferInv, Caller
    PROVE  BufferInv'
<1>1. CASE TakeDataStream
  <2>1. CASE state = "ReadingPartHeaders" /\ headers # NoHeaders
    BY <1>1, <2>1, FinishHeadersBuffer DEF TakeDataStream
  <2>2. CASE ~(state = "ReadingPartHeaders" /\ headers # NoHeaders)
    BY <1>1, <2>2, SameBuffer DEF TakeDataStream
  <2> QED BY <2>1, <2>2
<1>2. CASE CallNextPart \/ CallPart \/ CallStream \/ IntoFinal
  BY <1>2, SameBuffer DEF CallNextPart, CallPart, CallStream, IntoFinal
<1> QED BY <1>1, <1>2 DEF Caller

LEMMA BufferStep ==
    ASSUME StreamInv, BufferInv, [Next]_vars
    PROVE  BufferInv'
<1>1. CASE EmptyChunk \/ ReadError \/ Pending \/ UNCHANGED vars
  BY <1>1, SameBuffer DEF EmptyChunk, ReadError, Pending
<1>2. CASE EndOfBody
  <2>1. state' # "FindingFirstBoundary" \/ UNCHANGED state
    BY <1>2 DEF EndOfBody
  <2> QED BY <1>2, <2>1, SameBuffer DEF EndOfBody
<1> QED BY <1>1, <1>2, ChunkBuffer, StepBuffer, CallerBuffer DEF Next, Transport

\* Between polls, however the transport cuts the body, the buffer holds less than one delimiter,
\* or a header block within max_buffer_size: part data and the preamble go through it
\* (StreamBuffer, search_data, poll_find_boundary) and are never collected in it.
THEOREM BufferBoundedHolds == Spec => []BufferBounded
<1>1. Init => StreamInv /\ BufferInv
  BY BufferInit DEF Init
<1>2. StreamInv /\ BufferInv /\ [Next]_vars => StreamInv' /\ BufferInv'
  BY StreamStep, BufferStep
<1>3. StreamInv /\ BufferInv => BufferBounded
  <2>1. SUFFICES ASSUME StreamInv, BufferInv, NeedsChunk
                 PROVE  Len(buf) < Len(Delimiter) \/ (AtHeaders /\ Len(buf) <= MaxBuffer)
    BY DEF BufferBounded
  <2>2. buf \in Seq(Units) /\ Len(buf) \in Nat /\ Len(Delimiter) \in Nat
        /\ Len(Delimiter) >= 5 /\ Len(FirstBoundary) < Len(Delimiter) /\ Len(FirstBoundary) \in Nat
    <3>1. buf \in Seq(Units) /\ Len(buf) \in Nat /\ Len(Boundary) \in Nat
      BY <2>1, DelimiterType DEF BufferInv, BufferTypes
    <3> QED BY <3>1, DelimiterType
  <2>3. CASE AtFirstBoundary /\ ~Found(buf, FirstBoundary, 0)
    BY <2>1, <2>2, <2>3 DEF AtFirstBoundary, BufferInv, PreambleDropped
  <2>4. CASE AtHeaders /\ (Len(buf) < 2 \/ Len(buf) <= MaxBuffer)
    BY <2>2, <2>4
  <2>5. CASE KeepAll(buf)
    BY <2>2, <2>5, RetainType DEF KeepAll
  <2>6. CASE buf \in {<<>>, <<Dash>>, <<CR>>} \/ Len(buf) < 2
    <3>1. Len(<<>>) = 0 /\ Len(<<Dash>>) = 1 /\ Len(<<CR>>) = 1
      OBVIOUS
    <3>2. Len(buf) < 2
      BY <2>6, <3>1
    <3> QED BY <2>2, <3>2
  <2> QED BY <2>1, <2>3, <2>4, <2>5, <2>6 DEF NeedsChunk
<1> QED BY <1>1, <1>2, <1>3, PTL DEF Spec
=============================================================================

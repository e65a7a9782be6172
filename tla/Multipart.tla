----------------------------- MODULE Multipart ------------------------------
(***************************************************************************)
(* The streaming multipart/form-data parser of crates/s3s-multipart: the   *)
(* byte buffer, the Multipart state machine, Part, PartDataStream and      *)
(* FinalPartDataStream, driven by a caller that may read a part, drop it,  *)
(* drop a call that is pending, or take the rest of the body as a stream.  *)
(*                                                                         *)
(* The body is a sequence of units, the bytes the parser tells apart.  A   *)
(* call is a loop around poll_stream: it goes on when a chunk is ready and *)
(* starts again from the top of poll after Pending.  What it keeps across  *)
(* a Pending is the state below; `loop' is what it does not keep.          *)
(***************************************************************************)
EXTENDS Integers, Sequences, SequencesExt

CONSTANTS Body,          \* the bodies to parse
          Boundary,      \* the boundary, a nonempty sequence of units
          MaxBuffer,     \* max_buffer_size
          AdaptiveTail,  \* ADAPTIVE_TAIL_THRESHOLD
          MaxEmpty,      \* MAX_CONSECUTIVE_EMPTY_CHUNKS
          MaxHeaders     \* MAX_HEADERS

CR == "cr"
LF == "lf"
Dash == "-"
Space == "sp"            \* ' ' or '\t'
Field == "field"         \* one whole header field
Crlf == <<CR, LF>>
FirstBoundary == <<Dash, Dash>> \o Boundary
Delimiter == Crlf \o FirstBoundary

\* The units that occur.
Units == UNION {Range(w) : w \in Body \cup {Boundary}}

ASSUME MultipartAssumption ==
    /\ Body \cup {Boundary} \subseteq Seq(Units)
    /\ Boundary # <<>>
    /\ \A i \in 1..Len(Boundary) : Boundary[i] \notin {CR, LF}
    /\ {MaxBuffer, AdaptiveTail, MaxEmpty, MaxHeaders} \subseteq Nat

VARIABLES
    body,     \* the body being parsed
    wire,     \* what the transport has not delivered yet
    buf,      \* StreamBuffer.buf
    eof,      \* StreamBuffer.eof
    cursor,   \* read_until_cursor; 0 while read_until_active is false
    empties,  \* StreamBuffer.empty_chunks
    state,    \* Multipart.state
    headers,  \* Multipart.headers
    handed,   \* part_handed_out
    call,     \* the call the caller waits for
    loop,     \* "padding" inside poll_consume_padding_and_crlf, else "top"
    holds,    \* the caller has a Part
    taken,    \* "no", or the kind of stream take_data_stream led to
    dstate,   \* DataState of that stream
    aborted,  \* the PartDataStream ended abnormally
    parts,    \* what the caller has seen of each part
    result    \* how the parse ended

buffer == <<buf, eof, cursor, empties>>
parser == <<state, headers, handed>>
stream == <<taken, dstate, aborted>>
vars == <<body, wire, buffer, parser, call, loop, holds, stream, parts, result>>

Errors == {"InvalidFormat", "IncompleteStream", "IncompleteStreamPart", "HeaderSizeExceeded",
           "StreamPartNotLast", "StreamReadFailed"}
NoHeaders == [next |-> 0, start |-> 0, count |-> 0]

TypeOK ==
    /\ body \in Body
    /\ wire = SubSeq(body, Len(body) - Len(wire) + 1, Len(body))
    /\ Len(buf) <= Len(body)
    /\ eof \in BOOLEAN
    /\ cursor \in 0..Len(buf)
    /\ empties \in 0..MaxEmpty
    /\ state \in {"FindingFirstBoundary", "ReadingPartHeaders", "ReadingPartData", "ReadingBoundary",
                  "ReadingClosingDelimiter", "ReadingEpilogue", "Done", "StreamTaken"}
    /\ headers.next \in 0..MaxHeaders + 1 /\ headers.start \in 0..Len(buf)
    /\ handed \in BOOLEAN
    /\ call \in {"none", "NextPart", "NextHeader", "NextData", "Stream", "Final"}
    /\ loop \in {"top", "padding"}
    /\ holds \in BOOLEAN
    /\ taken \in {"no", "stream", "final"}
    /\ dstate \in {"Data", "AfterBoundary", "FinalCRLF", "Eof", "Done"}
    /\ aborted \in BOOLEAN
    /\ result \in {"open", "done", "end"} \cup Errors

Init ==
    /\ body \in Body
    /\ wire = body
    /\ buf = <<>> /\ eof = FALSE /\ cursor = 0 /\ empties = 0
    /\ state = "FindingFirstBoundary" /\ headers = NoHeaders /\ handed = FALSE
    /\ call = "none" /\ loop = "top" /\ holds = FALSE
    /\ taken = "no" /\ dstate = "Data" /\ aborted = FALSE
    /\ parts = <<>>
    /\ result = "open"

-----------------------------------------------------------------------------
(* Sequences.                                                              *)

Drop(w, n) == SubSeq(w, n + 1, Len(w))
Tail1(w, n) == IF Len(w) <= n THEN w ELSE Drop(w, Len(w) - n)
StartsWith(w, p) == IsPrefix(p, w)
\* memmem::find: the offset of the first needle in w from offset c on.
Hits(w, needle, c) == {i \in c..Len(w) - Len(needle) : StartsWith(Drop(w, i), needle)}
Found(w, needle, c) == Len(w) >= Len(needle) /\ Hits(w, needle, c) # {}
Find(w, needle, c) == CHOOSE i \in Hits(w, needle, c) : \A j \in Hits(w, needle, c) : i <= j
Padding(w) == CHOOSE n \in 0..Len(w) :
                 /\ \A i \in 1..n : w[i] = Space
                 /\ n = Len(w) \/ w[n + 1] # Space

\* Mutant: holds back nothing of a large buffer.
RetainShort(w) ==
    IF Len(w) > AdaptiveTail THEN 0 ELSE Len(Delimiter) - 1

\* The bytes of w that search_data holds back when w has no delimiter: a whole
\* delimiter but one byte, or just the longest suffix that may start one.
Retain(w) ==
    LET keep == Len(Delimiter) - 1
        starts == {n \in 0..keep : n <= Len(w) /\ Tail1(w, n) = SubSeq(Delimiter, 1, n)}
    IN IF Len(w) > AdaptiveTail THEN CHOOSE n \in starts : \A m \in starts : m <= n ELSE keep

KeepAll(w) == ~Found(w, Delimiter, 0) /\ Len(w) <= Retain(w)

Fields(w) == Len(SelectSeq(w, LAMBDA u : u = Field))
\* parse_header_block, over httparse: whole fields, of which the first MaxHeaders
\* are kept; what follows them is not read, by httparse or by the fallback.
ValidBlock(block) ==
    \A i \in 1..Len(block) :
        block[i] \in {Field, CR, LF} \/ Fields(SubSeq(block, 1, i - 1)) >= MaxHeaders
FieldCount(block) == IF Fields(block) <= MaxHeaders THEN Fields(block) ELSE MaxHeaders

-----------------------------------------------------------------------------
(* Where a call is.                                                        *)

AtFirstBoundary == call = "NextPart" /\ state = "FindingFirstBoundary"
AtHeaders ==
    /\ state = "ReadingPartHeaders" /\ headers = NoHeaders
    /\ call \in {"NextHeader", "NextData"} \/ (call = "NextPart" /\ handed)
AtData ==
    \/ state = "ReadingPartData" /\ call \in {"NextPart", "NextData"}
    \/ call \in {"Stream", "Final"} /\ dstate = "Data" /\ ~aborted
AtBoundary == call = "NextPart" /\ state = "ReadingBoundary" /\ loop = "top"
AtPadding ==
    \/ call = "NextPart" /\ state = "ReadingBoundary" /\ loop = "padding"
    \/ call = "NextPart" /\ state = "ReadingClosingDelimiter"
    \/ call = "Final" /\ dstate = "FinalCRLF"
AtFinalBoundary == call = "Final" /\ dstate = "AfterBoundary"
AtEpilogue ==
    \/ call = "NextPart" /\ state = "ReadingEpilogue"
    \/ call = "Final" /\ dstate = "Eof"

\* The call needs another chunk to go on.
NeedsChunk ==
    \/ AtFirstBoundary /\ ~eof /\ ~Found(buf, FirstBoundary, 0)
    \/ /\ AtHeaders /\ ~eof
       /\ \/ Len(buf) < 2
          \/ /\ ~StartsWith(buf, Crlf)
             /\ ~Found(buf, Crlf \o Crlf, cursor)
             /\ Len(buf) <= MaxBuffer
    \/ AtData /\ KeepAll(buf)
    \/ AtBoundary /\ buf \in {<<>>, <<Dash>>, <<CR>>}
    \/ AtPadding /\ buf \in {<<>>, <<CR>>}
    \/ AtFinalBoundary /\ Len(buf) < 2
    \/ AtEpilogue /\ buf = <<>>

-----------------------------------------------------------------------------
(* The end of a call.                                                      *)

Answer == call' = "none" /\ loop' = "top"
\* An error ends the parse; one of a PartDataStream is remembered by the stream.
Fail(e) ==
    /\ Answer
    /\ IF call = "Stream" THEN aborted' = TRUE /\ UNCHANGED result
                          ELSE result' = e /\ UNCHANGED aborted
    /\ UNCHANGED <<taken, dstate>>

SeePart(rec) == parts' = [parts EXCEPT ![Len(parts)] = rec]

-----------------------------------------------------------------------------
(* poll_stream.                                                            *)

\* Mutant: looks on at the new chunk.
ScanNewChunk(w) == Len(w)

\* poll_read_until looks on from where a needle that spans the chunks may start.
ScanFrom(w) == IF Len(w) < 3 THEN 0 ELSE Len(w) - 3

\* The next n units arrive; the preamble is thrown away but for a partial match.
Chunk(n) ==
    LET w == buf \o SubSeq(wire, 1, n) IN
    /\ NeedsChunk
    /\ wire' = Drop(wire, n)
    /\ empties' = 0
    /\ IF AtEpilogue
       THEN Fail("StreamPartNotLast") /\ UNCHANGED <<buf, cursor>>
       ELSE /\ buf' = IF AtFirstBoundary /\ ~Found(w, FirstBoundary, 0)
                      THEN Tail1(w, Len(FirstBoundary) - 1) ELSE w
            /\ cursor' = IF AtHeaders /\ Len(buf) >= 2 THEN ScanFrom(buf) ELSE 0
            /\ UNCHANGED <<call, loop, stream, result>>
    /\ UNCHANGED <<body, eof, parser, holds, parts>>

\* Mutant: skips empty chunks for ever.
EmptyChunkForgiven ==
    /\ NeedsChunk
    /\ empties' = (empties + 1) % (MaxEmpty + 1)
    /\ UNCHANGED <<body, wire, buf, eof, cursor, parser, call, loop, holds, stream, parts, result>>

\* A chunk without bytes: skipped, and an error when there are too many in a row.
EmptyChunk ==
    /\ NeedsChunk
    /\ IF empties = MaxEmpty
       THEN Fail("StreamReadFailed") /\ UNCHANGED empties
       ELSE empties' = empties + 1 /\ UNCHANGED <<call, loop, stream, result>>
    /\ UNCHANGED <<body, wire, buf, eof, cursor, parser, holds, parts>>


EndOfBody ==
    /\ NeedsChunk /\ wire = <<>>
    /\ eof' = TRUE
    /\ \/ AtHeaders /\ UNCHANGED <<state, call, loop, stream, result>>
       \/ AtFirstBoundary /\ Fail("InvalidFormat") /\ UNCHANGED state
       \/ /\ AtEpilogue /\ call = "NextPart" /\ Answer
          /\ state' = "Done" /\ result' = "done" /\ UNCHANGED stream
       \/ /\ AtEpilogue /\ call = "Final" /\ Answer
          /\ dstate' = "Done" /\ result' = "end" /\ UNCHANGED <<state, taken, aborted>>
       \/ /\ AtData \/ AtBoundary \/ AtPadding \/ AtFinalBoundary
          /\ Fail(IF call \in {"Stream", "Final"} THEN "IncompleteStreamPart" ELSE "IncompleteStream")
          /\ UNCHANGED state
    /\ UNCHANGED <<body, wire, buf, cursor, empties, headers, handed, holds, parts>>

ReadError ==
    /\ NeedsChunk
    /\ Fail("StreamReadFailed")
    /\ UNCHANGED <<body, wire, buffer, parser, holds, parts>>

\* Pending, of the transport or after EMPTY_CHUNKS_PER_POLL empty chunks: the
\* next poll starts at the top, or the caller drops the call.
Pending ==
    /\ NeedsChunk
    /\ loop' = "top"
    /\ call' \in {call, "none"}
    /\ UNCHANGED <<body, wire, buffer, parser, holds, stream, parts, result>>

-----------------------------------------------------------------------------
(* The steps of Multipart.                                                 *)

FindFirst ==
    /\ AtFirstBoundary /\ ~NeedsChunk
    /\ IF Found(buf, FirstBoundary, 0)
       THEN /\ buf' = Drop(buf, Find(buf, FirstBoundary, 0) + Len(FirstBoundary))
            /\ state' = "ReadingBoundary"
            /\ UNCHANGED <<call, loop, stream, result>>
       ELSE Fail("InvalidFormat") /\ UNCHANGED <<buf, state>>
    /\ UNCHANGED <<body, wire, eof, cursor, empties, headers, handed, holds, parts>>

\* read_until_active is cleared on every Ready.
EndRead == cursor' = 0

\* poll_ensure_headers, once poll_read_header_block is ready.
ReadHeaders ==
    LET ended == Found(buf, Crlf \o Crlf, cursor)
        end == IF StartsWith(buf, Crlf) THEN 2 ELSE Find(buf, Crlf \o Crlf, cursor) + 4
        block == SubSeq(buf, 1, end)
        Refuse(e) == Fail(e) /\ UNCHANGED <<headers, parts>>
    IN
    /\ AtHeaders /\ ~NeedsChunk
    /\ EndRead
    /\ IF StartsWith(buf, Crlf) \/ ended
       THEN IF end > MaxBuffer /\ ~StartsWith(buf, Crlf) THEN Refuse("HeaderSizeExceeded")
            ELSE IF ~ValidBlock(block) THEN Refuse("InvalidFormat")
            ELSE /\ headers' = [next |-> 1, start |-> end, count |-> FieldCount(block)]
                 /\ SeePart([Last(parts) EXCEPT !.block = block])
                 /\ UNCHANGED <<call, loop, stream, result>>
       ELSE Refuse(IF Len(buf) > MaxBuffer THEN "HeaderSizeExceeded" ELSE "IncompleteStream")
    /\ UNCHANGED <<body, wire, buf, eof, empties, state, handed, holds>>

\* finish_headers, when there are headers to finish.
FinishHeaders ==
    /\ buf' = Drop(buf, headers.start)
    /\ headers' = NoHeaders
    /\ state' = "ReadingPartData"
    /\ handed' = FALSE

\* next_header_inner: the next field, or the end of the block.
YieldHeader ==
    /\ call = "NextHeader" /\ headers # NoHeaders
    /\ IF headers.next <= headers.count
       THEN headers' = [headers EXCEPT !.next = @ + 1] /\ UNCHANGED <<buf, state, handed>>
       ELSE FinishHeaders
    /\ Answer
    /\ UNCHANGED <<body, wire, eof, cursor, empties, holds, stream, parts, result>>

\* Headers left unread when the caller asks for data or for the next part.
SkipHeaders ==
    /\ call = "NextData" \/ (call = "NextPart" /\ handed)
    /\ headers # NoHeaders
    /\ FinishHeaders
    /\ UNCHANGED <<body, wire, eof, cursor, empties, call, loop, holds, stream, parts, result>>

\* A part past its headers has no more of them, one past its data no more data.
YieldNone ==
    /\ \/ call = "NextHeader" /\ state # "ReadingPartHeaders"
       \/ call = "NextData" /\ state \notin {"ReadingPartHeaders", "ReadingPartData"}
       \/ call = "Stream" /\ (dstate # "Data" \/ aborted)
    /\ Answer
    /\ IF call = "NextHeader" \/ aborted THEN UNCHANGED parts
                              ELSE SeePart([Last(parts) EXCEPT !.whole = TRUE])
    /\ UNCHANGED <<body, wire, buffer, parser, holds, stream, result>>

\* poll_next_part_data_chunk, and poll_data of both streams, with data to give:
\* up to the delimiter, which is consumed, or all but what may start one.
Data ==
    LET hit == Found(buf, Delimiter, 0)
        n == IF hit THEN Find(buf, Delimiter, 0) ELSE Len(buf) - Retain(buf)
    IN
    /\ AtData /\ ~NeedsChunk
    /\ buf' = Drop(buf, IF hit THEN n + Len(Delimiter) ELSE n)
    /\ IF taken = "no"
       THEN state' = (IF hit THEN "ReadingBoundary" ELSE state) /\ UNCHANGED dstate
       ELSE dstate' = (IF hit THEN "AfterBoundary" ELSE dstate) /\ UNCHANGED state
    /\ IF n = 0 \/ call = "NextPart"
       THEN UNCHANGED <<call, loop, parts>>
       ELSE Answer /\ SeePart([Last(parts) EXCEPT !.data = @ \o SubSeq(buf, 1, n)])
    /\ UNCHANGED <<body, wire, eof, cursor, empties, headers, handed, holds, taken, aborted, result>>

\* poll_advance_after_boundary, up to the loop over the padding.
AfterBoundary ==
    /\ AtBoundary /\ ~NeedsChunk
    /\ \/ /\ StartsWith(buf, <<Dash, Dash>>)
          /\ buf' = Drop(buf, 2) /\ state' = "ReadingClosingDelimiter"
          /\ UNCHANGED <<call, loop, stream, result>>
       \/ /\ StartsWith(buf, Crlf)
          /\ buf' = Drop(buf, 2) /\ state' = "ReadingPartHeaders"
          /\ UNCHANGED <<call, loop, stream, result>>
       \/ /\ buf[1] = Space
          /\ loop' = "padding" /\ UNCHANGED <<buf, state, call, stream, result>>
       \/ /\ buf[1] # Space /\ ~StartsWith(buf, <<Dash, Dash>>) /\ ~StartsWith(buf, Crlf)
          /\ Fail("InvalidFormat") /\ UNCHANGED <<buf, state>>
    /\ UNCHANGED <<body, wire, eof, cursor, empties, headers, handed, holds, parts>>

\* poll_consume_padding_and_crlf and what its callers do next; FinalCRLF of the
\* final stream is the same loop.
ConsumePadding ==
    /\ AtPadding /\ ~NeedsChunk
    /\ \/ /\ buf[1] = Space
          /\ buf' = Drop(buf, Padding(buf))
          /\ UNCHANGED <<state, call, loop, stream, result>>
       \/ /\ StartsWith(buf, Crlf)
          /\ buf' = Drop(buf, 2) /\ loop' = "top"
          /\ IF call = "Final"
             THEN dstate' = "Eof" /\ UNCHANGED state
             ELSE /\ state' = IF state = "ReadingBoundary" THEN "ReadingPartHeaders" ELSE "ReadingEpilogue"
                  /\ UNCHANGED dstate
          /\ UNCHANGED <<call, taken, aborted, result>>
       \/ /\ buf[1] # Space /\ ~StartsWith(buf, Crlf)
          /\ Fail("InvalidFormat") /\ UNCHANGED <<buf, state>>
    /\ UNCHANGED <<body, wire, eof, cursor, empties, headers, handed, holds, parts>>

\* Bytes in the buffer behind the closing delimiter.
Epilogue ==
    /\ AtEpilogue /\ ~NeedsChunk
    /\ Fail("StreamPartNotLast")
    /\ UNCHANGED <<body, wire, buffer, parser, holds, parts>>

\* Mutant: a taken stream ends at any delimiter.
FinalAnyBoundary ==
    /\ AtFinalBoundary /\ ~NeedsChunk
    /\ Answer
    /\ dstate' = "Done" /\ result' = "end"
    /\ UNCHANGED <<body, wire, buffer, parser, holds, taken, aborted, parts>>

\* AfterBoundary of the final stream: only the closing delimiter will do.
FinalBoundary ==
    /\ AtFinalBoundary /\ ~NeedsChunk
    /\ IF StartsWith(buf, <<Dash, Dash>>)
       THEN buf' = Drop(buf, 2) /\ dstate' = "FinalCRLF" /\ UNCHANGED <<call, loop, taken, aborted, result>>
       ELSE /\ Fail(IF buf[1] \in {CR, Space} THEN "StreamPartNotLast" ELSE "InvalidFormat")
            /\ UNCHANGED buf
    /\ UNCHANGED <<body, wire, eof, cursor, empties, parser, holds, parts>>

\* The final stream of an aborted one does not read on.
FinalAborted ==
    /\ call = "Final" /\ dstate = "Data" /\ aborted
    /\ Fail("IncompleteStreamPart")
    /\ UNCHANGED <<body, wire, buffer, parser, holds, parts>>

\* next_part at a part that nobody has seen.
YieldPart ==
    /\ call = "NextPart" /\ state = "ReadingPartHeaders" /\ ~handed
    /\ handed' = TRUE
    /\ holds' = TRUE
    /\ parts' = Append(parts, [block |-> <<>>, data |-> <<>>, whole |-> FALSE])
    /\ Answer
    /\ UNCHANGED <<body, wire, buffer, state, headers, stream, result>>

-----------------------------------------------------------------------------
(* The caller.                                                             *)

Idle == call = "none" /\ result = "open"

\* Asking for the next part drops the one the caller has.
CallNextPart ==
    /\ Idle /\ taken = "no"
    /\ call' = "NextPart" /\ holds' = FALSE
    /\ UNCHANGED <<body, wire, buffer, parser, loop, stream, parts, result>>

CallPart ==
    /\ Idle /\ holds
    /\ call' \in {"NextHeader", "NextData"}
    /\ UNCHANGED <<body, wire, buffer, parser, loop, holds, stream, parts, result>>

\* take_data_stream: refused, and the Part gone, unless the headers are parsed.
TakeDataStream ==
    /\ Idle /\ holds
    /\ holds' = FALSE
    /\ IF state = "ReadingPartHeaders" /\ headers # NoHeaders
       THEN /\ buf' = Drop(buf, headers.start) /\ headers' = NoHeaders /\ handed' = FALSE
            /\ state' = "StreamTaken" /\ taken' = "stream"
       ELSE IF state = "ReadingPartData"
       THEN state' = "StreamTaken" /\ taken' = "stream" /\ UNCHANGED <<buf, headers, handed>>
       ELSE UNCHANGED <<buf, parser, taken>>
    /\ UNCHANGED <<body, wire, eof, cursor, empties, call, loop, dstate, aborted, parts, result>>

CallStream ==
    /\ Idle /\ taken # "no"
    /\ call' = IF taken = "stream" THEN "Stream" ELSE "Final"
    /\ UNCHANGED <<body, wire, buffer, parser, loop, holds, stream, parts, result>>

\* Mutant: forgets that the stream failed.
IntoFreshFinal ==
    /\ Idle /\ taken = "stream"
    /\ taken' = "final" /\ aborted' = FALSE
    /\ UNCHANGED <<body, wire, buffer, parser, call, loop, holds, dstate, parts, result>>

\* into_final: data_done is in dstate, a failure stays one.
IntoFinal ==
    /\ Idle /\ taken = "stream"
    /\ taken' = "final"
    /\ UNCHANGED <<body, wire, buffer, parser, call, loop, holds, dstate, aborted, parts, result>>

Transport == (\E n \in 1..Len(wire) : Chunk(n)) \/ EmptyChunk \/ EndOfBody \/ ReadError
Step == FindFirst \/ ReadHeaders \/ YieldHeader \/ SkipHeaders \/ YieldNone \/ Data \/ AfterBoundary
        \/ ConsumePadding \/ Epilogue \/ FinalBoundary \/ FinalAborted \/ YieldPart
Caller == CallNextPart \/ CallPart \/ TakeDataStream \/ CallStream \/ IntoFinal

Next == Transport \/ Pending \/ Step \/ Caller

Spec == Init /\ [][Next]_vars
\* A ready task is polled, and the transport of a waiting one delivers a chunk,
\* an empty one perhaps, or ends.
FairSpec == Spec /\ WF_vars(Step) /\ WF_vars(Transport)

-----------------------------------------------------------------------------
(* Properties.                                                             *)

\* A call that waits for more input holds back no more than a partial delimiter
\* or a header block within the limit (buffer.rs: `buf' only holds structural
\* bytes): the body is never collected in memory.
BufferBounded ==
    NeedsChunk => \/ Len(buf) < Len(Delimiter)
                  \/ AtHeaders /\ Len(buf) <= MaxBuffer

\* A stream that failed before the delimiter never ends well, whatever the
\* transport still has to deliver and however it is converted (into_final).
AbortedNeverEnds == [](aborted => [](result # "end"))

\* Every call is answered, even when the transport sends nothing but empty
\* chunks (MAX_CONSECUTIVE_EMPTY_CHUNKS).
CallsAnswered == call # "none" ~> call = "none"
=============================================================================

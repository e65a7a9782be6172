-------------------------- MODULE AwsChunkedStream --------------------------
(***************************************************************************)
(* The aws-chunked decoder of crates/s3s/src/stream/aws_chunked_stream.rs. *)
(* A worker reads the body frame by frame as the transport cuts it, checks *)
(* the chain of chunk signatures, and hands fragments to poll, which holds *)
(* them to the declared decoded length.                                    *)
(***************************************************************************)
EXTENDS AwsChunkedFormat

CONSTANT Input         \* the bodies to decode, see InputOK

\* An input: the mode, decoded_content_length, the body, and the signatures the
\* client made: for all its chunks in order, and for its trailers.
Sent(x) == {x.body[i] : i \in DOMAIN x.body}
Unit(x) == Sent(x) \cup UNION {Range(x.chain[k][2]) : k \in DOMAIN x.chain}
InputOK(x) ==
    /\ x.unsigned \in BOOLEAN
    /\ x.declared \in Nat
    /\ x.body \in Seq(Sent(x))
    /\ x.chain \in Seq({"chunk"} \X Seq(Unit(x)))
    /\ \A u \in Sent(x) :
         /\ u[1] = "meta" =>
              u[2] \in Nat /\ u[3] \in {NoSig, Junk} \cup {SubSeq(x.chain, 1, k) : k \in 1..Len(x.chain)}
         /\ u[1] = "tsig" => u[2] \in {Junk, SignTrailers(x.chain, x.trailers)}
InputsOK == \A x \in Input : InputOK(x)

VARIABLES
    input,      \* the arguments of new
    wire,       \* what the transport has not delivered yet
    frame,      \* prev_bytes: what is left of the last frame
    pc,         \* where the worker is
    buf,        \* the line, or the trailers, read so far
    meta,       \* the header of the current chunk
    need,       \* data_size: bytes of the chunk still to read
    data,       \* the fragments of a signed chunk
    prev,       \* prev_signature
    out,        \* what poll has yielded
    remaining,  \* remaining_length
    trailers,   \* the trailers, once stored
    result      \* how the stream ended

vars == <<input, wire, frame, pc, buf, meta, need, data, prev, out, remaining, trailers, result>>

Results == {"open", "end", "Underlying", "SignatureMismatch", "FormatError", "Incomplete",
            "LengthMismatch", "ChunkDataTooLarge", "TrailersTooLarge", "TooManyTrailerHeaders"}

TypeOK ==
    /\ input \in Input /\ InputOK(input)
    /\ wire = SubSeq(input.body, Len(input.body) - Len(wire) + 1, Len(input.body))
    /\ pc \in {"meta", "data", "cr", "lf", "sign", "yield", "trailers", "stopped"}
    /\ pc = "meta" => Len(buf) <= MaxMeta
    /\ pc = "trailers" => Len(buf) <= MaxTrailers
    /\ need \in Nat /\ (meta[3] # NoSig => need <= MaxChunk)
    /\ remaining \in 0..input.declared
    /\ result \in Results
    /\ (pc = "stopped") = (result # "open")

Init ==
    /\ input \in Input
    /\ wire = input.body
    /\ frame = <<>>
    /\ pc = "meta"
    /\ buf = <<>>
    /\ meta = Meta(0, NoSig)
    /\ need = 0
    /\ data = <<>>
    /\ prev = <<>>
    /\ out = <<>>
    /\ remaining = input.declared
    /\ trailers = NoTrailers
    /\ result = "open"

Goto(to) == pc' = to /\ UNCHANGED result
Stop(r) == pc' = "stopped" /\ result' = r

\* Mutant: poll does not look at the remaining length when the worker is done.
EndAnyway == Stop("end")

\* The worker is done: poll finds out whether everything declared has come.
End == Stop(IF remaining # 0 THEN "Incomplete" ELSE "end")

-----------------------------------------------------------------------------
Waiting == frame = <<>> /\ pc \in {"meta", "data", "cr", "lf", "trailers"}

\* The transport delivers the next frame, cut anywhere.
NextFrame ==
    /\ Waiting
    /\ \E n \in 1..Len(wire) :
        /\ frame' = SubSeq(wire, 1, n)
        /\ wire' = SubSeq(wire, n + 1, Len(wire))
    /\ UNCHANGED <<input, pc, buf, meta, need, data, prev, out, remaining, trailers, result>>

\* The transport fails.
BodyError ==
    /\ Waiting
    /\ Stop("Underlying")
    /\ UNCHANGED <<input, wire, frame, buf, meta, need, data, prev, out, remaining, trailers>>

\* Mutant: the end of the body inside a chunk goes unnoticed.
BodyEndUnnoticed ==
    /\ Waiting /\ wire = <<>> /\ pc = "meta"
    /\ End
    /\ UNCHANGED <<input, wire, frame, buf, meta, need, data, prev, out, remaining, trailers>>

\* The body ends while the worker waits for more: fine between chunks, even in
\* the middle of a header line, and an error inside a chunk.
BodyEnd ==
    /\ Waiting /\ wire = <<>>
    /\ \/ pc = "meta" /\ End
       \/ pc \in {"data", "cr", "lf"} /\ Stop("Incomplete")
    /\ UNCHANGED <<input, wire, frame, buf, meta, need, data, prev, out, remaining, trailers>>

-----------------------------------------------------------------------------
\* Where a chunk goes after its header.
AfterMeta(m) ==
    IF m[2] # 0 THEN "data" ELSE IF m[3] # NoSig THEN "sign" ELSE "trailers"

\* read_meta_bytes, parse_chunk_meta and the checks on the header.
ReadMeta ==
    LET line == Append(buf, Head(frame))
        m == Head(frame)
    IN
    /\ pc = "meta" /\ frame # <<>>
    /\ frame' = Tail(frame)
    /\ \/ /\ Len(line) > MaxMeta
          /\ Stop("Underlying")
          /\ UNCHANGED <<buf, meta, need>>
       \/ /\ Len(line) <= MaxMeta /\ ~EndsLine(m)
          /\ buf' = line
          /\ UNCHANGED <<pc, result, meta, need>>
       \/ /\ Len(line) <= MaxMeta /\ EndsLine(m)
          /\ buf' = <<>>
          /\ \/ /\ Len(line) # 1 \/ m[1] # "meta"
                /\ Stop("FormatError")
                /\ UNCHANGED <<meta, need>>
             \/ /\ Len(line) = 1 /\ m[1] = "meta" /\ ~input.unsigned /\ m[3] = NoSig
                /\ Stop("FormatError")
                /\ UNCHANGED <<meta, need>>
             \/ /\ Len(line) = 1 /\ m[1] = "meta" /\ m[3] # NoSig /\ m[2] > MaxChunk
                /\ Stop("ChunkDataTooLarge")
                /\ UNCHANGED <<meta, need>>
             \/ /\ Len(line) = 1 /\ m[1] = "meta"
                /\ IF m[3] = NoSig THEN input.unsigned ELSE m[2] <= MaxChunk
                /\ meta' = m
                /\ need' = m[2]
                /\ Goto(AfterMeta(m))
    /\ UNCHANGED <<input, wire, data, prev, out, remaining, trailers>>

\* poll: a fragment that goes past the declared length is an error.
Yield(f) ==
    IF Len(f) > remaining
    THEN Stop("LengthMismatch") /\ UNCHANGED <<out, remaining>>
    ELSE /\ out' = out \o f
         /\ remaining' = remaining - Len(f)

\* read_data keeps the fragments of a signed chunk, read_data_streaming yields
\* those of an unsigned one.
ReadData ==
    LET n == IF need <= Len(frame) THEN need ELSE Len(frame)
        f == SubSeq(frame, 1, n)
        next == IF n = need THEN "cr" ELSE "data"
    IN
    /\ pc = "data" /\ frame # <<>>
    /\ frame' = SubSeq(frame, n + 1, Len(frame))
    /\ need' = need - n
    /\ \/ /\ meta[3] # NoSig
          /\ data' = Append(data, f)
          /\ Goto(next)
          /\ UNCHANGED <<out, remaining>>
       \/ /\ meta[3] = NoSig
          /\ UNCHANGED data
          /\ Yield(f)
          /\ Len(f) <= remaining => Goto(next)
    /\ UNCHANGED <<input, wire, buf, meta, prev, trailers>>

\* Mutant: only a CRLF that arrives whole is recognised.
ConsumeWholeCrlf ==
    /\ pc \in {"cr", "lf"} /\ frame # <<>>
    /\ IF pc = "cr" /\ Len(frame) >= 2 /\ SubSeq(frame, 1, 2) = <<CR, LF>>
       THEN /\ frame' = SubSeq(frame, 3, Len(frame))
            /\ Goto(IF meta[3] # NoSig THEN "sign" ELSE "meta")
       ELSE Stop("FormatError") /\ UNCHANGED frame
    /\ UNCHANGED <<input, wire, buf, meta, need, data, prev, out, remaining, trailers>>

\* consume_trailing_crlf: CR and LF may come in different frames.
ConsumeCrlf ==
    LET want == IF pc = "cr" THEN CR ELSE LF
        next == CASE pc = "cr" -> "lf"
                  [] pc = "lf" /\ meta[3] # NoSig -> "sign"
                  [] OTHER -> "meta"
    IN
    /\ pc \in {"cr", "lf"} /\ frame # <<>>
    /\ IF Head(frame) = want
       THEN frame' = Tail(frame) /\ Goto(next)
       ELSE Stop("FormatError") /\ UNCHANGED frame
    /\ UNCHANGED <<input, wire, buf, meta, need, data, prev, out, remaining, trailers>>

\* Mutant: a chunk is checked on its own, the chain is not followed.
CheckUnchained ==
    LET known == {SubSeq(input.chain, 1, k) : k \in 1..Len(input.chain)} IN
    /\ pc = "sign"
    /\ IF meta[3] \in known /\ Last(meta[3])[2] = FlattenSeq(data)
       THEN prev' = meta[3] /\ Goto(IF meta[2] = 0 THEN "trailers" ELSE "yield")
       ELSE Stop("SignatureMismatch") /\ UNCHANGED prev
    /\ UNCHANGED <<input, wire, frame, buf, meta, need, data, out, remaining, trailers>>

\* check_signature over the whole chunk; the chain moves on.
CheckSignature ==
    LET sig == Sign(prev, FlattenSeq(data)) IN
    /\ pc = "sign"
    /\ IF Matches(meta[3], sig)
       THEN prev' = sig /\ Goto(IF meta[2] = 0 THEN "trailers" ELSE "yield")
       ELSE Stop("SignatureMismatch") /\ UNCHANGED prev
    /\ UNCHANGED <<input, wire, frame, buf, meta, need, data, out, remaining, trailers>>

\* The fragments of a chunk that was found right are yielded one by one.
YieldFragment ==
    /\ pc = "yield"
    /\ data' = Tail(data)
    /\ Yield(Head(data))
    /\ Len(Head(data)) <= remaining => Goto(IF Len(data) = 1 THEN "meta" ELSE "yield")
    /\ UNCHANGED <<input, wire, frame, buf, meta, need, prev, trailers>>

-----------------------------------------------------------------------------

\* After the chunk of size 0 everything up to the end of the body is trailers.
ReadTrailers ==
    /\ pc = "trailers" /\ frame # <<>>
    /\ frame' = <<>>
    /\ IF Len(buf) + Len(frame) > MaxTrailers
       THEN Stop("TrailersTooLarge") /\ UNCHANGED buf
       ELSE buf' = buf \o frame /\ UNCHANGED <<pc, result>>
    /\ UNCHANGED <<input, wire, meta, need, data, prev, out, remaining, trailers>>

\* The lines of the trailers, without the empty ones (CRs and LFs).
Lines == SelectSeq(buf, LAMBDA x : x \notin {CR, LF})
Entries == SelectSeq(Lines, LAMBDA x : x[1] = "line")
\* Where an x-amz-trailer-signature is; the last one counts.
Provided == {i \in 1..Len(buf) : buf[i][1] = "tsig"}
ProvidedMatches ==
    LET last == CHOOSE i \in Provided : \A j \in Provided : j <= i
    IN Matches(buf[last][2], SignTrailers(prev, Entries))
\* The lines are counted and parsed one by one.
BadTrailer == \E i \in 1..Len(Lines) : i <= MaxHeaders /\ Lines[i][1] \notin {"line", "tsig"}
\* Mutant: trailers without a signature are taken as they are.
TrailersUnchecked ==
    IF Provided # {} THEN ProvidedMatches ELSE TRUE
TrailersVerified ==
    IF Provided # {} THEN ProvidedMatches ELSE input.unsigned

\* parse_trailing_headers and the trailer signature.  The canonical form is no longer than the
\* lines it is made of, but for an LF the last one may lack: its size is that of ReadTrailers.
VerifyTrailers ==
    /\ pc = "trailers" /\ frame = <<>> /\ wire = <<>>
    /\ \/ /\ buf \in {<<>>, <<CR, LF>>}
          /\ End
          /\ UNCHANGED trailers
       \/ /\ buf \notin {<<>>, <<CR, LF>>}
          /\ IF BadTrailer THEN Stop("FormatError") /\ UNCHANGED trailers
             ELSE IF Len(Lines) > MaxHeaders THEN Stop("TooManyTrailerHeaders") /\ UNCHANGED trailers
             ELSE IF ~TrailersVerified
             THEN /\ Stop(IF Provided # {} THEN "SignatureMismatch" ELSE "FormatError")
                  /\ UNCHANGED trailers
             ELSE trailers' = Entries /\ End
    /\ UNCHANGED <<input, wire, frame, buf, meta, need, data, prev, out, remaining>>

Progress ==
    \/ NextFrame \/ BodyEnd
    \/ ReadMeta \/ ReadData \/ ConsumeCrlf \/ CheckSignature \/ YieldFragment
    \/ ReadTrailers \/ VerifyTrailers

Next == Progress \/ BodyError

Spec == Init /\ [][Next]_vars

\* The consumer polls until the stream ends, and the transport delivers the
\* body and its end; it need not fail.
FairSpec == Spec /\ WF_vars(Progress)

-----------------------------------------------------------------------------
\* All the data the client signed, in order.
SignedData == FlattenSeq([i \in 1..Len(input.chain) |-> input.chain[i][2]])

\* In the signed modes "the decoded bytes are never yielded before their
\* signature has been verified", and the chain makes that the client's bytes in
\* the client's order: what comes out is always a prefix of what was signed,
\* whatever chunks were changed, moved, repeated or left out on the way.
AuthenticPrefix == ~input.unsigned => IsPrefix(out, SignedData)

\* A stream that ends without an error has yielded exactly the declared number
\* of bytes; in the signed modes these are all bytes the client signed, if the
\* declared length is theirs, although the body may end without its last chunk.
EndIsWhole ==
    result = "end" =>
        /\ Len(out) = input.declared
        /\ ~input.unsigned /\ input.declared = Len(SignedData) => out = SignedData

\* Trailers that are stored in the signed modes are the ones the client signed,
\* after all of its chunks.
TrailersAuthentic ==
    trailers # NoTrailers /\ ~input.unsigned =>
        Canonical(trailers) = Canonical(input.trailers) /\ prev = input.chain

\* The stream ends, one way or the other.
Terminates == <>(result # "open")
=============================================================================

-------------------------- MODULE AwsChunkedFormat --------------------------
(***************************************************************************)
(* The aws-chunked format of crates/s3s/src/stream/aws_chunked_stream.rs:  *)
(* what a body consists of, and what is signed.                            *)
(*                                                                         *)
(* A body is a sequence of units: a chunk header line, a data byte, CR,    *)
(* LF, a trailer line.  Signatures are collision free and only the client  *)
(* makes them: a signature is the chain of everything it covers.           *)
(***************************************************************************)
EXTENDS Naturals, Sequences, SequencesExt

CONSTANTS NoSig,       \* a chunk header without chunk-signature
          Junk,        \* a signature the client did not make
          MaxMeta,     \* MAX_CHUNK_META_SIZE, in units
          MaxChunk,    \* max_chunk_size
          MaxTrailers, \* MAX_TRAILERS_SIZE, in units
          MaxHeaders   \* MAX_TRAILER_HEADERS

CR == <<"cr">>
LF == <<"lf">>
Bad == <<"bad">>                    \* a line that is no chunk header and has no colon
DataByte(v) == <<"byte", v>>
Meta(size, sig) == <<"meta", size, sig>>
Line(name, value) == <<"line", name, value>>
TrailerSig(sig) == <<"tsig", sig>>
\* Units that end in '\n'.
EndsLine(x) == x[1] \in {"lf", "meta", "bad", "line", "tsig"}

\* The string to sign chains the previous signature with what is signed.
Sign(prev, data) == Append(prev, <<"chunk", data>>)
\* A signature that comes with the body is the computed one, which Junk never is.
Matches(provided, sig) == provided # Junk /\ provided = sig
\* The trailers of each name in order of appearance: two lists of trailers agree
\* on this iff they are the same after the stable sort by name.
Canonical(entries) ==
    [n \in {entries[i][2] : i \in 1..Len(entries)} |-> SelectSeq(entries, LAMBDA e : e[2] = n)]
SignTrailers(prev, entries) == Append(prev, <<"trailer", Canonical(entries)>>)

\* No trailers have been stored.
NoTrailers == << <<"none">> >>
=============================================================================

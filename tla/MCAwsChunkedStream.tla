------------------------- MODULE MCAwsChunkedStream -------------------------
(***************************************************************************)
(* Bodies for AwsChunkedStream: those of a client that sends two chunks of *)
(* data, the final empty chunk and two trailers, as it should be and with  *)
(* one or two things wrong; and what the format says of a whole body.      *)
(***************************************************************************)
EXTENDS AwsChunkedFormat

CONSTANTS x, y, z, n1, n2, v

\* The client's data and the signatures it makes.
One   == <<DataByte(x), DataByte(y)>>
Two   == <<DataByte(z)>>
Sig1  == Sign(<<>>, One)
Sig2  == Sign(Sig1, Two)
Chain == Sign(Sig2, <<>>)
ClientTrailers == <<Line(n2, v), Line(n1, v)>>
TSig  == SignTrailers(Chain, ClientTrailers)

Crlf == <<CR, LF>>
Chunk(d, sig) == <<Meta(Len(d), sig)>> \o d \o Crlf
Final(sig) == <<Meta(0, sig)>>

Plain   == Chunk(One, Sig1) \o Chunk(Two, Sig2) \o Final(Chain)
Trailed == Plain \o ClientTrailers \o <<TrailerSig(TSig)>> \o Crlf

\* What becomes of a signed body on the way.
SignedBodies ==
    {SubSeq(Trailed, 1, k) : k \in 0..Len(Trailed)} \cup
    { Plain \o Crlf,
      Chunk(Two, Sig2) \o Chunk(One, Sig1) \o Final(Chain),
      Chunk(One, Sig1) \o Chunk(One, Sig1) \o Final(Chain),
      Chunk(Two, Sig2) \o Final(Chain),
      Chunk(One, Sig1) \o Chunk(Two, Junk) \o Final(Chain),
      Chunk(One, Sig1) \o Final(Chain) \o Crlf,
      Chunk(One, Sig1) \o Chunk(Two, NoSig),
      Chunk(<<DataByte(y), DataByte(x)>>, Sig1),
      Chunk(One \o One, Sig1),
      <<Meta(3, Sig1)>> \o One \o Crlf \o Chunk(Two, Sig2),
      <<Meta(1, Sig1)>> \o One \o Crlf,
      Chunk(One, Sig1) \o <<Bad>>,
      Chunk(One, Sig1) \o Chunk(Two, Sig2) \o <<DataByte(x), DataByte(x), DataByte(x)>>,
      Plain \o <<Line(n1, v), Line(n2, v), TrailerSig(TSig)>>,
      Plain \o <<Line(n1, v), TrailerSig(TSig)>>,
      Plain \o ClientTrailers,
      Plain \o ClientTrailers \o <<TrailerSig(Junk)>>,
      Plain \o <<Bad>>,
      Plain \o <<Bad>> \o ClientTrailers \o <<TrailerSig(TSig)>>,
      Plain \o ClientTrailers \o <<TrailerSig(TSig), Bad>>,
      Plain \o ClientTrailers \o <<Line(n1, v), TrailerSig(TSig)>>,
      Plain \o ClientTrailers \o Crlf \o Crlf \o Crlf }

UnsignedBodies ==
    LET body == Chunk(One, NoSig) \o Chunk(Two, NoSig) \o Final(NoSig) \o <<Line(n1, v)>> \o Crlf IN
    {SubSeq(body, 1, k) : k \in 0..Len(body)} \cup
    { Chunk(One, NoSig) \o Chunk(Two, Sig2), Chunk(One \o Two \o Two, NoSig) \o Final(NoSig),
      Chunk(One, Sig1) \o Chunk(Two, NoSig), <<Meta(3, NoSig)>> \o One \o Crlf }

Case(unsigned, declared, body) ==
    [unsigned |-> unsigned, declared |-> declared, body |-> body,
     chain |-> Chain, trailers |-> ClientTrailers]

MCInput == {Case(FALSE, d, b) : d \in {2, 3}, b \in SignedBodies}
      \cup {Case(TRUE, d, b) : d \in {2, 3}, b \in UnsignedBodies}

-----------------------------------------------------------------------------
(* The aws-chunked format, read off a whole body.                          *)

Drop(w, n) == SubSeq(w, n + 1, Len(w))
LowerOf(m, n) == IF m <= n THEN m ELSE n

\* How a stream ends that has decoded got and then ends with r.
Ended(in, got, tr, r) ==
    [result |-> IF r # "end" THEN r ELSE IF Len(got) < in.declared THEN "Incomplete" ELSE "end",
     out |-> got, trailers |-> tr]

TrailerOutcome(in, w, chain, got) ==
    LET lines == SelectSeq(w, LAMBDA u : u \notin {CR, LF})
        sigs == SelectSeq(lines, LAMBDA u : u[1] = "tsig")
        entries == SelectSeq(lines, LAMBDA u : u[1] = "line")
        Failed(r) == Ended(in, got, NoTrailers, r)
    IN CASE Len(w) > MaxTrailers -> Failed("TrailersTooLarge")
         [] Len(w) <= MaxTrailers /\ w \in {<<>>, Crlf} -> Failed("end")
         [] OTHER ->
              IF \E n \in DOMAIN lines : n <= MaxHeaders /\ lines[n][1] \notin {"tsig", "line"}
              THEN Failed("FormatError")
              ELSE IF Len(lines) > MaxHeaders THEN Failed("TooManyTrailerHeaders")
              ELSE IF sigs = <<>> /\ ~in.unsigned THEN Failed("FormatError")
              ELSE IF sigs # <<>> /\ Last(sigs)[2] # SignTrailers(chain, entries)
              THEN Failed("SignatureMismatch")
              ELSE Ended(in, got, entries, "end")

\* What is left of a body, with the chain and the data so far, and the outcome once there is one.
Left(w, chain, got) == [w |-> w, chain |-> chain, got |-> got, outcome |-> <<>>]

DecodeChunk(in, l) ==
    LET eol == SelectInSeq(l.w, EndsLine)
        m == l.w[1]
        rest == Drop(l.w, 1)
        here == LowerOf(m[2], Len(rest))
        d == SubSeq(rest, 1, here)
        after == Drop(rest, here)
        To(o) == [l EXCEPT !.outcome = <<o>>]
        Failed(r) == To(Ended(in, l.got, NoTrailers, r))
        Broken == Failed(IF Len(after) < 2 /\ after = SubSeq(Crlf, 1, Len(after))
                             THEN "Incomplete" ELSE "FormatError")
    IN IF eol = 0 THEN Failed(IF Len(l.w) > MaxMeta THEN "Underlying" ELSE "end")
       ELSE IF eol > MaxMeta THEN Failed("Underlying")
       ELSE IF eol # 1 \/ m[1] # "meta" THEN Failed("FormatError")
       ELSE IF m[3] = NoSig /\ ~in.unsigned THEN Failed("FormatError")
       ELSE IF m[3] # NoSig /\ m[2] > MaxChunk THEN Failed("ChunkDataTooLarge")
       ELSE IF m[3] = NoSig /\ Len(l.got) + here > in.declared THEN Failed("LengthMismatch")
       ELSE IF here < m[2] THEN Failed("Incomplete")
       ELSE IF m[2] > 0 /\ ~IsPrefix(Crlf, after) THEN Broken
       ELSE IF m[3] # NoSig /\ m[3] # Sign(l.chain, d) THEN Failed("SignatureMismatch")
       ELSE IF Len(l.got) + here > in.declared THEN Failed("LengthMismatch")
       ELSE LET next == IF m[3] = NoSig THEN l.chain ELSE Sign(l.chain, d) IN
            IF m[2] = 0 THEN To(TrailerOutcome(in, after, next, l.got))
            ELSE Left(Drop(after, 2), next, l.got \o d)

\* A chunk takes at least one unit of the body, so that the outcome is there after Len + 1 chunks.
Decode(in) ==
    LET chunks[n \in 0..Len(in.body) + 1] ==
            IF n = 0 THEN Left(in.body, <<>>, <<>>)
            ELSE LET l == chunks[n - 1] IN IF l.outcome = <<>> THEN DecodeChunk(in, l) ELSE l
    IN chunks[Len(in.body) + 1].outcome[1]
=============================================================================

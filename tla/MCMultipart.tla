---------------------------- MODULE MCMultipart -----------------------------
(***************************************************************************)
(* Multipart on small bodies, well formed and not, cut into chunks in      *)
(* every way.                                                              *)
(***************************************************************************)
EXTENDS Multipart

x == "x"
MCBoundary == <<"b">>

Block(n) == IF n = 0 THEN Crlf ELSE FlattenSeq([i \in 1..n |-> <<Field>> \o Crlf]) \o Crlf
Closing == <<Dash, Dash>> \o Crlf
First == <<x>> \o FirstBoundary \o Crlf
OnePart(block, data) == First \o block \o data \o Delimiter \o Closing
TwoParts(data1, data2) ==
    First \o Block(1) \o data1 \o Delimiter \o Crlf \o Block(0) \o data2 \o Delimiter \o Closing

\* Data that looks like a delimiter, up to a point.
Lookalikes == { <<>>, <<x>>, <<x, x, x, x, x, x, x>>, Crlf \o <<Dash, Dash, x>>,
                <<CR>>, <<CR>> \o Crlf \o <<Dash>>, FirstBoundary }

MCBody ==
    {OnePart(Block(1), d) : d \in Lookalikes} \cup
    {SubSeq(TwoParts(<<x>>, <<CR, x>>), 1, n) : n \in 0..Len(TwoParts(<<x>>, <<CR, x>>))} \cup
    { TwoParts(<<>>, <<x>>),
      OnePart(Block(0), <<x>>), OnePart(Block(2), <<x>>), OnePart(Block(3), <<x>>),
      First \o <<Field, Field, Field, Field, Field, Field, Field, Field, Field, Field>>,
      OnePart(<<x>> \o Crlf \o Crlf, <<x>>),
      OnePart(<<Field>> \o Crlf \o <<x>> \o Crlf \o Crlf, <<x>>),
      OnePart(Block(1), <<x>>) \o <<x>>,
      OnePart(Block(1), <<x>>) \o First,
      First \o Block(1) \o Delimiter \o <<Dash, x>>,
      First \o Block(1) \o Delimiter \o <<CR, x>>,
      First \o Block(1) \o Delimiter \o <<x, x>>,
      First \o Block(1) \o Delimiter \o <<Dash, Dash, x>>,
      First \o Block(1) \o Delimiter \o <<Dash, Dash, Space, Space>> \o Crlf,
      First \o Block(1) \o Delimiter \o <<Dash, Dash, Space, CR, CR>>,
      FirstBoundary \o <<Space, Space>> \o Crlf \o Block(1) \o Delimiter \o <<Space>> \o Crlf
                    \o Block(1) \o Delimiter \o Closing,
      FirstBoundary \o <<Space, x>>,
      FirstBoundary \o <<x>> }

\* A boundary line whose padding is followed by the dashes of a closing one.
MCPaddedBody == { First \o Block(0) \o Delimiter \o <<Space>> \o Closing }

-----------------------------------------------------------------------------
(* The format, read off a whole body.                                      *)

Unpadded(w) == Drop(w, Padding(w))
Outcome(r, seen) == [result |-> r, parts |-> seen]
\* What is wrong with a w that should start with a CR LF.
NoCrlf(w) == IF w \in {<<>>, <<CR>>} THEN "IncompleteStream" ELSE "InvalidFormat"

\* What follows a boundary, after the parts seen.
RECURSIVE Follow(_, _)
Follow(w, seen) ==
    LET u == Unpadded(w)
        line == Drop(u, 2)                                   \* behind the boundary line
        term == Crlf \o Crlf
        end == IF StartsWith(line, Crlf) THEN 2 ELSE Find(line, term, 0) + 4
        block == SubSeq(line, 1, end)
        data == Drop(line, end)
        n == Find(data, Delimiter, 0)
        close == Unpadded(Drop(w, 2))
        Cut == [block |-> block, data |-> data, whole |-> FALSE]
        Whole == [block |-> block, data |-> SubSeq(data, 1, n), whole |-> TRUE]
        Unread == Append(seen, [block |-> <<>>, data |-> <<>>, whole |-> FALSE])
    IN IF w = <<Dash>> THEN Outcome("IncompleteStream", seen)
       ELSE IF StartsWith(w, <<Dash, Dash>>)
       THEN IF ~StartsWith(close, Crlf) THEN Outcome(NoCrlf(close), seen)
            ELSE Outcome(IF Len(close) = 2 THEN "done" ELSE "StreamPartNotLast", seen)
       ELSE IF ~StartsWith(u, Crlf) THEN Outcome(NoCrlf(u), seen)
       ELSE IF ~StartsWith(line, Crlf) /\ ~Found(line, term, 0)
       THEN Outcome(IF Len(line) > MaxBuffer THEN "HeaderSizeExceeded" ELSE "IncompleteStream", Unread)
       ELSE IF ~StartsWith(line, Crlf) /\ end > MaxBuffer THEN Outcome("HeaderSizeExceeded", Unread)
       ELSE IF ~ValidBlock(block) THEN Outcome("InvalidFormat", Unread)
       ELSE IF ~Found(data, Delimiter, 0) THEN Outcome("IncompleteStream", Append(seen, Cut))
       ELSE Follow(Drop(data, n + Len(Delimiter)), Append(seen, Whole))

Parse(w) ==
    IF Found(w, FirstBoundary, 0)
    THEN Follow(Drop(w, Find(w, FirstBoundary, 0) + Len(FirstBoundary)), <<>>)
    ELSE Outcome("InvalidFormat", <<>>)

-----------------------------------------------------------------------------

\* However the transport cuts the body into chunks, wherever a call is left
\* pending, dropped or skipped, a parse that next_part ends has the outcome the
\* format gives the whole body (lib.rs: the parse never depends on where the
\* transport split the body).
SplitIndependent ==
    result \notin {"open", "end", "StreamReadFailed"} /\ taken = "no" =>
        LET want == Parse(body) IN
        /\ result = want.result
        /\ result = "done" => Len(parts) = Len(want.parts)

\* The parts handed out are the body's, in order and each once: a part's headers
\* and data are its own, and all of its data when it says there is no more.
PartsAreTheBodys ==
    LET want == Parse(body).parts IN
    /\ Len(parts) <= Len(want)
    /\ \A i \in 1..Len(parts) :
         /\ parts[i].block \in {<<>>, want[i].block}
         /\ IsPrefix(parts[i].data, want[i].data)
         /\ parts[i].whole => want[i].whole /\ IsPrefix(want[i].data, parts[i].data)

\* A delimiter is found wherever the chunks cut it: nothing of it is handed out as data, and
\* what may be the beginning of one is all that is held back.
DelimitersFound == PartsAreTheBodys /\ BufferBounded

\* A taken stream ends well exactly when its part is the last one and the body ends
\* with the closing delimiter, which leaves only the transport to make it fail; and
\* by then all the data of that part has been given (stream.rs, poll_next).
FinalIsStrict ==
    taken = "final" /\ result # "open" /\ result # "StreamReadFailed" /\ ~aborted =>
        LET want == Parse(body)
            last == Len(parts) = Len(want.parts) /\ want.result = "done"
        IN /\ (result = "end") = last
           /\ result = "end" => Last(parts).data = Last(want.parts).data
=============================================================================

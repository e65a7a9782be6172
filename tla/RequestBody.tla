---------------------------- MODULE RequestBody -----------------------------
(***************************************************************************)
(* The body of a request on HTTP/3, from the QUIC stream to its reader:    *)
(* Body of crates/s3s-http3/src/body.rs (the declared length, trailers,    *)
(* draining on drop) below Body of crates/s3s/src/http/body.rs (the byte   *)
(* limit, aggregation), read by an S3 implementation that streams it or by *)
(* extract_full_body of crates/s3s/src/ops/mod.rs.                         *)
(*                                                                         *)
(* A data frame is its index on the wire.  A poll that is Pending is no    *)
(* step.                                                                   *)
(***************************************************************************)
EXTENDS Integers, Sequences

CONSTANTS None,          \* Option::None
          Wire,          \* what clients send: [sizes, ending]
          Declared,      \* values of Content-Length, None among them
          Limits,        \* values of put_object_max_size, None among them
          XmlMax,        \* xml_max_body_size
          MaxErrors      \* how often a reader polls on after an error, plus one

\* Sizes are numbers of bytes.
BodyOK ==
    /\ None \notin Nat
    /\ \A w \in Wire : w.sizes \in Seq(Nat)
    /\ Declared \subseteq Nat \cup {None} /\ Limits \subseteq Nat \cup {None}
    /\ XmlMax \in Nat /\ MaxErrors \in Nat

VARIABLES wire, expected_length,
          runtime,       \* the body is dropped where a Tokio runtime is current
          next,          \* the frame that arrives next
          state, received_length,   \* of the HTTP/3 body
          stopped,       \* STOP_SENDING has been sent: what is left of the upload is aborted
          limit,         \* put_object_max_size
          remaining_limit,
          mode,          \* what reads the body
          allowance,     \* of http_body_util::Limited, while the body is stored
          got,           \* frames the reader has been given
          errors,        \* errors it has been given
          answer

h3 == <<next, state, received_length, stopped>>
request == <<wire, expected_length, runtime, limit>>
vars == <<request, h3, remaining_limit, mode, allowance, got, errors, answer>>

Modes == {"prepare", "stream", "store", "dropped", "draining", "closed"}
Answers == {"none", "ok", "failed", "EntityTooLarge", "InternalError", "MaxMessageLengthExceeded",
            "MissingContentLength", "IncompleteBody"}

\* The bytes of the first n of some frames.
Bytes(sizes) ==
    LET sum[n \in 0..Len(sizes)] == IF n = 0 THEN 0 ELSE sum[n - 1] + sizes[n]
    IN sum

GotSize == Bytes([j \in DOMAIN got |-> wire.sizes[got[j]]])[Len(got)]
WireSize == Bytes(wire.sizes)[Len(wire.sizes)]

TypeOK ==
    /\ next \in 1..Len(wire.sizes) + 1
    /\ state \in {"Data", "Trailers", "Done"}
    /\ received_length \in 0..WireSize
    /\ expected_length # None => received_length <= expected_length
    /\ remaining_limit = None \/ remaining_limit \in 0..limit
    /\ runtime \in BOOLEAN /\ mode \in Modes /\ answer \in Answers /\ errors \in 0..MaxErrors
    /\ allowance \in 0..XmlMax

Init ==
    /\ wire \in Wire /\ expected_length \in Declared /\ limit \in Limits
    /\ runtime \in BOOLEAN
    /\ next = 1 /\ state = "Data" /\ received_length = 0 /\ stopped = FALSE
    /\ remaining_limit = None /\ mode = "prepare" /\ allowance = XmlMax
    /\ got = <<>> /\ errors = 0 /\ answer = "none"

-----------------------------------------------------------------------------
\* poll_frame of the HTTP/3 body, which is not asked again once it is Done.

TooLong(n) == expected_length # None /\ received_length + n > expected_length

\* A frame within the declared length.
H3Data(i) ==
    /\ state = "Data" /\ i = next /\ i <= Len(wire.sizes)
    /\ ~TooLong(wire.sizes[i])
    /\ next' = next + 1
    /\ received_length' = IF expected_length = None THEN received_length
                          ELSE received_length + wire.sizes[i]
    /\ UNCHANGED <<state, stopped>>

DataOver == state = "Data" /\ next > Len(wire.sizes) /\ wire.ending # "reset"

\* Mutant: the declared length is held against the body only while data comes.
H3EndOfDataUnchecked ==
    /\ DataOver
    /\ state' = "Trailers"
    /\ UNCHANGED <<next, received_length, stopped>>

\* The end of the data, after exactly the declared length.
H3EndOfData ==
    /\ DataOver
    /\ expected_length \in {None, received_length}
    /\ state' = "Trailers"
    /\ UNCHANGED <<next, received_length, stopped>>

\* The end of the stream, with or without trailers.
H3End ==
    /\ state = "Trailers" /\ wire.ending = "fin"
    /\ state' = "Done"
    /\ UNCHANGED <<next, received_length, stopped>>

\* An error: a frame beyond the declared length, an end before it, or the stream's own in the
\* data or the trailers.  None of them is remembered: the state stays what it is.
H3Error ==
    /\ \/ /\ state = "Data" /\ next <= Len(wire.sizes) /\ TooLong(wire.sizes[next])
          /\ next' = next + 1 /\ stopped' = TRUE
       \/ /\ DataOver /\ expected_length \notin {None, received_length}
          /\ stopped' = TRUE /\ UNCHANGED next
       \/ /\ \/ state # "Done" /\ stopped
             \/ state = "Data" /\ next > Len(wire.sizes) /\ wire.ending = "reset"
             \/ state = "Trailers" /\ wire.ending = "bad_trailers"
          /\ UNCHANGED <<next, stopped>>
    /\ UNCHANGED <<state, received_length>>

-----------------------------------------------------------------------------
\* prepare of ops/mod.rs: a streamed body of a declared length over the limit is refused,
\* another one is limited as it is read; a body that is parsed is stored first.
PrepareStreaming ==
    /\ mode = "prepare"
    /\ IF expected_length # None /\ limit # None /\ expected_length > limit
       THEN mode' = "dropped" /\ answer' = "EntityTooLarge" /\ UNCHANGED remaining_limit
       ELSE mode' = "stream" /\ remaining_limit' = limit /\ UNCHANGED answer
    /\ UNCHANGED <<request, h3, allowance, got, errors>>

PrepareFull ==
    /\ mode = "prepare"
    /\ mode' = "store"
    /\ UNCHANGED <<request, h3, remaining_limit, allowance, got, errors, answer>>

\* poll_frame of the s3s body: the limit is what is left after earlier frames; a frame that
\* breaks it is gone, and so is the error once it is reported.
PollsData(i) ==
    /\ H3Data(i)
    /\ IF remaining_limit = None \/ wire.sizes[i] <= remaining_limit
       THEN /\ got' = Append(got, i)
            /\ remaining_limit' = IF remaining_limit = None THEN None
                                  ELSE remaining_limit - wire.sizes[i]
            /\ UNCHANGED errors
       ELSE errors' = errors + 1 /\ UNCHANGED <<got, remaining_limit>>

EndOfData ==
    /\ mode \in {"stream", "store"} /\ H3EndOfData
    /\ UNCHANGED <<request, remaining_limit, mode, allowance, got, errors, answer>>

\* The reader gives up at an error, or, if it is careless, polls on.
Read ==
    /\ mode = "stream" /\ errors < MaxErrors
    /\ \E i \in DOMAIN wire.sizes : PollsData(i)
    /\ UNCHANGED <<request, mode, allowance, answer>>

ReadError ==
    /\ mode = "stream" /\ errors < MaxErrors
    /\ H3Error
    /\ errors' = errors + 1
    /\ UNCHANGED <<request, remaining_limit, mode, allowance, got, answer>>

ReadEnd ==
    /\ mode = "stream" /\ H3End
    /\ answer' = "ok" /\ mode' = "dropped"
    /\ UNCHANGED <<request, remaining_limit, allowance, got, errors>>

\* The implementation answers, having read as much as it cares to.
GiveUp ==
    /\ mode = "stream"
    /\ answer' = "failed" /\ mode' = "dropped"
    /\ UNCHANGED <<request, h3, remaining_limit, allowance, got, errors>>

-----------------------------------------------------------------------------
\* store_all_limited over http_body_util::Limited, whose own error is a LengthLimitError and
\* not the BodySizeLimitExceeded that extract_full_body looks for.
Store ==
    /\ mode = "store"
    /\ \E i \in DOMAIN wire.sizes :
        /\ H3Data(i)
        /\ IF wire.sizes[i] <= allowance
           THEN /\ allowance' = allowance - wire.sizes[i]
                /\ got' = Append(got, i)
                /\ UNCHANGED <<mode, answer>>
           ELSE mode' = "dropped" /\ answer' = "InternalError" /\ UNCHANGED <<allowance, got>>
    /\ UNCHANGED <<request, remaining_limit, errors>>

StoreError ==
    /\ mode = "store" /\ H3Error
    /\ mode' = "dropped" /\ answer' = "InternalError"
    /\ UNCHANGED <<request, remaining_limit, allowance, got, errors>>

\* extract_full_body, with the whole body in memory.
StoreEnd ==
    /\ mode = "store" /\ H3End
    /\ mode' = "dropped"
    /\ answer' = IF GotSize = 0 \/ expected_length = GotSize THEN "ok"
                 ELSE IF expected_length = None THEN "MissingContentLength" ELSE "IncompleteBody"
    /\ UNCHANGED <<request, remaining_limit, allowance, got, errors>>

\* Mutant: the stream is dropped as it is, unless all of it has been read.
DropLeaves ==
    /\ mode = "dropped" /\ mode' = "closed"
    /\ stopped' = (stopped \/ state # "Done")
    /\ UNCHANGED <<request, next, state, received_length, remaining_limit, allowance, got, errors, answer>>

\* Drop of the HTTP/3 body: what the client still sends is left to a task of its own; without a
\* runtime for the task the stream is dropped unread, and quinn sends STOP_SENDING.
Drop ==
    /\ mode = "dropped"
    /\ \/ state = "Done" /\ mode' = "closed" /\ UNCHANGED stopped
       \/ state # "Done" /\ runtime /\ mode' = "draining" /\ UNCHANGED stopped
       \/ state # "Done" /\ ~runtime /\ mode' = "closed" /\ stopped' = TRUE
    /\ UNCHANGED <<request, next, state, received_length, remaining_limit, allowance, got, errors, answer>>

\* The task reads what comes, unchecked, up to the end of the stream or an error.
Drain ==
    /\ mode = "draining"
    /\ IF next <= Len(wire.sizes) /\ ~stopped
       THEN next' = next + 1 /\ UNCHANGED mode
       ELSE mode' = "closed" /\ UNCHANGED next
    /\ UNCHANGED <<request, state, received_length, stopped, remaining_limit, allowance, got, errors, answer>>

Closed == mode = "closed" /\ UNCHANGED vars

Next ==
    \/ PrepareStreaming \/ PrepareFull \/ EndOfData \/ Read \/ ReadError \/ ReadEnd \/ GiveUp
    \/ Store \/ StoreError \/ StoreEnd \/ Drop \/ Drain \/ Closed

\* A task that can run is run; the implementation answers in the end.
Spec == Init /\ [][Next]_vars /\ WF_vars(Next) /\ WF_vars(GiveUp) /\ WF_vars(Drain)

-----------------------------------------------------------------------------
\* set_limit: "Reads fail if the body yields more than limit bytes", and what is stored stays
\* within xml_max_body_size.  It holds for a reader that polls on after errors, too.
YieldedWithinLimit ==
    /\ remaining_limit # None => GotSize <= limit
    /\ mode = "store" => GotSize <= XmlMax

\* A reader that has seen no error and reaches the end has every byte that was sent, in
\* order, and as many as Content-Length declares: neither layer cuts a body off quietly.
CleanEndIsWhole ==
    answer = "ok" /\ errors = 0 =>
        /\ got = [i \in DOMAIN wire.sizes |-> i]
        /\ expected_length \in {None, WireSize}

\* An upload whose length is not the declared one.
Mismatch == expected_length \notin {None, WireSize}

\* Where there is a runtime, the client's upload is only ever aborted because its length is not
\* the declared one, never because the service has answered early and dropped the body.
AbortedOnlyOnMismatch == stopped /\ runtime => Mismatch

\* A body is neither cut off quietly nor aborted without a reason nor let beyond its limit.
BodyIntact == CleanEndIsWhole /\ AbortedOnlyOnMismatch /\ YieldedWithinLimit

\* Whatever reads the body and however much of it, the client gets rid of all its upload in the
\* end, unless it is told to stop for a length that is not the declared one; only where there is
\* no runtime may it be cut off.
UploadConsumed == <>(~runtime \/ next > Len(wire.sizes) \/ (stopped /\ Mismatch))

=============================================================================

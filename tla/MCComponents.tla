---------------------------- MODULE MCComponents ----------------------------
(***************************************************************************)
(* The components side by side: one of them runs, the others stay in one   *)
(* of their initial states.                                                *)
(***************************************************************************)
EXTENDS Components

CONSTANTS c1, c2, r1, r2,
          MaxFile, Trailers,       \* of forms that are posted
          MaxFrames, MaxSize,      \* of request bodies
          MaxPattern, MaxInput,    \* lengths of patterns and of what they are matched with
          MaxLength,               \* of objects that are read in ranges
          MaxText                  \* bytes of encoded header values

VARIABLE running

-----------------------------------------------------------------------------
\* TLC evaluates the definition that stands for a constant whenever the constant is used; the
\* large sets are therefore evaluated once, under a name of their own.

\* Signed bodies and declared lengths of up to three bytes, matching or not.
MCSigned == {<<>>, <<0, 1>>, <<0, 1, 1>>}

\* Two connections, two requests on the first of them, at most one of which accepts trailers.
MCConnection == {c1, c2}
MCRequest == {r1, r2}
MCOwner == [r \in MCRequest |-> c1]
MCFields == {{"te: trailers"}, {"upgrade"}}
MCResponses ==
    {None} \cup {r \in [frames : {1}, fails : BOOLEAN, trailers : BOOLEAN] : r.fails # r.trailers}

\* Bodies of a few frames, some of them empty, with every declared length and limit around them.
AllWires == {[sizes |-> s, ending |-> e] :
              s \in UNION {[1..n -> 1..MaxSize] : n \in 0..MaxFrames}
                   \cup UNION {[1..n -> 0..MaxSize] : n \in 1..MaxFrames - 1},
              e \in {"fin", "reset", "bad_trailers"}}
MCSizes == {None} \cup 0..MaxFrames * MaxSize

\* One long pattern or two short ones over two letters.
Strings(cs, n) == UNION {[1..m -> cs] : m \in 0..n}
Wild == {<<1>>, <<2>>, <<8>>, <<9>>}
AllPatterns ==
    {<<>>} \cup {<<p>> : p \in Strings(Wild, MaxPattern)}
    \cup {<<p, q>> : p \in Strings(Wild, 1), q \in Strings(Wild, 2)}
AllInputs == Strings({<<1>>, <<2>>}, MaxInput)

\* Small objects, read two bytes at a time, and every range in and around them.
MCLengths == 0..MaxLength
Ints == [kind : {"int"}, first : 0..MaxLength + 1, last : {None} \cup 0..MaxLength + 1]
AllRanges ==
    {None} \cup {r \in Ints : r.last = None \/ r.first <= r.last}
    \cup [kind : {"suffix"}, length : 0..8]

\* Texts whose characters have one size up to some point and another one behind it, and the
\* limits of the code but MAX_INPUT_LEN; safe texts with and without spaces around them, some of
\* which look like encoded words.
Text(n, a, m, b) ==
    [length |-> n * a + m * b,
     boundaries |-> {j * a : j \in 0..n} \cup {n * a + j * b : j \in 0..m},
     safe |-> FALSE, core |-> <<0, n * a + m * b>>, shape |-> "plain"]
AllTexts ==
    {t \in {Text(n, a, m, b) : n \in {0, 1, 2, 3, 10, 11, 14, 15, 44, 45, 46, 47}, a \in 1..4,
                               m \in {0, 1, 2, 10, 20, 30}, b \in 1..4} : t.length \in 1..MaxText}
    \cup {[length |-> n, boundaries |-> 0..n, safe |-> TRUE, core |-> c, shape |-> s] :
            n \in {80, MAX_INPUT_LEN, MAX_INPUT_LEN + 1}, c \in {<<0, 80>>, <<1, 78>>},
            s \in {"plain", "word", "broken"}}
    \cup {[length |-> n, boundaries |-> 0..n, safe |-> TRUE, core |-> <<n, n>>, shape |-> "plain"] :
            n \in {0, 1}}

\* The bodies and forms are made in modules of their own.
Bodies == INSTANCE MCAwsChunkedStream WITH
    x <- "x", y <- "y", z <- "z", n1 <- "n1", n2 <- "n2", v <- "v"
AllBodies == Bodies!MCInput
Posts == INSTANCE MCFormUpload WITH FileName <- "${filename}"
AllForms == Posts!MCForm
AllPolicies == Posts!MCDocuments

MCWire == AllWires
MCPatternLists == AllPatterns
MCInputs == AllInputs
MCRanges == AllRanges
MCTexts == AllTexts
MCChunkedBodies == AllBodies
MCForms == AllForms
MCPolicies == AllPolicies

-----------------------------------------------------------------------------
\* The inputs of a component that does not run are fixed.
Idle ==
    LET Some(S) == CHOOSE x \in S : TRUE
    IN [header |-> Some(Texts), file |-> [i \in 1..Some(Lengths) |-> 0], range |-> Some(Ranges),
        length |-> Some(Length), expected |-> Some(Signed), fields |-> Some([Request -> Fields]),
        allow_trailers |-> TRUE, input |-> Some(Input), wire |-> Some(Wire),
        expected_length |-> Some(Declared), limit |-> Some(Limits),
        patterns |-> Some(PatternLists), text |-> Some(Inputs), form |-> Some(Form)]

MCInit ==
    /\ running \in {"upload", "http3", "body", "keep_alive", "pattern", "read", "codec",
                     "chunked", "form"}
    /\ running # "codec" => header = Idle.header
    /\ running # "read" => file = Idle.file /\ range = Idle.range
    /\ running # "upload" => length = Idle.length /\ expected = Idle.expected
    /\ running # "http3" => fields = Idle.fields
    /\ running # "keep_alive" => allow_trailers = Idle.allow_trailers
    /\ running # "chunked" => input = Idle.input
    /\ running # "body" =>
        wire = Idle.wire /\ expected_length = Idle.expected_length /\ limit = Idle.limit /\ runtime = TRUE
    /\ running # "pattern" => patterns = Idle.patterns /\ text = Idle.text
    /\ running # "form" => form = Idle.form
    /\ Init /\ Http3!Init /\ Body!Init /\ KeepAlive!Init /\ FsRead!Init /\ Codec!Init
    /\ Chunked!Init /\ Pattern!Init /\ Post!Init
    /\ running = "http3" => fields[r2] = {"upgrade"}
    /\ ~runtime => limit = None

http3 == <<main, asked, cancelled, timed_out, task, shutting_down, quic, req, fields, response, sent>>
request_body == <<wire, expected_length, runtime, next, body_state, received_length, stopped, limit,
                  remaining_limit, mode, allowance, got, errors, status>>
keep_alive == <<inner, interval, initial_body, document, done, allow_trailers, yielded, wakers,
                awake, ticks>>
pattern == <<patterns, text, at, p_idx, s_idx, p_back, s_back, result>>
fs_read == <<file, copy_len, range, pc, file_len, content_length, content_range, pos, remaining, body>>
rfc2047 == <<header, codec, split_at, words, encoded, decoded>>
chunked == <<input, chunked_wire, frame, worker, buf, meta, need, data, prev, chunked_out,
             chunked_remaining, trailers, chunked_result>>
form_upload == <<form, form_pc, parts, form_fields, total, content_len, form_remaining, ended,
                 delivered, clean, held, policy, file_size, form_answer>>
all == <<running, vars, http3, request_body, keep_alive, pattern, fs_read, rfc2047, chunked,
         form_upload>>

MCNext ==
    /\ UNCHANGED running
    /\ \/ running = "upload" /\ Next
       \/ running # "upload" /\ UNCHANGED vars
    /\ \/ running = "http3" /\ Http3!Next
       \/ running # "http3" /\ UNCHANGED http3
    /\ \/ running = "body" /\ Body!Next
       \/ running # "body" /\ UNCHANGED request_body
    /\ \/ running = "keep_alive" /\ KeepAlive!Next
       \/ running # "keep_alive" /\ UNCHANGED keep_alive
    /\ \/ running = "pattern" /\ Pattern!Next
       \/ running # "pattern" /\ UNCHANGED pattern
    /\ \/ running = "read" /\ FsRead!Next
       \/ running # "read" /\ UNCHANGED fs_read
    /\ \/ running = "codec" /\ Codec!Next
       \/ running # "codec" /\ UNCHANGED rfc2047
    /\ \/ running = "chunked" /\ Chunked!Next
       \/ running = "chunked" /\ worker = "stopped" /\ UNCHANGED chunked
       \/ running # "chunked" /\ UNCHANGED chunked
    /\ \/ running = "form" /\ Post!Next
       \/ running # "form" /\ UNCHANGED form_upload

\* The fairness of Http3Server, RequestBody and AwsChunkedStream.
MCSpec ==
    /\ MCInit /\ [][MCNext]_all
    /\ WF_http3(running = "http3" /\ Http3!Serving)
    /\ \A c \in Connection : WF_http3(running = "http3" /\ Http3!ConnectionTask(c))
    /\ \A r \in Request : WF_http3(running = "http3" /\ Http3!RequestTask(r))
    /\ WF_request_body(running = "body" /\ Body!Next)
    /\ WF_request_body(running = "body" /\ Body!GiveUp)
    /\ WF_request_body(running = "body" /\ Body!Drain)
    /\ WF_chunked(running = "chunked" /\ Chunked!Progress)

-----------------------------------------------------------------------------
\* The liveness of the components, and what the format says of a whole body.

\* Http3Server: serve returns once it is asked to (server.rs).
ShutdownReturns == running = "http3" => Http3!ShutdownReturns
\* RequestBody: the client gets rid of its upload (Drop of the HTTP/3 body).
UploadConsumed == running = "body" => Body!UploadConsumed
\* AwsChunkedStream: how the transport cuts the body into frames makes no difference (read_meta_bytes,
\* read_data).  Unless the transport failed, the stream ends as the format says for the whole body,
\* and a stream that ends well has yielded that body's data and trailers.
SplitIndependent ==
    running = "chunked" /\ chunked_result \notin {"open", "Underlying"} =>
        LET want == Bodies!Decode(input) IN
        /\ chunked_result = want.result
        /\ chunked_result = "end" => chunked_out = want.out /\ trailers = want.trailers
\* AwsChunkedStream: the stream comes to an end (poll).
Terminates == running = "chunked" => Chunked!Terminates
=============================================================================

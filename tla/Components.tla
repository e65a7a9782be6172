----------------------------- MODULE Components -----------------------------
(***************************************************************************)
(* Nine components that share no state, each with constants and variables  *)
(* of its own, and what each of them promises.  UploadStream is extended,  *)
(* the others are instances: a step of one leaves the variables of the     *)
(* others alone.                                                           *)
(***************************************************************************)
EXTENDS UploadStream

CONSTANTS None,
          Connection, Request, Owner, Fields, Responses,       \* Http3Server
          Wire, Declared, Limits, XmlMax, MaxErrors,           \* RequestBody
          MaxTicks,                                            \* KeepAliveBody
          Star, Question, PatternLists, Inputs, Never,         \* PatternSet
          Lengths, CopyLengths, Ranges, Capacity, I64Max,      \* FsRange
          Texts, MAX_INPUT_LEN, MAX_ENCODED_WORD_LEN, Overhead, \* Rfc2047
          NoSig, Junk, MaxMeta, MaxChunk, MaxTrailers, MaxHeaders, Input,  \* AwsChunkedStream
          Form, Documents, MaxParts, MaxFieldSize, MaxFieldsSize, ConfigMax, Closing  \* FormUpload

VARIABLES main, asked, cancelled, timed_out, task, shutting_down, quic,
          req, fields, response, sent,
          wire, expected_length, runtime, next, body_state, received_length, stopped, limit,
          remaining_limit, mode, allowance, got, errors, status,
          inner, interval, initial_body, document, done, allow_trailers, yielded,
          wakers, awake, ticks,
          patterns, text, at, p_idx, s_idx, p_back, s_back, result,
          file, copy_len, range, pc, file_len, content_length, content_range, pos,
          remaining, body,
          header, codec, split_at, words, encoded, decoded,
          input, chunked_wire, frame, worker, buf, meta, need, data, prev, chunked_out,
          chunked_remaining, trailers, chunked_result,
          form, form_pc, parts, form_fields, total, content_len, form_remaining, ended,
          delivered, clean, held, policy, file_size, form_answer

Http3 == INSTANCE Http3Server
Body == INSTANCE RequestBody WITH state <- body_state, answer <- status
KeepAlive == INSTANCE KeepAliveBody WITH response <- document, out <- yielded
Pattern == INSTANCE PatternSet WITH k <- at
FsRead == INSTANCE FsRange
Codec == INSTANCE Rfc2047 WITH text <- header, pc <- codec, i <- split_at
Chunked == INSTANCE AwsChunkedStream WITH
    wire <- chunked_wire, pc <- worker, out <- chunked_out, remaining <- chunked_remaining,
    result <- chunked_result
Post == INSTANCE FormUpload WITH
    pc <- form_pc, fields <- form_fields, remaining <- form_remaining, answer <- form_answer

\* What the types of the code give for the constants, stated in the modules.
ASSUME ComponentsAssumption ==
    /\ Http3!ConstantsOK
    /\ Body!BodyOK
    /\ FsRead!RangesOK
    /\ Pattern!PatternsOK
    /\ Codec!TextsOK
    /\ Chunked!InputsOK
    /\ Post!FormsOK

-----------------------------------------------------------------------------
\* The properties of the components, each stated where the component is modelled.

\* Http3Server: clients get their responses, whole (server.rs).
ResponsesArrive == Http3!ResponsesArrive
\* RequestBody: no layer cuts a body off, aborts it or exceeds its limit (http3 body.rs, http body.rs).
BodyIntact == Body!BodyIntact
\* KeepAliveBody: the client gets one document with the result (keep_alive_body.rs).
OneDocument == KeepAlive!OneDocument
\* PatternSet: the scan decides what the pattern means (pattern.rs).
ScanDecides == Pattern!ScanDecides
\* FsRange: headers and body are the range that was asked for (get_object).
ReplyIsTheRange == FsRead!ReplyIsTheRange
\* Rfc2047: words fit and decode to what encode was given (lib.rs).
WordsAreTheText == Codec!WordsAreTheText
\* AwsChunkedStream: what is yielded is a prefix of what was signed (aws_chunked_stream.rs).
AuthenticPrefix == Chunked!AuthenticPrefix
\* AwsChunkedStream: a stream that ends well is the whole body (poll).
EndIsWhole == Chunked!EndIsWhole
\* AwsChunkedStream: stored trailers are the signed ones (read_and_verify_trailers).
TrailersAuthentic == Chunked!TrailersAuthentic
\* FormUpload: what is stored satisfies the policy (resolve_post_object).
AcceptedSatisfiesPolicy == Post!AcceptedSatisfiesPolicy
\* FormUpload: the policy that is enforced is the signed one (post_signature.rs, multipart.rs).
EnforcedPolicyIsSigned == Post!EnforcedPolicyIsSigned
\* FormUpload: a stored file is whole (FileStream).
StoredIsWhole == Post!StoredIsWhole
=============================================================================

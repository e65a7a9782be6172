--------------------------- MODULE RequestPipeline ---------------------------
(***************************************************************************)
(* ops::call of crates/s3s/src/ops/mod.rs with the signature check of      *)
(* crates/s3s/src/ops/signature.rs: the way of one request from the HTTP   *)
(* server to the S3 implementation or to a custom route, while an          *)
(* administrator replaces the configuration (HotReloadConfigProvider).     *)
(*                                                                         *)
(* A request is a record of what the pipeline tells apart: how it says it  *)
(* is signed and whether that is true, how its payload is covered by the   *)
(* signature, how it is framed and what it is routed to.  One action per   *)
(* stretch of code between two reads of the shared configuration or two    *)
(* awaits; answers are classed by the stage that gives them.               *)
(***************************************************************************)
EXTENDS Integers, FiniteSets

CONSTANTS None,        \* Option::None
          Request,     \* requests clients may send, by the kind of configuration provider
          Config,      \* configurations an administrator may install
          MaxStsBody   \* MAX_STS_BODY_SIZE

\* What the pipeline tells apart in a request: the scheme and the outcome of comparing its
\* signature, the claims it makes, its payload and framing, and what it is routed to.
RequestType ==
    [scheme : {"anon", "v2header", "v2query", "v4header", "v4query", "form", "formV2", "formV4"},
     signature : {"good", "bad"}, wellFormed : BOOLEAN, keyKnown : BOOLEAN, unsignedHeader : BOOLEAN,
     age : Int, expires : Nat, region : STRING, service : STRING,
     sha : {"single", "empty", "unsigned", "chunked", "chunkedTrailer", "chunkedUnsigned", "absent",
            "ecdsa"},
     trailer : BOOLEAN,
     sent : Nat, honest : BOOLEAN, framing : {"length", "chunked", "none"}, decoded : Nat \cup {None},
     path : {"bucket", "object", "invalid"}, declared : {None, "stream", "xml", "plain", "invalid"},
     routed : {"stream", "xml", "plain", "custom"}, parts : Nat,
     policy : {"none", "satisfied", "expired", "violated"}]

ASSUME NoneAssumption ==
    None \notin Int /\ None \notin {"owner", "stream", "xml", "plain", "PostObject", "invalid"}
ASSUME RequestAssumption ==
    \A hot \in BOOLEAN : Request[hot] \subseteq RequestType /\ None \notin Request[hot]

\* What an S3Service is built with: a route with the default check_access or one of its own,
\* and a StaticConfigProvider or a HotReloadConfigProvider.
ServiceType ==
    [auth : BOOLEAN, access : BOOLEAN, route : {"none", "default", "own"}, hot : BOOLEAN]

VARIABLES service,     \* what the S3Service was built with
          config,      \* what config.snapshot() returns now
          seen,        \* history: the configurations in force since the request arrived
          pc,          \* the stage the request is at
          req,         \* the request, None between two requests
          cfg,         \* the snapshot of prepare
          snap,        \* the snapshot of the signature check under way
          resolved,    \* resolved_op: the operation found before the check
          op,          \* the operation
          credentials, \* s3ext.credentials: the access key's owner or None
          body,        \* req.body
          clen,        \* content_length, the variable of prepare
          header,      \* the Content-Length header
          limit,       \* the limit set on the body
          asked,       \* history: the access checks made, with their arguments
          read,        \* history: the bytes the handler read to the end, or an error
          answer

request == <<req, cfg, snap, resolved, op, credentials, body, clen, header, limit, asked, read>>
env == <<service, config, seen>>
vars == <<env, pc, request, answer>>

Forms     == {"form", "formV2", "formV4"}
Queries   == {"v2query", "v4query"}
V2        == {"v2header", "v2query", "formV2"}
V4        == {"v4header", "v4query", "formV4"}
Trailing  == {"chunkedTrailer", "chunkedUnsigned"}
Streaming == {"chunked"} \cup Trailing
Error     == -1
Answers   == {"none", "ok", "malformed", "unauthenticated", "unroutable", "denied", "badBody", "badInput"}
PC        == {"idle", "check", "parseForm", "presignedGate", "postGate", "v2Gate", "claims",
              "secretKey", "verify", "verified", "postObject", "authorize", "body", "call", "handle",
              "route", "routeAccess", "done"}

TypeOK ==
    /\ service \in ServiceType
    /\ config \in Config
    /\ seen \subseteq Config
    /\ pc \in PC
    /\ (req = None) <=> (pc = "idle")
    /\ {cfg, snap} \subseteq Config \cup {None}
    /\ {resolved, op} \subseteq {None, "stream", "xml", "plain", "PostObject", "invalid"}
    /\ credentials \in {None, "owner"}
    /\ body.kind \in {"raw", "upload", "chunked", "memory"}
    /\ answer \in Answers
    /\ asked \subseteq ({"check", "operation", "route"} \X {None, "stream", "xml", "plain", "PostObject"}
                          \X {None, "owner"})

-----------------------------------------------------------------------------
\* What the client sent.

\* Bytes of the body on the wire: aws-chunked adds its framing.
WireLength(r) == IF r.sha \in Streaming THEN r.sent + 1 ELSE r.sent

\* extract_content_length
ContentLength(r) == IF r.framing = "length" THEN WireLength(r) ELSE None

\* The signature is one the key's owner made for this request.  SigV2 signs every
\* x-amz- header; without x-amz-content-sha256 the body itself is hashed.
SignatureMatches(r) ==
    /\ r.signature = "good"
    /\ r.scheme \in {"v2header", "v2query"} => ~r.unsignedHeader
    /\ r.scheme = "v4header" /\ r.sha = "absent" => r.honest

\* The bytes sent are those the payload hash or the chunk signatures were made for.
Honest(r) == IF r.sha = "empty" THEN r.sent = 0 ELSE r.honest

Sha256OfBody(r) == r.sha \in {"single", "empty"}

\* remaining_length().exact()
ExactLength(b, r) ==
    CASE b.kind = "raw" -> IF r.framing = "chunked" THEN None ELSE WireLength(r)
      [] OTHER -> b.length

\* What reading the body to its end gives: the contracts of UploadStream and
\* AwsChunkedStream, whose modules are of the same names.
ReadAll(b, r) ==
    CASE b.kind = "raw"     -> WireLength(r)
      [] b.kind = "memory"  -> b.length
      [] b.kind = "upload"  -> IF WireLength(r) = b.length /\ Honest(r) THEN b.length ELSE Error
      [] b.kind = "chunked" -> IF r.sent = b.length /\ (r.sha # "chunkedUnsigned" => r.honest)
                               THEN b.length ELSE Error

Raw       == [kind |-> "raw", length |-> 0]
Memory(n) == [kind |-> "memory", length |-> n]
Upload(n) == [kind |-> "upload", length |-> n]
Chunked(n) == [kind |-> "chunked", length |-> n]

-----------------------------------------------------------------------------
\* What a configuration allows.
Within(n, max) == max = None \/ n <= max

\* The clock: headers and POST policies may be off by the skew either way, a
\* presigned V4 URL by the skew into the future and by its validity into the past.
Timely(c, r) ==
    CASE r.scheme \in {"v4header", "v2header", "formV4"} -> r.age <= c.skew /\ -r.age <= c.skew
      [] r.scheme = "v4query" -> -r.age <= c.skew /\ r.age <= r.expires
      [] r.scheme = "v2query" -> r.age <= r.expires
      [] OTHER -> TRUE

\* validate_sig_v4_region
RegionAllowed(c, r) == r.scheme \in V4 => c.expected_region \in {None, r.region}

\* validate_sig_v4_service
ServiceAllowed(c, r) == r.scheme \in V4 => r.service \in c.sig_v4_allowed_services

\* What is checked before the secret key is looked up; the service of a query or a
\* form only after it.
ClaimsHold(c, r) ==
    /\ r.wellFormed
    /\ Timely(c, r)
    /\ RegionAllowed(c, r)
    /\ r.scheme = "v4header" => ServiceAllowed(c, r) /\ (r.service = "s3" => r.sha # "absent")
    /\ r.scheme = "v4query" => r.sha \notin Streaming \cup {"ecdsa"}

\* Mutant: headers outside the signed list are let in.
HeadersUnchecked(r) == TRUE

\* reject_unsigned_amz_headers
HeadersSigned(r) == r.scheme \in {"v4header", "v4query"} => ~r.unsignedHeader

-----------------------------------------------------------------------------
Init ==
    /\ service \in ServiceType
    /\ config \in Config
    /\ seen = {}
    /\ pc = "idle"
    /\ req = None /\ cfg = None /\ snap = None
    /\ resolved = None /\ op = None /\ credentials = None
    /\ body = Raw /\ clen = None /\ header = None /\ limit = None
    /\ asked = {} /\ read = None
    /\ answer = "none"

\* HotReloadConfigProvider::update
Update ==
    /\ service.hot
    /\ config' \in Config \ {config}
    /\ seen' = IF req = None THEN {} ELSE seen \cup {config'}
    /\ UNCHANGED <<service, pc, request, answer>>

Go(next) == pc' = next /\ UNCHANGED answer

Answer(a) == pc' = "done" /\ answer' = a

\* The custom route claims requests by a predicate of its own.
RouteHit(r) == service.route # "none" /\ r.routed = "custom"

\* resolve_oir: what x-id declares; None when there is no signal or it is ignored.
ResolveOir(c, r) == IF c.operation_id_routing THEN r.declared ELSE None

\* The operation resolved ahead of the check: not for custom routes and forms.
EarlyOp(c, r) ==
    IF RouteHit(r) \/ r.scheme \in Forms THEN None
    ELSE IF ResolveOir(c, r) # None THEN ResolveOir(c, r)
    ELSE IF r.routed = "custom" THEN None ELSE r.routed

HasRequestPayload(r, o) == IF RouteHit(r) THEN r.sha # "empty" ELSE o # "plain"

\* signature_content_length
SignatureContentLength(r, o) ==
    IF ContentLength(r) = None /\ ~HasRequestPayload(r, o) /\ r.sha \in {"empty", "unsigned"}
    THEN 0 ELSE ContentLength(r)

\* prepare up to verify_signature.
Receive(r) ==
    /\ pc = "idle"
    /\ req' = r
    /\ cfg' = config
    /\ seen' = {config}
    /\ body' = Raw
    /\ header' = ContentLength(r)
    /\ resolved' = EarlyOp(config, r)
    /\ clen' = SignatureContentLength(r, EarlyOp(config, r))
    /\ IF r.path = "invalid" /\ ~RouteHit(r) THEN Answer("malformed") ELSE Go("check")
    /\ UNCHANGED <<service, config, snap, op, credentials, limit, asked, read>>

\* SignatureContext::check: which signature the request claims.
Check ==
    /\ pc = "check"
    /\ Go(CASE req.scheme \in Forms   -> "parseForm"
            [] req.scheme \in Queries -> "presignedGate"
            [] req.scheme = "v2header" -> "v2Gate"
            [] req.scheme = "v4header" -> "claims"
            [] OTHER                   -> "verified")
    /\ UNCHANGED <<env, request>>

\* check_post_signature: the form is read up to its file under limits of a snapshot
\* of its own.
ParseForm ==
    /\ pc = "parseForm"
    /\ body' = Memory(0)
    /\ IF req.parts <= config.form_max_parts
       THEN Go(IF req.scheme = "form" THEN "verified" ELSE "postGate")
       ELSE Answer("unauthenticated")
    /\ UNCHANGED <<env, req, cfg, snap, resolved, op, credentials, clen, header, limit, asked, read>>

Gate(at, allowed, next) ==
    /\ pc = at
    /\ IF allowed THEN Go(next) ELSE Answer("unauthenticated")
    /\ UNCHANGED <<env, request>>

\* ensure_presigned_url_enabled
PresignedGate == Gate("presignedGate", config.allow_presigned_url,
                      IF req.scheme = "v2query" THEN "v2Gate" ELSE "claims")

\* ensure_post_signature_enabled
PostGate == Gate("postGate", config.allow_post_signature,
                 IF req.scheme = "formV2" THEN "v2Gate" ELSE "claims")

\* ensure_v2_enabled
V2Gate == Gate("v2Gate", config.enable_sig_v2, "claims")

\* The check reads its own snapshot and, before any I/O, what the request claims.
CheckClaims ==
    /\ pc = "claims"
    /\ snap' = config
    /\ IF service.auth /\ ClaimsHold(config, req) THEN Go("secretKey") ELSE Answer("unauthenticated")
    /\ UNCHANGED <<env, req, cfg, resolved, op, credentials, body, clen, header, limit, asked, read>>

\* auth.get_secret_key
GetSecretKey ==
    /\ pc = "secretKey"
    /\ IF req.keyKnown THEN Go("verify") ELSE Answer("unauthenticated")
    /\ UNCHANGED <<env, request>>

\* STS: the body is read into memory and hashed, before the signature is compared.
StsBody(r) == r.scheme = "v4header" /\ r.sha = "absent" /\ r.service = "sts"

\* Mutant: the payload hash of a presigned request is not checked.
CoveredHeaderOnly(r) ==
    CASE StsBody(r) -> Memory(WireLength(r))
      [] r.scheme = "v4header" /\ r.sha \in Streaming ->
            IF r.decoded = None THEN None ELSE Chunked(r.decoded)
      [] r.scheme = "v4header" /\ Sha256OfBody(r) ->
            IF clen # None THEN Upload(clen)
            ELSE IF ExactLength(body, r) # None THEN Upload(ExactLength(body, r)) ELSE None
      [] OTHER -> body

\* The body after a successful check; None when its length is missing.
CoveredBody(r) ==
    CASE StsBody(r) -> Memory(WireLength(r))
      [] r.scheme = "v4header" /\ r.sha \in Streaming ->
            IF r.decoded = None THEN None ELSE Chunked(r.decoded)
      [] r.scheme \in {"v4header", "v4query"} /\ Sha256OfBody(r) ->
            IF clen # None THEN Upload(clen)
            ELSE IF ExactLength(body, r) # None THEN Upload(ExactLength(body, r)) ELSE None
      [] r.scheme = "v4header" /\ r.sha = "unsigned" ->
            IF clen = None /\ ExactLength(body, r) = None THEN None ELSE body
      [] OTHER -> body

\* A payload v4_check_header_auth can verify: for a service other than STS, one with a hash;
\* a trailer has been announced.
PayloadKnown(r) ==
    r.scheme = "v4header" =>
        /\ r.sha # "ecdsa"
        /\ r.sha = "absent" => StsBody(r) /\ WireLength(r) <= MaxStsBody
        /\ r.sha \in Trailing => r.trailer

\* Mutant: the service is compared with a snapshot taken after the await.
VerifyAnew ==
    /\ pc = "verify"
    /\ IF /\ ServiceAllowed(config, req) /\ PayloadKnown(req)
          /\ HeadersSigned(req) /\ SignatureMatches(req) /\ CoveredBody(req) # None
       THEN body' = CoveredBody(req) /\ credentials' = "owner" /\ Go("verified")
       ELSE Answer("unauthenticated") /\ UNCHANGED <<body, credentials>>
    /\ UNCHANGED <<env, req, cfg, snap, resolved, op, clen, header, limit, asked, read>>

\* The rest of the check, after the secret key has arrived.
Verify ==
    /\ pc = "verify"
    /\ IF /\ ServiceAllowed(snap, req)
          /\ PayloadKnown(req)
          /\ HeadersSigned(req)
          /\ SignatureMatches(req)
          /\ CoveredBody(req) # None
       THEN /\ body' = CoveredBody(req)
            /\ credentials' = "owner"
            /\ Go("verified")
       ELSE Answer("unauthenticated") /\ UNCHANGED <<body, credentials>>
    /\ UNCHANGED <<env, req, cfg, snap, resolved, op, clen, header, limit, asked, read>>

\* Mutant: the length of a decoded body is left as on the wire.
BodyChangedByForm(r) == r.scheme \in Forms

\* The body was replaced: by the decoded chunks, or by the form's fields and file.
BodyChanged(r) == body.kind = "chunked" \/ r.scheme \in Forms

\* The end of verify_signature, and prepare up to authorize.
Resolve ==
    /\ pc = "verified"
    /\ IF BodyChanged(req)
       THEN /\ header' = IF header = None THEN None
                         ELSE IF req.decoded = None THEN 0 ELSE req.decoded
            /\ clen' = IF clen = None THEN None ELSE 0
       ELSE UNCHANGED <<header, clen>>
    /\ IF RouteHit(req) THEN Go("route") /\ UNCHANGED op
       ELSE IF resolved \notin {None, "invalid"} THEN Go("authorize") /\ op' = resolved
       ELSE IF resolved = None /\ req.scheme \in Forms /\ req.path = "bucket"
       THEN Go("postObject") /\ UNCHANGED op
       ELSE Answer("unroutable") /\ UNCHANGED op
    /\ UNCHANGED <<env, req, cfg, snap, resolved, credentials, body, limit, asked, read>>

\* resolve_post_object: policy, file size and policy conditions.
ResolvePostObject ==
    /\ pc = "postObject"
    /\ IF req.policy \in {"none", "satisfied"} /\ req.sent <= cfg.post_object_max_file_size
       THEN op' = "PostObject" /\ body' = Memory(req.sent) /\ Go("authorize")
       ELSE Answer("denied") /\ UNCHANGED <<op, body>>
    /\ UNCHANGED <<env, req, cfg, snap, resolved, credentials, clen, header, limit, asked, read>>

\* authorize: skipped without an auth provider; the S3Access is user code.
Authorize ==
    /\ pc = "authorize"
    /\ \/ ~service.auth /\ Go("body") /\ UNCHANGED asked
       \/ /\ service.auth /\ service.access
          /\ asked' = asked \cup {<<"check", op, credentials>>}
          /\ (Go("body") \/ Answer("denied"))
       \/ /\ service.auth /\ ~service.access
          /\ IF credentials # None THEN Go("body") ELSE Answer("denied")
          /\ UNCHANGED asked
    /\ UNCHANGED <<env, req, cfg, snap, resolved, op, credentials, body, clen, header, limit, read>>

\* extract_full_body
FullBodyOk(n) ==
    \/ body.kind = "memory"
    \/ /\ n # Error /\ n <= cfg.xml_max_body_size
       /\ n # 0 => clen # None /\ n = clen

ExtractFullBody ==
    /\ pc = "body" /\ op = "xml"
    /\ IF FullBodyOk(ReadAll(body, req))
       THEN body' = Memory(ReadAll(body, req)) /\ Go("call")
       ELSE Answer("badBody") /\ UNCHANGED body
    /\ UNCHANGED <<env, req, cfg, snap, resolved, op, credentials, clen, header, limit, asked, read>>

\* prepare_streaming_body
KnownLength == IF header # None THEN header ELSE ExactLength(body, req)

PrepareStreamingBody ==
    /\ pc = "body" /\ op = "stream"
    /\ IF KnownLength = None \/ Within(KnownLength, cfg.put_object_max_size)
       THEN /\ limit' = cfg.put_object_max_size
            /\ header' = IF cfg.normalize_content_length THEN KnownLength ELSE header
            /\ Go("call")
       ELSE Answer("badBody") /\ UNCHANGED <<limit, header>>
    /\ UNCHANGED <<env, req, cfg, snap, resolved, op, credentials, body, clen, asked, read>>

NoBody == Gate("body", TRUE, "call") /\ op \notin {"xml", "stream"}

\* Operation::call up to the handler: the input may be one deserialize_http refuses; the
\* per-operation access method is asked whenever there is an S3Access.
CallOperation ==
    /\ pc = "call"
    /\ \/ Answer("badInput") /\ UNCHANGED asked
       \/ service.access /\ asked' = asked \cup {<<"operation", op, credentials>>}
          /\ (Go("handle") \/ Answer("denied"))
       \/ ~service.access /\ Go("handle") /\ UNCHANGED asked
    /\ UNCHANGED <<env, req, cfg, snap, resolved, op, credentials, body, clen, header, limit, read>>

\* A limited body fails at the frame that exceeds the limit.
ReadLimited == LET n == ReadAll(body, req)
               IN IF n # Error /\ Within(n, limit) THEN n ELSE Error

\* The handler of an operation or of the custom route reads its body and answers.
Handle ==
    /\ pc = "handle"
    /\ read' = ReadLimited
    /\ Answer("ok")
    /\ UNCHANGED <<env, req, cfg, snap, resolved, op, credentials, body, clen, header, limit, asked>>

\* Prepare::CustomRoute: the limit comes from a snapshot of its own.
Route ==
    /\ pc = "route"
    /\ IF header = None \/ Within(header, config.custom_route_max_body_size)
       THEN limit' = config.custom_route_max_body_size /\ Go("routeAccess")
       ELSE Answer("badBody") /\ UNCHANGED limit
    /\ UNCHANGED <<env, req, cfg, snap, resolved, op, credentials, body, clen, header, asked, read>>

\* S3Route::check_access: by default it wants credentials, a route's own may let in anything.
RouteAccess ==
    /\ pc = "routeAccess"
    /\ asked' = asked \cup {<<"route", None, credentials>>}
    /\ \/ (service.route = "own" \/ credentials # None) /\ Go("handle")
       \/ (service.route = "own" \/ credentials = None) /\ Answer("denied")
    /\ UNCHANGED <<env, req, cfg, snap, resolved, op, credentials, body, clen, header, limit, read>>

\* The response is sent and the request dropped.
Done ==
    /\ pc = "done"
    /\ pc' = "idle"
    /\ req' = None /\ cfg' = None /\ snap' = None
    /\ resolved' = None /\ op' = None /\ credentials' = None
    /\ body' = Raw /\ clen' = None /\ header' = None /\ limit' = None
    /\ asked' = {} /\ read' = None
    /\ answer' = "none"
    /\ seen' = {}
    /\ UNCHANGED <<service, config>>

Step ==
    \/ Done \/ Check \/ ParseForm \/ PresignedGate \/ PostGate \/ V2Gate \/ CheckClaims \/ GetSecretKey
    \/ Verify \/ Resolve \/ ResolvePostObject \/ Authorize \/ ExtractFullBody
    \/ PrepareStreamingBody \/ NoBody \/ CallOperation \/ Route \/ RouteAccess \/ Handle

Next == Update \/ (\E r \in Request[service.hot] : Receive(r)) \/ Step

Spec == Init /\ [][Next]_vars
-----------------------------------------------------------------------------
\* The request is what a key's owner signed, as it arrived: with its headers, except for a
\* form, where the signature is over the policy and there is no list of signed headers.
Genuine(r) ==
    /\ r.wellFormed /\ r.keyKnown /\ SignatureMatches(r)
    /\ r.scheme \notin Forms => ~r.unsignedHeader

Anonymous(r) == r.scheme \in {"anon", "form"}

\* The configuration lets this request authenticate.
Accepts(c, r) ==
    /\ r.scheme \in Queries => c.allow_presigned_url
    /\ r.scheme \in {"formV2", "formV4"} => c.allow_post_signature
    /\ r.scheme \in V2 => c.enable_sig_v2
    /\ ClaimsHold(c, r) /\ ServiceAllowed(c, r)

Handled == answer = "ok"

\* With an auth provider the S3 implementation runs only for requests that were let
\* through for the very operation that runs: by both methods of the S3Access, or,
\* without one, because their owner signed them.  A custom route runs only behind its
\* check_access, and for anonymous requests only if that is not the default one.
\* Credentials are never attached to a request their owner did not sign as it arrived.
HandlerAuthorised ==
    /\ credentials # None => Genuine(req)
    /\ Handled /\ op # None /\ service.auth =>
         IF service.access
         THEN {<<"check", op, credentials>>, <<"operation", op, credentials>>} \subseteq asked
         ELSE Genuine(req) /\ ~Anonymous(req)
    /\ Handled /\ op = None =>
         /\ <<"route", None, credentials>> \in asked
         /\ service.route = "default" => Genuine(req) /\ ~Anonymous(req)

\* A handler that reads its body to the end without an error has read the bytes the
\* payload hash, the chunk signatures or the signature itself were made for, whatever
\* path the request took: header or presigned URL, in memory or streamed.
HandlerReadsSignedPayload ==
    /\ Handled /\ read # Error
    /\ \/ /\ req.scheme = "v4header"
          /\ req.sha \in {"single", "empty", "chunked", "chunkedTrailer", "absent"}
       \/ req.scheme = "v4query" /\ req.sha \in {"single", "empty"}
    => Honest(req)

\* Errors about routing, access, bodies and inputs are answered only to requests that are
\* anonymous or passed the signature check, though the operation is resolved before it: the
\* OIR error is deferred, and a failed check is answered before any access method is asked
\* (verify_signature's `?' in prepare; access/mod.rs:27 has it otherwise).
RoutingAfterAuthentication ==
    /\ answer \in {"unroutable", "denied", "badBody", "badInput"} => Anonymous(req) \/ Genuine(req)
    /\ asked # {} => Anonymous(req) \/ Genuine(req)

\* The S3 implementation runs, and anything but a failed signature check is answered, only
\* after the request has been authenticated and let through.
AuthorisedFirst == HandlerAuthorised /\ RoutingAfterAuthentication

\* The Content-Length the S3 implementation sees is the number of bytes it can read,
\* also when the body was decoded, buffered or had no length on the wire.
LengthIsExact ==
    /\ Handled /\ op \in {"stream", "xml"} /\ read # Error
    => /\ header # None => header = read
       /\ op = "stream" /\ cfg.normalize_content_length /\ req.sha \in Streaming
             /\ req.scheme = "v4header" => header # None

\* No handler reads more than the limit of its kind: of the request's snapshot for
\* operations (a body hashed for STS has its own), of one then in force for routes.
BodyLimited ==
    Handled /\ read # Error =>
        CASE op = "stream" -> Within(read, cfg.put_object_max_size)
          [] op = "xml" -> read <= cfg.xml_max_body_size \/ (StsBody(req) /\ read <= MaxStsBody)
          [] op = "PostObject" -> read <= cfg.post_object_max_file_size
          [] op = None -> \E c \in seen : Within(read, c.custom_route_max_body_size)
          [] OTHER -> TRUE

\* What the S3 implementation is told of its body, and what its body may be, holds for the
\* bytes it reads.
BodyAsDeclared == LengthIsExact /\ BodyLimited

\* A request that authenticates is one that a single configuration, in force while it was
\* served, lets authenticate: prepare says that one snapshot "keeps the request internally consistent".  True of
\* a StaticConfigProvider; the signature check reads the provider again at every gate.
AcceptedByOneConfig ==
    credentials # None => \E c \in seen : Accepts(c, req)

\* What a reload during the check can mix is only the switches with each other and with the
\* claims: each switch a request needs was on in some configuration in force while it was
\* served, and its date, region and service, read before and after the await of the secret
\* key, all hold in one.
ClaimsOfOneSnapshot ==
    credentials # None =>
        /\ req.scheme \in Queries => \E c \in seen : c.allow_presigned_url
        /\ req.scheme \in {"formV2", "formV4"} => \E c \in seen : c.allow_post_signature
        /\ req.scheme \in V2 => \E c \in seen : c.enable_sig_v2
        /\ \E c \in seen : ClaimsHold(c, req) /\ ServiceAllowed(c, req)
=============================================================================

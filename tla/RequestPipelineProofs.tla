------------------------ MODULE RequestPipelineProofs ------------------------
(***************************************************************************)
(* What ops::call promises of every request it hands to an S3              *)
(* implementation or to a custom route, for all requests, configurations   *)
(* and reloads: that it was authenticated and authorised, that the bytes   *)
(* read are the bytes signed, and that they are as many as declared and    *)
(* allowed.                                                                *)
(*                                                                         *)
(* The three properties speak of the moment a request is answered.  The    *)
(* invariant says what has been established at each stage before it.       *)
(***************************************************************************)
EXTENDS RequestPipeline, TLAPS

\* The stages of the signature check, and those behind it.
Checking == {"check", "parseForm", "presignedGate", "postGate", "v2Gate", "claims", "secretKey",
             "verify"}
Passed == {"verified", "postObject", "authorize", "body", "call", "handle", "route", "routeAccess"}

Types ==
    /\ service \in ServiceType
    /\ pc \in PC
    /\ pc = "idle" => req = None
    /\ pc # "idle" => req \in RequestType /\ req # None
    /\ credentials \in {None, "owner"}
    /\ op \in {None, "stream", "xml", "plain", "PostObject"}
    /\ resolved \in {None, "stream", "xml", "plain", "invalid"}
    /\ answer \in Answers
    /\ answer # "none" => pc = "done"

\* What the signature check has found out, stage by stage.
CheckedSoFar ==
    /\ pc \in {"idle"} \cup Checking => credentials = None /\ op = None /\ asked = {}
    /\ pc = "parseForm" => req.scheme \in Forms
    /\ pc \in {"presignedGate", "postGate", "v2Gate", "claims", "secretKey", "verify"} => ~Anonymous(req)
    /\ pc \in {"secretKey", "verify"} => req.wellFormed
    /\ pc = "verify" => req.keyKnown
    /\ credentials # None => Genuine(req) /\ ~Anonymous(req)
    /\ pc \in Passed => Anonymous(req) \/ credentials # None

\* What the access checks have been asked by the time an operation or a route is called.
AuthorisedSoFar ==
    /\ pc \in {"verified", "postObject", "route", "routeAccess"} => op = None
    /\ pc \in {"authorize", "body", "call"} => op # None
    /\ pc \in {"body", "call", "handle"} /\ op # None /\ service.auth =>
         IF service.access THEN <<"check", op, credentials>> \in asked ELSE credentials # None
    /\ pc = "handle" /\ op # None /\ service.access => <<"operation", op, credentials>> \in asked
    /\ pc = "handle" /\ op = None =>
         /\ <<"route", None, credentials>> \in asked
         /\ service.route = "default" => credentials # None

AuthInv == Types /\ CheckedSoFar /\ AuthorisedSoFar /\ AuthorisedFirst

-----------------------------------------------------------------------------
\* The service starts idle.
LEMMA InitAuth == Init => AuthInv
BY NoneAssumption DEF Init, AuthInv, Types, CheckedSoFar, AuthorisedSoFar, AuthorisedFirst, HandlerAuthorised,
   RoutingAfterAuthentication, Handled, Genuine, PC, Checking, Passed, Answers, ServiceType

\* Every step keeps it.
LEMMA NextAuth == ASSUME AuthInv, [Next]_vars PROVE AuthInv'
<1> USE NoneAssumption DEF AuthInv, Types, CheckedSoFar, AuthorisedSoFar, AuthorisedFirst,
        HandlerAuthorised, RoutingAfterAuthentication, Handled, Genuine, Anonymous, PC, Checking,
        Passed, Answers, ServiceType, Go, Answer, Gate, request, env, Forms, Queries
<1>1. ASSUME NEW r \in Request[service.hot], Receive(r) PROVE AuthInv'
  BY <1>1, RequestAssumption DEF Receive, RequestType, EarlyOp, ResolveOir
<1>2. CASE Update
  BY <1>2 DEF Update
<1>3. CASE Done
  BY <1>3 DEF Done
<1>4. CASE Check
  BY <1>4 DEF Check, RequestType
<1>5. CASE ParseForm
  BY <1>5 DEF ParseForm
<1>6. CASE PresignedGate
  BY <1>6 DEF PresignedGate
<1>7. CASE PostGate
  BY <1>7 DEF PostGate
<1>8. CASE V2Gate
  BY <1>8 DEF V2Gate
<1>9. CASE CheckClaims
  BY <1>9 DEF CheckClaims, ClaimsHold
<1>10. CASE GetSecretKey
  BY <1>10 DEF GetSecretKey
<1>11. CASE Verify
  BY <1>11 DEF Verify, HeadersSigned, SignatureMatches, RequestType
<1>12. CASE Resolve
  BY <1>12 DEF Resolve
<1>13. CASE ResolvePostObject
  BY <1>13 DEF ResolvePostObject
<1>14. CASE Authorize
  BY <1>14 DEF Authorize
<1>15. CASE ExtractFullBody
  BY <1>15 DEF ExtractFullBody
<1>16. CASE PrepareStreamingBody
  BY <1>16 DEF PrepareStreamingBody
<1>17. CASE NoBody
  BY <1>17 DEF NoBody
<1>18. CASE CallOperation
  BY <1>18 DEF CallOperation
<1>19. CASE Route
  BY <1>19 DEF Route
<1>20. CASE RouteAccess
  BY <1>20 DEF RouteAccess
<1>21. CASE Handle
  BY <1>21 DEF Handle
<1>22. CASE UNCHANGED vars
  BY <1>22 DEF vars
<1>23. QED
  BY <1>1, <1>2, <1>3, <1>4, <1>5, <1>6, <1>7, <1>8, <1>9, <1>10, <1>11, <1>12, <1>13, <1>14, <1>15, <1>16, <1>17, <1>18, <1>19, <1>20, <1>21, <1>22 DEF Next, Step

\* With an auth provider the S3 implementation runs only for requests that were let through,
\* a custom route only behind its own check_access and, if that is the default one, only for
\* authenticated requests; no access method is asked and nothing but a failed signature check
\* is answered before the check: ops::call, for all requests, routes and reloads.
THEOREM AuthorisedFirstHolds == Spec => []AuthorisedFirst
<1>1. AuthInv => AuthorisedFirst
  BY DEF AuthInv
<1>2. QED
  BY <1>1, InitAuth, NextAuth, PTL DEF Spec

-----------------------------------------------------------------------------
\* Requests whose payload the signature covers.
PayloadSigned(r) ==
    \/ r.scheme = "v4header" /\ r.sha \in {"single", "empty", "chunked", "chunkedTrailer", "absent"}
    \/ r.scheme = "v4query" /\ r.sha \in {"single", "empty"}

\* Behind the signature check their bodies fail at the end unless they are the signed ones,
\* or have been read to memory and found to be.
BodyChecked ==
    pc \in Passed /\ PayloadSigned(req) =>
        \/ body.kind = "upload"
        \/ body.kind = "chunked" /\ req.sha \in {"chunked", "chunkedTrailer"}
        \/ body.kind = "memory" /\ Honest(req)

PayloadInv ==
    /\ pc = "parseForm" \/ pc = "postObject" => req.scheme \in Forms
    /\ BodyChecked /\ HandlerReadsSignedPayload

\* Every step keeps it.
LEMMA NextPayload == ASSUME AuthInv, PayloadInv, [Next]_vars PROVE PayloadInv'
<1> USE NoneAssumption DEF AuthInv, Types, PayloadInv, BodyChecked, PayloadSigned, HandlerReadsSignedPayload,
        Handled, Honest, PC, Checking, Passed, Answers, Go, Answer, Gate, request, env, Forms, Queries, Error
<1>1. ASSUME NEW r \in Request[service.hot], Receive(r) PROVE PayloadInv'
  BY <1>1, RequestAssumption DEF Receive
<1>2. CASE Update
  BY <1>2 DEF Update
<1>3. CASE Done
  BY <1>3 DEF Done
<1>4. CASE Check
  BY <1>4 DEF Check, RequestType
<1>5. CASE ParseForm
  BY <1>5 DEF ParseForm
<1>6. CASE PresignedGate
  BY <1>6 DEF PresignedGate
<1>7. CASE PostGate
  BY <1>7 DEF PostGate
<1>8. CASE V2Gate
  BY <1>8 DEF V2Gate
<1>9. CASE CheckClaims
  BY <1>9 DEF CheckClaims
<1>10. CASE GetSecretKey
  BY <1>10 DEF GetSecretKey
<1>11. CASE Verify
  BY <1>11 DEF Verify, CoveredBody, PayloadKnown, StsBody, Sha256OfBody, Memory, Chunked, Upload, Streaming, Trailing,
     SignatureMatches
<1>12. CASE Resolve
  BY <1>12 DEF Resolve
<1>13. CASE ResolvePostObject
  BY <1>13 DEF ResolvePostObject, Memory
<1>14. CASE Authorize
  BY <1>14 DEF Authorize
<1>15. CASE ExtractFullBody
  BY <1>15 DEF ExtractFullBody, FullBodyOk, ReadAll, Memory
<1>16. CASE PrepareStreamingBody
  BY <1>16 DEF PrepareStreamingBody
<1>17. CASE NoBody
  BY <1>17 DEF NoBody
<1>18. CASE CallOperation
  BY <1>18 DEF CallOperation
<1>19. CASE Route
  BY <1>19 DEF Route
<1>20. CASE RouteAccess
  BY <1>20 DEF RouteAccess
<1>21. CASE Handle
  <2>1. PayloadSigned(req) /\ ReadAll(body, req) # Error => Honest(req)
    BY <1>21 DEF Handle, ReadAll
  <2>2. req' = req /\ body' = body /\ pc' = "done" /\ (read' # Error => ReadAll(body, req) # Error)
    BY <1>21 DEF Handle, ReadLimited
  <2>3. BodyChecked'
    BY <2>2
  <2>4. HandlerReadsSignedPayload'
    <3>1. PayloadSigned(req)' /\ read' # Error => Honest(req)'
      BY <2>1, <2>2
    <3>2. QED
      BY <3>1
  <2>5. pc' # "parseForm" /\ pc' # "postObject"
    BY <2>2
  <2>6. QED
    BY <2>3, <2>4, <2>5
<1>22. CASE UNCHANGED vars
  BY <1>22 DEF vars
<1>23. QED
  BY <1>1, <1>2, <1>3, <1>4, <1>5, <1>6, <1>7, <1>8, <1>9, <1>10, <1>11, <1>12, <1>13, <1>14, <1>15, <1>16, <1>17, <1>18, <1>19, <1>20, <1>21, <1>22 DEF Next, Step

\* A handler that reads its body to the end has read the bytes the signature covers
\* (ops/signature.rs, UploadStream, AwsChunkedStream): for all requests and reloads.
THEOREM HandlerReadsSignedPayloadHolds == Spec => []HandlerReadsSignedPayload
<1>1. Init => PayloadInv
  BY DEF Init, PayloadInv, BodyChecked, HandlerReadsSignedPayload, Handled, Passed
<1>2. PayloadInv => HandlerReadsSignedPayload
  BY DEF PayloadInv
<1>3. QED
  BY <1>1, <1>2, InitAuth, NextAuth, NextPayload, PTL DEF Spec

-----------------------------------------------------------------------------
\* Until the check is over the header is the client's and the body that on the wire or the
\* form that is being read.
AsReceived ==
    /\ pc \in Checking \cup {"verified"} => header = ContentLength(req)
    /\ pc \in Checking => body = Raw \/ (req.scheme \in Forms /\ body = Memory(0))

\* Requests with an operation of their own are not forms.
Called == pc \in {"authorize", "body", "call", "handle"} /\ op \in {"stream", "xml"}

OperationsAreNotForms ==
    /\ pc # "idle" /\ resolved # None => req.scheme \notin Forms
    /\ op \in {"stream", "xml", "plain"} => req.scheme \notin Forms

\* What the body is behind the check: that on the wire, hashed while it is read, decoded to
\* the declared length, or in memory.
BodyShape ==
    pc = "verified" \/ (Called /\ pc \in {"authorize", "body"}) =>
      /\ body.kind \in {"raw", "upload", "chunked", "memory"}
      /\ body.kind = "memory" /\ req.scheme \notin Forms =>
           StsBody(req) /\ body.length = WireLength(req) /\ body.length <= MaxStsBody
      /\ body.kind = "chunked" => body.length = req.decoded /\ req.decoded # None
      /\ req.scheme = "v4header" /\ req.sha \in Streaming => body.kind = "chunked"

\* From then on a header is the length of what can be read.
HeaderIsLength ==
    Called => /\ header # None /\ ReadAll(body, req) # Error => header = ReadAll(body, req)
              /\ body.kind \in {"raw", "upload", "chunked", "memory"}

\* What is known of the body once it is prepared for the operation.
Prepared ==
    pc \in {"call", "handle"} =>
      /\ op = "stream" => /\ limit = cfg.put_object_max_size
                          /\ cfg.normalize_content_length /\ req.sha \in Streaming
                               /\ req.scheme = "v4header" => header # None
      /\ op = "xml" =>
           /\ body.kind = "memory"
           /\ body.length <= cfg.xml_max_body_size \/ (StsBody(req) /\ body.length <= MaxStsBody)

PostObjectLimited ==
    pc \in {"authorize", "body", "call", "handle"} /\ op = "PostObject" =>
        body.kind = "memory" /\ body.length <= cfg.post_object_max_file_size

\* Routes are limited by a configuration that is or was in force.
RouteLimited ==
    /\ pc # "idle" => config \in seen
    /\ pc = "routeAccess" \/ (pc = "handle" /\ op = None) =>
         \E c \in seen : limit = c.custom_route_max_body_size

BodyInv == AsReceived /\ OperationsAreNotForms /\ BodyShape /\ HeaderIsLength /\ Prepared
           /\ PostObjectLimited /\ RouteLimited /\ LengthIsExact /\ BodyLimited

\* Every step keeps it.
LEMMA NextBody == ASSUME AuthInv, BodyInv, [Next]_vars PROVE BodyInv'
<1> USE NoneAssumption DEF AuthInv, Types, CheckedSoFar, AuthorisedSoFar, BodyInv, AsReceived, Called, OperationsAreNotForms,
        BodyShape, HeaderIsLength, Prepared, PostObjectLimited, RouteLimited, LengthIsExact, BodyLimited,
        Handled, PC, Checking, Passed, Answers, Go, Answer, Gate, request, env, Forms, Queries, Error
<1>1. ASSUME NEW r \in Request[service.hot], Receive(r) PROVE BodyInv'
  <2>1. AsReceived'
    BY <1>1 DEF Receive
  <2>2. OperationsAreNotForms'
    BY <1>1 DEF Receive, EarlyOp
  <2>3. BodyShape'
    BY <1>1 DEF Receive
  <2>4. HeaderIsLength'
    BY <1>1 DEF Receive
  <2>5. Prepared'
    BY <1>1 DEF Receive
  <2>6. PostObjectLimited'
    BY <1>1 DEF Receive
  <2>7. RouteLimited'
    BY <1>1 DEF Receive
  <2>8. LengthIsExact'
    BY <1>1 DEF Receive
  <2>9. BodyLimited'
    BY <1>1 DEF Receive
  <2>10. QED
    BY <2>1, <2>2, <2>3, <2>4, <2>5, <2>6, <2>7, <2>8, <2>9
<1>2. CASE Update
  BY <1>2 DEF Update
<1>3. CASE Done
  BY <1>3 DEF Done
<1>4. CASE Check
  BY <1>4 DEF Check, RequestType, Raw
<1>5. CASE ParseForm
  BY <1>5 DEF ParseForm, Memory
<1>6. CASE PresignedGate
  BY <1>6 DEF PresignedGate
<1>7. CASE PostGate
  BY <1>7 DEF PostGate
<1>8. CASE V2Gate
  BY <1>8 DEF V2Gate
<1>9. CASE CheckClaims
  BY <1>9 DEF CheckClaims
<1>10. CASE GetSecretKey
  BY <1>10 DEF GetSecretKey
<1>11. CASE Verify
  <2>1. BodyShape'
    <3>1. SUFFICES ASSUME pc' = "verified", body' = CoveredBody(req), CoveredBody(req) # None,
                          StsBody(req) => WireLength(req) <= MaxStsBody
                   PROVE  BodyShape'
      BY <1>11 DEF Verify, PayloadKnown, StsBody
    <3>2. CASE StsBody(req)
      BY <1>11, <3>1, <3>2 DEF Verify, CoveredBody, StsBody, Sha256OfBody, Memory, Streaming, Trailing, WireLength
    <3>3. CASE req.scheme = "v4header" /\ req.sha \in Streaming
      BY <1>11, <3>1, <3>3 DEF Verify, CoveredBody, StsBody, Sha256OfBody, Chunked, Streaming, Trailing
    <3>4. CASE req.scheme \in {"v4header", "v4query"} /\ Sha256OfBody(req)
      BY <1>11, <3>1, <3>4 DEF Verify, CoveredBody, StsBody, Sha256OfBody, Upload, Streaming, Trailing
    <3>5. CASE ~StsBody(req) /\ ~(req.scheme = "v4header" /\ req.sha \in Streaming)
               /\ ~(req.scheme \in {"v4header", "v4query"} /\ Sha256OfBody(req))
      <4>1. body' = body
        BY <3>1, <3>5 DEF CoveredBody
      <4>2. QED
        BY <1>11, <3>5, <4>1 DEF Verify, Raw, Memory
    <3>6. QED
      BY <3>2, <3>3, <3>4, <3>5
  <2>2. AsReceived' /\ OperationsAreNotForms' /\ HeaderIsLength' /\ Prepared' /\ PostObjectLimited'
    BY <1>11 DEF Verify
  <2>3. RouteLimited' /\ LengthIsExact' /\ BodyLimited'
    BY <1>11 DEF Verify
  <2>4. QED
    BY <2>1, <2>2, <2>3
<1>12. CASE Resolve
  <2>1. AsReceived'
    BY <1>12 DEF Resolve
  <2>2. OperationsAreNotForms'
    BY <1>12 DEF Resolve
  <2>3. BodyShape'
    BY <1>12 DEF Resolve
  <2>4. HeaderIsLength'
    BY <1>12 DEF Resolve, BodyChanged, ReadAll, ContentLength
  <2>5. Prepared'
    BY <1>12 DEF Resolve
  <2>6. PostObjectLimited'
    BY <1>12 DEF Resolve
  <2>7. RouteLimited'
    BY <1>12 DEF Resolve
  <2>8. LengthIsExact'
    BY <1>12 DEF Resolve
  <2>9. BodyLimited'
    BY <1>12 DEF Resolve
  <2>10. QED
    BY <2>1, <2>2, <2>3, <2>4, <2>5, <2>6, <2>7, <2>8, <2>9
<1>13. CASE ResolvePostObject
  BY <1>13 DEF ResolvePostObject, Memory
<1>14. CASE Authorize
  BY <1>14 DEF Authorize
<1>15. CASE ExtractFullBody
  BY <1>15 DEF ExtractFullBody, FullBodyOk, ReadAll, Memory
<1>16. CASE PrepareStreamingBody
  BY <1>16 DEF PrepareStreamingBody, KnownLength, ExactLength, ReadAll
<1>17. CASE NoBody
  BY <1>17 DEF NoBody
<1>18. CASE CallOperation
  BY <1>18 DEF CallOperation
<1>19. CASE Route
  BY <1>19 DEF Route
<1>20. CASE RouteAccess
  BY <1>20 DEF RouteAccess
<1>21. CASE Handle
  <2>1. AsReceived'
    BY <1>21 DEF Handle
  <2>2. OperationsAreNotForms'
    BY <1>21 DEF Handle
  <2>3. BodyShape'
    BY <1>21 DEF Handle
  <2>4. HeaderIsLength'
    BY <1>21 DEF Handle
  <2>5. Prepared'
    BY <1>21 DEF Handle
  <2>6. PostObjectLimited'
    BY <1>21 DEF Handle
  <2>7. RouteLimited'
    BY <1>21 DEF Handle
  <2>8. LengthIsExact'
    BY <1>21 DEF Handle, ReadLimited
  <2>9. BodyLimited'
    <3>1. CASE op = None
      BY <1>21, <3>1 DEF Handle, ReadLimited
    <3>2. CASE op = "stream"
      BY <1>21, <3>2 DEF Handle, ReadLimited
    <3>3. CASE op \in {"xml", "PostObject", "plain"}
      BY <1>21, <3>3 DEF Handle, ReadLimited, ReadAll
    <3>4. QED
      BY <3>1, <3>2, <3>3
  <2>10. QED
    BY <2>1, <2>2, <2>3, <2>4, <2>5, <2>6, <2>7, <2>8, <2>9
<1>22. CASE UNCHANGED vars
  BY <1>22 DEF vars
<1>23. QED
  BY <1>1, <1>2, <1>3, <1>4, <1>5, <1>6, <1>7, <1>8, <1>9, <1>10, <1>11, <1>12, <1>13, <1>14, <1>15, <1>16, <1>17, <1>18, <1>19, <1>20, <1>21, <1>22 DEF Next, Step

\* The Content-Length a handler sees is the number of bytes it reads, and they are within the
\* limit of their kind (prepare, prepare_streaming_body, extract_full_body).
THEOREM BodyAsDeclaredHolds == Spec => []BodyAsDeclared
<1>1. Init => BodyInv
  BY NoneAssumption DEF Init, BodyInv, AsReceived, Called, OperationsAreNotForms, BodyShape, HeaderIsLength,
     Prepared, PostObjectLimited, RouteLimited, LengthIsExact, BodyLimited, Handled, Checking
<1>2. BodyInv => BodyAsDeclared
  BY DEF BodyInv, BodyAsDeclared
<1>3. QED
  BY <1>1, <1>2, InitAuth, NextAuth, NextBody, PTL DEF Spec

-----------------------------------------------------------------------------
\* Which switches have been found on, and what the snapshot under way allows.
Judged ==
    /\ pc # "idle" => config \in seen
    /\ pc \in {"v2Gate", "claims", "secretKey", "verify"} =>
         /\ req.scheme \in Queries => \E c \in seen : c.allow_presigned_url
         /\ req.scheme \in {"formV2", "formV4"} => \E c \in seen : c.allow_post_signature
    /\ pc \in {"claims", "secretKey", "verify"} /\ req.scheme \in V2 => \E c \in seen : c.enable_sig_v2
    /\ pc \in {"secretKey", "verify"} => snap \in seen /\ ClaimsHold(snap, req)
    /\ pc = "presignedGate" => req.scheme \in Queries
    /\ pc = "postGate" => req.scheme \in {"formV2", "formV4"}

JudgedInv == Judged /\ ClaimsOfOneSnapshot

\* Every step keeps it.
LEMMA NextJudged == ASSUME AuthInv, JudgedInv, [Next]_vars PROVE JudgedInv'
<1> USE NoneAssumption DEF AuthInv, Types, CheckedSoFar, JudgedInv, Judged, ClaimsOfOneSnapshot, PC, Checking,
        Go, Answer, Gate, request, env
<1>1. ASSUME NEW r \in Request[service.hot], Receive(r) PROVE JudgedInv'
  BY <1>1 DEF Receive
<1>2. CASE Update
  <2>1. CASE pc = "idle"
    BY <1>2, <2>1 DEF Update
  <2>2. CASE pc # "idle"
    <3>1. seen \subseteq seen' /\ config' \in seen' /\ UNCHANGED <<pc, req, snap, credentials>>
      BY <1>2, <2>2 DEF Update
    <3>2. QED
      BY <2>2, <3>1
  <2>3. QED
    BY <2>1, <2>2
<1>3. CASE Done
  BY <1>3 DEF Done
<1>4. CASE Check
  BY <1>4 DEF Check, RequestType, Forms, Queries, V2
<1>5. CASE ParseForm
  BY <1>5 DEF ParseForm, Forms, Queries
<1>6. CASE PresignedGate
  BY <1>6 DEF PresignedGate, Queries, V2
<1>7. CASE PostGate
  BY <1>7 DEF PostGate, Queries, V2
<1>8. CASE V2Gate
  BY <1>8 DEF V2Gate
<1>9. CASE CheckClaims
  BY <1>9 DEF CheckClaims
<1>10. CASE GetSecretKey
  BY <1>10 DEF GetSecretKey
<1>11. CASE Verify
  BY <1>11 DEF Verify
<1>12. CASE Resolve
  BY <1>12 DEF Resolve
<1>13. CASE ResolvePostObject
  BY <1>13 DEF ResolvePostObject
<1>14. CASE Authorize
  BY <1>14 DEF Authorize
<1>15. CASE ExtractFullBody
  BY <1>15 DEF ExtractFullBody
<1>16. CASE PrepareStreamingBody
  BY <1>16 DEF PrepareStreamingBody
<1>17. CASE NoBody
  BY <1>17 DEF NoBody
<1>18. CASE CallOperation
  BY <1>18 DEF CallOperation
<1>19. CASE Route
  BY <1>19 DEF Route
<1>20. CASE RouteAccess
  BY <1>20 DEF RouteAccess
<1>21. CASE Handle
  BY <1>21 DEF Handle
<1>22. CASE UNCHANGED vars
  BY <1>22 DEF vars
<1>23. QED
  BY <1>1, <1>2, <1>3, <1>4, <1>5, <1>6, <1>7, <1>8, <1>9, <1>10, <1>11, <1>12, <1>13, <1>14, <1>15, <1>16, <1>17, <1>18, <1>19, <1>20, <1>21, <1>22 DEF Next, Step

\* Whenever the configuration is replaced, the claims of a request that authenticates all
\* hold in one configuration in force while it was served, and each switch it needs was on
\* in one (ops/signature.rs, ensure_*_enabled and the v2_check and v4_check functions).
THEOREM ClaimsOfOneSnapshotHolds == Spec => []ClaimsOfOneSnapshot
<1>1. Init => JudgedInv
  BY NoneAssumption DEF Init, JudgedInv, Judged, ClaimsOfOneSnapshot
<1>2. JudgedInv => ClaimsOfOneSnapshot
  BY DEF JudgedInv
<1>3. QED
  BY <1>1, <1>2, InitAuth, NextAuth, NextJudged, PTL DEF Spec
=============================================================================

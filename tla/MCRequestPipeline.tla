-------------------------- MODULE MCRequestPipeline --------------------------
(* RequestPipeline with three configurations that differ in every switch    *)
(* and limit, and families of requests that vary what the pipeline tells    *)
(* apart around one well-signed upload.                                     *)
EXTENDS RequestPipeline

Lenient ==
    [enable_sig_v2 |-> TRUE, allow_presigned_url |-> TRUE, allow_post_signature |-> TRUE,
     operation_id_routing |-> TRUE, skew |-> 1, expected_region |-> None,
     sig_v4_allowed_services |-> {"s3", "sts", "iam"}, form_max_parts |-> 2,
     xml_max_body_size |-> 2, put_object_max_size |-> None, post_object_max_file_size |-> 2,
     custom_route_max_body_size |-> None, normalize_content_length |-> TRUE]

NoV2 == [Lenient EXCEPT !.enable_sig_v2 = FALSE, !.put_object_max_size = 2,
                        !.custom_route_max_body_size = 1, !.sig_v4_allowed_services = {"s3"}]

NoPresigned == [Lenient EXCEPT !.allow_presigned_url = FALSE, !.allow_post_signature = FALSE,
                               !.operation_id_routing = FALSE, !.expected_region = "eu",
                               !.form_max_parts = 1, !.xml_max_body_size = 1,
                               !.post_object_max_file_size = 1, !.normalize_content_length = FALSE]

MCConfig == {Lenient, NoV2, NoPresigned}
MCTwoConfigs == {NoV2, NoPresigned}

Good ==
    [scheme |-> "v4header", signature |-> "good", wellFormed |-> TRUE, keyKnown |-> TRUE,
     unsignedHeader |-> FALSE, age |-> 0, expires |-> 1, region |-> "eu", service |-> "s3",
     sha |-> "single", trailer |-> TRUE, sent |-> 2, honest |-> TRUE, framing |-> "length", decoded |-> None,
     path |-> "object", declared |-> None, routed |-> "stream", parts |-> 1, policy |-> "none"]

Schemes == {"anon", "v2header", "v2query", "v4header", "v4query", "form", "formV2", "formV4"}

\* How the payload is covered, framed and read.
PayloadRequests ==
    {[Good EXCEPT !.scheme = s, !.sha = h, !.sent = n, !.honest = b, !.framing = f,
                  !.decoded = d, !.routed = o, !.service = v] :
        s \in {"anon", "v2header", "v4header", "v4query"},
        h \in {"single", "empty", "unsigned", "chunked", "chunkedTrailer", "chunkedUnsigned", "absent",
               "ecdsa"},
        n \in {0, 2}, b \in BOOLEAN, f \in {"length", "chunked"}, d \in {None, 2, 3},
        o \in {"stream", "xml", "custom"}, v \in {"s3", "sts", "iam"}}

\* The length of the decoded body is declared with aws-chunked bodies, or once in error.
Sendable(r) ==
    /\ r.decoded # None => r.sha \in Streaming \/ r.decoded = 3
    /\ r.service # "s3" => r.sha = "absent"
    /\ r.scheme \in {"anon", "v2header"} => r.sha \in {"absent", "unsigned"}

\* A request without a body has neither a length nor a payload.
BodylessRequests ==
    {[Good EXCEPT !.scheme = s, !.sha = h, !.sent = 0, !.framing = "none", !.routed = o] :
        s \in {"anon", "v4header", "v4query"}, h \in {"single", "empty", "unsigned"},
        o \in {"stream", "xml", "plain", "custom"}}

\* Only a form that has a policy can be signed.
PolicyOf(s) == IF s \in {"formV2", "formV4"} THEN "satisfied" ELSE "none"

\* Everything that can be wrong with a signature.
SignatureRequests ==
    {[Good EXCEPT !.scheme = s, !.signature = IF f = "mismatch" THEN "bad" ELSE "good",
                  !.wellFormed = (f # "malformed"), !.keyKnown = (f # "unknownKey"),
                  !.unsignedHeader = (f = "unsignedHeader"), !.age = t[1], !.region = t[2], !.declared = t[3],
                  !.policy = PolicyOf(s), !.path = IF s \in Forms THEN "bucket" ELSE "object"] :
        s \in Schemes, f \in {"none", "mismatch", "malformed", "unknownKey", "unsignedHeader"},
        t \in {<<0, "eu", None>>, <<0, "eu", "invalid">>, <<-2, "eu", None>>, <<2, "eu", None>>,
               <<0, "us", None>>, <<2, "us", "invalid">>}}

\* Where a request, signed well or not, is routed.
RoutedRequests ==
    {[Good EXCEPT !.scheme = s, !.path = p, !.declared = d, !.routed = o, !.signature = g,
                  !.policy = PolicyOf(s)] :
        s \in Schemes, p \in {"bucket", "object", "invalid"}, d \in {None, "plain", "invalid"},
        o \in {"stream", "plain", "custom"}, g \in {"good", "bad"}}

FormRequests ==
    {[Good EXCEPT !.scheme = s, !.path = "bucket", !.policy = y, !.parts = m, !.sent = n] :
        s \in Forms, y \in {"none", "satisfied", "expired", "violated"}, m \in {1, 2, 3},
        n \in {1, 2, 3}}

\* Chunked bodies that announce no trailer.
UnannouncedRequests ==
    {[Good EXCEPT !.sha = h, !.decoded = 2, !.trailer = FALSE] : h \in Streaming}

\* A presigned URL for a region and a service that two configurations refuse in turn.
ForeignRequests == {[Good EXCEPT !.scheme = "v4query", !.region = "us", !.service = "sts"]}

\* Only requests some client can send: a signed form has a policy.
AllRequests ==
    {r \in {p \in PayloadRequests : Sendable(p)} \cup BodylessRequests \cup SignatureRequests
             \cup RoutedRequests \cup FormRequests \cup UnannouncedRequests :
        r.scheme \in {"formV2", "formV4"} => r.policy # "none"}

\* A few of each kind, for services whose configuration changes.
FewRequests ==
    {r \in AllRequests : /\ r.sent = 2 /\ r.decoded \in {None, 2} /\ r.service = "s3"
                       /\ r.age = 0 /\ r.wellFormed /\ r.keyKnown /\ r.declared # "plain"
                       /\ r.framing = "length" /\ r.region = "eu" /\ r.path # "invalid"
                       /\ r.sha \in {"single", "chunked", "absent"} /\ r.parts # 3
                       /\ (r.honest \/ r.routed = "xml")
                       /\ (r.scheme \in Forms => r.routed = "stream" /\ r.declared = None)}
    \cup ForeignRequests

MCRequest == [hot \in BOOLEAN |-> IF hot THEN FewRequests ELSE AllRequests]
MCFewRequests == [hot \in BOOLEAN |-> FewRequests]
=============================================================================

---------------------------- MODULE MCFormUpload ----------------------------
(***************************************************************************)
(* Small forms for FormUpload: fields repeated, in another order or        *)
(* spelling, policies with two ranges, files of every length around the    *)
(* limits, and every way the form can close.                               *)
(***************************************************************************)
EXTENDS Naturals, Sequences, TLC

CONSTANTS None, FileName, MaxFile, Trailers

Range2(a, b) == [op |-> "range", min |-> a, max |-> b]
OnKey(op, value) == [op |-> op, field |-> "key", value |-> value]
OnCredential(c) == [op |-> "eq", field |-> "x-amz-credential", value |-> <<c>>]
OnBucket(b) == [op |-> "eq", field |-> "bucket", value |-> <<b>>]
Policy(state, conditions) == [state |-> state, conditions |-> conditions]

\* Names in keys: u is a user's prefix, a and u are file names.
MCDocuments ==
    (<<"p1">> :> Policy("valid", <<OnKey("startsWith", <<"u">>), Range2(0, 3), Range2(1, 2)>>))
    @@ (<<"p2">> :> Policy("valid", <<OnKey("eq", <<"u", "a">>), OnBucket("b")>>))
    @@ (<<"p3">> :> Policy("valid", <<OnBucket("b"), Range2(2, 2)>>))
    @@ (<<"p4">> :> Policy("valid", <<OnKey("eq", <<"u", FileName>>)>>))
    @@ (<<"p5">> :> Policy("valid", <<OnKey("startsWith", <<>>),
                                   [op |-> "startsWith", field |-> "bucket", value |-> <<>>]>>))
    @@ (<<"p6">> :> Policy("valid", <<OnKey("startsWith", <<"u">>), OnCredential("c1")>>))
    @@ (<<"old">> :> Policy("expired", <<OnKey("startsWith", <<>>)>>))
    @@ (<<"bad">> :> Policy("malformed", <<>>))

MCPolicies == {<<"p1">>, <<"p2">>, <<"p3">>, <<"p4">>}
MCDead == {<<"old">>, <<"bad">>}
MCSigned == MCPolicies \cup {<<"p5">>, <<"p6">>}

Field(name, value) == [name |-> name, value |-> value, size |-> 1]
Keys == {<<"u", FileName>>, <<FileName>>, <<"u", "a">>}

FieldLists ==
    {<<Field(n, k)>> : n \in {"key", None}, k \in Keys}
    \cup {<<Field("Key", k), Field("policy", p)>> : k \in Keys, p \in MCPolicies \cup MCDead}
    \cup {<<Field("Policy", p), Field("bucket", <<b>>), Field("key", <<"u", "a">>)>> :
              p \in MCPolicies, b \in {"b", "c"}}
    \cup {<<Field("policy", p), Field("key", k), Field("Policy", q)>> :
              p \in MCPolicies, q \in MCPolicies, k \in Keys}
    \cup {<<Field("key", k), Field("policy", p), Field("Key", l)>> :
              p \in MCPolicies, k \in Keys, l \in Keys}
    \cup {<<Field("x-amz-credential", <<c>>), Field("policy", p), Field("key", <<"u", "a">>)>> :
              c \in {"c1", "c2"}, p \in {<<"p6">>, <<"p1">>, <<"bad">>}}
    \cup {<<Field("x-amz-credential", <<"c1">>), Field(n, <<"c2">>), Field("policy", <<"p6">>)>> :
              n \in {"x-amz-credential", "x-ignore-"}}
    \cup {<<Field("key", <<"u">>), Field("policy", <<"p5">>), Field(n, <<>>)>> :
              n \in {"x-ignore-", "x-amz-server-side-encryption", "awsaccesskeyid", "tagging"}}
    \cup {<<Field("policy", <<"p5">>)>>, <<Field("key", <<"u">>), Field("policy", <<"p5">>)>>,
          <<[Field("key", <<"u">>) EXCEPT !.size = 3]>>,
          <<Field("a", <<>>), Field("b", <<>>), Field("c", <<>>), Field("d", <<>>)>>}

\* Policies a signature may cover: none, one of those in the form, or another one.
Signable(fs) == {None, <<"p1">>} \cup ({fs[i].value : i \in DOMAIN fs} \cap MCSigned)

\* The version of the signature, and whether a credential is for the date, region and service.
Version(fs) == IF \E i \in DOMAIN fs : fs[i].name = "x-amz-credential" THEN "v4" ELSE "v2"
Scoped(fs) == IF Version(fs) = "v4" THEN BOOLEAN ELSE {TRUE}

\* The rest of a form: the file name matters for the key, the other variations for the file, and
\* those are combined with the short lists of fields.
Endings(fs) ==
    {[filename |-> n, trailer |-> "canonical", transportFails |-> FALSE] : n \in {"a", "u"}}
    \cup IF Len(fs) >= 3 THEN {} ELSE
            {[filename |-> "a", trailer |-> t, transportFails |-> FALSE] : t \in Trailers}
            \cup {[filename |-> "a", trailer |-> "canonical", transportFails |-> TRUE]}

FormsOf(fs) ==
    {[fields |-> fs, file |-> l, filename |-> e.filename, trailer |-> e.trailer,
      sized |-> s, signedPolicy |-> p, version |-> Version(fs), inScope |-> o, bucket |-> "b",
      transportFails |-> e.transportFails] :
        l \in 0..MaxFile \cup {None}, s \in BOOLEAN, p \in Signable(fs), o \in Scoped(fs),
        e \in Endings(fs)}
MCForm == UNION {FormsOf(fs) : fs \in FieldLists}
=============================================================================

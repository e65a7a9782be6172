----------------------------- MODULE FormUpload -----------------------------
(***************************************************************************)
(* POST Object: a multipart/form-data upload from its parsed parts to the  *)
(* S3 implementation.  transform_multipart and FileStream of               *)
(* crates/s3s/src/http/multipart.rs, the policy of                         *)
(* crates/s3s/src/post_policy.rs and resolve_post_object of                *)
(* crates/s3s/src/ops/mod.rs.                                              *)
(*                                                                         *)
(* The parser below is taken by its contract (module Multipart): it        *)
(* delivers the parts and then the bytes of the file in pieces of any      *)
(* size, ends cleanly after the closing delimiter, with or without         *)
(* transport padding, and fails on anything else.  A file is its length;   *)
(* a key is a sequence of names, one of which may be ${filename}.          *)
(***************************************************************************)
EXTENDS Integers, Sequences, FiniteSets, SequencesExt

CONSTANTS None,          \* Option::None
          Form,          \* forms a client may post
          Documents,     \* what PostPolicy::from_base64 makes of the text of a policy field
          MaxParts, MaxFieldSize, MaxFieldsSize,  \* MultipartLimits
          ConfigMax,     \* post_object_max_file_size
          Closing        \* bytes of the canonical closing delimiter, boundary.len() + 8

VARIABLES form,          \* the form on the wire
          pc,            \* the stage it is at
          parts,         \* parts_count
          fields,        \* the fields read so far, names in lower case
          total,         \* total_fields_size
          content_len,   \* FileStream::content_len
          remaining,     \* FileStream::remaining
          ended,         \* FileStream::ended
          delivered,     \* bytes of the file that FileStream has yielded
          clean,         \* the parser's file stream has ended without an error
          held,          \* bytes of the file aggregated in memory
          policy,        \* the policy that is enforced, by its text
          file_size,     \* the size the policy is checked against
          answer

stream == <<content_len, remaining, ended, delivered, clean>>
vars == <<form, pc, parts, fields, total, stream, held, policy, file_size, answer>>

PC == {"parts", "signature", "resolve", "aggregate", "conditions", "deserialize", "handler", "done"}
Answers == {"none", "stored", "aborted", "MalformedPOSTRequest", "InvalidRequest", "AccessDenied",
            "EntityTooLarge", "EntityTooSmall", "InvalidPolicyDocument", "SignatureDoesNotMatch"}
FileName == "${filename}"

TypeOK ==
    /\ pc \in PC
    /\ parts \in 0..MaxParts + 1
    /\ total \in 0..MaxFieldsSize
    /\ content_len \in Nat \cup {None}
    /\ {remaining, delivered, held} \subseteq Nat
    /\ {ended, clean} \subseteq BOOLEAN
    /\ answer \in Answers

-----------------------------------------------------------------------------
\* make_ascii_lowercase, on the spellings that forms use.
Lower(name) ==
    CASE name = "Key" -> "key" [] name = "Policy" -> "policy" [] OTHER -> name

\* find_field_index: the fields are sorted stably by name, so that of several with one
\* name it finds the last.
FieldIndex(fs, name) ==
    LET named == {i \in DOMAIN fs : fs[i].name = name}
    IN IF named = {} THEN None ELSE CHOOSE i \in named : \A j \in named : j <= i

FieldValue(fs, name) ==
    IF FieldIndex(fs, name) = None THEN None ELSE fs[FieldIndex(fs, name)].value

\* substitute_key_filename
Substitute(fs, filename) ==
    LET i == FieldIndex(fs, "key")
    IN IF i = None THEN fs
       ELSE [fs EXCEPT ![i].value = [k \in DOMAIN @ |-> IF @[k] = FileName THEN filename ELSE @[k]]]

\* Bytes by which the closing of the form is longer than the canonical one.
TrailerExtra(f) ==
    CASE f.trailer = "canonical" -> 0
      [] f.trailer = "padded"    -> 1
      [] f.trailer = "epilogue"  -> 2
      [] f.trailer = "cut"       -> -Closing

\* The length derived from Content-Length, by checked subtractions.
ContentLen(f) ==
    IF f.sized /\ f.file + TrailerExtra(f) >= 0 THEN f.file + TrailerExtra(f) ELSE None

\* What the code's types give: sequences and lengths are what they are, and there is a
\* document, perhaps a malformed one, for every text that a policy field can have.
FormsOK ==
    /\ None \notin Nat
    /\ ConfigMax \in Nat /\ Closing \in Nat
    /\ \A f \in Form :
         /\ f.fields \in Seq(Range(f.fields))
         /\ f.file \in Nat \cup {None} /\ <<f.bucket>> # None
         /\ f.trailer \in {"canonical", "padded", "epilogue", "cut"}
         /\ \A i \in DOMAIN f.fields :
              LET field == f.fields[i]
              IN /\ field.value \in Seq(Range(field.value))
                 /\ Lower(field.name) = "policy" => field.value \in DOMAIN Documents
    /\ \A p \in DOMAIN Documents :
         LET conditions == Documents[p].conditions
         IN /\ conditions \in Seq(Range(conditions))
            /\ \A i \in DOMAIN conditions :
                 conditions[i].op = "range" => {conditions[i].min, conditions[i].max} \subseteq Nat

-----------------------------------------------------------------------------
Init ==
    /\ form \in Form
    /\ pc = "parts"
    /\ parts = 0 /\ fields = <<>> /\ total = 0
    /\ content_len = None /\ remaining = 0 /\ ended = FALSE /\ delivered = 0 /\ clean = FALSE
    /\ held = 0
    /\ policy = None
    /\ file_size = 0
    /\ answer = "none"

Answer(a) == pc' = "done" /\ answer' = a
Go(next)  == pc' = next /\ UNCHANGED answer

\* The next part is a field; one without a name makes the form malformed.
ReadField ==
    /\ pc = "parts" /\ parts < Len(form.fields)
    /\ parts' = parts + 1
    /\ LET field == form.fields[parts + 1]
       IN IF /\ parts' <= MaxParts /\ field.name # None
             /\ field.size <= MaxFieldSize /\ total + field.size <= MaxFieldsSize
          THEN /\ fields' = Append(fields, [name |-> Lower(field.name), value |-> field.value])
               /\ total' = total + field.size
               /\ UNCHANGED <<pc, answer>>
          ELSE Answer("MalformedPOSTRequest") /\ UNCHANGED <<fields, total>>
    /\ UNCHANGED <<form, stream, held, policy, file_size>>

\* The file part: its stream is taken and its length derived.
ReadFile ==
    /\ pc = "parts" /\ parts = Len(form.fields) /\ form.file # None
    /\ parts' = parts + 1
    /\ IF parts' <= MaxParts
       THEN /\ content_len' = ContentLen(form)
            /\ remaining' = IF ContentLen(form) = None THEN 0 ELSE ContentLen(form)
            /\ Go(IF form.signedPolicy = None THEN "resolve" ELSE "signature")
       ELSE Answer("MalformedPOSTRequest") /\ UNCHANGED <<content_len, remaining>>
    /\ UNCHANGED <<form, fields, total, ended, delivered, clean, held, policy, file_size>>

\* The closing delimiter comes before any file.
NoFile ==
    /\ pc = "parts" /\ parts = Len(form.fields) /\ form.file = None
    /\ Answer("MalformedPOSTRequest")
    /\ UNCHANGED <<form, parts, fields, total, stream, held, policy, file_size>>

\* Mutant: of several fields with the name the first one counts.
ExtractFirst(fs, name) ==
    LET named == {i \in DOMAIN fs : fs[i].name = name}
    IN IF named = {} THEN None ELSE fs[CHOOSE i \in named : \A j \in named : i <= j].value

\* PostSignatureV4::extract and V2's: a field they need, unless it is missing or repeated.
ExtractField(fs, name) ==
    LET named == {i \in DOMAIN fs : fs[i].name = name}
    IN IF Cardinality(named) = 1 THEN fs[CHOOSE i \in named : TRUE].value ELSE None

\* eq_condition_value: of the first eq condition on the field.
EqConditionValue(p, field) ==
    LET conditions == Documents[p].conditions
        eqs == {i \in DOMAIN conditions : conditions[i].op = "eq" /\ conditions[i].field = field}
    IN IF eqs = {} THEN None ELSE conditions[CHOOSE i \in eqs : \A j \in eqs : i <= j].value

\* A form with a signature of version 4 has a date, a credential and an algorithm, which the
\* policy has to name: x-amz-credential stands for the three.
Extracted ==
    /\ ExtractField(fields, "policy") # None
    /\ form.version = "v4" => ExtractField(fields, "x-amz-credential") # None

PolicyNamesCredential ==
    LET p == ExtractField(fields, "policy") IN
    /\ Documents[p].state # "malformed"
    /\ EqConditionValue(p, "x-amz-credential") = ExtractField(fields, "x-amz-credential")

\* The signature of a signed form is one its owner made over one policy; version 4 also wants
\* a credential for the date, the region and the service.
CheckSignature ==
    /\ pc = "signature"
    /\ IF ~Extracted THEN Answer("InvalidRequest")
       ELSE IF form.version = "v4" /\ ~PolicyNamesCredential THEN Answer("InvalidPolicyDocument")
       ELSE IF form.version = "v4" /\ ~form.inScope THEN Answer("SignatureDoesNotMatch")
       ELSE IF ExtractField(fields, "policy") # form.signedPolicy THEN Answer("SignatureDoesNotMatch")
       ELSE Go("resolve")
    /\ UNCHANGED <<form, parts, fields, total, stream, held, policy, file_size>>

\* content_length_range: the first one.
LengthRange(p) ==
    LET conditions == Documents[p].conditions
        ranges == {i \in DOMAIN conditions : conditions[i].op = "range"}
    IN IF ranges = {} THEN None
       ELSE conditions[CHOOSE i \in ranges : \A j \in ranges : i <= j]

\* post_object_max_file_size
MaxFileSize ==
    IF policy = None \/ LengthRange(policy) = None \/ LengthRange(policy).max > ConfigMax
    THEN ConfigMax ELSE LengthRange(policy).max

\* Mutant: the file name is put into the key after the policy has been checked.
ResolveUnsubstituted ==
    /\ pc = "resolve"
    /\ policy' = FieldValue(fields, "policy")
    /\ IF policy' = None \/ Documents[policy'].state = "valid" THEN Go("aggregate")
       ELSE Answer(IF Documents[policy'].state = "expired" THEN "AccessDenied" ELSE "InvalidPolicyDocument")
    /\ UNCHANGED <<form, parts, fields, total, stream, held, file_size>>

\* resolve_post_object up to the file: the key, the policy (valid, expired or unreadable).
Resolve ==
    /\ pc = "resolve"
    /\ fields' = Substitute(fields, form.filename)
    /\ policy' = FieldValue(fields, "policy")
    /\ IF policy' = None \/ Documents[policy'].state = "valid" THEN Go("aggregate")
       ELSE Answer(IF Documents[policy'].state = "expired" THEN "AccessDenied" ELSE "InvalidPolicyDocument")
    /\ UNCHANGED <<form, parts, total, stream, held, file_size>>

\* prepare_post_object_stream: a file of known length is not read yet.
ForwardStream ==
    /\ pc = "aggregate" /\ content_len # None
    /\ IF content_len > MaxFileSize
       THEN Answer("EntityTooLarge") /\ UNCHANGED file_size
       ELSE file_size' = content_len /\ Go("conditions")
    /\ UNCHANGED <<form, parts, fields, total, stream, held, policy>>

-----------------------------------------------------------------------------
\* FileStream::poll_next, with what it hands to its consumer.

\* The parser still has bytes of the file.
Flowing == ~ended /\ ~clean /\ delivered < form.file

Yields(n) ==
    /\ Flowing /\ n \in 1..form.file - delivered
    /\ content_len # None => n <= remaining
    /\ remaining' = IF content_len = None THEN remaining ELSE remaining - n
    /\ delivered' = delivered + n
    /\ UNCHANGED <<content_len, ended, clean>>

\* The inner stream reports its end: the closing delimiter, padded or not, and nothing more.
AtCleanEnd == ~Flowing /\ form.trailer \in {"canonical", "padded"}

\* The inner stream fails: the body is cut off, something follows the closing delimiter, or
\* the transport breaks.
InnerFails ==
    \/ form.trailer = "cut"
    \/ ~Flowing /\ form.trailer = "epilogue"
    \/ form.transportFails

\* More bytes than claimed, a clean end before the claimed length, or an error of the inner
\* stream: reported once, then the stream is at its end.
Fails ==
    /\ ~ended
    /\ \/ Flowing /\ content_len # None /\ remaining < form.file - delivered /\ UNCHANGED clean
       \/ AtCleanEnd /\ content_len # None /\ remaining > 0 /\ clean' = TRUE
       \/ InnerFails /\ UNCHANGED clean
    /\ ended' = TRUE
    /\ UNCHANGED <<content_len, remaining, delivered>>

\* Mutant: a file that ends before its claimed length has ended.
EndsShort ==
    /\ ~ended /\ AtCleanEnd
    /\ clean' = TRUE
    /\ UNCHANGED <<content_len, remaining, ended, delivered>>

Ends ==
    /\ ~ended /\ AtCleanEnd
    /\ content_len = None \/ remaining = 0
    /\ clean' = TRUE
    /\ UNCHANGED <<content_len, remaining, ended, delivered>>

\* aggregate_file_stream_limited
Aggregate(n) ==
    /\ pc = "aggregate" /\ content_len = None
    /\ Yields(n)
    /\ IF held + n > MaxFileSize
       THEN Answer("EntityTooLarge") /\ UNCHANGED held
       ELSE held' = held + n /\ UNCHANGED <<pc, answer>>
    /\ UNCHANGED <<form, parts, fields, total, policy, file_size>>

AggregateFails ==
    /\ pc = "aggregate" /\ content_len = None
    /\ Fails
    /\ Answer("InvalidRequest")
    /\ UNCHANGED <<form, parts, fields, total, held, policy, file_size>>

AggregateEnds ==
    /\ pc = "aggregate" /\ content_len = None
    /\ Ends
    /\ file_size' = held
    /\ Go("conditions")
    /\ UNCHANGED <<form, parts, fields, total, held, policy>>

-----------------------------------------------------------------------------
\* get_field_value: the bucket is the one of the URL, with which a field must agree.
BucketAgrees(c) ==
    c.op # "range" /\ c.field = "bucket" =>
        FieldValue(fields, "bucket") \in {None, <<form.bucket>>}

ConditionValue(field) == IF field = "bucket" THEN <<form.bucket>> ELSE FieldValue(fields, field)

\* validate_condition, but for the file's size.
ConditionHolds(c) ==
    CASE c.op = "eq"         -> ConditionValue(c.field) = c.value
      [] c.op = "startsWith" -> IF ConditionValue(c.field) = None THEN c.value = <<>>
                                ELSE IsPrefix(c.value, ConditionValue(c.field))
      [] c.op = "range"      -> TRUE

\* The conditions of the policy that is enforced.
Conditions == Documents[policy].conditions

\* is_field_exempt_from_policy; the last two stand for the names with these prefixes.
Exempt == {"x-amz-signature", "signature", "awsaccesskeyid", "file", "submit", "policy",
           "x-amz-server-side-encryption", "x-ignore-"}

FieldCovered(name) ==
    \E i \in DOMAIN Conditions :
        Conditions[i].op # "range" /\ Conditions[i].field = name

\* validate_conditions_only: the answer to the first condition that fails.
Violations ==
    {i \in DOMAIN Conditions :
        LET c == Conditions[i]
        IN ~BucketAgrees(c) \/ ~ConditionHolds(c)
           \/ (c.op = "range" /\ file_size \notin c.min..c.max)}

ConditionError(c) ==
    IF c.op # "range" THEN "InvalidPolicyDocument"
    ELSE IF file_size > c.max THEN "EntityTooLarge" ELSE "EntityTooSmall"

ValidateConditions ==
    /\ pc = "conditions"
    /\ IF policy = None THEN Go("deserialize")
       ELSE IF Violations # {}
       THEN Answer(ConditionError(Conditions[CHOOSE i \in Violations : \A j \in Violations : i <= j]))
       ELSE IF \E i \in DOMAIN fields : fields[i].name \notin Exempt /\ ~FieldCovered(fields[i].name)
       THEN Answer("AccessDenied")
       ELSE Go("deserialize")
    /\ UNCHANGED <<form, parts, fields, total, stream, held, policy, file_size>>

\* PostObject::deserialize_http: a form without a key is refused only here.
DeserializeHttp ==
    /\ pc = "deserialize"
    /\ IF FieldValue(fields, "key") = None THEN Answer("InvalidRequest") ELSE Go("handler")
    /\ UNCHANGED <<form, parts, fields, total, stream, held, policy, file_size>>

\* The S3 implementation is given the key and the file: already in memory, or as the
\* stream it now reads.
StoreHeld ==
    /\ pc = "handler" /\ content_len = None
    /\ Answer("stored")
    /\ UNCHANGED <<form, parts, fields, total, stream, held, policy, file_size>>

HandlerReads(n) ==
    /\ pc = "handler" /\ content_len # None
    /\ Yields(n)
    /\ UNCHANGED <<form, pc, parts, fields, total, held, policy, file_size, answer>>

HandlerFails ==
    /\ pc = "handler" /\ content_len # None
    /\ Fails
    /\ Answer("aborted")
    /\ UNCHANGED <<form, parts, fields, total, held, policy, file_size>>

HandlerEnds ==
    /\ pc = "handler" /\ content_len # None
    /\ Ends
    /\ Answer("stored")
    /\ UNCHANGED <<form, parts, fields, total, held, policy, file_size>>

Done == pc = "done" /\ UNCHANGED vars

\* Sizes of the pieces in which the file may arrive.
Pieces == IF form.file = None THEN {} ELSE 1..form.file

Next ==
    \/ ReadField \/ ReadFile \/ NoFile \/ CheckSignature \/ Resolve \/ ForwardStream
    \/ \E n \in Pieces : Aggregate(n)
    \/ AggregateFails \/ AggregateEnds \/ ValidateConditions \/ DeserializeHttp \/ StoreHeld
    \/ \E n \in Pieces : HandlerReads(n)
    \/ HandlerFails \/ HandlerEnds \/ Done

Spec == Init /\ [][Next]_vars

-----------------------------------------------------------------------------
\* What an accepted upload stores, and under which key.
Stored == IF content_len = None THEN held ELSE delivered
StoredKey == FieldValue(Substitute(fields, form.filename), "key")
Used(field) == IF field = "bucket" THEN <<form.bucket>> ELSE StoredKey

\* resolve_post_object checks the policy before a streamed file has been read.  Still, what
\* is stored satisfies every condition of it: the key that is used, with the file name in
\* it, the bucket of the URL, and the number of bytes that really came, which is never more
\* than the configured maximum.
AcceptedSatisfiesPolicy ==
    answer = "stored" =>
        /\ Stored <= ConfigMax
        /\ policy # None => \A i \in DOMAIN Conditions :
              LET c == Conditions[i]
              IN /\ c.op = "range" => Stored \in c.min..c.max
                 /\ c.op = "eq" /\ c.field \in {"bucket", "key"} => Used(c.field) = c.value
                 /\ c.op = "startsWith" /\ c.field \in {"bucket", "key"} => IsPrefix(c.value, Used(c.field))

\* The signature is checked over the field PostSignatureV4::extract finds and the policy is
\* enforced from the field find_field_value finds: with repeated fields in any order and
\* any spelling, the policy of an accepted signed form is the one that was signed.
EnforcedPolicyIsSigned ==
    answer = "stored" /\ form.signedPolicy # None => policy = form.signedPolicy

\* An upload that is answered with success has stored the whole file, and exactly as many
\* bytes as the implementation was told to expect.
StoredIsWhole ==
    answer = "stored" =>
        /\ Stored = form.file
        /\ content_len # None => Stored = content_len

=============================================================================

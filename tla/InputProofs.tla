---------------------------- MODULE InputProofs -----------------------------
(***************************************************************************)
(* The components that interpret what a client wrote: form uploads, header *)
(* values and policy patterns.  As in ComponentsProofs, one section for    *)
(* each, for all values of its constants.                                  *)
(***************************************************************************)
EXTENDS ComponentsProofs

-----------------------------------------------------------------------------
(* FormUpload: what a form upload that was answered with success has       *)
(* stored, for every form, policy, limit and size of the pieces the file   *)
(* comes in.  Answers are given at the end, and what they rest on was      *)
(* checked at different stages, some of it before the file was read.  The  *)
(* invariant says what each stage has established and that no later one    *)
(* spoils it.                                                              *)

\* The words that keys and other values are made of.
Words ==
    {f.filename : f \in Form}
    \cup UNION {UNION {Post!Range(f.fields[i].value) : i \in DOMAIN f.fields} : f \in Form}
FieldNames == UNION {{Post!Lower(f.fields[i].name) : i \in DOMAIN f.fields} : f \in Form}
\* The fields read so far are sequences of such names and values.
FieldSeqs == Seq([name : FieldNames, value : Seq(Words)])

Types ==
    /\ form \in Form
    /\ parts \in Nat
    /\ form_fields \in FieldSeqs
    /\ content_len \in Nat \cup {None}
    /\ form_remaining \in Nat /\ delivered \in Nat /\ held \in Nat /\ file_size \in Nat
    /\ clean \in BOOLEAN /\ ended \in BOOLEAN
    /\ policy \in {None} \cup DOMAIN Documents
    /\ \A i \in DOMAIN form_fields : form_fields[i].name = "policy" => form_fields[i].value \in DOMAIN Documents

Untouched == delivered = 0 /\ held = 0 /\ ~clean /\ ~ended

\* The upload has come to the stages ps, or has been stored.
Past(ps) == form_pc \in ps \/ form_answer = "stored"

Checked == {"conditions", "deserialize", "handler"}
WithFile == {"signature", "resolve", "aggregate"} \cup Checked

\* The file's bytes are accounted for: the stream's by its counter, the collected ones in memory.
FileInv ==
    /\ form_answer = "stored" => form_pc = "done"
    /\ form_pc \in {"parts", "signature", "resolve"} => Untouched
    /\ form_pc \in WithFile /\ (content_len # None \/ form_pc = "aggregate") => ~clean /\ ~ended
    /\ Past(WithFile) =>
         /\ form.file \in Nat /\ delivered <= form.file
         /\ content_len # None => form_remaining + delivered = content_len
         /\ content_len = None => held = delivered
    /\ form_pc \in Checked /\ content_len = None => delivered = form.file

\* The size the policy is checked against is the one that will be stored.
SizeInv ==
    /\ form_pc = "aggregate" => held <= ConfigMax
    /\ Past(Checked) =>
         file_size <= ConfigMax /\ file_size = IF content_len = None THEN held ELSE content_len

\* The policy that is enforced is the one whose signature was checked.
SignatureInv ==
    form.signedPolicy # None =>
        /\ form_pc = "resolve" => Post!FieldValue(form_fields, "policy") = form.signedPolicy
        /\ Past({"aggregate"} \cup Checked) => policy = form.signedPolicy

\* The conditions were checked on the key, with the file name in it, that is used.
ConditionInv ==
    /\ Past({"aggregate"} \cup Checked) => Post!Substitute(form_fields, form.filename) = form_fields
    /\ Past({"deserialize", "handler"}) /\ policy # None => Post!Violations = {}
    /\ Past({"handler"}) => Post!FieldValue(form_fields, "key") # None

Inv == FileInv /\ SizeInv /\ SignatureInv /\ ConditionInv /\ Post!StoredIsWhole

-----------------------------------------------------------------------------
(* FieldSeqs.                                                                 *)

LEMMA FieldType ==
    ASSUME NEW fs \in FieldSeqs, NEW i \in DOMAIN fs
    PROVE  fs[i] \in [name : FieldNames, value : Seq(Words)]
<1>1. DOMAIN fs = 1..Len(fs)
  BY DEF FieldSeqs
<1> QED BY <1>1, ElementOfSeq DEF FieldSeqs

\* The places of the fields with a name.
Named(fs, name) == {i \in DOMAIN fs : fs[i].name = name}

LEMMA FieldIndexType ==
    ASSUME Post!FormsOK, NEW fs \in FieldSeqs, NEW name
    PROVE  /\ Named(fs, name) = {} => Post!FieldIndex(fs, name) = None
           /\ Named(fs, name) # {} => Post!FieldIndex(fs, name) \in Named(fs, name)
           /\ Post!FieldIndex(fs, name) # None => Post!FieldIndex(fs, name) \in Named(fs, name)
<1>1. Post!FieldIndex(fs, name) = IF Named(fs, name) = {} THEN None
                             ELSE CHOOSE i \in Named(fs, name) : \A j \in Named(fs, name) : j <= i
  BY DEF Post!FieldIndex, Named
<1>2. Named(fs, name) \subseteq 1..Len(fs) /\ Len(fs) \in Nat
  BY DEF FieldSeqs, Named
<1>3. Named(fs, name) # {} => Post!FieldIndex(fs, name) \in Named(fs, name)
  BY <1>1, <1>2, LastPlace
<1> QED BY <1>1, <1>3

LEMMA SameIndex ==
    ASSUME NEW fs, NEW gs, NEW name, Named(fs, name) = Named(gs, name)
    PROVE  Post!FieldIndex(fs, name) = Post!FieldIndex(gs, name)
<1>1. ASSUME NEW hs
      PROVE  Post!FieldIndex(hs, name) =
                 IF Named(hs, name) = {} THEN None
                 ELSE CHOOSE i \in Named(hs, name) : \A j \in Named(hs, name) : j <= i
  BY DEF Post!FieldIndex, Named
<1> QED BY <1>1

LEMMA NamedType ==
    ASSUME Post!FormsOK, NEW fs \in FieldSeqs, NEW name
    PROVE  /\ Named(fs, name) \subseteq Nat /\ IsFiniteSet(Named(fs, name))
           /\ None \notin Named(fs, name)
<1>1. DOMAIN fs = 1..Len(fs) /\ Len(fs) \in Nat
  BY DEF FieldSeqs
<1>2. IsFiniteSet(1..Len(fs))
  BY <1>1, FS_Interval
<1>3. Named(fs, name) \subseteq 1..Len(fs)
  BY <1>1 DEF Named
<1>4. IsFiniteSet(Named(fs, name))
  BY <1>2, <1>3, FS_Subset
<1> QED BY <1>1, <1>3, <1>4 DEF Post!FormsOK

\* The only policy field is the one both lookups find.
LEMMA OnlyPolicy ==
    ASSUME Post!FormsOK, NEW fs \in FieldSeqs, Post!ExtractField(fs, "policy") # None
    PROVE  Post!FieldValue(fs, "policy") = Post!ExtractField(fs, "policy")
<1> DEFINE named == Named(fs, "policy")
<1>1. Cardinality(named) = 1 /\ Post!ExtractField(fs, "policy") = fs[CHOOSE i \in named : TRUE].value
  <2>1. Post!Cardinality(named) = Cardinality(named)
    BY DEF Cardinality, Post!Cardinality
  <2> QED BY <2>1 DEF Post!ExtractField, Named
<1>2. PICK x : named = {x}
  <2>1. IsFiniteSet(named)
    BY NamedType
  <2> QED BY <1>1, <2>1, FS_Singleton
<1>3. (CHOOSE i \in named : TRUE) = x
  BY <1>2
<1>4. Post!FieldIndex(fs, "policy") = x /\ x # None
  BY <1>2, FieldIndexType, NamedType
<1> QED BY <1>1, <1>3, <1>4 DEF Post!FieldValue

Filled(v, f) == [k \in DOMAIN v |-> IF v[k] = Post!FileName THEN f ELSE v[k]]

LEMMA FilledTwice ==
    ASSUME NEW v \in Seq(Words), NEW f \in Words
    PROVE  Filled(v, f) \in Seq(Words) /\ Filled(Filled(v, f), f) = Filled(v, f)
<1>1. Filled(v, f) \in Seq(Words)
  <2>1. DOMAIN v = 1..Len(v) /\ Len(v) \in Nat /\ \A k \in DOMAIN v : v[k] \in Words
    OBVIOUS
  <2>2. Filled(v, f) \in [1..Len(v) -> Words]
    BY <2>1 DEF Filled
  <2> QED BY <2>1, <2>2, SeqDef
<1>2. Filled(Filled(v, f), f) = Filled(v, f)
  BY DEF Filled
<1> QED BY <1>1, <1>2

\* The file name is put into the key once; names and other fields stay.
LEMMA SubstituteType ==
    ASSUME Post!FormsOK, NEW fs \in FieldSeqs, NEW f \in Words
    PROVE  /\ Post!Substitute(fs, f) \in FieldSeqs
           /\ DOMAIN Post!Substitute(fs, f) = DOMAIN fs
           /\ \A i \in DOMAIN fs :
                /\ Post!Substitute(fs, f)[i].name = fs[i].name
                /\ fs[i].name = "policy" => Post!Substitute(fs, f)[i].value = fs[i].value
           /\ Post!Substitute(Post!Substitute(fs, f), f) = Post!Substitute(fs, f)
<1> DEFINE i == Post!FieldIndex(fs, "key")
           gs == Post!Substitute(fs, f)
<1>1. CASE i = None
  BY <1>1 DEF Post!Substitute
<1>2. CASE i # None
  <2>1. i \in DOMAIN fs /\ fs[i].name = "key"
    BY <1>2, FieldIndexType DEF Named
  <2>2. fs[i] \in [name : FieldNames, value : Seq(Words)]
    BY <2>1, FieldType
  <2>3. gs = [fs EXCEPT ![i] = [fs[i] EXCEPT !.value = Filled(fs[i].value, f)]]
    BY <1>2, <2>1, <2>2 DEF Post!Substitute, Filled
  <2>4. [fs[i] EXCEPT !.value = Filled(fs[i].value, f)]
           = [name |-> "key", value |-> Filled(fs[i].value, f)]
    BY <2>1, <2>2
  <2>5. Filled(fs[i].value, f) \in Seq(Words) /\ Filled(Filled(fs[i].value, f), f) = Filled(fs[i].value, f)
    BY <2>2, FilledTwice
  <2>6. gs \in FieldSeqs /\ DOMAIN gs = DOMAIN fs
    <3> HIDE DEF gs
    <3> QED BY <2>1, <2>3, <2>4, <2>5 DEF FieldSeqs
  <2>7. gs[i] = [name |-> "key", value |-> Filled(fs[i].value, f)]
        /\ \A j \in DOMAIN fs : j # i => gs[j] = fs[j]
    <3> HIDE DEF gs, i
    <3> QED BY <2>1, <2>3, <2>4 DEF FieldSeqs
  <2>8. \A j \in DOMAIN fs : gs[j].name = fs[j].name /\ (fs[j].name = "policy" => gs[j].value = fs[j].value)
    <3> HIDE DEF gs, i
    <3> QED BY <2>1, <2>7
  <2>9. Post!FieldIndex(gs, "key") = i
    <3>1. Named(gs, "key") = Named(fs, "key")
      <4> HIDE DEF gs
      <4> QED BY <2>6, <2>8 DEF Named
    <3> HIDE DEF gs
    <3> QED BY <3>1, SameIndex
  <2>10. Post!Substitute(gs, f) = gs
    <3>1. Post!Substitute(gs, f) = [gs EXCEPT ![i] = [gs[i] EXCEPT !.value = Filled(gs[i].value, f)]]
      <4> HIDE DEF gs, i
      <4> QED BY <1>2, <2>1, <2>6, <2>7, <2>9 DEF Post!Substitute, Filled, FieldSeqs
    <3>2. [gs[i] EXCEPT !.value = Filled(gs[i].value, f)] = gs[i]
      <4> HIDE DEF gs, i
      <4> QED BY <2>5, <2>7
    <3>3. [gs EXCEPT ![i] = gs[i]] = gs
      <4> HIDE DEF gs, i
      <4> QED BY <2>1, <2>6 DEF FieldSeqs
    <3> HIDE DEF gs, i
    <3> QED BY <3>1, <3>2, <3>3
  <2> HIDE DEF i
  <2> QED BY <2>6, <2>8, <2>10
<1> QED BY <1>1, <1>2

\* The limit for the file is never more than the configured one.
LEMMA MaxFileSizeType ==
    ASSUME Post!FormsOK, Types
    PROVE  Post!MaxFileSize \in Nat /\ Post!MaxFileSize <= ConfigMax
<1>1. ConfigMax \in Nat
  BY DEF Post!FormsOK
<1>2. CASE policy # None /\ Post!LengthRange(policy) # None
  <2> DEFINE conditions == Documents[policy].conditions
             ranges == {i \in DOMAIN conditions : conditions[i].op = "range"}
  <2>1. /\ conditions \in Seq(Post!Range(conditions))
        /\ \A i \in DOMAIN conditions : conditions[i].op = "range" => conditions[i].max \in Nat
    BY <1>2 DEF Types, Post!FormsOK
  <2>2. ranges \subseteq Nat /\ ranges # {}
    BY <1>2, <2>1 DEF Post!LengthRange
  <2>3. PICK i \in ranges : Post!LengthRange(policy) = conditions[i]
    <3>1. \E i \in ranges : \A j \in ranges : i <= j
      <4> HIDE DEF ranges
      <4> QED BY <2>2, LeastElement
    <3>2. Post!LengthRange(policy) = conditions[CHOOSE i \in ranges : \A j \in ranges : i <= j]
      BY <2>2 DEF Post!LengthRange
    <3> HIDE DEF ranges
    <3> QED BY <3>1, <3>2
  <2>4. Post!LengthRange(policy).max \in Nat
    <3> HIDE DEF conditions
    <3> QED BY <2>1, <2>3
  <2> QED BY <1>1, <1>2, <2>4 DEF Post!MaxFileSize
<1>3. CASE ~(policy # None /\ Post!LengthRange(policy) # None)
  BY <1>1, <1>3 DEF Post!MaxFileSize
<1> QED BY <1>2, <1>3

-----------------------------------------------------------------------------
(* Types.                                                                  *)

LEMMA InitTypes == ASSUME Post!FormsOK, Post!Init PROVE Types
<1>1. <<>> \in FieldSeqs /\ DOMAIN <<>> = {}
  BY DEF FieldSeqs
<1>2. form_fields = <<>>
  BY DEF Post!Init
<1> QED BY <1>1, <1>2 DEF Post!Init, Types

LEMMA YieldsTypes ==
    ASSUME Post!FormsOK, Types, form.file \in Nat, NEW n \in Nat, Post!Yields(n)
    PROVE  /\ form_remaining' \in Nat /\ delivered' = delivered + n /\ delivered' \in Nat
           /\ delivered' <= form.file
           /\ content_len # None => form_remaining' = form_remaining - n
           /\ UNCHANGED <<content_len, ended, clean>>
BY DEF Post!Yields, Types, Post!FormsOK

LEMMA PolicyType ==
    ASSUME Post!FormsOK, Types
    PROVE  Post!FieldValue(form_fields, "policy") \in {None} \cup DOMAIN Documents
<1>1. CASE Post!FieldIndex(form_fields, "policy") = None
  BY <1>1 DEF Post!FieldValue
<1>2. CASE Post!FieldIndex(form_fields, "policy") # None
  BY <1>2, FieldIndexType DEF Post!FieldValue, Types, Named
<1> QED BY <1>1, <1>2

LEMMA FormType ==
    ASSUME Post!FormsOK, Types
    PROVE  /\ form.fields \in Seq(Post!Range(form.fields))
           /\ form.file \in Nat \cup {None} /\ form.filename \in Words
           /\ form.file # None => form.file \in Nat /\ Post!ContentLen(form) \in Nat \cup {None}
<1>1. /\ form.fields \in Seq(Post!Range(form.fields))
      /\ form.file \in Nat \cup {None} /\ form.filename \in Words
      /\ form.trailer \in {"canonical", "padded", "epilogue", "cut"} /\ Closing \in Nat
  BY DEF Post!FormsOK, Types, Words
<1>2. Post!TrailerExtra(form) \in Int
  BY <1>1 DEF Post!TrailerExtra
<1>3. form.file \in Nat => Post!ContentLen(form) \in Nat \cup {None}
  BY <1>2 DEF Post!ContentLen
<1> QED BY <1>1, <1>3

LEMMA ReadFieldTypes ==
    ASSUME Post!FormsOK, Types, Post!ReadField
    PROVE  Types'
<1> DEFINE field == form.fields[parts + 1]
           read == [name |-> Post!Lower(field.name), value |-> field.value]
<1>1. parts + 1 \in DOMAIN form.fields
  BY FormType DEF Post!ReadField, Types
<1>2. /\ field.value \in Seq(Words) /\ Post!Lower(field.name) \in FieldNames
      /\ Post!Lower(field.name) = "policy" => field.value \in DOMAIN Documents
  <2>1. /\ form \in Form /\ field.value \in Seq(Post!Range(field.value))
        /\ Post!Lower(field.name) = "policy" => field.value \in DOMAIN Documents
    BY <1>1 DEF Post!FormsOK, Types
  <2>2. Post!Range(field.value) \subseteq Words
    BY <1>1, <2>1 DEF Words
  <2>3. Post!Lower(field.name) \in FieldNames
    BY <1>1, <2>1 DEF FieldNames
  <2> HIDE DEF field
  <2> QED BY <2>1, <2>2, <2>3, SeqMonotonic
<1>3. CASE UNCHANGED form_fields
  BY <1>3 DEF Post!ReadField, Types, Post!stream
<1>4. CASE form_fields' = Append(form_fields, read)
  <2>1. /\ read \in [name : FieldNames, value : Seq(Words)]
        /\ read.name = "policy" => read.value \in DOMAIN Documents
    BY <1>2
  <2> HIDE DEF read
  <2>2. form_fields' \in FieldSeqs /\ Len(form_fields') = Len(form_fields) + 1
        /\ form_fields'[Len(form_fields) + 1] = read /\ \A i \in 1..Len(form_fields) : form_fields'[i] = form_fields[i]
    BY <1>4, <2>1, AppendProperties DEF Types, FieldSeqs
  <2>3. \A i \in DOMAIN form_fields' : form_fields'[i].name = "policy" => form_fields'[i].value \in DOMAIN Documents
    <3>1. DOMAIN form_fields' = 1..Len(form_fields) + 1 /\ DOMAIN form_fields = 1..Len(form_fields) /\ Len(form_fields) \in Nat
      BY <2>2 DEF FieldSeqs, Types
    <3>2. ASSUME NEW i \in 1..Len(form_fields)
          PROVE  form_fields'[i].name = "policy" => form_fields'[i].value \in DOMAIN Documents
      BY <2>2, <3>1 DEF Types
    <3>3. form_fields'[Len(form_fields) + 1].name = "policy" => form_fields'[Len(form_fields) + 1].value \in DOMAIN Documents
      BY <2>1, <2>2
    <3> QED BY <3>1, <3>2, <3>3
  <2> QED BY <2>2, <2>3 DEF Post!ReadField, Types, Post!stream
<1> QED BY <1>3, <1>4 DEF Post!ReadField

LEMMA NextTypes ==
    ASSUME Post!FormsOK, Types, FileInv, [Post!Next]_(Post!vars)
    PROVE  Types'
<1>1. CASE Post!ReadField
  BY <1>1, ReadFieldTypes
<1>2. CASE Post!ReadFile
  <2>1. Post!ContentLen(form) \in Nat \cup {None}
    BY <1>2, FormType DEF Post!ReadFile
  <2> QED BY <1>2, <2>1 DEF Post!ReadFile, Types
<1>3. CASE Post!Resolve
  <2>1. Post!Substitute(form_fields, form.filename) \in FieldSeqs
        /\ \A i \in DOMAIN form_fields' : form_fields'[i].name = "policy" => form_fields'[i].value \in DOMAIN Documents
    <3>1. form_fields \in FieldSeqs /\ form.filename \in Words /\ form_fields' = Post!Substitute(form_fields, form.filename)
      BY <1>3, FormType DEF Post!Resolve, Types
    <3>2. form_fields' \in FieldSeqs /\ DOMAIN form_fields' = DOMAIN form_fields
          /\ \A i \in DOMAIN form_fields :
               form_fields'[i].name = form_fields[i].name /\ (form_fields[i].name = "policy" => form_fields'[i].value = form_fields[i].value)
      BY <3>1, SubstituteType
    <3>3. \A i \in DOMAIN form_fields : form_fields[i].name = "policy" => form_fields[i].value \in DOMAIN Documents
      BY DEF Types
    <3>4. ASSUME NEW i \in DOMAIN form_fields', form_fields'[i].name = "policy"
          PROVE  form_fields'[i].value \in DOMAIN Documents
      <4>1. i \in DOMAIN form_fields
        BY <3>2
      <4>2. form_fields[i].name = "policy" /\ form_fields'[i].value = form_fields[i].value
        BY <3>2, <3>4, <4>1
      <4> QED BY <3>3, <4>1, <4>2
    <3> QED BY <3>1, <3>2, <3>4
  <2>2. Post!FieldValue(form_fields, "policy") \in {None} \cup DOMAIN Documents
    BY PolicyType
  <2> QED BY <1>3, <2>1, <2>2 DEF Post!Resolve, Types, Post!stream
<1>4. CASE Post!NoFile \/ Post!CheckSignature \/ Post!ValidateConditions \/ Post!DeserializeHttp \/ Post!StoreHeld \/ UNCHANGED Post!vars
  BY <1>4 DEF Post!NoFile, Post!CheckSignature, Post!ValidateConditions, Post!DeserializeHttp, Post!StoreHeld, Types, Post!stream, Post!vars
<1>5. CASE Post!ForwardStream
  BY <1>5 DEF Post!ForwardStream, Types, Post!stream
<1>6. ASSUME NEW n \in Post!Pieces, Post!Aggregate(n) \/ Post!HandlerReads(n)
      PROVE  Types'
  <2>1. form.file \in Nat /\ n \in Nat
    BY <1>6, FormType DEF Post!Pieces
  <2>2. Post!Yields(n)
    BY <1>6 DEF Post!Aggregate, Post!HandlerReads
  <2>3. held' \in Nat
    BY <1>6, <2>1 DEF Post!Aggregate, Post!HandlerReads, Types
  <2> QED BY <1>6, <2>1, <2>2, <2>3, YieldsTypes DEF Post!Aggregate, Post!HandlerReads, Types
<1>7. CASE Post!AggregateFails \/ Post!HandlerFails
  BY <1>7 DEF Post!AggregateFails, Post!HandlerFails, Post!Fails, Types
<1>8. CASE Post!AggregateEnds \/ Post!HandlerEnds
  BY <1>8 DEF Post!AggregateEnds, Post!HandlerEnds, Post!Ends, Types
<1> QED BY <1>1, <1>2, <1>3, <1>4, <1>5, <1>6, <1>7, <1>8 DEF Post!Next, Post!Done

-----------------------------------------------------------------------------
(* The file.                                                               *)

\* Before the upload is answered, steps that leave the stream alone keep the account of it.
LEMMA SameFile ==
    ASSUME FileInv, Post!StoredIsWhole, UNCHANGED <<form, Post!stream, held>>,
           form_answer' = "stored" => FALSE,
           \/ form_pc' = "done"
           \/ form_pc \in {"signature", "resolve"} /\ form_pc' \in {"resolve", "aggregate"}
           \/ form_pc = "aggregate" /\ content_len # None /\ form_pc' = "conditions"
           \/ form_pc \in Checked /\ form_pc' \in Checked
    PROVE  FileInv' /\ Post!StoredIsWhole'
BY DEF FileInv, Post!StoredIsWhole, Past, WithFile, Checked, Untouched, Post!stream

LEMMA YieldsFile ==
    ASSUME Post!FormsOK, Types, FileInv, Post!StoredIsWhole, NEW n \in Post!Pieces, Post!Yields(n), form_pc' = form_pc, form_answer' = form_answer,
           UNCHANGED form,
           \/ form_pc = "aggregate" /\ content_len = None /\ held' = held + n
           \/ form_pc = "handler" /\ content_len # None /\ held' = held
    PROVE  FileInv' /\ Post!StoredIsWhole'
<1>1. form.file \in Nat /\ n \in Nat /\ form_answer # "stored"
  BY FormType DEF Post!Pieces, FileInv
<1>2. /\ form_remaining' \in Nat /\ delivered' = delivered + n /\ delivered' <= form.file
      /\ content_len # None => form_remaining' = form_remaining - n
      /\ UNCHANGED <<content_len, ended, clean>>
  BY <1>1, YieldsTypes
<1>3. delivered \in Nat /\ held \in Nat /\ form_remaining \in Nat /\ content_len \in Nat \cup {None}
  BY DEF Types
<1>4. CASE form_pc = "aggregate" /\ content_len = None /\ held' = held + n
  <2>1. held = delivered /\ ~clean /\ ~ended
    BY <1>4 DEF FileInv, Past, WithFile
  <2> QED BY <1>1, <1>2, <1>3, <1>4, <2>1 DEF FileInv, Post!StoredIsWhole, Past, WithFile, Checked
<1>5. CASE form_pc = "handler" /\ content_len # None /\ held' = held
  <2>1. form_remaining + delivered = content_len /\ ~clean /\ ~ended
    BY <1>5 DEF FileInv, Past, WithFile, Checked
  <2>2. form_remaining' + delivered' = content_len
    BY <1>1, <1>2, <1>3, <1>5, <2>1
  <2> QED BY <1>1, <1>2, <1>5, <2>1, <2>2 DEF FileInv, Post!StoredIsWhole, Past, WithFile, Checked
<1> QED BY <1>4, <1>5

LEMMA FileStep ==
    ASSUME Post!FormsOK, Types, FileInv, Post!StoredIsWhole, [Post!Next]_(Post!vars)
    PROVE  FileInv' /\ Post!StoredIsWhole'
<1> USE DEF Post!Answer, Post!Go
<1>1. CASE Post!ReadField \/ Post!NoFile
  BY <1>1 DEF Post!ReadField, Post!NoFile, FileInv, Post!StoredIsWhole, Past, WithFile, Checked, Untouched, Post!stream
<1>2. CASE Post!ReadFile
  <2>1. form.file \in Nat /\ Post!ContentLen(form) \in Nat \cup {None}
    BY <1>2, FormType DEF Post!ReadFile
  <2>2. None \notin Nat
    BY DEF Post!FormsOK
  <2> QED BY <1>2, <2>1, <2>2 DEF Post!ReadFile, FileInv, Post!StoredIsWhole, Past, WithFile, Checked, Untouched
<1>3. CASE Post!CheckSignature
  BY <1>3, SameFile DEF Post!CheckSignature, FileInv
<1>4. CASE Post!Resolve
  BY <1>4, SameFile DEF Post!Resolve, FileInv
<1>5. CASE Post!ForwardStream
  BY <1>5, SameFile DEF Post!ForwardStream, FileInv
<1>6. CASE Post!ValidateConditions
  <2>1. form_answer' # "stored" /\ form_pc' \in {"done", "deserialize"}
    BY <1>6 DEF Post!ValidateConditions, Post!ConditionError, FileInv
  <2> QED BY <1>6, <2>1, SameFile DEF Post!ValidateConditions, Checked
<1>7. CASE Post!DeserializeHttp
  <2>1. form_answer' # "stored" /\ form_pc' \in {"done", "handler"}
    BY <1>7 DEF Post!DeserializeHttp, FileInv
  <2> QED BY <1>7, <2>1, SameFile DEF Post!DeserializeHttp, Checked
<1>8. ASSUME NEW n \in Post!Pieces, Post!Aggregate(n) PROVE FileInv' /\ Post!StoredIsWhole'
  <2>1. CASE held + n > Post!MaxFileSize
    BY <1>8, <2>1 DEF Post!Aggregate, FileInv, Post!StoredIsWhole, Past, WithFile, Checked, Untouched
  <2>2. CASE ~(held + n > Post!MaxFileSize)
    BY <1>8, <2>2, YieldsFile DEF Post!Aggregate
  <2> QED BY <2>1, <2>2
<1>9. ASSUME NEW n \in Post!Pieces, Post!HandlerReads(n) PROVE FileInv' /\ Post!StoredIsWhole'
  BY <1>9, YieldsFile DEF Post!HandlerReads
<1>10. CASE Post!AggregateFails \/ Post!HandlerFails
  BY <1>10 DEF Post!AggregateFails, Post!HandlerFails, Post!Fails, FileInv, Post!StoredIsWhole, Past, WithFile, Checked, Untouched
<1>11. CASE Post!AggregateEnds
  <2>1. delivered = form.file /\ delivered \in Nat
    BY <1>11 DEF Post!AggregateEnds, Post!Ends, Post!AtCleanEnd, Post!Flowing, FileInv, Past, WithFile, Types
  <2> QED BY <1>11, <2>1 DEF Post!AggregateEnds, Post!Ends, FileInv, Post!StoredIsWhole, Past, WithFile, Checked, Untouched
<1>12. CASE Post!StoreHeld
  BY <1>12 DEF Post!StoreHeld, FileInv, Post!StoredIsWhole, Post!Stored, Past, WithFile, Checked, Untouched, Post!stream
<1>13. CASE Post!HandlerEnds
  <2>1. delivered = form.file /\ delivered = content_len /\ form.file \in Nat /\ content_len # None
    BY <1>13 DEF Post!HandlerEnds, Post!Ends, Post!AtCleanEnd, Post!Flowing, FileInv, Past, WithFile, Checked, Types
  <2> QED BY <1>13, <2>1 DEF Post!HandlerEnds, Post!Ends, FileInv, Post!StoredIsWhole, Post!Stored, Past, WithFile, Checked, Untouched
<1>14. CASE Post!Done \/ UNCHANGED Post!vars
  BY <1>14 DEF Post!Done, Post!vars, Post!stream, FileInv, Post!StoredIsWhole, Post!Stored, Past, WithFile, Checked, Untouched
<1> QED BY <1>1, <1>2, <1>3, <1>4, <1>5, <1>6, <1>7, <1>8, <1>9, <1>10, <1>11, <1>12, <1>13, <1>14 DEF Post!Next

-----------------------------------------------------------------------------
(* Its size.                                                               *)

LEMMA SizeStep ==
    ASSUME Post!FormsOK, Types, FileInv, SizeInv, [Post!Next]_(Post!vars)
    PROVE  SizeInv'
<1> USE DEF Post!Answer, Post!Go
<1>0. ConfigMax \in Nat /\ held \in Nat /\ Post!MaxFileSize \in Nat /\ Post!MaxFileSize <= ConfigMax
      /\ content_len \in Nat \cup {None} /\ None \notin Nat
  BY MaxFileSizeType DEF Post!FormsOK, Types
<1>1. CASE \/ Post!ReadField \/ Post!ReadFile \/ Post!NoFile \/ Post!CheckSignature \/ Post!AggregateFails \/ Post!HandlerFails
  BY <1>1 DEF Post!ReadField, Post!ReadFile, Post!NoFile, Post!CheckSignature, Post!AggregateFails, Post!HandlerFails, FileInv, SizeInv,
              Past, Checked
<1>2. CASE Post!Resolve
  BY <1>0, <1>2 DEF Post!Resolve, FileInv, SizeInv, Past, Checked, Untouched
<1>3. CASE Post!ForwardStream
  BY <1>0, <1>3 DEF Post!ForwardStream, FileInv, SizeInv, Past, Checked, Post!stream
<1>4. ASSUME NEW n \in Post!Pieces, Post!Aggregate(n) PROVE SizeInv'
  <2>1. n \in Nat
    BY FormType DEF Post!Pieces
  <2> QED BY <1>0, <1>4, <2>1 DEF Post!Aggregate, FileInv, SizeInv, Past, Checked
<1>5. CASE Post!AggregateEnds
  BY <1>0, <1>5 DEF Post!AggregateEnds, Post!Ends, FileInv, SizeInv, Past, Checked
<1>6. CASE Post!ValidateConditions
  <2>1. form_answer' # "stored" /\ form_pc' \in {"done", "deserialize"}
    BY <1>6 DEF Post!ValidateConditions, Post!ConditionError, FileInv
  <2> QED BY <1>6, <2>1 DEF Post!ValidateConditions, SizeInv, Past, Checked, Post!stream
<1>7. CASE Post!DeserializeHttp
  BY <1>7 DEF Post!DeserializeHttp, FileInv, SizeInv, Past, Checked, Post!stream
<1>8. CASE Post!StoreHeld \/ Post!HandlerEnds
  BY <1>8 DEF Post!StoreHeld, Post!HandlerEnds, Post!Ends, SizeInv, Past, Checked, Post!stream
<1>9. ASSUME NEW n \in Post!Pieces, Post!HandlerReads(n) PROVE SizeInv'
  BY <1>9 DEF Post!HandlerReads, Post!Yields, SizeInv, Past, Checked
<1>10. CASE Post!Done \/ UNCHANGED Post!vars
  BY <1>10 DEF Post!Done, Post!vars, Post!stream, SizeInv, Past, Checked
<1> QED BY <1>1, <1>2, <1>3, <1>4, <1>5, <1>6, <1>7, <1>8, <1>9, <1>10 DEF Post!Next

-----------------------------------------------------------------------------
(* The policy.                                                             *)

LEMMA FormSignatureStep ==
    ASSUME Post!FormsOK, Types, FileInv, SignatureInv, [Post!Next]_(Post!vars)
    PROVE  SignatureInv'
<1> USE DEF Post!Answer, Post!Go
<1>1. CASE Post!ReadField \/ Post!NoFile
  BY <1>1 DEF Post!ReadField, Post!NoFile, FileInv, SignatureInv, Past, Checked
<1>2. CASE Post!ReadFile
  BY <1>2 DEF Post!ReadFile, FileInv, SignatureInv, Past, Checked
<1>3. CASE Post!CheckSignature
  <2>1. ASSUME form_pc' = "resolve", form.signedPolicy # None
        PROVE  Post!FieldValue(form_fields, "policy") = form.signedPolicy
    <3>1. Post!ExtractField(form_fields, "policy") # None /\ Post!ExtractField(form_fields, "policy") = form.signedPolicy
      BY <1>3, <2>1 DEF Post!CheckSignature, Post!Extracted
    <3> QED BY <3>1, OnlyPolicy DEF Types
  <2>2. form_answer' # "stored" /\ form_pc' \in {"resolve", "done"} /\ UNCHANGED <<form, form_fields>>
    BY <1>3 DEF Post!CheckSignature, FileInv
  <2> QED BY <2>1, <2>2 DEF SignatureInv, Past, Checked
<1>4. CASE Post!Resolve
  BY <1>4 DEF Post!Resolve, FileInv, SignatureInv, Past, Checked
<1>5. CASE Post!ForwardStream \/ Post!AggregateFails \/ Post!AggregateEnds \/ Post!HandlerFails \/ Post!HandlerEnds \/ Post!StoreHeld \/ Post!DeserializeHttp
  BY <1>5 DEF Post!ForwardStream, Post!AggregateFails, Post!AggregateEnds, Post!HandlerFails, Post!HandlerEnds, Post!StoreHeld, Post!DeserializeHttp,
              FileInv, SignatureInv, Past, Checked
<1>6. CASE Post!ValidateConditions
  <2>1. form_answer' # "stored" /\ form_pc' \in {"done", "deserialize"}
    BY <1>6 DEF Post!ValidateConditions, Post!ConditionError, FileInv
  <2> QED BY <1>6, <2>1 DEF Post!ValidateConditions, SignatureInv, Past, Checked
<1>7. ASSUME NEW n \in Post!Pieces, Post!Aggregate(n) \/ Post!HandlerReads(n) PROVE SignatureInv'
  BY <1>7 DEF Post!Aggregate, Post!HandlerReads, FileInv, SignatureInv, Past, Checked
<1>8. CASE Post!Done \/ UNCHANGED Post!vars
  BY <1>8 DEF Post!Done, Post!vars, SignatureInv, Past, Checked
<1> QED BY <1>1, <1>2, <1>3, <1>4, <1>5, <1>6, <1>7, <1>8 DEF Post!Next

\* What the conditions were checked on does not change.
LEMMA SameConditions ==
    ASSUME UNCHANGED <<form, form_fields, policy, file_size>>
    PROVE  Post!Violations' = Post!Violations
BY DEF Post!Violations, Post!BucketAgrees, Post!ConditionHolds, Post!ConditionValue, Post!Conditions

LEMMA ConditionStep ==
    ASSUME Post!FormsOK, Types, FileInv, ConditionInv, [Post!Next]_(Post!vars)
    PROVE  ConditionInv'
<1> USE DEF Post!Answer, Post!Go
<1>1. CASE Post!ReadField \/ Post!NoFile \/ Post!ReadFile \/ Post!CheckSignature
  BY <1>1 DEF Post!ReadField, Post!NoFile, Post!ReadFile, Post!CheckSignature, FileInv, ConditionInv, Past, Checked
<1>2. CASE Post!Resolve
  <2>1. Post!Substitute(form_fields', form.filename) = form_fields'
    BY <1>2, FormType, SubstituteType DEF Post!Resolve, Types
  <2>2. form_answer' # "stored" /\ form_pc' \in {"aggregate", "done"} /\ UNCHANGED form
    BY <1>2 DEF Post!Resolve, FileInv
  <2> QED BY <2>1, <2>2 DEF ConditionInv, Past
<1>3. CASE Post!ForwardStream \/ Post!AggregateFails \/ Post!AggregateEnds
  BY <1>3 DEF Post!ForwardStream, Post!AggregateFails, Post!AggregateEnds, FileInv, ConditionInv, Past, Checked
<1>4. CASE Post!ValidateConditions
  <2>1. form_answer' # "stored" /\ form_pc' \in {"done", "deserialize"} /\ UNCHANGED <<form, form_fields, policy, file_size>>
    BY <1>4 DEF Post!ValidateConditions, Post!ConditionError, FileInv
  <2>2. form_pc' = "deserialize" /\ policy # None => Post!Violations = {}
    BY <1>4 DEF Post!ValidateConditions
  <2>3. Post!Substitute(form_fields, form.filename) = form_fields
    BY <1>4 DEF Post!ValidateConditions, ConditionInv, Past, Checked
  <2> QED BY <2>1, <2>2, <2>3, SameConditions DEF ConditionInv, Past
<1>5. CASE Post!DeserializeHttp \/ Post!StoreHeld \/ Post!HandlerFails \/ Post!HandlerEnds
  <2>1. /\ UNCHANGED <<form, form_fields, policy, file_size>> /\ form_pc \in {"deserialize", "handler"}
        /\ form_pc' \in {"handler", "done"}
        /\ form_pc = "handler" \/ form_answer' # "stored"
        /\ form_pc = "handler" \/ form_pc' = "done" \/ Post!FieldValue(form_fields, "key") # None
    BY <1>5 DEF Post!DeserializeHttp, Post!StoreHeld, Post!HandlerFails, Post!HandlerEnds, FileInv
  <2> QED BY <2>1, SameConditions DEF ConditionInv, Past, Checked
<1>6. ASSUME NEW n \in Post!Pieces, Post!Aggregate(n) PROVE ConditionInv'
  BY <1>6 DEF Post!Aggregate, FileInv, ConditionInv, Past, Checked
<1>7. ASSUME NEW n \in Post!Pieces, Post!HandlerReads(n) PROVE ConditionInv'
  BY <1>7, SameConditions DEF Post!HandlerReads, ConditionInv, Past, Checked
<1>8. CASE Post!Done \/ UNCHANGED Post!vars
  BY <1>8, SameConditions DEF Post!Done, Post!vars, ConditionInv, Past, Checked
<1> QED BY <1>1, <1>2, <1>3, <1>4, <1>5, <1>6, <1>7, <1>8 DEF Post!Next

-----------------------------------------------------------------------------
(* Theorems.                                                               *)

LEMMA InvAlways == ASSUME Post!FormsOK PROVE Post!Spec => [](Types /\ Inv)
<1>1. Post!Init => Types /\ Inv
  BY InitTypes DEF Post!Init, Inv, FileInv, SizeInv, SignatureInv, ConditionInv, Post!StoredIsWhole, Past, Checked,
                   WithFile, Untouched
<1>2. Types /\ Inv /\ [Post!Next]_(Post!vars) => (Types /\ Inv)'
  BY NextTypes, FileStep, SizeStep, FormSignatureStep, ConditionStep DEF Inv
<1> QED BY <1>1, <1>2, PTL DEF Post!Spec

\* Whatever length was derived for the file, padded, cut or followed by something, and in whatever
\* pieces it came, a success means that FileStream gave the handler the whole file, of the length
\* it was told (transform_multipart, FileStream::poll_next, aggregate_file_stream_limited).
THEOREM StoredIsWholeHolds == Post!Spec => []StoredIsWhole
<1>1. Inv => StoredIsWhole
  BY DEF Inv, StoredIsWhole
<1> QED BY <1>1, InvAlways, ComponentsAssumption, PTL

\* For all fields, repeated, in any order and spelling: the policy resolve_post_object enforces
\* on a signed form is the one whose signature was checked.
THEOREM EnforcedPolicyIsSignedHolds == Post!Spec => []EnforcedPolicyIsSigned
<1>1. Inv => EnforcedPolicyIsSigned
  BY DEF EnforcedPolicyIsSigned, Inv, SignatureInv, Post!EnforcedPolicyIsSigned, Past
<1> QED BY <1>1, InvAlways, ComponentsAssumption, PTL

\* For all policies and forms: what is stored satisfies every condition of the policy on its size,
\* its bucket and the key that is used, and the configured maximum, although validate_conditions_only
\* runs before a streamed file is read.
THEOREM AcceptedSatisfiesPolicyHolds == Post!Spec => []AcceptedSatisfiesPolicy
<1>1. Types /\ Inv => AcceptedSatisfiesPolicy
  <2>1. SUFFICES ASSUME Types, Inv, form_answer = "stored" PROVE Post!AcceptedSatisfiesPolicy
    BY DEF AcceptedSatisfiesPolicy, Post!AcceptedSatisfiesPolicy
  <2>2. Post!Stored = file_size /\ file_size <= ConfigMax
    BY <2>1 DEF Inv, SizeInv, Post!StoredIsWhole, Post!Stored, Past
  <2>3. ASSUME policy # None, NEW i \in DOMAIN Post!Conditions
        PROVE  LET c == Post!Conditions[i]
               IN /\ c.op = "range" => Post!Stored \in c.min..c.max
                  /\ c.op = "eq" /\ c.field \in {"bucket", "key"} => Post!Used(c.field) = c.value
                  /\ c.op = "startsWith" /\ c.field \in {"bucket", "key"} => Post!IsPrefix(c.value, Post!Used(c.field))
    <3> DEFINE c == Post!Conditions[i]
    <3>1. Post!ConditionHolds(c) /\ (c.op = "range" => file_size \in c.min..c.max)
      BY <2>1, <2>3 DEF Inv, ConditionInv, Past, Post!Violations
    <3>2. c.field \in {"bucket", "key"} => Post!Used(c.field) = Post!ConditionValue(c.field)
      BY <2>1 DEF Inv, ConditionInv, Past, Post!Used, Post!StoredKey, Post!ConditionValue
    <3>3. c.field \in {"bucket", "key"} => Post!ConditionValue(c.field) # None
      BY <2>1, ComponentsAssumption DEF Post!FormsOK, Types, Inv, ConditionInv, Past, Post!ConditionValue
    <3>4. c.op = "range" => Post!Stored \in c.min..c.max
      BY <2>2, <3>1
    <3>5. c.op = "eq" => Post!ConditionValue(c.field) = c.value
      BY <3>1 DEF Post!ConditionHolds
    <3>6. c.op = "startsWith" => IF Post!ConditionValue(c.field) = None THEN c.value = <<>>
                                 ELSE Post!IsPrefix(c.value, Post!ConditionValue(c.field))
      BY <3>1 DEF Post!ConditionHolds
    <3> HIDE DEF c
    <3>7. /\ c.op = "eq" /\ c.field \in {"bucket", "key"} => Post!Used(c.field) = c.value
          /\ c.op = "startsWith" /\ c.field \in {"bucket", "key"} => Post!IsPrefix(c.value, Post!Used(c.field))
      BY <3>2, <3>3, <3>5, <3>6
    <3> QED BY <3>4, <3>7 DEF c
  <2> QED BY <2>1, <2>2, <2>3 DEF Post!AcceptedSatisfiesPolicy
<1> QED BY <1>1, InvAlways, ComponentsAssumption, PTL

-----------------------------------------------------------------------------
(* Rfc2047: what is sent and what is decoded are pieces that follow one    *)
(* another through the whole text, cut between its characters, and a word  *)
(* that is one of several is as short as the room in it.                   *)

Piece == Nat \X Nat

\* Pieces that follow one another from a start to an end.
Follow(ws, start, end) ==
    /\ ws[1][1] = start /\ ws[Len(ws)][2] = end
    /\ \A k \in 1..Len(ws) - 1 : ws[k][2] = ws[k + 1][1]

CodecTypes ==
    /\ header \in Texts
    /\ codec \in {"encode", "split", "sent", "decode", "decoded", "reinterpreted",
                  "EncodeTooLarge", "DecodeTooLarge", "Malformed"}
    /\ split_at \in header.boundaries
    /\ words \in Seq(Piece) /\ decoded \in Seq(Piece)

\* Words are cut between characters, and short when there are several.
CutWell ==
    /\ \A k \in DOMAIN words : {words[k][1], words[k][2]} \subseteq header.boundaries
    /\ codec = "split" \/ Len(words) > 1 =>
         \A k \in DOMAIN words : words[k][2] - words[k][1] <= Codec!max_input_bytes

Encoded ==
    /\ codec = "encode" => split_at = 0 /\ words = <<>>
    /\ codec = "split" => IF words = <<>> THEN split_at = 0 ELSE Follow(words, 0, split_at)
    /\ codec \in {"sent", "decode", "decoded"} /\ words # <<>> => Follow(words, 0, header.length)

Decoded ==
    /\ codec \in {"encode", "split", "sent"} => decoded = <<>>
    /\ codec = "decode" => words # <<>> /\ Len(decoded) <= Len(words)
                        /\ \A k \in 1..Len(decoded) : decoded[k] = words[k]
    /\ codec = "decoded" => Follow(decoded, Codec!Kept[1], Codec!Kept[2])

\* A text is sent in words or as it is, as its bytes tell.
Sent ==
    /\ words # <<>> \/ codec = "split" => ~header.safe
    /\ codec = "sent" /\ words = <<>> => header.safe
    /\ codec = "sent" /\ header.safe => encoded = header.length /\ header.length <= MAX_INPUT_LEN

\* What is refused or taken for something else.
Refusals ==
    /\ codec = "EncodeTooLarge" => header.length > MAX_INPUT_LEN
    /\ codec = "DecodeTooLarge" => ~header.safe /\ encoded > MAX_INPUT_LEN
    /\ codec \in {"reinterpreted", "Malformed"} => header.safe /\ header.shape # "plain"

CodecInv == CodecTypes /\ CutWell /\ Encoded /\ Decoded /\ Sent /\ Refusals

LEMMA TextTypes ==
    ASSUME Codec!TextsOK, header \in Texts
    PROVE  /\ header.length \in Nat /\ 0 \in header.boundaries /\ header.length \in header.boundaries
           /\ header.boundaries \subseteq 0..header.length /\ header.boundaries \subseteq Nat
           /\ \A e \in header.boundaries : e < header.length =>
                \E f \in header.boundaries : e < f /\ f <= e + 4
           /\ header.core \in Piece /\ MAX_INPUT_LEN \in Nat
           /\ header.length = 0 => header.safe
  BY DEF Codec!TextsOK, Piece

\* The most bytes of a word are a number, and their Base64 fits.
LEMMA WordsFit ==
    ASSUME Codec!TextsOK
    PROVE  /\ Codec!max_input_bytes \in Nat /\ Codec!max_input_bytes >= 4
           /\ \A a, b \in Nat : b - a <= Codec!max_input_bytes => Codec!WordLen(<<a, b>>) <= MAX_ENCODED_WORD_LEN
<1> DEFINE room == MAX_ENCODED_WORD_LEN - Overhead
           q == room \div 4
<1>1. room \in Int /\ MAX_ENCODED_WORD_LEN \in Nat /\ Overhead \in Nat
  BY DEF Codec!TextsOK
<1>2. Codec!max_input_bytes = q * 3 /\ q * 3 >= 4
  BY DEF Codec!TextsOK, Codec!max_input_bytes
<1>3. q \in Int /\ 4 * q <= room
  <2> HIDE DEF room
  <2> QED BY <1>1
<1> HIDE DEF q
<1>4. q \in Nat
  BY <1>2, <1>3
<1>5. ASSUME NEW a \in Nat, NEW b \in Nat, b - a <= q * 3 PROVE Codec!DivCeil(b - a, 3) <= q
                                                                 /\ Codec!DivCeil(b - a, 3) \in Int
  <2> DEFINE n == b - a
  <2>1. n \in Int /\ n <= q * 3
    BY <1>5
  <2> HIDE DEF n
  <2>2. (n + 3 - 1) \div 3 <= q /\ (n + 3 - 1) \div 3 \in Int
    BY <1>4, <2>1
  <2> QED BY <2>2 DEF Codec!DivCeil, n
<1>6. ASSUME NEW a \in Nat, NEW b \in Nat, b - a <= q * 3
      PROVE  Codec!WordLen(<<a, b>>) <= MAX_ENCODED_WORD_LEN
  <2> DEFINE c == Codec!DivCeil(b - a, 3)
  <2>1. c <= q /\ c \in Int
    BY <1>5, <1>6
  <2>2. Codec!WordLen(<<a, b>>) = 4 * c + Overhead
    BY DEF Codec!WordLen
  <2> HIDE DEF c
  <2>3. 4 * c <= room
    <3> HIDE DEF room
    <3> QED BY <1>1, <1>3, <2>1
  <2> QED BY <1>1, <2>1, <2>2, <2>3
<1> QED BY <1>2, <1>4, <1>6

\* The next word ends between characters, makes progress and is short enough.
LEMMA WordEndAdvances ==
    ASSUME Codec!TextsOK, header \in Texts, split_at \in header.boundaries, split_at < header.length
    PROVE  /\ Codec!WordEnd \in header.boundaries /\ split_at < Codec!WordEnd /\ Codec!WordEnd - split_at <= Codec!max_input_bytes
<1> DEFINE es == {e \in header.boundaries : split_at <= e /\ e <= Codec!Limit}
<1>1. /\ header.length \in Nat /\ header.boundaries \subseteq 0..header.length /\ split_at \in Nat
      /\ Codec!max_input_bytes \in Nat /\ Codec!max_input_bytes >= 4
  BY TextTypes, WordsFit
<1>2. PICK f \in header.boundaries : split_at < f /\ f <= split_at + 4
  BY TextTypes
<1>3. f \in 0..header.length /\ Codec!Limit \in Nat /\ Codec!Limit <= split_at + Codec!max_input_bytes /\ f <= Codec!Limit
  BY <1>1, <1>2 DEF Codec!Limit
<1>4. f \in es
  BY <1>1, <1>2, <1>3
<1>5. \A e \in es : e \in 1..header.length + 1 \/ e = 0
  BY <1>1
<1>6. \E e \in es : \A d \in es : d <= e
  <2> DEFINE T == {e \in es : e # 0}
  <2>1. T \subseteq 1..header.length
    BY <1>1
  <2>2. f \in T
    BY <1>1, <1>2, <1>4
  <2>3. PICK x \in T : \A y \in T : y <= x
    <3> HIDE DEF T
    <3> QED BY <1>1, <2>1, <2>2, LastPlace
  <2>4. x \in es /\ x \in Nat
    BY <2>1
  <2>5. ASSUME NEW d \in es PROVE d <= x
    BY <2>3, <2>4
  <2> QED BY <2>4, <2>5
<1>7. Codec!WordEnd \in es /\ \A d \in es : d <= Codec!WordEnd
  <2>1. Codec!WordEnd = CHOOSE e \in es : \A d \in es : d <= e
    BY DEF Codec!WordEnd
  <2> HIDE DEF es
  <2> QED BY <1>6, <2>1
<1>8. f <= Codec!WordEnd /\ Codec!WordEnd \in header.boundaries /\ Codec!WordEnd <= Codec!Limit /\ Codec!WordEnd \in Nat
  BY <1>1, <1>4, <1>7
<1> QED BY <1>1, <1>2, <1>3, <1>8

LEMMA CodecInit == ASSUME Codec!TextsOK, Codec!Init PROVE CodecInv
<1>1. header \in Texts /\ codec = "encode" /\ split_at = 0 /\ words = <<>> /\ decoded = <<>>
  BY DEF Codec!Init
<1>2. 0 \in header.boundaries
  BY <1>1, TextTypes
<1>3. <<>> \in Seq(Piece) /\ DOMAIN <<>> = {} /\ Len(<<>>) = 0
  OBVIOUS
<1> QED BY <1>1, <1>2, <1>3 DEF CodecInv, CodecTypes, CutWell, Encoded, Decoded, Sent, Refusals

LEMMA CodecNext == ASSUME Codec!TextsOK, CodecInv, [Codec!Next]_(Codec!vars) PROVE CodecInv'
<1>1. /\ header \in Texts /\ split_at \in header.boundaries /\ words \in Seq(Piece) /\ decoded \in Seq(Piece)
  BY DEF CodecInv, CodecTypes
<1>2. /\ header.length \in Nat /\ 0 \in header.boundaries /\ header.length \in header.boundaries
      /\ header.boundaries \subseteq 0..header.length /\ header.boundaries \subseteq Nat
      /\ Codec!max_input_bytes \in Nat /\ header.core \in Piece /\ MAX_INPUT_LEN \in Nat
      /\ header.length = 0 => header.safe
  BY <1>1, TextTypes, WordsFit
<1>3. Len(words) \in Nat /\ Len(decoded) \in Nat /\ DOMAIN words = 1..Len(words)
  BY <1>1
<1>4. /\ \A k \in DOMAIN words : {words[k][1], words[k][2]} \subseteq header.boundaries
      /\ codec = "split" \/ Len(words) > 1 =>
           \A k \in DOMAIN words : words[k][2] - words[k][1] <= Codec!max_input_bytes
  BY DEF CodecInv, CutWell
<1>5. CASE Codec!Encode
  <2>1. codec = "encode" /\ header' = header /\ split_at' = split_at /\ decoded' = decoded
    BY <1>5 DEF Codec!Encode
  <2>2. split_at = 0 /\ words = <<>>
    BY <2>1 DEF CodecInv, Encoded
  <2>3. \/ codec' = "EncodeTooLarge" /\ words' = words /\ header.length > MAX_INPUT_LEN
        \/ /\ codec' = "sent" /\ words' = words /\ header.safe
           /\ encoded' = header.length /\ header.length <= MAX_INPUT_LEN
        \/ codec' = "sent" /\ words' = <<<<0, header.length>>>> /\ ~header.safe
        \/ codec' = "split" /\ words' = words /\ ~header.safe
    BY <1>5 DEF Codec!Encode
  <2>4. CASE words' = words
    <3>1. codec' \in {"EncodeTooLarge", "sent", "split"}
      BY <2>3
    <3>2. CodecTypes'
      BY <1>1, <2>1, <2>4, <3>1 DEF CodecTypes
    <3>3. CutWell' /\ Encoded' /\ Decoded'
      BY <2>1, <2>2, <2>4, <3>1 DEF CodecInv, CutWell, Encoded, Decoded
    <3>4. words' # <<<<0, header.length>>>>
      BY <2>2, <2>4
    <3>5. Sent' /\ Refusals'
      BY <2>1, <2>2, <2>3, <2>4, <3>4 DEF Sent, Refusals
    <3> QED BY <3>2, <3>3, <3>5 DEF CodecInv
  <2>5. CASE codec' = "sent" /\ words' = <<<<0, header.length>>>> /\ ~header.safe
    <3> DEFINE w == <<0, header.length>>
    <3>1. w \in Piece /\ w[1] = 0 /\ w[2] = header.length
      BY <1>2 DEF Piece
    <3> HIDE DEF w
    <3>2. words' = <<w>>
      BY <2>5 DEF w
    <3>3. words' \in Seq(Piece) /\ Len(words') = 1 /\ words'[1] = w /\ DOMAIN words' = {1} /\ words' # <<>>
      BY <3>1, <3>2
    <3>4. CodecTypes'
      BY <1>1, <2>1, <2>5, <3>3 DEF CodecTypes
    <3>5. CutWell'
      BY <1>2, <2>1, <2>5, <3>1, <3>3 DEF CutWell
    <3>6. Follow(words', 0, header.length)
      BY <3>1, <3>3 DEF Follow
    <3>7. Encoded' /\ Decoded'
      BY <2>1, <2>5, <3>6 DEF CodecInv, Encoded, Decoded
    <3>8. Sent' /\ Refusals'
      BY <2>1, <2>5, <3>3 DEF Sent, Refusals
    <3> QED BY <3>4, <3>5, <3>7, <3>8 DEF CodecInv
  <2> QED BY <2>3, <2>4, <2>5
<1>6. CASE Codec!Split
  <2>1. codec = "split" /\ split_at < header.length /\ header' = header /\ decoded' = decoded
    BY <1>6 DEF Codec!Split
  <2>2. Codec!WordEnd \in header.boundaries /\ split_at < Codec!WordEnd /\ Codec!WordEnd - split_at <= Codec!max_input_bytes
    BY <1>1, <2>1, WordEndAdvances
  <2> DEFINE w == <<split_at, Codec!WordEnd>>
  <2>3. words' = Append(words, w) /\ split_at' = Codec!WordEnd /\ codec' = codec
    BY <1>1, <1>2, <1>6, <2>2 DEF Codec!Split
  <2>4. w \in Piece /\ w[1] = split_at /\ w[2] = Codec!WordEnd
    BY <1>1, <1>2, <2>2 DEF Piece
  <2> HIDE DEF w
  <2>5. /\ words' \in Seq(Piece) /\ Len(words') = Len(words) + 1 /\ words'[Len(words) + 1] = w
        /\ \A k \in 1..Len(words) : words'[k] = words[k]
    BY <1>1, <2>3, <2>4, AppendProperties
  <2>6. DOMAIN words' = 1..Len(words) + 1 /\ words' # <<>>
    BY <1>3, <2>5
  <2>7. \A k \in DOMAIN words' : k = Len(words) + 1 \/ k \in DOMAIN words
    BY <1>3, <2>6
  <2>8. CodecTypes'
    BY <1>1, <2>1, <2>2, <2>3, <2>5 DEF CodecTypes
  <2>9. CutWell'
    <3>1. ASSUME NEW k \in DOMAIN words'
          PROVE  {words'[k][1], words'[k][2]} \subseteq header.boundaries
                 /\ words'[k][2] - words'[k][1] <= Codec!max_input_bytes
      <4>1. CASE k = Len(words) + 1
        BY <1>1, <2>2, <2>4, <2>5, <4>1
      <4>2. CASE k \in DOMAIN words
        BY <1>3, <1>4, <2>1, <2>5, <4>2
      <4> QED BY <2>7, <4>1, <4>2
    <3> QED BY <2>1, <3>1 DEF CutWell
  <2>10. Follow(words', 0, split_at')
    <3>1. CASE words = <<>>
      <4>1. split_at = 0 /\ Len(words) = 0
        BY <2>1, <3>1 DEF CodecInv, Encoded
      <4> QED BY <2>3, <2>4, <2>5, <4>1 DEF Follow
    <3>2. CASE words # <<>>
      <4>1. Follow(words, 0, split_at) /\ Len(words) >= 1
        BY <1>1, <2>1, <3>2 DEF CodecInv, Encoded
      <4>2. words'[1][1] = 0 /\ words'[Len(words')][2] = split_at'
        BY <1>3, <2>3, <2>4, <2>5, <4>1 DEF Follow
      <4>3. ASSUME NEW k \in 1..Len(words') - 1 PROVE words'[k][2] = words'[k + 1][1]
        <5>1. k \in 1..Len(words)
          BY <1>3, <2>5
        <5>2. CASE k = Len(words)
          BY <1>3, <2>4, <2>5, <4>1, <5>1, <5>2 DEF Follow
        <5>3. CASE k # Len(words)
          <6> DEFINE n == Len(words)
          <6>1. n \in Nat /\ k \in 1..n /\ k # n
            BY <1>1, <5>1, <5>3, LenProperties
          <6> HIDE DEF n
          <6>2. k \in 1..n - 1 /\ k + 1 \in 1..n
            BY <6>1
          <6> QED BY <2>5, <4>1, <5>1, <6>2 DEF Follow, n
        <5> QED BY <5>2, <5>3
      <4> QED BY <4>2, <4>3 DEF Follow
    <3> QED BY <3>1, <3>2
  <2>11. Encoded' /\ Decoded'
    BY <2>1, <2>3, <2>6, <2>10 DEF CodecInv, Encoded, Decoded
  <2>12. Sent' /\ Refusals'
    BY <2>1, <2>3 DEF CodecInv, Sent, Refusals
  <2> QED BY <2>8, <2>9, <2>11, <2>12 DEF CodecInv
<1>7. CASE Codec!SplitEnds
  <2>1. /\ codec = "split" /\ split_at = header.length /\ codec' = "sent" /\ header' = header /\ split_at' = split_at /\ words' = words
        /\ decoded' = decoded
    BY <1>7 DEF Codec!SplitEnds
  <2>2. ~header.safe /\ words # <<>>
    BY <1>2, <2>1 DEF CodecInv, Encoded, Sent
  <2>3. CodecTypes' /\ CutWell' /\ Encoded' /\ Decoded'
    BY <1>1, <1>4, <2>1 DEF CodecInv, CodecTypes, CutWell, Encoded, Decoded
  <2> QED BY <2>1, <2>2, <2>3 DEF CodecInv, Sent, Refusals
<1>8. CASE Codec!Decode
  <2>1. codec = "sent" /\ header' = header /\ split_at' = split_at /\ words' = words /\ encoded' = encoded
    BY <1>8 DEF Codec!Decode
  <2>2. words = <<>> <=> header.safe
    BY <2>1 DEF CodecInv, Sent
  <2>3. words # <<>> => Follow(words, 0, header.length)
    BY <2>1 DEF CodecInv, Encoded
  <2>4. CASE encoded > MAX_INPUT_LEN /\ codec' = "DecodeTooLarge" /\ decoded' = decoded
    <3>1. ~header.safe
      BY <1>2, <2>1, <2>4 DEF CodecInv, Sent
    <3>2. CodecTypes' /\ CutWell' /\ Encoded' /\ Decoded'
      BY <1>1, <1>4, <2>1, <2>4 DEF CodecTypes, CutWell, Encoded, Decoded
    <3> QED BY <2>1, <2>4, <3>1, <3>2 DEF CodecInv, Sent, Refusals
  <2>5. CASE words = <<>> /\ codec' = "decoded" /\ decoded' = <<header.core>>
    <3>1. decoded' \in Seq(Piece) /\ Len(decoded') = 1 /\ decoded'[1] = header.core
      <4> DEFINE w == header.core
      <4>1. w \in Piece /\ decoded' = <<w>>
        BY <1>2, <2>5
      <4> HIDE DEF w
      <4>2. decoded' \in Seq(Piece) /\ Len(decoded') = 1 /\ decoded'[1] = w
        BY <4>1
      <4> QED BY <4>2 DEF w
    <3>2. Codec!Kept' = header.core
      BY <2>1, <2>2, <2>5 DEF Codec!Kept
    <3>3. Follow(decoded', Codec!Kept'[1], Codec!Kept'[2])
      BY <3>1, <3>2 DEF Follow
    <3>4. CodecTypes'
      BY <1>1, <2>1, <2>5, <3>1 DEF CodecTypes
    <3>5. CutWell'
      BY <1>4, <2>1, <2>5 DEF CutWell
    <3>6. Encoded' /\ Decoded'
      BY <2>1, <2>5, <3>3 DEF Encoded, Decoded
    <3>7. Sent' /\ Refusals'
      BY <2>1, <2>5 DEF Sent, Refusals
    <3> QED BY <3>4, <3>5, <3>6, <3>7 DEF CodecInv
  <2>6. CASE words # <<>> /\ codec' = "decode" /\ decoded' = decoded
    <3>1. decoded = <<>>
      BY <2>1 DEF CodecInv, Decoded
    <3>2. Len(<<>>) = 0
      OBVIOUS
    <3>3. CodecTypes' /\ CutWell' /\ Encoded'
      BY <1>1, <1>4, <2>1, <2>3, <2>6 DEF CodecTypes, CutWell, Encoded
    <3>4. Decoded'
      BY <1>3, <2>1, <2>6, <3>1, <3>2 DEF Decoded
    <3>5. Sent' /\ Refusals'
      BY <2>1, <2>2, <2>6 DEF Sent, Refusals
    <3> QED BY <3>3, <3>4, <3>5 DEF CodecInv
  <2>7. CASE /\ words = <<>> /\ header.shape # "plain" /\ decoded' = decoded
             /\ codec' \in {"reinterpreted", "Malformed"}
    <3>1. CodecTypes' /\ CutWell' /\ Encoded' /\ Decoded'
      BY <1>1, <1>4, <2>1, <2>7 DEF CodecTypes, CutWell, Encoded, Decoded
    <3> QED BY <2>1, <2>2, <2>7, <3>1 DEF CodecInv, Sent, Refusals
  <2> QED BY <1>8, <2>4, <2>5, <2>6, <2>7 DEF Codec!Decode, Codec!LooksEncoded
<1>9. CASE Codec!decode_single_word
  <2> DEFINE n == Len(decoded) + 1
             w == words[n]
  <2>1. codec = "decode" /\ Len(decoded) < Len(words) /\ header' = header /\ split_at' = split_at /\ words' = words
    BY <1>9 DEF Codec!decode_single_word
  <2>2. n \in 1..Len(words) /\ n \in DOMAIN words
    BY <1>3, <2>1
  <2>3. {w[1], w[2]} \subseteq header.boundaries /\ w \in Piece
    <3> HIDE DEF n
    <3> QED BY <1>1, <1>4, <2>2
  <2>4. decoded' = Append(decoded, w) /\ codec' = codec
    BY <1>9, <2>3 DEF Codec!decode_single_word
  <2> HIDE DEF w
  <2>5. /\ decoded' \in Seq(Piece) /\ Len(decoded') = Len(decoded) + 1
        /\ decoded'[Len(decoded) + 1] = w /\ \A k \in 1..Len(decoded) : decoded'[k] = decoded[k]
    BY <1>1, <2>3, <2>4, AppendProperties
  <2>6. ASSUME NEW k \in 1..Len(decoded') PROVE decoded'[k] = words[k]
    <3>1. CASE k = n
      BY <2>5, <3>1 DEF w
    <3>2. CASE k # n
      <4>1. k \in 1..Len(decoded)
        BY <1>3, <2>5, <3>2
      <4> QED BY <2>1, <2>5, <4>1 DEF CodecInv, Decoded
    <3> QED BY <3>1, <3>2
  <2>7. Len(decoded') <= Len(words)
    BY <1>3, <2>1, <2>5
  <2>8. CodecTypes'
    BY <1>1, <2>1, <2>4, <2>5 DEF CodecTypes
  <2>9. CutWell'
    BY <1>4, <2>1, <2>4 DEF CutWell
  <2>10. Encoded'
    BY <2>1, <2>4 DEF CodecInv, Encoded
  <2>11. Decoded'
    BY <2>1, <2>4, <2>6, <2>7 DEF CodecInv, Decoded
  <2>12. Sent' /\ Refusals'
    BY <2>1, <2>4 DEF CodecInv, Sent, Refusals
  <2> QED BY <2>8, <2>9, <2>10, <2>11, <2>12 DEF CodecInv
<1>10. CASE Codec!DecodeEnds
  <2>1. /\ codec = "decode" /\ Len(decoded) = Len(words) /\ codec' = "decoded" /\ header' = header /\ split_at' = split_at
        /\ words' = words /\ decoded' = decoded
    BY <1>10 DEF Codec!DecodeEnds
  <2>2. words # <<>> /\ \A k \in 1..Len(decoded) : decoded[k] = words[k]
    BY <2>1 DEF CodecInv, Decoded
  <2>3. decoded = words
    BY <1>1, <2>1, <2>2, SeqEqual
  <2>4. Follow(decoded', Codec!Kept'[1], Codec!Kept'[2])
    <3>1. Follow(words, 0, header.length) /\ ~header.safe
      BY <2>1, <2>2 DEF CodecInv, Encoded, Sent
    <3>2. Codec!Kept' = <<0, header.length>>
      BY <2>1, <3>1 DEF Codec!Kept
    <3> QED BY <2>1, <2>3, <3>1, <3>2
  <2>5. CodecTypes'
    BY <1>1, <2>1 DEF CodecTypes
  <2>6. CutWell'
    BY <1>4, <2>1 DEF CutWell
  <2>7. Encoded' /\ Decoded'
    BY <2>1, <2>4 DEF CodecInv, Encoded, Decoded
  <2>8. Sent' /\ Refusals'
    BY <2>1 DEF CodecInv, Sent, Refusals
  <2> QED BY <2>5, <2>6, <2>7, <2>8 DEF CodecInv
<1>11. CASE Codec!Over \/ UNCHANGED Codec!vars
  <2>1. header' = header /\ codec' = codec /\ split_at' = split_at /\ words' = words /\ decoded' = decoded
        /\ encoded' = encoded
    BY <1>11 DEF Codec!Over, Codec!vars
  <2> QED BY <2>1 DEF CodecInv, CodecTypes, CutWell, Encoded, Decoded, Sent, Refusals, Codec!Kept
<1> QED BY <1>5, <1>6, <1>7, <1>8, <1>9, <1>10, <1>11 DEF Codec!Next

\* A text that encode turns into words is got back exactly, a safe one trimmed, unless it is over
\* MAX_INPUT_LEN, its words are, or it is safe and looks like an encoded word; the words of a
\* text that is split are within the limit (encode, decode): for every text of characters of up
\* to four bytes and every MAX_INPUT_LEN.
THEOREM WordsAreTheTextHolds == Codec!Spec => []WordsAreTheText
<1>1. Codec!Init => CodecInv
  BY CodecInit, ComponentsAssumption
<1>2. CodecInv /\ [Codec!Next]_(Codec!vars) => CodecInv'
  BY CodecNext, ComponentsAssumption
<1>3. CodecInv => WordsAreTheText
  <2> SUFFICES ASSUME CodecInv PROVE WordsAreTheText
    OBVIOUS
  <2>1. Codec!RoundTrip
    BY DEF CodecInv, CodecTypes, Decoded, Refusals, Follow, Codec!RoundTrip, Codec!Last
  <2>2. ASSUME Len(words) > 1, NEW k \in DOMAIN words
        PROVE  Codec!WordLen(words[k]) <= MAX_ENCODED_WORD_LEN
    <3>1. words[k] \in Nat \X Nat
      BY DEF CodecInv, CodecTypes, Piece
    <3> DEFINE a == words[k][1]
               b == words[k][2]
    <3>2. a \in Nat /\ b \in Nat /\ words[k] = <<a, b>>
      BY <3>1
    <3>3. b - a <= Codec!max_input_bytes
      BY <2>2 DEF CodecInv, CutWell
    <3> HIDE DEF a, b
    <3> QED BY <3>2, <3>3, WordsFit, ComponentsAssumption
  <2>3. Codec!SplitWordsFit
    BY <2>2 DEF Codec!SplitWordsFit
  <2> QED BY <2>1, <2>3 DEF WordsAreTheText, Codec!WordsAreTheText
<1> QED BY <1>1, <1>2, <1>3, PTL DEF Codec!Spec

-----------------------------------------------------------------------------
(* PatternSet: for all lists of patterns and all inputs. What a pattern    *)
(* means is a recursive function from the end of the pattern; the scan is  *)
(* shown to keep in step with it.                                          *)

LEMMA BytesType == ASSUME NEW S, NEW seqs \in Seq(Seq(S)) PROVE Pattern!as_bytes(seqs) \in Seq(S)
<1>1. Pattern!as_bytes(seqs) = Chunked!FlattenSeq(seqs)
  BY Zenon DEF Pattern!as_bytes, Pattern!FlattenSeq, Chunked!FlattenSeq
<1> QED BY <1>1, FlattenType

\* The places from which the rest of p can be matched, as far as they are known from m on.
RestFrom(p, s, m, f) ==
    f = [a \in m..Len(p) |->
            IF a = Len(p) THEN {Len(s)}
            ELSE IF p[a + 1] = Star THEN {j \in 0..Len(s) : \E h \in f[a + 1] : j <= h}
            ELSE {j \in 0..Len(s) - 1 : p[a + 1] \in {s[j + 1], Question} /\ j + 1 \in f[a + 1]}]

\* One symbol more in front.
RestStep(p, s, a, r) ==
    IF p[a + 1] = Star THEN {j \in 0..Len(s) : \E h \in r : j <= h}
    ELSE {j \in 0..Len(s) - 1 : p[a + 1] \in {s[j + 1], Question} /\ j + 1 \in r}

\* What the proof needs of Rest.
IsRest(p, s, R) ==
    /\ R[Len(p)] = {Len(s)}
    /\ \A a \in 0..Len(p) - 1 : R[a] = RestStep(p, s, a, R[a + 1])

LEMMA RestFromDef ==
    ASSUME NEW p, NEW s, NEW m, NEW f
    PROVE  RestFrom(p, s, m, f) <=>
           f = [a \in m..Len(p) |-> IF a = Len(p) THEN {Len(s)} ELSE RestStep(p, s, a, f[a + 1])]
  BY Zenon DEF RestFrom, RestStep

\* There is such a function: otherwise take the shortest rest without, and add its first symbol.
LEMMA RestExists ==
    ASSUME NEW p, NEW s, Len(p) \in Nat, NEW m \in 0..Len(p)
    PROVE  \E f : RestFrom(p, s, Len(p) - m, f)
<1> DEFINE T == {n \in 0..Len(p) : ~\E f : RestFrom(p, s, Len(p) - n, f)}
<1> SUFFICES ASSUME m \in T PROVE FALSE
  OBVIOUS
<1>1. PICK x \in T : \A y \in T : x <= y
  <2>1. T \subseteq Nat /\ T # {}
    OBVIOUS
  <2> HIDE DEF T
  <2> QED BY <2>1, LeastElement
<1> DEFINE L == Len(p)
<1>2. L \in Nat /\ x \in 0..L
  BY <1>1
<1>3. x # 0
  <2> DEFINE f == [a \in L..L |-> {Len(s)}]
  <2>1. f = [a \in L..L |-> IF a = L THEN {Len(s)} ELSE RestStep(p, s, a, f[a + 1])]
    BY <1>2
  <2>2. RestFrom(p, s, L, f)
    BY <2>1, RestFromDef, Zenon
  <2>3. L - 0 = L
    BY <1>2
  <2> QED BY <1>1, <2>2, <2>3
<1>4. x - 1 \notin T /\ x - 1 \in 0..L
  BY <1>1, <1>2, <1>3
<1>5. PICK f : RestFrom(p, s, L - (x - 1), f)
  BY <1>4
<1> DEFINE b == L - x
           g == [a \in b..L |-> IF a = b THEN RestStep(p, s, b, f[b + 1]) ELSE f[a]]
<1>6. b \in 0..L /\ b + 1 = L - (x - 1) /\ b + 1 \in 0..L /\ b # L /\ b + 1 # b
  BY <1>2, <1>3
<1> HIDE DEF b, L
<1>7. f = [a \in b + 1..L |-> IF a = L THEN {Len(s)} ELSE RestStep(p, s, a, f[a + 1])]
  BY <1>5, <1>6, RestFromDef DEF L
<1>8. ASSUME NEW a \in b..L PROVE g[a] = IF a = L THEN {Len(s)} ELSE RestStep(p, s, a, g[a + 1])
  <2>1. CASE a = b
    <3>1. b + 1 \in b..L /\ b \in b..L
      BY <1>2, <1>6
    <3>2. g[b + 1] = f[b + 1] /\ g[b] = RestStep(p, s, b, f[b + 1])
      BY <1>6, <3>1, Zenon
    <3> QED BY <1>6, <2>1, <3>2, Zenon
  <2>2. CASE a # b
    <3>1. a \in b + 1..L
      BY <1>2, <1>6, <2>2
    <3>2. f[a] = IF a = L THEN {Len(s)} ELSE RestStep(p, s, a, f[a + 1])
      BY <1>7, <3>1, Zenon
    <3>3. CASE a = L
      BY <2>2, <3>2, <3>3, Zenon
    <3>4. CASE a # L
      <4>1. a + 1 \in b..L /\ a + 1 # b
        BY <1>2, <1>6, <3>1, <3>4
      <4>2. g[a + 1] = f[a + 1]
        BY <4>1, Zenon
      <4> QED BY <2>2, <3>2, <3>4, <4>2, Zenon
    <3> QED BY <3>3, <3>4
  <2> QED BY <2>1, <2>2
<1>9. RestFrom(p, s, b, g)
  <2>1. g = [a \in b..L |-> g[a]]
    OBVIOUS
  <2> HIDE DEF g
  <2>2. g = [a \in b..L |-> IF a = L THEN {Len(s)} ELSE RestStep(p, s, a, g[a + 1])]
    BY <1>8, <2>1
  <2> QED BY <2>2, RestFromDef, Zenon DEF L
<1> QED BY <1>1, <1>9 DEF b, L

\* What Rest computes, symbol by symbol.
LEMMA RestDef ==
    ASSUME NEW p, NEW s, Len(p) \in Nat
    PROVE  IsRest(p, s, Pattern!Rest(p, s))
<1> DEFINE R == CHOOSE g : RestFrom(p, s, 0, g)
<1>1. \E f : RestFrom(p, s, 0, f)
  <2>1. Len(p) \in 0..Len(p) /\ Len(p) - Len(p) = 0
    OBVIOUS
  <2> QED BY RestExists, <2>1
<1>2. RestFrom(p, s, 0, R)
  BY <1>1, Zenon
<1>3. Pattern!Rest(p, s) = R
  BY Zenon DEF Pattern!Rest, RestFrom
<1> HIDE DEF R
<1>4. R = [a \in 0..Len(p) |-> IF a = Len(p) THEN {Len(s)} ELSE RestStep(p, s, a, R[a + 1])]
  BY <1>2, RestFromDef, Zenon
<1>5. R[Len(p)] = {Len(s)}
  <2>1. Len(p) \in 0..Len(p)
    OBVIOUS
  <2> QED BY <1>4, <2>1, Zenon
<1>6. ASSUME NEW a \in 0..Len(p) - 1 PROVE R[a] = RestStep(p, s, a, R[a + 1])
  <2>1. a \in 0..Len(p) /\ a # Len(p)
    OBVIOUS
  <2> QED BY <1>4, <2>1, Zenon
<1> QED BY <1>3, <1>5, <1>6 DEF IsRest

LEMMA RestPlaces ==
    ASSUME NEW p, NEW s, NEW R, Len(p) \in Nat, Len(s) \in Nat, IsRest(p, s, R), NEW a \in 0..Len(p)
    PROVE  R[a] \subseteq 0..Len(s)
<1>1. CASE a = Len(p)
  BY <1>1 DEF IsRest
<1>2. CASE a # Len(p)
  <2>1. a \in 0..Len(p) - 1
    BY <1>2
  <2>2. R[a] = RestStep(p, s, a, R[a + 1])
    BY <2>1, Zenon DEF IsRest
  <2> QED BY <2>2 DEF RestStep
<1> QED BY <1>1, <1>2

\* The scan of a pattern p in s.  Before the first star there is one way to match.  Then the
\* pattern matches exactly if its rest behind the last star matches from s_back or later, and
\* what has been read since is as long in the pattern as in the input.
Scanned(p, s, R, pi, si, pb, sb) ==
    /\ pi \in 0..Len(p) /\ si \in 0..Len(s)
    /\ si \in R[pi] => 0 \in R[0]
    /\ IF pb = Never THEN sb = Never /\ (0 \in R[0] => si \in R[pi])
       ELSE /\ pb \in 1..pi /\ sb \in 0..si /\ pi - pb = si - sb
            /\ pb < pi => p[pb + 1] # Star
            /\ \A j \in R[pb] : sb <= j => 0 \in R[0]
            /\ 0 \in R[0] => \E j \in R[pb] : sb <= j
            /\ \A j \in R[pb] : j + (pi - pb) \in R[pi]

LEMMA ScanStarts ==
    ASSUME NEW p, NEW s, NEW R, Len(p) \in Nat, Len(s) \in Nat
    PROVE  Scanned(p, s, R, 0, 0, Never, Never)
  BY DEF Scanned

LEMMA ScanStar ==
    ASSUME NEW p, NEW s, NEW R, Len(p) \in Nat, Len(s) \in Nat, Never \in Nat, Len(p) < Never,
           IsRest(p, s, R), NEW pi, NEW si, NEW pb, NEW sb, Scanned(p, s, R, pi, si, pb, sb),
           pi < Len(p), p[pi + 1] = Star
    PROVE  Scanned(p, s, R, pi + 1, si, pi + 1, si)
<1>1. pi \in 0..Len(p) - 1 /\ si \in 0..Len(s)
  BY DEF Scanned
<1>2. R[pi] = {j \in 0..Len(s) : \E h \in R[pi + 1] : j <= h}
  BY <1>1 DEF IsRest, RestStep
<1>3. R[pi + 1] \subseteq 0..Len(s)
  BY <1>1, RestPlaces
<1>4. si \in R[pi] => 0 \in R[0]
  BY DEF Scanned
<1>5. \A j \in R[pi + 1] : si <= j => 0 \in R[0]
  BY <1>1, <1>2, <1>4
<1>6. si \in R[pi + 1] => 0 \in R[0]
  BY <1>1, <1>5
<1>7. ASSUME 0 \in R[0] PROVE \E j \in R[pi + 1] : si <= j
  <2>1. CASE pb = Never
    <3>1. si \in R[pi]
      BY <1>7, <2>1 DEF Scanned
    <3> QED BY <1>2, <3>1
  <2>2. CASE pb # Never
    <3>1. PICK j \in R[pb] : sb <= j
      BY <1>7, <2>2 DEF Scanned
    <3>2. pb \in 1..pi /\ sb \in 0..si /\ pi - pb = si - sb /\ j + (pi - pb) \in R[pi]
      BY <2>2, <3>1 DEF Scanned
    <3>3. j \in 0..Len(s)
      BY <1>1, <3>1, <3>2, RestPlaces
    <3>4. PICK h \in R[pi + 1] : j + (pi - pb) <= h
      BY <1>2, <3>2
    <3>5. h \in 0..Len(s) /\ si <= j + (pi - pb)
      BY <1>1, <1>3, <3>1, <3>2, <3>3
    <3>6. si <= h
      BY <1>1, <3>2, <3>3, <3>4, <3>5
    <3> QED BY <3>4, <3>6
  <2> QED BY <2>1, <2>2
<1>8. \A j \in R[pi + 1] : j + (pi + 1 - (pi + 1)) \in R[pi + 1]
  <2>1. ASSUME NEW j \in R[pi + 1] PROVE j + (pi + 1 - (pi + 1)) = j
    BY <1>1, <1>3
  <2> QED BY <2>1
<1>9. /\ pi + 1 # Never /\ pi + 1 \in 0..Len(p) /\ pi + 1 \in 1..pi + 1 /\ si \in 0..si
      /\ pi + 1 - (pi + 1) = si - si /\ ~(pi + 1 < pi + 1)
  BY <1>1
<1> QED BY <1>1, <1>5, <1>6, <1>7, <1>8, <1>9 DEF Scanned

LEMMA ScanByte ==
    ASSUME NEW p, NEW s, NEW R, Len(p) \in Nat, Len(s) \in Nat, Never \in Nat, Len(p) < Never,
           IsRest(p, s, R), NEW pi, NEW si, NEW pb, NEW sb, Scanned(p, s, R, pi, si, pb, sb),
           pi < Len(p), si < Len(s), p[pi + 1] # Star, p[pi + 1] \in {s[si + 1], Question}
    PROVE  Scanned(p, s, R, pi + 1, si + 1, pb, sb)
<1>1. pi \in 0..Len(p) - 1 /\ si \in 0..Len(s) - 1
  BY DEF Scanned
<1>2. R[pi] = {j \in 0..Len(s) - 1 : p[pi + 1] \in {s[j + 1], Question} /\ j + 1 \in R[pi + 1]}
  BY <1>1 DEF IsRest, RestStep
<1>3. si \in R[pi] <=> si + 1 \in R[pi + 1]
  BY <1>1, <1>2
<1>4. si + 1 \in R[pi + 1] => 0 \in R[0]
  BY <1>3 DEF Scanned
<1>5. pi + 1 \in 0..Len(p) /\ si + 1 \in 0..Len(s)
  BY <1>1
<1>6. CASE pb = Never
  BY <1>3, <1>4, <1>5, <1>6, Zenon DEF Scanned
<1>7. CASE pb # Never
  <2>1. /\ pb \in 1..pi /\ sb \in 0..si /\ pi - pb = si - sb
        /\ pb < pi => p[pb + 1] # Star
        /\ \A j \in R[pb] : sb <= j => 0 \in R[0]
        /\ 0 \in R[0] => \E j \in R[pb] : sb <= j
        /\ \A j \in R[pb] : j + (pi - pb) \in R[pi]
    BY <1>7, Zenon DEF Scanned
  <2>2. ASSUME NEW j \in R[pb] PROVE j + (pi + 1 - pb) \in R[pi + 1]
    <3>1. j + (pi - pb) \in R[pi]
      BY <2>1
    <3>2. j + (pi - pb) + 1 \in R[pi + 1]
      BY <1>2, <3>1
    <3>3. j \in 0..Len(s)
      BY <1>1, <2>1, RestPlaces
    <3>4. j + (pi - pb) + 1 = j + (pi + 1 - pb)
      BY <1>1, <2>1, <3>3
    <3> QED BY <3>2, <3>4
  <2>3. pb \in 1..pi + 1 /\ sb \in 0..si + 1 /\ pi + 1 - pb = si + 1 - sb
    BY <1>1, <2>1
  <2>4. p[pb + 1] # Star
    <3>1. pb = pi \/ pb < pi
      BY <1>1, <2>1
    <3> QED BY <2>1, <3>1
  <2> QED BY <1>4, <1>5, <1>7, <2>1, <2>2, <2>3, <2>4 DEF Scanned
<1> QED BY <1>6, <1>7

\* A scan that is stuck: what has been read does not lead to the end.
LEMMA ScanStuck ==
    ASSUME NEW p, NEW s, NEW R, Len(p) \in Nat, Len(s) \in Nat,
           IsRest(p, s, R), NEW pi, NEW si, NEW pb, NEW sb, Scanned(p, s, R, pi, si, pb, sb),
           ~(pi < Len(p) /\ p[pi + 1] = Star),
           ~(pi < Len(p) /\ si < Len(s) /\ p[pi + 1] \in {s[si + 1], Question}),
           ~(pi = Len(p) /\ si = Len(s))
    PROVE  si \notin R[pi]
<1>1. pi \in 0..Len(p) /\ si \in 0..Len(s)
  BY DEF Scanned
<1>2. CASE pi = Len(p)
  BY <1>2 DEF IsRest
<1>3. CASE pi # Len(p)
  <2>1. pi \in 0..Len(p) - 1 /\ p[pi + 1] # Star
    BY <1>1, <1>3
  <2>2. R[pi] = {j \in 0..Len(s) - 1 : p[pi + 1] \in {s[j + 1], Question} /\ j + 1 \in R[pi + 1]}
    BY <2>1 DEF IsRest, RestStep
  <2> QED BY <1>1, <2>1, <2>2
<1> QED BY <1>2, <1>3

\* Then the last star stands for one more byte, or the pattern does not match.
LEMMA ScanLater ==
    ASSUME NEW p, NEW s, NEW R, Len(p) \in Nat, Len(s) \in Nat,
           IsRest(p, s, R), NEW pi, NEW si, NEW pb, NEW sb, Scanned(p, s, R, pi, si, pb, sb),
           si \notin R[pi], pb # Never
    PROVE  /\ pb \in 1..pi /\ sb \in 0..si /\ pi \in 0..Len(p) /\ si \in 0..Len(s)
           /\ 0 \in R[0] => \E j \in R[pb] : sb + 1 <= j
<1>1. /\ pb \in 1..pi /\ sb \in 0..si /\ pi \in 0..Len(p) /\ si \in 0..Len(s) /\ pi - pb = si - sb
      /\ \A j \in R[pb] : j + (pi - pb) \in R[pi]
  BY DEF Scanned
<1>2. ASSUME NEW j \in R[pb], sb <= j PROVE sb + 1 <= j
  <2>1. j \in 0..Len(s)
    BY <1>1, RestPlaces
  <2>2. CASE j = sb
    <3>1. j + (pi - pb) = si
      BY <1>1, <2>2
    <3> QED BY <1>1, <3>1
  <2> QED BY <1>1, <1>2, <2>1, <2>2
<1>3. ASSUME 0 \in R[0] PROVE \E j \in R[pb] : sb + 1 <= j
  <2>1. PICK j \in R[pb] : sb <= j
    BY <1>3 DEF Scanned
  <2> QED BY <1>2, <2>1
<1> QED BY <1>1, <1>3

LEMMA ScanBack ==
    ASSUME NEW p, NEW s, NEW R, Len(p) \in Nat, Len(s) \in Nat,
           IsRest(p, s, R), NEW pi, NEW si, NEW pb, NEW sb, Scanned(p, s, R, pi, si, pb, sb),
           si \notin R[pi], pb # Never, sb + 1 < Len(s)
    PROVE  Scanned(p, s, R, pb, sb + 1, pb, sb + 1)
<1>1. /\ pb \in 1..pi /\ sb \in 0..si /\ pi \in 0..Len(p) /\ si \in 0..Len(s)
      /\ 0 \in R[0] => \E j \in R[pb] : sb + 1 <= j
  BY ScanLater
<1>2. pb \in 0..Len(p) /\ sb + 1 \in 0..Len(s) /\ pb \in 1..pb /\ sb + 1 \in 0..sb + 1
      /\ pb - pb = sb + 1 - (sb + 1) /\ ~(pb < pb)
  BY <1>1
<1>3. R[pb] \subseteq 0..Len(s)
  BY <1>2, RestPlaces
<1>4. \A j \in R[pb] : sb <= j => 0 \in R[0]
  BY DEF Scanned
<1>5. ASSUME NEW j \in R[pb], sb + 1 <= j PROVE 0 \in R[0]
  <2>1. sb <= j
    BY <1>1, <1>3, <1>5
  <2> QED BY <1>4, <2>1
<1>6. sb + 1 \in R[pb] => 0 \in R[0]
  <2>1. sb + 1 <= sb + 1
    BY <1>1
  <2> QED BY <1>5, <2>1
<1>7. ASSUME NEW j \in R[pb] PROVE j + (pb - pb) \in R[pb]
  <2>1. j + (pb - pb) = j
    BY <1>1, <1>3
  <2> QED BY <2>1
<1> QED BY <1>1, <1>2, <1>5, <1>6, <1>7 DEF Scanned

\* The end of both, or a star at the end of the pattern.
LEMMA ScanMatched ==
    ASSUME NEW p, NEW s, NEW R, Len(p) \in Nat, Len(s) \in Nat, Never \in Nat, Len(p) < Never,
           IsRest(p, s, R), NEW pi, NEW si, NEW pb, NEW sb, Scanned(p, s, R, pi, si, pb, sb),
           (pi = Len(p) /\ si = Len(s)) \/ pb = Len(p)
    PROVE  0 \in R[0]
<1>1. R[Len(p)] = {Len(s)}
  BY DEF IsRest
<1>2. CASE pi = Len(p) /\ si = Len(s)
  BY <1>1, <1>2 DEF Scanned
<1>3. CASE pb = Len(p)
  <2>1. pb # Never
    BY <1>3
  <2>2. sb \in 0..si /\ si \in 0..Len(s) /\ \A j \in R[pb] : sb <= j => 0 \in R[0]
    BY <2>1 DEF Scanned
  <2>3. sb <= Len(s)
    BY <2>2
  <2> QED BY <1>1, <1>3, <2>2, <2>3
<1> QED BY <1>2, <1>3

\* No star to go back to, or nothing left behind it.
LEMMA ScanFailed ==
    ASSUME NEW p, NEW s, NEW R, Len(p) \in Nat, Len(s) \in Nat,
           IsRest(p, s, R), NEW pi, NEW si, NEW pb, NEW sb, Scanned(p, s, R, pi, si, pb, sb),
           si \notin R[pi], pb # Len(p), sb = Never \/ sb + 1 >= Len(s), Never \in Nat, Len(s) < Never,
           ~(pi < Len(p) /\ p[pi + 1] = Star)
    PROVE  0 \notin R[0]
<1>1. CASE pb = Never
  BY <1>1 DEF Scanned
<1>2. CASE pb # Never
  <2>1. /\ pb \in 1..pi /\ sb \in 0..si /\ pi \in 0..Len(p) /\ si \in 0..Len(s)
        /\ 0 \in R[0] => \E j \in R[pb] : sb + 1 <= j
    BY <1>2, ScanLater
  <2>2. pb < pi => p[pb + 1] # Star
    BY <1>2 DEF Scanned
  <2>3. pb \in 0..Len(p) - 1 /\ p[pb + 1] # Star
    <3>1. pb \in 0..Len(p) - 1 /\ (pb = pi \/ pb < pi)
      BY <2>1
    <3> QED BY <2>1, <2>2, <3>1
  <2>4. R[pb] = {j \in 0..Len(s) - 1 : p[pb + 1] \in {s[j + 1], Question} /\ j + 1 \in R[pb + 1]}
    BY <2>3 DEF IsRest, RestStep
  <2>5. ASSUME NEW j \in R[pb] PROVE ~(sb + 1 <= j)
    BY <2>1, <2>4
  <2> QED BY <2>1, <2>5
<1> QED BY <1>1, <1>2

ScanTypes ==
    /\ patterns \in PatternLists /\ text \in Inputs
    /\ result \in {"none", "invalid", "match", "no match"}

\* The pattern that is tried, and none of the earlier ones matches.
Trying ==
    result = "none" =>
        /\ at \in DOMAIN patterns
        /\ Scanned(Pattern!pattern, Pattern!input, Pattern!Rest(Pattern!pattern, Pattern!input), p_idx, s_idx, p_back, s_back)
        /\ \A n \in 1..at - 1 : ~Pattern!Matches(Pattern!as_bytes(patterns[n]), Pattern!input)

ScanInv == ScanTypes /\ Trying /\ Pattern!ScanDecides

LEMMA PatternTypes ==
    ASSUME Pattern!PatternsOK, patterns \in PatternLists, text \in Inputs
    PROVE  /\ Never \in Nat /\ Len(patterns) \in Nat /\ DOMAIN patterns = 1..Len(patterns)
           /\ Len(Pattern!input) \in Nat /\ Len(Pattern!input) < Never
           /\ \A n \in DOMAIN patterns :
                Len(Pattern!as_bytes(patterns[n])) \in Nat /\ Len(Pattern!as_bytes(patterns[n])) < Never
<1>1. /\ Never \in Nat /\ patterns \in Seq(Seq(Seq(0..255))) /\ text \in Seq(Seq(0..255))
      /\ Len(Pattern!as_bytes(text)) < Never /\ \A n \in DOMAIN patterns : Len(Pattern!as_bytes(patterns[n])) < Never
  BY DEF Pattern!PatternsOK
<1>2. Pattern!as_bytes(text) \in Seq(0..255)
  BY <1>1, BytesType
<1>3. ASSUME NEW n \in DOMAIN patterns PROVE Len(Pattern!as_bytes(patterns[n])) \in Nat
  <2>1. patterns[n] \in Seq(Seq(0..255))
    BY <1>1
  <2>2. Pattern!as_bytes(patterns[n]) \in Seq(0..255)
    BY <2>1, BytesType
  <2> QED BY <2>2
<1> QED BY <1>1, <1>2, <1>3 DEF Pattern!input

LEMMA ScanInit == ASSUME Pattern!PatternsOK, Pattern!Init PROVE ScanInv
<1>1. /\ patterns \in PatternLists /\ text \in Inputs /\ at = 1
      /\ p_idx = 0 /\ s_idx = 0 /\ p_back = Never /\ s_back = Never
      /\ result \in {"none", "invalid", "no match"} /\ (result # "invalid" => (result = "no match" <=> patterns = <<>>))
  BY DEF Pattern!Init, Pattern!Start
<1>2. /\ Len(patterns) \in Nat /\ DOMAIN patterns = 1..Len(patterns) /\ Len(Pattern!input) \in Nat
      /\ \A n \in DOMAIN patterns : Len(Pattern!as_bytes(patterns[n])) \in Nat
      /\ patterns \in Seq(Seq(Seq(0..255)))
  BY <1>1, PatternTypes DEF Pattern!PatternsOK
<1>3. CASE result = "none"
  <2>1. patterns # <<>> /\ at \in DOMAIN patterns /\ 1..at - 1 = {}
    BY <1>1, <1>2, <1>3
  <2>2. Len(Pattern!pattern) \in Nat
    BY <1>2, <2>1 DEF Pattern!pattern
  <2>3. Scanned(Pattern!pattern, Pattern!input, Pattern!Rest(Pattern!pattern, Pattern!input), p_idx, s_idx, p_back, s_back)
    BY <1>1, <1>2, <2>2, ScanStarts
  <2> QED BY <1>1, <1>3, <2>1, <2>3 DEF ScanInv, ScanTypes, Trying, Pattern!ScanDecides
<1>4. CASE result = "no match"
  <2>1. DOMAIN patterns = {}
    <3>1. patterns = <<>>
      BY <1>1, <1>4
    <3>2. Len(patterns) = 0
      BY <3>1
    <3> QED BY <1>2, <3>2
  <2> QED BY <1>1, <1>4, <2>1 DEF ScanInv, ScanTypes, Trying, Pattern!ScanDecides
<1>5. CASE result = "invalid"
  BY <1>1, <1>5 DEF ScanInv, ScanTypes, Trying, Pattern!ScanDecides
<1> QED BY <1>1, <1>3, <1>4, <1>5

LEMMA ScanNext == ASSUME Pattern!PatternsOK, ScanInv, [Pattern!Next]_(Pattern!vars) PROVE ScanInv'
<1>1. patterns \in PatternLists /\ text \in Inputs /\ result \in {"none", "invalid", "match", "no match"}
  BY DEF ScanInv, ScanTypes
<1>2. /\ Never \in Nat /\ Len(patterns) \in Nat /\ DOMAIN patterns = 1..Len(patterns)
      /\ Len(Pattern!input) \in Nat /\ Len(Pattern!input) < Never
      /\ \A n \in DOMAIN patterns :
           Len(Pattern!as_bytes(patterns[n])) \in Nat /\ Len(Pattern!as_bytes(patterns[n])) < Never
  BY <1>1, PatternTypes
<1> DEFINE R == Pattern!Rest(Pattern!pattern, Pattern!input)
<1>3. ASSUME result = "none"
      PROVE  /\ at \in DOMAIN patterns /\ Len(Pattern!pattern) \in Nat /\ Len(Pattern!pattern) < Never
             /\ Scanned(Pattern!pattern, Pattern!input, R, p_idx, s_idx, p_back, s_back) /\ IsRest(Pattern!pattern, Pattern!input, R)
             /\ \A n \in 1..at - 1 : ~Pattern!Matches(Pattern!as_bytes(patterns[n]), Pattern!input)
             /\ Pattern!Matches(Pattern!as_bytes(patterns[at]), Pattern!input) <=> 0 \in R[0]
  <2>1. /\ at \in DOMAIN patterns /\ Scanned(Pattern!pattern, Pattern!input, R, p_idx, s_idx, p_back, s_back)
        /\ \A n \in 1..at - 1 : ~Pattern!Matches(Pattern!as_bytes(patterns[n]), Pattern!input)
    BY <1>3, Zenon DEF ScanInv, Trying
  <2>2. Len(Pattern!pattern) \in Nat /\ Len(Pattern!pattern) < Never
    BY <1>2, <2>1 DEF Pattern!pattern
  <2> QED BY <2>1, <2>2, RestDef, Zenon DEF Pattern!Matches, Pattern!pattern
<1>4. ASSUME patterns' = patterns, text' = text PROVE Pattern!input' = Pattern!input
  BY <1>4 DEF Pattern!input
<1>5. ASSUME patterns' = patterns, at' = at PROVE Pattern!pattern' = Pattern!pattern
  BY <1>5 DEF Pattern!pattern
\* A step within a pattern.
<1>6. ASSUME result = "none", patterns' = patterns, text' = text, at' = at, result' = result,
             Scanned(Pattern!pattern, Pattern!input, R, p_idx', s_idx', p_back', s_back')
      PROVE  ScanInv'
  <2>1. ScanTypes'
    BY <1>1, <1>6 DEF ScanTypes
  <2>2. at' \in DOMAIN patterns' /\ \A n \in 1..at' - 1 : ~Pattern!Matches(Pattern!as_bytes(patterns'[n]), Pattern!input')
    BY <1>3, <1>4, <1>6
  <2>3. Scanned(Pattern!pattern', Pattern!input', Pattern!Rest(Pattern!pattern', Pattern!input'), p_idx', s_idx', p_back', s_back')
    BY <1>4, <1>5, <1>6
  <2>4. Trying'
    BY <2>2, <2>3, Zenon DEF Trying
  <2>5. Pattern!ScanDecides'
    BY <1>6 DEF Pattern!ScanDecides
  <2> QED BY <2>1, <2>4, <2>5 DEF ScanInv
<1>7. CASE Pattern!TakeStar
  <2>1. /\ result = "none" /\ p_idx < Len(Pattern!pattern) /\ Pattern!pattern[p_idx + 1] = Star
        /\ p_idx' = p_idx + 1 /\ p_back' = p_idx + 1 /\ s_back' = s_idx /\ s_idx' = s_idx
        /\ patterns' = patterns /\ text' = text /\ at' = at /\ result' = result
    BY <1>7, Zenon DEF Pattern!TakeStar, Pattern!AtStar
  <2>2. Scanned(Pattern!pattern, Pattern!input, R, p_idx + 1, s_idx, p_idx + 1, s_idx)
    <3> HIDE DEF R
    <3> QED BY <1>2, <1>3, <2>1, ScanStar
  <2> HIDE DEF R
  <2> QED BY <1>6, <2>1, <2>2
<1>8. CASE Pattern!TakeByte
  <2>1. /\ result = "none" /\ ~(p_idx < Len(Pattern!pattern) /\ Pattern!pattern[p_idx + 1] = Star)
        /\ p_idx < Len(Pattern!pattern) /\ s_idx < Len(Pattern!input) /\ Pattern!pattern[p_idx + 1] \in {Pattern!input[s_idx + 1], Question}
        /\ p_idx' = p_idx + 1 /\ s_idx' = s_idx + 1 /\ p_back' = p_back /\ s_back' = s_back
        /\ patterns' = patterns /\ text' = text /\ at' = at /\ result' = result
    BY <1>8, Zenon DEF Pattern!TakeByte, Pattern!AtStar, Pattern!AtMatch
  <2>2. Scanned(Pattern!pattern, Pattern!input, R, p_idx + 1, s_idx + 1, p_back, s_back)
    <3> HIDE DEF R
    <3> QED BY <1>2, <1>3, <2>1, ScanByte
  <2> HIDE DEF R
  <2> QED BY <1>6, <2>1, <2>2
<1>9. ASSUME Pattern!Stuck
      PROVE  /\ result = "none" /\ s_idx \notin R[p_idx] /\ p_back # Len(Pattern!pattern)
             /\ ~(p_idx < Len(Pattern!pattern) /\ Pattern!pattern[p_idx + 1] = Star)
  <2>1. /\ result = "none" /\ p_back # Len(Pattern!pattern)
        /\ ~(p_idx < Len(Pattern!pattern) /\ Pattern!pattern[p_idx + 1] = Star)
        /\ ~(p_idx < Len(Pattern!pattern) /\ s_idx < Len(Pattern!input) /\ Pattern!pattern[p_idx + 1] \in {Pattern!input[s_idx + 1], Question})
        /\ ~(p_idx = Len(Pattern!pattern) /\ s_idx = Len(Pattern!input))
    BY <1>9, Zenon DEF Pattern!Stuck, Pattern!AtStar, Pattern!AtMatch, Pattern!AtEnd
  <2> HIDE DEF R
  <2> QED BY <1>2, <1>3, <2>1, ScanStuck
<1>10. CASE Pattern!Backtrack
  <2>1. /\ Pattern!Stuck /\ s_back # Never /\ s_back + 1 < Len(Pattern!input)
        /\ s_back' = s_back + 1 /\ p_idx' = p_back /\ s_idx' = s_back + 1 /\ p_back' = p_back
        /\ patterns' = patterns /\ text' = text /\ at' = at /\ result' = result
    BY <1>10, Zenon DEF Pattern!Backtrack
  <2>2. p_back # Never
    BY <1>3, <1>9, <2>1 DEF Scanned
  <2>3. Scanned(Pattern!pattern, Pattern!input, R, p_back, s_back + 1, p_back, s_back + 1)
    <3> HIDE DEF R
    <3> QED BY <1>2, <1>3, <1>9, <2>1, <2>2, ScanBack
  <2> HIDE DEF R
  <2> QED BY <1>6, <1>9, <2>1, <2>3
<1>11. CASE Pattern!Matched
  <2>1. /\ result = "none" /\ result' = "match"
        /\ (p_idx = Len(Pattern!pattern) /\ s_idx = Len(Pattern!input)) \/ p_back = Len(Pattern!pattern)
        /\ patterns' = patterns /\ text' = text
    BY <1>11, Zenon DEF Pattern!Matched, Pattern!AtEnd
  <2>2. 0 \in R[0]
    <3> HIDE DEF R
    <3> QED BY <1>2, <1>3, <2>1, ScanMatched
  <2> HIDE DEF R
  <2>3. \E n \in DOMAIN patterns : Pattern!Matches(Pattern!as_bytes(patterns[n]), Pattern!input)
    BY <1>3, <2>1, <2>2
  <2>4. Pattern!ScanDecides'
    BY <1>4, <2>1, <2>3 DEF Pattern!ScanDecides
  <2> QED BY <1>1, <2>1, <2>4 DEF ScanInv, ScanTypes, Trying
<1>12. CASE Pattern!Unmatched
  <2>1. /\ Pattern!Stuck /\ (s_back = Never \/ s_back + 1 >= Len(Pattern!input))
        /\ patterns' = patterns /\ text' = text
        /\ \/ at = Len(patterns) /\ result' = "no match"
           \/ /\ at # Len(patterns) /\ at' = at + 1 /\ result' = result
              /\ p_idx' = 0 /\ s_idx' = 0 /\ p_back' = Never /\ s_back' = Never
    BY <1>12, Zenon DEF Pattern!Unmatched
  <2>2. 0 \notin R[0] /\ result = "none"
    <3> HIDE DEF R
    <3> QED BY <1>2, <1>3, <1>9, <2>1, ScanFailed
  <2> HIDE DEF R
  <2>3. at \in 1..Len(patterns) /\ ~Pattern!Matches(Pattern!as_bytes(patterns[at]), Pattern!input)
        /\ \A n \in 1..at - 1 : ~Pattern!Matches(Pattern!as_bytes(patterns[n]), Pattern!input)
    BY <1>2, <1>3, <2>2
  <2>4. \A n \in 1..at : ~Pattern!Matches(Pattern!as_bytes(patterns[n]), Pattern!input)
    <3>1. ASSUME NEW n \in 1..at PROVE n = at \/ n \in 1..at - 1
      BY <1>2, <2>3
    <3> QED BY <2>3, <3>1
  <2>5. CASE at = Len(patterns) /\ result' = "no match"
    <3>1. ~\E n \in DOMAIN patterns : Pattern!Matches(Pattern!as_bytes(patterns[n]), Pattern!input)
      BY <1>2, <2>4, <2>5
    <3>2. Pattern!ScanDecides'
      BY <1>4, <2>1, <2>5, <3>1 DEF Pattern!ScanDecides
    <3> QED BY <1>1, <2>1, <2>5, <3>2 DEF ScanInv, ScanTypes, Trying
  <2>6. CASE /\ at # Len(patterns) /\ at' = at + 1 /\ result' = result
             /\ p_idx' = 0 /\ s_idx' = 0 /\ p_back' = Never /\ s_back' = Never
    <3>1. at' \in DOMAIN patterns' /\ at' - 1 = at
      <4> DEFINE n == Len(patterns)
      <4>1. n \in Nat /\ at \in 1..n /\ at # n
        BY <1>2, <2>3, <2>6
      <4> HIDE DEF n
      <4>2. at + 1 \in 1..n
        BY <4>1
      <4>3. DOMAIN patterns' = 1..n
        BY <1>2, <2>1, Zenon DEF n
      <4>4. at' = at + 1
        BY <2>6
      <4>5. at' \in DOMAIN patterns'
        BY <4>2, <4>3, <4>4
      <4>6. at' - 1 = at
        BY <4>1, <4>4
      <4> QED BY <4>5, <4>6
    <3>2. Len(Pattern!pattern') \in Nat /\ Len(Pattern!input') \in Nat
      BY <1>2, <1>4, <2>1, <3>1 DEF Pattern!pattern
    <3>3. Scanned(Pattern!pattern', Pattern!input', Pattern!Rest(Pattern!pattern', Pattern!input'), p_idx', s_idx', p_back', s_back')
      BY <2>6, <3>2, ScanStarts
    <3>4. \A n \in 1..at' - 1 : ~Pattern!Matches(Pattern!as_bytes(patterns'[n]), Pattern!input')
      BY <1>4, <2>1, <2>4, <3>1
    <3>5. Trying'
      BY <3>1, <3>3, <3>4, Zenon DEF Trying
    <3>6. ScanTypes' /\ Pattern!ScanDecides'
      BY <1>1, <2>1, <2>2, <2>6 DEF ScanTypes, Pattern!ScanDecides
    <3> QED BY <3>5, <3>6 DEF ScanInv
  <2> QED BY <2>1, <2>5, <2>6
<1>13. CASE UNCHANGED Pattern!vars
  BY <1>13 DEF Pattern!vars, Pattern!scan, ScanInv, ScanTypes, Trying, Pattern!ScanDecides, Pattern!pattern, Pattern!input
<1>14. CASE Pattern!Over
  BY <1>13, <1>14 DEF Pattern!Over
<1> QED BY <1>7, <1>8, <1>10, <1>11, <1>12, <1>13, <1>14 DEF Pattern!Next

\* is_match says whether one of the patterns matches, for every list of patterns and every
\* input (match_pattern, is_match): going back only to the last star loses no match.
THEOREM ScanDecidesHolds == Pattern!Spec => []ScanDecides
<1>1. Pattern!Init => ScanInv
  BY ScanInit, ComponentsAssumption
<1>2. ScanInv /\ [Pattern!Next]_(Pattern!vars) => ScanInv'
  BY ScanNext, ComponentsAssumption
<1>3. ScanInv => ScanDecides
  BY DEF ScanInv, ScanDecides
<1> QED BY <1>1, <1>2, <1>3, PTL DEF Pattern!Spec
=============================================================================

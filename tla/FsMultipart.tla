----------------------------- MODULE FsMultipart -----------------------------
(***************************************************************************)
(* Multipart uploads of crates/s3s-fs/src/s3.rs to one object: create,     *)
(* upload_part, upload_part_copy, complete and abort, run by handlers that *)
(* take no lock and interleave at every await.  A handler can fail on any  *)
(* file operation, be dropped with its connection, or die with the process.*)
(*                                                                         *)
(* Files are written whole (FileWriter implements AtomicFile), so a save   *)
(* is one step.  Digests are collision free: a checksum is identified with *)
(* the bytes it was computed from.                                         *)
(***************************************************************************)
EXTENDS Naturals, Sequences, FiniteSets

CONSTANTS Handler,   \* tasks serving requests
          Upload,    \* the UUIDs that can be drawn
          Cred,      \* access keys
          MaxPart,   \* bound on part numbers (10000 in the code)
          Payload,   \* contents of a part
          Small,     \* the payloads shorter than 5 MiB
          Absent,    \* no file, no checksum, no condition
          Request,   \* the requests that clients send
          Orderly,   \* clients wait for answers (see MayBegin)
          MaxFaults  \* bound: failures, cancellations and crashes

Part == 1..MaxPart
Bytes == Seq(Payload)
Opt(S) == S \cup {Absent}

\* A condition of CompleteMultipartUpload: If-None-Match: *, If-Match: * or
\* If-Match with an ETag.
Cond == {<<"absent">>, <<"present">>} \cup ({"etag"} \X Bytes)

\* In a create request u is the UUID the server draws.
CreateReq   == [op : {"create"}, u : Upload, cred : Cred]
UploadReq   == [op : {"upload_part", "upload_part_copy"}, u : Upload, cred : Cred,
                n : Part, body : Payload, want : Opt(Payload)]
CompleteReq == [op : {"complete"}, u : Upload, cred : Cred,
                parts : Seq(Opt(Payload)), want : Opt(Bytes), cond : Opt(Cond)]
AbortReq    == [op : {"abort"}, u : Upload, cred : Cred]

ASSUME FsMultipartAssumption ==
    /\ MaxPart \in Nat
    /\ MaxFaults \in Nat
    /\ Orderly \in BOOLEAN
    /\ Small \subseteq Payload
    /\ Absent \notin Cred \cup Payload \cup Request
    /\ Request \subseteq CreateReq \cup UploadReq \cup CompleteReq \cup AbortReq
    /\ \A r \in Request : r.op = "complete" =>
         /\ r.parts # <<>>
         /\ Len(r.parts) <= MaxPart
    /\ \A r \in Request : r.op = "upload_part_copy" => r.want = Absent

VARIABLES
    \* files in the root directory, and at the object's path
    upload,    \* .upload-<u>.json: the access key that created the upload
    upAttrs,   \* uploads whose attributes sidecar exists
    part,      \* .upload_id-<u>.part-<n>
    partInfo,  \* .upload_part_info-<u>.part-<n>.json: checksum of the part
    obj,       \* the object's bytes
    objAttrs,  \* its attributes sidecar: the upload they came from
    objInfo,   \* its internal info: the multipart ETag, i.e. the parts hashed
    \* handlers
    pc, req,
    attrs,     \* complete: upload_attrs was Some
    i,         \* complete: the part in hand
    acc,       \* complete: bytes written to the temporary so far
    failed,    \* complete: cleanup_failed
    todo,      \* abort: directory entries still to visit
    \* removals handed to tokio's blocking pool by handlers that were dropped
    \* while they waited for them
    pool,
    \* bound and history
    faults,
    owner,     \* the access key every UUID was drawn for
    stored,    \* <<u, n, b, cred>>: cred's payload b was renamed to part n of u
    committed, \* uploads whose object, attributes and info have been saved
    aborted,   \* uploads an abort has started to remove
    origin     \* the request that wrote obj

disk == <<upload, upAttrs, part, partInfo, obj, objAttrs, objInfo>>
local == <<attrs, i, acc, failed, todo>>
hist == <<owner, stored, committed, aborted, origin>>
vars == <<disk, pc, req, local, faults, pool, hist>>

Entry == {"part", "info"} \X Part
Id == <<"id", 0>>
File == Entry \cup {Id}

Creating   == {"new_id", "new_attrs"}
Uploading  == {"verify", "up_body", "up_done", "up_info"}
Assembling == {"verify", "c_attrs", "c_cond", "c_info", "c_read", "c_done"}
Saving     == {"c_save_attrs", "c_save_info"}
Cleaning   == {"c_del_attrs", "c_del_part", "c_del_info", "c_del_id"}
Aborting   == {"verify", "a_attrs", "a_scan", "a_remove", "a_id"}
InFlight   == Creating \cup Uploading \cup Assembling \cup Saving \cup Cleaning \cup Aborting

TypeOK ==
    /\ upload \in [Upload -> Opt(Cred)]
    /\ upAttrs \subseteq Upload
    /\ part \in [Upload -> [Part -> Opt(Payload)]]
    /\ partInfo \in [Upload -> [Part -> Opt(Payload)]]
    /\ obj \in Opt(Bytes)
    /\ objAttrs \in Opt(Upload)
    /\ objInfo \in Opt(Bytes)
    /\ pc \in [Handler -> {"idle", "ok", "err"} \cup InFlight]
    /\ req \in [Handler -> Opt(Request)]
    /\ attrs \in [Handler -> BOOLEAN]
    /\ i \in [Handler -> Part \cup {MaxPart + 1}]
    /\ acc \in [Handler -> Bytes]
    /\ failed \in [Handler -> BOOLEAN]
    /\ todo \in [Handler -> SUBSET Entry]
    /\ faults \in 0..MaxFaults
    /\ pool \subseteq Upload \X File
    /\ owner \in [Upload -> Opt(Cred)]
    /\ stored \subseteq Upload \X Part \X Payload \X Cred
    /\ committed \subseteq Upload
    /\ aborted \subseteq Upload
    /\ origin \in Opt(Request)

Init ==
    /\ upload = [u \in Upload |-> Absent]
    /\ upAttrs = {}
    /\ part = [u \in Upload |-> [n \in Part |-> Absent]]
    /\ partInfo = [u \in Upload |-> [n \in Part |-> Absent]]
    /\ obj = Absent /\ objAttrs = Absent /\ objInfo = Absent
    /\ pc = [h \in Handler |-> "idle"]
    /\ req = [h \in Handler |-> Absent]
    /\ attrs = [h \in Handler |-> FALSE]
    /\ i = [h \in Handler |-> 1]
    /\ acc = [h \in Handler |-> <<>>]
    /\ failed = [h \in Handler |-> FALSE]
    /\ todo = [h \in Handler |-> {}]
    /\ faults = 0 /\ pool = {}
    /\ owner = [u \in Upload |-> Absent]
    /\ stored = {} /\ committed = {} /\ aborted = {}
    /\ origin = Absent

-----------------------------------------------------------------------------
Goto(h, to) == pc' = [pc EXCEPT ![h] = to]

Fault == faults < MaxFaults /\ faults' = faults + 1

\* The files of parts that an upload has in the root directory.
Present(u) == {e \in Entry : IF e[1] = "part" THEN part[u][e[2]] # Absent
                                              ELSE partInfo[u][e[2]] # Absent}

IsUpload(r) == r.op \in {"upload_part", "upload_part_copy"}

\* An orderly client uploads parts once it has been given the upload's ID,
\* completes or aborts once its uploads have been answered or cut off, completes
\* with every part it has uploaded, and uploads nothing once the upload has been
\* committed or an abort of it let in.
MayBegin(r) ==
    /\ r.op # "create" => owner[r.u] # Absent
    /\ \A g \in Handler : pc[g] # "idle" /\ req[g].u = r.u =>
         req[g].op # "create" /\ IsUpload(req[g]) = IsUpload(r)
    /\ IsUpload(r) => r.u \notin committed \cup aborted
    /\ r.op = "complete" => Present(r.u) \subseteq {"part", "info"} \X DOMAIN r.parts

\* A client's request reaches an idle handler.  Requests refused on sight (an
\* unsupported checksum type, a part number above 10000, a missing body, an
\* ill-formed upload ID, an empty part list) change nothing and are left out.
Begin(h, r) ==
    /\ pc[h] = "idle"
    /\ r.op = "create" => owner[r.u] = Absent
    /\ Orderly => MayBegin(r)
    /\ Goto(h, IF r.op = "create" THEN "new_id" ELSE "verify")
    /\ req' = [req EXCEPT ![h] = r]
    /\ owner' = IF r.op = "create" THEN [owner EXCEPT ![r.u] = r.cred] ELSE owner
    /\ UNCHANGED <<disk, local, faults, pool, stored, committed, aborted, origin>>

\* The answer is sent and the handler's state is gone.
Reset(h) ==
    /\ req' = [req EXCEPT ![h] = Absent]
    /\ attrs' = [attrs EXCEPT ![h] = FALSE]
    /\ i' = [i EXCEPT ![h] = 1]
    /\ acc' = [acc EXCEPT ![h] = <<>>]
    /\ failed' = [failed EXCEPT ![h] = FALSE]
    /\ todo' = [todo EXCEPT ![h] = {}]

Respond(h) ==
    /\ pc[h] \in {"ok", "err"}
    /\ Goto(h, "idle")
    /\ Reset(h)
    /\ UNCHANGED <<disk, faults, pool, hist>>

-----------------------------------------------------------------------------
(* create_multipart_upload *)

CreateUploadId(h) ==
    /\ pc[h] = "new_id"
    /\ upload' = [upload EXCEPT ![req[h].u] = req[h].cred]
    /\ Goto(h, "new_attrs")
    /\ UNCHANGED <<upAttrs, part, partInfo, obj, objAttrs, objInfo, req, local, faults, pool, hist>>

SaveUploadAttrs(h) ==
    /\ pc[h] = "new_attrs"
    /\ upAttrs' = upAttrs \cup {req[h].u}
    /\ Goto(h, "ok")
    /\ UNCHANGED <<upload, part, partInfo, obj, objAttrs, objInfo, req, local, faults, pool, hist>>

-----------------------------------------------------------------------------
(* verify_upload_id, the gate of every other handler *)

AfterVerify(op) ==
    CASE op \in {"upload_part", "upload_part_copy"} -> "up_body"
      [] op = "complete" -> "c_attrs"
      [] op = "abort" -> "a_attrs"

\* Mutant of VerifyUploadId: the stored access key is not compared.
VerifyExistsOnly(h) ==
    /\ pc[h] = "verify"
    /\ Goto(h, IF upload[req[h].u] # Absent THEN AfterVerify(req[h].op) ELSE "err")
    /\ aborted' = IF req[h].op = "abort" /\ pc'[h] # "err"
                  THEN aborted \cup {req[h].u} ELSE aborted
    /\ UNCHANGED <<disk, req, local, faults, pool, owner, stored, committed, origin>>

VerifyUploadId(h) ==
    /\ pc[h] = "verify"
    /\ Goto(h, IF upload[req[h].u] # Absent /\ upload[req[h].u] = req[h].cred
               THEN AfterVerify(req[h].op) ELSE "err")
    /\ aborted' = IF req[h].op = "abort" /\ pc'[h] # "err"
                  THEN aborted \cup {req[h].u} ELSE aborted
    /\ UNCHANGED <<disk, req, local, faults, pool, owner, stored, committed, origin>>

-----------------------------------------------------------------------------
(* upload_part and upload_part_copy *)

\* The body goes to a temporary file.  upload_part compares its checksum with
\* the one in the headers or trailers before the rename; a copied part has no
\* expected checksum.
ReceiveBody(h) ==
    /\ pc[h] = "up_body"
    /\ Goto(h, IF req[h].want \in {Absent, req[h].body} THEN "up_done" ELSE "err")
    /\ UNCHANGED <<disk, req, local, faults, pool, hist>>

RenamePart(h) ==
    LET r == req[h] IN
    /\ pc[h] = "up_done"
    /\ part' = [part EXCEPT ![r.u][r.n] = r.body]
    /\ stored' = stored \cup {<<r.u, r.n, r.body, r.cred>>}
    /\ Goto(h, "up_info")
    /\ UNCHANGED <<upload, upAttrs, partInfo, obj, objAttrs, objInfo, req, local, faults, pool,
                   owner, committed, aborted, origin>>

SavePartInfo(h) ==
    /\ pc[h] = "up_info"
    /\ partInfo' = [partInfo EXCEPT ![req[h].u][req[h].n] = req[h].body]
    /\ Goto(h, "ok")
    /\ UNCHANGED <<upload, upAttrs, part, obj, objAttrs, objInfo, req, local, faults, pool, hist>>

-----------------------------------------------------------------------------
(* complete_multipart_upload *)

LoadUploadAttrs(h) ==
    /\ pc[h] = "c_attrs"
    /\ attrs' = [attrs EXCEPT ![h] = req[h].u \in upAttrs]
    /\ Goto(h, "c_cond")
    /\ UNCHANGED <<disk, req, i, acc, failed, todo, faults, pool, hist>>

\* The ETag the object has: the stored one, or else one computed from its bytes,
\* which no multipart ETag equals.
ETagMatches(e) == obj # Absent /\ objInfo # Absent /\ objInfo = e

CondHolds(c) ==
    \/ c = Absent
    \/ c # Absent /\ c[1] = "absent" /\ obj = Absent
    \/ c # Absent /\ c[1] = "present" /\ obj # Absent
    \/ c # Absent /\ c[1] = "etag" /\ ETagMatches(c[2])

CheckConditions(h) ==
    /\ pc[h] = "c_cond"
    /\ Goto(h, IF CondHolds(req[h].cond) THEN "c_info" ELSE "err")
    /\ UNCHANGED <<disk, req, local, faults, pool, hist>>

\* Part i: load its info and compare the checksum the client sent for it, if any.
\* A checksum that was not saved counts as a mismatch.
LoadPartInfo(h) ==
    LET want == req[h].parts[i[h]] IN
    /\ pc[h] = "c_info"
    /\ Goto(h, IF want \in {Absent, partInfo[req[h].u][i[h]]} THEN "c_read" ELSE "err")
    /\ UNCHANGED <<disk, req, local, faults, pool, hist>>

\* Mutant of ReadPart: every part is removed as soon as it has been read.
ReadAndRemovePart(h) ==
    LET b == part[req[h].u][i[h]]
        last == i[h] = Len(req[h].parts)
    IN
    /\ pc[h] = "c_read"
    /\ IF b = Absent \/ (b \in Small /\ ~last)
       THEN Goto(h, "err") /\ UNCHANGED <<i, acc, part>>
       ELSE /\ acc' = [acc EXCEPT ![h] = Append(@, b)]
            /\ i' = [i EXCEPT ![h] = @ + 1]
            /\ part' = [part EXCEPT ![req[h].u][i[h]] = Absent]
            /\ Goto(h, IF last THEN "c_done" ELSE "c_info")
    /\ UNCHANGED <<upload, upAttrs, partInfo, obj, objAttrs, objInfo,
                   req, attrs, failed, todo, faults, pool, hist>>

\* Part i: open its file and append it.  An open file stays readable when its
\* name is replaced or removed, so the bytes are those of one upload.  Only
\* the last part may be small.
ReadPart(h) ==
    LET b == part[req[h].u][i[h]]
        last == i[h] = Len(req[h].parts)
    IN
    /\ pc[h] = "c_read"
    /\ IF b = Absent \/ (b \in Small /\ ~last)
       THEN Goto(h, "err") /\ UNCHANGED <<i, acc>>
       ELSE /\ acc' = [acc EXCEPT ![h] = Append(@, b)]
            /\ i' = [i EXCEPT ![h] = @ + 1]
            /\ Goto(h, IF last THEN "c_done" ELSE "c_info")
    /\ UNCHANGED <<disk, req, attrs, failed, todo, faults, pool, hist>>

\* Mutant of CommitObject: the digest is put together from the saved part infos.
CommitBySavedInfo(h) ==
    LET n == Len(req[h].parts) IN
    /\ pc[h] = "c_done"
    /\ IF req[h].want \in {Absent, [k \in 1..n |-> partInfo[req[h].u][k]]}
       THEN /\ obj' = acc[h]
            /\ origin' = req[h]
            /\ Goto(h, IF attrs[h] THEN "c_save_attrs" ELSE "c_save_info")
       ELSE Goto(h, "err") /\ UNCHANGED <<obj, origin>>
    /\ UNCHANGED <<upload, upAttrs, part, partInfo, objAttrs, objInfo, req, local, faults, pool,
                   owner, stored, committed, aborted>>

\* The digest of what was read must be the one asked for; then the rename.
CommitObject(h) ==
    /\ pc[h] = "c_done"
    /\ IF req[h].want \in {Absent, acc[h]}
       THEN /\ obj' = acc[h]
            /\ origin' = req[h]
            /\ Goto(h, IF attrs[h] THEN "c_save_attrs" ELSE "c_save_info")
       ELSE Goto(h, "err") /\ UNCHANGED <<obj, origin>>
    /\ UNCHANGED <<upload, upAttrs, part, partInfo, objAttrs, objInfo, req, local, faults, pool,
                   owner, stored, committed, aborted>>

SaveObjectAttrs(h) ==
    /\ pc[h] = "c_save_attrs"
    /\ objAttrs' = req[h].u
    /\ Goto(h, "c_save_info")
    /\ UNCHANGED <<upload, upAttrs, part, partInfo, obj, objInfo, req, local, faults, pool, hist>>

SaveObjectInfo(h) ==
    /\ pc[h] = "c_save_info"
    /\ objInfo' = acc[h]
    /\ committed' = committed \cup {req[h].u}
    /\ i' = [i EXCEPT ![h] = 1]
    /\ Goto(h, "c_del_attrs")
    /\ UNCHANGED <<upload, upAttrs, part, partInfo, obj, objAttrs, req,
                   attrs, acc, failed, todo, faults, pool, owner, stored, aborted, origin>>

\* Clean-up goes on when a removal fails and remembers that it did.
Removal(h, done) ==
    \/ done /\ UNCHANGED <<failed, faults>>
    \/ /\ Fault
       /\ failed' = [failed EXCEPT ![h] = TRUE]
       /\ UNCHANGED disk

DeleteUploadAttrs(h) ==
    /\ pc[h] = "c_del_attrs"
    /\ Removal(h, /\ upAttrs' = upAttrs \ {req[h].u}
                  /\ UNCHANGED <<upload, part, partInfo, obj, objAttrs, objInfo>>)
    /\ Goto(h, "c_del_part")
    /\ UNCHANGED <<req, attrs, i, acc, todo, pool, hist>>

RemovePart(h) ==
    /\ pc[h] = "c_del_part"
    /\ Removal(h, /\ part' = [part EXCEPT ![req[h].u][i[h]] = Absent]
                  /\ UNCHANGED <<upload, upAttrs, partInfo, obj, objAttrs, objInfo>>)
    /\ Goto(h, "c_del_info")
    /\ UNCHANGED <<req, attrs, i, acc, todo, pool, hist>>

RemovePartInfo(h) ==
    LET last == i[h] = Len(req[h].parts) IN
    /\ pc[h] = "c_del_info"
    /\ Removal(h, /\ partInfo' = [partInfo EXCEPT ![req[h].u][i[h]] = Absent]
                  /\ UNCHANGED <<upload, upAttrs, part, obj, objAttrs, objInfo>>)
    /\ i' = [i EXCEPT ![h] = @ + 1]
    /\ Goto(h, IF last THEN "c_del_id" ELSE "c_del_part")
    /\ UNCHANGED <<req, attrs, acc, todo, pool, hist>>

\* Mutant of RetireUpload: cleanup_failed is not looked at.
RetireAlways(h) ==
    /\ pc[h] = "c_del_id"
    /\ Removal(h, /\ upload' = [upload EXCEPT ![req[h].u] = Absent]
                  /\ UNCHANGED <<upAttrs, part, partInfo, obj, objAttrs, objInfo>>)
    /\ Goto(h, "ok")
    /\ UNCHANGED <<req, attrs, i, acc, todo, pool, hist>>

\* The upload ID goes last, and only if nothing was left behind; whatever
\* happens here the answer is Ok.
RetireUpload(h) ==
    /\ pc[h] = "c_del_id"
    /\ \/ failed[h] /\ UNCHANGED <<disk, failed, faults>>
       \/ ~failed[h] /\ Removal(h, /\ upload' = [upload EXCEPT ![req[h].u] = Absent]
                                   /\ UNCHANGED <<upAttrs, part, partInfo, obj, objAttrs, objInfo>>)
    /\ Goto(h, "ok")
    /\ UNCHANGED <<req, attrs, i, acc, todo, pool, hist>>

-----------------------------------------------------------------------------
(* abort_multipart_upload *)

AbortDeleteAttrs(h) ==
    /\ pc[h] = "a_attrs"
    /\ upAttrs' = upAttrs \ {req[h].u}
    /\ Goto(h, "a_scan")
    /\ UNCHANGED <<upload, part, partInfo, obj, objAttrs, objInfo, req, local, faults, pool, hist>>

\* Mutant of AbortScan: the info files of the parts are not looked for.
AbortScanPartsOnly(h) ==
    /\ pc[h] = "a_scan"
    /\ todo' = [todo EXCEPT ![h] = {e \in Present(req[h].u) : e[1] = "part"}]
    /\ Goto(h, "a_remove")
    /\ UNCHANGED <<disk, req, attrs, i, acc, failed, faults, pool, hist>>

\* read_dir: what is there now is visited; a file that appears during the scan
\* may or may not be.
AbortScan(h) ==
    /\ pc[h] = "a_scan"
    /\ todo' = [todo EXCEPT ![h] = Present(req[h].u)]
    /\ Goto(h, "a_remove")
    /\ UNCHANGED <<disk, req, attrs, i, acc, failed, faults, pool, hist>>

RemoveEntry(u, e) ==
    /\ part' = IF e[1] = "part" THEN [part EXCEPT ![u][e[2]] = Absent] ELSE part
    /\ partInfo' = IF e[1] = "info" THEN [partInfo EXCEPT ![u][e[2]] = Absent] ELSE partInfo

AbortRemove(h, e) ==
    /\ pc[h] = "a_remove"
    /\ e \in todo[h] \cup Present(req[h].u)
    /\ RemoveEntry(req[h].u, e)
    /\ todo' = [todo EXCEPT ![h] = @ \ {e}]
    /\ UNCHANGED <<upload, upAttrs, obj, objAttrs, objInfo, pc, req,
                   attrs, i, acc, failed, faults, pool, hist>>

AbortScanned(h) ==
    /\ pc[h] = "a_remove"
    /\ todo[h] = {}
    /\ Goto(h, "a_id")
    /\ UNCHANGED <<disk, req, local, faults, pool, hist>>

AbortDeleteId(h) ==
    /\ pc[h] = "a_id"
    /\ upload' = [upload EXCEPT ![req[h].u] = Absent]
    /\ Goto(h, "ok")
    /\ UNCHANGED <<upAttrs, part, partInfo, obj, objAttrs, objInfo, req, local, faults, pool, hist>>

-----------------------------------------------------------------------------
\* A file operation fails: outside clean-up the error is returned at once.
Fail(h) ==
    /\ pc[h] \in InFlight \ Cleaning
    /\ Fault
    /\ Goto(h, "err")
    /\ UNCHANGED <<disk, req, local, pool, hist>>

\* The files whose removal a handler may be waiting for.
Removing(h) ==
    {f \in File :
        \/ pc[h] = "c_del_part" /\ f = <<"part", i[h]>>
        \/ pc[h] = "c_del_info" /\ f = <<"info", i[h]>>
        \/ pc[h] = "c_del_id" /\ ~failed[h] /\ f = Id
        \/ pc[h] = "a_remove" /\ f \in todo[h] \cup Present(req[h].u)
        \/ pc[h] = "a_id" /\ f = Id}

\* The connection is closed and the handler dropped at an await.  A removal it
\* waits for stays with the blocking pool; a save it waits for has been done or
\* will not be, since FileWriter's Drop removes the temporary.
Cancel(h) ==
    /\ pc[h] \in InFlight
    /\ Fault
    /\ Goto(h, "idle")
    /\ Reset(h)
    /\ \/ UNCHANGED pool
       \/ \E f \in Removing(h) : pool' = pool \cup {<<req[h].u, f>>}
    /\ UNCHANGED <<disk, hist>>

\* The blocking pool gets to a removal nobody waits for; its result is lost.
PoolRemove(u, f) ==
    /\ <<u, f>> \in pool
    /\ pool' = pool \ {<<u, f>>}
    /\ \/ /\ upload' = IF f = Id THEN [upload EXCEPT ![u] = Absent] ELSE upload
          /\ RemoveEntry(u, f)
          /\ UNCHANGED faults
       \/ Fault /\ UNCHANGED <<upload, part, partInfo>>
    /\ UNCHANGED <<upAttrs, obj, objAttrs, objInfo, pc, req, local, hist>>

\* The process dies and is started again on the same root.
Crash ==
    /\ Fault
    /\ pc' = [h \in Handler |-> "idle"]
    /\ req' = [h \in Handler |-> Absent]
    /\ attrs' = [h \in Handler |-> FALSE]
    /\ i' = [h \in Handler |-> 1]
    /\ acc' = [h \in Handler |-> <<>>]
    /\ failed' = [h \in Handler |-> FALSE]
    /\ todo' = [h \in Handler |-> {}]
    /\ pool' = {}
    /\ UNCHANGED <<disk, hist>>

Progress(h) ==
    \/ Respond(h)
    \/ CreateUploadId(h) \/ SaveUploadAttrs(h)
    \/ VerifyUploadId(h)
    \/ ReceiveBody(h) \/ RenamePart(h) \/ SavePartInfo(h)
    \/ LoadUploadAttrs(h) \/ CheckConditions(h) \/ LoadPartInfo(h) \/ ReadPart(h)
    \/ CommitObject(h) \/ SaveObjectAttrs(h) \/ SaveObjectInfo(h)
    \/ DeleteUploadAttrs(h) \/ RemovePart(h) \/ RemovePartInfo(h) \/ RetireUpload(h)
    \/ AbortDeleteAttrs(h) \/ AbortScan(h) \/ (\E e \in Entry : AbortRemove(h, e))
    \/ AbortScanned(h) \/ AbortDeleteId(h)

Next ==
    \/ \E h \in Handler :
        \/ \E r \in Request : Begin(h, r)
        \/ Progress(h) \/ Fail(h) \/ Cancel(h)
    \/ \E u \in Upload, f \in File : PoolRemove(u, f)
    \/ Crash

Spec == Init /\ [][Next]_vars

\* Handlers keep running, and the client sends its abort again until a handler
\* takes it up.
Retry(r) == \E h \in Handler : Begin(h, r)

FairSpec ==
    /\ Spec
    /\ \A h \in Handler : WF_vars(Progress(h))
    /\ \A r \in Request : r.op = "abort" => SF_vars(Retry(r))

-----------------------------------------------------------------------------
\* The object is made of parts 1, 2, ... of one upload, each of them received
\* whole from the access key that created the upload and asked to complete it,
\* whatever other uploads, re-uploads and aborts ran meanwhile
\* (verify_upload_id, complete_multipart_upload).
ObjectFromOwnUpload ==
    obj # Absent =>
        /\ Len(obj) = Len(origin.parts)
        /\ origin.cred = owner[origin.u]
        /\ \A k \in 1..Len(obj) : <<origin.u, k, obj[k], origin.cred>> \in stored

\* An object completed with a full-object checksum has the bytes the checksum
\* was computed from, even if a part was uploaded again between the check of
\* its saved info and the read of its file (complete_multipart_upload).
ObjectHasAskedDigest == obj # Absent => origin.want \in {Absent, obj}

\* A part that has reached its place is not removed before the object it belongs
\* to is saved with its attributes and ETag, or an abort was let in: a crash or
\* a failure before that never costs uploaded data.
PartsSurviveUntilCommit ==
    \A s \in stored : part[s[1]][s[2]] # Absent \/ s[1] \in committed \cup aborted

\* Whatever is left of an upload on the disk, its upload ID is there too, so
\* that an abort is let in to remove it: "Keep the upload ID until residue is
\* removed so an abort can retry cleanup after a failure".
Residue(u) == u \in upAttrs \/ Present(u) # {}
ResidueHasUploadId == \A u \in Upload : Residue(u) => upload[u] # Absent

\* A committed upload is eventually gone from the disk, ID and all, however its
\* clean-up failed or was cut short, if its owner keeps sending the abort.
RetriedAbortCleans ==
    \A u \in Upload : u \in committed ~> (upload[u] = Absent /\ ~Residue(u))
=============================================================================

-------------------------- MODULE FsMultipartProofs --------------------------
(***************************************************************************)
(* What multipart uploads promise for any number of handlers, uploads,     *)
(* access keys and parts, with failures, cancellations and crashes at      *)
(* every step.                                                             *)
(***************************************************************************)
EXTENDS FsMultipart, TLAPS

\* What is in a request, by its operation.
LEMMA Requests ==
    ASSUME NEW r \in Request
    PROVE  /\ r.u \in Upload /\ r.cred \in Cred /\ r.cred # Absent
           /\ r.op \in {"create", "upload_part", "upload_part_copy", "complete", "abort"}
           /\ IsUpload(r) => r.n \in Part /\ r.body \in Payload /\ r.body # Absent
           /\ r.op = "complete" => /\ r.parts \in Seq(Opt(Payload))
                                   /\ Len(r.parts) \in 1..MaxPart
<1>1. r.u \in Upload /\ r.cred \in Cred /\ r.cred # Absent
      /\ r.op \in {"create", "upload_part", "upload_part_copy", "complete", "abort"}
  BY FsMultipartAssumption DEF CreateReq, UploadReq, CompleteReq, AbortReq
<1>2. IsUpload(r) => r.n \in Part /\ r.body \in Payload /\ r.body # Absent
  BY FsMultipartAssumption DEF IsUpload, CreateReq, UploadReq, CompleteReq, AbortReq
<1>3. ASSUME r.op = "complete" PROVE r.parts \in Seq(Opt(Payload)) /\ Len(r.parts) \in 1..MaxPart
  <2>1. r.parts \in Seq(Opt(Payload))
    BY <1>3, FsMultipartAssumption DEF CreateReq, UploadReq, CompleteReq, AbortReq
  <2>2. QED
    BY <1>3, <2>1, FsMultipartAssumption
<1>4. QED
  BY <1>1, <1>2, <1>3

\* Where a handler is says what its request is.
Doing ==
    \A h \in Handler :
        /\ pc[h] # "idle" => req[h] \in Request
        /\ pc[h] \in Creating => req[h].op = "create"
        /\ pc[h] = "verify" => req[h].op # "create"
        /\ pc[h] \in Uploading \ {"verify"} => IsUpload(req[h])
        /\ pc[h] \in (Assembling \ {"verify"}) \cup Saving \cup Cleaning => req[h].op = "complete"
        /\ pc[h] \in Aborting \ {"verify"} => req[h].op = "abort"

\* How far a handler that completes has come.
PositionOf(h) ==
    /\ pc[h] \in {"idle", "verify", "c_attrs", "c_cond"} => i[h] = 1 /\ acc[h] = <<>>
    /\ pc[h] \in {"c_info", "c_read"} => Len(acc[h]) = i[h] - 1 /\ i[h] <= Len(req[h].parts)
    /\ pc[h] \in {"c_done"} \cup Saving => Len(acc[h]) = Len(req[h].parts)
    /\ pc[h] \in {"c_del_attrs", "c_del_part", "c_del_info"} => i[h] <= Len(req[h].parts)
    /\ pc[h] = "c_del_attrs" => i[h] = 1

Position == \A h \in Handler : PositionOf(h)

Types == TypeOK /\ Doing /\ Position

-----------------------------------------------------------------------------
\* Nothing has happened yet.
LEMMA InitTypes == Init => Types
BY FsMultipartAssumption DEF Init, Types, TypeOK, Doing, Position, PositionOf, Opt, Part, Bytes, Creating, Uploading, Assembling,
   Saving, Cleaning, Aborting

\* What the request in hand has, by the place of its handler.
Here(h) ==
    /\ pc[h] # "idle" => req[h] \in Request /\ req[h].u \in Upload /\ req[h].cred \in Cred /\ req[h].cred # Absent
                         /\ req[h].op \in {"create", "upload_part", "upload_part_copy", "complete", "abort"}
    /\ pc[h] = "verify" => req[h].op # "create"
    /\ pc[h] \in {"up_body", "up_done", "up_info"} =>
         IsUpload(req[h]) /\ req[h].n \in Part /\ req[h].body \in Payload /\ req[h].body # Absent
    /\ pc[h] \in (Assembling \ {"verify"}) \cup Saving \cup Cleaning =>
         req[h].op = "complete" /\ Len(req[h].parts) \in 1..MaxPart
    /\ pc[h] \in {"c_info", "c_read", "c_del_attrs", "c_del_part", "c_del_info"} =>
         i[h] \in 1..Len(req[h].parts) /\ i[h] \in Part

LEMMA AtHand == ASSUME Types, NEW h \in Handler PROVE Here(h)
<1> USE DEF Types, TypeOK, Doing, Position, PositionOf
<1>1. pc[h] # "idle" => req[h] \in Request /\ req[h].u \in Upload /\ req[h].cred \in Cred /\ req[h].cred # Absent
                        /\ req[h].op \in {"create", "upload_part", "upload_part_copy", "complete", "abort"}
  BY Requests
<1>2. pc[h] \in {"up_body", "up_done", "up_info"} =>
         IsUpload(req[h]) /\ req[h].n \in Part /\ req[h].body \in Payload /\ req[h].body # Absent
  BY Requests DEF Uploading
<1>3. pc[h] \in (Assembling \ {"verify"}) \cup Saving \cup Cleaning =>
         req[h].op = "complete" /\ Len(req[h].parts) \in 1..MaxPart
  BY Requests DEF Assembling, Saving, Cleaning
<1>4. pc[h] \in {"c_info", "c_read", "c_del_attrs", "c_del_part", "c_del_info"} =>
         i[h] \in 1..Len(req[h].parts) /\ i[h] \in Part
  BY <1>3, FsMultipartAssumption DEF Assembling, Saving, Cleaning, Part
<1>5. QED
  BY <1>1, <1>2, <1>3, <1>4 DEF Here, Doing

\* Removing a file leaves the others.
LEMMA RemoveOne ==
    ASSUME NEW f \in [Upload -> [Part -> Opt(Payload)]], NEW u \in Upload, NEW n \in Part
    PROVE  [f EXCEPT ![u] = [@ EXCEPT ![n] = Absent]] \in [Upload -> [Part -> Opt(Payload)]]
BY DEF Opt

\* The bound on faults is kept.
LEMMA FaultBound == ASSUME faults \in 0..MaxFaults, Fault PROVE faults' \in 0..MaxFaults
BY FsMultipartAssumption DEF Fault

\* What a handler does keeps the types of the variables ...
LEMMA ProgressTypeOK == ASSUME Types, NEW h \in Handler, Progress(h) PROVE TypeOK'
<1>0. TypeOK /\ Here(h)
  BY AtHand DEF Types
<1> USE <1>0 DEF TypeOK, Here, Opt, InFlight, Goto, disk, local, hist, Creating, Uploading, Assembling, Saving, Cleaning, Aborting
<1>1. CASE Respond(h)
  <2>1. 1 \in Part \cup {MaxPart + 1} /\ <<>> \in Bytes
    BY FsMultipartAssumption DEF Part, Bytes
  <2>2. QED
    BY <1>1, <2>1 DEF Respond, Reset
<1>2. CASE CreateUploadId(h)
  BY <1>2 DEF CreateUploadId
<1>3. CASE SaveUploadAttrs(h)
  BY <1>3 DEF SaveUploadAttrs
<1>4. CASE VerifyUploadId(h)
  <2>1. AfterVerify(req[h].op) \in InFlight
    BY <1>4 DEF VerifyUploadId, AfterVerify
  <2>2. pc' \in [Handler -> {"idle", "ok", "err"} \cup InFlight]
    BY <1>4, <2>1 DEF VerifyUploadId
  <2>3. aborted' \subseteq Upload
    BY <1>4 DEF VerifyUploadId
  <2>4. QED
    BY <1>4, <2>2, <2>3 DEF VerifyUploadId
<1>5. CASE ReceiveBody(h)
  BY <1>5 DEF ReceiveBody
<1>6. CASE RenamePart(h)
  BY <1>6 DEF RenamePart
<1>7. CASE SavePartInfo(h)
  BY <1>7 DEF SavePartInfo
<1>8. CASE LoadUploadAttrs(h)
  BY <1>8 DEF LoadUploadAttrs
<1>9. CASE CheckConditions(h)
  BY <1>9 DEF CheckConditions
<1>10. CASE LoadPartInfo(h)
  BY <1>10 DEF LoadPartInfo
<1>11. CASE ReadPart(h)
  <2>1. i[h] + 1 \in Part \cup {MaxPart + 1}
    BY <1>11, FsMultipartAssumption DEF ReadPart, Part
  <2>2. i' \in [Handler -> Part \cup {MaxPart + 1}]
    <3>1. i' = i \/ i' = [i EXCEPT ![h] = i[h] + 1]
      BY <1>11 DEF ReadPart
    <3>2. QED
      BY <2>1, <3>1
  <2>3. part[req[h].u][i[h]] # Absent => Append(acc[h], part[req[h].u][i[h]]) \in Bytes
    BY <1>11 DEF ReadPart, Bytes
  <2>4. acc' \in [Handler -> Bytes]
    BY <1>11, <2>3 DEF ReadPart
  <2>5. pc' \in [Handler -> {"idle", "ok", "err"} \cup InFlight]
    BY <1>11 DEF ReadPart
  <2>6. QED
    BY <1>11, <2>2, <2>4, <2>5 DEF ReadPart
<1>12. CASE CommitObject(h)
  <2>1. obj' \in Opt(Bytes) /\ origin' \in Opt(Request)
    BY <1>12 DEF CommitObject
  <2>2. pc' \in [Handler -> {"idle", "ok", "err"} \cup InFlight]
    <3>1. \E x \in {"c_save_attrs", "c_save_info", "err"} : pc' = [pc EXCEPT ![h] = x]
      BY <1>12 DEF CommitObject
    <3>2. QED
      BY <3>1
  <2>3. QED
    BY <1>12, <2>1, <2>2 DEF CommitObject
<1>13. CASE SaveObjectAttrs(h)
  BY <1>13 DEF SaveObjectAttrs
<1>14. CASE SaveObjectInfo(h)
  BY <1>14, FsMultipartAssumption DEF SaveObjectInfo, Part
<1>15. CASE DeleteUploadAttrs(h)
  <2>1. UNCHANGED <<failed, faults>> \/ (Fault /\ failed' = [failed EXCEPT ![h] = TRUE])
    BY <1>15 DEF DeleteUploadAttrs, Removal
  <2>2. faults' \in 0..MaxFaults /\ failed' \in [Handler -> BOOLEAN]
    BY <2>1, FaultBound
  <2>3. QED
    BY <1>15, <2>2 DEF DeleteUploadAttrs, Removal
<1>16. CASE RemovePart(h)
  <2>1. UNCHANGED <<failed, faults>> \/ (Fault /\ failed' = [failed EXCEPT ![h] = TRUE])
    BY <1>16 DEF RemovePart, Removal
  <2>2. faults' \in 0..MaxFaults /\ failed' \in [Handler -> BOOLEAN]
    BY <2>1, FaultBound
  <2>3. part' \in [Upload -> [Part -> Opt(Payload)]] /\ UNCHANGED <<upload, upAttrs, partInfo, obj, objAttrs, objInfo>>
    <3>1. part' = part \/ part' = [part EXCEPT ![req[h].u] = [@ EXCEPT ![i[h]] = Absent]]
      BY <1>16 DEF RemovePart, Removal
    <3>2. req[h].u \in Upload /\ i[h] \in Part
      BY <1>16 DEF RemovePart
    <3>3. part \in [Upload -> [Part -> Opt(Payload)]]
      OBVIOUS
    <3>4. [part EXCEPT ![req[h].u] = [@ EXCEPT ![i[h]] = Absent]] \in [Upload -> [Part -> Opt(Payload)]]
      BY ONLY <3>2, <3>3, RemoveOne
    <3>5. part' \in [Upload -> [Part -> Opt(Payload)]]
      BY ONLY <3>1, <3>3, <3>4
    <3>6. QED
      BY <1>16, <3>5 DEF RemovePart, Removal
  <2>4. QED
    BY <1>16, <2>2, <2>3 DEF RemovePart
<1>17. CASE RemovePartInfo(h)
  <2>1. UNCHANGED <<failed, faults>> \/ (Fault /\ failed' = [failed EXCEPT ![h] = TRUE])
    BY <1>17 DEF RemovePartInfo, Removal
  <2>2. faults' \in 0..MaxFaults /\ failed' \in [Handler -> BOOLEAN]
    BY <2>1, FaultBound
  <2>3. partInfo' \in [Upload -> [Part -> Opt(Payload)]] /\ UNCHANGED <<upload, upAttrs, part, obj, objAttrs, objInfo>>
    <3>1. partInfo' = partInfo \/ partInfo' = [partInfo EXCEPT ![req[h].u] = [@ EXCEPT ![i[h]] = Absent]]
      BY <1>17 DEF RemovePartInfo, Removal
    <3>2. req[h].u \in Upload /\ i[h] \in Part
      BY <1>17 DEF RemovePartInfo
    <3>3. partInfo \in [Upload -> [Part -> Opt(Payload)]]
      OBVIOUS
    <3>4. [partInfo EXCEPT ![req[h].u] = [@ EXCEPT ![i[h]] = Absent]] \in [Upload -> [Part -> Opt(Payload)]]
      BY ONLY <3>2, <3>3, RemoveOne
    <3>5. partInfo' \in [Upload -> [Part -> Opt(Payload)]]
      BY ONLY <3>1, <3>3, <3>4
    <3>6. QED
      BY <1>17, <3>5 DEF RemovePartInfo, Removal
  <2>4. i[h] + 1 \in Part \cup {MaxPart + 1}
    BY <1>17, FsMultipartAssumption DEF RemovePartInfo, Part
  <2>5. i' \in [Handler -> Part \cup {MaxPart + 1}]
    BY <1>17, <2>4 DEF RemovePartInfo
  <2>6. QED
    BY <1>17, <2>2, <2>3, <2>5 DEF RemovePartInfo
<1>18. CASE RetireUpload(h)
  <2>1. UNCHANGED <<failed, faults>> \/ (Fault /\ failed' = [failed EXCEPT ![h] = TRUE])
    BY <1>18 DEF RetireUpload, Removal
  <2>2. faults' \in 0..MaxFaults /\ failed' \in [Handler -> BOOLEAN]
    BY <2>1, FaultBound
  <2>3. QED
    BY <1>18, <2>2 DEF RetireUpload, Removal
<1>19. CASE AbortDeleteAttrs(h)
  BY <1>19 DEF AbortDeleteAttrs
<1>20. CASE AbortScan(h)
  BY <1>20 DEF AbortScan, Present
<1>21. CASE AbortScanned(h)
  BY <1>21 DEF AbortScanned
<1>22. CASE AbortDeleteId(h)
  BY <1>22 DEF AbortDeleteId
<1>23. ASSUME NEW e \in Entry, AbortRemove(h, e) PROVE TypeOK'
  BY <1>23 DEF AbortRemove, RemoveEntry, Entry
<1>24. QED
  BY <1>1, <1>2, <1>3, <1>4, <1>5, <1>6, <1>7, <1>8, <1>9, <1>10, <1>11, <1>12, <1>13, <1>14, <1>15, <1>16, <1>17, <1>18, <1>19, <1>20, <1>21, <1>22, <1>23 DEF Progress

\* ... and where handlers are.
LEMMA ProgressPlaces == ASSUME Types, NEW h \in Handler, Progress(h) PROVE Doing' /\ Position'
<1>0. TypeOK /\ Here(h)
  BY AtHand DEF Types
<1> USE <1>0 DEF Types, TypeOK, Doing, Position, PositionOf, Here, IsUpload, Goto, disk, local, hist, Creating, Uploading, Assembling, Saving, Cleaning, Aborting
<1>1. CASE Respond(h)
  BY <1>1 DEF Respond, Reset
<1>2. CASE CreateUploadId(h)
  BY <1>2 DEF CreateUploadId
<1>3. CASE SaveUploadAttrs(h)
  BY <1>3 DEF SaveUploadAttrs
<1>4. CASE VerifyUploadId(h)
  BY <1>4 DEF VerifyUploadId, AfterVerify, IsUpload
<1>5. CASE ReceiveBody(h)
  BY <1>5 DEF ReceiveBody
<1>6. CASE RenamePart(h)
  BY <1>6 DEF RenamePart
<1>7. CASE SavePartInfo(h)
  BY <1>7 DEF SavePartInfo
<1>8. CASE LoadUploadAttrs(h)
  BY <1>8 DEF LoadUploadAttrs
<1>9. CASE CheckConditions(h)
  BY <1>9 DEF CheckConditions
<1>10. CASE LoadPartInfo(h)
  BY <1>10 DEF LoadPartInfo
<1>11. CASE ReadPart(h)
  <2>1. Doing'
    BY <1>11 DEF ReadPart
  <2>2. CASE pc'[h] = "err"
    BY <1>11, <2>2 DEF ReadPart
  <2>3. CASE pc'[h] # "err"
    <3>1. Len(acc'[h]) = i[h] /\ i'[h] = i[h] + 1
      BY <1>11, <2>3 DEF ReadPart, Bytes
    <3>2. IF i[h] = Len(req[h].parts) THEN pc'[h] = "c_done" ELSE pc'[h] = "c_info"
      BY <1>11, <2>3 DEF ReadPart
    <3>3. i'[h] - 1 = i[h] /\ (i[h] # Len(req[h].parts) => i'[h] <= Len(req[h].parts))
      BY <1>11, <3>1 DEF ReadPart, Part
    <3>4. \A g \in Handler \ {h} : pc'[g] = pc[g] /\ i'[g] = i[g] /\ acc'[g] = acc[g]
      BY <1>11 DEF ReadPart
    <3>5. req' = req
      BY <1>11 DEF ReadPart
    <3>6. ASSUME NEW g \in Handler PROVE PositionOf(g)'
      <4>1. CASE g = h
        BY <3>1, <3>2, <3>3, <3>5, <4>1
      <4>2. CASE g # h
        BY <3>4, <3>5, <4>2
      <4>3. QED
        BY <4>1, <4>2
    <3>7. QED
      BY <2>1, <3>6
  <2>4. QED
    BY <2>1, <2>2, <2>3
<1>12. CASE CommitObject(h)
  BY <1>12 DEF CommitObject
<1>13. CASE SaveObjectAttrs(h)
  BY <1>13 DEF SaveObjectAttrs
<1>14. CASE SaveObjectInfo(h)
  BY <1>14 DEF SaveObjectInfo
<1>15. CASE DeleteUploadAttrs(h)
  BY <1>15 DEF DeleteUploadAttrs, Removal
<1>16. CASE RemovePart(h)
  BY <1>16 DEF RemovePart, Removal
<1>17. CASE RemovePartInfo(h)
  BY <1>17 DEF RemovePartInfo, Removal
<1>18. CASE RetireUpload(h)
  BY <1>18 DEF RetireUpload, Removal
<1>19. CASE AbortDeleteAttrs(h)
  BY <1>19 DEF AbortDeleteAttrs
<1>20. CASE AbortScan(h)
  BY <1>20 DEF AbortScan, Present
<1>21. CASE AbortScanned(h)
  BY <1>21 DEF AbortScanned
<1>22. CASE AbortDeleteId(h)
  BY <1>22 DEF AbortDeleteId
<1>23. ASSUME NEW e \in Entry, AbortRemove(h, e) PROVE Doing' /\ Position'
  BY <1>23 DEF AbortRemove
<1>24. QED
  BY <1>1, <1>2, <1>3, <1>4, <1>5, <1>6, <1>7, <1>8, <1>9, <1>10, <1>11, <1>12, <1>13, <1>14, <1>15, <1>16, <1>17, <1>18, <1>19, <1>20, <1>21, <1>22, <1>23 DEF Progress

\* A request that begins is one of the clients'.
LEMMA BeginTypes == ASSUME Types, NEW h \in Handler, NEW r \in Request, Begin(h, r) PROVE Types'
<1> USE DEF Types, TypeOK, Opt, Goto, InFlight, disk, local, Creating, Uploading, Assembling, Saving, Cleaning, Aborting
<1>0. r.u \in Upload /\ r.cred \in Cred
  BY Requests
<1>1. TypeOK'
  BY <1>0 DEF Begin
<1>2. Doing' /\ Position'
  BY DEF Begin, Doing, Position, PositionOf
<1>3. QED
  BY <1>1, <1>2

\* What the blocking pool removes later is gone, and nothing else.
LEMMA PoolStep ==
    ASSUME Types, NEW u \in Upload, NEW f \in File, PoolRemove(u, f)
    PROVE  /\ \A v \in Upload : upload'[v] = upload[v] \/ (upload'[v] = Absent /\ v = u /\ f = Id)
           /\ \A v \in Upload, n \in Part :
                /\ part'[v][n] = part[v][n] \/ (part'[v][n] = Absent /\ v = u)
                /\ partInfo'[v][n] \in {partInfo[v][n], Absent}
           /\ UNCHANGED <<upAttrs, obj, objAttrs, objInfo, pc, req, local, hist>>
           /\ <<u, f>> \in pool /\ pool' \subseteq pool
           /\ TypeOK'
<1> USE DEF PoolRemove, RemoveEntry, Types, TypeOK
<1>1. /\ upload' = upload \/ (upload' = [upload EXCEPT ![u] = Absent] /\ f = Id)
      /\ part' = part \/ (part' = [part EXCEPT ![u] = [@ EXCEPT ![f[2]] = Absent]] /\ f # Id)
      /\ partInfo' = partInfo \/ (partInfo' = [partInfo EXCEPT ![u] = [@ EXCEPT ![f[2]] = Absent]] /\ f # Id)
  BY DEF Id
<1>2. f # Id => f[2] \in Part
  BY DEF File, Entry
<1>3. \A v \in Upload : upload'[v] = upload[v] \/ (upload'[v] = Absent /\ v = u /\ f = Id)
  BY <1>1
<1>4. \A v \in Upload, n \in Part : part'[v][n] = part[v][n] \/ (part'[v][n] = Absent /\ v = u)
  BY <1>1, <1>2
<1>5. \A v \in Upload, n \in Part : partInfo'[v][n] \in {partInfo[v][n], Absent}
  <2>1. CASE partInfo' = partInfo
    BY <2>1
  <2>2. CASE partInfo' = [partInfo EXCEPT ![u] = [@ EXCEPT ![f[2]] = Absent]] /\ f # Id
    BY <1>2, <2>2
  <2>3. QED
    BY <1>1, <2>1, <2>2
<1>6. /\ UNCHANGED <<upAttrs, obj, objAttrs, objInfo, pc, req, local, hist>>
      /\ <<u, f>> \in pool /\ pool' \subseteq pool
  OBVIOUS
<1>7. TypeOK'
  <2>1. upload' \in [Upload -> Opt(Cred)]
    BY <1>1 DEF Opt
  <2>2. part' \in [Upload -> [Part -> Opt(Payload)]]
    <3>1. part \in [Upload -> [Part -> Opt(Payload)]]
      OBVIOUS
    <3>2. f # Id => [part EXCEPT ![u] = [@ EXCEPT ![f[2]] = Absent]] \in [Upload -> [Part -> Opt(Payload)]]
      BY ONLY <1>2, <3>1, RemoveOne, u \in Upload
    <3>3. QED
      BY ONLY <1>1, <3>1, <3>2
  <2>3. partInfo' \in [Upload -> [Part -> Opt(Payload)]]
    <3>1. partInfo \in [Upload -> [Part -> Opt(Payload)]]
      OBVIOUS
    <3>2. f # Id => [partInfo EXCEPT ![u] = [@ EXCEPT ![f[2]] = Absent]] \in [Upload -> [Part -> Opt(Payload)]]
      BY ONLY <1>2, <3>1, RemoveOne, u \in Upload
    <3>3. QED
      BY ONLY <1>1, <3>1, <3>2
  <2>4. faults' \in 0..MaxFaults
    BY FaultBound
  <2>5. QED
    BY <1>6, <2>1, <2>2, <2>3, <2>4 DEF local, hist
<1>8. QED
  BY <1>3, <1>4, <1>5, <1>6, <1>7

\* It keeps the types.
LEMMA PoolTypes ==
    ASSUME Types, NEW u \in Upload, NEW f \in File, PoolRemove(u, f) PROVE Types'
<1>1. TypeOK' /\ UNCHANGED <<pc, req, i, acc>>
  BY PoolStep DEF local
<1>2. QED
  BY <1>1 DEF Types, Doing, Position, PositionOf

\* Failures, cancellations and crashes keep the types.
LEMMA FaultTypes ==
    ASSUME Types, (\E h \in Handler : Fail(h) \/ Cancel(h)) \/ Crash
    PROVE  Types'
<1> USE DEF Types, TypeOK, Opt, Goto, InFlight, disk, local, hist, Creating, Uploading, Assembling, Saving, Cleaning, Aborting
<1>0. faults' \in 0..MaxFaults /\ 1 \in Part \cup {MaxPart + 1} /\ <<>> \in Bytes
  BY FaultBound, FsMultipartAssumption DEF Fail, Cancel, Crash, Part, Bytes
<1>1. ASSUME NEW h \in Handler, Fail(h) PROVE Types'
  BY <1>0, <1>1 DEF Fail, Doing, Position, PositionOf
<1>2. ASSUME NEW h \in Handler, Cancel(h) PROVE Types'
  <2>0. pool' \subseteq Upload \X File
    <3>1. ASSUME NEW f \in Removing(h) PROVE <<req[h].u, f>> \in Upload \X File
      <4>1. pc[h] # "idle" /\ Here(h)
        BY <1>2, AtHand DEF Cancel
      <4>2. QED
        BY <3>1, <4>1 DEF Removing, Here
    <3>2. QED
      BY <1>2, <3>1 DEF Cancel
  <2>1. TypeOK'
    BY <1>0, <1>2, <2>0 DEF Cancel, Reset
  <2>2. Doing' /\ Position'
    BY <1>2 DEF Cancel, Reset, Doing, Position, PositionOf
  <2>3. QED
    BY <2>1, <2>2
<1>3. CASE Crash
  BY <1>0, <1>3 DEF Crash, Doing, Position, PositionOf
<1>4. QED
  BY <1>1, <1>2, <1>3

\* Every step keeps the types.
LEMMA NextTypes == ASSUME Types, [Next]_vars PROVE Types'
<1>1. CASE UNCHANGED vars
  BY <1>1 DEF vars, Types, TypeOK, Doing, Position, PositionOf, Present, disk, local, hist
<1>2. QED
  BY <1>1, BeginTypes, ProgressTypeOK, ProgressPlaces, FaultTypes, PoolTypes DEF Next, Types

-----------------------------------------------------------------------------
\* Past verify_upload_id a handler works for the access key that created the upload.
Owned ==
    /\ \A u \in Upload : upload[u] # Absent => upload[u] = owner[u]
    /\ \A h \in Handler : pc[h] \in InFlight \ {"verify"} => req[h].cred = owner[req[h].u]
    /\ obj # Absent => origin \in Request

\* Every part file, and every part read from one, is a payload that its owner uploaded.
PartsStored ==
    \A u \in Upload, n \in Part :
        part[u][n] # Absent => <<u, n, part[u][n], owner[u]>> \in stored
ReadStored ==
    \A h \in Handler : pc[h] \in {"c_info", "c_read", "c_done"} \cup Saving =>
        \A k \in 1..Len(acc[h]) : <<req[h].u, k, acc[h][k], req[h].cred>> \in stored

\* Files are removed only after the commit or by an abort.
RemovalsAllowed ==
    \A h \in Handler : /\ pc[h] \in Cleaning => req[h].u \in committed
                       /\ pc[h] \in Aborting \ {"verify"} => req[h].u \in aborted

\* So is what a dropped handler left to the blocking pool.
PoolAllowed == \A u \in Upload, f \in File : <<u, f>> \in pool => u \in committed \cup aborted

DataInv == Owned /\ PartsStored /\ ReadStored /\ RemovalsAllowed /\ PoolAllowed
           /\ ObjectFromOwnUpload /\ ObjectHasAskedDigest /\ PartsSurviveUntilCommit

\* A handler that runs leaves the pool alone and undoes no commit and no abort.
LEMMA PoolKept ==
    ASSUME NEW h \in Handler, Progress(h)
    PROVE  pool' = pool /\ committed \subseteq committed' /\ aborted \subseteq aborted'
BY DEF Progress, hist, Respond, CreateUploadId, SaveUploadAttrs, VerifyUploadId, ReceiveBody, RenamePart, SavePartInfo,
   LoadUploadAttrs, CheckConditions, LoadPartInfo, ReadPart, CommitObject, SaveObjectAttrs, SaveObjectInfo,
   DeleteUploadAttrs, RemovePart, RemovePartInfo, RetireUpload, AbortDeleteAttrs, AbortScan, AbortRemove, AbortScanned, AbortDeleteId

\* What a handler does keeps it.
LEMMA ProgressData == ASSUME Types, DataInv, NEW h \in Handler, Progress(h) PROVE DataInv'
<1>0. TypeOK /\ Here(h) /\ PoolAllowed'
  BY AtHand, PoolKept DEF Types, DataInv, PoolAllowed
<1> USE <1>0, FsMultipartAssumption DEF DataInv, Owned, PartsStored, ReadStored, RemovalsAllowed, ObjectFromOwnUpload, ObjectHasAskedDigest,
        PartsSurviveUntilCommit, TypeOK, Here, Opt, InFlight, Goto, disk, local, hist, Creating, Uploading, Assembling, Saving, Cleaning, Aborting
<1>1. CASE Respond(h)
  BY <1>1 DEF Respond, Reset
<1>2. CASE CreateUploadId(h)
  BY <1>2 DEF CreateUploadId
<1>3. CASE SaveUploadAttrs(h)
  BY <1>3 DEF SaveUploadAttrs
<1>4. CASE VerifyUploadId(h)
  BY <1>4 DEF VerifyUploadId, AfterVerify, IsUpload
<1>5. CASE ReceiveBody(h)
  BY <1>5 DEF ReceiveBody
<1>6. CASE RenamePart(h)
  <2>1. Owned' /\ RemovalsAllowed' /\ ObjectHasAskedDigest'
    BY <1>6 DEF RenamePart
  <2>2. stored \subseteq stored' /\ UNCHANGED <<acc, req, owner, obj, origin, committed, aborted>>
    BY <1>6 DEF RenamePart
  <2>3. ReadStored' /\ ObjectFromOwnUpload'
    BY <1>6, <2>2 DEF RenamePart
  <2>4. PartsStored'
    BY <1>6 DEF RenamePart
  <2>5. PartsSurviveUntilCommit'
    BY <1>6 DEF RenamePart
  <2>6. QED
    BY <2>1, <2>3, <2>4, <2>5
<1>7. CASE SavePartInfo(h)
  BY <1>7 DEF SavePartInfo
<1>8. CASE LoadUploadAttrs(h)
  BY <1>8 DEF LoadUploadAttrs
<1>9. CASE CheckConditions(h)
  <2>1. acc[h] = <<>>
    BY <1>9 DEF CheckConditions, Types, Position, PositionOf
  <2>2. QED
    BY <1>9, <2>1 DEF CheckConditions
<1>10. CASE LoadPartInfo(h)
  BY <1>10 DEF LoadPartInfo
<1>11. CASE ReadPart(h)
  <2>1. Len(acc[h]) = i[h] - 1
    BY <1>11 DEF ReadPart, Types, Position, PositionOf
  <2>2. ReadStored'
    <3>1. CASE pc'[h] = "err"
      BY <1>11, <3>1 DEF ReadPart
    <3>2. CASE pc'[h] # "err"
      <4> DEFINE b == part[req[h].u][i[h]]
      <4>1. acc'[h] = Append(acc[h], b) /\ b # Absent
        BY <1>11, <3>2 DEF ReadPart
      <4>2. <<req[h].u, i[h], b, req[h].cred>> \in stored
        BY <1>11, <4>1 DEF ReadPart
      <4>3. Len(acc'[h]) = i[h] /\ acc'[h][i[h]] = b /\ \A k \in 1..Len(acc[h]) : acc'[h][k] = acc[h][k]
        BY <1>11, <2>1, <4>1 DEF ReadPart, Part, Bytes
      <4>4. \A k \in 1..Len(acc'[h]) : <<req[h].u, k, acc'[h][k], req[h].cred>> \in stored
        <5> HIDE DEF b
        <5> SUFFICES ASSUME NEW k \in 1..Len(acc'[h])
                     PROVE  <<req[h].u, k, acc'[h][k], req[h].cred>> \in stored
          OBVIOUS
        <5>1. CASE k = i[h]
          BY <4>2, <4>3, <5>1
        <5>2. CASE k # i[h]
          <6>1. k \in 1..Len(acc[h])
            BY <1>11, <2>1, <4>3, <5>2 DEF ReadPart, Part
          <6>2. QED
            BY <1>11, <4>3, <6>1 DEF ReadPart
        <5>3. QED
          BY <5>1, <5>2
      <4>5. \A g \in Handler \ {h} : pc'[g] = pc[g] /\ acc'[g] = acc[g]
        BY <1>11 DEF ReadPart
      <4>6. QED
        BY <1>11, <4>4, <4>5 DEF ReadPart
    <3>3. QED
      BY <3>1, <3>2
  <2>3. PartsStored' /\ ObjectFromOwnUpload' /\ ObjectHasAskedDigest' /\ PartsSurviveUntilCommit'
    BY <1>11 DEF ReadPart
  <2>4. \E x \in {"err", "c_done", "c_info"} : pc' = [pc EXCEPT ![h] = x]
    BY <1>11 DEF ReadPart
  <2>5. Owned' /\ RemovalsAllowed'
    BY <1>11, <2>4 DEF ReadPart
  <2>6. QED
    BY <2>2, <2>3, <2>5
<1>12. CASE CommitObject(h)
  <2>1. Len(acc[h]) = Len(req[h].parts)
    BY <1>12 DEF CommitObject, Types, Position, PositionOf
  <2>2. ObjectFromOwnUpload'
    BY <1>12, <2>1 DEF CommitObject
  <2>3. PartsStored' /\ ObjectHasAskedDigest' /\ PartsSurviveUntilCommit'
    BY <1>12 DEF CommitObject
  <2>4. \E x \in {"err", "c_save_attrs", "c_save_info"} : pc' = [pc EXCEPT ![h] = x]
    BY <1>12 DEF CommitObject
  <2>5. Owned' /\ RemovalsAllowed'
    BY <1>12, <2>4 DEF CommitObject
  <2>6. ReadStored'
    BY <1>12 DEF CommitObject
  <2>7. QED
    BY <2>2, <2>3, <2>5, <2>6
<1>13. CASE SaveObjectAttrs(h)
  BY <1>13 DEF SaveObjectAttrs
<1>14. CASE SaveObjectInfo(h)
  BY <1>14 DEF SaveObjectInfo
<1>15. CASE DeleteUploadAttrs(h)
  BY <1>15 DEF DeleteUploadAttrs, Removal
<1>16. CASE RemovePart(h)
  <2>1. part' = part \/ part' = [part EXCEPT ![req[h].u] = [@ EXCEPT ![i[h]] = Absent]]
    BY <1>16 DEF RemovePart, Removal
  <2>2. \A u \in Upload, n \in Part : part'[u][n] = part[u][n] \/ (part'[u][n] = Absent /\ u = req[h].u)
    <3>1. part \in [Upload -> [Part -> Opt(Payload)]]
      OBVIOUS
    <3>2. QED
      BY ONLY <2>1, <3>1
  <2>6. req[h].u \in committed /\ UNCHANGED <<stored, owner, committed, aborted>>
    BY <1>16 DEF RemovePart
  <2>7. \A x \in stored : x[1] \in Upload /\ x[2] \in Part
    OBVIOUS
  <2>3. PartsStored' /\ PartsSurviveUntilCommit'
    BY ONLY <2>2, <2>6, <2>7, PartsStored, PartsSurviveUntilCommit DEF PartsStored, PartsSurviveUntilCommit
  <2>4. Owned' /\ ReadStored' /\ RemovalsAllowed' /\ ObjectFromOwnUpload' /\ ObjectHasAskedDigest'
    BY <1>16 DEF RemovePart, Removal
  <2>5. QED
    BY <2>3, <2>4
<1>17. CASE RemovePartInfo(h)
  BY <1>17 DEF RemovePartInfo, Removal
<1>18. CASE RetireUpload(h)
  BY <1>18 DEF RetireUpload, Removal
<1>19. CASE AbortDeleteAttrs(h)
  BY <1>19 DEF AbortDeleteAttrs
<1>20. CASE AbortScan(h)
  BY <1>20 DEF AbortScan
<1>21. CASE AbortScanned(h)
  BY <1>21 DEF AbortScanned
<1>22. CASE AbortDeleteId(h)
  BY <1>22 DEF AbortDeleteId
<1>23. ASSUME NEW e \in Entry, AbortRemove(h, e) PROVE DataInv'
  BY <1>23 DEF AbortRemove, RemoveEntry, Entry
<1>24. QED
  BY <1>1, <1>2, <1>3, <1>4, <1>5, <1>6, <1>7, <1>8, <1>9, <1>10, <1>11, <1>12, <1>13, <1>14, <1>15, <1>16, <1>17, <1>18, <1>19, <1>20, <1>21, <1>22, <1>23 DEF Progress

\* A UUID is drawn once, so a new request takes nothing from an owner.
LEMMA BeginData ==
    ASSUME Types, DataInv, NEW h \in Handler, NEW r \in Request, Begin(h, r) PROVE DataInv'
<1>0. r.u \in Upload /\ r.cred # Absent /\ \A x \in Request : x.cred # Absent
  BY Requests
<1> USE <1>0, FsMultipartAssumption
    DEF Types, TypeOK, DataInv, Opt, Goto, InFlight, disk, local, Creating, Uploading, Assembling, Saving, Cleaning, Aborting
<1>1. \A u \in Upload : owner[u] # Absent => owner'[u] = owner[u]
  BY DEF Begin
<1>2. Owned'
  BY <1>1, Requests DEF Begin, Owned, Doing
<1>3. PartsStored'
  <2>1. \A u \in Upload, n \in Part : part[u][n] # Absent => owner[u] # Absent
    <3> SUFFICES ASSUME NEW u \in Upload, NEW n \in Part, part[u][n] # Absent PROVE owner[u] # Absent
      OBVIOUS
    <3>1. <<u, n, part[u][n], owner[u]>> \in stored
      BY DEF PartsStored
    <3>2. stored \subseteq Upload \X Part \X Payload \X Cred
      OBVIOUS
    <3>3. <<u, n, part[u][n], owner[u]>> \in Upload \X Part \X Payload \X Cred
      BY ONLY <3>1, <3>2
    <3>4. owner[u] \in Cred
      BY ONLY <3>3
    <3>5. QED
      BY <3>4
  <2>2. UNCHANGED <<part, stored>>
    BY DEF Begin
  <2>3. QED
    BY ONLY <1>1, <2>1, <2>2, PartsStored DEF PartsStored
<1>7. ReadStored'
  <2>1. UNCHANGED <<acc, stored>> /\ \A g \in Handler : g # h => pc'[g] = pc[g] /\ req'[g] = req[g]
    BY DEF Begin
  <2>2. pc'[h] \in {"new_id", "verify"}
    BY DEF Begin
  <2>3. QED
    BY <2>1, <2>2 DEF ReadStored
<1>4. RemovalsAllowed' /\ PoolAllowed' /\ ObjectHasAskedDigest' /\ PartsSurviveUntilCommit'
  BY DEF Begin, RemovalsAllowed, PoolAllowed, ObjectHasAskedDigest, PartsSurviveUntilCommit
<1>5. ObjectFromOwnUpload'
  BY <1>1, Requests DEF Begin, Owned, ObjectFromOwnUpload
<1>6. QED
  BY <1>2, <1>3, <1>4, <1>5, <1>7

\* Failures, cancellations and crashes leave the disk and the history alone.
LEMMA FaultData ==
    ASSUME Types, DataInv, (\E h \in Handler : Fail(h) \/ Cancel(h)) \/ Crash
    PROVE  DataInv'
<1>1. UNCHANGED <<disk, hist>>
  BY DEF Fail, Cancel, Crash
<1>2. \A h \in Handler : pc'[h] \in {"idle", "err"} \/ (pc'[h] = pc[h] /\ req'[h] = req[h] /\ acc'[h] = acc[h])
  BY DEF Types, TypeOK, Fail, Cancel, Crash, Reset, Goto, local
<1>4. PoolAllowed'
  <2>1. ASSUME NEW h \in Handler, Cancel(h) PROVE PoolAllowed'
    <3>1. ASSUME NEW f \in Removing(h) PROVE req[h].u \in committed \cup aborted
      <4>1. pc[h] \in Cleaning \cup (Aborting \ {"verify"})
        BY <3>1 DEF Removing, Cleaning, Aborting
      <4>2. QED
        BY <4>1 DEF DataInv, RemovalsAllowed
    <3>2. UNCHANGED <<committed, aborted>>
      BY <1>1 DEF hist
    <3>3. QED
      BY <2>1, <3>1, <3>2 DEF Cancel, DataInv, PoolAllowed
  <2>2. ASSUME (\E h \in Handler : Fail(h)) \/ Crash PROVE PoolAllowed'
    BY <1>1, <2>2 DEF Fail, Crash, DataInv, PoolAllowed, hist
  <2>3. QED
    BY <2>1, <2>2
<1>3. QED
  BY <1>1, <1>2, <1>4 DEF DataInv, Owned, PartsStored, ReadStored, RemovalsAllowed, ObjectFromOwnUpload,
     ObjectHasAskedDigest, PartsSurviveUntilCommit, disk, hist, InFlight, Creating, Uploading, Assembling, Saving, Cleaning, Aborting

\* A removal by the pool takes a part only from an upload that is committed or aborted.
LEMMA PoolData ==
    ASSUME Types, DataInv, NEW u \in Upload, NEW f \in File, PoolRemove(u, f) PROVE DataInv'
<1>1. /\ \A v \in Upload : upload'[v] = upload[v] \/ upload'[v] = Absent
      /\ \A v \in Upload, n \in Part : part'[v][n] = part[v][n] \/ (part'[v][n] = Absent /\ v = u)
      /\ UNCHANGED <<obj, pc, req, acc, owner, stored, committed, aborted, origin>>
      /\ <<u, f>> \in pool /\ pool' \subseteq pool
  BY PoolStep DEF local, hist
<1>2. u \in committed \cup aborted
  BY <1>1 DEF DataInv, PoolAllowed
<1>3. Owned' /\ ReadStored' /\ RemovalsAllowed' /\ PoolAllowed' /\ ObjectFromOwnUpload' /\ ObjectHasAskedDigest'
  BY <1>1 DEF DataInv, Owned, ReadStored, RemovalsAllowed, PoolAllowed, ObjectFromOwnUpload, ObjectHasAskedDigest
<1>4. PartsStored'
  BY <1>1 DEF DataInv, PartsStored
<1>5. PartsSurviveUntilCommit'
  <2>1. \A x \in stored : x[1] \in Upload /\ x[2] \in Part
    BY DEF Types, TypeOK
  <2>2. QED
    BY <1>1, <1>2, <2>1 DEF DataInv, PartsSurviveUntilCommit
<1>6. QED
  BY <1>3, <1>4, <1>5 DEF DataInv

\* Every step keeps it.
LEMMA NextData == ASSUME Types, DataInv, [Next]_vars PROVE DataInv'
<1>1. CASE UNCHANGED vars
  BY <1>1 DEF vars, disk, local, hist, DataInv, Owned, PartsStored, ReadStored, RemovalsAllowed, PoolAllowed,
     ObjectFromOwnUpload, ObjectHasAskedDigest, PartsSurviveUntilCommit
<1>2. QED
  BY <1>1, BeginData, ProgressData, FaultData, PoolData DEF Next

\* All of it holds of every behaviour.
LEMMA DataInvariant == Spec => [](Types /\ DataInv)
<1>1. Init => DataInv
  BY DEF Init, DataInv, Owned, PartsStored, ReadStored, RemovalsAllowed, PoolAllowed, ObjectFromOwnUpload,
     ObjectHasAskedDigest, PartsSurviveUntilCommit, InFlight, Creating, Uploading, Assembling, Saving, Cleaning, Aborting
<1>2. QED
  BY <1>1, InitTypes, NextTypes, NextData, PTL DEF Spec

\* An object is made of parts 1, 2, ... that the owner of one upload stored in it, and was
\* completed by that owner (verify_upload_id, complete_multipart_upload): with any number of
\* handlers, uploads and access keys.
THEOREM ObjectFromOwnUploadHolds == Spec => []ObjectFromOwnUpload
BY DataInvariant, PTL DEF DataInv

\* An object completed with a full-object checksum has the bytes it was computed from,
\* whatever was uploaded meanwhile (complete_multipart_upload).
THEOREM ObjectHasAskedDigestHolds == Spec => []ObjectHasAskedDigest
BY DataInvariant, PTL DEF DataInv

\* No stored part is lost before the object is saved or an abort was let in, whatever fails
\* or crashes (complete_multipart_upload, abort_multipart_upload).
THEOREM PartsSurviveUntilCommitHolds == Spec => []PartsSurviveUntilCommit
BY DataInvariant, PTL DEF DataInv

-----------------------------------------------------------------------------
(* Orderly clients: whatever is left of an upload, its ID is there too. *)

\* A request is about an upload that was created, and two that are in hand at the
\* same time are both uploads of parts or neither is.
Known == \A h \in Handler : pc[h] # "idle" => owner[req[h].u] # Absent
Exclusive ==
    \A g, h \in Handler : g # h /\ pc[g] # "idle" /\ pc[h] # "idle" /\ req[g].u = req[h].u =>
        /\ req[g].op # "create" /\ req[h].op # "create"
        /\ IsUpload(req[g]) <=> IsUpload(req[h])

\* Who is about to add a file has seen the upload ID.
Started ==
    \A h \in Handler : pc[h] \in {"new_attrs", "up_body", "up_done", "up_info"} => upload[req[h].u] # Absent

\* What a completion finds, and what it and an abort have cleared so far.
NoFiles(u, n) == part[u][n] = Absent /\ partInfo[u][n] = Absent
AllListed(h) ==
    /\ \A n \in Part : part[req[h].u][n] # Absent => <<"part", n>> \in todo[h]
    /\ \A n \in Part : partInfo[req[h].u][n] # Absent => <<"info", n>> \in todo[h]
SweptBy(h) ==
    /\ pc[h] # "idle" /\ req[h].op = "complete" =>
         \A n \in Part : n > Len(req[h].parts) => NoFiles(req[h].u, n)
    /\ ~failed[h] /\ pc[h] \in {"c_del_part", "c_del_info", "c_del_id"} =>
         req[h].u \notin upAttrs /\ \A n \in Part : n < i[h] => NoFiles(req[h].u, n)
    /\ ~failed[h] /\ pc[h] = "c_del_info" => part[req[h].u][i[h]] = Absent
    /\ pc[h] = "c_del_id" => i[h] = Len(req[h].parts) + 1
    /\ pc[h] \in {"a_scan", "a_remove", "a_id"} => req[h].u \notin upAttrs
    /\ pc[h] = "a_remove" => AllListed(h)
    /\ pc[h] = "a_id" => \A n \in Part : NoFiles(req[h].u, n)
Swept == \A h \in Handler : SweptBy(h)

\* Where the removal of an ID was left to the blocking pool nothing remains and nobody
\* is at work who could add a file.
Remains(u) == u \in upAttrs \/ \E n \in Part : ~NoFiles(u, n)
LateFor(u) ==
    /\ ~Remains(u) /\ owner[u] # Absent /\ u \in committed \cup aborted
    /\ \A h \in Handler : pc[h] # "idle" /\ req[h].u = u => req[h].op \in {"complete", "abort"}
Late == \A u \in Upload : <<u, Id>> \in pool => LateFor(u)

ResidueInv == Known /\ Exclusive /\ Started /\ Swept /\ Late /\ ResidueHasUploadId

\* Writing or removing one file leaves the others as they are.
LEMMA OneFile ==
    ASSUME NEW f \in [Upload -> [Part -> Opt(Payload)]], NEW u \in Upload, NEW n \in Part, NEW x,
           NEW v \in Upload, NEW m \in Part
    PROVE  [f EXCEPT ![u] = [@ EXCEPT ![n] = x]][v][m] = IF v = u /\ m = n THEN x ELSE f[v][m]
OBVIOUS

\* A step of h is h's own: the other handlers stay where they are.
Own(h) ==
    /\ owner' = owner /\ pc[h] # "idle"
    /\ pc'[h] = "idle" \/ req'[h] = req[h]
    /\ \A g \in Handler \ {h} : /\ pc'[g] = pc[g] /\ req'[g] = req[g]
                               /\ i'[g] = i[g] /\ failed'[g] = failed[g] /\ todo'[g] = todo[g]

LEMMA OwnStep == ASSUME Types, NEW h \in Handler, Progress(h) PROVE Own(h)
<1> USE DEF Types, TypeOK, Own, Goto, local, hist
<1>1. CASE Respond(h)
  BY <1>1 DEF Respond, Reset
<1>2. CASE CreateUploadId(h)
  BY <1>2 DEF CreateUploadId
<1>3. CASE SaveUploadAttrs(h)
  BY <1>3 DEF SaveUploadAttrs
<1>4. CASE VerifyUploadId(h)
  BY <1>4 DEF VerifyUploadId
<1>5. CASE ReceiveBody(h)
  BY <1>5 DEF ReceiveBody
<1>6. CASE RenamePart(h)
  BY <1>6 DEF RenamePart
<1>7. CASE SavePartInfo(h)
  BY <1>7 DEF SavePartInfo
<1>8. CASE LoadUploadAttrs(h)
  BY <1>8 DEF LoadUploadAttrs
<1>9. CASE CheckConditions(h)
  BY <1>9 DEF CheckConditions
<1>10. CASE LoadPartInfo(h)
  BY <1>10 DEF LoadPartInfo
<1>11. CASE ReadPart(h)
  BY <1>11 DEF ReadPart
<1>12. CASE CommitObject(h)
  BY <1>12 DEF CommitObject
<1>13. CASE SaveObjectAttrs(h)
  BY <1>13 DEF SaveObjectAttrs
<1>14. CASE SaveObjectInfo(h)
  BY <1>14 DEF SaveObjectInfo
<1>15. CASE DeleteUploadAttrs(h)
  BY <1>15 DEF DeleteUploadAttrs, Removal
<1>16. CASE RemovePart(h)
  BY <1>16 DEF RemovePart, Removal
<1>17. CASE RemovePartInfo(h)
  BY <1>17 DEF RemovePartInfo, Removal
<1>18. CASE RetireUpload(h)
  BY <1>18 DEF RetireUpload, Removal
<1>19. CASE AbortDeleteAttrs(h)
  BY <1>19 DEF AbortDeleteAttrs
<1>20. CASE AbortScan(h)
  BY <1>20 DEF AbortScan
<1>21. CASE AbortScanned(h)
  BY <1>21 DEF AbortScanned
<1>22. CASE AbortDeleteId(h)
  BY <1>22 DEF AbortDeleteId
<1>23. ASSUME NEW e \in Entry, AbortRemove(h, e) PROVE Own(h)
  BY <1>23 DEF AbortRemove, RemoveEntry, Entry
<1>24. QED
  BY <1>1, <1>2, <1>3, <1>4, <1>5, <1>6, <1>7, <1>8, <1>9, <1>10, <1>11, <1>12, <1>13, <1>14, <1>15, <1>16, <1>17, <1>18, <1>19, <1>20, <1>21, <1>22, <1>23 DEF Progress

\* Only uploads and creations add files, each to its own upload; only completions and
\* aborts remove an upload ID, again their own.
Shrinks(u) ==
    /\ u \in upAttrs' => u \in upAttrs
    /\ \A n \in Part : part'[u][n] \in {part[u][n], Absent} /\ partInfo'[u][n] \in {partInfo[u][n], Absent}
OnDisk(h) ==
    \A u \in Upload :
        /\ Shrinks(u) \/ (u = req[h].u /\ (req[h].op = "create" \/ IsUpload(req[h])))
        /\ upload[u] = Absent \/ upload'[u] # Absent \/ (u = req[h].u /\ req[h].op \in {"complete", "abort"})

LEMMA DiskStep == ASSUME Types, NEW h \in Handler, Progress(h) PROVE OnDisk(h)
<1>0. /\ TypeOK /\ Here(h)
      /\ pc[h] = "new_attrs" => req[h].op = "create"
      /\ pc[h] = "a_id" => req[h].op = "abort"
  BY AtHand DEF Types, Doing, Creating, Aborting
<1> USE <1>0 DEF TypeOK, Here, OnDisk, Shrinks, Opt, disk, Creating, Uploading, Assembling, Saving, Cleaning, Aborting
<1>1. CASE Respond(h)
  BY <1>1 DEF Respond, Reset
<1>2. CASE CreateUploadId(h)
  BY <1>2 DEF CreateUploadId
<1>3. CASE SaveUploadAttrs(h)
  BY <1>3 DEF SaveUploadAttrs
<1>4. CASE VerifyUploadId(h)
  BY <1>4 DEF VerifyUploadId
<1>5. CASE ReceiveBody(h)
  BY <1>5 DEF ReceiveBody
<1>6. CASE RenamePart(h)
  BY <1>6 DEF RenamePart
<1>7. CASE SavePartInfo(h)
  BY <1>7 DEF SavePartInfo
<1>8. CASE LoadUploadAttrs(h)
  BY <1>8 DEF LoadUploadAttrs
<1>9. CASE CheckConditions(h)
  BY <1>9 DEF CheckConditions
<1>10. CASE LoadPartInfo(h)
  BY <1>10 DEF LoadPartInfo
<1>11. CASE ReadPart(h)
  BY <1>11 DEF ReadPart
<1>12. CASE CommitObject(h)
  BY <1>12 DEF CommitObject
<1>13. CASE SaveObjectAttrs(h)
  BY <1>13 DEF SaveObjectAttrs
<1>14. CASE SaveObjectInfo(h)
  BY <1>14 DEF SaveObjectInfo
<1>15. CASE DeleteUploadAttrs(h)
  BY <1>15 DEF DeleteUploadAttrs, Removal
<1>16. CASE RemovePart(h)
  BY <1>16 DEF RemovePart, Removal
<1>17. CASE RemovePartInfo(h)
  <2>1. partInfo' = partInfo \/ partInfo' = [partInfo EXCEPT ![req[h].u] = [@ EXCEPT ![i[h]] = Absent]]
    BY <1>17 DEF RemovePartInfo, Removal
  <2>2. \A u \in Upload, n \in Part : partInfo'[u][n] \in {partInfo[u][n], Absent}
    <3>1. CASE partInfo' = partInfo
      BY <3>1
    <3>2. CASE partInfo' = [partInfo EXCEPT ![req[h].u] = [@ EXCEPT ![i[h]] = Absent]]
      <4>1. req[h].u \in Upload /\ i[h] \in Part
        BY <1>17 DEF RemovePartInfo
      <4>2. QED
        BY <3>2, <4>1, OneFile
    <3>3. QED
      BY <2>1, <3>1, <3>2
  <2>3. UNCHANGED <<upload, upAttrs, part>>
    BY <1>17 DEF RemovePartInfo, Removal
  <2>4. QED
    BY <2>2, <2>3
<1>18. CASE RetireUpload(h)
  BY <1>18 DEF RetireUpload, Removal
<1>19. CASE AbortDeleteAttrs(h)
  BY <1>19 DEF AbortDeleteAttrs
<1>20. CASE AbortScan(h)
  BY <1>20 DEF AbortScan
<1>21. CASE AbortScanned(h)
  BY <1>21 DEF AbortScanned
<1>22. CASE AbortDeleteId(h)
  BY <1>22 DEF AbortDeleteId
<1>23. ASSUME NEW e \in Entry, AbortRemove(h, e) PROVE OnDisk(h)
  BY <1>23 DEF AbortRemove, RemoveEntry, Entry
<1>24. QED
  BY <1>1, <1>2, <1>3, <1>4, <1>5, <1>6, <1>7, <1>8, <1>9, <1>10, <1>11, <1>12, <1>13, <1>14, <1>15, <1>16, <1>17, <1>18, <1>19, <1>20, <1>21, <1>22, <1>23 DEF Progress

\* What a handler knows is not disturbed by another one.
LEMMA OthersKept ==
    ASSUME Types, ResidueInv, NEW h \in Handler, Progress(h)
    PROVE  /\ Known' /\ Exclusive'
           /\ \A g \in Handler \ {h} :
                /\ pc'[g] \in {"new_attrs", "up_body", "up_done", "up_info"} => upload'[req'[g].u] # Absent
                /\ SweptBy(g)'
<1>1. Own(h) /\ OnDisk(h)
  BY OwnStep, DiskStep
<1>2. Known' /\ Exclusive'
  BY <1>1 DEF ResidueInv, Known, Exclusive, Own
<1>3. ASSUME NEW g \in Handler \ {h}
      PROVE  pc'[g] \in {"new_attrs", "up_body", "up_done", "up_info"} => upload'[req'[g].u] # Absent
  <2> SUFFICES ASSUME pc[g] \in {"new_attrs", "up_body", "up_done", "up_info"} PROVE upload'[req[g].u] # Absent
    BY <1>1 DEF Own
  <2>1. upload[req[g].u] # Absent /\ pc[g] # "idle" /\ req[g].u \in Upload
    BY AtHand DEF ResidueInv, Started, Here
  <2>2. req[g].op = "create" \/ IsUpload(req[g])
    BY DEF Types, Doing, Creating, Uploading
  <2>3. ~(req[g].u = req[h].u /\ req[h].op \in {"complete", "abort"})
    BY <1>1, <2>1, <2>2 DEF Own, ResidueInv, Exclusive, IsUpload
  <2>4. QED
    BY <1>1, <2>1, <2>3 DEF OnDisk
<1>4. ASSUME NEW g \in Handler \ {h} PROVE SweptBy(g)'
  <2>1. /\ pc'[g] = pc[g] /\ req'[g] = req[g] /\ i'[g] = i[g] /\ failed'[g] = failed[g] /\ todo'[g] = todo[g]
        /\ SweptBy(g)
    BY <1>1 DEF Own, ResidueInv, Swept
  <2>2. CASE pc[g] = "idle" \/ req[g].op \notin {"complete", "abort"}
    BY <2>1, <2>2 DEF SweptBy, Types, Doing, Assembling, Saving, Cleaning, Aborting
  <2>3. CASE pc[g] # "idle" /\ req[g].op \in {"complete", "abort"}
    <3>1. req[g].u \in Upload
      BY <2>3, AtHand DEF Here
    <3>2. ~(req[g].u = req[h].u /\ (req[h].op = "create" \/ IsUpload(req[h])))
      BY <1>1, <2>3 DEF Own, ResidueInv, Exclusive, IsUpload
    <3>3. Shrinks(req[g].u)
      BY <1>1, <3>1, <3>2 DEF OnDisk
    <3>4. i[g] \in Part \/ pc[g] # "c_del_info"
      BY AtHand DEF Here
    <3>5. AllListed(g) => AllListed(g)'
      BY ONLY <2>1, <3>3 DEF AllListed, Shrinks
    <3>6. QED
      BY ONLY <2>1, <3>3, <3>4, <3>5 DEF SweptBy, Shrinks, NoFiles
  <2>4. QED
    BY <2>2, <2>3
<1>5. QED
  BY <1>2, <1>3, <1>4

\* Every handler looks for the upload ID before it adds a file.
LEMMA OwnStarted ==
    ASSUME Types, Started, NEW h \in Handler, Progress(h),
           pc'[h] \in {"new_attrs", "up_body", "up_done", "up_info"}
    PROVE  upload'[req'[h].u] # Absent
<1>0. TypeOK /\ Here(h) /\ (pc[h] \in {"new_attrs", "up_body", "up_done", "up_info"} => upload[req[h].u] # Absent)
  BY AtHand DEF Types, Started
<1> USE <1>0 DEF TypeOK, Here, Opt, Goto, disk, local, hist
<1>1. CASE Respond(h)
  BY <1>1 DEF Respond, Reset
<1>2. CASE CreateUploadId(h)
  BY <1>2 DEF CreateUploadId
<1>3. CASE SaveUploadAttrs(h)
  BY <1>3 DEF SaveUploadAttrs
<1>4. CASE VerifyUploadId(h)
  <2>1. pc'[h] # "err"
    OBVIOUS
  <2>2. QED
    BY <1>4, <2>1 DEF VerifyUploadId
<1>5. CASE ReceiveBody(h)
  BY <1>5 DEF ReceiveBody
<1>6. CASE RenamePart(h)
  BY <1>6 DEF RenamePart
<1>7. CASE SavePartInfo(h)
  BY <1>7 DEF SavePartInfo
<1>8. CASE LoadUploadAttrs(h)
  BY <1>8 DEF LoadUploadAttrs
<1>9. CASE CheckConditions(h)
  BY <1>9 DEF CheckConditions
<1>10. CASE LoadPartInfo(h)
  BY <1>10 DEF LoadPartInfo
<1>11. CASE ReadPart(h)
  BY <1>11 DEF ReadPart
<1>12. CASE CommitObject(h)
  BY <1>12 DEF CommitObject
<1>13. CASE SaveObjectAttrs(h)
  BY <1>13 DEF SaveObjectAttrs
<1>14. CASE SaveObjectInfo(h)
  BY <1>14 DEF SaveObjectInfo
<1>15. CASE DeleteUploadAttrs(h)
  BY <1>15 DEF DeleteUploadAttrs, Removal
<1>16. CASE RemovePart(h)
  BY <1>16 DEF RemovePart, Removal
<1>17. CASE RemovePartInfo(h)
  BY <1>17 DEF RemovePartInfo, Removal
<1>18. CASE RetireUpload(h)
  BY <1>18 DEF RetireUpload, Removal
<1>19. CASE AbortDeleteAttrs(h)
  BY <1>19 DEF AbortDeleteAttrs
<1>20. CASE AbortScan(h)
  BY <1>20 DEF AbortScan
<1>21. CASE AbortScanned(h)
  BY <1>21 DEF AbortScanned
<1>22. CASE AbortDeleteId(h)
  BY <1>22 DEF AbortDeleteId
<1>23. ASSUME NEW e \in Entry, AbortRemove(h, e) PROVE upload'[req'[h].u] # Absent
  BY <1>23 DEF AbortRemove, RemoveEntry, Entry
<1>24. QED
  BY <1>1, <1>2, <1>3, <1>4, <1>5, <1>6, <1>7, <1>8, <1>9, <1>10, <1>11, <1>12, <1>13, <1>14, <1>15, <1>16, <1>17, <1>18, <1>19, <1>20, <1>21, <1>22, <1>23 DEF Progress

\* The directory entries of an upload, file by file, ...
Listed(a, b) == {e \in Entry : IF e[1] = "part" THEN a[e[2]] # Absent ELSE b[e[2]] # Absent}
LEMMA Entries ==
    \A a, b :
        /\ \A n \in Part : a[n] # Absent => <<"part", n>> \in Listed(a, b)
        /\ \A n \in Part : b[n] # Absent => <<"info", n>> \in Listed(a, b)
        /\ Listed(a, b) # {} <=> \E n \in Part : a[n] # Absent \/ b[n] # Absent
<1> TAKE a, b
<1>1. /\ \A n \in Part : a[n] # Absent => <<"part", n>> \in Listed(a, b)
      /\ \A n \in Part : b[n] # Absent => <<"info", n>> \in Listed(a, b)
  BY DEF Entry, Listed
<1>2. \A e \in Listed(a, b) : e[2] \in Part /\ (a[e[2]] # Absent \/ b[e[2]] # Absent)
  BY DEF Entry, Listed
<1>3. ASSUME Listed(a, b) # {} PROVE \E n \in Part : a[n] # Absent \/ b[n] # Absent
  <2>1. PICK e \in Listed(a, b) : TRUE
    BY <1>3
  <2>2. QED
    BY <1>2, <2>1
<1>4. ASSUME NEW n \in Part, a[n] # Absent \/ b[n] # Absent PROVE Listed(a, b) # {}
  <2>1. <<"part", n>> \in Listed(a, b) \/ <<"info", n>> \in Listed(a, b)
    BY <1>4 DEF Listed, Entry
  <2>2. QED
    BY ONLY <2>1
<1>5. QED
  BY <1>1, <1>3, <1>4

\* ... and its residue.
LEMMA ResidueIs == ASSUME NEW u \in Upload PROVE (Residue(u) <=> Remains(u)) /\ (Residue(u)' <=> Remains(u)')
<1>1. Present(u) = Listed(part[u], partInfo[u]) /\ Present(u)' = Listed(part'[u], partInfo'[u])
  BY DEF Present, Listed
<1>2. (Present(u) # {}) <=> \E n \in Part : part[u][n] # Absent \/ partInfo[u][n] # Absent
  BY ONLY <1>1, Entries
<1>3. (Present(u)' # {}) <=> \E n \in Part : part'[u][n] # Absent \/ partInfo'[u][n] # Absent
  BY ONLY <1>1, Entries
<1>4. QED
  BY <1>2, <1>3 DEF Residue, Remains, NoFiles

\* A completion or an abort clears the files one after the other, and nothing it has
\* cleared comes back while it runs.
Sweeping == {"c_del_part", "c_del_info", "c_del_id", "a_scan", "a_remove", "a_id"}
FirstClause(h) ==
    pc[h] # "idle" /\ req[h].op = "complete" =>
         \A n \in Part : n > Len(req[h].parts) => NoFiles(req[h].u, n)

LEMMA OwnSwept == ASSUME Types, Swept, NEW h \in Handler, Progress(h) PROVE SweptBy(h)'
<1>0. /\ TypeOK /\ Here(h) /\ SweptBy(h) /\ FirstClause(h)'
      /\ pc[h] \in {"a_scan", "a_remove"} => req[h].op = "abort"
      /\ req[h].op \in {"complete", "abort"} /\ req[h].u \in Upload => Shrinks(req[h].u)
      /\ pc[h] = "c_del_attrs" => i[h] = 1
  <2>1. TypeOK /\ Here(h) /\ SweptBy(h) /\ (pc[h] \in {"a_scan", "a_remove"} => req[h].op = "abort")
        /\ (pc[h] = "c_del_attrs" => i[h] = 1)
    BY AtHand DEF Types, Doing, Aborting, Swept, Position, PositionOf
  <2>2. req[h].op \in {"complete", "abort"} /\ req[h].u \in Upload => Shrinks(req[h].u)
    BY DiskStep DEF OnDisk, IsUpload
  <2>3. Own(h)
    BY OwnStep
  <2>4. FirstClause(h)'
    BY ONLY <2>1, <2>2, <2>3 DEF FirstClause, Own, SweptBy, Here, Shrinks, NoFiles
  <2>5. QED
    BY <2>1, <2>2, <2>4
<1> USE <1>0 DEF TypeOK, Here, Opt, Goto, disk, local, Sweeping, Cleaning, FirstClause
<1>1. CASE Respond(h)
  <2>1. pc'[h] \notin Sweeping
    BY <1>1 DEF Respond
  <2>2. QED
    BY <1>0, <2>1 DEF SweptBy
<1>2. CASE CreateUploadId(h)
  <2>1. pc'[h] \notin Sweeping
    BY <1>2 DEF CreateUploadId
  <2>2. QED
    BY <1>0, <2>1 DEF SweptBy
<1>3. CASE SaveUploadAttrs(h)
  <2>1. pc'[h] \notin Sweeping
    BY <1>3 DEF SaveUploadAttrs
  <2>2. QED
    BY <1>0, <2>1 DEF SweptBy
<1>4. CASE VerifyUploadId(h)
  <2>1. pc'[h] \notin Sweeping
    BY <1>4 DEF VerifyUploadId, AfterVerify
  <2>2. QED
    BY <1>0, <2>1 DEF SweptBy
<1>5. CASE ReceiveBody(h)
  <2>1. pc'[h] \notin Sweeping
    BY <1>5 DEF ReceiveBody
  <2>2. QED
    BY <1>0, <2>1 DEF SweptBy
<1>6. CASE RenamePart(h)
  <2>1. pc'[h] \notin Sweeping
    BY <1>6 DEF RenamePart
  <2>2. QED
    BY <1>0, <2>1 DEF SweptBy
<1>7. CASE SavePartInfo(h)
  <2>1. pc'[h] \notin Sweeping
    BY <1>7 DEF SavePartInfo
  <2>2. QED
    BY <1>0, <2>1 DEF SweptBy
<1>8. CASE LoadUploadAttrs(h)
  <2>1. pc'[h] \notin Sweeping
    BY <1>8 DEF LoadUploadAttrs
  <2>2. QED
    BY <1>0, <2>1 DEF SweptBy
<1>9. CASE CheckConditions(h)
  <2>1. pc'[h] \notin Sweeping
    BY <1>9 DEF CheckConditions
  <2>2. QED
    BY <1>0, <2>1 DEF SweptBy
<1>10. CASE LoadPartInfo(h)
  <2>1. pc'[h] \notin Sweeping
    BY <1>10 DEF LoadPartInfo
  <2>2. QED
    BY <1>0, <2>1 DEF SweptBy
<1>11. CASE ReadPart(h)
  <2>1. pc'[h] \notin Sweeping
    BY <1>11 DEF ReadPart
  <2>2. QED
    BY <1>0, <2>1 DEF SweptBy
<1>12. CASE CommitObject(h)
  <2>1. pc'[h] \notin Sweeping
    BY <1>12 DEF CommitObject
  <2>2. QED
    BY <1>0, <2>1 DEF SweptBy
<1>13. CASE SaveObjectAttrs(h)
  <2>1. pc'[h] \notin Sweeping
    BY <1>13 DEF SaveObjectAttrs
  <2>2. QED
    BY <1>0, <2>1 DEF SweptBy
<1>14. CASE SaveObjectInfo(h)
  <2>1. pc'[h] \notin Sweeping
    BY <1>14 DEF SaveObjectInfo
  <2>2. QED
    BY <1>0, <2>1 DEF SweptBy
<1>15. CASE DeleteUploadAttrs(h)
  <2>1. pc'[h] = "c_del_part" /\ i'[h] = 1 /\ (~failed'[h] => req'[h].u \notin upAttrs')
    BY <1>15 DEF DeleteUploadAttrs, Removal
  <2>2. \A n \in Part : ~(n < 1)
    BY DEF Part
  <2>3. QED
    BY <1>0, <2>1, <2>2 DEF SweptBy
<1>16. CASE RemovePart(h)
  <2>1. pc'[h] = "c_del_info" /\ i'[h] = i[h] /\ req'[h] = req[h] /\ failed'[h] \in {failed[h], TRUE}
    BY <1>16 DEF RemovePart, Removal
  <2>2. ~failed'[h] => part' = [part EXCEPT ![req[h].u] = [@ EXCEPT ![i[h]] = Absent]]
    BY <1>16 DEF RemovePart, Removal
  <2>3. req[h].u \in Upload /\ i[h] \in Part /\ req[h].op = "complete"
    BY <1>16 DEF RemovePart
  <2>4. ~failed'[h] => part'[req[h].u][i[h]] = Absent
    BY <2>2, <2>3
  <2>5. pc[h] = "c_del_part"
    BY <1>16 DEF RemovePart
  <2>6. SweptBy(h) /\ Shrinks(req[h].u) /\ FirstClause(h)'
    BY <1>0, <2>3
  <2>7. ~failed'[h] => req[h].u \notin upAttrs' /\ \A n \in Part : n < i[h] => NoFiles(req[h].u, n)'
    BY ONLY <2>1, <2>5, <2>6 DEF SweptBy, Shrinks, NoFiles
  <2>8. QED
    BY ONLY <2>1, <2>4, <2>6, <2>7 DEF SweptBy, FirstClause
<1>17. CASE RemovePartInfo(h)
  <2>1. /\ pc'[h] = (IF i[h] = Len(req[h].parts) THEN "c_del_id" ELSE "c_del_part")
        /\ i'[h] = i[h] + 1 /\ req'[h] = req[h] /\ failed'[h] \in {failed[h], TRUE}
    BY <1>17 DEF RemovePartInfo, Removal
  <2>2. ~failed'[h] => partInfo' = [partInfo EXCEPT ![req[h].u] = [@ EXCEPT ![i[h]] = Absent]]
    BY <1>17 DEF RemovePartInfo, Removal
  <2>3. req[h].u \in Upload /\ i[h] \in Part /\ req[h].op = "complete" /\ pc[h] = "c_del_info"
    BY <1>17 DEF RemovePartInfo
  <2>4. ~failed'[h] => partInfo'[req[h].u][i[h]] = Absent
    BY <2>2, <2>3
  <2>5. \A n \in Part : n < i[h] + 1 => n < i[h] \/ n = i[h]
    BY <2>3 DEF Part
  <2>6. SweptBy(h) /\ Shrinks(req[h].u) /\ FirstClause(h)'
    BY <1>0, <2>3
  <2>7. ~failed'[h] => req[h].u \notin upAttrs' /\ \A n \in Part : n < i'[h] => NoFiles(req[h].u, n)'
    BY ONLY <2>1, <2>3, <2>4, <2>5, <2>6 DEF SweptBy, Shrinks, NoFiles
  <2>8. QED
    BY ONLY <2>1, <2>3, <2>6, <2>7 DEF SweptBy, FirstClause
<1>18. CASE RetireUpload(h)
  <2>1. pc'[h] \notin Sweeping
    BY <1>18 DEF RetireUpload, Removal
  <2>2. QED
    BY <1>0, <2>1 DEF SweptBy
<1>19. CASE AbortDeleteAttrs(h)
  <2>1. pc'[h] = "a_scan" /\ req'[h].u \notin upAttrs'
    BY <1>19 DEF AbortDeleteAttrs
  <2>2. QED
    BY <1>0, <2>1 DEF SweptBy
<1>20. CASE AbortScan(h)
  <2>1. pc[h] = "a_scan" /\ pc'[h] = "a_remove" /\ UNCHANGED <<upAttrs, part, partInfo, req>>
    BY <1>20 DEF AbortScan
  <2>2. todo'[h] = Listed(part[req[h].u], partInfo[req[h].u])
    BY <1>20 DEF AbortScan, Present, Listed
  <2>3. QED
    <3>1. SweptBy(h) /\ FirstClause(h)'
      BY <1>0
    <3>2. /\ \A n \in Part : part[req[h].u][n] # Absent => <<"part", n>> \in todo'[h]
          /\ \A n \in Part : partInfo[req[h].u][n] # Absent => <<"info", n>> \in todo'[h]
      BY ONLY <2>2, Entries
    <3>3. AllListed(h)'
      BY ONLY <2>1, <3>2 DEF AllListed
    <3>4. QED
      BY ONLY <2>1, <3>1, <3>3 DEF SweptBy, FirstClause
<1>21. CASE AbortScanned(h)
  <2>1. /\ pc[h] = "a_remove" /\ pc'[h] = "a_id" /\ todo[h] = {} /\ UNCHANGED <<upAttrs, part, partInfo, req>>
    BY <1>21 DEF AbortScanned
  <2>2. AllListed(h) /\ req[h].u \notin upAttrs
    BY <1>0, <2>1 DEF SweptBy
  <2>3. \A n \in Part : NoFiles(req[h].u, n)'
    BY ONLY <2>1, <2>2 DEF AllListed, NoFiles
  <2>4. QED
    BY <1>0, <2>1, <2>2, <2>3 DEF SweptBy
<1>22. CASE AbortDeleteId(h)
  <2>1. pc'[h] \notin Sweeping
    BY <1>22 DEF AbortDeleteId
  <2>2. QED
    BY <1>0, <2>1 DEF SweptBy
<1>23. ASSUME NEW e \in Entry, AbortRemove(h, e) PROVE SweptBy(h)'
  <2>1. pc[h] = "a_remove" /\ pc'[h] = "a_remove" /\ req'[h] = req[h] /\ todo'[h] = todo[h] \ {e}
    BY <1>23 DEF AbortRemove
  <2>2. req[h].u \in Upload /\ req[h].op = "abort" /\ Shrinks(req[h].u)
    BY <1>0, <2>1
  <2>3. PICK n \in Part : e = <<"part", n>> \/ e = <<"info", n>>
    BY <1>23 DEF Entry
  <2>4. e = <<"part", n>> => part'[req[h].u][n] = Absent
    BY <1>23, <2>2, <2>3 DEF AbortRemove, RemoveEntry
  <2>5. e = <<"info", n>> => partInfo'[req[h].u][n] = Absent
    BY <1>23, <2>2, <2>3 DEF AbortRemove, RemoveEntry
  <2>6. /\ \A m \in Part : part'[req[h].u][m] # Absent => <<"part", m>> \in todo'[h]
        /\ \A m \in Part : partInfo'[req[h].u][m] # Absent => <<"info", m>> \in todo'[h]
    <3>1. AllListed(h)
      BY <1>0, <2>1 DEF SweptBy
    <3>2. ASSUME NEW m \in Part, part'[req[h].u][m] # Absent PROVE <<"part", m>> \in todo'[h]
      <4>1. <<"part", m>> \in todo[h]
        BY ONLY <2>2, <3>1, <3>2 DEF AllListed, Shrinks
      <4>2. <<"part", m>> # e
        BY ONLY <2>3, <2>4, <3>2
      <4>3. QED
        BY ONLY <2>1, <4>1, <4>2
    <3>3. ASSUME NEW m \in Part, partInfo'[req[h].u][m] # Absent PROVE <<"info", m>> \in todo'[h]
      <4>1. <<"info", m>> \in todo[h]
        BY ONLY <2>2, <3>1, <3>3 DEF AllListed, Shrinks
      <4>2. <<"info", m>> # e
        BY ONLY <2>3, <2>5, <3>3
      <4>3. QED
        BY ONLY <2>1, <4>1, <4>2
    <3>4. QED
      BY ONLY <3>2, <3>3
  <2>7. req[h].u \notin upAttrs'
    BY ONLY <1>0, <2>1, <2>2 DEF SweptBy, Shrinks
  <2>9. FirstClause(h)'
    BY <1>0
  <2>10. AllListed(h)'
    BY ONLY <2>1, <2>6 DEF AllListed
  <2>11. QED
    BY ONLY <2>1, <2>7, <2>9, <2>10 DEF SweptBy, FirstClause
<1>24. QED
  BY <1>1, <1>2, <1>3, <1>4, <1>5, <1>6, <1>7, <1>8, <1>9, <1>10, <1>11, <1>12, <1>13, <1>14, <1>15, <1>16, <1>17, <1>18, <1>19, <1>20, <1>21, <1>22, <1>23 DEF Progress

\* The two steps that remove an upload ID, and the three that add a file.
LEMMA IdStep ==
    ASSUME Types, NEW h \in Handler, Progress(h), NEW u \in Upload, ~(u = req[h].u /\ (RetireUpload(h) \/ AbortDeleteId(h)))
    PROVE  upload'[u] = upload[u] \/ upload'[u] # Absent
<1>0. TypeOK /\ Here(h)
  BY AtHand DEF Types
<1> USE <1>0 DEF TypeOK, Here, disk
<1>1. CASE Respond(h)
  BY <1>1 DEF Respond, Reset
<1>2. CASE CreateUploadId(h)
  BY <1>2 DEF CreateUploadId
<1>3. CASE SaveUploadAttrs(h)
  BY <1>3 DEF SaveUploadAttrs
<1>4. CASE VerifyUploadId(h)
  BY <1>4 DEF VerifyUploadId
<1>5. CASE ReceiveBody(h)
  BY <1>5 DEF ReceiveBody
<1>6. CASE RenamePart(h)
  BY <1>6 DEF RenamePart
<1>7. CASE SavePartInfo(h)
  BY <1>7 DEF SavePartInfo
<1>8. CASE LoadUploadAttrs(h)
  BY <1>8 DEF LoadUploadAttrs
<1>9. CASE CheckConditions(h)
  BY <1>9 DEF CheckConditions
<1>10. CASE LoadPartInfo(h)
  BY <1>10 DEF LoadPartInfo
<1>11. CASE ReadPart(h)
  BY <1>11 DEF ReadPart
<1>12. CASE CommitObject(h)
  BY <1>12 DEF CommitObject
<1>13. CASE SaveObjectAttrs(h)
  BY <1>13 DEF SaveObjectAttrs
<1>14. CASE SaveObjectInfo(h)
  BY <1>14 DEF SaveObjectInfo
<1>15. CASE DeleteUploadAttrs(h)
  BY <1>15 DEF DeleteUploadAttrs, Removal
<1>16. CASE RemovePart(h)
  BY <1>16 DEF RemovePart, Removal
<1>17. CASE RemovePartInfo(h)
  BY <1>17 DEF RemovePartInfo, Removal
<1>18. CASE RetireUpload(h)
  BY <1>18 DEF RetireUpload, Removal
<1>19. CASE AbortDeleteAttrs(h)
  BY <1>19 DEF AbortDeleteAttrs
<1>20. CASE AbortScan(h)
  BY <1>20 DEF AbortScan
<1>21. CASE AbortScanned(h)
  BY <1>21 DEF AbortScanned
<1>22. CASE AbortDeleteId(h)
  BY <1>22 DEF AbortDeleteId
<1>23. ASSUME NEW e \in Entry, AbortRemove(h, e) PROVE upload'[u] = upload[u] \/ upload'[u] # Absent
  BY <1>23 DEF AbortRemove, RemoveEntry, Entry
<1>24. QED
  BY <1>1, <1>2, <1>3, <1>4, <1>5, <1>6, <1>7, <1>8, <1>9, <1>10, <1>11, <1>12, <1>13, <1>14, <1>15, <1>16, <1>17, <1>18, <1>19, <1>20, <1>21, <1>22, <1>23 DEF Progress

LEMMA GrowStep ==
    ASSUME Types, NEW h \in Handler, Progress(h), NEW u \in Upload
    PROVE  Shrinks(u) \/ (u = req[h].u /\ pc[h] \in {"new_attrs", "up_done", "up_info"})
<1>1. CASE req[h].op \in {"complete", "abort"}
  BY <1>1, DiskStep DEF OnDisk, IsUpload
<1>2. CASE pc[h] \in {"new_attrs", "up_done", "up_info"}
  BY <1>2, DiskStep DEF OnDisk
<1>3. CASE pc[h] \notin {"new_attrs", "up_done", "up_info"} /\ req[h].op \notin {"complete", "abort"}
  <2>1. UNCHANGED <<upAttrs, part, partInfo>>
    <3>1. pc[h] \notin Cleaning /\ pc[h] \notin {"a_attrs", "a_scan", "a_remove", "a_id"}
      BY <1>3 DEF Types, Doing, Cleaning, Aborting
    <3>2. QED
      BY <1>3, <3>1 DEF Progress, disk, Cleaning, Respond, CreateUploadId, SaveUploadAttrs, VerifyUploadId, ReceiveBody, RenamePart, SavePartInfo, LoadUploadAttrs, CheckConditions, LoadPartInfo, ReadPart, CommitObject, SaveObjectAttrs, SaveObjectInfo, DeleteUploadAttrs, RemovePart, RemovePartInfo, RetireUpload, AbortDeleteAttrs, AbortScan, AbortRemove, AbortScanned, AbortDeleteId
  <2>2. QED
    BY <2>1 DEF Shrinks
<1>4. QED
  BY <1>1, <1>2, <1>3

\* When a handler comes to the removal of the ID, nothing else is left.
LEMMA NothingLeft ==
    ASSUME Types, Swept, NEW h \in Handler, (pc[h] = "c_del_id" /\ ~failed[h]) \/ pc[h] = "a_id"
    PROVE  ~Remains(req[h].u)
<1>0. SweptBy(h) /\ Here(h)
  BY AtHand DEF Swept
<1>1. CASE pc[h] = "c_del_id" /\ ~failed[h]
  <2>1. req[h].op = "complete" /\ Len(req[h].parts) \in Nat /\ i[h] = Len(req[h].parts) + 1
    BY <1>0, <1>1 DEF SweptBy, Here, Cleaning
  <2>2. req[h].u \notin upAttrs /\ \A n \in Part : n > Len(req[h].parts) \/ n < i[h] => NoFiles(req[h].u, n)
    BY <1>0, <1>1, <2>1 DEF SweptBy
  <2>3. \A n \in Part : n > Len(req[h].parts) \/ n < i[h]
    BY <2>1 DEF Part
  <2>4. QED
    BY <2>2, <2>3 DEF Remains
<1>2. CASE pc[h] = "a_id"
  BY <1>0, <1>2 DEF SweptBy, Remains
<1>3. QED
  BY <1>1, <1>2

\* A handler at work on an upload adds nothing where the removal of the ID is pending.
LEMMA LateKept == ASSUME Types, ResidueInv, NEW h \in Handler, Progress(h) PROVE Late'
<1> SUFFICES ASSUME NEW u \in Upload, <<u, Id>> \in pool PROVE LateFor(u)'
  BY PoolKept DEF Late
<1>1. LateFor(u) /\ Own(h) /\ committed \subseteq committed' /\ aborted \subseteq aborted'
  BY OwnStep, PoolKept DEF ResidueInv, Late
<1>2. Shrinks(u)
  <2>1. ~(u = req[h].u /\ pc[h] \in {"new_attrs", "up_done", "up_info"})
    BY <1>1 DEF LateFor, Types, Doing, Creating, Uploading, IsUpload
  <2>2. QED
    BY <2>1, GrowStep
<1>3. ~Remains(u)'
  BY <1>1, <1>2 DEF LateFor, Shrinks, Remains, NoFiles
<1>4. QED
  BY <1>1, <1>3 DEF LateFor, Own

\* A file is added only where the upload ID is, and the ID goes only when nothing is left.
LEMMA ResidueKept ==
    ASSUME Types, Started, Swept, ResidueHasUploadId, NEW h \in Handler, Progress(h), NEW u \in Upload, Residue(u)'
    PROVE  upload'[u] # Absent
<1>1. Remains(u)' /\ (Remains(u) => upload[u] # Absent) /\ Own(h) /\ OnDisk(h) /\ TypeOK /\ Here(h) /\ SweptBy(h)
  BY ResidueIs, OwnStep, DiskStep, AtHand DEF Types, Swept, ResidueHasUploadId
<1>2. CASE RetireUpload(h) /\ u = req[h].u
  <2>1. CASE failed[h] \/ faults' # faults
    <3>1. UNCHANGED disk
      BY <1>2, <2>1 DEF RetireUpload, Removal
    <3>2. QED
      BY <1>1, <3>1 DEF Remains, NoFiles, disk
  <2>2. CASE ~failed[h] /\ UNCHANGED <<upAttrs, part, partInfo>>
    <3>1. /\ pc[h] = "c_del_id" /\ req[h].op = "complete" /\ Len(req[h].parts) \in Nat
          /\ i[h] = Len(req[h].parts) + 1
      BY <1>1, <1>2 DEF RetireUpload, SweptBy, Here, Cleaning
    <3>2. ~Remains(u)
      BY <1>2, <2>2, <3>1, NothingLeft
    <3>3. QED
      BY <1>1, <2>2, <3>2 DEF Remains, NoFiles
  <2>3. QED
    BY <1>1, <1>2, <2>1, <2>2 DEF RetireUpload, Removal, TypeOK, disk
<1>3. CASE AbortDeleteId(h) /\ u = req[h].u
  <2>1. pc[h] = "a_id" /\ UNCHANGED <<upAttrs, part, partInfo>>
    BY <1>3 DEF AbortDeleteId
  <2>2. ~Remains(u)
    BY <1>1, <1>3, <2>1 DEF SweptBy, Remains
  <2>3. QED
    BY <1>1, <2>1, <2>2 DEF Remains, NoFiles
<1>4. CASE pc[h] \in {"new_attrs", "up_done", "up_info"} /\ u = req[h].u
  <2>1. upload[u] # Absent
    BY <1>4 DEF Started
  <2>2. req[h].op \notin {"complete", "abort"}
    BY <1>4 DEF Types, Doing, Creating, Uploading, IsUpload
  <2>3. QED
    BY <1>1, <2>1, <2>2 DEF OnDisk
<1>5. CASE Shrinks(u) /\ ~(u = req[h].u /\ (RetireUpload(h) \/ AbortDeleteId(h)))
  <2>1. Remains(u)
    BY <1>1, <1>5 DEF Shrinks, Remains, NoFiles
  <2>2. upload[u] # Absent
    BY <1>1, <2>1
  <2>3. upload'[u] = upload[u] \/ upload'[u] # Absent
    BY <1>1, <1>5, <2>2, IdStep
  <2>4. QED
    BY <2>2, <2>3
<1>6. Shrinks(u) \/ (u = req[h].u /\ pc[h] \in {"new_attrs", "up_done", "up_info"})
  BY GrowStep
<1>7. QED
  BY <1>2, <1>3, <1>4, <1>5, <1>6

\* A request that an orderly client may send disturbs nothing that is in hand.
LEMMA BeginResidue ==
    ASSUME Orderly, Types, ResidueInv, NEW h \in Handler, NEW r \in Request, Begin(h, r)
    PROVE  ResidueInv'
<1>1. /\ pc[h] = "idle" /\ MayBegin(r) /\ r.u \in Upload /\ r.cred # Absent
      /\ r.op = "create" => owner[r.u] = Absent
      /\ pc'[h] \in {"new_id", "verify"} /\ req'[h] = r
      /\ \A g \in Handler \ {h} : pc'[g] = pc[g] /\ req'[g] = req[g]
      /\ UNCHANGED <<disk, local>>
  BY Requests DEF Begin, Goto, Types, TypeOK
<1>2. owner'[r.u] # Absent /\ \A u \in Upload : owner[u] # Absent => owner'[u] # Absent
  BY <1>1 DEF Begin, MayBegin, Types, TypeOK
<1>3. Known'
  BY <1>1, <1>2, AtHand DEF ResidueInv, Known, Here
<1>4. Exclusive'
  <2>1. \A g \in Handler \ {h} : pc[g] # "idle" /\ req[g].u = r.u =>
          req[g].op # "create" /\ r.op # "create" /\ (IsUpload(req[g]) <=> IsUpload(r))
    BY <1>1 DEF MayBegin, ResidueInv, Known, IsUpload
  <2>2. QED
    BY <1>1, <2>1 DEF ResidueInv, Exclusive
<1>5. Started'
  BY <1>1 DEF ResidueInv, Started, disk
<1>6. Swept'
  <2>1. \A g \in Handler \ {h} : SweptBy(g)'
    <3> SUFFICES ASSUME NEW g \in Handler \ {h} PROVE SweptBy(g)'
      OBVIOUS
    <3>1. /\ pc'[g] = pc[g] /\ req'[g] = req[g] /\ SweptBy(g)
          /\ UNCHANGED <<upAttrs, part, partInfo, i, failed, todo>>
      BY <1>1 DEF ResidueInv, Swept, disk, local
    <3>2. AllListed(g) => AllListed(g)'
      BY ONLY <3>1 DEF AllListed
    <3>3. QED
      BY ONLY <3>1, <3>2 DEF SweptBy, NoFiles
  <2>2. r.op = "complete" => \A n \in Part : n > Len(r.parts) => NoFiles(r.u, n)
    <3> SUFFICES ASSUME r.op = "complete", NEW n \in Part, n > Len(r.parts) PROVE NoFiles(r.u, n)
      OBVIOUS
    <3>1. Listed(part[r.u], partInfo[r.u]) \subseteq {"part", "info"} \X DOMAIN r.parts
      BY <1>1 DEF MayBegin, Present, Listed
    <3>2. n \notin DOMAIN r.parts
      BY Requests
    <3>3. <<"part", n>> \notin Listed(part[r.u], partInfo[r.u]) /\ <<"info", n>> \notin Listed(part[r.u], partInfo[r.u])
      BY ONLY <3>1, <3>2
    <3>4. QED
      BY ONLY <3>3, Entries, n \in Part DEF NoFiles
  <2>3. SweptBy(h)'
    BY <1>1, <2>2 DEF SweptBy, NoFiles, disk
  <2>4. QED
    BY <2>1, <2>3 DEF Swept
<1>7. ResidueHasUploadId'
  BY <1>1 DEF ResidueInv, ResidueHasUploadId, Residue, Present, disk
<1>9. Late'
  <2> SUFFICES ASSUME NEW u \in Upload, <<u, Id>> \in pool PROVE LateFor(u)'
    BY DEF Late, Begin
  <2>1. LateFor(u) /\ UNCHANGED <<committed, aborted>>
    BY DEF ResidueInv, Late, Begin
  <2>2. ~Remains(u)'
    BY <1>1, <2>1 DEF LateFor, Remains, NoFiles, disk
  <2>3. u = r.u => r.op \in {"complete", "abort"}
    BY <1>1, <2>1, Requests DEF LateFor, MayBegin, IsUpload
  <2>4. QED
    BY <1>1, <1>2, <2>1, <2>2, <2>3 DEF LateFor
<1>8. QED
  BY <1>3, <1>4, <1>5, <1>6, <1>7, <1>9 DEF ResidueInv

\* A failure, a cancellation or a crash leaves residue, and the ID with it.
Stopped(h) ==
    \/ pc'[h] = "idle"
    \/ /\ pc'[h] \in {pc[h], "err"} /\ pc[h] # "idle" /\ req'[h] = req[h]
       /\ i'[h] = i[h] /\ failed'[h] = failed[h] /\ todo'[h] = todo[h]

LEMMA FaultResidue ==
    ASSUME Types, DataInv, ResidueInv, (\E h \in Handler : Fail(h) \/ Cancel(h)) \/ Crash
    PROVE  ResidueInv'
<1>1. UNCHANGED <<disk, hist>>
  BY DEF Fail, Cancel, Crash
<1>2. \A g \in Handler : Stopped(g)
  <2>1. ASSUME NEW h \in Handler, Fail(h) PROVE \A g \in Handler : Stopped(g)
    <3>1. pc' = [pc EXCEPT ![h] = "err"] /\ pc[h] # "idle" /\ UNCHANGED <<req, i, failed, todo>>
      BY <2>1 DEF Fail, Goto, local, InFlight, Creating, Uploading, Assembling, Saving, Cleaning, Aborting
    <3>2. QED
      BY <3>1 DEF Types, TypeOK, Stopped
  <2>2. ASSUME NEW h \in Handler, Cancel(h) PROVE \A g \in Handler : Stopped(g)
    BY <2>2 DEF Cancel, Goto, Reset, Stopped, Types, TypeOK
  <2>3. CASE Crash
    BY <2>3 DEF Crash, Stopped
  <2>4. QED
    BY <2>1, <2>2, <2>3
<1>3. Known' /\ Exclusive' /\ Started'
  BY <1>1, <1>2 DEF Stopped, ResidueInv, Known, Exclusive, Started, disk, hist
<1>4. Swept'
  <2> SUFFICES ASSUME NEW h \in Handler PROVE SweptBy(h)'
    BY DEF Swept
  <2>1. CASE pc'[h] = "idle"
    BY <2>1 DEF SweptBy
  <2>2. CASE pc'[h] # "idle"
    <3>1. /\ pc'[h] \in {pc[h], "err"} /\ pc[h] # "idle" /\ req'[h] = req[h] /\ SweptBy(h)
          /\ i'[h] = i[h] /\ failed'[h] = failed[h] /\ todo'[h] = todo[h] /\ UNCHANGED <<upAttrs, part, partInfo>>
      BY <1>1, <1>2, <2>2 DEF Stopped, ResidueInv, Swept, disk
    <3>2. AllListed(h) => AllListed(h)'
      BY ONLY <3>1 DEF AllListed
    <3>3. QED
      BY ONLY <3>1, <3>2 DEF SweptBy, NoFiles
  <2>3. QED
    BY <2>1, <2>2
<1>5. ResidueHasUploadId'
  BY <1>1 DEF ResidueInv, ResidueHasUploadId, Residue, Present, disk
<1>7. \A u \in Upload : LateFor(u) => LateFor(u)'
  BY <1>1, <1>2 DEF LateFor, Stopped, Remains, NoFiles, disk, hist
<1>8. Late'
  <2>1. ASSUME NEW h \in Handler, Cancel(h) PROVE Late'
    <3>1. ASSUME NEW f \in Removing(h), f = Id PROVE LateFor(req[h].u)
      <4>1. (pc[h] = "c_del_id" /\ ~failed[h]) \/ pc[h] = "a_id"
        BY <3>1 DEF Removing, Id, Types, TypeOK, Present, Entry
      <4>2. req[h].op \in {"complete", "abort"} /\ pc[h] # "idle" /\ Here(h)
        BY <4>1, AtHand DEF Types, Doing, Cleaning, Aborting
      <4>3. ~Remains(req[h].u) /\ owner[req[h].u] # Absent
        BY <4>1, <4>2, NothingLeft DEF ResidueInv, Known
      <4>4. req[h].u \in committed \cup aborted
        BY <4>1 DEF DataInv, RemovalsAllowed, Cleaning, Aborting
      <4>5. \A g \in Handler : pc[g] # "idle" /\ req[g].u = req[h].u => req[g].op \in {"complete", "abort"}
        <5> SUFFICES ASSUME NEW g \in Handler, g # h, pc[g] # "idle", req[g].u = req[h].u
                     PROVE  req[g].op \in {"complete", "abort"}
          BY <4>2
        <5>1. req[g].op # "create" /\ ~IsUpload(req[g])
          BY <4>2 DEF ResidueInv, Exclusive, IsUpload
        <5>2. Here(g)
          BY AtHand
        <5>3. QED
          BY <5>1, <5>2 DEF Here, IsUpload
      <4>6. QED
        BY <4>3, <4>4, <4>5 DEF LateFor
    <3>2. ASSUME NEW u \in Upload, <<u, Id>> \in pool' PROVE LateFor(u)
      BY <2>1, <3>1, <3>2 DEF Cancel, ResidueInv, Late
    <3>3. QED
      BY <1>7, <3>2 DEF Late
  <2>2. ASSUME (\E h \in Handler : Fail(h)) \/ Crash PROVE Late'
    BY <1>7, <2>2 DEF Fail, Crash, ResidueInv, Late
  <2>3. QED
    BY <2>1, <2>2
<1>6. QED
  BY <1>3, <1>4, <1>5, <1>8 DEF ResidueInv

\* The pool removes an ID where nothing remains, and otherwise only shrinks the residue.
LEMMA PoolResidue ==
    ASSUME Types, ResidueInv, NEW u \in Upload, NEW f \in File, PoolRemove(u, f) PROVE ResidueInv'
<1>1. /\ \A v \in Upload : upload'[v] = upload[v] \/ (upload'[v] = Absent /\ v = u /\ f = Id)
      /\ \A v \in Upload, n \in Part : part'[v][n] \in {part[v][n], Absent} /\ partInfo'[v][n] \in {partInfo[v][n], Absent}
      /\ UNCHANGED <<upAttrs, pc, req, i, failed, todo, owner, committed, aborted>>
      /\ <<u, f>> \in pool /\ pool' \subseteq pool
  BY PoolStep DEF local, hist
<1>2. Known' /\ Exclusive'
  BY <1>1 DEF ResidueInv, Known, Exclusive
<1>3. \A v \in Upload : Remains(v)' => Remains(v)
  BY <1>1 DEF Remains, NoFiles
<1>4. Late'
  BY <1>1, <1>3 DEF ResidueInv, Late, LateFor
<1>5. f = Id => LateFor(u)
  BY <1>1 DEF ResidueInv, Late
<1>6. Started'
  <2> SUFFICES ASSUME NEW h \in Handler, pc[h] \in {"new_attrs", "up_body", "up_done", "up_info"}
               PROVE  upload'[req[h].u] # Absent
    BY <1>1 DEF Started
  <2>1. upload[req[h].u] # Absent /\ req[h].u \in Upload /\ (req[h].op = "create" \/ IsUpload(req[h]))
    BY AtHand DEF ResidueInv, Started, Here, Types, Doing, Creating, Uploading
  <2>2. ~(f = Id /\ req[h].u = u)
    BY <1>5, <2>1 DEF LateFor, IsUpload
  <2>3. QED
    BY <1>1, <2>1, <2>2
<1>7. ResidueHasUploadId'
  <2> SUFFICES ASSUME NEW v \in Upload, Residue(v)' PROVE upload'[v] # Absent
    BY DEF ResidueHasUploadId
  <2>1. Remains(v) /\ upload[v] # Absent
    BY <1>3, ResidueIs DEF ResidueInv, ResidueHasUploadId
  <2>2. QED
    BY <1>1, <1>5, <2>1 DEF LateFor
<1>8. Swept'
  <2> SUFFICES ASSUME NEW h \in Handler PROVE SweptBy(h)'
    BY DEF Swept
  <2>0. SweptBy(h) /\ Here(h)
    BY AtHand DEF ResidueInv, Swept
  <2>1. CASE pc[h] = "idle" \/ req[h].op \notin {"complete", "abort"}
    BY <1>1, <2>1 DEF SweptBy, Types, Doing, Cleaning, Aborting
  <2>2. CASE pc[h] # "idle"
    <3>1. req[h].u \in Upload
      BY <2>0, <2>2 DEF Here
    <3>2. \A n \in Part : NoFiles(req[h].u, n) => NoFiles(req[h].u, n)'
      BY <1>1, <3>1 DEF NoFiles
    <3>3. AllListed(h) => AllListed(h)'
      BY <1>1, <3>1 DEF AllListed
    <3>4. pc[h] = "c_del_info" => i[h] \in Part
      BY <2>0 DEF Here
    <3>5. QED
      BY <1>1, <2>0, <3>1, <3>2, <3>3, <3>4 DEF SweptBy
  <2>3. QED
    BY <2>1, <2>2
<1>9. QED
  BY <1>2, <1>4, <1>6, <1>7, <1>8 DEF ResidueInv

\* Every step keeps it.
LEMMA NextResidue == ASSUME Orderly, Types, DataInv, ResidueInv, [Next]_vars PROVE ResidueInv'
<1>1. CASE UNCHANGED vars
  BY <1>1 DEF vars, disk, local, hist, ResidueInv, Known, Exclusive, Started, Swept, SweptBy, AllListed, NoFiles, Late, LateFor, Remains,
     ResidueHasUploadId, Residue, Present
<1>2. ASSUME NEW h \in Handler, Progress(h) PROVE ResidueInv'
  <2>1. Started' /\ Swept'
    BY <1>2, OthersKept, OwnStarted, OwnSwept DEF ResidueInv, Started, Swept
  <2>2. ResidueHasUploadId'
    BY <1>2, ResidueKept DEF ResidueInv, ResidueHasUploadId
  <2>3. QED
    BY <1>2, <2>1, <2>2, OthersKept, LateKept DEF ResidueInv
<1>3. QED
  BY <1>1, <1>2, BeginResidue, FaultResidue, PoolResidue DEF Next

\* Whatever is left of an upload on the disk, its upload ID is there too, so that an abort
\* can be sent again (the order of removals in complete_multipart_upload and
\* abort_multipart_upload): with any number of uploads, handlers, parts, failures and
\* crashes, and with removals that outlive the handler that asked for them, as long as
\* clients wait for their answers, complete with all their parts and upload nothing once
\* an abort was let in.
THEOREM ResidueHasUploadIdHolds ==
    ASSUME Orderly PROVE Spec => []ResidueHasUploadId
<1>1. Init => ResidueInv
  <2>1. Init => Known /\ Exclusive /\ Started /\ Swept /\ Late
    BY DEF Init, Known, Exclusive, Started, Swept, SweptBy, Late
  <2>2. Init => \A u \in Upload : ~Remains(u)
    BY DEF Init, Remains, NoFiles
  <2>3. Init => ResidueHasUploadId
    BY <2>2, ResidueIs DEF ResidueHasUploadId
  <2>4. QED
    BY <2>1, <2>3 DEF ResidueInv
<1>2. ResidueInv => ResidueHasUploadId
  BY DEF ResidueInv
<1>3. Types /\ DataInv /\ ResidueInv /\ [Next]_vars => ResidueInv'
  BY NextResidue
<1>4. QED
  BY <1>1, <1>2, <1>3, DataInvariant, PTL DEF Spec

=============================================================================

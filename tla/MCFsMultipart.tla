---------------------------- MODULE MCFsMultipart ----------------------------
(* FsMultipart on small instances: one or two handlers, one upload.         *)
EXTENDS FsMultipart, TLC

CONSTANTS h1, h2, u1, k1, k2, p1, p2

Create(u, k) == [op |-> "create", u |-> u, cred |-> k]
UploadPart(u, k, n, body, want) ==
    [op |-> "upload_part", u |-> u, cred |-> k, n |-> n, body |-> body, want |-> want]
UploadPartCopy(u, k, n, body) ==
    [op |-> "upload_part_copy", u |-> u, cred |-> k, n |-> n, body |-> body, want |-> Absent]
Complete(u, k, parts, want, cond) ==
    [op |-> "complete", u |-> u, cred |-> k, parts |-> parts, want |-> want, cond |-> cond]
Abort(u, k) == [op |-> "abort", u |-> u, cred |-> k]

MCTwoHandlers == {h1, h2}
MCSymmetry == Permutations(MCTwoHandlers)

\* Everything that can happen to one upload, another access key included.
MCRaceRequest ==
    {Create(u1, k1), Abort(u1, k1),
     UploadPart(u1, k1, 1, p1, Absent), UploadPart(u1, k1, 1, p2, Absent),
     UploadPart(u1, k2, 1, p2, Absent), UploadPartCopy(u1, k1, 2, p2),
     Complete(u1, k1, <<p1, Absent>>, <<p1, p2>>, <<"absent">>),
     Complete(u1, k1, <<Absent>>, Absent, <<"etag", <<p1, p2>>>>)}

\* A client that uploads two parts, one of them with a wrong digest at times, completes with
\* both or aborts, and sends the abort again when it failed.
MCRetryRequest ==
    {Create(u1, k1), Abort(u1, k1),
     UploadPart(u1, k1, 1, p1, p1), UploadPart(u1, k1, 2, p2, Absent), UploadPart(u1, k1, 2, p2, p1),
     Complete(u1, k1, <<p1, p2>>, Absent, Absent)}

\* One client, one request at a time: two parts uploaded, one of them listed.
MCUnlistedRequest ==
    {Create(u1, k1), UploadPart(u1, k1, 1, p1, Absent), UploadPart(u1, k1, 2, p2, Absent),
     Complete(u1, k1, <<Absent>>, Absent, Absent)}
=============================================================================

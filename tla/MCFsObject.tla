----------------------------- MODULE MCFsObject -----------------------------
(* FsObject on small instances: two handlers and two keys.                 *)
EXTENDS FsObject, TLC

CONSTANTS h1, h2, k1, k2, a, b, m0, m1, x1, x2, x3, x4

Put(k, body, at, cond) == [op |-> "put", key |-> k, body |-> body, want |-> Absent,
                           attrs |-> at, cond |-> cond]
PutBad(k) == [op |-> "put", key |-> k, body |-> a, want |-> b, attrs |-> m0, cond |-> Absent]
Get(k) == [op |-> "get", key |-> k]
Head(k) == [op |-> "head", key |-> k]
Delete(k) == [op |-> "delete", key |-> k]
DeleteAll(k) == [op |-> "delete_objects", keys |-> {k}]
Copy(s, k, at, cond) == [op |-> "copy", src |-> s, key |-> k, attrs |-> at, cond |-> cond]

MCHandler == {h1, h2}
MCInode == {x1, x2, x3, x4}
MCSymmetry == Permutations(MCHandler) \cup Permutations(MCInode)

\* k2 is an object that is only read; everything can happen to k1, a copy of k2 and of
\* itself included.
MCStored == k2 :> [body |-> b, attrs |-> m1]
MCRequest == {Put(k1, a, m0, Absent), Put(k1, b, m1, <<"etag", a>>), PutBad(k1),
              Put(k1, b, m0, <<"present">>), Put(k1, a, m1, <<"absent">>),
              Get(k1), Head(k1), Delete(k1), DeleteAll(k1),
              Copy(k1, k1, m1, <<"not_etag", b>>), Copy(k2, k1, Absent, Absent)}

\* Two clients that create the same object, each with If-None-Match: *.
MCCreateRequest == {Put(k1, a, m0, <<"absent">>), Put(k1, b, m0, <<"absent">>)}
=============================================================================

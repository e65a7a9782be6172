------------------------------ MODULE FsObject ------------------------------
(***************************************************************************)
(* Single-request object operations of crates/s3s-fs/src/s3.rs on one      *)
(* bucket: put, get, head, delete, delete_objects and copy.  An object is  *)
(* three files: its bytes, an attributes sidecar and an internal-info      *)
(* sidecar with its ETag and checksums.  No lock spans the three, so       *)
(* handlers interleave between them at every await.                        *)
(*                                                                         *)
(* Paths name inodes, because the two ways of writing differ there: a put  *)
(* renames a new file over the path, a copy truncates the file that is     *)
(* there and fills it in place.  Digests are collision free: an ETag is    *)
(* identified with the bytes it was computed from.  Sidecar saves are      *)
(* atomic (FileWriter).                                                    *)
(***************************************************************************)
EXTENDS Naturals, FiniteSets

CONSTANTS Handler,   \* tasks serving requests
          Key,       \* object keys
          Payload,   \* object contents
          Attr,      \* attribute sets of a request, the empty one among them
          Inode,     \* files that can exist at the same time
          Absent,    \* no file, no header
          Torn,      \* what a file or sidecar holds while fs::copy fills it
          Stored,    \* the objects in place when the process starts: body and attributes
          Request,   \* the requests that clients send
          MaxFaults  \* bound: failures, cancellations and crashes

Opt(S) == S \cup {Absent}

\* If-None-Match: *, If-Match: *, If-Match: <etag>; for copies the two ETag
\* conditions on the source.
Cond == {<<"absent">>, <<"present">>} \cup ({"etag", "not_etag"} \X Payload)

PutReq    == [op : {"put"}, key : Key, body : Payload, want : Opt(Payload),
              attrs : Attr, cond : Opt(Cond)]
ReadReq   == [op : {"get", "head"}, key : Key]
DeleteReq == [op : {"delete"}, key : Key] \cup [op : {"delete_objects"}, keys : SUBSET Key]
CopyReq   == [op : {"copy"}, src : Key, key : Key, attrs : Opt(Attr), cond : Opt(Cond)]

ASSUME FsObjectAssumption ==
    /\ MaxFaults \in Nat
    /\ Request \subseteq PutReq \cup ReadReq \cup DeleteReq \cup CopyReq
    /\ Torn \notin Opt(Payload) \cup Opt(Attr)
    /\ Absent \notin Payload \cup Attr \cup Inode \cup Request
    /\ \E ks \in SUBSET Key : Stored \in [ks -> [body : Payload, attrs : Attr]]

VARIABLES
    ino,       \* the file at every object path
    data,      \* what every file holds
    attrs,     \* the attributes sidecars
    info,      \* the internal-info sidecars: the ETag
    pc,        \* where every handler is
    t,         \* its request and local variables
    faults,    \* bound
    tainted,   \* history: keys last written by overlapping or interrupted requests
    truth      \* history: the attributes every other key was last written with

disk == <<ino, data, attrs, info>>
hist == <<tainted, truth>>
vars == <<disk, pc, t, faults, hist>>

\* The last three fields are history.
Task == [req        : Opt(Request),
         fd         : Opt(Inode),             \* the file a reader, or a copy's source, has open
         out        : Opt(Inode),             \* the file a copy is filling
         etag       : Opt(Payload) \cup {Torn},  \* the ETag to answer; copy: src_etag
         meta       : Opt(Attr) \cup {Torn},  \* the attributes to answer, or to copy
         bytes      : Opt(Payload) \cup {Torn},  \* the bytes, or the length, to answer
         left       : SUBSET Key,             \* delete_objects: keys still to visit
         lost       : BOOLEAN,                \* dropped; its file operation still runs
         opened     : Opt(Payload) \cup {Torn},  \* what a reader's file held at first
         overcopied : BOOLEAN,                \* a copy onto its key ran meanwhile
         solo       : BOOLEAN]                \* no conflicting request has overlapped

NoTask == [req |-> Absent, fd |-> Absent, out |-> Absent, etag |-> Absent, meta |-> Absent,
           bytes |-> Absent, left |-> {}, lost |-> FALSE, opened |-> Absent, overcopied |-> FALSE, solo |-> TRUE]

Putting   == {"p_exists", "p_etag", "p_body", "p_done", "p_attrs", "p_info"}
Reading   == {"g_open", "g_attrs", "g_info", "g_body"}
Deleting  == {"d_exists", "d_remove", "m_remove"}
Copying   == {"c_exists", "c_info", "c_open", "c_fill", "c_etag", "c_attrs",
              "c_sidecar", "c_save"}
InFlight  == Putting \cup Reading \cup Deleting \cup Copying
\* Handlers that have changed some but not all of the three files.
HalfDone  == {"p_attrs", "p_info", "c_fill", "c_etag", "c_attrs", "c_sidecar", "c_save"}

TypeOK ==
    /\ ino \in [Key -> Opt(Inode)]
    /\ data \in [Inode -> Opt(Payload) \cup {Torn}]
    /\ attrs \in [Key -> Opt(Attr) \cup {Torn}]
    /\ info \in [Key -> Opt(Payload) \cup {Torn}]
    /\ pc \in [Handler -> {"idle", "ok", "err"} \cup InFlight]
    /\ t \in [Handler -> Task]
    /\ faults \in 0..MaxFaults
    /\ tainted \subseteq Key
    /\ truth \in [Key -> Opt(Attr) \cup {Torn}]
    \* a path names a file that exists, and no other path names it
    /\ \A k \in Key : ino[k] # Absent => data[ino[k]] # Absent
    /\ \A k, l \in Key : ino[k] # Absent /\ ino[k] = ino[l] => k = l

Init ==
    /\ ino \in [Key -> Opt(Inode)]
    /\ \A k \in Key : ino[k] = Absent <=> k \notin DOMAIN Stored
    /\ \A k, l \in DOMAIN Stored : ino[k] = ino[l] => k = l
    /\ data = [x \in Inode |-> IF \E k \in DOMAIN Stored : ino[k] = x
                              THEN Stored[CHOOSE k \in DOMAIN Stored : ino[k] = x].body ELSE Absent]
    /\ attrs = [k \in Key |-> IF k \in DOMAIN Stored THEN Stored[k].attrs ELSE Absent]
    /\ info = [k \in Key |-> IF k \in DOMAIN Stored THEN Stored[k].body ELSE Absent]
    /\ pc = [h \in Handler |-> "idle"]
    /\ t = [h \in Handler |-> NoTask]
    /\ faults = 0
    /\ tainted = {}
    /\ truth = attrs

-----------------------------------------------------------------------------
Goto(h, to) == pc' = [pc EXCEPT ![h] = to]
Fault == faults < MaxFaults /\ faults' = faults + 1

Writes(r) == CASE r.op \in {"put", "delete", "copy"} -> {r.key}
               [] r.op = "delete_objects" -> r.keys
               [] r.op \in {"get", "head"} -> {}
Touches(r) == CASE r.op = "copy" -> {r.src, r.key}
                [] r.op \in {"get", "head"} -> {r.key}
                [] OTHER -> Writes(r)

\* g's request can change what r's uses.
Disturbs(g, r) == pc[g] # "idle" /\ Writes(t[g].req) \cap Touches(r) # {}
DisturbedBy(g, r) == pc[g] # "idle" /\ Writes(r) \cap Touches(t[g].req) # {}
CopiesOnto(g, r) == Disturbs(g, r) /\ t[g].req.op = "copy"

\* A put without conditions looks at nothing before its body is stored.
First(r) == CASE r.op = "put" -> IF r.cond = Absent THEN "p_body" ELSE "p_exists"
              [] r.op \in {"get", "head"} -> "g_open"
              [] r.op = "delete" -> "d_exists"
              [] r.op = "delete_objects" -> "m_remove"
              [] r.op = "copy" -> "c_exists"

Begin(h, r) ==
    /\ pc[h] = "idle"
    /\ Goto(h, First(r))
    /\ t' = [g \in Handler |->
               IF g = h
               THEN [NoTask EXCEPT !.req = r,
                                   !.left = IF r.op = "delete_objects" THEN r.keys ELSE {},
                                   !.solo = \A x \in Handler : ~Disturbs(x, r),
                                   !.overcopied = \E x \in Handler : CopiesOnto(x, r)]
               ELSE [t[g] EXCEPT !.solo = @ /\ ~DisturbedBy(g, r),
                                 !.overcopied = @ \/ (r.op = "copy" /\ DisturbedBy(g, r))]]
    /\ tainted' = tainted
         \cup (IF \E g \in Handler : Disturbs(g, r) THEN Writes(r) ELSE {})
         \cup UNION {Writes(t[g].req) : g \in {x \in Handler : DisturbedBy(x, r)}}
    /\ UNCHANGED <<disk, faults, truth>>

\* A file nobody can reach any more is gone.
Reachable(x) == \/ \E k \in Key : ino[k] = x
                \/ \E h \in Handler : x \in {t[h].fd, t[h].out}
Settle(d) == data' = [x \in Inode |-> IF Reachable(x)' THEN d[x] ELSE Absent]

-----------------------------------------------------------------------------
(* put_object *)

\* The ETag the object at k has now: the stored one, or else its MD5.
CurrentETag(k) == IF info[k] # Absent THEN info[k] ELSE data[ino[k]]

\* What the conditions of a put require of the object at k, split as the code
\* splits them: the path exists or not, then the ETag.
ExistsHolds(c, k) ==
    c # Absent => IF c[1] = "absent" THEN ino[k] = Absent ELSE ino[k] # Absent

PutExists(h) ==
    LET r == t[h].req IN
    /\ pc[h] = "p_exists"
    /\ Goto(h, IF ~ExistsHolds(r.cond, r.key) THEN "err"
               ELSE IF r.cond[1] = "etag" THEN "p_etag" ELSE "p_body")
    /\ UNCHANGED <<disk, t, faults, hist>>

\* An object whose bytes are gone and that has no stored ETag is an error.
ETagHolds(c, k) ==
    (c # Absent /\ c[1] = "etag") =>
        (info[k] # Absent \/ ino[k] # Absent) /\ CurrentETag(k) = c[2]

PutETag(h) ==
    LET r == t[h].req IN
    /\ pc[h] = "p_etag"
    /\ Goto(h, IF ETagHolds(r.cond, r.key) THEN "p_body" ELSE "err")
    /\ UNCHANGED <<disk, t, faults, hist>>

\* The body is streamed to a temporary; Content-MD5 and the checksums in headers
\* or trailers are compared with what arrived.
PutBody(h) ==
    /\ pc[h] = "p_body"
    /\ Goto(h, IF t[h].req.want \in {Absent, t[h].req.body} THEN "p_done" ELSE "err")
    /\ UNCHANGED <<disk, t, faults, hist>>

\* Mutant: an existing object is overwritten in place.
PutInPlace(h) ==
    /\ pc[h] = "p_done"
    /\ UNCHANGED t
    /\ \E x \in Inode :
        /\ IF ino[t[h].req.key] = Absent THEN data[x] = Absent ELSE x = ino[t[h].req.key]
        /\ ino' = [ino EXCEPT ![t[h].req.key] = x]
        /\ Settle([data EXCEPT ![x] = t[h].req.body])
    /\ Goto(h, "p_attrs")
    /\ UNCHANGED <<attrs, info, faults, hist>>

\* file_writer.done: a new file takes the path.
PutRename(h) ==
    /\ pc[h] = "p_done"
    /\ UNCHANGED t
    /\ \E x \in Inode :
        /\ data[x] = Absent
        /\ ino' = [ino EXCEPT ![t[h].req.key] = x]
        /\ Settle([data EXCEPT ![x] = t[h].req.body])
    /\ Goto(h, "p_attrs")
    /\ UNCHANGED <<attrs, info, faults, hist>>

\* The attributes are saved even when the request has none.
PutAttrs(h) ==
    /\ pc[h] = "p_attrs"
    /\ attrs' = [attrs EXCEPT ![t[h].req.key] = t[h].req.attrs]
    /\ Goto(h, "p_info")
    /\ UNCHANGED <<ino, data, info, t, faults, hist>>

PutInfo(h) ==
    /\ pc[h] = "p_info"
    /\ info' = [info EXCEPT ![t[h].req.key] = t[h].req.body]
    /\ Goto(h, "ok")
    /\ UNCHANGED <<ino, data, attrs, t, faults, hist>>

-----------------------------------------------------------------------------
(* get_object, head_object *)

\* get opens the file and streams from it after the headers; head only asks for
\* its length, which stands for its bytes here.
Open(h) ==
    LET x == ino[t[h].req.key] IN
    /\ pc[h] = "g_open"
    /\ \/ x = Absent /\ Goto(h, "err") /\ UNCHANGED t
       \/ /\ x # Absent
          /\ t' = [t EXCEPT ![h].opened = data[x],
                            ![h].fd = IF t[h].req.op = "get" THEN x ELSE Absent,
                            ![h].bytes = IF t[h].req.op = "get" THEN Absent ELSE data[x]]
          /\ Goto(h, "g_attrs")
    /\ UNCHANGED <<disk, faults, hist>>

\* Mutant: the attributes are not loaded.
LoadNoAttrs(h) ==
    /\ pc[h] = "g_attrs"
    /\ Goto(h, "g_info")
    /\ UNCHANGED <<disk, t, faults, hist>>

\* A sidecar that is not there, or does not parse, counts as no attributes.
LoadAttrs(h) ==
    LET at == attrs[t[h].req.key] IN
    /\ pc[h] = "g_attrs"
    /\ t' = [t EXCEPT ![h].meta = IF at = Torn THEN Absent ELSE at]
    /\ Goto(h, "g_info")
    /\ UNCHANGED <<disk, faults, hist>>

\* Without a stored ETag the path is opened again to compute one.
LoadInfo(h) ==
    LET k == t[h].req.key IN
    /\ pc[h] = "g_info"
    /\ IF info[k] = Absent /\ ino[k] = Absent
       THEN Goto(h, "err") /\ UNCHANGED t
       ELSE /\ t' = [t EXCEPT ![h].etag = CurrentETag(k)]
            /\ Goto(h, IF t[h].req.op = "get" THEN "g_body" ELSE "ok")
    /\ UNCHANGED <<disk, faults, hist>>

StreamBody(h) ==
    /\ pc[h] = "g_body"
    /\ t' = [t EXCEPT ![h].bytes = data[t[h].fd]]
    /\ Goto(h, "ok")
    /\ UNCHANGED <<disk, faults, hist>>

-----------------------------------------------------------------------------
(* delete_object, delete_objects: the sidecars stay *)

DeleteExists(h) ==
    /\ pc[h] = "d_exists"
    /\ Goto(h, IF ino[t[h].req.key] = Absent THEN "ok" ELSE "d_remove")
    /\ UNCHANGED <<disk, t, faults, hist>>

\* The file stays as long as somebody has it open.
Unlink(k) ==
    /\ ino' = [ino EXCEPT ![k] = Absent]
    /\ UNCHANGED <<attrs, info>>
    /\ Settle(data)

\* delete_object answers with an error if the file went away since it looked.
DeleteRemove(h) ==
    /\ pc[h] = "d_remove"
    /\ UNCHANGED t
    /\ Goto(h, IF ino[t[h].req.key] = Absent THEN "err" ELSE "ok")
    /\ Unlink(t[h].req.key)
    /\ UNCHANGED <<faults, hist>>

\* delete_objects takes a missing file for a deleted one.
DeleteOne(h, k) ==
    /\ pc[h] = "m_remove"
    /\ k \in t[h].left
    /\ t' = [t EXCEPT ![h].left = @ \ {k}]
    /\ Unlink(k)
    /\ UNCHANGED <<pc, faults, hist>>

DeleteAllDone(h) ==
    /\ pc[h] = "m_remove"
    /\ t[h].left = {}
    /\ Goto(h, "ok")
    /\ UNCHANGED <<disk, t, faults, hist>>

-----------------------------------------------------------------------------
(* copy_object *)

CopyExists(h) ==
    /\ pc[h] = "c_exists"
    /\ Goto(h, IF ino[t[h].req.src] = Absent THEN "err" ELSE "c_info")
    /\ UNCHANGED <<disk, t, faults, hist>>

\* src_info is loaded before the bytes are copied.  A condition on the ETag of a
\* source that has none stored computes it from the source's bytes.
SourceCondHolds(c, e) ==
    c # Absent => \/ c[1] = "present"
                  \/ c[1] = "etag" /\ e = c[2]
                  \/ c[1] = "not_etag" /\ e # c[2]

CopyLoadInfo(h) ==
    LET r == t[h].req IN
    /\ pc[h] = "c_info"
    /\ IF r.cond # Absent /\ info[r.src] = Absent /\ ino[r.src] = Absent
       THEN Goto(h, "err") /\ UNCHANGED t
       ELSE LET e == IF r.cond = Absent THEN info[r.src] ELSE CurrentETag(r.src) IN
            IF SourceCondHolds(r.cond, e)
            THEN t' = [t EXCEPT ![h].etag = e] /\ Goto(h, "c_open")
            ELSE Goto(h, "err") /\ UNCHANGED t
    /\ UNCHANGED <<disk, faults, hist>>

\* fs::copy opens both files and truncates the destination's, in place if there
\* is one.  A copy onto itself only touches the modification time.
CopyOpen(h) ==
    LET s == t[h].req.src
        k == t[h].req.key
    IN
    /\ pc[h] = "c_open"
    /\ \/ ino[s] = Absent /\ Goto(h, "err") /\ UNCHANGED <<ino, data, t>>
       \/ ino[s] # Absent /\ s = k /\ Goto(h, "c_etag") /\ UNCHANGED <<ino, data, t>>
       \/ /\ ino[s] # Absent /\ s # k
          /\ \E x \in Inode :
              /\ IF ino[k] = Absent THEN data[x] = Absent ELSE x = ino[k]
              /\ ino' = [ino EXCEPT ![k] = x]
              /\ data' = [data EXCEPT ![x] = Torn]
              /\ t' = [t EXCEPT ![h].out = x, ![h].fd = ino[s]]
          /\ Goto(h, "c_fill")
    /\ UNCHANGED <<attrs, info, faults, hist>>

CopyFill(h) ==
    /\ pc[h] = "c_fill"
    /\ t' = [t EXCEPT ![h].fd = Absent, ![h].out = Absent]
    /\ UNCHANGED ino
    /\ Settle([data EXCEPT ![t[h].out] = data[t[h].fd]])
    /\ Goto(h, IF t[h].lost THEN "err" ELSE "c_etag")
    /\ UNCHANGED <<attrs, info, faults, hist>>

\* After fs::copy the destination is looked at again for its time: it may have
\* been removed.  It gets the source's ETag; if the source had none, the MD5 of
\* what is at the destination by now.
CopyETag(h) ==
    LET k == t[h].req.key IN
    /\ pc[h] = "c_etag"
    /\ IF ino[k] = Absent /\ (t[h].etag = Absent \/ t[h].req.src # k)
       THEN Goto(h, "err") /\ UNCHANGED t
       ELSE /\ t' = [t EXCEPT ![h].etag = IF @ # Absent THEN @ ELSE data[ino[k]]]
            /\ Goto(h, "c_attrs")
    /\ UNCHANGED <<disk, faults, hist>>

\* REPLACE saves the request's attributes; COPY copies the source's sidecar, if
\* there is one and it is another file, in place.
CopyAttrs(h) ==
    LET r == t[h].req IN
    /\ pc[h] = "c_attrs"
    /\ \/ /\ r.attrs # Absent
          /\ attrs' = [attrs EXCEPT ![r.key] = r.attrs]
          /\ Goto(h, "c_save")
          /\ UNCHANGED t
       \/ /\ r.attrs = Absent
          /\ attrs[r.src] = Absent \/ r.src = r.key
          /\ Goto(h, "c_save")
          /\ UNCHANGED <<attrs, t>>
       \/ /\ r.attrs = Absent
          /\ attrs[r.src] # Absent /\ r.src # r.key
          /\ attrs' = [attrs EXCEPT ![r.key] = Torn]
          /\ t' = [t EXCEPT ![h].meta = attrs[r.src]]
          /\ Goto(h, "c_sidecar")
    /\ UNCHANGED <<ino, data, info, faults, hist>>

\* A sidecar that was renamed over the torn one in the meantime is left alone.
CopySidecar(h) ==
    LET k == t[h].req.key IN
    /\ pc[h] = "c_sidecar"
    /\ \/ attrs' = [attrs EXCEPT ![k] = t[h].meta]
       \/ attrs[k] # Torn /\ UNCHANGED attrs
    /\ Goto(h, IF t[h].lost THEN "err" ELSE "c_save")
    /\ UNCHANGED <<ino, data, info, t, faults, hist>>

\* Mutant: internal info that the destination already has is kept.
CopySaveInfoIfMissing(h) ==
    /\ pc[h] = "c_save"
    /\ info' = [info EXCEPT ![t[h].req.key] = IF @ = Absent THEN t[h].etag ELSE @]
    /\ Goto(h, "ok")
    /\ UNCHANGED <<ino, data, attrs, t, faults, hist>>

CopySaveInfo(h) ==
    /\ pc[h] = "c_save"
    /\ info' = [info EXCEPT ![t[h].req.key] = t[h].etag]
    /\ Goto(h, "ok")
    /\ UNCHANGED <<ino, data, attrs, t, faults, hist>>

-----------------------------------------------------------------------------
Close(hs) ==
    /\ pc' = [h \in Handler |-> IF h \in hs THEN "idle" ELSE pc[h]]
    /\ t' = [h \in Handler |-> IF h \in hs THEN NoTask ELSE t[h]]
    /\ UNCHANGED <<ino, attrs, info>>
    /\ Settle(data)

\* The answer is sent.  A put that nothing overlapped leaves its key in order; a
\* copy does if its source is.
Respond(h) ==
    LET r == t[h].req
        done == pc[h] = "ok" /\ r.op \in {"put", "copy"} /\ t[h].solo
        sound == r.op = "put" \/ (r.op = "copy" /\ r.src \notin tainted)
    IN
    /\ pc[h] \in {"ok", "err"}
    /\ tainted' = IF ~done THEN tainted
                  ELSE IF sound THEN tainted \ {r.key} ELSE tainted \cup {r.key}
    /\ truth' = IF ~(done /\ sound) THEN truth
                ELSE [truth EXCEPT ![r.key] =
                        IF r.op = "copy" /\ r.attrs = Absent THEN truth[r.src] ELSE r.attrs]
    /\ Close({h})
    /\ UNCHANGED faults

\* Writers that are cut short among the three files, or not heard of again.
Taint(hs) ==
    LET cut == {h \in hs : pc[h] \in HalfDone \/ (pc[h] = "ok" /\ t[h].req.op \in {"put", "copy"})} IN
    tainted' = tainted \cup UNION {Writes(t[h].req) : h \in cut}

\* A file operation fails and the error is returned.
Fail(h) ==
    /\ pc[h] \in InFlight
    /\ Fault
    /\ Taint({h})
    /\ Goto(h, "err")
    /\ UNCHANGED <<disk, t, truth>>

\* The connection is closed and the handler dropped at an await.
Cancel(h) ==
    /\ pc[h] \in InFlight
    /\ Fault
    /\ Taint({h})
    /\ Close({h})
    /\ UNCHANGED truth

\* The same, but the handler has a removal or an fs::copy on the blocking pool,
\* which runs to its end without it.
CancelDetached(h) ==
    /\ pc[h] \in {"d_remove", "m_remove", "c_fill", "c_sidecar"}
    /\ Fault
    /\ Taint({h})
    /\ \E ks \in SUBSET t[h].left :
        /\ Cardinality(ks) = IF pc[h] = "m_remove" THEN 1 ELSE 0
        /\ t' = [t EXCEPT ![h].lost = TRUE, ![h].left = ks]
    /\ UNCHANGED <<disk, pc, truth>>

\* The process dies and is started again on the same root.
Crash ==
    /\ Fault
    /\ Taint(Handler)
    /\ Close(Handler)
    /\ UNCHANGED truth

Progress(h) ==
    \/ PutExists(h) \/ PutETag(h) \/ PutBody(h) \/ PutRename(h) \/ PutAttrs(h) \/ PutInfo(h)
    \/ Open(h) \/ LoadAttrs(h) \/ LoadInfo(h) \/ StreamBody(h)
    \/ DeleteExists(h) \/ DeleteRemove(h) \/ (\E k \in Key : DeleteOne(h, k)) \/ DeleteAllDone(h)
    \/ CopyExists(h) \/ CopyLoadInfo(h) \/ CopyOpen(h) \/ CopyFill(h) \/ CopyETag(h)
    \/ CopyAttrs(h) \/ CopySidecar(h) \/ CopySaveInfo(h)
    \/ Respond(h)

Next ==
    \/ \E h \in Handler :
        \/ \E r \in Request : Begin(h, r)
        \/ Progress(h) \/ Fail(h) \/ Cancel(h) \/ CancelDetached(h)
    \/ Crash

Spec == Init /\ [][Next]_vars

-----------------------------------------------------------------------------
Quiet(k) == \A h \in Handler : pc[h] # "idle" => k \notin Writes(t[h].req)

\* An object written by requests that neither overlapped nor were cut short is
\* whole, and its ETag and attributes are those of its bytes, although delete
\* leaves sidecars of earlier objects behind and a torn state may have been
\* there before: an undisturbed put repairs it (put_object, copy_object).
QuietObjectConsistent ==
    \A k \in Key : Quiet(k) /\ k \notin tainted /\ ino[k] # Absent =>
        /\ data[ino[k]] \in Payload
        /\ info[k] = data[ino[k]]
        /\ attrs[k] = truth[k]

\* A read that no write of its key overlaps answers with bytes, ETag and
\* attributes of one and the same object (get_object, head_object).
QuietReadConsistent ==
    \A h \in Handler :
        pc[h] = "ok" /\ t[h].req.op \in {"get", "head"} /\ t[h].solo /\ t[h].req.key \notin tainted =>
            t[h].etag = t[h].bytes /\ t[h].meta = truth[t[h].req.key]

\* A get streams the bytes it opened, whatever puts and deletes run meanwhile:
\* only a copy onto its key, which writes in place, can change them under it
\* (get_object; FileWriter::done against fs::copy).
OnlyCopyDisturbsReaders ==
    \A h \in Handler :
        pc[h] = "ok" /\ t[h].req.op = "get" /\ ~t[h].overcopied => t[h].bytes = t[h].opened

\* A conditional put replaces the object only if its condition holds at that
\* moment: If-None-Match: * "only create if the object doesn't exist", If-Match
\* "only overwrite if ETag matches (CAS)".
ConditionHoldsAtRename ==
    [][\A h \in Handler : pc[h] = "p_done" /\ pc'[h] = "p_attrs" =>
            /\ ExistsHolds(t[h].req.cond, t[h].req.key)
            /\ ETagHolds(t[h].req.cond, t[h].req.key)]_vars
=============================================================================

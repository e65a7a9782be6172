--------------------------- MODULE FsObjectProofs ---------------------------
(***************************************************************************)
(* What the object operations promise for any number of handlers, keys,    *)
(* contents and files, with failures, cancellations and crashes at every   *)
(* step.                                                                   *)
(***************************************************************************)
EXTENDS FsObject, TLAPS

Active(h) == pc[h] # "idle"
W(h) == Writes(t[h].req)
\* The key whose file a reader, or a copy of its source, opens.
FdKey(r) == IF r.op = "copy" THEN r.src ELSE r.key

\* Where a handler is says what its request is and which files it has open.
DoingAt(h) ==
    /\ Active(h) => t[h].req \in Request
    /\ pc[h] = "idle" => t[h] = NoTask
    /\ pc[h] \in Putting => t[h].req.op = "put"
    /\ pc[h] \in Reading => t[h].req.op \in {"get", "head"}
    /\ pc[h] = "g_body" => t[h].req.op = "get"
    /\ pc[h] \in {"g_attrs", "g_info", "g_body"} /\ t[h].req.op = "get" => t[h].fd \in Inode
    /\ pc[h] \in {"d_exists", "d_remove"} => t[h].req.op = "delete"
    /\ pc[h] = "m_remove" => t[h].req.op = "delete_objects"
    /\ pc[h] \in Copying => t[h].req.op = "copy"
    /\ pc[h] = "c_fill" => t[h].fd \in Inode /\ t[h].out \in Inode
    /\ Active(h) /\ t[h].req.op = "delete_objects" => t[h].left \subseteq t[h].req.keys
Doing == \A h \in Handler : DoingAt(h)

\* An open file exists, and is at no path but the one it was opened from.
OpenAt(h) ==
    /\ t[h].fd # Absent =>
         /\ Active(h) /\ t[h].req.op \in {"get", "copy"} /\ data[t[h].fd] # Absent
         /\ \A k \in Key : ino[k] = t[h].fd => k = FdKey(t[h].req)
    /\ t[h].out # Absent =>
         /\ Active(h) /\ t[h].req.op = "copy" /\ data[t[h].out] # Absent
         /\ \A k \in Key : ino[k] = t[h].out => k = t[h].req.key
OpenFiles ==
    /\ \A h \in Handler : OpenAt(h)
    /\ \A g, h \in Handler : t[g].fd # Absent /\ t[g].fd = t[h].out => FdKey(t[g].req) = t[h].req.key

Types == TypeOK /\ Doing /\ OpenFiles

\* Requests that overlap know of each other, and their keys are tainted.
Overlap ==
    \A g, h \in Handler : g # h /\ Active(g) /\ Active(h) /\ W(g) \cap Touches(t[h].req) # {} =>
        /\ ~t[h].solo
        /\ t[g].req.op = "copy" => t[h].overcopied
Marked ==
    \A h \in Handler : Active(h) =>
        /\ ~t[h].solo => W(h) \subseteq tainted
        /\ t[h].lost => pc[h] \in {"d_remove", "m_remove", "c_fill", "c_sidecar", "ok", "err"}
        /\ t[h].lost /\ pc[h] \in {"c_fill", "c_sidecar"} => t[h].req.key \in tainted

\* A key that is in order, unless a writer is among its files.
Sound(k) ==
    ino[k] # Absent => /\ data[ino[k]] \in Payload /\ info[k] = data[ino[k]]
                       /\ attrs[k] = truth[k] /\ truth[k] \in Attr
InTheMiddle(h) == pc[h] \in HalfDone \/ (pc[h] = "ok" /\ t[h].req.op \in {"put", "copy"})
Settled(k) == \A h \in Handler : Active(h) /\ InTheMiddle(h) => k \notin W(h)
SettledSound == \A k \in Key : k \notin tainted /\ Settled(k) => Sound(k)

\* How far an undisturbed writer has come.
PutAt(h) ==
    LET r == t[h].req IN
    t[h].solo =>
        /\ pc[h] \in {"p_attrs", "p_info"} \/ (pc[h] = "ok" /\ r.op = "put") =>
             ino[r.key] # Absent /\ data[ino[r.key]] = r.body
        /\ pc[h] = "p_info" \/ (pc[h] = "ok" /\ r.op = "put") => attrs[r.key] = r.attrs
        /\ pc[h] = "ok" /\ r.op = "put" => info[r.key] = r.body

Given(r) == IF r.attrs = Absent THEN truth[r.src] ELSE r.attrs
CopyPlaceAt(h) ==
    LET r == t[h].req IN
    t[h].solo =>
        /\ pc[h] = "c_fill" => r.src # r.key /\ ino[r.key] = t[h].out /\ ino[r.src] = t[h].fd
        /\ pc[h] \in {"c_etag", "c_attrs", "c_sidecar", "c_save"} => ino[r.key] # Absent /\ ino[r.src] # Absent
CopyDataAt(h) ==
    LET r == t[h].req IN
    t[h].solo /\ r.src \notin tainted =>
        /\ pc[h] = "c_open" /\ ino[r.src] # Absent => t[h].etag = data[ino[r.src]]
        /\ pc[h] = "c_fill" => t[h].etag = data[ino[r.src]]
        /\ pc[h] \in {"c_etag", "c_attrs", "c_sidecar", "c_save"} \/ (pc[h] = "ok" /\ r.op = "copy") =>
             ino[r.key] # Absent /\ data[ino[r.key]] = t[h].etag /\ t[h].etag \in Payload
        /\ pc[h] \in {"c_etag", "c_attrs"} /\ r.src = r.key => attrs[r.key] = truth[r.key] /\ truth[r.key] \in Attr
        /\ pc[h] = "c_sidecar" => /\ r.src # r.key /\ r.attrs = Absent
                                  /\ attrs[r.key] = Torn /\ t[h].meta = truth[r.src] /\ truth[r.src] \in Attr
        /\ pc[h] = "c_save" \/ (pc[h] = "ok" /\ r.op = "copy") => attrs[r.key] = Given(r) /\ Given(r) \in Attr
        /\ pc[h] = "ok" /\ r.op = "copy" => info[r.key] = t[h].etag

\* What an undisturbed reader has seen.
ReadAt(h) ==
    LET r == t[h].req IN
    t[h].solo /\ r.key \notin tainted =>
        /\ pc[h] \in {"g_attrs", "g_info", "g_body"} =>
             /\ ino[r.key] # Absent
             /\ IF r.op = "get" THEN t[h].fd = ino[r.key] ELSE t[h].bytes = data[ino[r.key]]
        /\ pc[h] \in {"g_info", "g_body"} \/ (pc[h] = "ok" /\ r.op \in {"get", "head"}) => t[h].meta = truth[r.key]
        /\ pc[h] = "g_body" => t[h].etag = data[ino[r.key]]
        /\ pc[h] = "ok" /\ r.op \in {"get", "head"} => t[h].etag = t[h].bytes

\* What a reader that no copy wrote over sees.
StreamAt(h) ==
    t[h].req.op = "get" /\ ~t[h].overcopied =>
        /\ pc[h] \in {"g_attrs", "g_info", "g_body"} => data[t[h].fd] = t[h].opened
        /\ pc[h] = "ok" => t[h].bytes = t[h].opened

KnownAt(h) == Active(h) => /\ t[h].req.op = "put" => PutAt(h)
                           /\ t[h].req.op = "copy" => CopyPlaceAt(h) /\ CopyDataAt(h)
                           /\ t[h].req.op \in {"get", "head"} => ReadAt(h)
                           /\ StreamAt(h)
Inv == Overlap /\ Marked /\ SettledSound /\ \A h \in Handler : KnownAt(h)

-----------------------------------------------------------------------------
(* Types *)

\* What is in a request, by its operation.
LEMMA Requests ==
    ASSUME NEW r \in Request
    PROVE  /\ r.op \in {"put", "get", "head", "delete", "delete_objects", "copy"}
           /\ r.op # "delete_objects" => r.key \in Key
           /\ r.op = "delete_objects" => r.keys \subseteq Key
           /\ r.op = "put" => r.body \in Payload /\ r.attrs \in Attr
           /\ r.op = "copy" => r.src \in Key /\ r.attrs \in Opt(Attr)
BY FsObjectAssumption DEF PutReq, ReadReq, DeleteReq, CopyReq

\* The keys a request writes and touches.
LEMMA WriteSets ==
    ASSUME NEW r \in Request
    PROVE  /\ Writes(r) \subseteq Key /\ Writes(r) \subseteq Touches(r) /\ Touches(r) \subseteq Key
           /\ r.op \in {"put", "delete", "copy"} => Writes(r) = {r.key}
           /\ r.op \in {"get", "head"} => Writes(r) = {} /\ Touches(r) = {r.key}
           /\ r.op = "delete_objects" => Writes(r) = r.keys
           /\ r.op = "copy" => Touches(r) = {r.src, r.key}
           /\ r.op \in {"put", "delete"} => Touches(r) = {r.key}
BY Requests DEF Writes, Touches

\* What the request in hand has, by the place of its handler.
Here(h) ==
    /\ t[h] \in Task
    /\ t[h].fd \in Opt(Inode) /\ t[h].out \in Opt(Inode) /\ t[h].left \subseteq Key
    /\ t[h].etag \in Opt(Payload) \cup {Torn} /\ t[h].bytes \in Opt(Payload) \cup {Torn}
    /\ t[h].meta \in Opt(Attr) \cup {Torn}
    /\ Active(h) => /\ t[h].req \in Request
                    /\ t[h].req.op \in {"put", "get", "head", "delete", "delete_objects", "copy"}
                    /\ t[h].req.op # "delete_objects" => t[h].req.key \in Key
                    /\ t[h].req.op = "delete_objects" => t[h].left \subseteq Key
    /\ pc[h] \in Putting => t[h].req.op = "put" /\ t[h].req.body \in Payload /\ t[h].req.attrs \in Attr
    /\ pc[h] \in Reading => t[h].req.op \in {"get", "head"}
    /\ pc[h] = "g_body" => t[h].fd \in Inode /\ t[h].req.op = "get"
    /\ pc[h] \in {"d_exists", "d_remove"} => t[h].req.op = "delete"
    /\ pc[h] = "m_remove" => t[h].req.op = "delete_objects"
    /\ pc[h] \in Copying => t[h].req.op = "copy" /\ t[h].req.src \in Key /\ t[h].req.attrs \in Opt(Attr)
    /\ pc[h] = "c_fill" => t[h].fd \in Inode /\ t[h].out \in Inode

LEMMA AtHand == ASSUME Types, NEW h \in Handler PROVE Here(h)
<1>1. DoingAt(h) /\ t[h] \in Task
  BY DEF Types, TypeOK, Doing
<1> DEFINE Fields == /\ t[h].fd \in Opt(Inode) /\ t[h].out \in Opt(Inode) /\ t[h].left \subseteq Key
                     /\ t[h].etag \in Opt(Payload) \cup {Torn} /\ t[h].bytes \in Opt(Payload) \cup {Torn}
                     /\ t[h].meta \in Opt(Attr) \cup {Torn}
<1>5. Fields
  BY <1>1 DEF Task
<1>2. CASE Active(h)
  <2>1. t[h].req \in Request
    BY <1>1, <1>2 DEF DoingAt
  <2>2. QED
    BY <1>1, <1>2, <1>5, <2>1, Requests DEF DoingAt, Here, Active, Putting, Reading, Copying
<1>3. CASE ~Active(h)
  BY <1>1, <1>3, <1>5 DEF Here, Active, Putting, Reading, Copying
<1>4. QED
  BY <1>2, <1>3

\* The bound on faults is kept.
LEMMA FaultBound == ASSUME faults \in 0..MaxFaults, Fault PROVE faults' \in 0..MaxFaults
BY FsObjectAssumption DEF Fault

\* A task with a local variable assigned is a task.
LEMMA TaskFields ==
    ASSUME NEW a \in Task
    PROVE  /\ \A x \in Opt(Inode), y, z \in Opt(Payload) \cup {Torn} :
                [a EXCEPT !.opened = y, !.fd = x, !.bytes = z] \in Task
           /\ \A x, y \in Opt(Inode) : [a EXCEPT !.out = x, !.fd = y] \in Task
           /\ \A x, y \in Opt(Inode) : [a EXCEPT !.fd = x, !.out = y] \in Task
           /\ \A y \in Opt(Payload) \cup {Torn} : [a EXCEPT !.etag = y] \in Task
           /\ \A y \in Opt(Payload) \cup {Torn} : [a EXCEPT !.bytes = y] \in Task
           /\ \A m \in Opt(Attr) \cup {Torn} : [a EXCEPT !.meta = m] \in Task
           /\ \A ks \in SUBSET Key : [a EXCEPT !.left = ks] \in Task
           /\ \A ks \in SUBSET Key : [a EXCEPT !.lost = TRUE, !.left = ks] \in Task
BY DEF Task

LEMMA NoTaskIsTask == NoTask \in Task
BY FsObjectAssumption DEF NoTask, Task, Opt

LEMMA SetTask ==
    ASSUME t \in [Handler -> Task], NEW h \in Handler, NEW a \in Task, t' = [t EXCEPT ![h] = a]
    PROVE  t' \in [Handler -> Task]
OBVIOUS

\* The part of TypeOK that says what the variables hold.
Kinds ==
    /\ ino \in [Key -> Opt(Inode)]
    /\ data \in [Inode -> Opt(Payload) \cup {Torn}]
    /\ attrs \in [Key -> Opt(Attr) \cup {Torn}]
    /\ info \in [Key -> Opt(Payload) \cup {Torn}]
    /\ pc \in [Handler -> {"idle", "ok", "err"} \cup InFlight]
    /\ t \in [Handler -> Task]
    /\ faults \in 0..MaxFaults
    /\ tainted \subseteq Key
    /\ truth \in [Key -> Opt(Attr) \cup {Torn}]

LEMMA ProgressKinds == ASSUME Types, NEW h \in Handler, Progress(h) PROVE Kinds'
<1>0. Kinds /\ Here(h)
  BY AtHand DEF Types, TypeOK, Kinds
<1> USE <1>0 DEF Kinds, Here, Active, Opt, InFlight, Goto, disk, hist, Putting, Reading, Deleting, Copying
<1>1. CASE PutExists(h)
  BY <1>1 DEF PutExists
<1>2. CASE PutETag(h)
  BY <1>2 DEF PutETag
<1>3. CASE PutBody(h)
  BY <1>3 DEF PutBody
<1>4. CASE PutRename(h)
  BY <1>4 DEF PutRename, Settle
<1>5. CASE PutAttrs(h)
  BY <1>5 DEF PutAttrs
<1>6. CASE PutInfo(h)
  BY <1>6 DEF PutInfo
<1>7. CASE Open(h)
  <2>1. t' \in [Handler -> Task]
    <3> DEFINE new == [t[h] EXCEPT !.opened = data[ino[t[h].req.key]],
                                 !.fd = IF t[h].req.op = "get" THEN ino[t[h].req.key] ELSE Absent,
                                 !.bytes = IF t[h].req.op = "get" THEN Absent ELSE data[ino[t[h].req.key]]]
    <3>1. CASE UNCHANGED t
      BY <3>1
    <3>2. CASE ino[t[h].req.key] # Absent /\ t' = [t EXCEPT ![h] = new]
      <4>1. new \in Task
        <5> DEFINE x == IF t[h].req.op = "get" THEN ino[t[h].req.key] ELSE Absent
                   y == data[ino[t[h].req.key]]
                   z == IF t[h].req.op = "get" THEN Absent ELSE data[ino[t[h].req.key]]
        <5>1. x \in Opt(Inode) /\ y \in Opt(Payload) \cup {Torn} /\ z \in Opt(Payload) \cup {Torn}
          BY <1>7, <3>2 DEF Open
        <5>2. new = [t[h] EXCEPT !.opened = y, !.fd = x, !.bytes = z]
          OBVIOUS
        <5>3. t[h] \in Task
          OBVIOUS
        <5> HIDE DEF x, y, z, new
        <5>4. QED
          BY ONLY <5>1, <5>2, <5>3, TaskFields
      <4>2. QED
        BY ONLY <3>2, <4>1, Kinds, h \in Handler DEF Kinds
    <3>3. QED
      BY <1>7, <3>1, <3>2 DEF Open
  <2>2. QED
    BY <1>7, <2>1 DEF Open
<1>8. CASE LoadAttrs(h)
  <2>1. t' \in [Handler -> Task]
    <3> DEFINE new == [t[h] EXCEPT !.meta = IF attrs[t[h].req.key] = Torn THEN Absent ELSE attrs[t[h].req.key]]
    <3>1. CASE UNCHANGED t
      BY <3>1
    <3>2. CASE t' = [t EXCEPT ![h] = new]
      <4>1. new \in Task
        BY <1>8, <3>2, TaskFields DEF LoadAttrs
      <4>2. QED
        BY ONLY <3>2, <4>1, Kinds, h \in Handler DEF Kinds
    <3>3. QED
      BY <1>8, <3>1, <3>2 DEF LoadAttrs
  <2>2. QED
    BY <1>8, <2>1 DEF LoadAttrs
<1>9. CASE LoadInfo(h)
  <2>1. t' \in [Handler -> Task]
    <3> DEFINE new == [t[h] EXCEPT !.etag = CurrentETag(t[h].req.key)]
    <3>1. CASE UNCHANGED t
      BY <3>1
    <3>2. CASE (info[t[h].req.key] # Absent \/ ino[t[h].req.key] # Absent) /\ t' = [t EXCEPT ![h] = new]
      <4>1. new \in Task
        BY <1>9, <3>2, TaskFields DEF LoadInfo, CurrentETag
      <4>2. QED
        BY ONLY <3>2, <4>1, Kinds, h \in Handler DEF Kinds
    <3>3. QED
      BY <1>9, <3>1, <3>2 DEF LoadInfo
  <2>2. QED
    BY <1>9, <2>1 DEF LoadInfo
<1>10. CASE StreamBody(h)
  <2>1. t' \in [Handler -> Task]
    <3> DEFINE new == [t[h] EXCEPT !.bytes = data[t[h].fd]]
    <3>1. CASE UNCHANGED t
      BY <3>1
    <3>2. CASE t' = [t EXCEPT ![h] = new]
      <4>1. new \in Task
        BY <1>10, <3>2, TaskFields DEF StreamBody
      <4>2. QED
        BY ONLY <3>2, <4>1, Kinds, h \in Handler DEF Kinds
    <3>3. QED
      BY <1>10, <3>1, <3>2 DEF StreamBody
  <2>2. QED
    BY <1>10, <2>1 DEF StreamBody
<1>11. CASE DeleteExists(h)
  BY <1>11 DEF DeleteExists
<1>12. CASE DeleteRemove(h)
  BY <1>12 DEF DeleteRemove, Unlink, Settle
<1>13. CASE DeleteAllDone(h)
  BY <1>13 DEF DeleteAllDone
<1>14. CASE CopyExists(h)
  BY <1>14 DEF CopyExists
<1>15. CASE CopyLoadInfo(h)
  <2>1. t' \in [Handler -> Task]
    <3> DEFINE new == [t[h] EXCEPT !.etag = IF t[h].req.cond = Absent THEN info[t[h].req.src] ELSE CurrentETag(t[h].req.src)]
    <3>1. CASE UNCHANGED t
      BY <3>1
    <3>2. CASE (t[h].req.cond = Absent \/ info[t[h].req.src] # Absent \/ ino[t[h].req.src] # Absent) /\ t' = [t EXCEPT ![h] = new]
      <4>1. new \in Task
        BY <1>15, <3>2, TaskFields DEF CopyLoadInfo, CurrentETag
      <4>2. QED
        BY ONLY <3>2, <4>1, Kinds, h \in Handler DEF Kinds
    <3>3. QED
      BY <1>15, <3>1, <3>2 DEF CopyLoadInfo
  <2>2. QED
    BY <1>15, <2>1 DEF CopyLoadInfo
<1>16. CASE CopyOpen(h)
  <2>1. CASE UNCHANGED <<ino, data, t>>
    BY <1>16, <2>1 DEF CopyOpen
  <2>2. CASE ino[t[h].req.src] # Absent /\ ~UNCHANGED <<ino, data, t>>
    <3>1. PICK x \in Inode : /\ ino' = [ino EXCEPT ![t[h].req.key] = x] /\ data' = [data EXCEPT ![x] = Torn]
                            /\ t' = [t EXCEPT ![h] = [@ EXCEPT !.out = x, !.fd = ino[t[h].req.src]]]
      BY <1>16, <2>2 DEF CopyOpen
    <3>2. [t[h] EXCEPT !.out = x, !.fd = ino[t[h].req.src]] \in Task
      BY <1>16, TaskFields DEF CopyOpen
    <3>3. t' \in [Handler -> Task]
      BY ONLY <3>1, <3>2, Kinds, h \in Handler DEF Kinds
    <3>4. ino' \in [Key -> Opt(Inode)] /\ data' \in [Inode -> Opt(Payload) \cup {Torn}]
      BY <3>1
    <3>5. QED
      BY <1>16, <3>3, <3>4 DEF CopyOpen
  <2>3. QED
    BY <1>16, <2>1, <2>2 DEF CopyOpen
<1>17. CASE CopyFill(h)
  <2>1. t' \in [Handler -> Task]
    <3> DEFINE new == [t[h] EXCEPT !.fd = Absent, !.out = Absent]
    <3>1. CASE UNCHANGED t
      BY <3>1
    <3>2. CASE t' = [t EXCEPT ![h] = new]
      <4>1. new \in Task
        BY <1>17, <3>2, TaskFields DEF CopyFill, Settle
      <4>2. QED
        BY ONLY <3>2, <4>1, Kinds, h \in Handler DEF Kinds
    <3>3. QED
      BY <1>17, <3>1, <3>2 DEF CopyFill, Settle
  <2>2. QED
    BY <1>17, <2>1 DEF CopyFill, Settle
<1>18. CASE CopyETag(h)
  <2>1. t' \in [Handler -> Task]
    <3> DEFINE new == [t[h] EXCEPT !.etag = IF @ # Absent THEN @ ELSE data[ino[t[h].req.key]]]
    <3>1. CASE UNCHANGED t
      BY <3>1
    <3>2. CASE (t[h].etag # Absent \/ ino[t[h].req.key] # Absent) /\ t' = [t EXCEPT ![h] = new]
      <4>1. new \in Task
        BY <1>18, <3>2, TaskFields DEF CopyETag
      <4>2. QED
        BY ONLY <3>2, <4>1, Kinds, h \in Handler DEF Kinds
    <3>3. QED
      BY <1>18, <3>1, <3>2 DEF CopyETag
  <2>2. QED
    BY <1>18, <2>1 DEF CopyETag
<1>19. CASE CopyAttrs(h)
  <2>1. t' \in [Handler -> Task]
    <3> DEFINE new == [t[h] EXCEPT !.meta = attrs[t[h].req.src]]
    <3>1. CASE UNCHANGED t
      BY <3>1
    <3>2. CASE t' = [t EXCEPT ![h] = new]
      <4>1. new \in Task
        BY <1>19, <3>2, TaskFields DEF CopyAttrs
      <4>2. QED
        BY ONLY <3>2, <4>1, Kinds, h \in Handler DEF Kinds
    <3>3. QED
      BY <1>19, <3>1, <3>2 DEF CopyAttrs
  <2>2. QED
    BY <1>19, <2>1 DEF CopyAttrs
<1>20. CASE CopySidecar(h)
  BY <1>20 DEF CopySidecar
<1>21. CASE CopySaveInfo(h)
  BY <1>21 DEF CopySaveInfo
<1>22. CASE Respond(h)
  <2>1. t' \in [Handler -> Task] /\ pc' \in [Handler -> {"idle", "ok", "err"} \cup InFlight]
    BY <1>22, NoTaskIsTask DEF Respond, Close
  <2>2. tainted' \subseteq Key
    BY <1>22, WriteSets DEF Respond
  <2>3. truth' \in [Key -> Opt(Attr) \cup {Torn}]
    BY <1>22, Requests DEF Respond
  <2>4. data' \in [Inode -> Opt(Payload) \cup {Torn}]
    BY <1>22 DEF Respond, Close, Settle
  <2>5. QED
    BY <1>22, <2>1, <2>2, <2>3, <2>4 DEF Respond, Close
<1>23. ASSUME NEW k \in Key, DeleteOne(h, k) PROVE Kinds'
  <2>1. t' \in [Handler -> Task]
    <3> DEFINE new == [t[h] EXCEPT !.left = @ \ {k}]
    <3>1. CASE UNCHANGED t
      BY <3>1
    <3>2. CASE t' = [t EXCEPT ![h] = new]
      <4>1. new \in Task
        BY <1>23, <3>2, TaskFields DEF DeleteOne, Unlink, Settle
      <4>2. QED
        BY ONLY <3>2, <4>1, Kinds, h \in Handler DEF Kinds
    <3>3. QED
      BY <1>23, <3>1, <3>2 DEF DeleteOne, Unlink, Settle
  <2>2. QED
    BY <1>23, <2>1 DEF DeleteOne, Unlink, Settle
<1>24. QED
  BY <1>1, <1>2, <1>3, <1>4, <1>5, <1>6, <1>7, <1>8, <1>9, <1>10, <1>11, <1>12, <1>13, <1>14, <1>15, <1>16, <1>17, <1>18, <1>19, <1>20, <1>21, <1>22, <1>23 DEF Progress

\* A step moves at most one path: away, or to a file that did not exist.
InoStep(h) ==
    \/ ino' = ino
    \/ \E k \in Key, x \in Opt(Inode) :
        /\ k \in W(h) /\ ino' = [ino EXCEPT ![k] = x]
        /\ x # Absent => data[x] = Absent /\ data'[x] # Absent

\* A file that can still be reached keeps its bytes, unless a copy writes it in place.
DataStep(h) ==
    \A x \in Inode : data[x] # Absent /\ Reachable(x)' =>
        \/ data'[x] = data[x]
        \/ data'[x] # Absent /\ t[h].req.op = "copy" /\ x \in {ino[t[h].req.key], t[h].out}

LEMMA InoSteps == ASSUME Types, NEW h \in Handler, Progress(h) PROVE InoStep(h)
<1>0. Kinds /\ Here(h)
  BY AtHand DEF Types, TypeOK, Kinds
<1>00. Active(h) => /\ t[h].req.op \in {"put", "delete", "copy"} => W(h) = {t[h].req.key}
                    /\ t[h].req.op = "delete_objects" => t[h].left \subseteq W(h)
  BY <1>0, WriteSets DEF Here, W, Types, Doing, DoingAt
<1> USE <1>0, <1>00 DEF Kinds, Here, InoStep, Active, Opt, disk, Putting, Reading, Copying
<1>1. CASE PutExists(h)
  BY <1>1 DEF PutExists
<1>2. CASE PutETag(h)
  BY <1>2 DEF PutETag
<1>3. CASE PutBody(h)
  BY <1>3 DEF PutBody
<1>4. CASE PutRename(h)
  <2>1. PICK x \in Inode : /\ data[x] = Absent /\ ino' = [ino EXCEPT ![t[h].req.key] = x]
                          /\ Settle([data EXCEPT ![x] = t[h].req.body])
    BY <1>4 DEF PutRename
  <2>2. t[h].req.key \in W(h) /\ t[h].req.key \in Key /\ t[h].req.body \in Payload
    BY <1>4 DEF PutRename
  <2>3. Reachable(x)'
    BY <2>1, <2>2 DEF Reachable
  <2>4. data'[x] # Absent
    BY <2>1, <2>2, <2>3, FsObjectAssumption DEF Settle
  <2>5. QED
    BY <2>1, <2>2, <2>4
<1>5. CASE PutAttrs(h)
  BY <1>5 DEF PutAttrs
<1>6. CASE PutInfo(h)
  BY <1>6 DEF PutInfo
<1>7. CASE Open(h)
  BY <1>7 DEF Open
<1>8. CASE LoadAttrs(h)
  BY <1>8 DEF LoadAttrs
<1>9. CASE LoadInfo(h)
  BY <1>9 DEF LoadInfo
<1>10. CASE StreamBody(h)
  BY <1>10 DEF StreamBody
<1>11. CASE DeleteExists(h)
  BY <1>11 DEF DeleteExists
<1>12. CASE DeleteRemove(h)
  BY <1>12 DEF DeleteRemove, Unlink, Settle
<1>13. CASE DeleteAllDone(h)
  BY <1>13 DEF DeleteAllDone
<1>14. CASE CopyExists(h)
  BY <1>14 DEF CopyExists
<1>15. CASE CopyLoadInfo(h)
  BY <1>15 DEF CopyLoadInfo
<1>16. CASE CopyOpen(h)
  <2>1. CASE UNCHANGED ino
    BY <2>1
  <2>2. CASE ino' # ino
    <3>1. PICK x \in Inode : /\ IF ino[t[h].req.key] = Absent THEN data[x] = Absent ELSE x = ino[t[h].req.key]
                            /\ ino' = [ino EXCEPT ![t[h].req.key] = x] /\ data' = [data EXCEPT ![x] = Torn]
      BY <1>16, <2>2 DEF CopyOpen
    <3>2. t[h].req.key \in W(h) /\ t[h].req.key \in Key
      BY <1>16 DEF CopyOpen
    <3>3. data[x] = Absent
      BY <2>2, <3>1, <3>2
    <3>4. data'[x] # Absent
      BY <3>1, FsObjectAssumption
    <3>5. QED
      BY <3>1, <3>2, <3>3, <3>4
  <2>3. QED
    BY <2>1, <2>2
<1>17. CASE CopyFill(h)
  BY <1>17 DEF CopyFill, Settle
<1>18. CASE CopyETag(h)
  BY <1>18 DEF CopyETag
<1>19. CASE CopyAttrs(h)
  BY <1>19 DEF CopyAttrs
<1>20. CASE CopySidecar(h)
  BY <1>20 DEF CopySidecar
<1>21. CASE CopySaveInfo(h)
  BY <1>21 DEF CopySaveInfo
<1>22. CASE Respond(h)
  BY <1>22 DEF Respond, Close, Settle
<1>23. ASSUME NEW k \in Key, DeleteOne(h, k) PROVE InoStep(h)
  <2>1. k \in W(h)
    BY <1>23 DEF DeleteOne
  <2>2. QED
    BY <1>23, <2>1 DEF DeleteOne, Unlink
<1>24. QED
  BY <1>1, <1>2, <1>3, <1>4, <1>5, <1>6, <1>7, <1>8, <1>9, <1>10, <1>11, <1>12, <1>13, <1>14, <1>15, <1>16, <1>17, <1>18, <1>19, <1>20, <1>21, <1>22, <1>23 DEF Progress

LEMMA DataSteps == ASSUME Types, NEW h \in Handler, Progress(h) PROVE DataStep(h)
<1>0. Kinds /\ Here(h)
  BY AtHand DEF Types, TypeOK, Kinds
<1>00. OpenAt(h)
  BY DEF Types, OpenFiles
<1> USE <1>0 DEF Kinds, Here, DataStep, Active, Opt, disk, Putting, Reading, Copying
<1>1. CASE PutExists(h)
  BY <1>1 DEF PutExists
<1>2. CASE PutETag(h)
  BY <1>2 DEF PutETag
<1>3. CASE PutBody(h)
  BY <1>3 DEF PutBody
<1>4. CASE PutRename(h)
  <2>1. PICK x \in Inode : /\ data[x] = Absent /\ Settle([data EXCEPT ![x] = t[h].req.body])
    BY <1>4 DEF PutRename
  <2>2. QED
    BY <2>1 DEF Settle
<1>5. CASE PutAttrs(h)
  BY <1>5 DEF PutAttrs
<1>6. CASE PutInfo(h)
  BY <1>6 DEF PutInfo
<1>7. CASE Open(h)
  BY <1>7 DEF Open
<1>8. CASE LoadAttrs(h)
  BY <1>8 DEF LoadAttrs
<1>9. CASE LoadInfo(h)
  BY <1>9 DEF LoadInfo
<1>10. CASE StreamBody(h)
  BY <1>10 DEF StreamBody
<1>11. CASE DeleteExists(h)
  BY <1>11 DEF DeleteExists
<1>12. CASE DeleteRemove(h)
  BY <1>12 DEF DeleteRemove, Unlink, Settle
<1>13. CASE DeleteAllDone(h)
  BY <1>13 DEF DeleteAllDone
<1>14. CASE CopyExists(h)
  BY <1>14 DEF CopyExists
<1>15. CASE CopyLoadInfo(h)
  BY <1>15 DEF CopyLoadInfo
<1>16. CASE CopyOpen(h)
  <2>1. CASE UNCHANGED data
    BY <2>1
  <2>2. CASE data' # data
    <3>1. PICK x \in Inode : /\ IF ino[t[h].req.key] = Absent THEN data[x] = Absent ELSE x = ino[t[h].req.key]
                            /\ data' = [data EXCEPT ![x] = Torn]
      BY <1>16, <2>2 DEF CopyOpen
    <3>2. t[h].req.op = "copy"
      BY <1>16 DEF CopyOpen
    <3>3. QED
      BY <3>1, <3>2, FsObjectAssumption
  <2>3. QED
    BY <2>1, <2>2
<1>17. CASE CopyFill(h)
  <2>1. data[t[h].fd] # Absent /\ t[h].req.op = "copy" /\ t[h].out \in Inode
    BY <1>17, <1>00, FsObjectAssumption DEF CopyFill, OpenAt
  <2>2. \A y \in Inode : Reachable(y)' => data'[y] = IF y = t[h].out THEN data[t[h].fd] ELSE data[y]
    BY <1>17 DEF CopyFill, Settle
  <2>3. QED
    BY <2>1, <2>2
<1>18. CASE CopyETag(h)
  BY <1>18 DEF CopyETag
<1>19. CASE CopyAttrs(h)
  BY <1>19 DEF CopyAttrs
<1>20. CASE CopySidecar(h)
  BY <1>20 DEF CopySidecar
<1>21. CASE CopySaveInfo(h)
  BY <1>21 DEF CopySaveInfo
<1>22. CASE Respond(h)
  BY <1>22 DEF Respond, Close, Settle
<1>23. ASSUME NEW k \in Key, DeleteOne(h, k) PROVE DataStep(h)
  BY <1>23 DEF DeleteOne, Unlink, Settle
<1>24. QED
  BY <1>1, <1>2, <1>3, <1>4, <1>5, <1>6, <1>7, <1>8, <1>9, <1>10, <1>11, <1>12, <1>13, <1>14, <1>15, <1>16, <1>17, <1>18, <1>19, <1>20, <1>21, <1>22, <1>23 DEF Progress

\* A step of h is h's own, and its request stays what it is.
TaskStep(h) ==
    /\ Active(h) /\ \A g \in Handler \ {h} : t'[g] = t[g] /\ pc'[g] = pc[g]
    /\ \/ pc'[h] = "idle" /\ t'[h] = NoTask /\ pc[h] \in {"ok", "err"}
       \/ /\ pc'[h] # "idle" /\ t'[h].req = t[h].req /\ t'[h].solo = t[h].solo /\ t'[h].lost = t[h].lost
          /\ t'[h].overcopied = t[h].overcopied

LEMMA TaskSteps == ASSUME Types, NEW h \in Handler, Progress(h) PROVE TaskStep(h)
<1>0. Kinds /\ t[h] \in Task /\ t'[h] \in Task
  BY ProgressKinds DEF Types, TypeOK, Kinds
<1> USE <1>0 DEF Kinds, TaskStep, Active, Goto, Task
<1>1. CASE PutExists(h)
  BY <1>1 DEF PutExists
<1>2. CASE PutETag(h)
  BY <1>2 DEF PutETag
<1>3. CASE PutBody(h)
  BY <1>3 DEF PutBody
<1>4. CASE PutRename(h)
  BY <1>4 DEF PutRename, Settle
<1>5. CASE PutAttrs(h)
  BY <1>5 DEF PutAttrs
<1>6. CASE PutInfo(h)
  BY <1>6 DEF PutInfo
<1>7. CASE Open(h)
  BY <1>7 DEF Open
<1>8. CASE LoadAttrs(h)
  BY <1>8 DEF LoadAttrs
<1>9. CASE LoadInfo(h)
  BY <1>9 DEF LoadInfo
<1>10. CASE StreamBody(h)
  BY <1>10 DEF StreamBody
<1>11. CASE DeleteExists(h)
  BY <1>11 DEF DeleteExists
<1>12. CASE DeleteRemove(h)
  BY <1>12 DEF DeleteRemove, Unlink, Settle
<1>13. CASE DeleteAllDone(h)
  BY <1>13 DEF DeleteAllDone
<1>14. CASE CopyExists(h)
  BY <1>14 DEF CopyExists
<1>15. CASE CopyLoadInfo(h)
  BY <1>15 DEF CopyLoadInfo
<1>16. CASE CopyOpen(h)
  <2>1. CASE UNCHANGED t
    BY <1>16, <2>1 DEF CopyOpen
  <2>2. CASE \E x \in Inode : t' = [t EXCEPT ![h].out = x, ![h].fd = ino[t[h].req.src]]
    <3>1. PICK x \in Inode : t' = [t EXCEPT ![h] = [@ EXCEPT !.out = x, !.fd = ino[t[h].req.src]]]
      BY <2>2
    <3>2. t'[h] = [t[h] EXCEPT !.out = x, !.fd = ino[t[h].req.src]] /\ \A g \in Handler \ {h} : t'[g] = t[g]
      BY <3>1
    <3>3. t'[h].req = t[h].req /\ t'[h].solo = t[h].solo /\ t'[h].lost = t[h].lost /\ t'[h].overcopied = t[h].overcopied
      BY <3>2
    <3>4. pc[h] = "c_open" /\ \E to \in {"err", "c_etag", "c_fill"} : pc' = [pc EXCEPT ![h] = to]
      BY <1>16 DEF CopyOpen
    <3>5. QED
      BY <3>2, <3>3, <3>4
  <2>3. QED
    BY <1>16, <2>1, <2>2 DEF CopyOpen
<1>17. CASE CopyFill(h)
  BY <1>17 DEF CopyFill, Settle
<1>18. CASE CopyETag(h)
  BY <1>18 DEF CopyETag
<1>19. CASE CopyAttrs(h)
  BY <1>19 DEF CopyAttrs
<1>20. CASE CopySidecar(h)
  BY <1>20 DEF CopySidecar
<1>21. CASE CopySaveInfo(h)
  BY <1>21 DEF CopySaveInfo
<1>22. CASE Respond(h)
  BY <1>22 DEF Respond, Close
<1>23. ASSUME NEW k \in Key, DeleteOne(h, k) PROVE TaskStep(h)
  BY <1>23 DEF DeleteOne, Unlink, Settle
<1>24. QED
  BY <1>1, <1>2, <1>3, <1>4, <1>5, <1>6, <1>7, <1>8, <1>9, <1>10, <1>11, <1>12, <1>13, <1>14, <1>15, <1>16, <1>17, <1>18, <1>19, <1>20, <1>21, <1>22, <1>23 DEF Progress

\* The sidecars of keys that h does not write stay.
SidecarStep(h) == \A k \in Key \ W(h) : attrs'[k] = attrs[k] /\ info'[k] = info[k]

LEMMA SidecarSteps == ASSUME Types, NEW h \in Handler, Progress(h) PROVE SidecarStep(h)
<1>0. Kinds /\ Here(h) /\ (Active(h) /\ t[h].req.op \in {"put", "copy"} => W(h) = {t[h].req.key})
  BY AtHand, WriteSets DEF Types, TypeOK, Kinds, W, Here
<1> USE <1>0 DEF Kinds, Here, SidecarStep, Active, disk, Putting, Reading, Copying
<1>1. CASE PutExists(h)
  BY <1>1 DEF PutExists
<1>2. CASE PutETag(h)
  BY <1>2 DEF PutETag
<1>3. CASE PutBody(h)
  BY <1>3 DEF PutBody
<1>4. CASE PutRename(h)
  BY <1>4 DEF PutRename, Settle
<1>5. CASE PutAttrs(h)
  BY <1>5 DEF PutAttrs
<1>6. CASE PutInfo(h)
  BY <1>6 DEF PutInfo
<1>7. CASE Open(h)
  BY <1>7 DEF Open
<1>8. CASE LoadAttrs(h)
  BY <1>8 DEF LoadAttrs
<1>9. CASE LoadInfo(h)
  BY <1>9 DEF LoadInfo
<1>10. CASE StreamBody(h)
  BY <1>10 DEF StreamBody
<1>11. CASE DeleteExists(h)
  BY <1>11 DEF DeleteExists
<1>12. CASE DeleteRemove(h)
  BY <1>12 DEF DeleteRemove, Unlink, Settle
<1>13. CASE DeleteAllDone(h)
  BY <1>13 DEF DeleteAllDone
<1>14. CASE CopyExists(h)
  BY <1>14 DEF CopyExists
<1>15. CASE CopyLoadInfo(h)
  BY <1>15 DEF CopyLoadInfo
<1>16. CASE CopyOpen(h)
  BY <1>16 DEF CopyOpen
<1>17. CASE CopyFill(h)
  BY <1>17 DEF CopyFill, Settle
<1>18. CASE CopyETag(h)
  BY <1>18 DEF CopyETag
<1>19. CASE CopyAttrs(h)
  BY <1>19 DEF CopyAttrs
<1>20. CASE CopySidecar(h)
  BY <1>20 DEF CopySidecar
<1>21. CASE CopySaveInfo(h)
  BY <1>21 DEF CopySaveInfo
<1>22. CASE Respond(h)
  BY <1>22 DEF Respond, Close, Settle
<1>23. ASSUME NEW k \in Key, DeleteOne(h, k) PROVE SidecarStep(h)
  BY <1>23 DEF DeleteOne, Unlink, Settle
<1>24. QED
  BY <1>1, <1>2, <1>3, <1>4, <1>5, <1>6, <1>7, <1>8, <1>9, <1>10, <1>11, <1>12, <1>13, <1>14, <1>15, <1>16, <1>17, <1>18, <1>19, <1>20, <1>21, <1>22, <1>23 DEF Progress

\* Until the answer is sent the history of a step is only what failures add to it.
LEMMA HistSteps == ASSUME NEW h \in Handler, Progress(h), ~Respond(h) PROVE UNCHANGED hist
BY DEF Progress, hist, PutExists, PutETag, PutBody, PutRename, PutAttrs, PutInfo, Open, LoadAttrs, LoadInfo, StreamBody,
   DeleteExists, DeleteRemove, DeleteOne, DeleteAllDone, CopyExists, CopyLoadInfo, CopyOpen, CopyFill, CopyETag,
   CopyAttrs, CopySidecar, CopySaveInfo

\* What fs::copy opens and truncates.
Truncated(h, x) ==
    /\ t[h].req.src # t[h].req.key /\ ino[t[h].req.src] # Absent
    /\ IF ino[t[h].req.key] = Absent THEN data[x] = Absent ELSE x = ino[t[h].req.key]
    /\ ino' = [ino EXCEPT ![t[h].req.key] = x] /\ data' = [data EXCEPT ![x] = Torn]
    /\ t'[h].out = x /\ t'[h].fd = ino[t[h].req.src] /\ t'[h].etag = t[h].etag /\ t'[h].meta = t[h].meta
LEMMA CopyOpens ==
    ASSUME Types, NEW h \in Handler, CopyOpen(h)
    PROVE  /\ pc[h] = "c_open"
           /\ \/ pc'[h] = "err" /\ UNCHANGED <<ino, data, t>>
              \/ pc'[h] = "c_etag" /\ t[h].req.src = t[h].req.key /\ ino[t[h].req.src] # Absent /\ UNCHANGED <<ino, data, t>>
              \/ pc'[h] = "c_fill" /\ \E x \in Inode : Truncated(h, x)
<1>0. pc \in [Handler -> {"idle", "ok", "err"} \cup InFlight] /\ t \in [Handler -> Task] /\ t[h] \in Task
  BY DEF Types, TypeOK
<1>1. CASE ino[t[h].req.src] = Absent
  BY <1>0, <1>1 DEF CopyOpen, Goto
<1>2. CASE ino[t[h].req.src] # Absent /\ t[h].req.src = t[h].req.key
  BY <1>0, <1>2 DEF CopyOpen, Goto
<1>3. CASE ino[t[h].req.src] # Absent /\ t[h].req.src # t[h].req.key
  <2>1. PICK x \in Inode : /\ IF ino[t[h].req.key] = Absent THEN data[x] = Absent ELSE x = ino[t[h].req.key]
                          /\ ino' = [ino EXCEPT ![t[h].req.key] = x] /\ data' = [data EXCEPT ![x] = Torn]
                          /\ t' = [t EXCEPT ![h] = [@ EXCEPT !.out = x, !.fd = ino[t[h].req.src]]]
    BY <1>3 DEF CopyOpen
  <2>2. t'[h] = [t[h] EXCEPT !.out = x, !.fd = ino[t[h].req.src]]
    BY <1>0, <2>1
  <2>3. t'[h].out = x /\ t'[h].fd = ino[t[h].req.src] /\ t'[h].etag = t[h].etag /\ t'[h].meta = t[h].meta
    BY <1>0, <2>2 DEF Task
  <2>4. pc[h] = "c_open" /\ pc'[h] = "c_fill"
    BY <1>0, <1>3 DEF CopyOpen, Goto
  <2>5. QED
    BY <1>3, <2>1, <2>3, <2>4 DEF Truncated
<1>4. QED
  BY <1>1, <1>2, <1>3

\* What a reader opens.
Opened(h) ==
    LET x == ino[t[h].req.key] IN
    /\ x # Absent /\ t'[h].opened = data[x] /\ t'[h].out = t[h].out
    /\ t'[h].fd = (IF t[h].req.op = "get" THEN x ELSE Absent)
    /\ t'[h].bytes = (IF t[h].req.op = "get" THEN Absent ELSE data[x])
LEMMA Opens ==
    ASSUME Types, NEW h \in Handler, Open(h)
    PROVE  pc[h] = "g_open" /\ ((pc'[h] = "err" /\ UNCHANGED t) \/ (pc'[h] = "g_attrs" /\ Opened(h)))
<1>0. pc \in [Handler -> {"idle", "ok", "err"} \cup InFlight] /\ t \in [Handler -> Task] /\ t[h] \in Task
  BY DEF Types, TypeOK
<1>1. CASE ino[t[h].req.key] = Absent
  BY <1>0, <1>1 DEF Open, Goto
<1>2. CASE ino[t[h].req.key] # Absent
  BY <1>0, <1>2 DEF Open, Goto, Opened, Task
<1>3. QED
  BY <1>1, <1>2

\* Handlers go from place to place as the code has it.
LEMMA ProgressDoing == ASSUME Types, NEW h \in Handler, Progress(h) PROVE Doing'
<1>0. /\ Kinds /\ Here(h) /\ TaskStep(h) /\ t[h] \in Task /\ t'[h] \in Task /\ DoingAt(h)
      /\ \A g \in Handler \ {h} : DoingAt(g)
  BY AtHand, TaskSteps, ProgressKinds DEF Types, TypeOK, Kinds, Doing
<1>00. \A g \in Handler \ {h} : DoingAt(g)'
  BY <1>0 DEF TaskStep, DoingAt, Active
<1> SUFFICES DoingAt(h)'
  BY <1>00 DEF Doing
<1> USE <1>0 DEF Kinds, Here, DoingAt, TaskStep, Active, Goto, Task, Opt, Putting, Reading, Copying
<1>1. CASE PutExists(h)
  BY <1>1 DEF PutExists
<1>2. CASE PutETag(h)
  BY <1>2 DEF PutETag
<1>3. CASE PutBody(h)
  BY <1>3 DEF PutBody
<1>4. CASE PutRename(h)
  BY <1>4 DEF PutRename, Settle
<1>5. CASE PutAttrs(h)
  BY <1>5 DEF PutAttrs
<1>6. CASE PutInfo(h)
  BY <1>6 DEF PutInfo
<1>7. CASE Open(h)
  BY <1>7 DEF Open
<1>8. CASE LoadAttrs(h)
  BY <1>8 DEF LoadAttrs
<1>9. CASE LoadInfo(h)
  BY <1>9 DEF LoadInfo
<1>10. CASE StreamBody(h)
  BY <1>10 DEF StreamBody
<1>11. CASE DeleteExists(h)
  BY <1>11 DEF DeleteExists
<1>12. CASE DeleteRemove(h)
  BY <1>12 DEF DeleteRemove, Unlink, Settle
<1>13. CASE DeleteAllDone(h)
  BY <1>13 DEF DeleteAllDone
<1>14. CASE CopyExists(h)
  BY <1>14 DEF CopyExists
<1>15. CASE CopyLoadInfo(h)
  BY <1>15 DEF CopyLoadInfo
<1>16. CASE CopyOpen(h)
  <2>1. pc'[h] \in {"err", "c_etag", "c_fill"} /\ t[h].req.op = "copy"
    BY <1>16 DEF CopyOpen
  <2>2. CASE pc'[h] # "c_fill"
    BY <2>1, <2>2
  <2>3. CASE pc'[h] = "c_fill"
    <3>1. PICK x \in Inode : Truncated(h, x)
      BY ONLY <1>16, <2>3, CopyOpens, Types, h \in Handler
    <3>2. t'[h].out \in Inode /\ t'[h].fd \in Inode
      BY <1>16, <3>1 DEF CopyOpen, Truncated
    <3>3. QED
      BY <2>1, <3>2
  <2>4. QED
    BY <2>2, <2>3
<1>17. CASE CopyFill(h)
  BY <1>17 DEF CopyFill, Settle
<1>18. CASE CopyETag(h)
  BY <1>18 DEF CopyETag
<1>19. CASE CopyAttrs(h)
  BY <1>19 DEF CopyAttrs
<1>20. CASE CopySidecar(h)
  BY <1>20 DEF CopySidecar
<1>21. CASE CopySaveInfo(h)
  BY <1>21 DEF CopySaveInfo
<1>22. CASE Respond(h)
  BY <1>22 DEF Respond, Close, Settle
<1>23. ASSUME NEW k \in Key, DeleteOne(h, k) PROVE DoingAt(h)'
  BY <1>23 DEF DeleteOne, Unlink, Settle
<1>24. QED
  BY <1>1, <1>2, <1>3, <1>4, <1>5, <1>6, <1>7, <1>8, <1>9, <1>10, <1>11, <1>12, <1>13, <1>14, <1>15, <1>16, <1>17, <1>18, <1>19, <1>20, <1>21, <1>22, <1>23 DEF Progress

\* The part of TypeOK that is about paths.
Paths ==
    /\ \A k \in Key : ino[k] # Absent => data[ino[k]] # Absent
    /\ \A k, l \in Key : ino[k] # Absent /\ ino[k] = ino[l] => k = l

LEMMA FilesKept ==
    ASSUME Types, NEW h, Kinds', InoStep(h), DataStep(h), NEW H \in SUBSET Handler,
           \A g \in H : t'[g].fd # Absent => t'[g].fd = t[g].fd /\ t'[g].req = t[g].req /\ Active(g)',
           \A g \in H : t'[g].out # Absent => t'[g].out = t[g].out /\ t'[g].req = t[g].req /\ Active(g)'
    PROVE  /\ Paths' /\ \A g \in H : OpenAt(g)'
           /\ \A g, f \in H : t'[g].fd # Absent /\ t'[g].fd = t'[f].out => FdKey(t'[g].req) = t'[f].req.key
<1>0. Kinds /\ Paths /\ OpenFiles
  BY DEF Types, TypeOK, Kinds, Paths
<1>1. \A k \in Key : ino'[k] = ino[k] \/ ino'[k] = Absent \/ (data[ino'[k]] = Absent /\ data'[ino'[k]] # Absent)
  BY <1>0 DEF InoStep, Kinds
<1>2. \A k \in Key : ino[k] \in Opt(Inode) /\ ino'[k] \in Opt(Inode)
  BY <1>0 DEF Kinds
<1>3. \A g \in Handler : t'[g].fd \in Opt(Inode) /\ t'[g].out \in Opt(Inode)
  BY DEF Kinds, Task
<1>4. \A x \in Inode : data[x] # Absent /\ Reachable(x)' => data'[x] # Absent
  BY DEF DataStep
<1>5. /\ \A x \in Inode, k \in Key : data[x] # Absent /\ ino'[k] = x => data'[x] # Absent
      /\ \A x \in Inode, g \in Handler : data[x] # Absent /\ x \in {t'[g].fd, t'[g].out} => data'[x] # Absent
  BY <1>4 DEF Reachable
<1>6. \A k \in Key : ino'[k] # Absent => data'[ino'[k]] # Absent
  BY <1>0, <1>1, <1>2, <1>5 DEF Opt, Paths
<1>7. \A k, l \in Key : ino'[k] # Absent /\ ino'[k] = ino'[l] => k = l
  BY <1>0, <1>2 DEF InoStep, Paths, Kinds, Opt
<1>8. \A g \in H : OpenAt(g)'
  <2> SUFFICES ASSUME NEW g \in H PROVE OpenAt(g)'
    OBVIOUS
  <2>1. OpenAt(g)
    BY <1>0 DEF OpenFiles
  <2>2. ASSUME t'[g].fd # Absent
        PROVE  /\ Active(g)' /\ t'[g].req.op \in {"get", "copy"} /\ data'[t'[g].fd] # Absent
               /\ \A k \in Key : ino'[k] = t'[g].fd => k = FdKey(t'[g].req)
    <3>1. t'[g].fd = t[g].fd /\ t'[g].req = t[g].req /\ Active(g)' /\ t[g].fd \in Inode
      BY <1>3, <2>2 DEF Opt
    <3>2. data[t[g].fd] # Absent /\ data'[t[g].fd] # Absent /\ t[g].req.op \in {"get", "copy"}
      BY <1>5, <2>1, <2>2, <3>1 DEF OpenAt
    <3>3. \A k \in Key : ino'[k] = t[g].fd => ino[k] = t[g].fd
      BY <1>1, <2>2, <3>1, <3>2
    <3>4. QED
      BY <2>1, <2>2, <3>1, <3>2, <3>3 DEF OpenAt
  <2>3. ASSUME t'[g].out # Absent
        PROVE  /\ Active(g)' /\ t'[g].req.op = "copy" /\ data'[t'[g].out] # Absent
               /\ \A k \in Key : ino'[k] = t'[g].out => k = t'[g].req.key
    <3>1. t'[g].out = t[g].out /\ t'[g].req = t[g].req /\ Active(g)' /\ t[g].out \in Inode
      BY <1>3, <2>3 DEF Opt
    <3>2. data[t[g].out] # Absent /\ data'[t[g].out] # Absent /\ t[g].req.op = "copy"
      BY <1>5, <2>1, <2>3, <3>1 DEF OpenAt
    <3>3. \A k \in Key : ino'[k] = t[g].out => ino[k] = t[g].out
      BY <1>1, <2>3, <3>1, <3>2
    <3>4. QED
      BY <2>1, <2>3, <3>1, <3>2, <3>3 DEF OpenAt
  <2>4. QED
    BY <2>2, <2>3 DEF OpenAt
<1>9. \A g, f \in H : t'[g].fd # Absent /\ t'[g].fd = t'[f].out => FdKey(t'[g].req) = t'[f].req.key
  BY <1>0 DEF OpenFiles
<1>10. QED
  BY <1>6, <1>7, <1>8, <1>9 DEF Paths

\* Opening a file at a path.
LEMMA FileOpened ==
    ASSUME Kinds', Paths', NEW h \in Handler, Active(h)',
           \A g \in Handler \ {h} : OpenAt(g)',
           \A g, f \in Handler \ {h} : t'[g].fd # Absent /\ t'[g].fd = t'[f].out => FdKey(t'[g].req) = t'[f].req.key,
           t'[h].fd # Absent => /\ t'[h].req.op \in {"get", "copy"} /\ FdKey(t'[h].req) \in Key
                                /\ t'[h].fd = ino'[FdKey(t'[h].req)],
           t'[h].out # Absent => /\ t'[h].req.op = "copy" /\ t'[h].req.key \in Key /\ t'[h].req.src # t'[h].req.key
                                 /\ t'[h].out = ino'[t'[h].req.key]
    PROVE  OpenFiles'
<1>1. OpenAt(h)'
  BY DEF OpenAt, Paths
<1>2. ASSUME NEW g \in Handler, NEW f \in Handler, t'[g].fd # Absent, t'[g].fd = t'[f].out
      PROVE  FdKey(t'[g].req) = t'[f].req.key
  <2>1. CASE g = h /\ f = h
    BY <1>2, <2>1 DEF Paths, FdKey
  <2>2. CASE g = h /\ f # h
    BY <1>2, <2>2 DEF OpenAt
  <2>3. CASE g # h /\ f = h
    BY <1>2, <2>3 DEF OpenAt
  <2>4. QED
    BY <1>2, <2>1, <2>2, <2>3
<1>3. QED
  BY <1>1, <1>2 DEF OpenFiles

\* Files are opened by Open and CopyOpen only.
HandleStep(h) == t'[h].fd \in {t[h].fd, Absent} /\ t'[h].out \in {t[h].out, Absent}
LEMMA HandleSteps == ASSUME Types, NEW h \in Handler, Progress(h), ~Open(h), ~CopyOpen(h) PROVE HandleStep(h)
<1>0. Kinds /\ t[h] \in Task /\ t'[h] \in Task
  BY ProgressKinds DEF Types, TypeOK, Kinds
<1> USE <1>0 DEF Kinds, HandleStep, Task
<1>1. CASE PutExists(h)
  BY <1>1 DEF PutExists
<1>2. CASE PutETag(h)
  BY <1>2 DEF PutETag
<1>3. CASE PutBody(h)
  BY <1>3 DEF PutBody
<1>4. CASE PutRename(h)
  BY <1>4 DEF PutRename, Settle
<1>5. CASE PutAttrs(h)
  BY <1>5 DEF PutAttrs
<1>6. CASE PutInfo(h)
  BY <1>6 DEF PutInfo
<1>7. CASE Open(h)
  BY <1>7 DEF Open
<1>8. CASE LoadAttrs(h)
  BY <1>8 DEF LoadAttrs
<1>9. CASE LoadInfo(h)
  BY <1>9 DEF LoadInfo
<1>10. CASE StreamBody(h)
  BY <1>10 DEF StreamBody
<1>11. CASE DeleteExists(h)
  BY <1>11 DEF DeleteExists
<1>12. CASE DeleteRemove(h)
  BY <1>12 DEF DeleteRemove, Unlink, Settle
<1>13. CASE DeleteAllDone(h)
  BY <1>13 DEF DeleteAllDone
<1>14. CASE CopyExists(h)
  BY <1>14 DEF CopyExists
<1>15. CASE CopyLoadInfo(h)
  BY <1>15 DEF CopyLoadInfo
<1>16. CASE CopyOpen(h)
  BY <1>16 DEF CopyOpen
<1>17. CASE CopyFill(h)
  BY <1>17 DEF CopyFill, Settle
<1>18. CASE CopyETag(h)
  BY <1>18 DEF CopyETag
<1>19. CASE CopyAttrs(h)
  BY <1>19 DEF CopyAttrs
<1>20. CASE CopySidecar(h)
  BY <1>20 DEF CopySidecar
<1>21. CASE CopySaveInfo(h)
  BY <1>21 DEF CopySaveInfo
<1>22. CASE Respond(h)
  BY <1>22 DEF Respond, Close, NoTask
<1>23. ASSUME NEW k \in Key, DeleteOne(h, k) PROVE HandleStep(h)
  BY <1>23 DEF DeleteOne, Unlink, Settle
<1>24. QED
  BY <1>1, <1>2, <1>3, <1>4, <1>5, <1>6, <1>7, <1>8, <1>9, <1>10, <1>11, <1>12, <1>13, <1>14, <1>15, <1>16, <1>17, <1>18, <1>19, <1>20, <1>21, <1>22, <1>23 DEF Progress

LEMMA ProgressTypes == ASSUME Types, NEW h \in Handler, Progress(h) PROVE Types'
<1>0. Kinds' /\ Doing' /\ TaskStep(h) /\ InoStep(h) /\ DataStep(h) /\ Kinds /\ Here(h)
  BY ProgressKinds, ProgressDoing, TaskSteps, InoSteps, DataSteps, AtHand DEF Types, TypeOK, Kinds
<1>1. \A g \in Handler : (t[g].fd # Absent => Active(g)) /\ (t[g].out # Absent => Active(g))
  BY DEF Types, OpenFiles, OpenAt
<1>2. /\ \A g \in Handler \ {h} : t'[g].fd # Absent => t'[g].fd = t[g].fd /\ t'[g].req = t[g].req /\ Active(g)'
      /\ \A g \in Handler \ {h} : t'[g].out # Absent => t'[g].out = t[g].out /\ t'[g].req = t[g].req /\ Active(g)'
  BY <1>0, <1>1 DEF TaskStep, Active
<1>3. /\ Paths' /\ \A g \in Handler \ {h} : OpenAt(g)'
      /\ \A g, f \in Handler \ {h} : t'[g].fd # Absent /\ t'[g].fd = t'[f].out => FdKey(t'[g].req) = t'[f].req.key
  <2> DEFINE H == Handler \ {h}
  <2>1. H \in SUBSET Handler
    OBVIOUS
  <2>2. /\ \A g \in H : t'[g].fd # Absent => t'[g].fd = t[g].fd /\ t'[g].req = t[g].req /\ Active(g)'
        /\ \A g \in H : t'[g].out # Absent => t'[g].out = t[g].out /\ t'[g].req = t[g].req /\ Active(g)'
    BY <1>2
  <2> HIDE DEF H
  <2>3. /\ Paths' /\ \A g \in H : OpenAt(g)'
        /\ \A g, f \in H : t'[g].fd # Absent /\ t'[g].fd = t'[f].out => FdKey(t'[g].req) = t'[f].req.key
    BY <1>0, <2>1, <2>2, FilesKept
  <2>4. QED
    BY <2>3 DEF H
<1>4. CASE HandleStep(h)
  <2>1. /\ \A g \in Handler : t'[g].fd # Absent => t'[g].fd = t[g].fd /\ t'[g].req = t[g].req /\ Active(g)'
        /\ \A g \in Handler : t'[g].out # Absent => t'[g].out = t[g].out /\ t'[g].req = t[g].req /\ Active(g)'
    <3>1. pc'[h] = "idle" => t'[h].fd = Absent /\ t'[h].out = Absent
      BY <1>0 DEF TaskStep, NoTask
    <3>2. QED
      BY <1>0, <1>2, <1>4, <3>1 DEF HandleStep, TaskStep, Active
  <2>2. Handler \in SUBSET Handler
    OBVIOUS
  <2>3. QED
    BY <1>0, <2>1, <2>2, FilesKept DEF OpenFiles, Types, TypeOK, Kinds, Paths
<1>5. CASE Open(h) /\ ~HandleStep(h)
  <2>1. pc[h] = "g_open" /\ ino' = ino /\ pc'[h] = "g_attrs" /\ Opened(h)
    BY <1>5, Opens DEF HandleStep, Open, disk
  <2>2. t[h].req.op \in {"get", "head"} /\ t[h].req.key \in Key /\ t'[h].req = t[h].req /\ Active(h)'
    BY <1>0, <2>1 DEF Here, Reading, Active, TaskStep
  <2>3. t'[h].out = Absent
    BY <2>1, <2>2 DEF Types, OpenFiles, OpenAt, Opened
  <2>4. t'[h].fd # Absent => t'[h].req.op = "get" /\ t'[h].fd = ino'[t'[h].req.key]
    BY <2>1, <2>2 DEF Opened
  <2>5. OpenFiles'
    BY <1>0, <1>3, <2>2, <2>3, <2>4, FileOpened DEF FdKey
  <2>6. QED
    BY <1>0, <1>3, <2>5 DEF Types, TypeOK, Kinds, Paths
<1>6. CASE CopyOpen(h) /\ ~HandleStep(h)
  <2>1. pc[h] = "c_open" /\ pc'[h] = "c_fill" /\ \E x \in Inode : Truncated(h, x)
    BY <1>6, CopyOpens DEF HandleStep
  <2>2. /\ t[h].req.op = "copy" /\ t[h].req.key \in Key /\ t[h].req.src \in Key /\ t'[h].req = t[h].req /\ Active(h)'
    BY <1>0, <2>1 DEF Here, Copying, Active, TaskStep
  <2>3. /\ t'[h].fd = ino'[t[h].req.src] /\ t'[h].out = ino'[t[h].req.key]
        /\ t[h].req.src # t[h].req.key
    BY <1>0, <2>1, <2>2 DEF Truncated, Kinds
  <2>4. OpenFiles'
    BY <1>0, <1>3, <2>2, <2>3, FileOpened DEF FdKey
  <2>5. QED
    BY <1>0, <1>3, <2>4 DEF Types, TypeOK, Kinds, Paths
<1>7. QED
  BY <1>4, <1>5, <1>6, HandleSteps

-----------------------------------------------------------------------------
(* Failures, cancellations, crashes and new requests *)

\* What a fault does to one handler: nothing, an error, the end, or it goes on alone.
Cut(h) == InTheMiddle(h) => W(h) \subseteq tainted'
FaultAt(h) ==
    \/ pc'[h] = pc[h] /\ t'[h] = t[h]
    \/ pc'[h] = "idle" /\ t'[h] = NoTask /\ Cut(h)
    \/ pc[h] \in InFlight /\ pc'[h] = "err" /\ t'[h] = t[h] /\ Cut(h)
    \/ /\ pc[h] \in {"d_remove", "m_remove", "c_fill", "c_sidecar"} /\ pc'[h] = pc[h] /\ Cut(h)
       /\ \E ks \in SUBSET t[h].left : t'[h] = [t[h] EXCEPT !.lost = TRUE, !.left = ks]
FaultStep ==
    /\ UNCHANGED <<ino, attrs, info, truth>>
    /\ \A x \in Inode : Reachable(x)' => data'[x] = data[x]
    /\ data' \in [Inode -> Opt(Payload) \cup {Torn}]
    /\ tainted \subseteq tainted' /\ tainted' \subseteq Key
    /\ faults' \in 0..MaxFaults
    /\ pc' \in [Handler -> {"idle", "ok", "err"} \cup InFlight] /\ t' \in [Handler -> Task]
    /\ \A h \in Handler : FaultAt(h)

AnyFault == (\E h \in Handler : Fail(h) \/ Cancel(h) \/ CancelDetached(h)) \/ Crash

LEMMA Tainting ==
    ASSUME Types, NEW hs \in SUBSET Handler, Taint(hs), \A h \in hs : pc[h] \in InFlight \/ hs = Handler
    PROVE  /\ tainted \subseteq tainted' /\ tainted' \subseteq Key
           /\ \A h \in hs : Cut(h)
<1>0. tainted \subseteq Key
  BY DEF Types, TypeOK
<1>1. \A h \in Handler : InTheMiddle(h) => Active(h)
  BY DEF InTheMiddle, Active, HalfDone
<1>2. \A h \in Handler : Active(h) => W(h) \subseteq Key
  BY AtHand, WriteSets DEF Here, W
<1> DEFINE cut == {h \in hs : InTheMiddle(h)}
<1>3. tainted' = tainted \cup UNION {W(h) : h \in cut}
  BY DEF Taint, InTheMiddle, W
<1>4. \A h \in cut : W(h) \subseteq Key
  BY <1>1, <1>2
<1>5. \A h \in hs : Cut(h)
  BY <1>3 DEF Cut
<1>6. QED
  BY <1>0, <1>3, <1>4, <1>5

LEMMA FaultSteps == ASSUME Types, AnyFault PROVE FaultStep
<1>0. Kinds /\ \A h \in Handler : t[h] \in Task
  BY DEF Types, TypeOK, Kinds
<1> USE <1>0, FaultBound DEF Kinds
<1>1. ASSUME NEW h \in Handler, Fail(h) PROVE FaultStep
  <2>1. {h} \in SUBSET Handler /\ Taint({h}) /\ \A g \in {h} : pc[g] \in InFlight \/ {h} = Handler
    BY <1>1 DEF Fail
  <2>2. tainted \subseteq tainted' /\ tainted' \subseteq Key /\ Cut(h)
    BY ONLY <2>1, Tainting, Types, h \in {h}
  <2>3. \A g \in Handler : FaultAt(g)
    BY <1>1, <2>2 DEF Fail, FaultAt, Goto
  <2>4. QED
    BY <1>1, <2>2, <2>3 DEF Fail, FaultStep, disk, Goto, InFlight
<1>2. ASSUME NEW h \in Handler, Cancel(h) PROVE FaultStep
  <2>1. {h} \in SUBSET Handler /\ Taint({h}) /\ \A g \in {h} : pc[g] \in InFlight \/ {h} = Handler
    BY <1>2 DEF Cancel
  <2>2. tainted \subseteq tainted' /\ tainted' \subseteq Key /\ Cut(h)
    BY ONLY <2>1, Tainting, Types, h \in {h}
  <2>3. \A g \in Handler : FaultAt(g)
    BY <1>2, <2>2 DEF Cancel, Close, FaultAt
  <2>4. t' \in [Handler -> Task]
    BY <1>2, NoTaskIsTask DEF Cancel, Close
  <2>5. QED
    BY <1>2, <2>2, <2>3, <2>4 DEF Cancel, Close, Settle, FaultStep, Opt
<1>3. ASSUME NEW h \in Handler, CancelDetached(h) PROVE FaultStep
  <2>1. {h} \in SUBSET Handler /\ Taint({h}) /\ \A g \in {h} : pc[g] \in InFlight \/ {h} = Handler
    BY <1>3 DEF CancelDetached, InFlight, Deleting, Copying
  <2>2. tainted \subseteq tainted' /\ tainted' \subseteq Key /\ Cut(h)
    BY ONLY <2>1, Tainting, Types, h \in {h}
  <2>3. PICK ks \in SUBSET t[h].left : t' = [t EXCEPT ![h] = [@ EXCEPT !.lost = TRUE, !.left = ks]]
    BY <1>3 DEF CancelDetached
  <2>4. \A g \in Handler : FaultAt(g)
    BY <1>3, <2>2, <2>3 DEF CancelDetached, FaultAt
  <2>5. t' \in [Handler -> Task]
    <3>1. ks \in SUBSET Key
      BY DEF Task
    <3>2. QED
      BY <2>3, <3>1, TaskFields
  <2>6. QED
    BY <1>3, <2>2, <2>4, <2>5 DEF CancelDetached, FaultStep, disk
<1>4. CASE Crash
  <2>1. Handler \in SUBSET Handler /\ Taint(Handler) /\ \A g \in Handler : pc[g] \in InFlight \/ Handler = Handler
    BY <1>4 DEF Crash
  <2>2. tainted \subseteq tainted' /\ tainted' \subseteq Key /\ \A h \in Handler : Cut(h)
    BY ONLY <2>1, Tainting, Types
  <2>3. \A g \in Handler : FaultAt(g)
    BY <1>4, <2>2 DEF Crash, Close, FaultAt
  <2>4. t' \in [Handler -> Task]
    BY <1>4, NoTaskIsTask DEF Crash, Close
  <2>5. QED
    BY <1>4, <2>2, <2>3, <2>4 DEF Crash, Close, Settle, FaultStep, Opt
<1>5. QED
  BY <1>1, <1>2, <1>3, <1>4 DEF AnyFault

HandleKept(h) ==
    /\ t'[h].fd \in {t[h].fd, Absent} /\ t'[h].out \in {t[h].out, Absent}
    /\ Active(h)' => Active(h) /\ t'[h].req = t[h].req /\ t'[h].solo = t[h].solo /\ t'[h].overcopied = t[h].overcopied
    /\ t'[h].fd # Absent \/ t'[h].out # Absent => Active(h)'

LEMMA FaultHandles == ASSUME Types, FaultStep, NEW h \in Handler PROVE DoingAt(h)' /\ HandleKept(h)
<1>1. DoingAt(h) /\ FaultAt(h) /\ t[h] \in Task /\ OpenAt(h)
  BY DEF Types, TypeOK, Doing, FaultStep, OpenFiles
<1>2. CASE pc'[h] = pc[h] /\ t'[h] = t[h]
  BY <1>1, <1>2 DEF DoingAt, Active, HandleKept, OpenAt
<1>3. CASE pc'[h] = "idle" /\ t'[h] = NoTask
  BY <1>3 DEF DoingAt, Active, NoTask, Putting, Reading, Copying, HandleKept
<1>4. CASE pc[h] \in InFlight /\ pc'[h] = "err" /\ t'[h] = t[h]
  BY <1>1, <1>4 DEF DoingAt, Active, InFlight, Putting, Reading, Copying, Deleting, HandleKept
<1>5. CASE /\ pc[h] \in {"d_remove", "m_remove", "c_fill", "c_sidecar"} /\ pc'[h] = pc[h]
           /\ \E ks \in SUBSET t[h].left : t'[h] = [t[h] EXCEPT !.lost = TRUE, !.left = ks]
  <2>1. /\ t'[h].req = t[h].req /\ t'[h].fd = t[h].fd /\ t'[h].out = t[h].out /\ t'[h].left \subseteq t[h].left
        /\ t'[h].solo = t[h].solo /\ t'[h].overcopied = t[h].overcopied
    BY <1>1, <1>5 DEF Task
  <2>2. QED
    BY <1>1, <1>5, <2>1 DEF DoingAt, Active, HandleKept
<1>6. QED
  BY <1>1, <1>2, <1>3, <1>4, <1>5 DEF FaultAt

LEMMA FaultTypes == ASSUME Types, FaultStep PROVE Types'
<1>1. Kinds' /\ InoStep(0) /\ DataStep(0)
  BY DEF FaultStep, Types, TypeOK, Kinds, InoStep, DataStep
<1>2. Handler \in SUBSET Handler
  OBVIOUS
<1>3. /\ \A g \in Handler : t'[g].fd # Absent => t'[g].fd = t[g].fd /\ t'[g].req = t[g].req /\ Active(g)'
      /\ \A g \in Handler : t'[g].out # Absent => t'[g].out = t[g].out /\ t'[g].req = t[g].req /\ Active(g)'
  BY FaultHandles DEF HandleKept
<1>4. Paths' /\ OpenFiles'
  BY <1>1, <1>2, <1>3, FilesKept DEF OpenFiles
<1>5. QED
  BY <1>1, <1>4, FaultHandles DEF Types, TypeOK, Kinds, Paths, Doing

\* A new request.
BeginAt(h, r) ==
    /\ pc[h] = "idle" /\ pc'[h] = First(r) /\ First(r) \in InFlight /\ t'[h].req = r
    /\ t'[h].solo = (\A x \in Handler : ~Disturbs(x, r))
    /\ t'[h].overcopied = (\E x \in Handler : CopiesOnto(x, r))
    /\ ~t'[h].lost /\ t'[h].fd = Absent /\ t'[h].out = Absent
    /\ t'[h].left = IF r.op = "delete_objects" THEN r.keys ELSE {}
SameView(g) ==
    /\ t'[g].req = t[g].req /\ t'[g].fd = t[g].fd /\ t'[g].out = t[g].out /\ t'[g].etag = t[g].etag
    /\ t'[g].meta = t[g].meta /\ t'[g].bytes = t[g].bytes /\ t'[g].opened = t[g].opened
BesideBegin(g, r) ==
    /\ pc'[g] = pc[g] /\ SameView(g) /\ t'[g].left = t[g].left /\ t'[g].lost = t[g].lost
    /\ pc[g] = "idle" => t'[g] = t[g]
    /\ t'[g].solo = (t[g].solo /\ ~DisturbedBy(g, r))
    /\ t'[g].overcopied = (t[g].overcopied \/ (r.op = "copy" /\ DisturbedBy(g, r)))
LEMMA Begins ==
    ASSUME Types, NEW h \in Handler, NEW r \in Request, Begin(h, r)
    PROVE  /\ BeginAt(h, r) /\ \A g \in Handler \ {h} : BesideBegin(g, r)
           /\ t' \in [Handler -> Task] /\ pc' \in [Handler -> {"idle", "ok", "err"} \cup InFlight]
<1>0. t \in [Handler -> Task] /\ pc \in [Handler -> {"idle", "ok", "err"} \cup InFlight] /\ \A g \in Handler : t[g] \in Task
  BY DEF Types, TypeOK
<1>1. First(r) \in InFlight
  BY Requests DEF First, InFlight, Putting, Reading, Deleting, Copying
<1>2. r.op = "delete_objects" => r.keys \subseteq Key
  BY Requests
<1>3. BeginAt(h, r)
  BY <1>0, <1>1 DEF Begin, BeginAt, Goto, NoTask
<1>4. ASSUME NEW g \in Handler \ {h} PROVE BesideBegin(g, r) /\ t'[g] \in Task
  <2>1. t'[g] = [t[g] EXCEPT !.solo = @ /\ ~DisturbedBy(g, r), !.overcopied = @ \/ (r.op = "copy" /\ DisturbedBy(g, r))]
    BY <1>4 DEF Begin
  <2>2. DisturbedBy(g, r) \in BOOLEAN /\ t[g] \in Task /\ pc'[g] = pc[g]
    BY <1>0 DEF DisturbedBy, Begin, Goto
  <2>3. /\ t'[g].solo = (t[g].solo /\ ~DisturbedBy(g, r))
        /\ t'[g].overcopied = (t[g].overcopied \/ (r.op = "copy" /\ DisturbedBy(g, r)))
    BY <2>1, <2>2 DEF Task
  <2>4. t'[g] \in Task
    BY <2>1, <2>2 DEF Task
  <2>5. SameView(g) /\ t'[g].left = t[g].left /\ t'[g].lost = t[g].lost
    BY <2>1, <2>2 DEF Task, SameView
  <2>7. ASSUME pc[g] = "idle" PROVE t'[g] = t[g]
    <3>1. ~DisturbedBy(g, r)
      BY <2>7 DEF DisturbedBy
    <3>2. t'[g].solo = t[g].solo /\ t'[g].overcopied = t[g].overcopied
      BY <2>2, <2>3, <3>1 DEF Task
    <3>3. QED
      BY <2>2, <2>4, <2>5, <3>2 DEF Task, SameView
  <2>6. QED
    BY <2>2, <2>3, <2>4, <2>5, <2>7 DEF BesideBegin
<1>5. t'[h] \in Task
  <2>1. t'[h] = [NoTask EXCEPT !.req = r, !.left = IF r.op = "delete_objects" THEN r.keys ELSE {},
                               !.solo = \A x \in Handler : ~Disturbs(x, r),
                               !.overcopied = \E x \in Handler : CopiesOnto(x, r)]
    BY DEF Begin
  <2>2. QED
    BY <1>2, <2>1, NoTaskIsTask DEF Task, Opt
<1>6. t' = [g \in Handler |-> t'[g]] /\ pc' \in [Handler -> {"idle", "ok", "err"} \cup InFlight]
  BY <1>0, <1>1 DEF Begin, Goto
<1>7. QED
  BY <1>3, <1>4, <1>5, <1>6

LEMMA BeginTaints ==
    ASSUME Types, NEW h \in Handler, NEW r \in Request, Begin(h, r)
    PROVE  /\ tainted \subseteq tainted' /\ tainted' \subseteq Key
           /\ (\E g \in Handler : Disturbs(g, r)) => Writes(r) \subseteq tainted'
           /\ \A g \in Handler : DisturbedBy(g, r) => W(g) \subseteq tainted'
<1>0. tainted \subseteq Key /\ Writes(r) \subseteq Key
  BY WriteSets DEF Types, TypeOK
<1> DEFINE H == {x \in Handler : DisturbedBy(x, r)}
<1>1. \A g \in H : W(g) \subseteq Key
  <2> SUFFICES ASSUME NEW g \in H PROVE W(g) \subseteq Key
    OBVIOUS
  <2>1. g \in Handler /\ pc[g] # "idle"
    BY DEF DisturbedBy
  <2>2. QED
    BY <2>1, AtHand, WriteSets DEF Here, Active, W
<1>2. tainted' = tainted \cup (IF \E g \in Handler : Disturbs(g, r) THEN Writes(r) ELSE {}) \cup UNION {W(g) : g \in H}
  BY DEF Begin, W
<1>3. QED
  BY <1>0, <1>1, <1>2

LEMMA BeginTypes == ASSUME Types, NEW h \in Handler, NEW r \in Request, Begin(h, r) PROVE Types'
<1>0. Kinds'
  BY Begins, BeginTaints DEF Begin, disk, Types, TypeOK, Kinds
<1>1. InoStep(h) /\ DataStep(h)
  BY DEF Begin, disk, InoStep, DataStep
<1>2. BeginAt(h, r) /\ \A g \in Handler \ {h} : BesideBegin(g, r)
  BY Begins
<1>3. \A g \in Handler \ {h} : /\ pc'[g] = pc[g] /\ t'[g].req = t[g].req /\ t'[g].fd = t[g].fd /\ t'[g].out = t[g].out
                              /\ t'[g].left = t[g].left
  BY <1>2 DEF BesideBegin, SameView
<1>4. ASSUME NEW g \in Handler \ {h} PROVE DoingAt(g)'
  <2>1. CASE pc[g] = "idle"
    <3>1. t'[g] = NoTask
      BY <1>2, <2>1 DEF Types, Doing, DoingAt, BesideBegin
    <3>2. QED
      BY <1>3, <2>1, <3>1 DEF DoingAt, Active, NoTask, Putting, Reading, Copying
  <2>2. CASE pc[g] # "idle"
    BY <1>3, <2>2 DEF Types, Doing, DoingAt, Active
  <2>3. QED
    BY <2>1, <2>2
<1>5. DoingAt(h)'
  BY <1>2, Requests DEF BeginAt, DoingAt, Active, First, InFlight, Putting, Reading, Deleting, Copying
<1>6. /\ \A g \in Handler : t'[g].fd # Absent => t'[g].fd = t[g].fd /\ t'[g].req = t[g].req /\ Active(g)'
      /\ \A g \in Handler : t'[g].out # Absent => t'[g].out = t[g].out /\ t'[g].req = t[g].req /\ Active(g)'
  <2>1. \A g \in Handler : (t[g].fd # Absent => Active(g)) /\ (t[g].out # Absent => Active(g))
    BY DEF Types, OpenFiles, OpenAt
  <2>2. QED
    BY <1>2, <1>3, <2>1 DEF BeginAt, Active
<1>7. Paths' /\ OpenFiles'
  <2>1. Handler \in SUBSET Handler
    OBVIOUS
  <2>2. QED
    BY <1>0, <1>1, <1>6, <2>1, FilesKept DEF OpenFiles
<1>8. QED
  BY <1>0, <1>4, <1>5, <1>7 DEF Types, TypeOK, Kinds, Paths, Doing

LEMMA InitTypes == Init => Types
<1> SUFFICES ASSUME Init PROVE Types
  OBVIOUS
<1>1. PICK ks \in SUBSET Key : Stored \in [ks -> [body : Payload, attrs : Attr]]
  BY FsObjectAssumption
<1>2. DOMAIN Stored = ks /\ \A k \in ks : Stored[k].body \in Payload /\ Stored[k].attrs \in Attr
  BY <1>1
<1>3. \A x \in Inode : (\E k \in ks : ino[k] = x) => (CHOOSE k \in ks : ino[k] = x) \in ks
  OBVIOUS
<1>4. data \in [Inode -> Opt(Payload) \cup {Torn}] /\ \A k \in ks : data[ino[k]] \in Payload
  BY <1>2, <1>3 DEF Init, Opt
<1>5. Kinds
  BY <1>2, <1>4, NoTaskIsTask, FsObjectAssumption DEF Init, Kinds, Opt
<1>6. Paths
  <2>1. \A k \in Key : ino[k] # Absent <=> k \in ks
    BY <1>2 DEF Init
  <2>2. \A k, l \in ks : ino[k] = ino[l] => k = l
    BY <1>2 DEF Init
  <2>3. QED
    BY <1>4, <2>1, <2>2, FsObjectAssumption DEF Paths
<1>7. Doing /\ OpenFiles
  BY DEF Init, Doing, DoingAt, OpenFiles, OpenAt, Active, NoTask, Putting, Reading, Copying
<1>8. QED
  BY <1>5, <1>6, <1>7 DEF Types, TypeOK, Kinds, Paths

LEMMA NextTypes == ASSUME Types, [Next]_vars PROVE Types'
<1>1. CASE UNCHANGED vars
  BY <1>1 DEF vars, disk, hist, Types, TypeOK, Doing, DoingAt, OpenFiles, OpenAt, Active
<1>2. CASE Next
  <2>1. (\E h \in Handler : (\E r \in Request : Begin(h, r)) \/ Progress(h)) \/ AnyFault
    BY <1>2 DEF Next, AnyFault
  <2>2. QED
    BY <2>1, BeginTypes, ProgressTypes, FaultSteps, FaultTypes
<1>3. QED
  BY <1>1, <1>2

-----------------------------------------------------------------------------
(* What handlers know of the disk *)

\* A key whose three files, and history, a step leaves alone.
Frame(k) ==
    /\ ino'[k] = ino[k] /\ (ino[k] # Absent => data'[ino[k]] = data[ino[k]])
    /\ attrs'[k] = attrs[k] /\ info'[k] = info[k] /\ truth'[k] = truth[k]
    /\ k \in tainted => k \in tainted'

\* A handler that has not moved still knows what it knew.
LEMMA KnownKept ==
    ASSUME Types, NEW h \in Handler, KnownAt(h), Active(h), pc'[h] = pc[h], SameView(h),
           t'[h].solo => t[h].solo /\ \A k \in Touches(t[h].req) : Frame(k),
           t[h].req.op = "get" /\ ~t'[h].overcopied /\ pc[h] \in {"g_attrs", "g_info", "g_body"} =>
               data'[t[h].fd] = data[t[h].fd],
           ~t'[h].overcopied => ~t[h].overcopied
    PROVE  KnownAt(h)'
<1>0. /\ t[h].req.op \in {"put", "get", "head"} => Touches(t[h].req) = {t[h].req.key}
      /\ t[h].req.op = "copy" => Touches(t[h].req) = {t[h].req.src, t[h].req.key}
      /\ pc[h] = "c_fill" => t[h].fd # Absent
  BY AtHand, WriteSets, FsObjectAssumption DEF Here
<1>1. t[h].req.op = "put" => PutAt(h)'
  BY <1>0 DEF KnownAt, SameView, Frame, PutAt
<1>2. t[h].req.op = "copy" => CopyPlaceAt(h)'
  BY <1>0 DEF KnownAt, SameView, Frame, CopyPlaceAt
<1>3. t[h].req.op = "copy" => CopyDataAt(h)'
  BY <1>0 DEF KnownAt, SameView, Frame, CopyPlaceAt, CopyDataAt, Given
<1>4. t[h].req.op \in {"get", "head"} => ReadAt(h)'
  BY <1>0 DEF KnownAt, SameView, Frame, ReadAt
<1>5. StreamAt(h)'
  BY <1>0 DEF KnownAt, SameView, StreamAt
<1>6. QED
  BY <1>1, <1>2, <1>3, <1>4, <1>5 DEF KnownAt, SameView

\* A step leaves alone the keys it does not write ...
LEMMA StepFrame == ASSUME Types, NEW h \in Handler, Progress(h), NEW k \in Key, k \notin W(h) PROVE Frame(k)
<1>0. Kinds /\ Paths /\ InoStep(h) /\ DataStep(h) /\ SidecarStep(h) /\ OpenAt(h) /\ Here(h) /\ Active(h)
  BY InoSteps, DataSteps, SidecarSteps, TaskSteps, AtHand DEF Types, TypeOK, Kinds, Paths, OpenFiles, TaskStep
<1>00. t[h].req.op \in {"put", "copy"} => W(h) = {t[h].req.key} /\ t[h].req.key \in Key
  BY <1>0, WriteSets DEF Here, W
<1>1. ino'[k] = ino[k]
  BY <1>0 DEF InoStep, Kinds
<1>2. ASSUME ino[k] # Absent PROVE data'[ino[k]] = data[ino[k]]
  <2>1. ino[k] \in Inode /\ data[ino[k]] # Absent
    BY <1>0, <1>2 DEF Kinds, Paths, Opt
  <2>2. \A x \in Inode : ino'[k] = x => Reachable(x)'
    BY DEF Reachable
  <2>3. ~(t[h].req.op = "copy" /\ ino[k] \in {ino[t[h].req.key], t[h].out})
    BY <1>0, <1>00, <1>2 DEF Paths, OpenAt
  <2>4. QED
    BY <1>0, <1>1, <2>1, <2>2, <2>3 DEF DataStep
<1>3. truth'[k] = truth[k] /\ (k \in tainted => k \in tainted')
  <2>1. CASE ~Respond(h)
    BY <2>1, HistSteps DEF hist
  <2>2. CASE Respond(h)
    BY <1>0, <1>00, <2>2 DEF Respond, Kinds
  <2>3. QED
    BY <2>1, <2>2
<1>4. QED
  BY <1>0, <1>1, <1>2, <1>3 DEF Frame, SidecarStep

\* ... and what the other handlers know.
LEMMA OthersKnow ==
    ASSUME Types, Inv, NEW h \in Handler, Progress(h), NEW g \in Handler \ {h}
    PROVE  KnownAt(g)'
<1>0. TaskStep(h) /\ DataStep(h) /\ KnownAt(g) /\ Here(g) /\ Here(h) /\ OpenAt(g) /\ OpenFiles
  BY TaskSteps, DataSteps, AtHand DEF Inv, Types, OpenFiles
<1>1. CASE ~Active(g)
  BY <1>0, <1>1 DEF KnownAt, TaskStep, Active
<1>2. CASE Active(g)
  <2>1. pc'[g] = pc[g] /\ t'[g] = t[g] /\ SameView(g) /\ Active(h)
    BY <1>0 DEF TaskStep, SameView
  <2>2. Touches(t[g].req) \subseteq Key
    BY <1>0, <1>2, WriteSets DEF Here
  <2>3. t[g].solo => \A k \in Touches(t[g].req) : Frame(k)
    <3>1. t[g].solo => W(h) \cap Touches(t[g].req) = {}
      BY <1>2, <2>1 DEF Inv, Overlap
    <3>2. QED
      BY <2>2, <3>1, StepFrame
  <2>4. ASSUME t[g].req.op = "get", ~t[g].overcopied, pc[g] \in {"g_attrs", "g_info", "g_body"}
        PROVE  data'[t[g].fd] = data[t[g].fd]
    <3>1. t[g].fd \in Inode /\ data[t[g].fd] # Absent
      BY <1>0, <2>4, FsObjectAssumption DEF Types, Doing, DoingAt, OpenAt
    <3>2. Reachable(t[g].fd)'
      BY <2>1 DEF Reachable
    <3>3. t[h].req.op = "copy" => t[g].fd \notin {ino[t[h].req.key], t[h].out}
      <4> SUFFICES ASSUME t[h].req.op = "copy", t[g].fd \in {ino[t[h].req.key], t[h].out} PROVE FALSE
        OBVIOUS
      <4>1. t[h].req.key \in Key /\ t[h].req.key \in W(h)
        BY <1>0, <2>1, WriteSets DEF Here, W
      <4>2. t[h].req.key = FdKey(t[g].req)
        BY <1>0, <3>1, <4>1, FsObjectAssumption DEF OpenAt, OpenFiles
      <4>3. t[h].req.key \in Touches(t[g].req)
        BY <1>0, <1>2, <2>4, <4>2, WriteSets DEF Here, FdKey
      <4>4. QED
        BY <1>2, <2>1, <2>4, <4>1, <4>3 DEF Inv, Overlap
    <3>4. QED
      BY <1>0, <2>1, <3>1, <3>2, <3>3 DEF DataStep
  <2>5. QED
    BY <1>0, <1>2, <2>1, <2>3, <2>4, KnownKept
<1>3. QED
  BY <1>1, <1>2

\* The steps a request takes, by its operation.
LEMMA ByOperation ==
    ASSUME Types, NEW h \in Handler, Progress(h), ~Respond(h)
    PROVE  /\ t[h].req.op = "put" =>
                PutExists(h) \/ PutETag(h) \/ PutBody(h) \/ PutRename(h) \/ PutAttrs(h) \/ PutInfo(h)
           /\ t[h].req.op \in {"get", "head"} => Open(h) \/ LoadAttrs(h) \/ LoadInfo(h) \/ StreamBody(h)
           /\ t[h].req.op = "copy" =>
                \/ CopyExists(h) \/ CopyLoadInfo(h) \/ CopyOpen(h) \/ CopyFill(h) \/ CopyETag(h)
                \/ CopyAttrs(h) \/ CopySidecar(h) \/ CopySaveInfo(h)
<1>1. Here(h)
  BY AtHand
<1>2. QED
  BY <1>1 DEF Here, Progress, Putting, Reading, Copying, PutExists, PutETag, PutBody, PutRename, PutAttrs, PutInfo,
     Open, LoadAttrs, LoadInfo, StreamBody, DeleteExists, DeleteRemove, DeleteOne, DeleteAllDone,
     CopyExists, CopyLoadInfo, CopyOpen, CopyFill, CopyETag, CopyAttrs, CopySidecar, CopySaveInfo

\* What an undisturbed reader reads, and an undisturbed copy copies, is in order.
LEMMA ReaderSound ==
    ASSUME Types, Inv, NEW h \in Handler, Active(h), t[h].req.op \in {"get", "head"},
           t[h].solo, t[h].req.key \notin tainted
    PROVE  Sound(t[h].req.key)
<1>1. t[h].req.key \in Key /\ W(h) = {} /\ t[h].req.key \in Touches(t[h].req)
  BY AtHand, WriteSets DEF Here, W
<1>2. \A g \in Handler \ {h} : Active(g) => t[h].req.key \notin W(g)
  BY <1>1 DEF Inv, Overlap
<1>3. Settled(t[h].req.key)
  BY <1>1, <1>2 DEF Settled
<1>4. QED
  BY <1>1, <1>3 DEF Inv, SettledSound

LEMMA SourceSound ==
    ASSUME Types, Inv, NEW h \in Handler, Active(h), t[h].req.op = "copy",
           t[h].solo, t[h].req.src \notin tainted, t[h].req.src # t[h].req.key \/ ~InTheMiddle(h)
    PROVE  Sound(t[h].req.src)
<1>0. t[h].req \in Request
  BY AtHand DEF Here
<1>1. t[h].req.src \in Key /\ W(h) = {t[h].req.key} /\ t[h].req.src \in Touches(t[h].req)
  BY <1>0, Requests, WriteSets DEF W
<1>2. \A g \in Handler \ {h} : Active(g) => t[h].req.src \notin W(g)
  BY <1>1 DEF Inv, Overlap
<1>3. Settled(t[h].req.src)
  BY <1>1, <1>2 DEF Settled
<1>4. QED
  BY <1>1, <1>3 DEF Inv, SettledSound

LEMMA PutKnows ==
    ASSUME Types, Inv, NEW h \in Handler, Progress(h), ~Respond(h), t[h].req.op = "put"
    PROVE  KnownAt(h)'
<1>0. /\ Kinds /\ Here(h) /\ PutAt(h) /\ Active(h)
      /\ t'[h].req = t[h].req /\ t'[h].solo = t[h].solo
      /\ t[h].req.key \in Key
  <2>1. TaskStep(h) /\ KnownAt(h) /\ Here(h)
    BY TaskSteps, AtHand DEF Inv
  <2>2. pc'[h] # "idle"
    BY ByOperation DEF PutExists, PutETag, PutBody, PutRename, PutAttrs, PutInfo, Goto, Types, TypeOK
  <2>3. QED
    BY <2>1, <2>2 DEF Types, TypeOK, Kinds, TaskStep, KnownAt, Here
<1>1. SUFFICES PutAt(h)'
  BY <1>0 DEF KnownAt, StreamAt
<1> DEFINE r == t[h].req
<1>2. CASE PutExists(h) \/ PutETag(h) \/ PutBody(h)
  <2>1. pc'[h] \in {"err", "p_etag", "p_body", "p_done"}
    BY <1>0, <1>2 DEF PutExists, PutETag, PutBody, Goto, Kinds
  <2>2. QED
    BY <2>1 DEF PutAt
<1>3. CASE PutRename(h)
  <2>1. PICK x \in Inode : ino' = [ino EXCEPT ![r.key] = x] /\ Settle([data EXCEPT ![x] = r.body])
    BY <1>3 DEF PutRename
  <2>2. ino'[r.key] = x /\ x # Absent /\ Reachable(x)'
    BY <1>0, <2>1, FsObjectAssumption DEF Kinds, Reachable
  <2>3. data'[x] = r.body
    BY <1>0, <2>1, <2>2 DEF Settle, Kinds
  <2>4. pc'[h] = "p_attrs"
    BY <1>0, <1>3 DEF PutRename, Goto, Kinds
  <2>5. QED
    BY <1>0, <2>2, <2>3, <2>4 DEF PutAt
<1>4. CASE PutAttrs(h)
  <2>1. pc[h] = "p_attrs" /\ pc'[h] = "p_info" /\ ino' = ino /\ data' = data /\ attrs'[r.key] = r.attrs
    BY <1>0, <1>4 DEF PutAttrs, Goto, Kinds
  <2>2. QED
    BY <1>0, <2>1 DEF PutAt
<1>5. CASE PutInfo(h)
  <2>1. /\ pc[h] = "p_info" /\ pc'[h] = "ok" /\ ino' = ino /\ data' = data /\ attrs' = attrs
        /\ info'[r.key] = r.body
    BY <1>0, <1>5 DEF PutInfo, Goto, Kinds
  <2>2. QED
    BY <1>0, <2>1 DEF PutAt
<1>6. QED
  BY <1>2, <1>3, <1>4, <1>5, ByOperation

\* How the steps of a reader change its local variables.
LEMMA ReadSteps ==
    ASSUME Types, NEW h \in Handler
    PROVE  /\ LoadAttrs(h) =>
                /\ t'[h].meta = IF attrs[t[h].req.key] = Torn THEN Absent ELSE attrs[t[h].req.key]
                /\ t'[h].fd = t[h].fd /\ t'[h].bytes = t[h].bytes /\ t'[h].opened = t[h].opened
                /\ t'[h].etag = t[h].etag /\ pc'[h] = "g_info"
           /\ LoadInfo(h) /\ pc'[h] # "err" =>
                /\ t'[h].etag = CurrentETag(t[h].req.key) /\ t'[h].meta = t[h].meta
                /\ t'[h].fd = t[h].fd /\ t'[h].bytes = t[h].bytes /\ t'[h].opened = t[h].opened
                /\ pc'[h] = IF t[h].req.op = "get" THEN "g_body" ELSE "ok"
           /\ StreamBody(h) =>
                /\ t'[h].bytes = data[t[h].fd] /\ t'[h].etag = t[h].etag /\ t'[h].meta = t[h].meta
                /\ t'[h].opened = t[h].opened /\ pc'[h] = "ok"
<1>0. t \in [Handler -> Task] /\ t[h] \in Task /\ pc \in [Handler -> {"idle", "ok", "err"} \cup InFlight]
  BY DEF Types, TypeOK
<1>1. QED
  BY <1>0 DEF LoadAttrs, LoadInfo, StreamBody, Goto, Task

LEMMA ReaderKnows ==
    ASSUME Types, Inv, NEW h \in Handler, Progress(h), ~Respond(h), t[h].req.op \in {"get", "head"}
    PROVE  KnownAt(h)'
<1>0. /\ Kinds /\ Here(h) /\ ReadAt(h) /\ StreamAt(h) /\ Active(h)
      /\ t'[h].req = t[h].req /\ t'[h].solo = t[h].solo /\ t'[h].overcopied = t[h].overcopied
      /\ t[h].req.key \in Key /\ UNCHANGED <<ino, data, attrs, info, tainted, truth>>
  <2>1. TaskStep(h) /\ KnownAt(h) /\ Here(h)
    BY TaskSteps, AtHand DEF Inv
  <2>2. pc'[h] # "idle" /\ UNCHANGED disk
    BY ByOperation DEF Open, LoadAttrs, LoadInfo, StreamBody, Goto, Types, TypeOK
  <2>3. QED
    BY <2>1, <2>2, HistSteps DEF Types, TypeOK, Kinds, TaskStep, KnownAt, Here, disk, hist
<1>1. SUFFICES ReadAt(h)' /\ StreamAt(h)'
  BY <1>0 DEF KnownAt
<1> DEFINE k == t[h].req.key
<1>2. t[h].solo /\ k \notin tainted /\ ino[k] # Absent =>
        /\ data[ino[k]] \in Payload /\ info[k] = data[ino[k]]
        /\ attrs[k] = truth[k] /\ attrs[k] # Torn /\ info[k] # Absent
  BY <1>0, ReaderSound, FsObjectAssumption DEF Sound, Opt
<1>3. CASE pc'[h] = "err"
  BY <1>3 DEF ReadAt, StreamAt
<1>4. CASE Open(h) /\ pc'[h] # "err"
  <2>1. pc[h] = "g_open" /\ pc'[h] = "g_attrs" /\ ino[k] # Absent /\ Opened(h)
    BY <1>0, <1>4, Opens DEF Open, Goto, Kinds
  <2>2. QED
    BY <1>0, <2>1 DEF ReadAt, StreamAt, Opened
<1>5. CASE LoadAttrs(h)
  <2>1. pc[h] = "g_attrs"
    BY <1>5 DEF LoadAttrs
  <2>2. QED
    BY <1>0, <1>2, <1>5, <2>1, ReadSteps DEF ReadAt, StreamAt
<1>6. CASE LoadInfo(h) /\ pc'[h] # "err"
  <2>1. pc[h] = "g_info"
    BY <1>6 DEF LoadInfo
  <2>2. QED
    BY <1>0, <1>2, <1>6, <2>1, ReadSteps DEF ReadAt, StreamAt, CurrentETag
<1>7. CASE StreamBody(h)
  <2>1. pc[h] = "g_body" /\ t[h].req.op = "get"
    BY <1>0, <1>7 DEF StreamBody, Here
  <2>2. QED
    BY <1>0, <1>7, <2>1, ReadSteps DEF ReadAt, StreamAt
<1>8. QED
  BY <1>3, <1>4, <1>5, <1>6, <1>7, ByOperation

\* How the steps of a copy change its local variables.
LEMMA CopySteps ==
    ASSUME Types, NEW h \in Handler
    PROVE  /\ CopyLoadInfo(h) /\ pc'[h] # "err" =>
                /\ pc'[h] = "c_open"
                /\ t'[h].etag = IF t[h].req.cond = Absent THEN info[t[h].req.src] ELSE CurrentETag(t[h].req.src)
           /\ CopyFill(h) => t'[h].etag = t[h].etag /\ t'[h].meta = t[h].meta /\ pc'[h] \in {"err", "c_etag"}
           /\ CopyETag(h) /\ pc'[h] # "err" =>
                /\ pc'[h] = "c_attrs" /\ t'[h].meta = t[h].meta
                /\ t[h].etag # Absent => t'[h].etag = t[h].etag
           /\ CopyAttrs(h) =>
                /\ t'[h].etag = t[h].etag
                /\ \/ pc'[h] = "c_save" /\ t[h].req.attrs # Absent
                      /\ attrs' = [attrs EXCEPT ![t[h].req.key] = t[h].req.attrs]
                   \/ pc'[h] = "c_save" /\ t[h].req.attrs = Absent /\ attrs' = attrs
                      /\ (attrs[t[h].req.src] = Absent \/ t[h].req.src = t[h].req.key)
                   \/ pc'[h] = "c_sidecar" /\ t[h].req.attrs = Absent /\ t[h].req.src # t[h].req.key
                      /\ t'[h].meta = attrs[t[h].req.src] /\ attrs' = [attrs EXCEPT ![t[h].req.key] = Torn]
<1>0. t \in [Handler -> Task] /\ t[h] \in Task /\ pc \in [Handler -> {"idle", "ok", "err"} \cup InFlight]
  BY DEF Types, TypeOK
<1>1. CopyLoadInfo(h) /\ pc'[h] # "err" =>
        /\ pc'[h] = "c_open"
        /\ t'[h].etag = IF t[h].req.cond = Absent THEN info[t[h].req.src] ELSE CurrentETag(t[h].req.src)
  BY <1>0 DEF CopyLoadInfo, Goto, Task
<1>2. CopyFill(h) => t'[h].etag = t[h].etag /\ t'[h].meta = t[h].meta /\ pc'[h] \in {"err", "c_etag"}
  BY <1>0 DEF CopyFill, Goto, Task
<1>3. CopyETag(h) /\ pc'[h] # "err" =>
        /\ pc'[h] = "c_attrs" /\ t'[h].meta = t[h].meta
        /\ t[h].etag # Absent => t'[h].etag = t[h].etag
  BY <1>0 DEF CopyETag, Goto, Task
<1>4. CopyAttrs(h) =>
        /\ t'[h].etag = t[h].etag
        /\ \/ pc'[h] = "c_save" /\ t[h].req.attrs # Absent
              /\ attrs' = [attrs EXCEPT ![t[h].req.key] = t[h].req.attrs]
           \/ pc'[h] = "c_save" /\ t[h].req.attrs = Absent /\ attrs' = attrs
              /\ (attrs[t[h].req.src] = Absent \/ t[h].req.src = t[h].req.key)
           \/ pc'[h] = "c_sidecar" /\ t[h].req.attrs = Absent /\ t[h].req.src # t[h].req.key
              /\ t'[h].meta = attrs[t[h].req.src] /\ attrs' = [attrs EXCEPT ![t[h].req.key] = Torn]
  BY <1>0 DEF CopyAttrs, Goto, Task
<1>5. QED
  BY <1>1, <1>2, <1>3, <1>4

LEMMA CopyKnows ==
    ASSUME Types, Inv, NEW h \in Handler, Progress(h), ~Respond(h), t[h].req.op = "copy"
    PROVE  KnownAt(h)'
<1>0. /\ Kinds /\ Here(h) /\ CopyPlaceAt(h) /\ CopyDataAt(h) /\ Active(h)
      /\ t'[h].req = t[h].req /\ t'[h].solo = t[h].solo
      /\ t[h].req.key \in Key /\ t[h].req.src \in Key /\ UNCHANGED <<tainted, truth>>
  <2>1. TaskStep(h) /\ KnownAt(h) /\ Here(h)
    BY TaskSteps, AtHand DEF Inv
  <2>2. pc'[h] # "idle"
    BY ByOperation DEF CopyExists, CopyLoadInfo, CopyOpen, CopyFill, CopyETag, CopyAttrs, CopySidecar, CopySaveInfo,
       Goto, Types, TypeOK
  <2>3. t[h].req.src \in Key
    BY <2>1, Requests DEF Here, TaskStep
  <2>4. QED
    BY <2>1, <2>2, <2>3, HistSteps DEF Types, TypeOK, Kinds, TaskStep, KnownAt, Here, hist
<1>1. SUFFICES CopyPlaceAt(h)' /\ CopyDataAt(h)'
  BY <1>0 DEF KnownAt, StreamAt
<1> DEFINE r == t[h].req
<1>2. t[h].solo /\ r.src \notin tainted /\ (r.src # r.key \/ ~InTheMiddle(h)) /\ ino[r.src] # Absent =>
        /\ data[ino[r.src]] \in Payload /\ info[r.src] = data[ino[r.src]]
        /\ attrs[r.src] = truth[r.src] /\ truth[r.src] \in Attr /\ info[r.src] # Absent /\ attrs[r.src] # Absent
  BY <1>0, SourceSound, FsObjectAssumption DEF Sound
<1>3. CASE pc'[h] = "err"
  BY <1>3 DEF CopyPlaceAt, CopyDataAt
<1>4. CASE CopyExists(h)
  <2>1. pc'[h] \in {"err", "c_info"}
    BY <1>0, <1>4 DEF CopyExists, Goto, Kinds
  <2>2. QED
    BY <2>1 DEF CopyPlaceAt, CopyDataAt
<1>5. CASE CopyLoadInfo(h) /\ pc'[h] # "err"
  <2>1. pc[h] = "c_info" /\ UNCHANGED <<ino, data>> /\ ~InTheMiddle(h) /\ pc'[h] = "c_open"
        /\ t'[h].etag = IF r.cond = Absent THEN info[r.src] ELSE CurrentETag(r.src)
    BY <1>5, CopySteps DEF CopyLoadInfo, disk, InTheMiddle, HalfDone
  <2>2. QED
    BY <1>0, <1>2, <2>1 DEF CopyPlaceAt, CopyDataAt, CurrentETag
<1>6. CASE CopyOpen(h) /\ pc'[h] = "c_etag"
  <2>1. pc[h] = "c_open" /\ r.src = r.key /\ ino[r.src] # Absent /\ UNCHANGED <<ino, data, t, attrs>> /\ ~InTheMiddle(h)
    BY <1>6, CopyOpens DEF CopyOpen, InTheMiddle, HalfDone
  <2>2. QED
    BY <1>0, <1>2, <1>6, <2>1 DEF CopyPlaceAt, CopyDataAt
<1>7. CASE CopyOpen(h) /\ pc'[h] = "c_fill"
  <2>1. pc[h] = "c_open" /\ \E x \in Inode : Truncated(h, x)
    BY <1>7, CopyOpens
  <2>2. Frame(r.src)
    <3>1. r.src \notin W(h)
      BY <1>0, <2>1, WriteSets DEF Truncated, W, Here
    <3>2. QED
      BY <1>0, <3>1, StepFrame
  <2>3. /\ r.src # r.key /\ ino[r.src] # Absent /\ ino'[r.key] = t'[h].out /\ ino'[r.src] = t'[h].fd
        /\ t'[h].etag = t[h].etag
    BY <1>0, <2>1 DEF Truncated, Kinds
  <2>4. QED
    BY <1>0, <1>7, <2>1, <2>2, <2>3 DEF CopyPlaceAt, CopyDataAt, Frame
<1>8. CASE CopyFill(h) /\ pc'[h] # "err"
  <2>1. pc[h] = "c_fill" /\ pc'[h] = "c_etag" /\ UNCHANGED <<ino, attrs>> /\ t'[h].etag = t[h].etag
    BY <1>8, CopySteps DEF CopyFill
  <2>2. t[h].fd \in Inode /\ t[h].out \in Inode
    BY <1>0, <2>1 DEF Here
  <2>3. ino[r.key] = t[h].out => data'[t[h].out] = data[t[h].fd]
    <3>1. \A y \in Inode : Reachable(y)' => data'[y] = IF y = t[h].out THEN data[t[h].fd] ELSE data[y]
      BY <1>0, <1>8 DEF CopyFill, Settle, Kinds
    <3>2. \A y \in Inode : ino[r.key] = y => Reachable(y)'
      BY <1>0, <2>1 DEF Reachable
    <3>3. QED
      BY <2>2, <3>1, <3>2
  <2>4. QED
    BY <1>0, <1>2, <2>1, <2>2, <2>3, FsObjectAssumption DEF CopyPlaceAt, CopyDataAt
<1>9. CASE CopyETag(h) /\ pc'[h] # "err"
  <2>1. /\ pc[h] = "c_etag" /\ pc'[h] = "c_attrs" /\ UNCHANGED <<ino, data, attrs>>
        /\ t[h].etag # Absent => t'[h].etag = t[h].etag
    BY <1>9, CopySteps DEF CopyETag, disk
  <2>2. QED
    BY <1>0, <2>1, FsObjectAssumption DEF CopyPlaceAt, CopyDataAt
<1>10. CASE CopyAttrs(h)
  <2>1. pc[h] = "c_attrs" /\ UNCHANGED <<ino, data>> /\ t'[h].etag = t[h].etag /\ r.attrs \in Opt(Attr)
    BY <1>0, <1>10, CopySteps DEF CopyAttrs, Here, Copying
  <2>2. CASE pc'[h] = "c_save" /\ r.attrs # Absent /\ attrs' = [attrs EXCEPT ![r.key] = r.attrs]
    <3>1. attrs'[r.key] = r.attrs /\ r.attrs \in Attr
      BY <1>0, <2>1, <2>2 DEF Kinds, Opt
    <3>2. QED
      BY <1>0, <2>1, <2>2, <3>1 DEF CopyPlaceAt, CopyDataAt, Given
  <2>3. CASE pc'[h] = "c_save" /\ r.attrs = Absent /\ attrs' = attrs /\ (attrs[r.src] = Absent \/ r.src = r.key)
    BY <1>0, <1>2, <2>1, <2>3 DEF CopyPlaceAt, CopyDataAt, Given
  <2>4. CASE /\ pc'[h] = "c_sidecar" /\ r.attrs = Absent /\ r.src # r.key
             /\ t'[h].meta = attrs[r.src] /\ attrs' = [attrs EXCEPT ![r.key] = Torn]
    <3>1. attrs'[r.key] = Torn
      BY <1>0, <2>4 DEF Kinds
    <3>2. QED
      BY <1>0, <1>2, <2>1, <2>4, <3>1 DEF CopyPlaceAt, CopyDataAt
  <2>5. QED
    BY <1>10, <2>2, <2>3, <2>4, CopySteps
<1>11. CASE CopySidecar(h) /\ pc'[h] # "err"
  <2>1. /\ pc[h] = "c_sidecar" /\ pc'[h] = "c_save" /\ UNCHANGED <<ino, data, t>>
        /\ attrs[r.key] = Torn => attrs'[r.key] = t[h].meta
    BY <1>0, <1>11 DEF CopySidecar, Goto, Kinds
  <2>2. QED
    BY <1>0, <2>1 DEF CopyPlaceAt, CopyDataAt, Given
<1>12. CASE CopySaveInfo(h)
  <2>1. /\ pc[h] = "c_save" /\ pc'[h] = "ok" /\ UNCHANGED <<ino, data, attrs, t>> /\ info'[r.key] = t[h].etag
    BY <1>0, <1>12 DEF CopySaveInfo, Goto, Kinds
  <2>2. QED
    BY <1>0, <2>1 DEF CopyPlaceAt, CopyDataAt, Given
<1>13. QED
  BY <1>3, <1>4, <1>5, <1>6, <1>7, <1>8, <1>9, <1>10, <1>11, <1>12, ByOperation, CopyOpens

LEMMA OwnKnows == ASSUME Types, Inv, NEW h \in Handler, Progress(h) PROVE KnownAt(h)'
<1>1. CASE Respond(h)
  BY <1>1 DEF Respond, Close, KnownAt, Active
<1>2. CASE ~Respond(h)
  <2>1. TaskStep(h) /\ Here(h)
    BY TaskSteps, AtHand
  <2>2. t[h].req.op \in {"put", "get", "head", "copy"} => KnownAt(h)'
    BY <1>2, PutKnows, ReaderKnows, CopyKnows
  <2>3. t[h].req.op \notin {"put", "get", "head", "copy"} => KnownAt(h)'
    BY <2>1 DEF KnownAt, TaskStep, StreamAt, Active
  <2>4. QED
    BY <2>2, <2>3
<1>3. QED
  BY <1>1, <1>2

-----------------------------------------------------------------------------
(* The invariant *)

LEMMA OverlapKept == ASSUME Types, Inv, NEW h \in Handler, Progress(h) PROVE Overlap'
<1>1. TaskStep(h)
  BY TaskSteps
<1>2. ASSUME NEW g \in Handler, Active(g)'
      PROVE  Active(g) /\ t'[g].req = t[g].req /\ t'[g].solo = t[g].solo /\ t'[g].overcopied = t[g].overcopied
  BY <1>1, <1>2 DEF TaskStep, Active
<1>3. QED
  BY <1>2 DEF Inv, Overlap, W

\* Keys that somebody else writes, or that no undisturbed request writes, stay tainted.
LEMMA TaintKept ==
    ASSUME Types, Inv, NEW h \in Handler, Progress(h), NEW g \in Handler, Active(g)', NEW k \in W(g), k \in tainted,
           g = h => ~Respond(h)
    PROVE  k \in tainted'
<1>0. TaskStep(h) /\ Here(h)
  BY TaskSteps, AtHand
<1>1. CASE ~Respond(h)
  BY <1>1, HistSteps DEF hist
<1>2. CASE Respond(h)
  <2>1. g # h /\ Active(g) /\ Active(h)
    BY <1>0, <1>2 DEF TaskStep, Active
  <2>2. CASE t[h].solo /\ t[h].req.op \in {"put", "copy"}
    <3>1. t[h].req.key \in Touches(t[h].req)
      BY <1>0, <2>1, <2>2, WriteSets DEF Here
    <3>2. t[h].req.key \notin W(g)
      BY <2>1, <2>2, <3>1 DEF Inv, Overlap
    <3>3. QED
      BY <1>2, <3>2 DEF Respond
  <2>3. CASE ~(t[h].solo /\ t[h].req.op \in {"put", "copy"})
    BY <1>2, <2>3 DEF Respond
  <2>4. QED
    BY <2>2, <2>3
<1>3. QED
  BY <1>1, <1>2

LEMMA MarkedKept == ASSUME Types, Inv, NEW h \in Handler, Progress(h) PROVE Marked'
<1>0. TaskStep(h) /\ Here(h) /\ Marked
  BY TaskSteps, AtHand DEF Inv
<1> SUFFICES ASSUME NEW g \in Handler, Active(g)'
             PROVE  /\ ~t'[g].solo => W(g)' \subseteq tainted'
                    /\ t'[g].lost => pc'[g] \in {"d_remove", "m_remove", "c_fill", "c_sidecar", "ok", "err"}
                    /\ t'[g].lost /\ pc'[g] \in {"c_fill", "c_sidecar"} => t'[g].req.key \in tainted'
  BY DEF Marked
<1>1. /\ Active(g) /\ t'[g].req = t[g].req /\ t'[g].solo = t[g].solo /\ t'[g].lost = t[g].lost
      /\ W(g)' = W(g) /\ (g = h => ~Respond(h))
  BY <1>0 DEF TaskStep, Active, W, Respond, Close
<1>2. \A k \in W(g) : k \in tainted => k \in tainted'
  BY <1>1, TaintKept
<1>3. g # h => pc'[g] = pc[g]
  BY <1>0 DEF TaskStep
<1>4. pc[g] \in {"c_fill", "c_sidecar"} => t[g].req.key \in W(g)
  <2>1. Here(g)
    BY AtHand
  <2>2. QED
    BY <1>1, <2>1, WriteSets DEF Here, Copying, W
<1>5. CASE g # h
  BY <1>0, <1>1, <1>2, <1>3, <1>4, <1>5 DEF Marked
<1>6. CASE g = h
  <2>1. ~t[h].solo => W(h) \subseteq tainted'
    BY <1>0, <1>1, <1>2, <1>6 DEF Marked
  <2>2. t[h].lost => pc'[h] \in {"d_remove", "m_remove", "ok", "err"}
    <3>1. t[h].lost => pc[h] \in {"d_remove", "m_remove", "c_fill", "c_sidecar", "ok", "err"}
      BY <1>0, <1>1, <1>6 DEF Marked
    <3>2. pc \in [Handler -> {"idle", "ok", "err"} \cup InFlight]
      BY DEF Types, TypeOK
    <3>3. QED
      BY <1>1, <1>6, <3>1, <3>2 DEF Progress, Goto, PutExists, PutETag, PutBody, PutRename, PutAttrs, PutInfo,
         Open, LoadAttrs, LoadInfo, StreamBody, DeleteExists, DeleteRemove, DeleteOne, DeleteAllDone,
         CopyExists, CopyLoadInfo, CopyOpen, CopyFill, CopyETag, CopyAttrs, CopySidecar, CopySaveInfo
  <2>3. QED
    BY <1>1, <1>6, <2>1, <2>2
<1>7. QED
  BY <1>5, <1>6

\* A step that neither ends nor begins in the middle of a write takes files away at most.
NoWrite ==
    /\ UNCHANGED <<attrs, info, tainted, truth>>
    /\ \A k \in Key : ino'[k] \in {ino[k], Absent}
    /\ \A k \in Key : ino'[k] # Absent => data'[ino[k]] = data[ino[k]]
LEMMA NoWrites ==
    ASSUME Types, NEW h \in Handler, Progress(h), ~InTheMiddle(h), ~InTheMiddle(h)'
    PROVE  NoWrite
<1>0. Kinds /\ Here(h)
  BY AtHand DEF Types, TypeOK, Kinds
<1> USE <1>0 DEF Kinds, NoWrite, InTheMiddle, HalfDone, Goto, disk, hist
<1>1. CASE PutExists(h)
  BY <1>1 DEF PutExists
<1>2. CASE PutETag(h)
  BY <1>2 DEF PutETag
<1>3. CASE PutBody(h)
  BY <1>3 DEF PutBody
<1>4. CASE PutRename(h)
  BY <1>4 DEF PutRename, Settle
<1>5. CASE PutAttrs(h)
  BY <1>5 DEF PutAttrs
<1>6. CASE PutInfo(h)
  BY <1>6 DEF PutInfo
<1>7. CASE Open(h)
  BY <1>7 DEF Open
<1>8. CASE LoadAttrs(h)
  BY <1>8 DEF LoadAttrs
<1>9. CASE LoadInfo(h)
  BY <1>9 DEF LoadInfo
<1>10. CASE StreamBody(h)
  BY <1>10 DEF StreamBody
<1>11. CASE DeleteExists(h)
  BY <1>11 DEF DeleteExists
<1>12. CASE DeleteRemove(h)
  <2>1. UNCHANGED <<attrs, info, tainted, truth>> /\ \A l \in Key : ino'[l] \in {ino[l], Absent}
    BY <1>12 DEF DeleteRemove, Unlink, Settle
  <2>2. \A x \in Inode : Reachable(x)' => data'[x] = data[x]
    BY <1>12 DEF DeleteRemove, Unlink, Settle
  <2>3. \A l \in Key, x \in Inode : ino'[l] = x => Reachable(x)'
    BY DEF Reachable
  <2>4. QED
    BY <2>1, <2>2, <2>3 DEF Opt
<1>13. CASE DeleteAllDone(h)
  BY <1>13 DEF DeleteAllDone
<1>14. CASE CopyExists(h)
  BY <1>14 DEF CopyExists
<1>15. CASE CopyLoadInfo(h)
  BY <1>15 DEF CopyLoadInfo
<1>16. CASE CopyOpen(h)
  BY <1>16 DEF CopyOpen
<1>17. CASE CopyFill(h)
  BY <1>17 DEF CopyFill, Settle
<1>18. CASE CopyETag(h)
  BY <1>18 DEF CopyETag
<1>19. CASE CopyAttrs(h)
  BY <1>19 DEF CopyAttrs
<1>20. CASE CopySidecar(h)
  BY <1>20 DEF CopySidecar
<1>21. CASE CopySaveInfo(h)
  BY <1>21 DEF CopySaveInfo
<1>22. CASE Respond(h)
  <2>1. UNCHANGED <<attrs, info, tainted, truth>> /\ \A l \in Key : ino'[l] \in {ino[l], Absent}
    BY <1>22 DEF Respond, Close, Settle
  <2>2. \A x \in Inode : Reachable(x)' => data'[x] = data[x]
    BY <1>22 DEF Respond, Close, Settle
  <2>3. \A l \in Key, x \in Inode : ino'[l] = x => Reachable(x)'
    BY DEF Reachable
  <2>4. QED
    BY <2>1, <2>2, <2>3 DEF Opt
<1>23. ASSUME NEW k \in Key, DeleteOne(h, k) PROVE NoWrite
  <2>1. UNCHANGED <<attrs, info, tainted, truth>> /\ \A l \in Key : ino'[l] \in {ino[l], Absent}
    BY <1>23 DEF DeleteOne, Unlink, Settle
  <2>2. \A x \in Inode : Reachable(x)' => data'[x] = data[x]
    BY <1>23 DEF DeleteOne, Unlink, Settle
  <2>3. \A l \in Key, x \in Inode : ino'[l] = x => Reachable(x)'
    BY DEF Reachable
  <2>4. QED
    BY <2>1, <2>2, <2>3 DEF Opt
<1>24. QED
  BY <1>1, <1>2, <1>3, <1>4, <1>5, <1>6, <1>7, <1>8, <1>9, <1>10, <1>11, <1>12, <1>13, <1>14, <1>15, <1>16, <1>17, <1>18, <1>19, <1>20, <1>21, <1>22, <1>23 DEF Progress

\* An undisturbed write that is answered leaves its key in order, or tainted by its source.
LEMMA AnsweredSound ==
    ASSUME Types, Inv, NEW h \in Handler, Respond(h), InTheMiddle(h),
           NEW k \in Key, k = t[h].req.key, k \notin tainted'
    PROVE  Sound(k)'
<1>0. /\ Kinds /\ Here(h) /\ KnownAt(h) /\ Marked /\ Active(h) /\ pc[h] = "ok" /\ t[h].req.op \in {"put", "copy"}
  BY AtHand DEF Types, TypeOK, Kinds, Inv, Respond, InTheMiddle, HalfDone, Active
<1> DEFINE r == t[h].req
<1>1. r \in Request /\ r.key \in Key /\ W(h) = {r.key} /\ UNCHANGED <<ino, attrs, info>>
  BY <1>0, WriteSets DEF Here, W, Respond, Close
<1>2. t[h].solo
  BY <1>0, <1>1 DEF Marked, Respond
<1>3. ino[r.key] # Absent => data'[ino[r.key]] = data[ino[r.key]]
  <2>1. \A x \in Inode : Reachable(x)' => data'[x] = data[x]
    BY <1>0 DEF Respond, Close, Settle, Kinds
  <2>2. \A x \in Inode : ino[r.key] = x => Reachable(x)'
    BY <1>1 DEF Reachable
  <2>3. QED
    BY <1>0, <1>1, <2>1, <2>2 DEF Kinds, Opt
<1>4. CASE r.op = "put"
  <2>1. truth'[r.key] = r.attrs
    BY <1>0, <1>1, <1>2, <1>4 DEF Respond, Kinds
  <2>2. r.body \in Payload /\ r.attrs \in Attr
    BY <1>1, <1>4, Requests
  <2>3. ino[r.key] # Absent /\ data[ino[r.key]] = r.body /\ attrs[r.key] = r.attrs /\ info[r.key] = r.body
    BY <1>0, <1>2, <1>4 DEF KnownAt, PutAt
  <2>4. QED
    BY <1>1, <1>3, <2>1, <2>2, <2>3 DEF Sound
<1>5. CASE r.op = "copy"
  <2>1. r.src \notin tainted
    BY <1>0, <1>2, <1>5 DEF Respond
  <2>2. truth'[r.key] = Given(r)
    BY <1>0, <1>1, <1>2, <1>5, <2>1 DEF Respond, Kinds, Given
  <2>3. /\ ino[r.key] # Absent /\ data[ino[r.key]] = t[h].etag /\ t[h].etag \in Payload
        /\ attrs[r.key] = Given(r) /\ Given(r) \in Attr /\ info[r.key] = t[h].etag
    BY <1>0, <1>2, <1>5, <2>1 DEF KnownAt, CopyDataAt
  <2>4. QED
    BY <1>1, <1>3, <2>2, <2>3 DEF Sound
<1>6. QED
  BY <1>0, <1>4, <1>5

LEMMA SettledKept == ASSUME Types, Inv, NEW h \in Handler, Progress(h) PROVE SettledSound'
<1>0. TaskStep(h) /\ Here(h) /\ Marked /\ Overlap /\ KnownAt(h) /\ Kinds
  BY TaskSteps, AtHand DEF Inv, Types, TypeOK, Kinds
<1> SUFFICES ASSUME NEW k \in Key, k \notin tainted', Settled(k)' PROVE Sound(k)'
  BY DEF SettledSound
<1>1. ASSUME NEW g \in Handler \ {h}, Active(g), InTheMiddle(g) PROVE k \notin W(g)
  <2>1. Active(g)' /\ InTheMiddle(g)' /\ W(g)' = W(g)
    BY <1>0, <1>1 DEF TaskStep, Active, InTheMiddle, W
  <2>2. QED
    BY <2>1 DEF Settled
<1>2. ASSUME k \notin W(h) \/ ~InTheMiddle(h), k \notin tainted PROVE Sound(k)
  BY <1>1, <1>2 DEF Settled, Inv, SettledSound
<1>3. CASE k \notin W(h)
  <2>1. Frame(k)
    BY <1>3, StepFrame
  <2>2. QED
    BY <1>2, <1>3, <2>1 DEF Frame, Sound
<1>4. CASE k \in W(h) /\ ~InTheMiddle(h)
  <2>1. ~InTheMiddle(h)'
    <3>1. InTheMiddle(h)' => Active(h)' /\ W(h)' = W(h)
      BY <1>0 DEF InTheMiddle, HalfDone, Active, TaskStep, W
    <3>2. QED
      BY <1>4, <3>1 DEF Settled
  <2>2. NoWrite
    BY <1>4, <2>1, NoWrites
  <2>3. QED
    BY <1>2, <1>4, <2>2 DEF NoWrite, Sound
<1>5. CASE k \in W(h) /\ InTheMiddle(h)
  <2>1. t[h].req.op \in {"put", "copy"} /\ k = t[h].req.key /\ Active(h)
    BY <1>0, <1>5, WriteSets DEF Here, InTheMiddle, HalfDone, Putting, Copying, Active, TaskStep, W
  <2>2. CASE Respond(h)
    BY <1>5, <2>1, <2>2, AnsweredSound
  <2>3. CASE ~Respond(h)
    <3>1. k \notin tainted /\ t[h].solo
      BY <1>0, <1>5, <2>1, <2>3, HistSteps DEF Marked, hist
    <3>2. t[h].lost => pc[h] \notin {"c_fill", "c_sidecar"}
      BY <1>0, <2>1, <3>1 DEF Marked
    <3>3. pc[h] = "c_etag" => ino[k] # Absent
      BY <1>0, <2>1, <3>1 DEF KnownAt, CopyPlaceAt, Here, Copying
    <3>4. pc'[h] \in HalfDone \cup {"ok"}
      BY <1>0, <1>5, <2>1, <2>3, <3>2, <3>3 DEF InTheMiddle, HalfDone, Kinds, Progress, Goto,
         PutExists, PutETag, PutBody, PutRename, PutAttrs, PutInfo,
         Open, LoadAttrs, LoadInfo, StreamBody, DeleteExists, DeleteRemove, DeleteOne, DeleteAllDone,
         CopyExists, CopyLoadInfo, CopyOpen, CopyFill, CopyETag, CopyAttrs, CopySidecar, CopySaveInfo, Respond
    <3>5. Active(h)' /\ W(h)' = W(h) /\ InTheMiddle(h)'
      BY <1>0, <2>1, <3>4 DEF TaskStep, W, Active, InTheMiddle, HalfDone
    <3>6. QED
      BY <1>5, <3>5 DEF Settled
  <2>4. QED
    BY <2>2, <2>3
<1>6. QED
  BY <1>3, <1>4, <1>5

LEMMA ProgressInv == ASSUME Types, Inv, NEW h \in Handler, Progress(h) PROVE Inv'
<1>1. \A g \in Handler : KnownAt(g)'
  BY OwnKnows, OthersKnow
<1>2. QED
  BY <1>1, OverlapKept, MarkedKept, SettledKept DEF Inv

LEMMA BeginInv == ASSUME Types, Inv, NEW h \in Handler, NEW r \in Request, Begin(h, r) PROVE Inv'
<1>0. /\ BeginAt(h, r) /\ UNCHANGED <<ino, data, attrs, info, truth>> /\ ~Active(h) /\ tainted \subseteq tainted'
      /\ pc'[h] \in {"p_body", "p_exists", "g_open", "d_exists", "m_remove", "c_exists"}
      /\ W(h)' = Writes(r) /\ t'[h].req = r
  <2>1. BeginAt(h, r) /\ t'[h].req = r /\ pc'[h] = First(r) /\ ~Active(h)
    BY Begins DEF BeginAt, Active
  <2>2. First(r) \in {"p_body", "p_exists", "g_open", "d_exists", "m_remove", "c_exists"}
    BY Requests DEF First
  <2>3. UNCHANGED <<ino, data, attrs, info, truth>> /\ tainted \subseteq tainted'
    BY BeginTaints DEF Begin, disk
  <2>4. QED
    BY <2>1, <2>2, <2>3 DEF W
<1>1. ASSUME NEW g \in Handler \ {h} PROVE BesideBegin(g, r) /\ pc'[g] = pc[g] /\ t'[g].req = t[g].req /\ W(g)' = W(g)
  BY Begins DEF BesideBegin, SameView, W
<1>2. Overlap'
  <2> SUFFICES ASSUME NEW f \in Handler, NEW g \in Handler, f # g, Active(f)', Active(g)',
                      W(f)' \cap Touches(t[g].req)' # {}
               PROVE  ~t'[g].solo /\ (t'[f].req.op = "copy" => t'[g].overcopied)
    BY DEF Overlap
  <2>1. CASE f = h
    <3>1. g # h /\ Active(g)
      BY <1>1, <2>1 DEF Active
    <3>2. DisturbedBy(g, r)
      BY <1>0, <1>1, <2>1, <3>1 DEF DisturbedBy, Active
    <3>3. QED
      BY <1>0, <1>1, <2>1, <3>1, <3>2 DEF BesideBegin
  <2>2. CASE g = h
    <3>1. f # h /\ Active(f)
      BY <1>1, <2>2 DEF Active
    <3>2. Disturbs(f, r)
      BY <1>0, <1>1, <2>2, <3>1 DEF Disturbs, Active, W
    <3>3. QED
      BY <1>0, <1>1, <2>2, <3>1, <3>2 DEF BeginAt, CopiesOnto
  <2>3. CASE f # h /\ g # h
    <3>1. Active(f) /\ Active(g) /\ W(f) \cap Touches(t[g].req) # {} /\ t'[f].req = t[f].req
      BY <1>1, <2>3 DEF Active
    <3>2. ~t[g].solo /\ (t[f].req.op = "copy" => t[g].overcopied)
      BY <3>1 DEF Inv, Overlap
    <3>3. QED
      BY <1>1, <2>3, <3>1, <3>2 DEF BesideBegin
  <2>4. QED
    BY <2>1, <2>2, <2>3
<1>3. Marked'
  <2>1. ~t'[h].solo => W(h)' \subseteq tainted'
    BY <1>0, BeginTaints DEF BeginAt
  <2>2. ~t'[h].lost
    BY <1>0 DEF BeginAt
  <2>3. ASSUME NEW g \in Handler \ {h}, Active(g)'
        PROVE  /\ ~t'[g].solo => W(g)' \subseteq tainted'
               /\ t'[g].lost => pc'[g] \in {"d_remove", "m_remove", "c_fill", "c_sidecar", "ok", "err"}
               /\ t'[g].lost /\ pc'[g] \in {"c_fill", "c_sidecar"} => t'[g].req.key \in tainted'
    <3>1. Active(g) /\ t'[g].lost = t[g].lost /\ t'[g].solo = (t[g].solo /\ ~DisturbedBy(g, r))
      BY <1>1, <2>3 DEF BesideBegin, Active
    <3>2. DisturbedBy(g, r) => W(g) \subseteq tainted'
      BY BeginTaints
    <3>3. QED
      BY <1>0, <1>1, <3>1, <3>2 DEF Inv, Marked
  <2>4. QED
    BY <2>1, <2>2, <2>3 DEF Marked
<1>4. SettledSound'
  <2> SUFFICES ASSUME NEW k \in Key, k \notin tainted', Settled(k)' PROVE Sound(k)'
    BY DEF SettledSound
  <2>1. ASSUME NEW g \in Handler, Active(g), InTheMiddle(g) PROVE k \notin W(g)
    <3>1. g # h
      BY <1>0, <2>1
    <3>2. Active(g)' /\ InTheMiddle(g)' /\ W(g)' = W(g)
      BY <1>1, <2>1, <3>1 DEF Active, InTheMiddle
    <3>3. QED
      BY <3>2 DEF Settled
  <2>2. Sound(k)
    BY <1>0, <2>1 DEF Settled, Inv, SettledSound
  <2>3. QED
    BY <1>0, <2>2 DEF Sound
<1>5. ASSUME NEW g \in Handler PROVE KnownAt(g)'
  <2>1. CASE g = h
    BY <1>0, <2>1 DEF KnownAt, PutAt, CopyPlaceAt, CopyDataAt, ReadAt, StreamAt
  <2>2. CASE g # h /\ ~Active(g)
    BY <1>1, <2>2 DEF KnownAt, Active
  <2>3. CASE g # h /\ Active(g)
    <3>1. /\ KnownAt(g) /\ SameView(g) /\ pc'[g] = pc[g] /\ (t'[g].solo => t[g].solo)
          /\ ~t'[g].overcopied => ~t[g].overcopied
      BY <1>1, <2>3 DEF Inv, BesideBegin
    <3>2. \A k \in Touches(t[g].req) : Frame(k)
      BY <1>0 DEF Frame
    <3>3. data'[t[g].fd] = data[t[g].fd]
      BY <1>0
    <3>4. QED
      BY <2>3, <3>1, <3>2, <3>3, KnownKept
  <2>4. QED
    BY <2>1, <2>2, <2>3
<1>6. QED
  BY <1>2, <1>3, <1>4, <1>5 DEF Inv

LEMMA FaultInv == ASSUME Types, Inv, FaultStep PROVE Inv'
<1>0. /\ UNCHANGED <<ino, attrs, info, truth>> /\ tainted \subseteq tainted' /\ Kinds
      /\ \A x \in Inode : Reachable(x)' => data'[x] = data[x]
  BY DEF FaultStep, Types, TypeOK, Kinds
<1>1. ASSUME NEW g \in Handler PROVE HandleKept(g) /\ FaultAt(g) /\ t[g] \in Task
  BY FaultHandles DEF FaultStep, Types, TypeOK
<1>2. Overlap'
  BY <1>1 DEF HandleKept, Inv, Overlap, W
<1>3. ASSUME NEW g \in Handler, Active(g)'
      PROVE  /\ ~t'[g].solo => W(g)' \subseteq tainted'
             /\ t'[g].lost => pc'[g] \in {"d_remove", "m_remove", "c_fill", "c_sidecar", "ok", "err"}
             /\ t'[g].lost /\ pc'[g] \in {"c_fill", "c_sidecar"} => t'[g].req.key \in tainted'
  <2>1. Active(g) /\ t'[g].req = t[g].req /\ t'[g].solo = t[g].solo /\ W(g)' = W(g)
    BY <1>1, <1>3 DEF HandleKept, W
  <2>2. CASE pc'[g] = pc[g] /\ t'[g] = t[g]
    BY <1>0, <2>1, <2>2 DEF Inv, Marked
  <2>3. CASE pc'[g] = "err" /\ t'[g] = t[g]
    BY <1>0, <2>1, <2>3 DEF Inv, Marked
  <2>4. CASE pc[g] \in {"d_remove", "m_remove", "c_fill", "c_sidecar"} /\ pc'[g] = pc[g] /\ Cut(g)
    <3>1. Here(g)
      BY AtHand
    <3>2. pc[g] \in {"c_fill", "c_sidecar"} => t[g].req.key \in W(g) /\ InTheMiddle(g)
      BY <2>1, <3>1, WriteSets DEF Here, Copying, W, InTheMiddle, HalfDone
    <3>3. QED
      BY <1>0, <2>1, <2>4, <3>2 DEF Inv, Marked, Cut
  <2>5. QED
    BY <1>1, <1>3, <2>2, <2>3, <2>4 DEF FaultAt, Active
<1>4. SettledSound'
  <2> SUFFICES ASSUME NEW k \in Key, k \notin tainted', Settled(k)' PROVE Sound(k)'
    BY DEF SettledSound
  <2>1. ASSUME NEW g \in Handler, Active(g), InTheMiddle(g) PROVE k \notin W(g)
    <3>1. CASE Cut(g)
      BY <2>1, <3>1 DEF Cut
    <3>2. CASE pc'[g] = pc[g] /\ t'[g] = t[g]
      <4>1. Active(g)' /\ InTheMiddle(g)' /\ W(g)' = W(g)
        BY <2>1, <3>2 DEF Active, InTheMiddle, W
      <4>2. QED
        BY <4>1 DEF Settled
    <3>3. QED
      BY <1>1, <3>1, <3>2 DEF FaultAt
  <2>2. Sound(k)
    BY <1>0, <2>1 DEF Settled, Inv, SettledSound
  <2>3. \A x \in Inode : ino[k] = x => Reachable(x)'
    BY <1>0 DEF Reachable
  <2>4. QED
    BY <1>0, <2>2, <2>3 DEF Sound, Kinds, Opt
<1>5. ASSUME NEW g \in Handler PROVE KnownAt(g)'
  <2>1. CASE pc'[g] \in {"idle", "err"}
    BY <2>1 DEF KnownAt, Active, PutAt, CopyPlaceAt, CopyDataAt, ReadAt, StreamAt
  <2>2. CASE pc'[g] = pc[g] /\ SameView(g) /\ pc[g] # "idle"
    <3>1. Here(g) /\ Active(g) /\ KnownAt(g) /\ t'[g].solo = t[g].solo /\ t'[g].overcopied = t[g].overcopied
      BY <1>1, <2>2, AtHand DEF Inv, Active, HandleKept
    <3>2. Touches(t[g].req) \subseteq Key
      BY <3>1, WriteSets DEF Here
    <3>3. ASSUME NEW k \in Key PROVE Frame(k)
      <4>1. \A x \in Inode : ino[k] = x => Reachable(x)'
        BY <1>0 DEF Reachable
      <4>2. QED
        BY <1>0, <4>1 DEF Frame, Kinds, Opt
    <3>4. t[g].fd \in Inode => data'[t[g].fd] = data[t[g].fd]
      <4>1. \A x \in Inode : t[g].fd = x => Reachable(x)'
        BY <2>2 DEF Reachable, SameView
      <4>2. QED
        BY <1>0, <4>1
    <3>5. t[g].req.op = "get" /\ pc[g] \in {"g_attrs", "g_info", "g_body"} => t[g].fd \in Inode
      BY DEF Types, Doing, DoingAt
    <3>6. QED
      BY <2>2, <3>1, <3>2, <3>3, <3>4, <3>5, KnownKept
  <2>3. CASE pc'[g] = pc[g] /\ pc[g] # "idle" /\ \E ks \in SUBSET t[g].left : t'[g] = [t[g] EXCEPT !.lost = TRUE, !.left = ks]
    <3>1. SameView(g)
      BY <1>1, <2>3 DEF SameView, Task
    <3>2. QED
      BY <2>2, <2>3, <3>1
  <2>4. CASE pc'[g] = pc[g] /\ t'[g] = t[g]
    BY <2>1, <2>2, <2>4 DEF SameView
  <2>5. QED
    BY <1>1, <2>1, <2>3, <2>4 DEF FaultAt
<1>6. QED
  BY <1>2, <1>3, <1>4, <1>5 DEF Inv, Marked

LEMMA InitInv == Init => Inv
<1> SUFFICES ASSUME Init PROVE Inv
  OBVIOUS
<1>1. \A h \in Handler : ~Active(h)
  BY DEF Init, Active
<1>2. PICK ks \in SUBSET Key : Stored \in [ks -> [body : Payload, attrs : Attr]]
  BY FsObjectAssumption
<1>3. DOMAIN Stored = ks /\ \A k \in ks : Stored[k].body \in Payload /\ Stored[k].attrs \in Attr
  BY <1>2
<1>4. ASSUME NEW k \in Key, ino[k] # Absent
      PROVE  /\ data[ino[k]] \in Payload /\ info[k] = data[ino[k]]
             /\ attrs[k] = truth[k] /\ truth[k] \in Attr
  <2>1. k \in ks /\ ino[k] \in Inode
    BY <1>3, <1>4 DEF Init, Opt
  <2>2. (CHOOSE l \in ks : ino[l] = ino[k]) \in ks /\ ino[CHOOSE l \in ks : ino[l] = ino[k]] = ino[k]
    BY <2>1
  <2>3. (CHOOSE l \in ks : ino[l] = ino[k]) = k
    BY <1>3, <2>1, <2>2 DEF Init
  <2>4. data[ino[k]] = Stored[k].body
    BY <1>3, <2>1, <2>3 DEF Init
  <2>5. info[k] = Stored[k].body /\ attrs[k] = Stored[k].attrs /\ truth[k] = attrs[k]
    BY <1>3, <2>1 DEF Init
  <2>6. QED
    BY <1>3, <2>1, <2>4, <2>5
<1>5. SettledSound
  BY <1>4 DEF SettledSound, Sound
<1>6. QED
  BY <1>1, <1>5 DEF Inv, Overlap, Marked, KnownAt

LEMMA NextInv == ASSUME Types, Inv, [Next]_vars PROVE Inv'
<1>1. CASE UNCHANGED vars
  <2>1. Overlap' /\ Marked' /\ SettledSound'
    BY <1>1 DEF vars, disk, hist, Inv, Overlap, Marked, SettledSound, Settled, Sound, InTheMiddle, Active, W
  <2>2. \A h \in Handler : KnownAt(h)'
    BY <1>1 DEF vars, disk, hist, Inv, KnownAt, PutAt, CopyPlaceAt, CopyDataAt, Given, ReadAt, StreamAt, Active
  <2>3. QED
    BY <2>1, <2>2 DEF Inv
<1>2. CASE Next
  <2>1. (\E h \in Handler : (\E r \in Request : Begin(h, r)) \/ Progress(h)) \/ AnyFault
    BY <1>2 DEF Next, AnyFault
  <2>2. QED
    BY <2>1, BeginInv, ProgressInv, FaultSteps, FaultInv
<1>3. QED
  BY <1>1, <1>2

LEMMA Invariance == Spec => [](Types /\ Inv)
<1>1. Init => Types /\ Inv
  BY InitTypes, InitInv
<1>2. Types /\ Inv /\ [Next]_vars => (Types /\ Inv)'
  BY NextTypes, NextInv
<1>3. QED
  BY <1>1, <1>2, PTL DEF Spec

-----------------------------------------------------------------------------
\* An object written by requests that neither overlapped nor were cut short is
\* whole, and its ETag and attributes belong to its bytes, for any number of
\* handlers and any sequence of operations and faults (put_object, copy_object).
THEOREM QuietObjectConsistentHolds == Spec => []QuietObjectConsistent
<1>1. Types /\ Inv => QuietObjectConsistent
  <2> SUFFICES ASSUME Types, Inv, NEW k \in Key, Quiet(k), k \notin tainted, ino[k] # Absent
               PROVE  /\ data[ino[k]] \in Payload /\ info[k] = data[ino[k]] /\ attrs[k] = truth[k]
    BY DEF QuietObjectConsistent
  <2>1. Settled(k)
    BY DEF Quiet, Settled, Active, W
  <2>2. QED
    BY <2>1 DEF Inv, SettledSound, Sound
<1>2. QED
  BY <1>1, Invariance, PTL

\* A read that no write of its key overlaps answers with bytes, ETag and
\* attributes of one object (get_object, head_object).
THEOREM QuietReadConsistentHolds == Spec => []QuietReadConsistent
<1>1. Types /\ Inv => QuietReadConsistent
  BY DEF Inv, KnownAt, ReadAt, QuietReadConsistent, Active
<1>2. QED
  BY <1>1, Invariance, PTL

\* A get streams the bytes it opened unless a copy onto its key ran meanwhile:
\* renames and removals leave the open file alone (get_object, FileWriter::done).
THEOREM OnlyCopyDisturbsReadersHolds == Spec => []OnlyCopyDisturbsReaders
<1>1. Types /\ Inv => OnlyCopyDisturbsReaders
  BY DEF Inv, KnownAt, StreamAt, OnlyCopyDisturbsReaders, Active
<1>2. QED
  BY <1>1, Invariance, PTL
=============================================================================

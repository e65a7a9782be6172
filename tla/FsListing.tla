----------------------------- MODULE FsListing ------------------------------
(***************************************************************************)
(* One bucket of s3s-fs as a directory tree: the operations that change it *)
(* (create_bucket, delete_bucket, put_object, delete_object,               *)
(* delete_objects) by their file system calls, and a client that lists it  *)
(* page by page with list_objects or list_objects_v2                       *)
(* (crates/s3s-fs/src/s3.rs).                                              *)
(*                                                                         *)
(* A key is a sequence of bytes, one of which is the slash; bytes are      *)
(* numbers, so that keys have the order of strings.  A directory is the    *)
(* key prefix that ends in its slash, the bucket itself the empty one.     *)
(***************************************************************************)
EXTENDS Integers, Sequences, FiniteSets, SequencesExt

CONSTANTS None,          \* Option::None
          Slash,         \* the byte "/"
          Writer,        \* concurrent requests that change the bucket
          Scenario       \* [files, op, req]: the keys the bucket begins with, what every writer
                         \* does, [op, key, many], and what the client lists, [prefix,
                         \* delimiter, max_keys, start_after]

VARIABLES files,         \* keys with a file in the bucket
          dirs,          \* directories; <<>> is the bucket
          op, wpc,       \* per writer: its request, and where it is
          raced,         \* writers that another one overlapped
          req, token,    \* the listing: its request and continuation token
          phase,         \* what the client is at
          queue,         \* dir_queue
          dir, pending, seen,       \* the directory read: left to read, already read
          objects, common_prefixes, \* collected by the scan
          listed,        \* everything the pages returned so far
          first,         \* the keys the bucket began with
          always, ever,  \* keys present all the time, or at some time, since the first page
          removed        \* something has been removed since the scan began

tree == <<files, dirs>>
writers == <<op, wpc, raced>>
scan == <<queue, dir, pending, seen, objects, common_prefixes>>
session == <<req, token, phase, listed>>
ghosts == <<always, ever, removed>>
vars == <<tree, writers, session, scan, first, ghosts>>

-----------------------------------------------------------------------------
\* The order of strings.
Less(a, b) ==
    \/ IsStrictPrefix(a, b)
    \/ \E i \in DOMAIN a \cap DOMAIN b : a[i] < b[i] /\ \A j \in 1..i - 1 : a[j] = b[j]

IsDir(e) == e = <<>> \/ Last(e) = Slash
Parents(k) == {<<>>} \cup {SubSeq(k, 1, i) : i \in {j \in 1..Len(k) - 1 : k[j] = Slash}}
Parent(k) == CHOOSE d \in Parents(k) : \A e \in Parents(k) : Len(e) <= Len(d)
Children(d) == {e \in files \cup (dirs \ {<<>>}) : Parent(e) = d /\ d \in dirs}

\* The path of a key names a file, or a directory, with or without the slash.
Path(k) == IF k # <<>> /\ Last(k) = Slash THEN Front(k) ELSE k
Exists(k) == Path(k) \in files \/ (Path(k) = <<>> /\ <<>> \in dirs) \/ Append(Path(k), Slash) \in dirs

\* A key names a path in its bucket: one that begins with a slash does not (get_object_path).
IsKey(k) == k \in Seq(Nat) /\ k # <<>> /\ k[1] # Slash
Ops == {"put", "delete", "create_bucket", "delete_bucket"}

\* Objects and directories of a bucket are told apart by the slash; put and delete name a key.
ASSUME ListingAssumption ==
    /\ Slash \in Nat
    /\ \A s \in Scenario :
        /\ \A k \in s.files : IsKey(k) /\ ~IsDir(k)
        /\ s.op \in [Writer -> [op : Ops, key : Seq(Nat), many : BOOLEAN]]
        /\ \A w \in Writer : s.op[w].op \in {"put", "delete"} => IsKey(s.op[w].key)

Phases == {"idle", "read_dir", "entry", "page", "failed", "done", "no_bucket"}
WPcs == {"idle", "check", "mkdirs", "rename", "remove", "look", "rmdir", "mkdir", "sweep", "ok",
         "error", "refused"}

\* The tree is one a file system can hold, and no page is built from a directory half read.
TypeOK ==
    /\ \A k \in files : ~IsDir(k) /\ Parents(k) \subseteq dirs
    /\ \A d \in dirs : IsDir(d) /\ (d = <<>> \/ (Parents(d) \subseteq dirs /\ Path(d) \notin files))
    /\ wpc \in [Writer -> WPcs]
    /\ phase \in Phases
    /\ phase = "page" => queue = <<>> /\ pending = {}
    /\ always \subseteq files /\ always \subseteq ever

Init ==
    /\ \E s \in Scenario : files = s.files /\ op = s.op /\ req = s.req
    /\ dirs = {<<>>} \cup UNION {Parents(k) : k \in files}
    /\ wpc = [w \in Writer |-> "idle"] /\ raced = {}
    /\ token = None /\ phase = "idle" /\ listed = <<>>
    /\ queue = <<>> /\ dir = <<>> /\ pending = {} /\ seen = {}
    /\ objects = <<>> /\ common_prefixes = {}
    /\ first = files /\ always = files /\ ever = files
    /\ removed = FALSE

-----------------------------------------------------------------------------
\* File system calls.  An entry that is made again may be read again.
Active == {w \in Writer : wpc[w] \notin {"idle", "ok", "error", "refused"}}
Go(w, next) == wpc' = [wpc EXCEPT ![w] = next] /\ UNCHANGED <<op, raced>>
Untouched == UNCHANGED <<tree, seen, ghosts>>

Unlink(k) ==
    /\ files' = files \ {k}
    /\ always' = always \ {k}
    /\ seen' = seen \ {k}
    /\ removed' = TRUE
    /\ UNCHANGED <<dirs, ever>>

Rmdir(d) ==
    /\ dirs' = dirs \ {d}
    /\ seen' = seen \ {d}
    /\ removed' = TRUE
    /\ UNCHANGED <<files, always, ever>>

\* fs::create_dir_all, which fails where a file is in the way.
MakeDirs(ds) == dirs' = dirs \cup ds /\ UNCHANGED <<files, seen, ghosts>>
InTheWay(ds) == \E d \in ds \ {<<>>} : Path(d) \in files

\* A request arrives.  Deletes look first whether there is something to delete, except
\* delete_objects, which unlinks and sees.
Begin(w) ==
    /\ wpc[w] = "idle"
    /\ wpc' = [wpc EXCEPT ![w] =
            CASE op[w].op = "put" -> "mkdirs"
              [] op[w].op = "delete" /\ op[w].many -> IF IsDir(op[w].key) THEN "look" ELSE "remove"
              [] OTHER -> "check"]
    /\ raced' = raced \cup (IF Active = {} THEN {} ELSE Active \cup {w})
    /\ UNCHANGED op /\ Untouched

\* Mutant: only the bucket's own directory is made.
MkDirsShallow(w) ==
    LET k == op[w].key IN
    /\ wpc[w] = "mkdirs"
    /\ MakeDirs({<<>>}) /\ Go(w, IF IsDir(k) THEN "ok" ELSE "rename")

\* put_object: FileWriter::done, or create_dir_all for a key that ends in a slash.
MkDirs(w) ==
    LET k == op[w].key
        ds == Parents(k) \cup (IF IsDir(k) THEN {k} ELSE {})
    IN
    /\ wpc[w] = "mkdirs"
    /\ IF InTheWay(ds) THEN Go(w, "error") /\ Untouched
       ELSE MakeDirs(ds) /\ Go(w, IF IsDir(k) THEN "ok" ELSE "rename")

Rename(w) ==
    LET k == op[w].key IN
    /\ wpc[w] = "rename"
    /\ IF Parent(k) \notin dirs \/ Append(k, Slash) \in dirs
       THEN Go(w, "error") /\ Untouched
       ELSE /\ files' = files \cup {k}
            /\ ever' = ever \cup {k}
            /\ Go(w, "ok")
            /\ UNCHANGED <<dirs, seen, always, removed>>

\* delete_object, delete_bucket, create_bucket: path.exists().
Check(w) ==
    LET o == op[w] IN
    /\ wpc[w] = "check"
    /\ Go(w, CASE o.op = "create_bucket" -> IF <<>> \in dirs THEN "refused" ELSE "mkdir"
               [] o.op = "delete_bucket" -> IF <<>> \in dirs THEN "sweep" ELSE "refused"
               [] o.op = "delete" /\ ~Exists(o.key) -> IF <<>> \in dirs THEN "ok" ELSE "refused"
               [] o.op = "delete" /\ Exists(o.key) -> IF IsDir(o.key) THEN "look" ELSE "remove")
    /\ Untouched

\* io::ErrorKind::NotFound, which delete_objects forgives: nothing is there, and no file
\* stands where the path needs a directory.
NotFound(k) == ~Exists(k) /\ ~InTheWay(Parents(k))

\* remove_file; delete_objects does not mind a file that is not there.
RemoveFile(w) ==
    LET k == op[w].key IN
    /\ wpc[w] = "remove"
    /\ IF k \in files THEN Unlink(k) /\ Go(w, "ok")
       ELSE Go(w, IF op[w].many /\ NotFound(k) THEN "ok" ELSE "error") /\ Untouched

\* read_dir: only an empty directory is removed.
Look(w) ==
    LET d == op[w].key IN
    /\ wpc[w] = "look"
    /\ Go(w, IF d \notin dirs THEN (IF op[w].many /\ NotFound(d) THEN "ok" ELSE "error")
             ELSE IF Children(d) = {} THEN "rmdir" ELSE "ok")
    /\ Untouched

RemoveDir(w) ==
    LET d == op[w].key IN
    /\ wpc[w] = "rmdir"
    /\ IF d \in dirs /\ Children(d) = {} THEN Rmdir(d) /\ Go(w, "ok")
       ELSE Go(w, "error") /\ Untouched

MkBucket(w) ==
    /\ wpc[w] = "mkdir"
    /\ IF <<>> \in dirs THEN Go(w, "error") /\ Untouched
       ELSE MakeDirs({<<>>}) /\ Go(w, "ok")

\* fs::remove_dir_all: files, then the directories they leave empty, the bucket last; it
\* may fail when another request changes the tree under it.
Sweep(w) ==
    /\ wpc[w] = "sweep"
    /\ \/ \E k \in files : Unlink(k) /\ UNCHANGED writers
       \/ \E d \in dirs : Children(d) = {} /\ Rmdir(d) /\ Go(w, IF d = <<>> THEN "ok" ELSE "sweep")
       \/ w \in raced /\ Go(w, "error") /\ Untouched

Write(w) ==
    /\ Begin(w) \/ MkDirs(w) \/ Rename(w) \/ Check(w) \/ RemoveFile(w) \/ Look(w) \/ RemoveDir(w)
       \/ MkBucket(w) \/ Sweep(w)
    /\ UNCHANGED <<session, first, queue, dir, pending, objects, common_prefixes>>

-----------------------------------------------------------------------------
\* list_objects and list_objects_v2: is there a bucket?
List ==
    /\ phase = "idle"
    /\ phase' = IF <<>> \in dirs THEN "read_dir" ELSE "no_bucket"
    /\ queue' = <<<<>>>> /\ objects' = <<>> /\ common_prefixes' = {}
    /\ removed' = FALSE
    /\ IF token = None THEN always' = files /\ ever' = files ELSE UNCHANGED <<always, ever>>
    /\ UNCHANGED <<tree, writers, req, token, listed, dir, pending, seen>>

\* The next directory of dir_queue, which has to be there still.
ReadDir ==
    /\ phase = "read_dir"
    /\ IF queue = <<>> THEN phase' = "page" /\ UNCHANGED <<queue, dir, pending, seen>>
       ELSE /\ queue' = Tail(queue)
            /\ dir' = Head(queue)
            /\ pending' = Children(dir')
            /\ seen' = {}
            /\ phase' = IF dir' \in dirs THEN "entry" ELSE "failed"
    /\ UNCHANGED <<tree, writers, req, token, listed, objects, common_prefixes, ghosts>>

\* list_objects_with_delimiter passes over directories that cannot hold the prefix.
Pruned(d) ==
    /\ req.delimiter # None
    /\ ~IsPrefix(req.prefix, Path(d)) /\ ~IsPrefix(Path(d), req.prefix)

\* Where the delimiter first occurs behind the prefix, or None.
DelimiterAt(k) ==
    LET n == Len(req.prefix)
        at == {i \in n + 1..Len(k) - Len(req.delimiter) + 1 :
                  SubSeq(k, i, i + Len(req.delimiter) - 1) = req.delimiter}
    IN IF at = {} THEN None ELSE CHOOSE i \in at : \A j \in at : i <= j

Grouped(k) == req.delimiter # None /\ DelimiterAt(k) # None

\* The common prefix ends in the byte at which the delimiter begins.
CommonPrefix(k) == SubSeq(k, 1, DelimiterAt(k))

\* One entry.  An entry made since the directory was opened may be read or not; a file that
\* is to be listed itself must still be there when its metadata is read.
Entry(e) ==
    /\ phase = "entry"
    /\ e \in pending \cup (Children(dir) \ seen)
    /\ pending' = pending \ {e} /\ seen' = seen \cup {e}
    /\ \/ /\ IsDir(e)
          /\ queue' = IF Pruned(e) THEN queue ELSE Append(queue, e)
          /\ UNCHANGED <<phase, objects, common_prefixes>>
       \/ /\ ~IsDir(e) /\ ~IsPrefix(req.prefix, e)
          /\ UNCHANGED <<phase, queue, objects, common_prefixes>>
       \/ /\ ~IsDir(e) /\ IsPrefix(req.prefix, e) /\ Grouped(e)
          /\ common_prefixes' = common_prefixes \cup {CommonPrefix(e)}
          /\ UNCHANGED <<phase, queue, objects>>
       \/ /\ ~IsDir(e) /\ IsPrefix(req.prefix, e) /\ ~Grouped(e)
          /\ IF e \in files THEN objects' = Append(objects, e) /\ UNCHANGED phase
             ELSE phase' = "failed" /\ UNCHANGED objects
          /\ UNCHANGED <<queue, common_prefixes>>
    /\ UNCHANGED <<tree, writers, req, token, listed, dir, ghosts>>

\* The directory is read to its end; entries that are gone by now may be missed.
EndOfDir ==
    /\ phase = "entry"
    /\ pending \cap (files \cup dirs) = {}
    /\ pending' = {} /\ phase' = "read_dir"
    /\ UNCHANGED <<tree, writers, req, token, listed, queue, dir, seen, objects, common_prefixes, ghosts>>

\* The resume point: the later of the token and start_after.
Marker ==
    IF token = None THEN req.start_after
    ELSE IF req.start_after = None \/ ~Less(token, req.start_after) THEN token ELSE req.start_after

After(k) == Marker = None \/ Less(Marker, k)

\* Objects and common prefixes behind the marker, merged in order, a prefix before an object
\* that equals it.
Merged ==
    LET Tag(kind, k) == [kind |-> kind, key |-> k]
        os == [i \in DOMAIN objects |-> Tag("object", objects[i])]
        ps == [i \in 1..Cardinality(common_prefixes) |-> Tag("prefix", SetToSeq(common_prefixes)[i])]
    IN SelectSeq(SortSeq(ps \o os, LAMBDA a, b : \/ Less(a.key, b.key)
                                                 \/ a.key = b.key /\ a.kind = "prefix" /\ b.kind = "object"),
                 LAMBDA x : After(x.key))

\* Mutant: what does not fit on the page is not looked at again.
PageNeverTruncated ==
    /\ phase = "page"
    /\ listed' = listed \o SubSeq(Merged, 1, IF Len(Merged) < req.max_keys THEN Len(Merged) ELSE req.max_keys)
    /\ phase' = "done"
    /\ UNCHANGED <<token, tree, writers, req, scan, ghosts>>

\* Mutant: a page without room is taken for a truncated one.
PageWithoutRoom ==
    LET n == IF Len(Merged) < req.max_keys THEN Len(Merged) ELSE req.max_keys IN
    /\ phase = "page"
    /\ listed' = listed \o SubSeq(Merged, 1, n)
    /\ token' = IF Len(Merged) > n /\ n > 0 THEN Merged[n].key ELSE token
    /\ phase' = IF Len(Merged) > n THEN "idle" ELSE "done"
    /\ UNCHANGED <<tree, writers, req, scan, ghosts>>

\* The page: at most max_keys entries, and, if there are more, the last of them as token,
\* with which the client asks for the next page.
Page ==
    LET n == IF Len(Merged) < req.max_keys THEN Len(Merged) ELSE req.max_keys
        is_truncated == req.max_keys > 0 /\ Len(Merged) > n
    IN
    /\ phase = "page"
    /\ listed' = listed \o SubSeq(Merged, 1, n)
    /\ token' = IF is_truncated THEN Merged[n].key ELSE token
    /\ phase' = IF is_truncated THEN "idle" ELSE "done"
    /\ UNCHANGED <<tree, writers, req, scan, ghosts>>

\* The client asks again for a page that was answered with an internal error.
Retry ==
    /\ phase = "failed"
    /\ phase' = "idle"
    /\ UNCHANGED <<tree, writers, req, token, listed, scan, ghosts>>

ReadEntry == \E e \in pending \cup Children(dir) : Entry(e)
Lister ==
    /\ List \/ ReadDir \/ ReadEntry \/ EndOfDir \/ Page \/ Retry
    /\ UNCHANGED first

Done ==
    /\ phase \in {"done", "no_bucket"}
    /\ \A w \in Writer : wpc[w] \in {"ok", "error", "refused"}
    /\ UNCHANGED vars

Next == (\E w \in Writer : Write(w)) \/ Lister \/ Done

\* The runtime polls every request again and again.
Spec == Init /\ [][Next]_vars /\ WF_vars(Lister) /\ \A w \in Writer : WF_vars(Write(w))

-----------------------------------------------------------------------------
\* How a key appears in the listing.
EntryOf(k) == IF Grouped(k) THEN [kind |-> "prefix", key |-> CommonPrefix(k)]
              ELSE [kind |-> "object", key |-> k]

InRange(k) == IsPrefix(req.prefix, k) /\ (req.start_after = None \/ Less(req.start_after, EntryOf(k).key))

Occurrences(x) == Cardinality({i \in DOMAIN listed : listed[i] = x})

\* Every key that is there from the first page to the last is returned, as itself or in its
\* group, and exactly once.
StableListedOnce ==
    phase = "done" /\ req.max_keys > 0 =>
        \A k \in always : InRange(k) => Occurrences(EntryOf(k)) = 1

\* Nothing is returned that was not in the bucket at some time since the first page.
ListedExisted == \A i \in DOMAIN listed : \E k \in ever : listed[i] = EntryOf(k)

\* Joined, the pages are in the order of the keys.
PagesAscend == \A i, j \in DOMAIN listed : i < j => ~Less(listed[j].key, listed[i].key)

\* The pages of list_objects_v2 join to the listing, whatever is put and deleted between and
\* during the scans.
PagesJoin == StableListedOnce /\ ListedExisted /\ PagesAscend

\* A page is refused with an internal error only when something was removed while it was
\* scanned: puts, however they overlap, never break a listing.
FailsOnlyOnRemoval == phase = "failed" => removed

\* A request that no other request overlaps is never answered with an internal error, unless
\* a file and a directory want one name.
Known == first \cup {op[w].key : w \in Writer}
Conflict == \E k, l \in Known : ~IsDir(k) /\ IsStrictPrefix(Append(k, Slash), Append(l, Slash))
AloneNeverFails ==
    \A w \in Writer : wpc[w] = "error" => w \in raced \/ Conflict

\* Internal errors come of races only: of a listing with a removal, of a put, delete or bucket
\* operation with another of them.
ErrorsAreRaces == FailsOnlyOnRemoval /\ AloneNeverFails

\* The client gets to the end of its listing, pages and retries included.
ListingEnds == <>(phase \in {"done", "no_bucket"})
=============================================================================

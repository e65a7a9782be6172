--------------------------- MODULE FsListingProofs ---------------------------
(***************************************************************************)
(* Internal errors of a bucket come of races only, for any number of       *)
(* writers, any keys and any listing.                                      *)
(*                                                                         *)
(* A writer looks and then acts.  What it has seen stays true until it     *)
(* acts, unless another writer is under way at the same time, and then     *)
(* both know of it; a listing finds what it has read of a directory as     *)
(* long as nothing is removed.                                             *)
(***************************************************************************)
EXTENDS FsListing, SequenceTheorems, WellFoundedInduction, TLAPS

\* Requests are what the scenarios have, and are never exchanged.
Types ==
    /\ op \in [Writer -> [op : Ops, key : Seq(Nat), many : BOOLEAN]]
    /\ \A w \in Writer : op[w].op \in {"put", "delete"} => IsKey(op[w].key)
    /\ \A k \in first : k \in Seq(Nat)
    /\ wpc \in [Writer -> WPcs]

\* Files are known keys, and directories the beginnings of known keys.
Tree ==
    /\ \A k \in files : k \in Known /\ ~IsDir(k)
    /\ \A d \in dirs : d # <<>> =>
        d \in Seq(Nat) /\ Last(d) = Slash /\ \E l \in Known : IsPrefix(d, l)

\* What a writer is doing at its await.
Doing(w) ==
    /\ wpc[w] \in {"mkdirs", "rename"} => op[w].op = "put"
    /\ wpc[w] = "check" => op[w].op # "put"
    /\ wpc[w] \in {"look", "rmdir", "remove"} => op[w].op = "delete"
    /\ wpc[w] \in {"rename", "remove"} => ~IsDir(op[w].key)
    /\ wpc[w] \in {"look", "rmdir"} => IsDir(op[w].key)

\* Writers that are under way at the same time have raced.
Overlap == \A v, w \in Active : v # w => v \in raced /\ w \in raced

\* What a writer that has not raced has seen is still so.
Seen(w) ==
    /\ wpc[w] = "rename" => Parents(op[w].key) \subseteq dirs
    /\ wpc[w] \in {"look", "remove"} => op[w].many \/ Exists(op[w].key)
    /\ wpc[w] = "rmdir" => op[w].key \in dirs /\ Children(op[w].key) = {}
    /\ wpc[w] = "mkdir" => <<>> \notin dirs

\* What a listing still has to read is there, as long as nothing was removed.
Scan ==
    /\ queue \in Seq(Seq(Nat)) /\ pending \subseteq Seq(Nat)
    /\ phase \in {"read_dir", "entry"} => removed \/ \A i \in DOMAIN queue : queue[i] \in dirs
    /\ phase = "entry" => removed \/ pending \subseteq files \cup dirs
    /\ phase = "failed" => removed

IInv ==
    /\ Types /\ Tree /\ Overlap /\ Scan /\ AloneNeverFails
    /\ \A w \in Writer : Doing(w) /\ (w \in raced \/ Seen(w))

-----------------------------------------------------------------------------
Below == {p \in Nat \X Nat : p[1] < p[2]}

\* A set of natural numbers that is not empty has a least element.
LEMMA LeastElement ==
    ASSUME NEW T, T \subseteq Nat, T # {}
    PROVE  \E x \in T : \A y \in T : x <= y
<1>1. Below = OpToRel(<, Nat)
  BY Zenon DEF Below, OpToRel
<1>2. IsWellFoundedOn(Below, Nat)
  BY <1>1, NatLessThanWellFounded, Zenon
<1>3. PICK x \in T : \A y \in T : ~(<<y, x>> \in Below)
  BY <1>2, WFMin, Zenon
<1>4. ASSUME NEW y \in T PROVE x <= y
  <2>1. ~(<<y, x>> \in Below)
    BY <1>3
  <2>2. x \in Nat /\ y \in Nat
    OBVIOUS
  <2>3. ~(y < x)
    BY <2>1, <2>2 DEF Below
  <2> QED BY <2>2, <2>3
<1> QED BY <1>4

\* A directory is its path and a slash (Path).
LEMMA PathOfDir ==
    ASSUME NEW d \in Seq(Nat), d # <<>>, Last(d) = Slash
    PROVE  Path(d) \in Seq(Nat) /\ Append(Path(d), Slash) = d
<1>1. Len(d) \in Nat \ {0} /\ d[Len(d)] = Slash
  BY DEF Last
<1>2. Path(d) = SubSeq(d, 1, Len(d) - 1)
  BY DEF Path, Front
<1>3. /\ Path(d) \in Seq(Nat) /\ Len(Path(d)) = Len(d) - 1
      /\ \A i \in 1..Len(d) - 1 : Path(d)[i] = d[i]
  <2>1. PICK n \in Nat : n = Len(d) - 1
    BY <1>1
  <2>2. n <= Len(d) /\ Path(d) = SubSeq(d, 1, n)
    BY <1>1, <1>2, <2>1
  <2>3. SubSeq(d, 1, n) \in Seq(Nat) /\ Len(SubSeq(d, 1, n)) = n
        /\ \A i \in 1..n : SubSeq(d, 1, n)[i] = d[i]
    BY <2>2
  <2> QED BY <2>1, <2>2, <2>3
<1>4. Append(Path(d), Slash) \in Seq(Nat) /\ Len(Append(Path(d), Slash)) = Len(d)
  BY <1>1, <1>3, ListingAssumption
<1>5. ASSUME NEW i \in 1..Len(d) PROVE Append(Path(d), Slash)[i] = d[i]
  BY <1>1, <1>3, ListingAssumption
<1> QED BY <1>3, <1>4, <1>5, SeqEqual

\* Parents are the bucket and what a key has in front of its slashes.
LEMMA ParentsOf ==
    ASSUME NEW k \in Seq(Nat), NEW d \in Parents(k), d # <<>>
    PROVE  d \in Seq(Nat) /\ Last(d) = Slash /\ IsPrefix(d, k) /\ Len(d) <= Len(k)
<1>1. PICK i \in 1..Len(k) - 1 : k[i] = Slash /\ d = SubSeq(k, 1, i)
  BY DEF Parents
<1>2. d \in Seq(Nat) /\ Len(d) = i /\ \A j \in 1..i : d[j] = k[j]
  BY <1>1
<1>3. SubSeq(d, 1, i) = d
  BY <1>2, SubSeqFull
<1> QED BY <1>1, <1>2, <1>3 DEF Last, IsPrefix

\* A key has a parent of which the others are parents.
LEMMA ParentIsOne ==
    ASSUME NEW k \in Seq(Nat)
    PROVE  Parent(k) \in Parents(k)
<1> DEFINE T == {Len(k) - Len(d) : d \in Parents(k)}
<1>1. ASSUME NEW d \in Parents(k) PROVE Len(d) \in Nat /\ Len(d) <= Len(k)
  <2>1. CASE d = <<>>
    BY <2>1
  <2>2. CASE d # <<>>
    BY <2>2, ParentsOf
  <2> QED BY <2>1, <2>2
<1>2. T \subseteq Nat
  BY <1>1
<1>3. <<>> \in Parents(k) /\ T # {}
  BY DEF Parents
<1>4. PICK x \in T : \A y \in T : x <= y
  BY <1>2, <1>3, LeastElement
<1>5. PICK d \in Parents(k) : x = Len(k) - Len(d)
  OBVIOUS
<1>6. ASSUME NEW e \in Parents(k) PROVE Len(e) <= Len(d)
  <2>1. Len(k) - Len(e) \in T
    OBVIOUS
  <2>2. Len(k) - Len(d) <= Len(k) - Len(e)
    BY <1>4, <1>5, <2>1
  <2> QED BY <1>1, <2>2
<1> QED BY <1>6 DEF Parent

\* A file and a directory that want one name are a conflict, if both are known.
LEMMA ConflictOf ==
    ASSUME Types, NEW k \in Known, NEW l \in Known, ~IsDir(k), IsPrefix(Append(k, Slash), l)
    PROVE  Conflict
<1> DEFINE a == Append(k, Slash)
           b == Append(l, Slash)
<1>1. k \in Seq(Nat) /\ l \in Seq(Nat)
  BY DEF Types, Known
<1>2. a \in Seq(Nat) /\ b \in Seq(Nat) /\ Len(b) = Len(l) + 1
      /\ \A i \in 1..Len(l) : b[i] = l[i]
  BY <1>1, ListingAssumption
<1>3. Len(a) \in Nat /\ Len(a) <= Len(l) /\ SubSeq(a, 1, Len(a)) = SubSeq(l, 1, Len(a))
  BY <1>1, <1>2 DEF IsPrefix
<1>4. SubSeq(b, 1, Len(a)) = SubSeq(l, 1, Len(a))
  <2>1. /\ SubSeq(b, 1, Len(a)) \in Seq(Nat) /\ SubSeq(l, 1, Len(a)) \in Seq(Nat)
        /\ Len(SubSeq(b, 1, Len(a))) = Len(a) /\ Len(SubSeq(l, 1, Len(a))) = Len(a)
        /\ \A i \in 1..Len(a) : SubSeq(b, 1, Len(a))[i] = SubSeq(l, 1, Len(a))[i]
    BY <1>1, <1>2, <1>3
  <2> QED BY <2>1, SeqEqual
<1>5. IsPrefix(a, b) /\ a # b
  BY <1>1, <1>2, <1>3, <1>4 DEF IsPrefix
<1> QED BY <1>5 DEF Conflict, IsStrictPrefix

\* A file in the place of a directory that is the beginning of a known key.
LEMMA FileInTheWay ==
    ASSUME Types, Tree, NEW d \in Seq(Nat), d # <<>>, Last(d) = Slash, Path(d) \in files,
           NEW l \in Known, IsPrefix(d, l)
    PROVE  Conflict
<1>1. Append(Path(d), Slash) = d
  BY PathOfDir
<1>2. Path(d) \in Known /\ ~IsDir(Path(d))
  BY DEF Tree
<1> QED BY <1>1, <1>2, ConflictOf

\* A file in the place of a directory on the way to a known key.
LEMMA BlockedPath ==
    ASSUME Types, Tree, NEW k \in Known, k \in Seq(Nat), k # <<>>, InTheWay(Parents(k))
    PROVE  Conflict
<1>1. PICK d \in Parents(k) \ {<<>>} : Path(d) \in files
  BY DEF InTheWay
<1>2. d \in Seq(Nat) /\ Last(d) = Slash /\ IsPrefix(d, k)
  BY <1>1, ParentsOf
<1> QED BY <1>1, <1>2, FileInTheWay

\* A directory in the place of a known key that is not one.
LEMMA DirInTheWay ==
    ASSUME Types, Tree, NEW k \in Known, ~IsDir(k), Append(k, Slash) \in dirs
    PROVE  Conflict
<1>1. k \in Seq(Nat)
  BY DEF Types, Known
<1>2. Append(k, Slash) # <<>>
  BY <1>1, ListingAssumption
<1>3. PICK l \in Known : IsPrefix(Append(k, Slash), l)
  BY <1>2 DEF Tree
<1> QED BY <1>3, ConflictOf

\* What exists and is not what its name says is a conflict.
LEMMA ExistsOtherwise ==
    ASSUME Types, Tree, NEW k \in Known, IsKey(k), Exists(k),
           IF IsDir(k) THEN k \notin dirs ELSE k \notin files
    PROVE  Conflict
<1>1. k \in Seq(Nat) /\ k # <<>> /\ k[1] # Slash
  BY DEF IsKey
<1>2. CASE ~IsDir(k)
  <2>1. Path(k) = k
    BY <1>1, <1>2 DEF IsDir, Path
  <2>2. Append(k, Slash) \in dirs
    BY <1>1, <1>2, <2>1 DEF Exists
  <2> QED BY <1>2, <2>2, DirInTheWay
<1>3. CASE IsDir(k)
  <2>1. Last(k) = Slash
    BY <1>1, <1>3 DEF IsDir
  <2>2. Path(k) \in Seq(Nat) /\ Append(Path(k), Slash) = k
    BY <1>1, <2>1, PathOfDir
  <2>3. Path(k) # <<>>
    <3>1. SUFFICES ASSUME Path(k) = <<>> PROVE FALSE
      OBVIOUS
    <3>2. k = <<Slash>>
      BY <2>2, <3>1
    <3> QED BY <1>1, <3>2
  <2>4. Path(k) \in files
    BY <1>3, <2>2, <2>3 DEF Exists
  <2>5. IsPrefix(k, k)
    BY <1>1 DEF IsPrefix
  <2> QED BY <1>1, <2>1, <2>4, <2>5, FileInTheWay
<1> QED BY <1>2, <1>3

-----------------------------------------------------------------------------
\* A bucket begins with the keys of a scenario and their directories.
LEMMA InitIInv == Init => IInv
<1> SUFFICES ASSUME Init PROVE IInv
  OBVIOUS
<1>1. PICK s \in Scenario : files = s.files /\ op = s.op
  BY DEF Init
<1>2. \A k \in files : k \in Seq(Nat) /\ ~IsDir(k)
  BY <1>1, ListingAssumption DEF IsKey
<1>3. Types
  BY <1>1, <1>2, ListingAssumption DEF Init, Types, WPcs
<1>4. Tree
  <2>1. \A k \in files : k \in Known /\ ~IsDir(k)
    BY <1>2 DEF Init, Known
  <2>2. ASSUME NEW d \in dirs, d # <<>>
        PROVE  d \in Seq(Nat) /\ Last(d) = Slash /\ \E l \in Known : IsPrefix(d, l)
    <3>0. dirs = {<<>>} \cup UNION {Parents(k) : k \in files}
      BY DEF Init
    <3>1. d \in UNION {Parents(k) : k \in files}
      BY <2>2, <3>0
    <3>2. PICK k \in files : d \in Parents(k)
      BY <3>1, Zenon
    <3> QED BY <1>2, <2>1, <2>2, <3>2, ParentsOf
  <2> QED BY <2>1, <2>2 DEF Tree
<1>5. Overlap /\ AloneNeverFails /\ \A w \in Writer : Doing(w) /\ Seen(w)
  BY DEF Init, Overlap, Active, AloneNeverFails, Doing, Seen
<1>6. Scan
  BY DEF Init, Scan
<1> QED BY <1>3, <1>4, <1>5, <1>6 DEF IInv

\* What a step of a writer leaves alone: the others, which are not under way unless both have
\* raced, and a listing, unless something is removed.
LEMMA WriterStep ==
    ASSUME IInv, NEW w \in Writer, w \in Active, NEW next \in WPcs,
           wpc' = [wpc EXCEPT ![w] = next], UNCHANGED <<op, raced, first, phase, queue, pending>>,
           removed' \/ (removed' = removed /\ files \subseteq files' /\ dirs \subseteq dirs'),
           Tree', Doing(w)', w \in raced \/ Seen(w)',
           next = "error" => w \in raced \/ Conflict
    PROVE  IInv'
<1>1. Types'
  BY DEF IInv, Types
<1>2. Active' \subseteq Active /\ \A v \in Writer : v # w => wpc'[v] = wpc[v]
  BY DEF Active, IInv, Types
<1>3. Overlap'
  BY <1>2 DEF IInv, Overlap
<1>4. ASSUME NEW v \in Writer, v # w PROVE Doing(v)' /\ (v \in raced' \/ Seen(v)')
  <2>1. Doing(v)'
    BY <1>2, <1>4 DEF IInv, Doing
  <2>2. CASE v \in Active
    BY <1>4, <2>1, <2>2 DEF IInv, Overlap
  <2>3. CASE v \notin Active
    BY <1>2, <1>4, <2>1, <2>3 DEF Active, Seen
  <2> QED BY <2>2, <2>3
<1>5. AloneNeverFails'
  <2>1. Conflict' <=> Conflict
    BY DEF Conflict, Known
  <2> QED BY <1>2, <2>1 DEF IInv, AloneNeverFails, Types
<1>6. Scan'
  BY DEF IInv, Scan
<1> QED BY <1>1, <1>3, <1>4, <1>5, <1>6 DEF IInv

\* A writer begins: if others are under way, all have raced from now on.
LEMMA BeginIInv ==
    ASSUME IInv, NEW w \in Writer, Begin(w), UNCHANGED <<first, phase, queue, pending>>
    PROVE  IInv'
<1> DEFINE next == wpc'[w]
<1>1. /\ wpc[w] = "idle" /\ op' = op
      /\ raced' = raced \cup (IF Active = {} THEN {} ELSE Active \cup {w})
      /\ UNCHANGED <<files, dirs, removed>>
  BY DEF Begin, Untouched, tree, ghosts
<1>2. /\ op[w] \in [op : Ops, key : Seq(Nat), many : BOOLEAN]
      /\ wpc \in [Writer -> WPcs]
  BY DEF IInv, Types
<1>3. /\ next = CASE op[w].op = "put" -> "mkdirs"
                  [] op[w].op = "delete" /\ op[w].many -> IF IsDir(op[w].key) THEN "look" ELSE "remove"
                  [] OTHER -> "check"
      /\ \A v \in Writer : v # w => wpc'[v] = wpc[v]
      /\ wpc' = [wpc EXCEPT ![w] = next]
  BY <1>2 DEF Begin
<1>4. /\ next \in {"mkdirs", "look", "remove", "check"}
      /\ next = "mkdirs" => op[w].op = "put"
      /\ next = "check" => op[w].op # "put"
      /\ next \in {"look", "remove"} => op[w].op = "delete" /\ op[w].many
      /\ next = "look" => IsDir(op[w].key)
      /\ next = "remove" => ~IsDir(op[w].key)
  BY <1>3
<1>5. Types'
  BY <1>1, <1>2, <1>3, <1>4 DEF IInv, Types, WPcs
<1>6. Tree'
  BY <1>1 DEF IInv, Tree, Known
<1>7. Overlap'
  BY <1>1, <1>3 DEF IInv, Overlap, Active
<1>8. ASSUME NEW v \in Writer PROVE Doing(v)' /\ (v \in raced' \/ Seen(v)')
  <2>1. CASE v = w
    BY <1>1, <1>4, <2>1 DEF Doing, Seen
  <2>2. CASE v # w
    BY <1>1, <1>3, <2>2 DEF IInv, Doing, Seen, Exists, Children
  <2> QED BY <2>1, <2>2
<1>9. AloneNeverFails'
  <2>1. Conflict' <=> Conflict
    BY <1>1 DEF Conflict, Known
  <2> QED BY <1>1, <1>3, <1>4, <2>1 DEF IInv, AloneNeverFails
<1>10. Scan'
  BY <1>1 DEF IInv, Scan
<1> QED BY <1>5, <1>6, <1>7, <1>8, <1>9, <1>10 DEF IInv

\* The writer's request and where it is, for the steps behind its beginning.
LEMMA OpType ==
    ASSUME IInv, NEW w \in Writer
    PROVE  /\ op[w].op \in Ops /\ op[w].key \in Seq(Nat) /\ op[w].key \in Known
           /\ op[w].op \in {"put", "delete"} => IsKey(op[w].key)
           /\ Doing(w) /\ (w \in raced \/ Seen(w))
BY DEF IInv, Types, Known

\* A writer that changes nothing but its place keeps the tree.
LEMMA SameTree == ASSUME IInv, UNCHANGED <<files, dirs, first, op>> PROVE Tree'
BY DEF IInv, Tree, Known

\* put_object makes the directories of its key: what is in the way is a conflict.
LEMMA MkDirsIInv ==
    ASSUME IInv, NEW w \in Writer, MkDirs(w), UNCHANGED <<first, phase, queue, pending>>
    PROVE  IInv'
<1> DEFINE k == op[w].key
           ds == Parents(k) \cup (IF IsDir(k) THEN {k} ELSE {})
<1>1. wpc[w] = "mkdirs" /\ w \in Active
  BY DEF MkDirs, Active
<1>2. k \in Seq(Nat) /\ k \in Known /\ op[w].op = "put" /\ IsKey(k) /\ k # <<>>
  BY <1>1, OpType DEF Doing, IsKey
<1>3. ASSUME NEW d \in ds, d # <<>>
      PROVE  d \in Seq(Nat) /\ Last(d) = Slash /\ IsPrefix(d, k)
  <2>1. CASE d \in Parents(k)
    BY <1>2, <1>3, <2>1, ParentsOf
  <2>2. CASE IsDir(k) /\ d = k
    BY <1>2, <2>2 DEF IsDir, IsPrefix
  <2> QED BY <1>3, <2>1, <2>2
<1>4. CASE InTheWay(ds)
  <2>1. PICK d \in ds \ {<<>>} : Path(d) \in files
    BY <1>4 DEF InTheWay
  <2>2. Conflict
    BY <1>2, <1>3, <2>1, FileInTheWay DEF IInv
  <2>3. Go(w, "error") /\ Untouched
    BY <1>4 DEF MkDirs
  <2>4. UNCHANGED <<files, dirs, removed, op, raced>> /\ wpc' = [wpc EXCEPT ![w] = "error"]
    BY <2>3 DEF Go, Untouched, tree, ghosts
  <2>5. wpc'[w] = "error" /\ "error" \in WPcs
    BY <2>4 DEF IInv, Types, WPcs
  <2>6. Tree' /\ Doing(w)' /\ Seen(w)'
    BY <2>4, <2>5, SameTree DEF Doing, Seen
  <2> QED BY <1>1, <2>2, <2>4, <2>5, <2>6, WriterStep
<1>5. CASE ~InTheWay(ds)
  <2> DEFINE next == IF IsDir(k) THEN "ok" ELSE "rename"
  <2>1. MakeDirs(ds) /\ Go(w, next)
    BY <1>5 DEF MkDirs
  <2>2. /\ dirs' = dirs \cup ds /\ UNCHANGED <<files, removed, op, raced>>
        /\ wpc' = [wpc EXCEPT ![w] = next]
    BY <2>1 DEF MakeDirs, Go, ghosts
  <2>3. wpc'[w] = next /\ next \in WPcs /\ next # "error"
    BY <2>2 DEF IInv, Types, WPcs
  <2>4. Tree'
    BY <1>2, <1>3, <2>2 DEF IInv, Tree, Known
  <2>5. Doing(w)' /\ Seen(w)'
    BY <1>2, <2>2, <2>3 DEF Doing, Seen
  <2> QED BY <1>1, <2>2, <2>3, <2>4, <2>5, WriterStep
<1> QED BY <1>4, <1>5

\* The rename of put_object: the directory it made is gone only if another writer was there,
\* and a directory in the place of the file is a conflict.
LEMMA RenameIInv ==
    ASSUME IInv, NEW w \in Writer, Rename(w), UNCHANGED <<first, phase, queue, pending>>
    PROVE  IInv'
<1> DEFINE k == op[w].key
<1>1. wpc[w] = "rename" /\ w \in Active
  BY DEF Rename, Active
<1>2. k \in Seq(Nat) /\ k \in Known /\ op[w].op = "put" /\ ~IsDir(k) /\ (w \in raced \/ Seen(w))
  BY <1>1, OpType DEF Doing
<1>3. CASE Parent(k) \notin dirs \/ Append(k, Slash) \in dirs
  <2>1. w \in raced \/ Conflict
    <3>1. CASE Parent(k) \notin dirs
      BY <1>1, <1>2, <3>1, ParentIsOne DEF Seen
    <3>2. CASE Append(k, Slash) \in dirs
      BY <1>2, <3>2, DirInTheWay DEF IInv
    <3> QED BY <1>3, <3>1, <3>2
  <2>2. Go(w, "error") /\ Untouched
    BY <1>3 DEF Rename
  <2>3. UNCHANGED <<files, dirs, removed, op, raced>> /\ wpc' = [wpc EXCEPT ![w] = "error"]
    BY <2>2 DEF Go, Untouched, tree, ghosts
  <2>4. wpc'[w] = "error" /\ "error" \in WPcs
    BY <2>3 DEF IInv, Types, WPcs
  <2>5. Tree' /\ Doing(w)' /\ Seen(w)'
    BY <2>3, <2>4, SameTree DEF Doing, Seen
  <2> QED BY <1>1, <2>1, <2>3, <2>4, <2>5, WriterStep
<1>4. CASE ~(Parent(k) \notin dirs \/ Append(k, Slash) \in dirs)
  <2>1. files' = files \cup {k} /\ UNCHANGED <<dirs, removed>> /\ Go(w, "ok")
    BY <1>4 DEF Rename
  <2>2. UNCHANGED <<op, raced>> /\ wpc' = [wpc EXCEPT ![w] = "ok"]
    BY <2>1 DEF Go
  <2>3. wpc'[w] = "ok" /\ "ok" \in WPcs /\ "ok" # "error"
    BY <2>2 DEF IInv, Types, WPcs
  <2>4. Tree'
    BY <1>2, <2>1, <2>2 DEF IInv, Tree, Known
  <2>5. Doing(w)' /\ Seen(w)'
    BY <2>3 DEF Doing, Seen
  <2> QED BY <1>1, <2>1, <2>2, <2>3, <2>4, <2>5, WriterStep
<1> QED BY <1>3, <1>4

\* path.exists() and what it leads to.
LEMMA CheckIInv ==
    ASSUME IInv, NEW w \in Writer, Check(w), UNCHANGED <<first, phase, queue, pending>>
    PROVE  IInv'
<1> DEFINE o == op[w]
           next == CASE o.op = "create_bucket" -> IF <<>> \in dirs THEN "refused" ELSE "mkdir"
                     [] o.op = "delete_bucket" -> IF <<>> \in dirs THEN "sweep" ELSE "refused"
                     [] o.op = "delete" /\ ~Exists(o.key) -> IF <<>> \in dirs THEN "ok" ELSE "refused"
                     [] o.op = "delete" /\ Exists(o.key) -> IF IsDir(o.key) THEN "look" ELSE "remove"
<1>1. wpc[w] = "check" /\ w \in Active
  BY DEF Check, Active
<1>2. UNCHANGED <<files, dirs, removed, op, raced>> /\ wpc' = [wpc EXCEPT ![w] = next]
  BY DEF Check, Go, Untouched, tree, ghosts
<1>3. wpc'[w] = next
  BY <1>2 DEF IInv, Types
<1>4. o.op \in {"create_bucket", "delete_bucket", "delete"}
  <2>1. o.op # "put"
    BY <1>1 DEF IInv, Doing
  <2> QED BY <2>1, OpType DEF Ops
<1>5. /\ next \in {"refused", "mkdir", "sweep", "ok", "look", "remove"}
      /\ next = "mkdir" => <<>> \notin dirs
      /\ next \in {"look", "remove"} => o.op = "delete" /\ Exists(o.key)
      /\ next = "look" => IsDir(o.key)
      /\ next = "remove" => ~IsDir(o.key)
  BY <1>4
<1> HIDE DEF next
<1>6. next \in WPcs /\ next # "error" /\ Tree' /\ Doing(w)'
  BY <1>2, <1>3, <1>5, SameTree DEF WPcs, Doing
<1>7. Exists(o.key)' <=> Exists(o.key)
  BY <1>2 DEF Exists
<1>8. Seen(w)'
  BY <1>2, <1>3, <1>5, <1>7 DEF Seen
<1> QED BY <1>1, <1>2, <1>6, <1>8, WriterStep

\* remove_file: a file that was there, or that nobody minds missing.
LEMMA RemoveFileIInv ==
    ASSUME IInv, NEW w \in Writer, RemoveFile(w), UNCHANGED <<first, phase, queue, pending>>
    PROVE  IInv'
<1> DEFINE k == op[w].key
<1>1. wpc[w] = "remove" /\ w \in Active
  BY DEF RemoveFile, Active
<1>2. k \in Known /\ IsKey(k) /\ ~IsDir(k) /\ (w \in raced \/ Seen(w))
  BY <1>1, OpType DEF Doing
<1>3. CASE k \in files
  <2>1. /\ files' = files \ {k} /\ removed' /\ dirs' = dirs /\ UNCHANGED <<op, raced>>
        /\ wpc' = [wpc EXCEPT ![w] = "ok"]
    BY <1>3 DEF RemoveFile, Unlink, Go
  <2>2. wpc'[w] = "ok" /\ "ok" \in WPcs /\ "ok" # "error"
    BY <2>1 DEF IInv, Types, WPcs
  <2>3. Tree' /\ Doing(w)' /\ Seen(w)'
    BY <2>1, <2>2 DEF IInv, Tree, Known, Doing, Seen
  <2> QED BY <1>1, <2>1, <2>2, <2>3, WriterStep
<1>4. CASE k \notin files
  <2> DEFINE next == IF op[w].many /\ NotFound(k) THEN "ok" ELSE "error"
  <2>1. UNCHANGED <<files, dirs, removed, op, raced>> /\ wpc' = [wpc EXCEPT ![w] = next]
    BY <1>4 DEF RemoveFile, Go, Untouched, tree, ghosts
  <2>2. wpc'[w] = next /\ next \in WPcs
    BY <2>1 DEF IInv, Types, WPcs
  <2>3. Tree' /\ Doing(w)' /\ Seen(w)'
    BY <2>1, <2>2, SameTree DEF Doing, Seen
  <2>4. ASSUME next = "error" PROVE w \in raced \/ Conflict
    <3>1. w \in raced \/ Exists(k) \/ InTheWay(Parents(k))
      BY <1>1, <1>2, <2>4 DEF Seen, NotFound
    <3>2. InTheWay(Parents(k)) => Conflict
      BY <1>2, BlockedPath DEF IInv, IsKey
    <3> QED BY <1>2, <1>4, <3>1, <3>2, ExistsOtherwise DEF IInv
  <2> HIDE DEF next
  <2> QED BY <1>1, <2>1, <2>2, <2>3, <2>4, WriterStep
<1> QED BY <1>3, <1>4

\* read_dir of a directory that is to be deleted.
LEMMA LookIInv ==
    ASSUME IInv, NEW w \in Writer, Look(w), UNCHANGED <<first, phase, queue, pending>>
    PROVE  IInv'
<1> DEFINE d == op[w].key
           next == IF d \notin dirs THEN (IF op[w].many /\ NotFound(d) THEN "ok" ELSE "error")
                   ELSE IF Children(d) = {} THEN "rmdir" ELSE "ok"
<1>1. wpc[w] = "look" /\ w \in Active
  BY DEF Look, Active
<1>2. d \in Known /\ IsKey(d) /\ IsDir(d) /\ op[w].op = "delete" /\ (w \in raced \/ Seen(w))
  BY <1>1, OpType DEF Doing
<1>3. UNCHANGED <<files, dirs, removed, op, raced>> /\ wpc' = [wpc EXCEPT ![w] = next]
  BY DEF Look, Go, Untouched, tree, ghosts
<1>4. wpc'[w] = next
  BY <1>3 DEF IInv, Types
<1>5. /\ next \in {"ok", "error", "rmdir"}
      /\ next = "rmdir" => d \in dirs /\ Children(d) = {}
  OBVIOUS
<1>6. ASSUME next = "error" PROVE w \in raced \/ Conflict
  <2>1. d \notin dirs /\ (w \in raced \/ Exists(d) \/ InTheWay(Parents(d)))
    BY <1>1, <1>2, <1>6 DEF Seen, NotFound
  <2>2. InTheWay(Parents(d)) => Conflict
    BY <1>2, BlockedPath DEF IInv, IsKey
  <2> QED BY <1>2, <2>1, <2>2, ExistsOtherwise DEF IInv
<1> HIDE DEF next
<1>7. next \in WPcs /\ Tree' /\ Doing(w)'
  BY <1>2, <1>3, <1>4, <1>5, SameTree DEF WPcs, Doing
<1>8. Seen(w)'
  BY <1>3, <1>4, <1>5 DEF Seen, Children
<1> QED BY <1>1, <1>3, <1>6, <1>7, <1>8, WriterStep

\* remove_dir of a directory that was empty.
LEMMA RemoveDirIInv ==
    ASSUME IInv, NEW w \in Writer, RemoveDir(w), UNCHANGED <<first, phase, queue, pending>>
    PROVE  IInv'
<1> DEFINE d == op[w].key
<1>1. wpc[w] = "rmdir" /\ w \in Active
  BY DEF RemoveDir, Active
<1>2. CASE d \in dirs /\ Children(d) = {}
  <2>1. /\ dirs' = dirs \ {d} /\ removed' /\ files' = files /\ UNCHANGED <<op, raced>>
        /\ wpc' = [wpc EXCEPT ![w] = "ok"]
    BY <1>2 DEF RemoveDir, Rmdir, Go
  <2>2. wpc'[w] = "ok" /\ "ok" \in WPcs /\ "ok" # "error"
    BY <2>1 DEF IInv, Types, WPcs
  <2>3. Tree' /\ Doing(w)' /\ Seen(w)'
    BY <2>1, <2>2 DEF IInv, Tree, Known, Doing, Seen
  <2> QED BY <1>1, <2>1, <2>2, <2>3, WriterStep
<1>3. CASE ~(d \in dirs /\ Children(d) = {})
  <2>1. w \in raced
    BY <1>1, <1>3, OpType DEF Seen
  <2>2. UNCHANGED <<files, dirs, removed, op, raced>> /\ wpc' = [wpc EXCEPT ![w] = "error"]
    BY <1>3 DEF RemoveDir, Go, Untouched, tree, ghosts
  <2>3. wpc'[w] = "error" /\ "error" \in WPcs
    BY <2>2 DEF IInv, Types, WPcs
  <2>4. Tree' /\ Doing(w)' /\ Seen(w)'
    BY <2>2, <2>3, SameTree DEF Doing, Seen
  <2> QED BY <1>1, <2>1, <2>2, <2>3, <2>4, WriterStep
<1> QED BY <1>2, <1>3

\* create_dir of a bucket that was not there.
LEMMA MkBucketIInv ==
    ASSUME IInv, NEW w \in Writer, MkBucket(w), UNCHANGED <<first, phase, queue, pending>>
    PROVE  IInv'
<1>1. wpc[w] = "mkdir" /\ w \in Active
  BY DEF MkBucket, Active
<1>2. CASE <<>> \notin dirs
  <2>1. /\ dirs' = dirs \cup {<<>>} /\ UNCHANGED <<files, removed, op, raced>>
        /\ wpc' = [wpc EXCEPT ![w] = "ok"]
    BY <1>2 DEF MkBucket, MakeDirs, Go, ghosts
  <2>2. wpc'[w] = "ok" /\ "ok" \in WPcs /\ "ok" # "error"
    BY <2>1 DEF IInv, Types, WPcs
  <2>3. Tree' /\ Doing(w)' /\ Seen(w)'
    BY <2>1, <2>2 DEF IInv, Tree, Known, Doing, Seen
  <2> QED BY <1>1, <2>1, <2>2, <2>3, WriterStep
<1>3. CASE <<>> \in dirs
  <2>1. w \in raced
    BY <1>1, <1>3, OpType DEF Seen
  <2>2. UNCHANGED <<files, dirs, removed, op, raced>> /\ wpc' = [wpc EXCEPT ![w] = "error"]
    BY <1>3 DEF MkBucket, Go, Untouched, tree, ghosts
  <2>3. wpc'[w] = "error" /\ "error" \in WPcs
    BY <2>2 DEF IInv, Types, WPcs
  <2>4. Tree' /\ Doing(w)' /\ Seen(w)'
    BY <2>2, <2>3, SameTree DEF Doing, Seen
  <2> QED BY <1>1, <2>1, <2>2, <2>3, <2>4, WriterStep
<1> QED BY <1>2, <1>3

\* remove_dir_all: files and directories go one by one.
LEMMA SweepIInv ==
    ASSUME IInv, NEW w \in Writer, Sweep(w), UNCHANGED <<first, phase, queue, pending>>
    PROVE  IInv'
<1>1. wpc[w] = "sweep" /\ w \in Active /\ wpc = [wpc EXCEPT ![w] = "sweep"]
  BY DEF Sweep, Active, IInv, Types
<1>2. "sweep" \in WPcs /\ "ok" \in WPcs /\ "error" \in WPcs /\ "ok" # "error" /\ "sweep" # "error"
  BY DEF WPcs
<1>3. ASSUME NEW k \in files, Unlink(k), UNCHANGED writers PROVE IInv'
  <2>1. /\ files' = files \ {k} /\ removed' /\ dirs' = dirs /\ UNCHANGED <<op, raced>>
        /\ wpc' = [wpc EXCEPT ![w] = "sweep"] /\ wpc'[w] = "sweep"
    BY <1>1, <1>3 DEF Unlink, writers
  <2>2. Tree' /\ Doing(w)' /\ Seen(w)'
    BY <2>1 DEF IInv, Tree, Known, Doing, Seen
  <2> QED BY <1>1, <1>2, <2>1, <2>2, WriterStep
<1>4. ASSUME NEW d \in dirs, Rmdir(d), Go(w, IF d = <<>> THEN "ok" ELSE "sweep") PROVE IInv'
  <2> DEFINE next == IF d = <<>> THEN "ok" ELSE "sweep"
  <2>1. /\ dirs' = dirs \ {d} /\ removed' /\ files' = files /\ UNCHANGED <<op, raced>>
        /\ wpc' = [wpc EXCEPT ![w] = next]
    BY <1>4 DEF Rmdir, Go
  <2>2. wpc'[w] = next /\ next \in {"ok", "sweep"}
    BY <2>1 DEF IInv, Types
  <2> HIDE DEF next
  <2>3. Tree' /\ Doing(w)' /\ Seen(w)' /\ next \in WPcs /\ next # "error"
    BY <1>2, <2>1, <2>2 DEF IInv, Tree, Known, Doing, Seen
  <2> QED BY <1>1, <2>1, <2>3, WriterStep
<1>5. ASSUME w \in raced, Go(w, "error"), Untouched PROVE IInv'
  <2>1. UNCHANGED <<files, dirs, removed, op, raced>> /\ wpc' = [wpc EXCEPT ![w] = "error"]
    BY <1>5 DEF Go, Untouched, tree, ghosts
  <2>2. wpc'[w] = "error"
    BY <2>1 DEF IInv, Types
  <2>3. Tree' /\ Doing(w)' /\ Seen(w)'
    BY <2>1, <2>2, SameTree DEF Doing, Seen
  <2> QED BY <1>1, <1>2, <1>5, <2>1, <2>3, WriterStep
<1> QED BY <1>3, <1>4, <1>5 DEF Sweep

\* Every step of a writer keeps the invariant.
LEMMA WriteIInv == ASSUME IInv, NEW w \in Writer, Write(w) PROVE IInv'
<1>1. UNCHANGED <<first, phase, queue, pending>>
  BY DEF Write, session
<1> QED BY <1>1, BeginIInv, MkDirsIInv, RenameIInv, CheckIInv, RemoveFileIInv, LookIInv,
           RemoveDirIInv, MkBucketIInv, SweepIInv DEF Write

-----------------------------------------------------------------------------
\* A listing leaves the bucket and its writers alone.
LEMMA ListerStep == ASSUME IInv, UNCHANGED <<tree, writers, first>>, Scan' PROVE IInv'
<1>1. UNCHANGED <<files, dirs, op, wpc, raced, first>>
  BY DEF tree, writers
<1>2. Types' /\ Tree' /\ Overlap'
  BY <1>1 DEF IInv, Types, Tree, Known, Overlap, Active
<1>3. AloneNeverFails'
  BY <1>1 DEF IInv, AloneNeverFails, Conflict, Known
<1>4. ASSUME NEW w \in Writer PROVE Doing(w)' /\ (w \in raced' \/ Seen(w)')
  BY <1>1 DEF IInv, Doing, Seen, Exists, Children
<1> QED BY <1>2, <1>3, <1>4 DEF IInv

\* Entries of a directory are files or directories, and keys both.
LEMMA ChildrenOf ==
    ASSUME IInv, NEW d, NEW e \in Children(d)
    PROVE  e \in Seq(Nat) /\ e \in files \cup dirs
BY DEF IInv, Types, Tree, Known, Children

\* What is there and is no directory by its name is a file.
LEMMA FileOrDir ==
    ASSUME IInv, NEW e \in files \cup dirs
    PROVE  IF IsDir(e) THEN e \in dirs ELSE e \in files
<1>1. \A d \in dirs : IsDir(d)
  BY DEF IInv, Tree, IsDir
<1> QED BY <1>1 DEF IInv, Tree

\* The listing finds what it has read about, unless something was removed meanwhile.
LEMMA ListerIInv == ASSUME IInv, Lister PROVE IInv'
<1> USE DEF tree, writers, scan, ghosts
<1>1. UNCHANGED <<tree, writers, first>>
  BY DEF Lister, List, ReadDir, ReadEntry, Entry, EndOfDir, Page, Retry
<1>2. Scan
  BY DEF IInv
<1>3. CASE List
  <2>1. /\ phase' = IF <<>> \in dirs THEN "read_dir" ELSE "no_bucket"
        /\ queue' = <<<<>>>> /\ UNCHANGED <<dirs, pending>>
    BY <1>3 DEF List
  <2>2. queue' \in Seq(Seq(Nat)) /\ \A i \in DOMAIN queue' : queue'[i] = <<>>
    BY <2>1
  <2>3. Scan'
    BY <1>2, <2>1, <2>2 DEF Scan
  <2> QED BY <1>1, <2>3, ListerStep
<1>4. CASE ReadDir
  <2>1. phase = "read_dir" /\ UNCHANGED <<files, dirs, removed>>
    BY <1>4 DEF ReadDir
  <2>2. CASE queue = <<>>
    <3>1. phase' = "page" /\ UNCHANGED <<queue, pending>>
      BY <1>4, <2>2 DEF ReadDir
    <3> QED BY <1>1, <1>2, <3>1, ListerStep DEF Scan
  <2>3. CASE queue # <<>>
    <3>1. /\ queue' = Tail(queue) /\ dir' = Head(queue) /\ pending' = Children(dir')
          /\ phase' = IF dir' \in dirs THEN "entry" ELSE "failed"
      BY <1>4, <2>3 DEF ReadDir
    <3>2. /\ queue' \in Seq(Seq(Nat)) /\ dir' = queue[1] /\ 1 \in DOMAIN queue
          /\ \A i \in DOMAIN queue' : i + 1 \in DOMAIN queue /\ queue'[i] = queue[i + 1]
      BY <1>2, <2>3, <3>1 DEF Scan
    <3>3. pending' \subseteq Seq(Nat) /\ pending' \subseteq files \cup dirs
      BY <3>1, ChildrenOf
    <3>4. removed \/ (dir' \in dirs /\ \A i \in DOMAIN queue' : queue'[i] \in dirs)
      BY <1>2, <2>1, <3>2 DEF Scan
    <3>5. Scan'
      BY <2>1, <3>1, <3>2, <3>3, <3>4 DEF Scan
    <3> QED BY <1>1, <3>5, ListerStep
  <2> QED BY <2>2, <2>3
<1>5. ASSUME NEW e \in pending \cup Children(dir), Entry(e) PROVE IInv'
  <2>1. /\ phase = "entry" /\ pending' = pending \ {e} /\ UNCHANGED <<files, dirs, removed>>
    BY <1>5 DEF Entry
  <2>2. e \in Seq(Nat) /\ (removed \/ e \in files \cup dirs)
    BY <1>2, <1>5, <2>1, ChildrenOf DEF Scan
  <2>3. pending' \subseteq Seq(Nat) /\ (removed \/ pending' \subseteq files \cup dirs)
    BY <1>2, <2>1 DEF Scan
  <2>4. CASE IsDir(e)
    <3>1. queue' = (IF Pruned(e) THEN queue ELSE Append(queue, e)) /\ phase' = phase
      BY <1>5, <2>4 DEF Entry
    <3>2. removed \/ e \in dirs
      BY <2>2, <2>4, FileOrDir
    <3>3. queue' \in Seq(Seq(Nat)) /\ (removed \/ \A i \in DOMAIN queue' : queue'[i] \in dirs)
      BY <1>2, <2>1, <2>2, <3>1, <3>2 DEF Scan
    <3>4. Scan'
      BY <2>1, <2>3, <3>1, <3>3 DEF Scan
    <3> QED BY <1>1, <3>4, ListerStep
  <2>5. CASE ~IsDir(e)
    <3>1. queue' = queue /\ (phase' = phase \/ (phase' = "failed" /\ e \notin files))
      BY <1>5, <2>5 DEF Entry
    <3>2. removed \/ e \in files
      BY <2>2, <2>5, FileOrDir
    <3>3. Scan'
      BY <1>2, <2>1, <2>3, <3>1, <3>2 DEF Scan
    <3> QED BY <1>1, <3>3, ListerStep
  <2> QED BY <2>4, <2>5
<1>6. CASE EndOfDir
  <2>1. Scan'
    BY <1>2, <1>6 DEF EndOfDir, Scan
  <2> QED BY <1>1, <2>1, ListerStep
<1>7. CASE Page
  <2>1. phase' \in {"idle", "done"} /\ UNCHANGED <<queue, pending, removed>>
    BY <1>7 DEF Page
  <2>2. Scan'
    BY <1>2, <2>1 DEF Scan
  <2> QED BY <1>1, <2>2, ListerStep
<1>8. CASE Retry
  <2>1. Scan'
    BY <1>2, <1>8 DEF Retry, Scan
  <2> QED BY <1>1, <2>1, ListerStep
<1> QED BY <1>3, <1>4, <1>5, <1>6, <1>7, <1>8 DEF Lister, ReadEntry

\* Nothing happens in a bucket that breaks the invariant.
LEMMA NextIInv == IInv /\ [Next]_vars => IInv'
<1> SUFFICES ASSUME IInv, [Next]_vars PROVE IInv'
  OBVIOUS
<1>1. CASE Done \/ UNCHANGED vars
  <2>1. UNCHANGED <<tree, writers, first, queue, pending, phase, removed, files, dirs>>
    BY <1>1 DEF Done, vars, tree, session, scan, ghosts
  <2>2. Scan'
    BY <2>1 DEF IInv, Scan
  <2> QED BY <2>1, <2>2, ListerStep
<1> QED BY <1>1, WriteIInv, ListerIInv DEF Next

\* A page is refused with an internal error only if something was removed while it was
\* scanned, and a put, a delete or a bucket operation only if another one overlapped it, or a
\* file and a directory want one name (list_objects_recursive, FileWriter::done,
\* delete_object, delete_objects, create_bucket, delete_bucket).
THEOREM ErrorsAreRacesHolds == Spec => []ErrorsAreRaces
<1>1. IInv => ErrorsAreRaces
  BY DEF IInv, Scan, ErrorsAreRaces, FailsOnlyOnRemoval
<1> QED BY <1>1, InitIInv, NextIInv, PTL DEF Spec
=============================================================================

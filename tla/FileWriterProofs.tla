-------------------------- MODULE FileWriterProofs --------------------------
(***************************************************************************)
(* FileWriter implements AtomicFile for every set of handlers, paths and   *)
(* payloads.  The heart of the argument is who may touch a temporary: a    *)
(* name handed out since the last start is below the counter and belongs   *)
(* to at most one handler, and every other name is free.                   *)
(***************************************************************************)
EXTENDS FileWriter, TLAPS

Busy == {"ok", "err", "late"} \cup InFlight

\* A name taken by a handler is below the counter and is its alone.
NamesOwned ==
    \A w \in Writer : pc[w] \in Busy =>
        /\ up
        /\ name[w] < counter
        /\ \A x \in Writer : pc[x] \in Busy /\ name[x] = name[w] => x = w

\* While the process runs, names not yet handed out have no file.
FreshNamesFree == up => \A n \in Name : n >= counter => tmp[n] = Absent

\* What the file behind a handler's temporary name holds at each point.
TmpContents ==
    \A w \in Writer :
        /\ pc[w] = "create" => tmp[name[w]] = Absent
        /\ pc[w] \in {"write", "flushed", "rename", "late"} =>
             /\ tmp[name[w]] \in Content
             /\ tmp[name[w]].val = job[w][2]
        /\ pc[w] \in {"flushed", "rename", "late"} => tmp[name[w]].len = Size

\* Only whole files have been renamed into place.
DestWhole == \A d \in Dest : dest[d] # Absent => dest[d].len = Size

IInv == TypeOK /\ NamesOwned /\ FreshNamesFree /\ TmpContents /\ DestWhole /\ NoTmpLeaked

-----------------------------------------------------------------------------
\* The names in use are names a temporary can have.
LEMMA BusyName == ASSUME IInv, NEW w \in Writer, pc[w] \in Busy
                  PROVE  name[w] \in Name /\ up
  BY FileWriterAssumption DEF IInv, TypeOK, NamesOwned, Name

\* The invariant holds when the process first starts.
LEMMA InitIInv == Init => IInv
  BY FileWriterAssumption
     DEF Init, IInv, TypeOK, NamesOwned, FreshNamesFree, TmpContents, DestWhole,
         NoTmpLeaked, Phase, Busy, InFlight, Name, Content

\* Every step of a handler preserves the invariant.
LEMMA StepIInv == ASSUME IInv, NEW w \in Writer, Step(w) PROVE IInv'
  <1> USE FileWriterAssumption DEF IInv, TypeOK, Phase, Busy, InFlight, Goto
  <1>1. ASSUME NEW d \in Dest, NEW v \in Value, Prepare(w, d, v) PROVE IInv'
    <2> USE <1>1 DEF Prepare
    <2>1. TypeOK' /\ DestWhole'
      BY DEF DestWhole
    <2>2. NamesOwned'
      BY DEF NamesOwned
    <2>3. FreshNamesFree'
      BY DEF FreshNamesFree, Name
    <2>4. TmpContents'
      BY DEF TmpContents, FreshNamesFree, Name
    <2>5. NoTmpLeaked'
      BY DEF NoTmpLeaked, TmpContents
    <2> QED BY <2>1, <2>2, <2>3, <2>4, <2>5
  <1>2. CASE Create(w)
    <2> USE <1>2, BusyName DEF Create, Content
    <2>1. TypeOK' /\ DestWhole'
      BY DEF DestWhole
    <2>2. NamesOwned'
      BY DEF NamesOwned
    <2>3. FreshNamesFree'
      BY DEF FreshNamesFree, NamesOwned, Name
    <2>4. TmpContents'
      BY DEF TmpContents, NamesOwned
    <2>5. NoTmpLeaked'
      BY DEF NoTmpLeaked, TmpContents
    <2> QED BY <2>1, <2>2, <2>3, <2>4, <2>5
  <1>3. CASE Write(w)
    BY <1>3 DEF Write, NamesOwned, FreshNamesFree, TmpContents, DestWhole, NoTmpLeaked
  <1>4. CASE DiskWrite(w)
    <2> USE <1>4, BusyName DEF DiskWrite, Content
    <2>1. /\ tmp[name[w]] \in Content
          /\ tmp[name[w]].val = job[w][2]
          /\ tmp' = [tmp EXCEPT ![name[w]] =
                        [val |-> job[w][2], len |-> tmp[name[w]].len + 1]]
      BY DEF TmpContents
    <2>2. TypeOK' /\ DestWhole'
      BY <2>1 DEF DestWhole
    <2>3. NamesOwned'
      BY DEF NamesOwned
    <2>4. FreshNamesFree'
      BY <2>1 DEF FreshNamesFree, NamesOwned, Name
    <2>5. TmpContents'
      BY <2>1 DEF TmpContents, NamesOwned
    <2>6. NoTmpLeaked'
      BY DEF NoTmpLeaked, TmpContents
    <2> QED BY <2>2, <2>3, <2>4, <2>5, <2>6
  <1>5. CASE Flush(w)
    BY <1>5 DEF Flush, NamesOwned, FreshNamesFree, TmpContents, DestWhole, NoTmpLeaked
  <1>6. CASE CreateDir(w)
    BY <1>6 DEF CreateDir, NamesOwned, FreshNamesFree, TmpContents, DestWhole, NoTmpLeaked
  <1>7. CASE Rename(w)
    <2> USE <1>7, BusyName DEF Rename, RenameTmp, RemoveTmp, Content
    <2>1. tmp[name[w]] \in Content /\ tmp[name[w]].len = Size
      BY DEF TmpContents
    <2>2. TypeOK' /\ DestWhole'
      BY <2>1 DEF DestWhole
    <2>3. NamesOwned'
      BY DEF NamesOwned
    <2>4. FreshNamesFree'
      BY DEF FreshNamesFree
    <2>5. TmpContents'
      BY DEF TmpContents, NamesOwned
    <2>6. NoTmpLeaked'
      BY DEF NoTmpLeaked, TmpContents
    <2> QED BY <2>2, <2>3, <2>4, <2>5, <2>6
  <1>8. CASE Fail(w)
    <2> USE <1>8, BusyName DEF Fail, DropWriter, RemoveTmp
    <2>1. TypeOK' /\ DestWhole'
      BY DEF DestWhole
    <2>2. NamesOwned'
      BY DEF NamesOwned
    <2>3. FreshNamesFree'
      BY DEF FreshNamesFree
    <2>4. TmpContents'
      BY DEF TmpContents, NamesOwned
    <2>5. NoTmpLeaked'
      BY DEF NoTmpLeaked, TmpContents
    <2> QED BY <2>1, <2>2, <2>3, <2>4, <2>5
  <1>9. CASE Return(w)
    BY <1>9 DEF Return, NamesOwned, FreshNamesFree, TmpContents, DestWhole, NoTmpLeaked
  <1>10. CASE Cancel(w)
    <2> USE <1>10, BusyName DEF Cancel, DropWriter, RemoveTmp, RenameTmp, Content
    <2>1. pc[w] = "rename" => tmp[name[w]] \in Content /\ tmp[name[w]].len = Size
      BY DEF TmpContents
    <2>2. tmp' \in [Name -> Content \cup {Absent}]
      <3>1. [val |-> job[w][2], len |-> 0] \in Content
        OBVIOUS
      <3> QED BY <3>1
    <2>3. dest' \in [Dest -> Content \cup {Absent}] /\ DestWhole'
      BY <2>1 DEF DestWhole
    <2>4. TypeOK'
      BY <2>2, <2>3
    <2>5. NamesOwned'
      BY DEF NamesOwned
    <2>6. FreshNamesFree'
      BY DEF FreshNamesFree, NamesOwned, Name
    <2>7. TmpContents'
      BY DEF TmpContents, NamesOwned
    <2>8. NoTmpLeaked'
      BY DEF NoTmpLeaked, TmpContents
    <2> QED BY <2>3, <2>4, <2>5, <2>6, <2>7, <2>8
  <1>11. CASE LateRename(w)
    <2> USE <1>11, BusyName DEF LateRename, RenameTmp, RemoveTmp, Content
    <2>1. tmp[name[w]] \in Content /\ tmp[name[w]].len = Size
      BY DEF TmpContents
    <2>2. TypeOK' /\ DestWhole'
      BY <2>1 DEF DestWhole
    <2>3. NamesOwned'
      BY DEF NamesOwned
    <2>4. FreshNamesFree'
      BY DEF FreshNamesFree
    <2>5. TmpContents'
      BY DEF TmpContents, NamesOwned
    <2>6. NoTmpLeaked'
      BY DEF NoTmpLeaked, TmpContents
    <2> QED BY <2>2, <2>3, <2>4, <2>5, <2>6
  <1> QED
    BY <1>1, <1>2, <1>3, <1>4, <1>5, <1>6, <1>7, <1>8, <1>9, <1>10, <1>11 DEF Step

\* So do the death of the process, its clean-up and its restart.
LEMMA NextIInv == IInv /\ [Next]_vars => IInv'
  <1> SUFFICES ASSUME IInv, [Next]_vars PROVE IInv'
    OBVIOUS
  <1> USE FileWriterAssumption DEF IInv, TypeOK, Phase, Busy, InFlight
  <1>1. CASE \E w \in Writer : Step(w)
    BY <1>1, StepIInv
  <1>2. CASE Crash
    BY <1>2 DEF Crash, NamesOwned, FreshNamesFree, TmpContents, DestWhole, NoTmpLeaked
  <1>3. ASSUME NEW n \in Name, CleanOldTmpFile(n) PROVE IInv'
    <2> USE <1>3 DEF CleanOldTmpFile, RemoveTmp
    <2>1. \A x \in Writer : pc[x] = "idle"
      BY DEF NamesOwned
    <2> QED
      BY <2>1 DEF NamesOwned, FreshNamesFree, TmpContents, DestWhole, NoTmpLeaked
  <1>4. CASE Start
    <2>1. \A x \in Writer : pc[x] = "idle"
      BY <1>4 DEF Start, NamesOwned
    <2> QED
      BY <1>4, <2>1 DEF Start, NamesOwned, FreshNamesFree, TmpContents, DestWhole, NoTmpLeaked
  <1>5. CASE UNCHANGED vars
    BY <1>5 DEF vars, NamesOwned, FreshNamesFree, TmpContents, DestWhole, NoTmpLeaked
  <1> QED BY <1>1, <1>2, <1>3, <1>4, <1>5 DEF Next

\* The inductive invariant holds in every reachable state.
THEOREM SpecIInv == Spec => []IInv
  BY InitIInv, NextIInv, PTL DEF Spec

\* No two handlers ever write through the same temporary file and none is
\* created over a file that is there, in spite of the counter that restarts with
\* the process (prepare_file_write, FileSystem::new).
THEOREM TmpExclusiveHolds == Spec => []TmpExclusive
  <1>1. IInv => TmpExclusive
    BY DEF IInv, NamesOwned, TmpContents, TmpExclusive, Busy
  <1> QED BY SpecIInv, <1>1, PTL

\* Apart from the ones whose removal failed or whose creation outlived its
\* handler, a temporary belongs to a write in flight, at whatever await the
\* others failed or were dropped (FileWriter::done, Drop).
THEOREM NoTmpLeakedHolds == Spec => []NoTmpLeaked
  BY SpecIInv, PTL DEF IInv

-----------------------------------------------------------------------------
\* What a rename makes visible is the handler's payload, and nothing else.
LEMMA RenamePublishes ==
    ASSUME IInv, NEW w \in Writer, pc[w] \in {"rename", "late"}, RenameTmp(w)
    PROVE  Atomic!Publish(w)
  <1>1. tmp[name[w]] \in Content /\ tmp[name[w]].val = job[w][2] /\ tmp[name[w]].len = Size
    BY DEF IInv, TmpContents
  <1>2. Whole(tmp[name[w]]) = job[w][2]
    BY <1>1, FileWriterAssumption DEF Whole, Content
  <1>3. job[w][1] \in Dest /\ dest \in [Dest -> Content \cup {Absent}]
    BY DEF IInv, TypeOK
  <1> QED BY <1>2, <1>3 DEF Atomic!Publish, RenameTmp

\* Every step of a handler is a step of the atomic file, or none.
LEMMA StepRefines ==
    ASSUME IInv, NEW w \in Writer, Step(w) PROVE [Atomic!Next]_(Atomic!avars)
  <1> USE DEF Goto, Phase, InFlight, Atomic!avars
  <1>0. pc \in [Writer -> Phase] /\ job \in [Writer -> Dest \X Value]
    BY DEF IInv, TypeOK
  <1>1. ASSUME NEW d \in Dest, NEW v \in Value, Prepare(w, d, v) PROVE Atomic!Begin(w, d, v)
    BY <1>0, <1>1 DEF Prepare, Atomic!Begin
  <1>2. CASE Create(w) \/ Write(w) \/ DiskWrite(w) \/ Flush(w) \/ CreateDir(w)
    BY <1>0, <1>2 DEF Create, Write, DiskWrite, Flush, CreateDir
  <1>3. CASE Rename(w)
    <2>1. Atomic!Publish(w)
      BY <1>3, RenamePublishes DEF Rename
    <2>2. Atomic!Commit(w)
      BY <1>0, <1>3, <2>1 DEF Rename, Atomic!Commit
    <2> QED BY <2>2 DEF Atomic!Next
  <1>4. CASE Fail(w)
    <2>1. Atomic!Reject(w)
      BY <1>0, <1>4 DEF Fail, Atomic!Reject
    <2> QED BY <2>1 DEF Atomic!Next
  <1>5. CASE Return(w)
    <2>1. Atomic!Return(w)
      BY <1>0, <1>5 DEF Return, Atomic!Return
    <2> QED BY <2>1 DEF Atomic!Next
  <1>6. CASE Cancel(w)
    <2>1. CASE pc'[w] = "late"
      BY <1>0, <1>6, <2>1 DEF Cancel
    <2>2. CASE pc'[w] # "late"
      <3>1. UNCHANGED dest \/ Atomic!Publish(w)
        BY <1>6, <2>2, RenamePublishes DEF Cancel
      <3>2. Atomic!Abandon(w)
        BY <1>0, <1>6, <2>2, <3>1 DEF Cancel, Atomic!Abandon
      <3> QED BY <3>2 DEF Atomic!Next
    <2> QED BY <2>1, <2>2
  <1>7. CASE LateRename(w)
    <2>1. Atomic!Publish(w)
      BY <1>7, RenamePublishes DEF LateRename
    <2>2. Atomic!Abandon(w)
      BY <1>0, <1>7, <2>1 DEF LateRename, Atomic!Abandon
    <2> QED BY <2>2 DEF Atomic!Next
  <1> QED
    BY <1>1, <1>2, <1>3, <1>4, <1>5, <1>6, <1>7 DEF Step, Atomic!Next

\* Writing through a temporary file implements the atomic write that the
\* comment on prepare_file_write promises.
THEOREM FileWriterIsAtomic == Spec => WritesAreAtomic
  <1>1. Init => Atomic!Init
    BY DEF Init, Atomic!Init, Whole, InFlight
  <1>2. IInv /\ [Next]_vars => [Atomic!Next]_(Atomic!avars)
    <2> SUFFICES ASSUME IInv, [Next]_vars PROVE [Atomic!Next]_(Atomic!avars)
      OBVIOUS
    <2>1. CASE \E w \in Writer : Step(w)
      BY <2>1, StepRefines
    <2>2. CASE Crash
      <3>1. Atomic!Crash
        BY <2>2 DEF Crash, Atomic!Crash, InFlight
      <3> QED BY <3>1 DEF Atomic!Next
    <2>3. CASE (\E n \in Name : CleanOldTmpFile(n)) \/ Start \/ UNCHANGED vars
      BY <2>3 DEF CleanOldTmpFile, Start, vars, Atomic!avars
    <2> QED BY <2>1, <2>2, <2>3 DEF Next
  <1> QED BY SpecIInv, <1>1, <1>2, PTL DEF Spec, WritesAreAtomic, Atomic!Spec
=============================================================================

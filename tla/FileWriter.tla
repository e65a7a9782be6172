----------------------------- MODULE FileWriter -----------------------------
(***************************************************************************)
(* The atomic file writer of crates/s3s-fs/src/fs.rs: a temporary file     *)
(* named by a process-wide counter is created in the root directory,       *)
(* filled, flushed and renamed over its destination; FileWriter's Drop     *)
(* removes the temporary when the write did not get that far, and the next *)
(* start of the process removes what a dead process left behind.           *)
(*                                                                         *)
(* Every await is a step boundary.  Tokio runs each file operation on its  *)
(* blocking pool: dropping the handler does not stop the operation it      *)
(* waits for.  A crash is the death of the process; the code never calls   *)
(* fsync, so the loss of the page cache is outside this model.             *)
(***************************************************************************)
EXTENDS Naturals

CONSTANTS Writer,   \* request handlers that write a file
          Dest,     \* destination paths
          Value,    \* payloads
          Absent,   \* no file at that path
          Size,     \* number of chunks of a payload
          MaxTmp    \* bound: temporary names a process may use

\* A path either holds a file or it does not.
ASSUME FileWriterAssumption ==
    /\ Size \in Nat
    /\ MaxTmp \in Nat
    /\ Absent \notin [val : Value, len : 0..Size]
    /\ Absent \notin Value

VARIABLES up,       \* the process is serving
          counter,  \* FileSystem.tmp_file_counter
          tmp,      \* the files .tmp.<n>.internal.part
          dest,     \* the files at the destination paths
          pc,       \* where every handler is in its write
          job,      \* its destination and payload
          name,     \* the number in FileWriter.tmp_path
          sent,     \* chunks handed to FileWriter.writer
          orphan    \* history: names whose removal failed, or whose creation
                    \* outlived the handler that asked for it

vars == <<up, counter, tmp, dest, pc, job, name, sent, orphan>>

Name == 0..(MaxTmp - 1)
Content == [val : Value, len : 0..Size]
InFlight == {"create", "write", "flushed", "rename"}
Phase == {"idle", "late", "ok", "err"} \cup InFlight

TypeOK ==
    /\ up \in BOOLEAN
    /\ counter \in 0..MaxTmp
    /\ tmp \in [Name -> Content \cup {Absent}]
    /\ dest \in [Dest -> Content \cup {Absent}]
    /\ pc \in [Writer -> Phase]
    /\ job \in [Writer -> Dest \X Value]
    /\ name \in [Writer -> 0..MaxTmp]
    /\ sent \in [Writer -> 0..Size]
    /\ orphan \subseteq Name

Init ==
    /\ up = TRUE
    /\ counter = 0
    /\ tmp = [n \in Name |-> Absent]
    /\ dest = [d \in Dest |-> Absent]
    /\ pc = [w \in Writer |-> "idle"]
    /\ job \in [Writer -> Dest \X Value]
    /\ name = [w \in Writer |-> 0]
    /\ sent = [w \in Writer |-> 0]
    /\ orphan = {}

-----------------------------------------------------------------------------
Goto(w, from, to) == pc[w] = from /\ pc' = [pc EXCEPT ![w] = to]

RemoveTmp(n) == tmp' = [tmp EXCEPT ![n] = Absent]

\* Mutant of Prepare: the counter is read but not advanced.
PrepareNoFetchAdd(w, d, v) ==
    /\ up
    /\ counter < MaxTmp
    /\ Goto(w, "idle", "create")
    /\ name' = [name EXCEPT ![w] = counter]
    /\ job' = [job EXCEPT ![w] = <<d, v>>]
    /\ sent' = [sent EXCEPT ![w] = 0]
    /\ UNCHANGED <<up, counter, tmp, dest, orphan>>

\* prepare_file_write up to its await: the name is taken from the counter.
Prepare(w, d, v) ==
    /\ up
    /\ counter < MaxTmp
    /\ Goto(w, "idle", "create")
    /\ counter' = counter + 1
    /\ name' = [name EXCEPT ![w] = counter]
    /\ job' = [job EXCEPT ![w] = <<d, v>>]
    /\ sent' = [sent EXCEPT ![w] = 0]
    /\ UNCHANGED <<up, tmp, dest, orphan>>

\* File::create makes the file or truncates the one that is there.
Create(w) ==
    /\ Goto(w, "create", "write")
    /\ tmp' = [tmp EXCEPT ![name[w]] = [val |-> job[w][2], len |-> 0]]
    /\ UNCHANGED <<up, counter, dest, job, name, sent, orphan>>

\* write_all of one chunk of the body: it may still be in a buffer.
Write(w) ==
    /\ pc[w] = "write"
    /\ sent[w] < Size
    /\ sent' = [sent EXCEPT ![w] = @ + 1]
    /\ UNCHANGED <<up, counter, tmp, dest, pc, job, name, orphan>>

\* The blocking pool moves a buffered chunk to the file.
DiskWrite(w) ==
    /\ pc[w] = "write"
    /\ tmp[name[w]].len < sent[w]
    /\ tmp' = [tmp EXCEPT ![name[w]] = [val |-> @.val, len |-> @.len + 1]]
    /\ UNCHANGED <<up, counter, dest, pc, job, name, sent, orphan>>

\* Mutant of Flush: done is called without waiting for the buffer.
NoFlush(w) ==
    /\ Goto(w, "write", "flushed")
    /\ sent[w] = Size
    /\ UNCHANGED <<up, counter, tmp, dest, job, name, sent, orphan>>

\* flush returns once nothing is buffered; the body has ended.
Flush(w) ==
    /\ Goto(w, "write", "flushed")
    /\ sent[w] = Size
    /\ tmp[name[w]].len = sent[w]
    /\ UNCHANGED <<up, counter, tmp, dest, job, name, sent, orphan>>

\* done: create_dir_all on the parent of the destination.
CreateDir(w) ==
    /\ Goto(w, "flushed", "rename")
    /\ UNCHANGED <<up, counter, tmp, dest, job, name, sent, orphan>>

RenameTmp(w) ==
    /\ dest' = [dest EXCEPT ![job[w][1]] = tmp[name[w]]]
    /\ RemoveTmp(name[w])

\* done: the rename, after which clean_tmp is false and Drop does nothing.
Rename(w) ==
    /\ Goto(w, "rename", "ok")
    /\ RenameTmp(w)
    /\ UNCHANGED <<up, counter, job, name, sent, orphan>>

\* FileWriter's Drop discards the result of remove_file: the temporary is gone,
\* or its removal failed and it stays.
DropWriter(n) ==
    \/ RemoveTmp(n) /\ UNCHANGED orphan
    \/ UNCHANGED tmp /\ orphan' = orphan \cup {n}

\* Mutant of Fail: there is no Drop.
FailWithoutDrop(w) ==
    /\ pc[w] \in InFlight
    /\ pc' = [pc EXCEPT ![w] = "err"]
    /\ UNCHANGED <<up, counter, tmp, dest, job, name, sent, orphan>>

\* The awaited operation, the body or a check between them fails: the error is
\* returned, and the FileWriter is dropped if there is one yet.
Fail(w) ==
    /\ pc[w] \in InFlight
    /\ pc' = [pc EXCEPT ![w] = "err"]
    /\ IF pc[w] = "create" THEN UNCHANGED <<tmp, orphan>> ELSE DropWriter(name[w])
    /\ UNCHANGED <<up, counter, dest, job, name, sent>>

Return(w) ==
    /\ pc[w] \in {"ok", "err"}
    /\ pc' = [pc EXCEPT ![w] = "idle"]
    /\ UNCHANGED <<up, counter, tmp, dest, job, name, sent, orphan>>

\* The handler is dropped at an await.  A File::create or a rename it waits for
\* may still run: the first leaves a file nobody owns, the second comes before
\* Drop's remove_file (which then finds nothing) or fails after it.  When both
\* the drop comes first and the removal fails, the rename is still to come.
Cancel(w) ==
    /\ \/ /\ pc[w] \in InFlight \ {"create"}
          /\ DropWriter(name[w])
          /\ pc' = [pc EXCEPT ![w] = "idle"]
          /\ UNCHANGED dest
       \/ /\ Goto(w, "create", "idle")
          /\ UNCHANGED <<tmp, dest, orphan>>
       \/ /\ Goto(w, "create", "idle")
          /\ tmp' = [tmp EXCEPT ![name[w]] = [val |-> job[w][2], len |-> 0]]
          /\ orphan' = orphan \cup {name[w]}
          /\ UNCHANGED dest
       \/ /\ Goto(w, "rename", "idle")
          /\ RenameTmp(w)
          /\ UNCHANGED orphan
       \/ /\ Goto(w, "rename", "late")
          /\ orphan' = orphan \cup {name[w]}
          /\ UNCHANGED <<tmp, dest>>
    /\ UNCHANGED <<up, counter, job, name, sent>>

\* The blocking pool gets to the rename of a handler that was dropped.
LateRename(w) ==
    /\ Goto(w, "late", "idle")
    /\ RenameTmp(w)
    /\ UNCHANGED <<up, counter, job, name, sent, orphan>>

-----------------------------------------------------------------------------
Crash ==
    /\ up
    /\ up' = FALSE
    /\ pc' = [w \in Writer |-> "idle"]
    /\ UNCHANGED <<counter, tmp, dest, job, name, sent, orphan>>

\* clean_old_tmp_files removes one entry; if that fails FileSystem::new fails
\* and the process stays down until it is started again.
CleanOldTmpFile(n) ==
    /\ ~up
    /\ tmp[n] # Absent
    /\ RemoveTmp(n)
    /\ UNCHANGED <<up, counter, dest, pc, job, name, sent, orphan>>

\* FileSystem::new, once no matching entry is left.
Start ==
    /\ ~up
    /\ \A n \in Name : tmp[n] = Absent
    /\ up' = TRUE
    /\ counter' = 0
    /\ orphan' = {}
    /\ UNCHANGED <<tmp, dest, pc, job, name, sent>>

Step(w) ==
    \/ \E d \in Dest, v \in Value : Prepare(w, d, v)
    \/ Create(w) \/ Write(w) \/ DiskWrite(w) \/ Flush(w) \/ CreateDir(w)
    \/ Rename(w) \/ Fail(w) \/ Return(w) \/ Cancel(w) \/ LateRename(w)

Next ==
    \/ \E w \in Writer : Step(w)
    \/ Crash
    \/ \E n \in Name : CleanOldTmpFile(n)
    \/ Start

Spec == Init /\ [][Next]_vars

-----------------------------------------------------------------------------
\* No two handlers ever write through the same temporary file, and File::create
\* never truncates a file that is there, be it in use or left over, although the
\* counter restarts from 0 with the process (prepare_file_write, FileSystem::new).
TmpExclusive ==
    \A w \in Writer :
        /\ pc[w] = "create" => tmp[name[w]] = Absent
        /\ \A x \in Writer :
             pc[w] \in InFlight /\ pc[x] \in InFlight /\ name[w] = name[x] => w = x

\* While the process serves, a temporary file belongs to a write in flight: one
\* that was renamed, that failed or that was dropped at any of its awaits leaves
\* none, unless remove_file itself failed or the drop came while File::create
\* was running (FileWriter::done, Drop).
NoTmpLeaked ==
    up => \A n \in Name \ orphan : tmp[n] # Absent =>
            \E w \in Writer : pc[w] \in InFlight /\ name[w] = n

\* Abstract view: the payload of a whole file; a torn file is neither a payload
\* nor Absent, so the abstract specification never allows it to be visible.
Whole(c) ==
    IF c = Absent THEN Absent
    ELSE IF c.len = Size THEN c.val ELSE [torn |-> c]

Atomic == INSTANCE AtomicFile
    WITH file  <- [d \in Dest |-> Whole(dest[d])],
         phase <- [w \in Writer |-> IF pc[w] \in InFlight \cup {"late"} THEN "pending"
                                    ELSE pc[w]]

\* Writing through a temporary file implements an atomic write: readers of a
\* destination only ever see whole payloads, Ok means the rename happened and
\* Err means it did not, through cancellations, crashes and restarts.
WritesAreAtomic == Atomic!Spec
=============================================================================

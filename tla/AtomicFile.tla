----------------------------- MODULE AtomicFile -----------------------------
(***************************************************************************)
(* What the file writer of crates/s3s-fs/src/fs.rs promises in its comment *)
(* "Write to the filesystem atomically": a write is one step that replaces *)
(* the whole destination, or it is no step at all.  A caller that is told  *)
(* Ok has had its step, a caller that is told Err has not, and a caller    *)
(* that goes away while the write is in flight may have had it or not.     *)
(***************************************************************************)

CONSTANTS Writer,   \* the request handlers that write files
          Dest,     \* the destination paths
          Value,    \* the payloads
          Absent    \* no file at that path

VARIABLES file,     \* the payload at every destination, or Absent
          phase,    \* what every writer has been told so far
          job       \* the destination and payload of its current write

avars == <<file, phase, job>>

Init ==
    /\ file = [d \in Dest |-> Absent]
    /\ phase = [w \in Writer |-> "idle"]
    /\ job \in [Writer -> Dest \X Value]

\* A handler asks for the payload v to be written to d.
Begin(w, d, v) ==
    /\ phase[w] = "idle"
    /\ phase' = [phase EXCEPT ![w] = "pending"]
    /\ job' = [job EXCEPT ![w] = <<d, v>>]
    /\ UNCHANGED file

Publish(w) == file' = [file EXCEPT ![job[w][1]] = job[w][2]]

\* The write takes effect, whole, and the handler is told Ok.
Commit(w) ==
    /\ phase[w] = "pending"
    /\ Publish(w)
    /\ phase' = [phase EXCEPT ![w] = "ok"]
    /\ UNCHANGED job

\* The write has no effect and the handler is told Err.
Reject(w) ==
    /\ phase[w] = "pending"
    /\ phase' = [phase EXCEPT ![w] = "err"]
    /\ UNCHANGED <<file, job>>

\* The handler goes on after its answer.
Return(w) ==
    /\ phase[w] \in {"ok", "err"}
    /\ phase' = [phase EXCEPT ![w] = "idle"]
    /\ UNCHANGED <<file, job>>

\* The handler is dropped with its write in flight: all of it or nothing.
Abandon(w) ==
    /\ phase[w] = "pending"
    /\ phase' = [phase EXCEPT ![w] = "idle"]
    /\ Publish(w) \/ UNCHANGED file
    /\ UNCHANGED job

\* The process dies; what was on the disk stays.
Crash ==
    /\ phase' = [w \in Writer |-> "idle"]
    /\ UNCHANGED <<file, job>>

Next ==
    \/ \E w \in Writer :
        \/ \E d \in Dest, v \in Value : Begin(w, d, v)
        \/ Commit(w) \/ Reject(w) \/ Return(w) \/ Abandon(w)
    \/ Crash

Spec == Init /\ [][Next]_avars
=============================================================================

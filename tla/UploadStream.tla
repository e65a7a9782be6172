---------------------------- MODULE UploadStream ----------------------------
(***************************************************************************)
(* UploadStream of crates/s3s/src/stream/upload_stream.rs: forwards the    *)
(* body of a single-chunk SigV4 upload while hashing it, holds it to its   *)
(* declared length and never forwards its last byte before the SHA-256 of  *)
(* the whole body has been compared with the signed one.                   *)
(*                                                                         *)
(* One action per answer of the inner stream inside poll_next; an answer   *)
(* that makes poll_next go round its loop again (an empty frame) or return *)
(* Pending changes nothing.  The digest is collision free: the expected    *)
(* digest is identified with the body it was computed from.                *)
(***************************************************************************)
EXTENDS Integers, Sequences

CONSTANTS Byte,      \* values of a byte
          Signed,    \* bodies whose SHA-256 requests are signed with
          Length,    \* declared lengths, which need not be those of the bodies
          MaxFrame   \* bound: bytes of a frame

ASSUME UploadStreamAssumption ==
    /\ Signed \subseteq Seq(Byte)
    /\ Length \subseteq Nat
    /\ MaxFrame \in Nat

\* The frames of the inner stream.
Frame == UNION {[1..n -> Byte] : n \in 0..MaxFrame}

VARIABLES length,            \* the declared length
          expected,          \* the body with digest expected_sha256
          state,             \* State
          remaining_length,
          hasher,            \* the bytes hashed so far
          taken,             \* hasher.take() has happened
          out,               \* the bytes forwarded
          answer,            \* what the last poll answered
          arrived            \* history: all bytes the inner stream has delivered

args == <<length, expected>>
vars == <<args, state, remaining_length, hasher, taken, out, answer, arrived>>

State  == {"Reading", "AwaitingEof", "Finished", "Failed"}
Errors == {"Underlying", "Sha256Mismatch", "LengthMismatch", "Incomplete"}

TypeOK ==
    /\ length \in Length
    /\ expected \in Signed
    /\ state \in State
    /\ remaining_length \in 0..length
    /\ hasher \in Seq(Byte)
    /\ taken \in BOOLEAN
    /\ out \in Seq(Byte)
    /\ answer \in Errors \cup {"pending", "data", "none"}
    /\ arrived \in Seq(Byte)

Init ==
    /\ length \in Length
    /\ expected \in Signed
    /\ state = "Reading"
    /\ remaining_length = length
    /\ hasher = <<>>
    /\ taken = FALSE
    /\ out = <<>>
    /\ answer = "pending"
    /\ arrived = <<>>

Error(e) ==
    /\ state' = "Failed"
    /\ answer' = e

\* finalize_hash on what has been hashed: a hasher that is gone has been checked.
HashOk(hashed) == taken \/ hashed = expected

-----------------------------------------------------------------------------
\* An empty body: nothing to wait for before the digest can be compared.
FinalizeEmpty ==
    /\ state = "Reading" /\ remaining_length = 0
    /\ taken' = TRUE
    /\ IF HashOk(hasher) THEN state' = "AwaitingEof" /\ UNCHANGED answer
                         ELSE Error("Sha256Mismatch")
    /\ UNCHANGED <<args, remaining_length, hasher, out, arrived>>

\* A frame that leaves bytes to come is forwarded at once.
ForwardFrame(f) ==
    /\ state = "Reading"
    /\ Len(f) > 0 /\ Len(f) < remaining_length
    /\ hasher' = hasher \o f
    /\ remaining_length' = remaining_length - Len(f)
    /\ out' = out \o f
    /\ arrived' = arrived \o f
    /\ answer' = "data"
    /\ UNCHANGED <<args, state, taken>>

\* Mutant: the last frame is forwarded and the digest left to the next poll.
ForwardLastUnverified(f) ==
    /\ state = "Reading"
    /\ Len(f) > 0 /\ Len(f) = remaining_length
    /\ hasher' = hasher \o f
    /\ remaining_length' = 0
    /\ arrived' = arrived \o f
    /\ out' = out \o f
    /\ answer' = "data"
    /\ UNCHANGED <<args, state, taken>>

\* The frame that completes the declared length is forwarded only if the digest
\* of everything is the expected one.
ForwardLastFrame(f) ==
    /\ state = "Reading"
    /\ Len(f) > 0 /\ Len(f) = remaining_length
    /\ hasher' = hasher \o f
    /\ remaining_length' = 0
    /\ arrived' = arrived \o f
    /\ taken' = TRUE
    /\ IF HashOk(hasher \o f)
       THEN state' = "AwaitingEof" /\ answer' = "data" /\ out' = out \o f
       ELSE Error("Sha256Mismatch") /\ UNCHANGED out
    /\ UNCHANGED args

\* A frame longer than what is left is not forwarded, not even in part.
Overrun(f) ==
    /\ state = "Reading"
    /\ remaining_length > 0 /\ Len(f) > remaining_length
    /\ arrived' = arrived \o f
    /\ Error("LengthMismatch")
    /\ UNCHANGED <<args, remaining_length, hasher, taken, out>>

\* All declared bytes were there and the digest matched: only the end may follow.
ExtraFrame(f) ==
    /\ state = "AwaitingEof" /\ Len(f) > 0
    /\ arrived' = arrived \o f
    /\ Error("LengthMismatch")
    /\ UNCHANGED <<args, remaining_length, hasher, taken, out>>

InnerError ==
    /\ \/ state = "Reading" /\ remaining_length > 0
       \/ state = "AwaitingEof"
    /\ Error("Underlying")
    /\ UNCHANGED <<args, remaining_length, hasher, taken, out, arrived>>

InnerEof ==
    /\ \/ state = "Reading" /\ remaining_length > 0 /\ Error("Incomplete")
       \/ state = "AwaitingEof" /\ state' = "Finished" /\ answer' = "none"
    /\ UNCHANGED <<args, remaining_length, hasher, taken, out, arrived>>

\* A poll of a stream that has ended one way or the other.
PollTerminal ==
    /\ state \in {"Finished", "Failed"}
    /\ answer' = "none"
    /\ UNCHANGED <<args, state, remaining_length, hasher, taken, out, arrived>>

Next ==
    \/ FinalizeEmpty
    \/ \E f \in Frame : ForwardFrame(f) \/ ForwardLastFrame(f) \/ Overrun(f) \/ ExtraFrame(f)
    \/ InnerError \/ InnerEof \/ PollTerminal

Spec == Init /\ [][Next]_vars

-----------------------------------------------------------------------------
\* Whoever has received as many bytes as were declared has received the body
\* that was signed: the digest is never found wrong after the last byte is out
\* (poll_next, finalize_if_complete).
NoWholeBodyUnverified == Len(out) = length /\ length > 0 => out = expected

\* The stream ends without an error only if the inner stream delivered exactly
\* the signed body, with nothing after it, and all of it was forwarded.
FinishedIsExact == state = "Finished" => arrived = expected /\ out = expected

\* After an error or the end nothing is forwarded any more and the outcome
\* stays: a failed stream does not end well (the terminal states of poll_next).
TerminalIsFinal ==
    [][(state = "Finished" \/ state = "Failed") => (state' = state /\ out' = out)]_vars
=============================================================================

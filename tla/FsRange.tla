------------------------------ MODULE FsRange -------------------------------
(***************************************************************************)
(* get_object of s3s-fs with a Range header: Range::check of               *)
(* crates/s3s/src/dto/range.rs against the length of the opened file, the  *)
(* seek, and the body that bytes_stream cuts to the declared length, while *)
(* a copy_object may overwrite the file in place.                          *)
(*                                                                         *)
(* A file is the sequence of its bytes' versions: 0 before the copy, 1     *)
(* after it.                                                               *)
(***************************************************************************)
EXTENDS Integers, Sequences, FiniteSets

CONSTANTS None,
          Lengths,       \* lengths of the object
          CopyLengths,   \* lengths a copy may leave behind; empty: there is no copy
          Ranges,        \* [kind |-> "int", first, last], [kind |-> "suffix", length], None
          Capacity,      \* bytes the ReaderStream reads at a time (4096)
          I64Max         \* i64::MAX

VARIABLES file,
          copy_len,      \* the length the copy writes, None before it starts
          range, pc,
          file_len,      \* as read from the metadata
          content_length, content_range,
          pos,           \* of the file handle
          remaining,     \* of bytes_stream
          body           \* the bytes sent: [at, version]

copying == <<file, copy_len>>
reply == <<file_len, content_length, content_range>>
vars == <<copying, range, pc, reply, pos, remaining, body>>

Final == {"done", "InvalidRange", "InternalError", "panic"}
MaxOf(a, b) == IF a < b THEN b ELSE a
MinOf(a, b) == IF a < b THEN a ELSE b

\* What the code's types and Range::parse give: lengths are numbers, and an int-range does not
\* end before it begins.
RangesOK ==
    /\ None \notin Nat /\ None \notin Nat \X Nat
    /\ Lengths \subseteq Nat /\ CopyLengths \subseteq Nat /\ Capacity \in Nat /\ I64Max \in Nat
    /\ \A r \in Ranges \ {None} :
         \/ /\ r.kind = "int" /\ r.first \in Nat /\ r.last \in Nat \cup {None}
            /\ r.last # None => r.first <= r.last
         \/ r.kind = "suffix" /\ r.length \in Nat

TypeOK ==
    /\ pc \in {"open", "seek", "stream"} \cup Final
    /\ pos \in Nat /\ remaining \in 0..content_length
    /\ pc \in {"stream", "done"} => Len(body) + remaining = content_length

Init ==
    /\ \E n \in Lengths : file = [i \in 1..n |-> 0]
    /\ copy_len = None
    /\ range \in Ranges
    /\ pc = "open" /\ file_len = 0 /\ content_length = 0 /\ content_range = None
    /\ pos = 0 /\ remaining = 0 /\ body = <<>>

-----------------------------------------------------------------------------
\* copy_object onto this key: fs::copy truncates the file and writes it again.
Truncate ==
    /\ copy_len = None
    /\ copy_len' \in CopyLengths
    /\ file' = <<>>
    /\ UNCHANGED <<range, pc, reply, pos, remaining, body>>

Rewrite ==
    /\ copy_len # None /\ Len(file) < copy_len
    /\ file' = Append(file, 1)
    /\ UNCHANGED <<copy_len, range, pc, reply, pos, remaining, body>>

-----------------------------------------------------------------------------

\* Range::check: the half-open range of positions, or None for RangeNotSatisfiable.
check(r, n) ==
    IF r.kind = "int"
    THEN IF r.first >= n THEN None
         ELSE <<r.first, IF r.last = None THEN n ELSE MinOf(r.last, n - 1) + 1>>
    ELSE IF r.length = 0 THEN None ELSE <<n - MinOf(r.length, n), n>>

\* open, metadata, check.  The last position of an empty range is computed as end - 1, which
\* panics or wraps around as the build has it.
Open ==
    /\ pc = "open"
    /\ file_len' = Len(file)
    /\ LET r == IF range = None THEN <<0, Len(file)>> ELSE check(range, Len(file)) IN
       IF r = None THEN pc' = "InvalidRange" /\ UNCHANGED <<content_length, content_range, remaining>>
       ELSE /\ content_length' = r[2] - r[1] /\ remaining' = r[2] - r[1]
            /\ \/ range = None /\ content_range' = None /\ pc' = "seek"
               \/ range # None /\ r[2] > 0 /\ content_range' = <<r[1], r[2] - 1>> /\ pc' = "seek"
               \/ range # None /\ r[2] = 0 /\ content_range' = <<0, 2 * I64Max + 1>> /\ pc' \in {"seek", "panic"}
    /\ UNCHANGED <<copying, range, pos, body>>

\* Mutant: the handle is left behind the first position.
SeekPast ==
    /\ pc = "seek"
    /\ \/ range = None /\ pos' = 0 /\ pc' = "stream"
       \/ range # None /\ range.kind = "int" /\ pos' = range.first + 1 /\ pc' = "stream"
       \/ /\ range # None /\ range.kind = "suffix"
          /\ pos' = MaxOf(0, Len(file) - range.length)
          /\ pc' = IF range.length > Len(file) THEN "InternalError" ELSE "stream"
    /\ UNCHANGED <<copying, range, reply, remaining, body>>

\* seek: a suffix is taken from the end the file has now.  A suffix that does not fit an i64
\* panics in numeric_cast, one that is longer than the file is an error of seek.
Seek ==
    /\ pc = "seek"
    /\ \/ range = None /\ pos' = 0 /\ pc' = "stream"
       \/ range # None /\ range.kind = "int" /\ pos' = range.first /\ pc' = "stream"
       \/ /\ range # None /\ range.kind = "suffix"
          /\ pos' = MaxOf(0, Len(file) - range.length)
          /\ pc' = IF range.length > I64Max THEN "panic"
                   ELSE IF range.length > Len(file) THEN "InternalError" ELSE "stream"
    /\ UNCHANGED <<copying, range, reply, remaining, body>>

\* bytes_stream: what is read is cut to what remains of the declared length.
Read ==
    /\ pc = "stream" /\ pos < Len(file)
    /\ \E n \in 1..MinOf(Capacity, Len(file) - pos) :
        LET m == MinOf(n, remaining) IN
        /\ body' = body \o [i \in 1..m |-> [at |-> pos + i - 1, version |-> file[pos + i]]]
        /\ remaining' = remaining - m
        /\ pos' = pos + n
    /\ UNCHANGED <<copying, range, pc, reply>>

\* The file ends.
End ==
    /\ pc = "stream" /\ pos >= Len(file)
    /\ pc' = "done"
    /\ UNCHANGED <<copying, range, reply, pos, remaining, body>>

Over == pc \in Final /\ UNCHANGED vars

GetObject == Open \/ Seek \/ Read \/ End
Next == Truncate \/ Rewrite \/ GetObject \/ Over

Spec == Init /\ [][Next]_vars

-----------------------------------------------------------------------------
\* The positions a range asks for in a representation of length n (RFC 9110, 14.1.2).
Wanted(n) ==
    {p \in 0..n - 1 :
        CASE range = None -> TRUE
          [] range # None /\ range.kind = "int" -> range.first <= p /\ (range.last = None \/ p <= range.last)
          [] OTHER -> p >= n - range.length}

\* The headers promise exactly the range of the file as it was opened.  The Content-Range of
\* an empty file is left out: it is sent, with a last position that wrapped around, if the file
\* grows before the seek.
HeadersAreTheRange ==
    pc \in {"stream", "done"} =>
        /\ content_length = Cardinality(Wanted(file_len))
        /\ content_range # None /\ file_len > 0 => Wanted(file_len) = content_range[1]..content_range[2]

\* What is refused: with InvalidRange only a range without a byte in it; with an internal error
\* or a panic only a suffix and, without a copy, the suffixes longer than the file, each of them,
\* though check has accepted them (the seek in get_object goes before the start of the file).
RefusalsAreDue ==
    LET suffix == range # None /\ range.kind = "suffix" IN
    /\ pc = "InvalidRange" => Wanted(file_len) = {}
    /\ pc \in {"InternalError", "panic"} => suffix
    /\ suffix /\ copy_len = None =>
        /\ pc = "InternalError" => range.length > file_len
        /\ pc = "panic" => file_len = 0 \/ range.length > I64Max
        /\ pc \in {"stream", "done"} => range.length <= file_len

\* Without a copy the body is the promised range, byte for byte; with one it is never longer
\* than promised, and what it has is in one piece.
BodyIsTheRange ==
    /\ Len(body) <= content_length
    /\ \A i \in 1..Len(body) - 1 : body[i + 1].at = body[i].at + 1
    /\ pc = "done" /\ copy_len = None => {body[i].at : i \in DOMAIN body} = Wanted(file_len)

\* Headers and body of get_object are the range that was asked for, and what is refused is
\* refused for a reason.
ReplyIsTheRange == HeadersAreTheRange /\ RefusalsAreDue /\ BodyIsTheRange
=============================================================================

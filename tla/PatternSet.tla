----------------------------- MODULE PatternSet -----------------------------
(***************************************************************************)
(* PatternSet of crates/s3s-policy/src/pattern.rs: the wildcards of a      *)
(* bucket policy, matched without recursion by a scan that goes back to    *)
(* the last star.  Indices count from zero, as in the code.                *)
(*                                                                         *)
(* A string is a sequence of characters, a character a sequence of bytes;  *)
(* the code works on the bytes.                                            *)
(***************************************************************************)
EXTENDS Integers, Sequences, SequencesExt

CONSTANTS Star, Question,     \* the bytes "*" and "?"
          PatternLists,       \* what PatternSet::new may be given: lists of strings
          Inputs,             \* what is_match may be given: strings
          Never               \* usize::MAX - 1, more than any index

VARIABLES patterns, text,     \* as strings
          k,                  \* the pattern that is tried
          p_idx, s_idx, p_back, s_back,
          result              \* "none", "invalid", or what is_match returns

scan == <<p_idx, s_idx, p_back, s_back>>
vars == <<patterns, text, k, scan, result>>

as_bytes(s) == FlattenSeq(s)
pattern == as_bytes(patterns[k])
input == as_bytes(text)

\* Strings are bytes, and their lengths are below usize::MAX - 1 (below isize::MAX, in fact).
PatternsOK ==
    /\ Never \in Nat
    /\ \A ps \in PatternLists :
        /\ ps \in Seq(Seq(Seq(0..255)))
        /\ \A i \in DOMAIN ps : Len(as_bytes(ps[i])) < Never
    /\ \A s \in Inputs : s \in Seq(Seq(0..255)) /\ Len(as_bytes(s)) < Never

TypeOK ==
    /\ result = "none" =>
        /\ k \in DOMAIN patterns
        /\ p_idx \in 0..Len(pattern) /\ s_idx \in 0..Len(input)
        /\ p_back \in 1..Len(pattern) \cup {Never} /\ s_back \in 0..Len(input) \cup {Never}
        /\ (p_back = Never) = (s_back = Never)
        /\ p_back # Never => p_back <= p_idx /\ s_back <= s_idx
    /\ result \in {"none", "invalid", "match", "no match"}

Start == p_idx = 0 /\ s_idx = 0 /\ p_back = Never /\ s_back = Never

\* PatternSet::new refuses an empty pattern.
Init ==
    /\ patterns \in PatternLists /\ text \in Inputs
    /\ k = 1 /\ Start
    /\ result = IF <<>> \in ToSet(patterns) THEN "invalid" ELSE IF patterns = <<>> THEN "no match" ELSE "none"

-----------------------------------------------------------------------------
\* match_pattern
AtStar == p_idx < Len(pattern) /\ pattern[p_idx + 1] = Star
AtMatch ==
    /\ p_idx < Len(pattern) /\ s_idx < Len(input)
    /\ pattern[p_idx + 1] \in {input[s_idx + 1], Question}
AtEnd == p_idx = Len(pattern) /\ s_idx = Len(input)

\* A star matches nothing at first.
TakeStar ==
    /\ result = "none" /\ AtStar
    /\ p_idx' = p_idx + 1 /\ p_back' = p_idx + 1 /\ s_back' = s_idx
    /\ UNCHANGED <<patterns, text, k, s_idx, result>>

TakeByte ==
    /\ result = "none" /\ ~AtStar /\ AtMatch
    /\ p_idx' = p_idx + 1 /\ s_idx' = s_idx + 1
    /\ UNCHANGED <<patterns, text, k, p_back, s_back, result>>

Stuck == result = "none" /\ ~AtStar /\ ~AtMatch /\ ~AtEnd /\ p_back # Len(pattern)

\* The last star matches one byte more.
Backtrack ==
    /\ Stuck /\ s_back # Never /\ s_back + 1 < Len(input)
    /\ s_back' = s_back + 1
    /\ p_idx' = p_back /\ s_idx' = s_back + 1
    /\ UNCHANGED <<patterns, text, k, p_back, result>>

\* is_match: the first pattern that matches, or none.
Matched ==
    /\ result = "none" /\ ~AtStar /\ ~AtMatch
    /\ AtEnd \/ p_back = Len(pattern)
    /\ result' = "match"
    /\ UNCHANGED <<patterns, text, k, scan>>

\* Mutant: the next pattern is matched from where the last one stopped.
UnmatchedGoesOn ==
    /\ Stuck /\ (s_back = Never \/ s_back + 1 >= Len(input))
    /\ IF k = Len(patterns) THEN result' = "no match" /\ UNCHANGED k
       ELSE k' = k + 1 /\ UNCHANGED result
    /\ UNCHANGED <<patterns, text, scan>>

Unmatched ==
    /\ Stuck /\ (s_back = Never \/ s_back + 1 >= Len(input))
    /\ IF k = Len(patterns) THEN result' = "no match" /\ UNCHANGED <<k, scan>>
       ELSE /\ k' = k + 1
            /\ p_idx' = 0 /\ s_idx' = 0 /\ p_back' = Never /\ s_back' = Never
            /\ UNCHANGED result
    /\ UNCHANGED <<patterns, text>>

Over == result # "none" /\ UNCHANGED vars

Next == TakeStar \/ TakeByte \/ Backtrack \/ Matched \/ Unmatched \/ Over

Spec == Init /\ [][Next]_vars

-----------------------------------------------------------------------------
\* The meaning of a pattern: Rest(p, s)[a] is the places in s from which the end of s can be
\* reached with what follows the first a symbols of p.  A star stands for any sequence, a
\* question mark for any one symbol, anything else for itself.
Rest(p, s) ==
    LET rest[a \in 0..Len(p)] ==
            IF a = Len(p) THEN {Len(s)}
            ELSE IF p[a + 1] = Star THEN {j \in 0..Len(s) : \E h \in rest[a + 1] : j <= h}
            ELSE {j \in 0..Len(s) - 1 : p[a + 1] \in {s[j + 1], Question} /\ j + 1 \in rest[a + 1]}
    IN rest
Matches(p, s) == 0 \in Rest(p, s)[0]

\* The scan, which only ever goes back to the last star, gives up too early nowhere and finds
\* nothing that is not there.
ScanDecides ==
    result \in {"match", "no match"} =>
        (result = "match") = \E i \in DOMAIN patterns : Matches(as_bytes(patterns[i]), input)

=============================================================================

------------------------------ MODULE Rfc2047 -------------------------------
(***************************************************************************)
(* A header value on its way through crates/s3s-rfc2047/src/lib.rs: encode *)
(* splits it into encoded words, decode puts it together again.            *)
(*                                                                         *)
(* A text is its length in bytes, the positions between its characters     *)
(* (is_char_boundary), whether it is safe as it is, the piece of it that   *)
(* trim leaves and what decode would take that piece for.  A piece of it   *)
(* is <<i, j>>, the bytes from i up to j; the word of a piece is the       *)
(* prefix, its Base64 and the suffix.                                      *)
(***************************************************************************)
EXTENDS Integers, Sequences, SequencesExt

CONSTANTS Texts,         \* [length, boundaries, safe, core, shape], shape "word" or "broken" if the
                         \* core has the form =?...?= and decodes to something, or to an error
          MAX_INPUT_LEN, \* 1 MB
          MAX_ENCODED_WORD_LEN, \* 75
          Overhead       \* lengths of PREFIX and SUFFIX together, 12

VARIABLES text,
          pc,            \* "encode", "split", "sent", "decode", "decoded", "reinterpreted", or an error
          i,             \* of the split
          words,         \* pieces, in the order of their words
          encoded,       \* length of what encode returns
          decoded        \* pieces decoded so far

vars == <<text, pc, i, words, encoded, decoded>>

max_input_bytes == ((MAX_ENCODED_WORD_LEN - Overhead) \div 4) * 3
DivCeil(a, b) == (a + b - 1) \div b

\* Three bytes are four characters of Base64, padded at the end.
WordLen(w) == 4 * DivCeil(w[2] - w[1], 3) + Overhead

\* Characters are at most four bytes long, and one of them fits into a word.
TextsOK ==
    /\ MAX_INPUT_LEN \in Nat /\ MAX_ENCODED_WORD_LEN \in Nat /\ Overhead \in Nat
    /\ max_input_bytes >= 4
    /\ \A t \in Texts :
        /\ t.length \in Nat /\ {0, t.length} \subseteq t.boundaries /\ t.boundaries \subseteq 0..t.length
        /\ \A e \in t.boundaries : e < t.length => \E f \in t.boundaries : e < f /\ f <= e + 4
        /\ t.core \in Nat \X Nat /\ t.core[1] <= t.core[2] /\ t.core[2] <= t.length
        /\ t.shape \in {"plain", "word", "broken"}
        /\ t.length = 0 => t.safe

Errors == {"EncodeTooLarge", "InvalidUtf8Boundary", "DecodeTooLarge", "Malformed", "InvalidUtf8"}

TypeOK ==
    /\ pc \in {"encode", "split", "sent", "decode", "decoded", "reinterpreted"} \cup Errors
    /\ i \in text.boundaries /\ encoded \in Nat
    /\ \A k \in DOMAIN words : words[k][1] < words[k][2] /\ words[k][2] <= text.length

Init ==
    /\ text \in Texts
    /\ pc = "encode" /\ i = 0 /\ words = <<>> /\ encoded = 0 /\ decoded = <<>>

-----------------------------------------------------------------------------
FitsOneWord == DivCeil(text.length * 4, 3) + Overhead <= MAX_ENCODED_WORD_LEN

\* encode: a long text is refused, a safe one is sent as it is, a short one as one word.
Encode ==
    /\ pc = "encode"
    /\ \/ /\ text.length > MAX_INPUT_LEN
          /\ pc' = "EncodeTooLarge" /\ UNCHANGED <<words, encoded>>
       \/ /\ text.length <= MAX_INPUT_LEN /\ text.safe
          /\ pc' = "sent" /\ encoded' = text.length /\ UNCHANGED words
       \/ /\ text.length <= MAX_INPUT_LEN /\ ~text.safe /\ FitsOneWord
          /\ pc' = "sent" /\ words' = <<<<0, text.length>>>> /\ encoded' = WordLen(<<0, text.length>>)
       \/ /\ text.length <= MAX_INPUT_LEN /\ ~text.safe /\ ~FitsOneWord
          /\ pc' = "split" /\ UNCHANGED <<words, encoded>>
    /\ UNCHANGED <<text, i, decoded>>

Limit == IF i + max_input_bytes < text.length THEN i + max_input_bytes ELSE text.length

\* The end of the next word: back to a boundary.
WordEnd ==
    LET es == {e \in text.boundaries : i <= e /\ e <= Limit}
    IN CHOOSE e \in es : \A f \in es : f <= e

\* The length with the next word, and with the space in front of it.
Longer == encoded + WordLen(<<i, WordEnd>>) + (IF words = <<>> THEN 0 ELSE 1)

\* Mutant: the loop goes on behind the bytes that would have fitted.
SplitSkips ==
    /\ pc = "split" /\ i < text.length /\ WordEnd > i
    /\ words' = Append(words, <<i, WordEnd>>) /\ encoded' = Longer
    /\ i' = IF Limit \in text.boundaries THEN Limit ELSE text.length
    /\ UNCHANGED <<text, pc, decoded>>

\* One word of several, which has to make progress.
Split ==
    /\ pc = "split" /\ i < text.length
    /\ IF WordEnd > i
       THEN words' = Append(words, <<i, WordEnd>>) /\ encoded' = Longer /\ i' = WordEnd /\ UNCHANGED pc
       ELSE pc' = "InvalidUtf8Boundary" /\ UNCHANGED <<i, words, encoded>>
    /\ UNCHANGED <<text, decoded>>

SplitEnds ==
    /\ pc = "split" /\ i = text.length
    /\ pc' = "sent"
    /\ UNCHANGED <<text, i, words, encoded, decoded>>

-----------------------------------------------------------------------------
\* Encoded words have the form, and so may a safe text that was sent as it is.
LooksEncoded == words # <<>> \/ text.shape # "plain"

\* decode: what is long is refused; what does not look encoded is taken as it is, trimmed; one
\* word or several are decoded one by one, each of them UTF-8 of its own.  A safe text that
\* looks encoded is decoded, too, to something else or to an error.
Decode ==
    /\ pc = "sent"
    /\ \/ /\ encoded > MAX_INPUT_LEN
          /\ pc' = "DecodeTooLarge" /\ UNCHANGED decoded
       \/ /\ encoded <= MAX_INPUT_LEN /\ ~LooksEncoded
          /\ pc' = "decoded" /\ decoded' = <<text.core>>
       \/ /\ encoded <= MAX_INPUT_LEN /\ words # <<>>
          /\ pc' = "decode" /\ UNCHANGED decoded
       \/ /\ encoded <= MAX_INPUT_LEN /\ LooksEncoded /\ words = <<>>
          /\ pc' = IF text.shape = "word" THEN "reinterpreted" ELSE "Malformed"
          /\ UNCHANGED decoded
    /\ UNCHANGED <<text, i, words, encoded>>

decode_single_word ==
    /\ pc = "decode" /\ Len(decoded) < Len(words)
    /\ LET w == words[Len(decoded) + 1] IN
       IF {w[1], w[2]} \subseteq text.boundaries
       THEN decoded' = Append(decoded, w) /\ UNCHANGED pc
       ELSE pc' = "InvalidUtf8" /\ UNCHANGED decoded
    /\ UNCHANGED <<text, i, words, encoded>>

DecodeEnds ==
    /\ pc = "decode" /\ Len(decoded) = Len(words)
    /\ pc' = "decoded"
    /\ UNCHANGED <<text, i, words, encoded, decoded>>

Over == pc \in {"decoded", "reinterpreted"} \cup Errors /\ UNCHANGED vars

Next == Encode \/ Split \/ SplitEnds \/ Decode \/ decode_single_word \/ DecodeEnds \/ Over

Spec == Init /\ [][Next]_vars

-----------------------------------------------------------------------------
\* What decode returns of a text: all of it, or what trim leaves of a safe one.
Kept == IF text.safe THEN text.core ELSE <<0, text.length>>

\* decode gets back the text that encode was given, wherever its characters end: a text that
\* encode turns into words comes back exactly, a safe one without the spaces around it.  The
\* words never fail to decode.  encode refuses a text, and decode the words of one, only for
\* exceeding MAX_INPUT_LEN; decode takes for something else or refuses only a text that is safe
\* and looks like an encoded word, which encode sends as it is.
RoundTrip ==
    /\ pc \notin {"InvalidUtf8Boundary", "InvalidUtf8"}
    /\ pc = "EncodeTooLarge" => text.length > MAX_INPUT_LEN
    /\ pc = "DecodeTooLarge" => ~text.safe /\ encoded > MAX_INPUT_LEN
    /\ pc \in {"reinterpreted", "Malformed"} => text.safe /\ text.shape # "plain"
    /\ pc = "decoded" =>
        /\ decoded[1][1] = Kept[1] /\ Last(decoded)[2] = Kept[2]
        /\ \A k \in 1..Len(decoded) - 1 : decoded[k][2] = decoded[k + 1][1]

\* The words of a text that is split are within the limit of RFC 2047.
SplitWordsFit ==
    Len(words) > 1 => \A k \in DOMAIN words : WordLen(words[k]) <= MAX_ENCODED_WORD_LEN

\* A text that is split is split into words that fit and that decode to it.
WordsAreTheText == RoundTrip /\ SplitWordsFit
=============================================================================

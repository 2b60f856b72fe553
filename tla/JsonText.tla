------------------------------ MODULE JsonText ------------------------------
(***************************************************************************)
(* The functions of parson.c that look at the bytes of a JSON string:      *)
(* skip_quotes, parse_utf16, process_string and get_quoted_string on the   *)
(* way in, json_serialize_string on the way out, and is_valid_utf8, which  *)
(* every string a caller sets must pass.  A string is a sequence of bytes, *)
(* 0..255; TLC types it piece by piece.                                    *)
(***************************************************************************)
EXTENDS Integers, Sequences, SequencesExt

CONSTANTS Chunks,    \* the pieces a text is made of: sequences of bytes
          MaxChunks  \* bound: pieces in a text

\* What the constants must satisfy.
JsonTextAssumption == Chunks \subseteq Seq(0..255) /\ MaxChunks \in Nat

VARIABLES text, typed

Init == text = << >> /\ typed = 0
Type(c) == typed < MaxChunks /\ text' = text \o c /\ typed' = typed + 1
Next == \E c \in Chunks : Type(c)
Spec == Init /\ [][Next]_<<text, typed>>

QUOTE == 34
SLASH == 47
BACKSLASH == 92

\* s[i] of a C string: behind the last byte is the terminating NUL.
At(s, i) == IF i <= Len(s) THEN s[i] ELSE 0

-----------------------------------------------------------------------------
hex_char_to_int(c) ==
    CASE c \in 48..57  -> c - 48
      [] c \in 97..102 -> c - 87
      [] c \in 65..70  -> c - 55
      [] OTHER         -> -1

\* The code unit in s[i..i+3], -1 when one of the four is not a digit.
parse_utf16_hex(s, i) ==
    LET x(k) == hex_char_to_int(At(s, i + k))
    IN  IF \E k \in 0..3 : x(k) = -1 THEN -1
        ELSE x(0) * 4096 + x(1) * 256 + x(2) * 16 + x(3)

\* The UTF-8 bytes parse_utf16 writes for a code point.
Encoded(cp) ==
    CASE cp < 128   -> <<cp>>
      [] cp \in 128..2047 -> <<192 + (cp \div 64), 128 + (cp % 64)>>
      [] cp \in 2048..65535 -> <<224 + (cp \div 4096), 128 + ((cp \div 64) % 64), 128 + (cp % 64)>>
      [] OTHER      -> <<240 + (cp \div 262144), 128 + ((cp \div 4096) % 64),
                         128 + ((cp \div 64) % 64), 128 + (cp % 64)>>

Failed(i) == [ok |-> FALSE, out |-> << >>, next |-> i]

\* Mutant: a trail surrogate alone is encoded like any other code unit.
parse_utf16_LoneTrail(s, i) ==
    LET cp == parse_utf16_hex(s, i + 1)
        trail == parse_utf16_hex(s, i + 7)
    IN  CASE cp = -1 -> Failed(i)
          [] cp \in 0..55295 \cup 56320..65535 -> [ok |-> TRUE, out |-> Encoded(cp), next |-> i + 5]
          [] cp \in 55296..56319 ->
               IF At(s, i + 5) = BACKSLASH /\ At(s, i + 6) = 117 /\ trail \in 56320..57343
               THEN [ok   |-> TRUE,
                     out  |-> Encoded((cp - 55296) * 1024 + (trail - 56320) + 65536),
                     next |-> i + 11]
               ELSE Failed(i)

\* s[i] is the u of an escape: a code unit, or a surrogate pair in two escapes.
parse_utf16(s, i) ==
    LET cp == parse_utf16_hex(s, i + 1)
        trail == parse_utf16_hex(s, i + 7)
    IN  CASE cp = -1 -> Failed(i)
          [] cp \in 0..55295 \cup 57344..65535 -> [ok |-> TRUE, out |-> Encoded(cp), next |-> i + 5]
          [] cp \in 55296..56319 ->
               IF At(s, i + 5) = BACKSLASH /\ At(s, i + 6) = 117 /\ trail \in 56320..57343
               THEN [ok   |-> TRUE,
                     out  |-> Encoded((cp - 55296) * 1024 + (trail - 56320) + 65536),
                     next |-> i + 11]
               ELSE Failed(i)
          [] cp \in 56320..57343 -> Failed(i)

\* The one-character escapes: " \ / b f n r t.
Escapes == [c \in {34, 92, 47, 98, 102, 110, 114, 116} |->
               CASE c = 98 -> 8 [] c = 102 -> 12 [] c = 110 -> 10 [] c = 114 -> 13
                 [] c = 116 -> 9 [] OTHER -> c]

\* One round of the loop of process_string at s[i].
ProcessChar(s, i) ==
    LET c == At(s, i + 1)
    IN  CASE s[i] = BACKSLASH /\ c \in DOMAIN Escapes ->
                [ok |-> TRUE, out |-> <<Escapes[c]>>, next |-> i + 2]
          [] s[i] = BACKSLASH /\ c = 117 -> parse_utf16(s, i + 1)
          [] s[i] = BACKSLASH /\ c \notin DOMAIN Escapes \cup {117} -> Failed(i)
          [] s[i] # BACKSLASH /\ s[i] < 32 -> Failed(i)
          [] OTHER -> [ok |-> TRUE, out |-> <<s[i]>>, next |-> i + 1]

\* The bytes written to output for the "len" bytes behind s[from - 1], also when
\* the string is refused on the way.
process_string(s, from, len) ==
    LET run[i \in Nat] ==
          IF At(s, i) = 0 \/ i - from >= len
          THEN [ok |-> TRUE, out |-> << >>]
          ELSE LET one == ProcessChar(s, i)
                   rest == run[one.next]
               IN  IF one.ok THEN [ok |-> rest.ok, out |-> one.out \o rest.out]
                             ELSE [ok |-> FALSE, out |-> << >>]
    IN  run[from]

\* The position behind the closing quote, 0 when there is none.
skip_quotes(s, i) ==
    LET skip[k \in Nat] ==
          CASE At(s, k) = QUOTE -> k + 1
            [] At(s, k) = 0 -> 0
            [] At(s, k) = BACKSLASH -> IF At(s, k + 1) = 0 THEN 0 ELSE skip[k + 2]
            [] OTHER -> skip[k + 1]
    IN  IF At(s, i) = QUOTE THEN skip[i + 1] ELSE 0

\* The string at s[i], and where the text goes on behind it.
get_quoted_string(s, i) ==
    LET end == skip_quotes(s, i)
    IN  IF end = 0 THEN [ok |-> FALSE, out |-> << >>, len |-> 0, next |-> end]
        ELSE process_string(s, i + 1, end - i - 2) @@ [len |-> end - i - 2, next |-> end]

-----------------------------------------------------------------------------
\* json_serialize_string, with parson_escape_slashes or without.
HexDigit(x) == IF x < 10 THEN 48 + x ELSE 87 + x

SerializedChar(c, escape_slashes) ==
    CASE c \in {34, 92} -> <<BACKSLASH, c>>
      [] c \in {8, 9, 10, 12, 13} -> <<BACKSLASH, CHOOSE e \in DOMAIN Escapes : Escapes[e] = c>>
      [] c \in (0..31) \ {8, 9, 10, 12, 13} ->
            <<BACKSLASH, 117, 48, 48, HexDigit(c \div 16), HexDigit(c % 16)>>
      [] c = SLASH /\ escape_slashes -> <<BACKSLASH, SLASH>>
      [] OTHER -> <<c>>

json_serialize_string(s, escape_slashes) ==
    <<QUOTE>> \o FlattenSeq([i \in DOMAIN s |-> SerializedChar(s[i], escape_slashes)]) \o <<QUOTE>>

-----------------------------------------------------------------------------
IS_CONT(b) == b \in 128..191

num_bytes_in_utf8_sequence(c) ==
    CASE c \in {192, 193} \/ c > 244 \/ IS_CONT(c) -> 0
      [] c \in 0..127   -> 1
      [] c \in 194..223 -> 2
      [] c \in 224..239 -> 3
      [] c \in 240..244 -> 4

\* The code point of the sequence of n bytes at s[i], -1 when a byte behind the
\* first is not a continuation.
CodePoint(s, i, n) ==
    LET b(k) == At(s, i + k) % 64
    IN  IF n = 0 \/ \E k \in 1..(n - 1) : ~ IS_CONT(At(s, i + k)) THEN -1
        ELSE <<s[i], (s[i] % 32) * 64 + b(1), (s[i] % 16) * 4096 + b(1) * 64 + b(2),
               (s[i] % 8) * 262144 + b(1) * 4096 + b(2) * 64 + b(3)>>[n]

\* Mutant: surrogate halves are not refused.
verify_utf8_sequence_Surrogates(s, i) ==
    LET n == num_bytes_in_utf8_sequence(s[i])
        cp == CodePoint(s, i, n)
    IN  /\ cp # -1
        /\ ~ (cp < 128 /\ n > 1) /\ ~ (cp < 2048 /\ n > 2) /\ ~ (cp < 65536 /\ n > 3)
        /\ cp <= 1114111

verify_utf8_sequence(s, i) ==
    LET n == num_bytes_in_utf8_sequence(s[i])
        cp == CodePoint(s, i, n)
    IN  /\ cp # -1
        /\ ~ (cp < 128 /\ n > 1) /\ ~ (cp < 2048 /\ n > 2) /\ ~ (cp < 65536 /\ n > 3)
        /\ cp <= 1114111
        /\ cp \notin 55296..57343

is_valid_utf8(s) ==
    LET valid[i \in Nat \ {0}] == \/ i > Len(s)
                            \/ /\ verify_utf8_sequence(s, i)
                               /\ valid[i + num_bytes_in_utf8_sequence(s[i])]
    IN  valid[1]

-----------------------------------------------------------------------------
\* The sequences of well-formed UTF-8, one row per range of the first byte.
Continuation == 128..191
WellFormedRows ==
    {<<0..127>>, <<194..223, Continuation>>,
     <<{224}, 160..191, Continuation>>, <<225..236, Continuation, Continuation>>,
     <<{237}, 128..159, Continuation>>, <<238..239, Continuation, Continuation>>,
     <<{240}, 144..191, Continuation, Continuation>>,
     <<241..243, Continuation, Continuation, Continuation>>,
     <<{244}, 128..143, Continuation, Continuation>>}

WellFormed(s) ==
    LET from[i \in Nat \ {0}] ==
          \/ i > Len(s)
          \/ \E row \in WellFormedRows :
                /\ i + Len(row) - 1 <= Len(s)
                /\ \A k \in DOMAIN row : s[i + k - 1] \in row[k]
                /\ from[i + Len(row)]
    IN  from[1]

\* is_valid_utf8 accepts exactly the well-formed strings: no overlong sequence,
\* no surrogate half, nothing above U+10FFFF, no sequence cut off by the end.
Utf8Exact == is_valid_utf8(text) <=> WellFormed(text)

\* The text between the quotes of a source text.
Source == <<QUOTE>> \o text \o <<QUOTE>>

\* process_string writes at most input_len bytes and the terminator into the
\* input_len + 1 it allocated, also on its way to refusing the string.
OutputFits == LET got == get_quoted_string(Source, 1) IN Len(got.out) <= got.len

\* A source text of well-formed UTF-8 never becomes a string that is not: the
\* escapes of a string cannot smuggle in half a surrogate pair.
EscapesStayWellFormed ==
    LET got == get_quoted_string(Source, 1)
    IN  WellFormed(text) /\ got.ok => WellFormed(got.out)

\* Every string, quotes, backslashes, control bytes and NULs included, is read
\* back from its serialization, and the reader stops right behind it.
RoundTrip ==
    \A escape_slashes \in BOOLEAN :
        LET written == json_serialize_string(text, escape_slashes)
            got == get_quoted_string(written \o <<QUOTE>>, 1)
        IN  got.ok /\ got.out = text /\ got.next = Len(written) + 1
=============================================================================

------------------------------ MODULE TomlText ------------------------------
(***************************************************************************)
(* The strings of toml.c: scan_string finds the end of a quoted string,    *)
(* toml_rtos converts the raw text into its value with normalize_string,   *)
(* and toml_ucs_to_utf8 and toml_utf8_to_ucs translate code points.  A     *)
(* string is a sequence of bytes; TLC types it piece by piece, and keeps   *)
(* beside it the code points the writer of the file meant.                 *)
(***************************************************************************)
EXTENDS Integers, Sequences, SequencesExt

CONSTANTS Chunks,     \* records [src, means]: bytes, and code points or <<-1>>
          MaxChunks,  \* bound: pieces in a text
          GROW,       \* bytes normalize_string grows its block by: 100
          SLACK       \* bytes it keeps free at the head of its loop: 10

\* What the constants must satisfy.
TomlTextAssumption ==
    /\ \A c \in Chunks : c.src \in Seq(0..255) /\ c.means \in Seq(Int)
    /\ MaxChunks \in Nat /\ SLACK \in Nat /\ GROW \in Nat /\ GROW > SLACK

VARIABLES text,   \* what stands between the delimiters
          means,  \* the code points it was written for
          typed

Init == text = << >> /\ means = << >> /\ typed = 0
Type(c) == /\ typed < MaxChunks
           /\ text' = text \o c.src /\ means' = means \o c.means
           /\ typed' = typed + 1
Next == \E c \in Chunks : Type(c)
Spec == Init /\ [][Next]_<<text, means, typed>>

NL == 10
QUOTE == 34
SQUOTE == 39
BACKSLASH == 92
Blank == {32, 9, 13, 10}
At(s, i) == IF i <= Len(s) THEN s[i] ELSE 0

\* The characters behind a backslash: b t n f r " and the backslash itself.
Escapes == [c \in {98, 116, 110, 102, 114, 34, 92} |->
               CASE c = 98 -> 8 [] c = 116 -> 9 [] c = 110 -> 10 [] c = 102 -> 12
                 [] c = 114 -> 13 [] OTHER -> c]
HexDigits == (48..57) \cup (65..70)
HexValue(c) == IF c <= 57 THEN c - 48 ELSE c - 55
HexCount(c) == CASE c = 117 -> 4 [] c = 85 -> 8 [] OTHER -> 0

-----------------------------------------------------------------------------
\* The last byte of the string token at s[1], 0 when it is not terminated or
\* an escape is wrong.  In a """ string the count of quotes is not reset by an
\* escape: quotes with escapes between them end the string as well.
ScanQuoted(s, first, quotes, newline) ==
    LET scan[p \in Nat, escape \in BOOLEAN, hexreq \in 0..8, qcnt \in 0..3] ==
          LET c == At(s, p)
          IN  CASE qcnt = quotes -> p - 1
                [] qcnt # quotes /\ c = 0 -> 0
                [] qcnt # quotes /\ c # 0 /\ escape ->
                     IF c \in DOMAIN Escapes \/ (newline /\ c = NL) THEN scan[p + 1, FALSE, 0, qcnt]
                     ELSE IF HexCount(c) > 0 THEN scan[p + 1, FALSE, HexCount(c), qcnt] ELSE 0
                [] qcnt # quotes /\ c # 0 /\ ~ escape /\ hexreq > 0 ->
                     IF c \in HexDigits THEN scan[p + 1, FALSE, hexreq - 1, qcnt] ELSE 0
                [] qcnt # quotes /\ ~ escape /\ hexreq = 0 /\ c = BACKSLASH -> scan[p + 1, TRUE, 0, qcnt]
                [] qcnt # quotes /\ ~ escape /\ hexreq = 0 /\ c = NL /\ ~ newline -> 0
                [] OTHER -> scan[p + 1, FALSE, 0, IF c = QUOTE THEN qcnt + 1 ELSE 0]
    IN  scan[first, FALSE, 0, 0]

Starts(s, i, c, n) == \A k \in 0..(n - 1) : At(s, i + k) = c

scan_string(s) ==
    CASE Starts(s, 1, SQUOTE, 3) ->
            LET ends == {p \in 4..Len(s) : Starts(s, p, SQUOTE, 3)}
            IN  IF ends = {} THEN 0 ELSE 2 + CHOOSE p \in ends : \A q \in ends : p <= q
      [] Starts(s, 1, QUOTE, 3) -> ScanQuoted(s, 4, 3, TRUE)
      [] Starts(s, 1, SQUOTE, 1) /\ ~ Starts(s, 1, SQUOTE, 3) ->
            LET ends == {p \in 2..Len(s) : s[p] \in {SQUOTE, NL}}
                end == CHOOSE p \in ends : \A q \in ends : p <= q
            IN  IF ends = {} THEN 0 ELSE IF s[end] = NL THEN 0 ELSE end
      [] Starts(s, 1, QUOTE, 1) /\ ~ Starts(s, 1, QUOTE, 3) -> ScanQuoted(s, 2, 1, FALSE)

-----------------------------------------------------------------------------
\* The bytes of a code point, << >> for the result -1.
Cont(code, shift) == 128 + ((code \div shift) % 64)

toml_ucs_to_utf8(code) ==
    CASE code < 0 \/ code \in 55296..57343 \/ code \in 65534..65535 -> << >>
      [] code \in 0..127 -> <<code>>
      [] code \in 128..2047 -> <<192 + (code \div 64), Cont(code, 1)>>
      [] code \in (2048..55295) \cup (57344..65533) ->
            <<224 + (code \div 4096), Cont(code, 64), Cont(code, 1)>>
      [] code \in 65536..2097151 ->
            <<240 + (code \div 262144), Cont(code, 4096), Cont(code, 64), Cont(code, 1)>>
      [] code \in 2097152..67108863 ->
            <<248 + (code \div 16777216), Cont(code, 262144), Cont(code, 4096), Cont(code, 64), Cont(code, 1)>>
      [] OTHER ->
            <<252 + (code \div 1073741824), Cont(code, 16777216), Cont(code, 262144),
              Cont(code, 4096), Cont(code, 64), Cont(code, 1)>>

\* Mutant: the lead byte of two bytes loses a bit of the code.
LeadBits_Short(i) == CASE i \in 0..127 -> <<1, i>> [] i \in 192..223 -> <<2, i % 16>>
                      [] i \in 224..239 -> <<3, i % 16>> [] i \in 240..247 -> <<4, i % 8>>
                      [] i \in 248..251 -> <<5, i % 4>> [] i \in 252..253 -> <<6, i % 2>>
                      [] OTHER -> <<0, 0>>

\* How many bytes a lead byte announces, and the bits of the code it carries.
LeadBits(i) == CASE i \in 0..127 -> <<1, i>> [] i \in 192..223 -> <<2, i % 32>>
                 [] i \in 224..239 -> <<3, i % 16>> [] i \in 240..247 -> <<4, i % 8>>
                 [] i \in 248..251 -> <<5, i % 4>> [] i \in 252..253 -> <<6, i % 2>>
                 [] OTHER -> <<0, 0>>

\* The code point at s[i] and the bytes consumed, <<-1, 1>> on failure.
toml_utf8_to_ucs(s, i) ==
    LET lead == LeadBits(s[i])
        n == lead[1]
        code[k \in 0..5] == IF k = 0 THEN lead[2] ELSE code[k - 1] * 64 + (s[i + k] % 64)
    IN  IF n = 0 \/ i + n - 1 > Len(s) THEN <<-1, 1>>
        ELSE IF \E k \in 1..(n - 1) : s[i + k] \notin 128..191 THEN <<-1, 1>>
        ELSE <<code[n - 1], n>>

-----------------------------------------------------------------------------
\* The code point in the n digits at s[i], -1 when a digit is wrong or the
\* number is above 0x7FFFFFFF, which toml_ucs_to_utf8 refuses.
HexCode(s, i, n, end) ==
    LET code[k \in 0..8] == IF k = 0 THEN 0 ELSE code[k - 1] * 16 + HexValue(s[i + k - 1])
    IN  IF i + n - 1 > end \/ (\E k \in 0..(n - 1) : At(s, i + k) \notin HexDigits)
           \/ (n = 8 /\ At(s, i) >= 56)
        THEN -1 ELSE code[n]

\* The size of the block at the head of the loop.
Grown(off, max) == IF off >= max - SLACK THEN max + GROW ELSE max

\* The bytes s[from..end] with their escapes converted; "fits" says that no byte
\* went beyond the block.  kill_line_ending_backslash drops a backslash at the
\* end of a line with the blanks that follow it.
normalize_string(s, from, end, kill) ==
    LET blanks[i \in Nat] == IF At(s, i) \in Blank THEN blanks[i + 1] ELSE i
        Bad(fits) == [ok |-> FALSE, out |-> << >>, fits |-> fits]
        run[i \in Nat, off \in Nat, size \in Nat, fits \in BOOLEAN] ==
          LET max == Grown(off, size)
              c == At(s, i + 1)
              Then(bytes, next) ==
                 LET rest == run[next, off + Len(bytes), max, fits /\ off + Len(bytes) <= max]
                 IN  [rest EXCEPT !.out = bytes \o @]
          IN  CASE i > end -> [ok |-> TRUE, out |-> << >>, fits |-> fits /\ off + 1 <= max]
                [] i <= end /\ s[i] # BACKSLASH -> Then(<<s[i]>>, i + 1)
                [] i = end /\ s[i] = BACKSLASH -> Bad(fits)
                [] i < end /\ s[i] = BACKSLASH /\ kill /\ (c = NL \/ (c = 13 /\ At(s, i + 2) = NL)) ->
                     Then(<< >>, blanks[i + 1])
                [] i < end /\ s[i] = BACKSLASH /\ c \in DOMAIN Escapes -> Then(<<Escapes[c]>>, i + 2)
                [] i < end /\ s[i] = BACKSLASH /\ HexCount(c) > 0 ->
                     LET code == HexCode(s, i + 2, HexCount(c), end)
                     IN  IF toml_ucs_to_utf8(code) = << >> THEN Bad(fits)
                         ELSE Then(toml_ucs_to_utf8(code), i + 2 + HexCount(c))
                [] OTHER -> Bad(fits)
    IN  run[from, 0, 0, TRUE]

\* The copy of a ''' string: each backslash before a newline goes, with the
\* blanks behind it (a \r\n counts as a newline).
kill_line_ending_backslash(s) ==
    LET blanks[i \in Nat] == IF At(s, i) \in Blank THEN blanks[i + 1] ELSE i
        kill[i \in Nat] ==
          IF i > Len(s) THEN << >>
          ELSE IF s[i] = BACKSLASH /\ (At(s, i + 1) = NL \/ (At(s, i + 1) = 13 /\ At(s, i + 2) = NL))
          THEN kill[blanks[i + 1]]
          ELSE <<s[i]>> \o kill[i + 1]
    IN  kill[1]

\* The value of the raw text src.
toml_rtos(src) ==
    LET n == Len(src)
        Triple(c) == Starts(src, 1, c, 3)
        Whole(c) == IF Triple(c) THEN n >= 6 /\ Starts(src, n - 2, c, 3) ELSE n >= 2 /\ src[n] = c
        from == CASE At(src, 4) = NL -> 5
                  [] At(src, 4) = 13 /\ At(src, 5) = NL -> 6
                  [] OTHER -> 4
        Bad == [ok |-> FALSE, out |-> << >>, fits |-> TRUE]
        Copy(s) == [ok |-> TRUE, out |-> s, fits |-> TRUE]
    IN  CASE src[1] = SQUOTE /\ ~ Whole(SQUOTE) -> Bad
          [] src[1] = SQUOTE /\ Whole(SQUOTE) ->
                IF Triple(SQUOTE) THEN Copy(kill_line_ending_backslash(SubSeq(src, from, n - 3)))
                                  ELSE Copy(SubSeq(src, 2, n - 1))
          [] src[1] = QUOTE /\ ~ Whole(QUOTE) -> Bad
          [] OTHER -> IF Triple(QUOTE) THEN normalize_string(src, from, n - 3, TRUE)
                                       ELSE normalize_string(src, 2, n - 1, TRUE)

-----------------------------------------------------------------------------
Delimiters == {<<QUOTE>>, <<SQUOTE>>, <<QUOTE, QUOTE, QUOTE>>, <<SQUOTE, SQUOTE, SQUOTE>>}

Source(d) == d \o text \o d
Token(d) == SubSeq(Source(d), 1, scan_string(Source(d)))

\* The code points of a string, read with toml_utf8_to_ucs.
Decoded(s) ==
    LET from[i \in Nat] == IF i > Len(s) THEN << >>
                           ELSE <<toml_utf8_to_ucs(s, i)[1]>> \o from[i + toml_utf8_to_ucs(s, i)[2]]
    IN  from[1]

IllegalCode(s) == \E i \in DOMAIN s :
    /\ s[i] = BACKSLASH /\ HexCount(At(s, i + 1)) > 0
    /\ toml_ucs_to_utf8(HexCode(s, i + 2, HexCount(s[i + 1]), Len(s))) = << >>

\* The last three bytes of a token are quotes, and the first of them is not
\* escaped.
EndsWithThree(t) ==
    LET backslashes[i \in Nat] == IF i > 0 /\ At(t, i) = BACKSLASH THEN 1 + backslashes[i - 1] ELSE 0
    IN  IsSuffix(<<QUOTE, QUOTE, QUOTE>>, t) /\ backslashes[Len(t) - 3] % 2 = 0

\* A string the scanner lets through can be converted, with two exceptions: an
\* escape that names no character, which only normalize_string sees, and a """
\* string whose counted quotes have an escape between them, so that the
\* token does not end with three quotes.
ScannedConverts ==
    \A d \in Delimiters :
        scan_string(Source(d)) # 0 =>
            \/ toml_rtos(Token(d)).ok
            \/ IllegalCode(Token(d))
            \/ Starts(Token(d), 1, QUOTE, 3) /\ ~ EndsWithThree(Token(d))

\* The value of a quoted string is what was written: each escape becomes its
\* character, every code point survives the way through toml_ucs_to_utf8 and
\* back, and nothing else is dropped or added.
MeansWhatWasWritten ==
    LET src == Source(<<QUOTE>>)
    IN  -1 \notin ToSet(means) /\ scan_string(src) = Len(src) /\ toml_rtos(src).ok
        => Decoded(toml_rtos(src).out) = means

\* normalize_string never writes beyond its block: the slack tested at the head
\* of the loop covers the longest character and the terminator.
BlockHolds == \A d \in Delimiters :
    scan_string(Source(d)) # 0 => toml_rtos(Token(d)).fits
=============================================================================

----------------------------- MODULE TomlNumber -----------------------------
(***************************************************************************)
(* toml_rtoi, by which every number of the configuration is read: the raw  *)
(* text is copied without its underscores into a block of BUF bytes,       *)
(* strtoll converts the copy, and the long long it returns is assigned to  *)
(* an int.  The widths are constants, so that TLC meets their limits.      *)
(***************************************************************************)
EXTENDS Integers, Sequences, SequencesExt

CONSTANTS INT,     \* 2^31 in the code: an int is in -INT..INT-1
          LLONG,   \* 2^63: a long long is in -LLONG..LLONG-1
          BUF,     \* sizeof(buf): 100
          MaxLen   \* bound: characters of a raw value

\* What the constants must satisfy.
TomlNumberAssumption ==
    /\ INT \in Nat \ {0} /\ LLONG \in Nat \ {0} /\ INT <= LLONG
    /\ BUF \in Nat \ {0} /\ MaxLen \in Nat

VARIABLE raw

Digits == {"0", "1", "9"}
Value(d) == CASE d = "0" -> 0 [] d = "1" -> 1 [] d = "9" -> 9
Chars == Digits \cup {"+", "-", "_", "x"}

Init == raw = << >>
Type(c) == Len(raw) < MaxLen /\ raw' = Append(raw, c)
Next == \E c \in Chars : Type(c)
Spec == Init /\ [][Next]_raw

At(s, i) == IF i <= Len(s) THEN s[i] ELSE "nul"
Signed(s) == At(s, 1) \in {"+", "-"}
Sign(s) == IF At(s, 1) = "-" THEN -1 ELSE 1

\* The number written in some digits of a base.
Number(digits, base) == FoldLeft(LAMBDA n, d : n * base + Value(d), 0, digits)

\* Beyond seven digits every number is out of range.
InLong(digits, base, sign) ==
    /\ Len(digits) <= 7
    /\ sign * Number(digits, base) \in (-LLONG)..(LLONG - 1)

\* strtoll(s, &endp, 0): the base comes from the prefix, digits are taken as far
\* as they go, and no digits at all is the number 0 with nothing consumed.
strtoll(s) ==
    LET from == IF Signed(s) THEN 2 ELSE 1
        hex == At(s, from) = "0" /\ At(s, from + 1) = "x" /\ At(s, from + 2) \in Digits
        base == IF hex THEN 16 ELSE IF At(s, from) = "0" THEN 8 ELSE 10
        first == IF hex THEN from + 2 ELSE from
        end[i \in Nat] == IF At(s, i) \in Digits /\ (base = 8 => At(s, i) # "9") THEN end[i + 1] ELSE i
        digits == SubSeq(s, first, end[first] - 1)
    IN  [value |-> IF InLong(digits, base, Sign(s)) THEN Sign(s) * Number(digits, base) ELSE 0,
         range |-> InLong(digits, base, Sign(s)),
         whole |-> IF digits = << >> THEN s = << >> ELSE end[first] > Len(s)]

\* The assignment of a long long to an int.
Wrap(n) == ((n + INT) % (2 * INT)) - INT

\* Mutant: a leading zero is copied like any digit.
toml_rtoi_LeadingZero(s) ==
    LET copy == SelectSeq(s, LAMBDA c : c # "_")
        n == strtoll(copy)
    IN  [ok |-> Len(copy) < BUF /\ n.range /\ n.whole, value |-> Wrap(n.value)]

\* Every byte of the copy and its terminator have room.
Copied(copy) == Len(copy) < BUF

toml_rtoi(s) ==
    LET rest == IF Signed(s) THEN Tail(s) ELSE s
        copy == SelectSeq(s, LAMBDA c : c # "_")
        n == strtoll(copy)
    IN  IF At(rest, 1) = "0"
        THEN [ok |-> Len(rest) = 1, value |-> 0]
        ELSE [ok |-> Copied(copy) /\ n.range /\ n.whole, value |-> Wrap(n.value)]

-----------------------------------------------------------------------------
\* The integers of a configuration file, said without strtoll: an optional
\* sign, then 0 or digits without a leading zero, underscores between them.
Numeral(s) ==
    LET body == IF Signed(s) THEN Tail(s) ELSE s
    IN  /\ body # << >>
        /\ \A i \in DOMAIN body : body[i] \in Digits \cup {"_"}
        /\ body[1] # "_" /\ (body[1] = "0" => Len(body) = 1)

Meant(s) == Sign(s) * Number(SelectSeq(s, LAMBDA c : c \in Digits), 10)

\* What toml_rtoi takes for a number is a numeral, and its value the number
\* written, with two exceptions: a number between the limits of int and long
\* long loses its upper bits, and a raw value that begins with underscores, or
\* is empty, is not a numeral but is converted all the same, 0x and octal
\* prefixes behind the underscores included.
ConvertsExactly ==
    LET r == toml_rtoi(raw)
        body == IF Signed(raw) THEN Tail(raw) ELSE raw
    IN  r.ok => \/ Numeral(raw) /\ r.value = Wrap(Meant(raw))
                \/ ~ Numeral(raw) /\ (raw = << >> \/ At(body, 1) = "_")

\* Every numeral that fits in an int, and in the block, is converted.
NumeralsAccepted ==
    Numeral(raw) /\ Len(raw) < BUF =>
        (Meant(raw) \in (-INT)..(INT - 1) => toml_rtoi(raw).ok /\ toml_rtoi(raw).value = Meant(raw))
=============================================================================

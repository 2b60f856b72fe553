------------------------------- MODULE Texts -------------------------------
(***************************************************************************)
(* The code that looks at texts and is proved about, side by side: the     *)
(* layout of an entry (Ensure, extended here), the functions that look at  *)
(* names, endpoints and configured values (Names) and the UTF-8 test of    *)
(* the JSON parser (JsonText, typed byte by byte).  They share nothing;    *)
(* "part" says which of them a behaviour is about, and only that one moves.*)
(***************************************************************************)
EXTENDS Ensure

CONSTANTS MAX, MaxLen,       \* Names: the longest name; bound on its texts
          Chunks, MaxChunks  \* JsonText: the pieces of a text; bound on them

VARIABLES part, text, typed

Nm == INSTANCE Names
Utf8 == INSTANCE JsonText

ASSUME TextsAssumption == MAX \in Nat /\ Utf8!JsonTextAssumption

-----------------------------------------------------------------------------
\* Nothing is laid out and nothing is typed yet, for one of the parts.
Begin(parts) ==
  /\ part \in parts
  /\ Init /\ (part # "entry" => db = "passwd")
  /\ text = <<>> /\ typed = 0

TextsInit == Begin({"entry", "name", "utf8"})

Entry == part = "entry" /\ Next /\ UNCHANGED <<part, text, typed>>
Name == part = "name" /\ Nm!Next /\ UNCHANGED <<vars, part, typed>>
Bytes == part = "utf8" /\ Utf8!Next /\ UNCHANGED <<vars, part>>

TextsNext == Entry \/ Name \/ Bytes

TextsSpec == TextsInit /\ [][TextsNext]_<<vars, part, text, typed>>

-----------------------------------------------------------------------------
\* is_valid_username accepts a letter and up to MAX - 1 word characters, what
\* it accepts reaches the server on every way but the two known ones, trim
\* takes the spaces at both ends, and an endpoint and a path meet in one slash.
NamesExact ==
  part = "name" => /\ Nm!ValidNames /\ Nm!ValidNamesReachTheServer
                   /\ Nm!TrimIsExact /\ Nm!OneSlash

\* is_valid_utf8 of the JSON parser accepts exactly the well-formed strings: no
\* overlong sequence, no surrogate half, nothing above U+10FFFF, none cut off.
Utf8Exact == part = "utf8" => Utf8!Utf8Exact
=============================================================================

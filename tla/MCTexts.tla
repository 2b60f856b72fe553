------------------------------ MODULE MCTexts ------------------------------
(***************************************************************************)
(* The code that reads, converts, keeps and lays out data, in one run: the *)
(* parts of Texts, and beside them JSON strings, escape by escape          *)
(* (JsonText again), JSON values (JsonTree), TOML strings and numbers      *)
(* (TomlText, TomlNumber).  As there, "part" says which one moves.         *)
(***************************************************************************)
EXTENDS Texts

VARIABLES means, heap, held, orphans, copied

typing == <<text, means, typed>>
treevars == <<heap, held, orphans, copied>>

-----------------------------------------------------------------------------
\* The bytes at which UTF-8 changes its rules, four of them.
ByteChunks == {<<b>> : b \in {0, 65, 127, 128, 143, 144, 159, 160, 191, 192, 193, 194,
                              223, 224, 225, 237, 239, 240, 241, 244, 245, 255}}

Digit(x) == IF x < 10 THEN 48 + x ELSE 55 + x
Hex4(x) == <<Digit(x \div 4096), Digit((x \div 256) % 16), Digit((x \div 16) % 16), Digit(x % 16)>>

\* Escapes at the limits of parse_utf16, broken ones and raw bytes, three of them.
EscapeChunks ==
  {<<92, 117>> \o Hex4(cp) :
     cp \in {0, 127, 128, 2047, 2048, 55295, 55296, 56319, 56320, 57343, 57344, 65535}}
  \cup {<<92, 110>>, <<92, 63>>, <<92, 117, 48>>}
  \cup {<<b>> : b \in {0, 10, 31, 32, 34, 47, 48, 92, 103, 195, 169}}
Escaped == INSTANCE JsonText WITH Chunks <- EscapeChunks, MaxChunks <- 3

\* Escapes at the limits of toml_ucs_to_utf8, plain characters, broken pieces.
TomlChunks ==
  {[src |-> <<92, 117>> \o Hex4(cp), means |-> <<cp>>] : cp \in {127, 2047, 55296}}
  \cup {[src |-> <<92, 85>> \o Hex4(cp \div 65536) \o Hex4(cp % 65536), means |-> <<cp>>] :
          cp \in {65533, 65535, 2097151, 67108863, 2147483647}}
  \cup {[src |-> <<92, c>>, means |-> <<IF c = 110 THEN 10 ELSE c>>] : c \in {110, 34, 92}}
  \cup {[src |-> <<c>>, means |-> <<c>>] : c \in {65, 39}}
  \cup {[src |-> s, means |-> <<-1>>] :
          s \in {<<10>>, <<34>>, <<34, 34>>, <<92>>, <<92, 63>>, <<92, 117, 48>>,
                 <<92, 85, 56, 48, 48, 48, 48, 48, 48, 48>>}}
Toml == INSTANCE TomlText WITH Chunks <- TomlChunks, MaxChunks <- 3, GROW <- 11, SLACK <- 10

\* An int of 8 bits, a long long of 16, a block one byte shorter than the texts.
Num == INSTANCE TomlNumber WITH raw <- text, INT <- 128, LLONG <- 32768, BUF <- 5, MaxLen <- 6

Tree == INSTANCE JsonTree WITH N <- 4, Names <- {"x"}

ASSUME /\ Escaped!JsonTextAssumption
       /\ Toml!TomlTextAssumption /\ Num!TomlNumberAssumption

-----------------------------------------------------------------------------
MCInit ==
  /\ Begin({"entry", "name", "utf8", "escapes", "toml", "number", "tree"})
  /\ means = <<>> /\ Tree!Init

Escapes == part = "escapes" /\ Escaped!Next /\ UNCHANGED <<vars, part, means, treevars>>
TomlString == part = "toml" /\ Toml!Next /\ UNCHANGED <<vars, part, treevars>>
Number == part = "number" /\ Num!Next /\ UNCHANGED <<vars, part, means, typed, treevars>>
UseTree == part = "tree" /\ Tree!Next /\ UNCHANGED <<vars, part, typing>>

MCNext == \/ TextsNext /\ UNCHANGED <<means, treevars>>
          \/ Escapes \/ TomlString \/ Number \/ UseTree

MCSpec == MCInit /\ [][MCNext]_<<vars, part, typing, treevars>>

-----------------------------------------------------------------------------
\* process_string stays in its block, also on its way to refusing a string, no
\* escape turns well-formed UTF-8 into something else, and every string is read
\* back from what json_serialize_string makes of it.
EscapesSound ==
  part = "escapes" => /\ Escaped!OutputFits /\ Escaped!EscapesStayWellFormed
                      /\ Escaped!RoundTrip

\* A TOML string that scan_string lets through is converted by toml_rtos, but
\* for two known exceptions, to what was written, without leaving the block
\* normalize_string grows.
StringsConvert ==
  part = "toml" => Toml!ScannedConverts /\ Toml!MeansWhatWasWritten /\ Toml!BlockHolds

\* toml_rtoi converts every numeral that fits in an int, and what else it
\* accepts loses its upper bits or begins with an underscore.
NumbersConvert == part = "number" => Num!ConvertsExactly /\ Num!NumeralsAccepted

\* Every JSON value has one owner and knows it, also when any allocation fails,
\* but for the value of one failed dotset; a deep copy is equal and shares
\* nothing with its original.
OwnedOnce == part = "tree" => Tree!OwnedOnce /\ Tree!ParentsTrue /\ Tree!CopyFaithful
=============================================================================

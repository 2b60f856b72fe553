------------------------------- MODULE Names -------------------------------
(***************************************************************************)
(* The functions of libnss that look at the characters of a string:        *)
(* is_valid_username, is_valid_groupname, match with the pattern of        *)
(* stns_exec_cmd, trim and TRIM_SLASH, and the length test of              *)
(* stns_key_wrapper.  A string is a sequence of characters, one or two of  *)
(* each class the code tells apart; TLC types it character by character.   *)
(***************************************************************************)
EXTENDS Integers, Sequences, SequencesExt

CONSTANTS
  MAX,     \* MAX_USERNAME_LENGTH, MAX_GROUPNAME_LENGTH
  MaxLen   \* bound: length of the strings

VARIABLE text

alpha == {"a", "z"}
digit == {"7"}
space == {" "}
Chars == alpha \cup digit \cup space \cup {"-", "_", "/", "?"}

Init == text = <<>>
Type(c) == Len(text) < MaxLen /\ text' = Append(text, c)
Next == \E c \in Chars : Type(c)
Spec == Init /\ [][Next]_text

\* TRUE for the result 0.  NULL is refused like the empty name.
is_valid_username(s) ==
  /\ Len(s) # 0 /\ Len(s) <= MAX /\ s[1] \in alpha
  /\ LET rest[i \in 2..(Len(s) + 1)] ==
           i > Len(s) \/ (s[i] \in alpha \cup digit \cup {"-", "_"} /\ rest[i + 1])
     IN rest[2]

is_valid_groupname(s) == is_valid_username(s)

\* match("^[a-zA-Z0-9_.=?]+$", s)
match(s) == s # <<>> /\ \A i \in DOMAIN s : s[i] \in alpha \cup digit \cup {"_", ".", "=", "?"}

\* The path a lookup by name passes to query_wrapper, "users?name=" in short.
Path(s) == <<"a", "?", "a", "=">> \o s

\* Mutant: the greatest length is accepted.
KeyWrapperAccepts_Inclusive(s) == Len(s) <= MAX

\* strnlen(name, MAX) >= MAX ends the key wrapper.
KeyWrapperAccepts(s) == Len(s) < MAX

\* The end first, then the front of what is left.
trim(s) ==
  LET last[i \in 0..Len(s)] == IF i > 0 /\ s[i] \in space THEN last[i - 1] ELSE i
      cut == SubSeq(s, 1, last[Len(s)])
      first[i \in 1..(Len(cut) + 1)] == IF i <= Len(cut) /\ cut[i] \in space THEN first[i + 1] ELSE i
  IN SubSeq(cut, first[1], Len(cut))

TRIM_SLASH(s) == IF Len(s) > 0 /\ s[Len(s)] = "/" THEN SubSeq(s, 1, Len(s) - 1) ELSE s

-----------------------------------------------------------------------------
Word(s) == \A i \in DOMAIN s : s[i] \in alpha \cup digit \cup {"-", "_"}

\* The loop of is_valid_username and is_valid_groupname accepts exactly a
\* letter followed by at most MAX - 1 letters, digits, dashes and underscores.
ValidNames ==
  is_valid_username(text) <=>
    \E c \in alpha : \E n \in 0..(MAX - 1) :
      Len(text) = n + 1 /\ text[1] = c /\ Word(SubSeq(text, 2, n + 1))

\* A name the lookups accept reaches the server on every way but two: match
\* keeps a name with a dash from query_wrapper and from chain_ssh_wrapper, and
\* stns_key_wrapper refuses a name of the greatest length.
ValidNamesReachTheServer ==
  is_valid_username(text) =>
    /\ match(Path(text)) <=> \A i \in DOMAIN text : text[i] # "-"
    /\ match(text) <=> match(Path(text))
    /\ KeyWrapperAccepts(text) <=> Len(text) # MAX

\* trim removes nothing but spaces, all of them at both ends and none between:
\* the two loops and the shift in place do not disturb each other.
TrimIsExact ==
  LET t == trim(text)
  IN /\ \E i, j \in 0..Len(text) :
          /\ i + Len(t) + j = Len(text)
          /\ t = SubSeq(text, i + 1, i + Len(t))
          /\ \A k \in (1..i) \cup ((Len(text) - j + 1)..Len(text)) : text[k] \in space
     /\ t # <<>> => t[1] \notin space /\ t[Len(t)] \notin space

\* "%s/%s" of an endpoint and a path has one slash between the two, unless the
\* configured endpoint ends with two or more.
OneSlash ==
  LET url == TRIM_SLASH(text) \o <<"/">>
      n == Len(url)
  IN (n > 1 /\ url[n - 1] = "/") <=> IsSuffix(<<"/", "/">>, text)
=============================================================================

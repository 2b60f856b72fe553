------------------------------- MODULE Config -------------------------------
(***************************************************************************)
(* stns_load_config and stns_unload_config: which field of stns_conf_t     *)
(* holds what, from the TOML file to the last free.  A field is            *)
(* uninitialised (the structure is a local variable of the callers), NULL, *)
(* a number, or the owner of the heap block of the same name.              *)
(***************************************************************************)
EXTENDS Integers, Sequences

CONSTANTS
  Keys,        \* the fields in the order of the code: [name, method, default]
  Spellings,   \* how a value may be written, see Method
  MaxHeaders   \* bound: keys of [http_headers] (MAXBUF + 1 in the code)

\* method is "toml_rtos", "toml_rtoi", "toml_rtob", or "temporary" for the three
\* long fields, which are read into a variable that has the default already;
\* default is "null", "string" (TOML_STR allocates it) or "number".
ConfigAssumption ==
  /\ Keys \in Seq([name : STRING, default : {"null", "string", "number"},
                   method : {"toml_rtos", "toml_rtoi", "toml_rtob", "temporary"}])
  /\ \A k, l \in DOMAIN Keys : Keys[k].name = Keys[l].name => k = l
  /\ \A k \in DOMAIN Keys :
       /\ Keys[k].default = "string" \/ Keys[k].name = "cache_dir" => Keys[k].method = "toml_rtos"
       /\ Keys[k].name \notin {"http_headers", "headers"}
  /\ [name |-> "api_endpoint", default |-> "string", method |-> "toml_rtos"]
       \in {Keys[k] : k \in DOMAIN Keys}
  /\ {"use_cached", "cached_enable"} \subseteq {Keys[k].name : k \in DOMAIN Keys}
  /\ Spellings \subseteq {"absent", "good", "bad", "mistyped"} /\ MaxHeaders \in Nat

VARIABLES
  pc, j,      \* next key, then next header
  conf,       \* the fields, by name
  cached,     \* c->cached_enable
  values,     \* value of each entry of http_headers->headers
  table,      \* c->http_headers is not NULL
  heap,       \* live blocks
  files,      \* open files
  tab,        \* the TOML document is allocated
  fault,      \* a wild or repeated free, or a wild read, happened
  raw         \* history: how the keys and the headers were written

vars == <<pc, j, conf, cached, values, table, heap, files, tab, fault, raw>>

Names == {Keys[k].name : k \in DOMAIN Keys}
Block(n) == <<n, 0>>
ValueOf(k) == <<"value", k>>
KeyOf(k) == <<"key", k>>

Init ==
  /\ pc = "fopen" /\ j = 1 /\ conf = [n \in Names |-> "uninitialised"]
  /\ cached = "uninitialised" /\ values = <<>> /\ table = FALSE /\ heap = {}
  /\ files = 0 /\ tab = FALSE /\ fault = FALSE
  /\ raw = [keys |-> [n \in Names |-> "absent"], headers |-> <<>>]

\* fopen, toml_parse_file; a file that does not parse is not closed.
Open ==
  /\ pc = "fopen"
  /\ \/ pc' = "failed" /\ UNCHANGED <<files, tab>>
     \/ pc' = "failed" /\ files' = 1 /\ UNCHANGED tab
     \/ pc' = "keys" /\ files' = 1 /\ tab' = TRUE
  /\ UNCHANGED <<j, conf, cached, values, table, heap, fault, raw>>

\* What a method leaves in the field.  "mistyped" is refused before anything is
\* stored (a string without quotes, a boolean that is none, a number with a
\* leading zero), "bad" afterwards (an illegal escape, a number followed by
\* letters).
Method(method, spelling) ==
  CASE spelling = "good" -> IF method = "toml_rtos" THEN "block" ELSE "number"
    [] spelling = "bad" /\ method = "toml_rtos" -> "null"
    [] spelling = "bad" /\ method = "toml_rtoi" -> "number"
    [] spelling # "good" /\ method = "temporary" -> "number"
    [] OTHER -> "uninitialised"

\* Mutant: a string that is not in the file leaves its field alone.
FieldOf_NoDefault(key, spelling) ==
  IF spelling # "absent" \/ key.method = "toml_rtos" THEN Method(key.method, spelling)
  ELSE key.default

\* GET_TOML_BYKEY, GET_TOML_BY_TABLE_KEY
FieldOf(key, spelling) ==
  IF spelling # "absent" THEN Method(key.method, spelling)
  ELSE IF key.default = "string" THEN "block" ELSE key.default

GetKey ==
  /\ pc = "keys" /\ j <= Len(Keys) /\ j' = j + 1
  /\ \E s \in Spellings :
       LET n == Keys[j].name
           v == FieldOf(Keys[j], s)
       IN /\ conf' = [conf EXCEPT ![n] = v]
          /\ heap' = IF v = "block" THEN heap \cup {Block(n)} ELSE heap
          /\ raw' = [raw EXCEPT !.keys[n] = s]
  /\ UNCHANGED <<pc, cached, values, table, files, tab, fault>>

\* TRIM_SLASH reads api_endpoint and cache_dir unless they are NULL.
TrimSlash ==
  /\ pc = "keys" /\ j > Len(Keys) /\ pc' = "headers" /\ j' = 1
  /\ fault' = (fault \/ \E n \in Names \cap {"api_endpoint", "cache_dir"} : conf[n] = "uninitialised")
  /\ \E b \in BOOLEAN :
       /\ table' = b
       /\ heap' = IF b THEN heap \cup {Block("http_headers")} ELSE heap
  /\ UNCHANGED <<conf, cached, values, files, tab, raw>>

\* The next key of [http_headers]: the array grows, value and key are copied.
Header ==
  /\ pc = "headers" /\ table /\ j <= MaxHeaders /\ j' = j + 1
  /\ \E s \in Spellings \ {"absent"} :
       LET v == Method("toml_rtos", s)
       IN /\ values' = Append(values, v)
          /\ heap' = heap \cup {Block("headers"), KeyOf(j)}
                          \cup (IF v = "block" THEN {ValueOf(j)} ELSE {})
          /\ raw' = [raw EXCEPT !.headers = Append(@, s)]
  /\ UNCHANGED <<pc, conf, cached, table, files, tab, fault>>

\* stns_force_create_cache_dir (CacheDir), fclose, toml_free, and use_cached,
\* which switches cached_enable on; an uninitialised field may read as either.
Loaded ==
  /\ pc = "headers" /\ pc' = "loaded" /\ files' = files - 1 /\ tab' = FALSE
  /\ \E u, e \in BOOLEAN :
       /\ raw.keys["use_cached"] = "absent" => ~u
       /\ raw.keys["cached_enable"] = "absent" => ~e
       /\ cached' = IF u THEN "on" ELSE IF e THEN "on" ELSE "off"
  /\ UNCHANGED <<j, conf, values, table, heap, fault, raw>>

\* inner_http_request measures api_endpoint and the headers' values unless the
\* request goes to the socket of cache-stnsd.
Use ==
  /\ pc = "loaded" /\ pc' = "used"
  /\ fault' = (fault \/ (cached = "off" /\ ( \/ conf["api_endpoint"] # "block"
                                         \/ \E k \in DOMAIN values : values[k] # "block")))
  /\ UNCHANGED <<j, conf, cached, values, table, heap, files, tab, raw>>

\* UNLOAD_TOML_BYKEY of the string fields.
Strings == {n \in Names : \E k \in DOMAIN Keys : Keys[k].name = n /\ Keys[k].method = "toml_rtos"}

UnloadFields ==
  /\ pc \in {"loaded", "used"} /\ pc' = "fields" /\ j' = 1
  /\ fault' = (fault \/ \E n \in Strings : conf[n] = "uninitialised")
  /\ heap' = heap \ {Block(n) : n \in Strings}
  /\ UNCHANGED <<conf, cached, values, table, files, tab, raw>>

\* One turn of the loop: it reads the array it freed in the turn before.
UnloadHeader ==
  /\ pc = "fields" /\ j <= Len(values) /\ j' = j + 1
  /\ fault' = (fault \/ Block("headers") \notin heap \/ values[j] = "uninitialised")
  /\ heap' = heap \ {ValueOf(j), KeyOf(j), Block("headers")}
  /\ UNCHANGED <<pc, conf, cached, values, table, files, tab, raw>>

UnloadHeaders ==
  /\ pc = "fields" /\ j > Len(values) /\ pc' = "unloaded"
  /\ heap' = heap \ {Block("http_headers")}
  /\ UNCHANGED <<j, conf, cached, values, table, files, tab, fault, raw>>

Next == Open \/ GetKey \/ TrimSlash \/ Header \/ Loaded \/ Use \/ UnloadFields
        \/ UnloadHeader \/ UnloadHeaders

Spec == Init /\ [][Next]_vars

-----------------------------------------------------------------------------
\* Every field of a loaded configuration has a value, unless its key is in the
\* file and its value is not of the type the method reads (never for the three
\* long fields): the callers test for NULL only, and for those keys they find
\* what was on the stack.
FieldsDefined ==
  pc = "loaded" =>
    \A k \in DOMAIN Keys :
      conf[Keys[k].name] = "uninitialised" =>
        raw.keys[Keys[k].name] \in {"mistyped", "bad"} /\ Keys[k].method # "temporary"

\* Loading, using and unloading is sound for every file whose strings are
\* strings, whose api_endpoint and header value have no illegal escape, and
\* that has at most one HTTP header: with two, stns_unload_config reads and
\* frees the freed array.
FaultExplained ==
  fault => \/ \E n \in Strings : raw.keys[n] = "mistyped"
           \/ \E k \in DOMAIN raw.headers : raw.headers[k] \in {"mistyped", "bad"}
           \/ raw.keys["api_endpoint"] = "bad"
           \/ Len(raw.headers) >= 2

\* What stns_load_config took is given back: by itself when it fails, whose
\* callers return at once, and by stns_unload_config otherwise.  Only the file
\* that does not parse stays open.
NothingLeft ==
  /\ pc = "failed" => heap = {} /\ ~tab
  /\ pc = "unloaded" => heap = {} /\ ~tab /\ files = 0
=============================================================================
